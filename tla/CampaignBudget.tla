---------------------------- MODULE CampaignBudget ----------------------------
(***************************************************************************)
(* campaign/budget.py: CampaignBudgetLedger, driven the way campaign/      *)
(* routing.py and campaign/fixture_runtime.py drive it: admit, perform the *)
(* request, charge what it used, hand the event to the sink that writes    *)
(* budget-charges/NNNNNN.json; close and write budget-closeout.json once.  *)
(* The process may die at any point; the next one rebuilds the ledger from *)
(* the charge files, event by event.                                       *)
(*                                                                         *)
(* An amount is a function over Fields (requests, tokens, cost, ...); the  *)
(* cost also counts against the total.  An event keeps its request and     *)
(* what it used: hashes, purposes and times tell nothing apart here.       *)
(***************************************************************************)
EXTENDS Integers, Sequences, FiniteSets, SequencesExt, Sums

CONSTANTS
  Fields,        \* the charged quantities, "cost" among them
  Limits,        \* bucket -> field -> ceiling (the SubBudgets)
  MaxTotalCost,  \* max_total_cost_microusd
  Policed,       \* whether a route policy is given
  Primary,       \* its primary profile
  Fallback,      \* its fallback profile or None
  Requests,      \* [capability, profile] a caller may want to perform
  Reserves,      \* the amounts callers reserve
  Uses,          \* the amounts a performed request may turn out to use
  MaxAttempts,   \* bound on the number of performed requests
  MaxRestarts,    \* bound on the number of deaths
  Nil

Buckets == DOMAIN Limits

ASSUME BudgetAssumption ==
  /\ "cost" \in Fields
  /\ IsFiniteSet(Buckets) /\ "model" \in Buckets /\ Nil \notin Buckets
  /\ Limits \in [Buckets -> [Fields -> Nat]]
  /\ Reserves \subseteq [Fields -> Nat] /\ Uses \subseteq [Fields -> Nat]
  /\ MaxTotalCost \in Nat /\ MaxAttempts \in Nat /\ MaxRestarts \in Nat
  /\ Policed \in BOOLEAN
  /\ Fallback # Nil => "fallback_model" \in Buckets
  /\ \A r \in Requests : r.capability \in Buckets /\ r.profile # Nil

VARIABLES
  events,     \* _events
  totals,     \* _totals and _fallback_totals, by bucket
  exceeded,   \* _exceeded, as the set of its bounds
  closed,     \* _closed
  charges,      \* the charge files, in sequence order
  closeout,   \* budget-closeout.json: [exceeded, count] or None
  phase,      \* what the one process of the campaign is doing
  demand,     \* the request in hand: [request, used]
  attempts,   \* history: requests performed
  restarts

memory == <<events, totals, exceeded, closed>>
budgetVars == <<events, totals, exceeded, closed, charges, closeout, phase, demand,
          attempts, restarts>>

NoAmount == [f \in Fields |-> 0]
NoDemand == [request |-> Nil, used |-> NoAmount]
FreshLedger ==
  /\ events = <<>>
  /\ totals = [b \in Buckets |-> NoAmount]
  /\ exceeded = {}
  /\ closed = FALSE

BudgetInit ==
  /\ FreshLedger
  /\ charges = <<>>
  /\ closeout = Nil
  /\ phase = "loading"
  /\ demand = NoDemand
  /\ attempts = 0
  /\ restarts = 0
-----------------------------------------------------------------------------
\* Slip: the fallback route spends the primary sub-budget.
SharedBucket(r) == r.capability

\* _model_bucket: None is the refusal of an unauthorized route.
Bucket(r) ==
  IF r.capability # "model" THEN r.capability
  ELSE IF ~Policed \/ r.profile = Primary THEN "model"
  ELSE IF r.profile = Fallback THEN "fallback_model"
  ELSE Nil

CostOf(t) == SumOver([b \in Buckets |-> t[b]["cost"]])
TotalCost == CostOf(totals)

\* Slip: a breach of the total is filed under another bound.
MisnamedTotal == <<"total", "requests">>

Total == <<"total", "cost">>

\* _note_breaches: the bounds bucket b, and the total, now exceed.
Breaches(b, t) ==
  {<<b, f>> : f \in {g \in Fields : t[b][g] > Limits[b][g]}}
  \cup {c \in {Total} : CostOf(t) > MaxTotalCost}

Added(b, used) == [totals EXCEPT ![b] = [f \in Fields |-> @[f] + used[f]]]

\* An event enters the ledger: charge() and the constructor's loop alike.
Enter(event) ==
  LET b == Bucket(event.request)
      t == Added(b, event.used)
  IN  /\ events' = Append(events, event)
      /\ totals' = t
      /\ exceeded' = exceeded \cup Breaches(b, t)

\* Slip: a charge file that breached a bound is not noticed on the way back in.
LoadQuietly ==
  /\ phase = "loading"
  /\ Len(events) < Len(charges)
  /\ LET event == charges[Len(events) + 1]
     IN  /\ events' = Append(events, event)
         /\ totals' = Added(Bucket(event.request), event.used)
  /\ UNCHANGED <<exceeded, closed, charges, closeout, phase, demand, attempts, restarts>>

\* The constructor's loop over initial_events.
Load ==
  /\ phase = "loading"
  /\ Len(events) < Len(charges)
  /\ Enter(charges[Len(events) + 1])
  /\ UNCHANGED <<closed, charges, closeout, phase, demand, attempts, restarts>>

Loaded ==
  /\ phase = "loading"
  /\ Len(events) = Len(charges)
  /\ phase' = "ready"
  /\ UNCHANGED <<memory, charges, closeout, demand, attempts, restarts>>

\* Slip: a breached ledger still admits what fits its bucket.
AdmitBreached(r, reserve) ==
  /\ phase = "ready"
  /\ attempts < MaxAttempts
  /\ ~closed
  /\ Bucket(r) # Nil
  /\ \A f \in Fields : totals[Bucket(r)][f] + reserve[f] <= Limits[Bucket(r)][f]
  /\ phase' = "admitted"
  /\ demand' = [request |-> r, used |-> NoAmount]
  /\ UNCHANGED <<memory, charges, closeout, attempts, restarts>>

\* admit(): it refuses, or the caller goes on to perform the request.
AdmitRequest(r, reserve) ==
  /\ phase = "ready"
  /\ attempts < MaxAttempts
  /\ ~closed
  /\ exceeded = {}
  /\ Bucket(r) # Nil
  /\ \A f \in Fields : totals[Bucket(r)][f] + reserve[f] <= Limits[Bucket(r)][f]
  /\ TotalCost + reserve["cost"] <= MaxTotalCost
  /\ phase' = "admitted"
  /\ demand' = [request |-> r, used |-> NoAmount]
  /\ UNCHANGED <<memory, charges, closeout, attempts, restarts>>

\* The gateway or tool is called: it succeeds, fails or raises, and is billed.
PerformRequest(used) ==
  /\ phase = "admitted"
  /\ attempts' = attempts + 1
  /\ phase' = "performed"
  /\ demand' = [demand EXCEPT !.used = used]
  /\ UNCHANGED <<memory, charges, closeout, restarts>>

\* charge(), up to its event_sink.
Charge ==
  /\ phase = "performed"
  /\ ~closed
  /\ Enter(demand)
  /\ phase' = "charged"
  /\ UNCHANGED <<closed, charges, closeout, demand, attempts, restarts>>

\* Slip: the event is kept in memory only.
SinkNothing ==
  /\ phase = "charged"
  /\ phase' = "ready"
  /\ demand' = NoDemand
  /\ UNCHANGED <<memory, charges, closeout, attempts, restarts>>

\* Slip: a resumed process numbers its charges from one again.
SinkAtOne ==
  /\ phase = "charged"
  /\ charges' = IF charges = <<>> THEN <<demand>> ELSE [charges EXCEPT ![1] = demand]
  /\ phase' = "ready"
  /\ demand' = NoDemand
  /\ UNCHANGED <<memory, closeout, attempts, restarts>>

\* event_sink: persist_charge writes the file of this sequence.
Sink ==
  /\ phase = "charged"
  /\ charges' = Append(charges, demand)
  /\ phase' = "ready"
  /\ demand' = NoDemand
  /\ UNCHANGED <<memory, closeout, attempts, restarts>>

\* close(): the statement is a function of the ledger (wall time left out).
CloseLedger ==
  /\ phase = "ready"
  /\ ~closed
  /\ closed' = TRUE
  /\ phase' = "closing"
  /\ UNCHANGED <<events, totals, exceeded, charges, closeout, demand, attempts, restarts>>

\* Slip: the closeout says what it likes to see.
CleanStatement == [exceeded |-> {}, count |-> Len(events)]

Statement == [exceeded |-> exceeded, count |-> Len(events)]

\* _write_once of budget-closeout.json: an equal one is accepted.
WriteCloseout ==
  /\ phase = "closing"
  /\ closeout \in {Nil, Statement}
  /\ closeout' = Statement
  /\ phase' = "ready"
  /\ UNCHANGED <<memory, charges, demand, attempts, restarts>>

\* ... and a different one raises: "immutable runtime record differs".
RefuseCloseout ==
  /\ phase = "closing"
  /\ closeout \notin {Nil, Statement}
  /\ phase' = "off"
  /\ UNCHANGED <<memory, charges, closeout, demand, attempts, restarts>>

\* The process ends, killed or not: what it had in memory is gone.
LedgerDies ==
  /\ phase # "off"
  /\ restarts < MaxRestarts
  /\ restarts' = restarts + 1
  /\ phase' = "off"
  /\ UNCHANGED <<memory, charges, closeout, demand, attempts>>

LedgerResumes ==
  /\ phase = "off"
  /\ events' = <<>>
  /\ totals' = [b \in Buckets |-> NoAmount]
  /\ exceeded' = {}
  /\ closed' = FALSE
  /\ demand' = NoDemand
  /\ phase' = "loading"
  /\ UNCHANGED <<charges, closeout, attempts, restarts>>

BudgetNext ==
  \/ Load \/ Loaded
  \/ \E r \in Requests, reserve \in Reserves : AdmitRequest(r, reserve)
  \/ \E used \in Uses : PerformRequest(used)
  \/ Charge \/ Sink
  \/ CloseLedger \/ WriteCloseout \/ RefuseCloseout
  \/ LedgerDies \/ LedgerResumes

BudgetSpec == BudgetInit /\ [][BudgetNext]_budgetVars
-----------------------------------------------------------------------------
\* What a run of events used of a field, in one bucket.
Spent(es, b, f) ==
  Tally([i \in 1..Len(es) |-> IF Bucket(es[i].request) = b THEN es[i].used[f] ELSE 0])

SpentCost(es) == Tally([i \in 1..Len(es) |-> es[i].used["cost"]])

BudgetTypeOK ==
  /\ totals \in [Buckets -> [Fields -> Nat]]
  /\ exceeded \subseteq (Buckets \X Fields) \cup {<<"total", "cost">>}
  /\ closed \in BOOLEAN
  /\ \A i \in DOMAIN charges : charges[i].request \in Requests /\ charges[i].used \in Uses
  /\ phase \in {"off", "loading", "ready", "admitted", "performed", "charged", "closing"}
  /\ attempts \in 0..MaxAttempts /\ restarts \in 0..MaxRestarts

\* budget.py:324-327, "Once any bound is breached the ledger admits nothing
\* further": over all processes of the campaign, no bound was exceeded before
\* its last charge.
OnlyLastBreaches ==
  charges # <<>> =>
    /\ \A b \in Buckets, f \in Fields : Spent(Front(charges), b, f) <= Limits[b][f]
    /\ SpentCost(Front(charges)) <= MaxTotalCost

\* The running totals and breaches, in a first process or a resumed one, are
\* those of the events: a reload forgets no breach (budget.py:364-383).  An attempt is
\* missing from the charge files only where a process died under it.
LedgerExact ==
  /\ phase # "off" =>
       /\ \A b \in Buckets, f \in Fields : totals[b][f] = Spent(events, b, f)
       /\ exceeded = UNION {Breaches(b, totals) : b \in Buckets}
  /\ attempts <= Len(charges) + restarts
                   + (IF phase \in {"performed", "charged"} THEN 1 ELSE 0)

\* The two together, for the runs: a bound binds after every restart because the ledger
\* comes back exact (budget.py:324-327, 364-383).
BudgetBinds == OnlyLastBreaches /\ LedgerExact

\* budget.py:108-110: what the fallback profile used is not charged to the
\* primary route, nor the other way round, and no other profile charges at all.
RoutesApart ==
  phase # "off" /\ Policed =>
    /\ \A i \in DOMAIN events :
         LET r == events[i].request
         IN  r.capability = "model" => r.profile \in {Primary, Fallback}
    /\ \A f \in Fields :
         totals["model"][f] =
           Tally([i \in 1..Len(events) |->
                    IF /\ events[i].request.capability = "model"
                       /\ events[i].request.profile = Primary
                    THEN events[i].used[f] ELSE 0])

\* While a process runs, its ledger is the charge files and at most one charge
\* more; so the next sequence number is always free (budget.py:367).
FilesFollow ==
  phase \in {"ready", "admitted", "performed", "charged", "closing"} =>
    charges = IF phase = "charged" THEN Front(events) ELSE events

\* budget.py:271-273: the closeout on disk hides no breach of what it counts.
CloseoutHonest ==
  closeout # Nil =>
    LET counted == SubSeq(charges, 1, closeout.count)
    IN  /\ closeout.count <= Len(charges)
        /\ \A b \in Buckets, f \in Fields :
             Spent(counted, b, f) > Limits[b][f] => <<b, f>> \in closeout.exceeded
        /\ SpentCost(counted) > MaxTotalCost => Total \in closeout.exceeded

\* A charge survives everything: no step, and no restart, drops or alters one.
ChargesStay == [][ IsPrefix(charges, charges') ]_budgetVars
=============================================================================
