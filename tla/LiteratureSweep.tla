---------------------------- MODULE LiteratureSweep ----------------------------
(***************************************************************************)
(* phase4d/discovery_v2.py: sweep, the budgeted discovery over queries,    *)
(* providers and pages, and verify_report_v2, which rechecks its report    *)
(* from the ledger alone.                                                  *)
(*                                                                         *)
(* The transport is external and behaves as phase4b/live_transport.py: it  *)
(* answers within the byte limit it was given or fails.  A cursor is the   *)
(* number of a page, a candidate the identifier its provider gives it.     *)
(* Grounding, URLs, identities and pacing are checks of text.              *)
(***************************************************************************)
EXTENDS Integers, Sequences, FiniteSets, SequencesExt, Sums

CONSTANTS
  Queries,          \* grounded queries: 1..Queries
  Providers,        \* the provider allowlist, a sequence
  Pages,            \* max_pages_per_query
  Items,            \* identifiers a provider may answer with
  Sizes,            \* sizes a response may have, 0 among them
  SweepRequests,    \* max_requests of the policy
  SweepBytes,       \* max_response_bytes of the policy
  SweepPerRequest,  \* max_response_bytes_per_request of the configuration
  SweepCandidates   \* max_candidates of the policy

ASSUME SweepAssumption ==
  /\ Queries \in Nat /\ Pages \in Nat \ {0} /\ Sizes \subseteq Nat
  /\ Providers \in Seq(ToSet(Providers)) /\ Providers # <<>>
  /\ SweepRequests \in Nat /\ SweepBytes \in Nat
  /\ SweepPerRequest \in Nat /\ SweepCandidates \in Nat

VARIABLES
  requestLedger,    \* one entry per request, the refused one included
  found,            \* candidates in rank order: <<provider, identifier>>
  place,            \* the query, provider and page that come next
  resolved,         \* providers whose addresses are known
  sweeping          \* "sweeping", "reported", "raised"

sweepVars == <<requestLedger, found, place, resolved, sweeping>>

SweepInit ==
  /\ requestLedger = <<>> /\ found = <<>> /\ resolved = {}
  /\ place = [query |-> 1, provider |-> 1, page |-> 1] /\ sweeping = "sweeping"
-----------------------------------------------------------------------------
Networked(ledger) == {i \in DOMAIN ledger : ledger[i].network}
Received(ledger) == Tally([i \in DOMAIN ledger |-> ledger[i].bytes])

OverBudget == \/ Cardinality(Networked(requestLedger)) >= SweepRequests
              \/ Received(requestLedger) >= SweepBytes

\* Slip: the budget counts the requests that brought something.
OverBudgetOfAnswers ==
  \/ Cardinality({i \in Networked(requestLedger) : requestLedger[i].bytes > 0}) >= SweepRequests
  \/ Received(requestLedger) >= SweepBytes

BudgetRefused == \E i \in DOMAIN requestLedger : ~requestLedger[i].network
Over == place.query > Queries \/ Len(found) >= SweepCandidates \/ BudgetRefused

RequestEntry(network, status, bytes, hashed, outcome) ==
  [provider |-> Providers[place.provider], query |-> place.query, network |-> network,
   status |-> status, bytes |-> bytes, hashed |-> hashed, outcome |-> outcome]

Enter(entry) == requestLedger' = Append(requestLedger, entry)

\* The page behind this one, or the next provider, or the next query.
Onward(more) ==
  place' = IF more /\ place.page < Pages THEN [place EXCEPT !.page = @ + 1]
           ELSE IF place.provider < Len(Providers)
           THEN [place EXCEPT !.provider = @ + 1, !.page = 1]
           ELSE [query |-> place.query + 1, provider |-> 1, page |-> 1]

\* The request that does not fit is refused, entered, and the last one.
RefuseRequest ==
  /\ sweeping = "sweeping" /\ ~Over /\ OverBudget
  /\ Enter(RequestEntry(FALSE, 0, 0, FALSE, "refused_budget_exhausted"))
  /\ UNCHANGED <<found, place, resolved, sweeping>>

\* A name that does not resolve, or not to public addresses, raises outside the try:
\* there is no report, whatever was received before.
ResolverRaises ==
  /\ sweeping = "sweeping" /\ ~Over /\ ~OverBudget
  /\ Providers[place.provider] \notin resolved
  /\ sweeping' = "raised"
  /\ UNCHANGED <<requestLedger, found, place, resolved>>

Asking ==
  /\ sweeping = "sweeping" /\ ~Over /\ ~OverBudget
  /\ resolved' = resolved \cup {Providers[place.provider]}
  /\ UNCHANGED sweeping

Least(a, b) == IF a <= b THEN a ELSE b
ResponseLimit == Least(SweepPerRequest, SweepBytes - Received(requestLedger))

\* Slip: an item is compared with its own page only.
AdmitUnseenOnPage(page) ==
  LET kept[n \in 0..Len(page)] ==
        IF n = 0 THEN <<>>
        ELSE IF \/ page[n] \in ToSet(kept[n - 1])
                \/ Len(found) + Len(kept[n - 1]) >= SweepCandidates
        THEN kept[n - 1] ELSE Append(kept[n - 1], page[n])
  IN  found \o kept[Len(page)]

\* The items of a page that were not seen before, in order, while there is room.
Admit(page) ==
  LET kept[n \in 0..Len(page)] ==
        IF n = 0 THEN found
        ELSE IF page[n] \in ToSet(kept[n - 1]) \/ Len(kept[n - 1]) >= SweepCandidates
        THEN kept[n - 1] ELSE Append(kept[n - 1], page[n])
  IN  kept[Len(page)]

TransportFails ==
  /\ Asking
  /\ Enter(RequestEntry(TRUE, 0, 0, FALSE, "transport_failure"))
  /\ Onward(FALSE) /\ UNCHANGED found

\* Slip: the body of a refused status is not counted.
NotOkUncounted(n) ==
  /\ Asking /\ n <= ResponseLimit
  /\ Enter(RequestEntry(TRUE, 404, 0, TRUE, "http_status_not_ok"))
  /\ Onward(FALSE) /\ UNCHANGED found

\* The hash is taken of every body, an empty one included.
NotOk(n) ==
  /\ Asking /\ n <= ResponseLimit
  /\ Enter(RequestEntry(TRUE, 404, n, TRUE, "http_status_not_ok"))
  /\ Onward(FALSE) /\ UNCHANGED found

\* A media type or a body the adapter does not take; an empty one is never taken.
Malformed(n) ==
  /\ Asking /\ n <= ResponseLimit
  /\ Enter(RequestEntry(TRUE, 200, n, TRUE, "provider_response_invalid"))
  /\ Onward(FALSE) /\ UNCHANGED found

PageTaken(n, page, more) ==
  /\ Asking /\ 0 < n /\ n <= ResponseLimit
  /\ Enter(RequestEntry(TRUE, 200, n, TRUE, "executed"))
  /\ found' = Admit([i \in DOMAIN page |-> <<Providers[place.provider], page[i]>>])
  /\ Onward(more)

ReportSweep ==
  /\ sweeping = "sweeping" /\ Over /\ sweeping' = "reported"
  /\ UNCHANGED <<requestLedger, found, place, resolved>>

PagesOf(n) == {p \in UNION {[1..k -> Items] : k \in 0..2} : Len(p) <= n}

SweepNext ==
  \/ RefuseRequest \/ ResolverRaises \/ TransportFails \/ ReportSweep
  \/ \E n \in Sizes : NotOk(n) \/ Malformed(n)
                      \/ \E page \in PagesOf(n), more \in BOOLEAN : PageTaken(n, page, more)

SweepSpec == SweepInit /\ [][SweepNext]_sweepVars
-----------------------------------------------------------------------------
\* What verify_report_v2 asks of one entry, given those before it.
RefusalSound(ledger, i) ==
  /\ ~ledger[i].network /\ ledger[i].bytes = 0 /\ ~ledger[i].hashed /\ ledger[i].status = 0
  /\ LET before == SubSeq(ledger, 1, i - 1) IN
       \/ Cardinality(Networked(before)) >= SweepRequests
       \/ Received(before) >= SweepBytes

RequestSound(entry) ==
  /\ entry.network /\ entry.bytes <= SweepPerRequest
  /\ entry.bytes > 0 <=> entry.hashed
  /\ CASE entry.outcome = "transport_failure" -> entry.status = 0 /\ entry.bytes = 0
       [] entry.outcome = "http_status_not_ok" -> entry.status # 200
       [] OTHER -> entry.status = 200

EntrySound(ledger, i) ==
  IF ledger[i].outcome = "refused_budget_exhausted" THEN RefusalSound(ledger, i)
  ELSE RequestSound(ledger[i])

\* verify_report_v2 accepts the report.  Its status says whether a request was refused.
SweepVerifies ==
  /\ \A i \in DOMAIN requestLedger : EntrySound(requestLedger, i)
  /\ Cardinality(Networked(requestLedger)) <= SweepRequests
  /\ Received(requestLedger) <= SweepBytes
  /\ Len(found) <= SweepCandidates
  /\ \A i, j \in DOMAIN found : found[i] = found[j] => i = j

EmptyAnswer(entry) == entry.hashed /\ entry.bytes = 0
-----------------------------------------------------------------------------
SweepTypeOK ==
  /\ \A i \in DOMAIN requestLedger :
       /\ requestLedger[i].provider \in ToSet(Providers)
       /\ requestLedger[i].query \in 1..Queries /\ requestLedger[i].bytes \in Nat
  /\ ToSet(found) \subseteq ToSet(Providers) \X Items
  /\ resolved \subseteq ToSet(Providers)
  /\ sweeping \in {"sweeping", "reported", "raised"}

\* A sweep's own report passes verify_report_v2, which recounts requests, bytes and
\* refusals from the ledger (discovery_v2.py:405-640), unless a body came empty.
SweepChecksOut ==
  sweeping = "reported" =>
    SweepVerifies \/ \E i \in DOMAIN requestLedger : EmptyAnswer(requestLedger[i])
=============================================================================
