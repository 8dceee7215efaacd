--------------------------- MODULE BatchAcquisition ---------------------------
(***************************************************************************)
(* phase4b/batch_acquisition.py: execute_batch_plan, which asks for every  *)
(* URL of one approved plan, once and in order, and verify_batch_report,   *)
(* which rechecks the report against the plan.                             *)
(*                                                                         *)
(* The plan is valid, confirmed and fresh: the refusals before the loop    *)
(* change nothing.  The transport is external, as in LiteratureSweep.      *)
(***************************************************************************)
EXTENDS Integers, Sequences, FiniteSets, SequencesExt, Sums

CONSTANTS
  Hosts,          \* Hosts[i]: the host of request i; the plan has Len(Hosts) requests
  BodySizes,      \* sizes a body may have, 0 among them
  BatchBytes,     \* max_response_bytes_per_run
  BatchPerUrl     \* max_response_bytes_per_request

ASSUME BatchAssumption ==
  /\ Hosts \in Seq(ToSet(Hosts)) /\ BodySizes \subseteq Nat
  /\ BatchBytes \in Nat /\ BatchPerUrl \in Nat

VARIABLES
  urlLedger,      \* one entry per request done with
  hostsKnown,     \* hosts that resolved to public addresses
  candidateBodies,\* requests whose body is handed to the caller
  batching        \* "batching", "reported"

batchVars == <<urlLedger, hostsKnown, candidateBodies, batching>>

BatchInit == urlLedger = <<>> /\ hostsKnown = {} /\ candidateBodies = {} /\ batching = "batching"
-----------------------------------------------------------------------------
BodyBytes(ledger) == Tally([i \in DOMAIN ledger |-> ledger[i].bytes])
BytesLeft == BatchBytes - BodyBytes(urlLedger)
Url == Len(urlLedger) + 1
UrlLimit == IF BatchPerUrl <= BytesLeft THEN BatchPerUrl ELSE BytesLeft

Outcome(network, status, bytes, hashed, outcome, failure) ==
  [network |-> network, status |-> status, bytes |-> bytes, hashed |-> hashed,
   outcome |-> outcome, failure |-> failure]

Conclude(entry) == urlLedger' = Append(urlLedger, entry) /\ UNCHANGED batching

\* What is left of the plan is refused once the bytes are spent, and still entered.
RefuseUrl ==
  /\ batching = "batching" /\ Url <= Len(Hosts) /\ BytesLeft <= 0
  /\ Conclude(Outcome(FALSE, 0, 0, FALSE, "refused_budget_exhausted", "bytes"))
  /\ UNCHANGED <<hostsKnown, candidateBodies>>

\* A host that does not resolve fails its request and is asked again for the next.
UrlUnresolved ==
  /\ batching = "batching" /\ Url <= Len(Hosts) /\ BytesLeft > 0
  /\ Hosts[Url] \notin hostsKnown
  /\ Conclude(Outcome(FALSE, 0, 0, FALSE, "failed", "resolver"))
  /\ UNCHANGED <<hostsKnown, candidateBodies>>

AskingUrl ==
  /\ batching = "batching" /\ Url <= Len(Hosts) /\ BytesLeft > 0
  /\ hostsKnown' = hostsKnown \cup {Hosts[Url]}

UrlFails ==
  /\ AskingUrl
  /\ Conclude(Outcome(TRUE, 0, 0, FALSE, "failed", "transport"))
  /\ UNCHANGED candidateBodies

\* A redirect or another status fails with its bytes counted and hashed.
UrlRefusedBy(status, n) ==
  /\ AskingUrl /\ n <= UrlLimit
  /\ Conclude(Outcome(TRUE, status, n, TRUE, "failed", "status"))
  /\ UNCHANGED candidateBodies

\* Slip: every body may be as long as the request limit.
UrlStoredWithin(n) ==
  /\ AskingUrl /\ n <= BatchPerUrl
  /\ Conclude(Outcome(TRUE, 200, n, TRUE, "stored_candidate", "none"))
  /\ candidateBodies' = candidateBodies \cup {Url}

UrlStored(n) ==
  /\ AskingUrl /\ n <= UrlLimit
  /\ Conclude(Outcome(TRUE, 200, n, TRUE, "stored_candidate", "none"))
  /\ candidateBodies' = candidateBodies \cup {Url}

ReportBatch ==
  /\ batching = "batching" /\ Url > Len(Hosts) /\ batching' = "reported"
  /\ UNCHANGED <<urlLedger, hostsKnown, candidateBodies>>

BatchNext ==
  \/ RefuseUrl \/ UrlUnresolved \/ UrlFails \/ ReportBatch
  \/ \E n \in BodySizes : UrlStored(n) \/ UrlRefusedBy(301, n) \/ UrlRefusedBy(404, n)

BatchSpec == BatchInit /\ [][BatchNext]_batchVars
-----------------------------------------------------------------------------
\* What verify_batch_report asks of entry i.
UrlSound(ledger, i) ==
  LET entry == ledger[i] IN
  /\ entry.bytes <= BatchPerUrl /\ (entry.bytes > 0 <=> entry.hashed)
  /\ CASE entry.outcome = "stored_candidate" ->
            entry.network /\ entry.status = 200 /\ entry.failure = "none"
       [] entry.outcome = "failed" ->
            /\ entry.failure # "none"
            /\ ~entry.network => entry.status = 0 /\ entry.bytes = 0 /\ ~entry.hashed
       [] OTHER ->
            /\ ~entry.network /\ entry.bytes = 0 /\ entry.status = 0
            /\ BodyBytes(SubSeq(ledger, 1, i)) >= BatchBytes

BatchVerifies ==
  /\ Len(urlLedger) = Len(Hosts) /\ \A i \in DOMAIN urlLedger : UrlSound(urlLedger, i)
  /\ BodyBytes(urlLedger) <= BatchBytes

EmptyBody(entry) == entry.hashed /\ entry.bytes = 0
-----------------------------------------------------------------------------
BatchTypeOK ==
  /\ Len(urlLedger) <= Len(Hosts) /\ hostsKnown \subseteq ToSet(Hosts)
  /\ \A i \in candidateBodies : urlLedger[i].outcome = "stored_candidate"
  /\ batching \in {"batching", "reported"}

\* A batch's own report passes verify_batch_report (batch_acquisition.py:365-475), and
\* every body handed out has its entry, unless a body came empty.
BatchChecksOut ==
  batching = "reported" =>
    BatchVerifies \/ \E i \in DOMAIN urlLedger : EmptyBody(urlLedger[i])
=============================================================================
