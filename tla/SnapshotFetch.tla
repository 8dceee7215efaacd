----------------------------- MODULE SnapshotFetch -----------------------------
(***************************************************************************)
(* corpus_service/fetcher.py: fetch_snapshot, the only network reader of   *)
(* the corpus: one archive manifest, its documents requested one by one,   *)
(* each with an intent in the fetches ledger before and a terminal record  *)
(* after; runs may die, fail and be repeated, and may overlap.             *)
(*                                                                         *)
(* The index of earlier intents is read once, when a run starts.  The      *)
(* activation, the allowlist and the pacing refuse or wait and change      *)
(* nothing here; an accepted run is modelled.                              *)
(***************************************************************************)
EXTENDS Integers, Sequences, FiniteSets

CONSTANTS
  FetchRuns,      \* processes
  Documents,      \* bound: the manifest lists 1..Documents
  MaxTogether     \* bound: runs under way at once

ASSUME FetchAssumption == Documents \in Nat /\ MaxTogether \in Nat

VARIABLES
  fetches,        \* the ledger: [kind, doc, of], of: index of the intent a record closes
  bodies,         \* documents whose bytes are stored
  at,             \* the document a run is at
  doing,          \* where a run is
  ambiguous,      \* a run's index: documents with an intent and no terminal record
  intent,         \* the intent a run has appended
  asked,          \* history: requests of each document that reached the network
  together        \* history: two runs were under way at once

fetchVars == <<fetches, bodies, at, doing, ambiguous, intent, asked, together>>

Listed == 1..Documents
Pending == "pending"
Under == {"indexed", "intended", "answered", "stored"}

FetchInit ==
  /\ fetches = <<>> /\ bodies = {}
  /\ at = [r \in FetchRuns |-> 1] /\ doing = [r \in FetchRuns |-> Pending]
  /\ ambiguous = [r \in FetchRuns |-> {}] /\ intent = [r \in FetchRuns |-> 0]
  /\ asked = [d \in Listed |-> 0] /\ together = FALSE
-----------------------------------------------------------------------------
To(r, place) == doing' = [doing EXCEPT ![r] = place]

\* What an ended process knew is gone with it.
Ends(r, place) ==
  /\ To(r, place)
  /\ at' = [at EXCEPT ![r] = 1] /\ intent' = [intent EXCEPT ![r] = 0]
  /\ ambiguous' = [ambiguous EXCEPT ![r] = {}]
Note(kind, doc, of) == fetches' = Append(fetches, [kind |-> kind, doc |-> doc, of |-> of])

Intents(d) == {i \in DOMAIN fetches : fetches[i].kind = "intent" /\ fetches[i].doc = d}
Closed(i) == \E j \in DOMAIN fetches : fetches[j].kind # "intent" /\ fetches[j].of = i

\* Slip: any terminal record of the document closes its intents.
LeftUnanswered == {d \in Listed : Intents(d) # {} /\ ~\E j \in DOMAIN fetches :
                                      fetches[j].kind # "intent" /\ fetches[j].doc = d}

\* Only the last intent counts, and only a record that names it closes it.
LeftOpen == {d \in Listed : \E i \in Intents(d) : (\A j \in Intents(d) : j <= i) /\ ~Closed(i)}

ReadIndex(r) ==
  /\ doing[r] = Pending /\ Cardinality({q \in FetchRuns : doing[q] \in Under}) < MaxTogether
  /\ To(r, "indexed")
  /\ ambiguous' = [ambiguous EXCEPT ![r] = LeftOpen]
  /\ together' = (together \/ \E q \in FetchRuns : doing[q] \in Under)
  /\ UNCHANGED <<fetches, bodies, at, intent, asked>>

\* Stored bytes are verified and asked for no more; an intent that was left open is
\* closed for them.
AlreadyStored(r) ==
  /\ doing[r] = "indexed" /\ at[r] \in bodies
  /\ IF at[r] \in ambiguous[r]
     THEN Note("recovered", at[r],
                 CHOOSE i \in Intents(at[r]) : \A j \in Intents(at[r]) : j <= i)
     ELSE UNCHANGED fetches
  /\ at' = [at EXCEPT ![r] = @ + 1]
  /\ UNCHANGED <<bodies, doing, ambiguous, intent, asked, together>>

\* An intent of an earlier run without bytes ends the run: it is not repeated.
RefuseAmbiguous(r) ==
  /\ doing[r] = "indexed" /\ at[r] \in ambiguous[r] \ bodies
  /\ Ends(r, "refused")
  /\ UNCHANGED <<fetches, bodies, asked, together>>

Intend(r) ==
  /\ doing[r] = "indexed" /\ at[r] \in Listed \ (bodies \cup ambiguous[r])
  /\ Note("intent", at[r], 0)
  /\ intent' = [intent EXCEPT ![r] = Len(fetches) + 1]
  /\ To(r, "intended")
  /\ UNCHANGED <<bodies, at, ambiguous, asked, together>>

\* transport.get: the bytes, other bytes or an error.
Get(r) ==
  /\ doing[r] = "intended"
  /\ asked' = [asked EXCEPT ![at[r]] = @ + 1]
  /\ \/ To(r, "answered") /\ UNCHANGED <<fetches, at, ambiguous, intent>>
     \/ Ends(r, "failed") /\ Note("failed", at[r], intent[r])
  /\ UNCHANGED <<bodies, together>>

StoreObject(r) ==
  /\ doing[r] = "answered"
  /\ bodies' = bodies \cup {at[r]}
  /\ To(r, "stored")
  /\ UNCHANGED <<fetches, at, ambiguous, intent, asked, together>>

Fetched(r) ==
  /\ doing[r] = "stored"
  /\ Note("fetched", at[r], intent[r])
  /\ at' = [at EXCEPT ![r] = @ + 1]
  /\ To(r, "indexed")
  /\ UNCHANGED <<bodies, ambiguous, intent, asked, together>>

Report(r) ==
  /\ doing[r] = "indexed" /\ at[r] \notin Listed
  /\ Note("run", 0, 0)
  /\ Ends(r, "reported")
  /\ UNCHANGED <<bodies, asked, together>>

Interrupt(r) ==
  /\ doing[r] \in Under
  /\ Ends(r, "dead")
  /\ UNCHANGED <<fetches, bodies, asked, together>>

FetchNext == \E r \in FetchRuns :
  \/ ReadIndex(r) \/ AlreadyStored(r) \/ RefuseAmbiguous(r) \/ Intend(r) \/ Get(r)
  \/ StoreObject(r) \/ Fetched(r) \/ Report(r) \/ Interrupt(r)

FetchSpec == FetchInit /\ [][FetchNext]_fetchVars
-----------------------------------------------------------------------------
Of(kinds, d) == {i \in DOMAIN fetches : fetches[i].kind \in kinds /\ fetches[i].doc = d}

FetchTypeOK ==
  /\ \A i \in DOMAIN fetches : fetches[i].of \in 0..(i - 1)
  /\ bodies \subseteq Listed /\ \A r \in FetchRuns : at[r] \in 1..Documents + 1

\* A document is asked for again only when the request before has a recorded failure
\* (fetcher.py:291), unless two runs were under way at once, each with its own index; and
\* a report says that every document is stored.
AskedOnce ==
  /\ together \/ \A d \in Listed : asked[d] <= 1 + Cardinality(Of({"failed"}, d))
  /\ \A r \in FetchRuns : doing[r] = "reported" => bodies = Listed

\* fetcher.py:183: "Interrupting a run loses nothing: the stored bytes and ledger records
\* stand, and the next run requests only the documents still absent."
NextRunResumes == together \/ \A r \in FetchRuns : doing[r] # "refused"
=============================================================================
