---------------------------- MODULE ServiceProofs ----------------------------
(***************************************************************************)
(* Theorems about the services, each under its own specification: the      *)
(* formal bridge, the snapshot fetcher, the runtime lead, and the parts    *)
(* whose output is checked when it is read again: the literature sweep,    *)
(* the batch acquisition, the references followed, the synthesis workspace *)
(* and the vector partition.                                               *)
(***************************************************************************)
EXTENDS ServiceParts, CorpusStoreProofs, BaselineLoopProofs, FiniteSetTheorems,
        SequenceTheorems, SumTheorems, TLAPS
(***************************************************************************)
(* What a repair proposed never gets the lineage of a bridged request, for *)
(* any proposals, proofs, names and numbers of requests and findings.      *)
(***************************************************************************)

IsBridged(id) == \E proposal, proof : id = BridgedId(proposal, proof)

\* Every bridge, recorded or about to be, is one of a request file under a bridged id.
BridgesFiled ==
  \A b \in bridges \cup building : b.request \in requests /\ IsBridged(b.request.id)

\* A finding is about a request file, or under an id that no bridge has.
Apart(f) == f.request \in requests \/ ~IsBridged(f.id)

FindingsApart ==
  /\ \A f \in findings : Apart(f)
  /\ \E S : repairing \in Seq(S)
  /\ \A i \in DOMAIN repairing : Apart(repairing[i])

LInv == BridgesFiled /\ FindingsApart
-----------------------------------------------------------------------------
LEMMA OtherIds ==
  /\ ~IsBridged(<<"rejected">>)
  /\ \A origin, n, proof : ~IsBridged(<<"repair", origin, n, proof>>)
<1>1. ASSUME NEW a, NEW b PROVE BridgedId(a, b)[1] = "bridge"
  BY DEF BridgedId
<1>2. <<"rejected">>[1] = "rejected"
  OBVIOUS
<1>3. ASSUME NEW origin, NEW n, NEW proof PROVE <<"repair", origin, n, proof>>[1] = "repair"
  OBVIOUS
<1> QED
  BY <1>1, <1>2, <1>3 DEF IsBridged

\* A verdict is about its request, under its id or under none.
LEMMA VerdictFacts ==
  ASSUME NEW request, NEW f \in Verdicts3B(request)
  PROVE  f.request = request /\ (f.id = request.id \/ f.id = <<"rejected">>)
  BY DEF Verdicts3B

LEMMA BridgeInitInv == BridgeInit => LInv
  BY DEF BridgeInit, LInv, BridgesFiled, FindingsApart, NoBridge

LEMMA BridgeStepInv == LInv /\ [BridgeNext]_bridgeVars => LInv'
<1> SUFFICES ASSUME LInv, [BridgeNext]_bridgeVars PROVE LInv'
  OBVIOUS
<1> USE DEF LInv
<1>g. ASSUME requests \subseteq requests', UNCHANGED <<findings, repairing>>
      PROVE  FindingsApart'
  BY <1>g DEF FindingsApart, Apart
<1>1. CASE BuildBridge
  <2>1. requests \subseteq requests' /\ UNCHANGED <<findings, repairing>>
    BY <1>1 DEF BuildBridge
  <2>2. BridgesFiled'
    BY <1>1 DEF BuildBridge, BridgesFiled, IsBridged, NoBridge
  <2> QED
    BY <2>1, <2>2, <1>g
<1>2. CASE SaveBridge
  BY <1>2, <1>g DEF SaveBridge, BridgesFiled, NoBridge
<1>3. CASE EditByHand
  BY <1>3, <1>g DEF EditByHand, BridgesFiled
<1>4. CASE Check
  <2>1. BridgesFiled'
    BY <1>4 DEF Check, BridgesFiled
  <2> PICK r \in requests : \E f \in Verdicts3B(r) : findings' = findings \cup {f}
    BY <1>4 DEF Check
  <2> PICK finding \in Verdicts3B(r) : findings' = findings \cup {finding}
    OBVIOUS
  <2>2. Apart(finding)
    BY VerdictFacts DEF Apart
  <2> QED
    BY <1>4, <2>1, <2>2 DEF Check, FindingsApart, Apart
<1>5. CASE RepairStarts
  <2>1. BridgesFiled'
    BY <1>5 DEF RepairStarts, BridgesFiled
  <2> PICK r \in requests : \E f \in Verdicts3B(r) : repairing' = <<f>>
    BY <1>5 DEF RepairStarts
  <2> PICK finding \in Verdicts3B(r) : repairing' = <<finding>>
    OBVIOUS
  <2>2. Apart(finding)
    BY VerdictFacts DEF Apart
  <2>3. repairing' \in Seq({finding}) /\ DOMAIN repairing' = {1} /\ repairing'[1] = finding
    OBVIOUS
  <2> QED
    BY <1>5, <2>1, <2>2, <2>3 DEF RepairStarts, FindingsApart, Apart
<1>6. CASE RepairChecks
  <2>1. BridgesFiled'
    BY <1>6 DEF RepairChecks, BridgesFiled
  <2> PICK proof \in Proofs :
        \E f \in Verdicts3B(Repaired(repairing[1].request, proof, Len(repairing))) :
          repairing' = Append(repairing, f)
    BY <1>6 DEF RepairChecks
  <2> PICK finding \in Verdicts3B(Repaired(repairing[1].request, proof, Len(repairing))) :
        repairing' = Append(repairing, finding)
    OBVIOUS
  <2>2. Repaired(repairing[1].request, proof, Len(repairing)).id
          = <<"repair", repairing[1].request.id, Len(repairing), proof>>
    BY DEF Repaired
  <2>3. Apart(finding)
    <3>1. finding.id = Repaired(repairing[1].request, proof, Len(repairing)).id
            \/ finding.id = <<"rejected">>
      BY VerdictFacts
    <3>2. ~IsBridged(<<"repair", repairing[1].request.id, Len(repairing), proof>>)
      BY OtherIds
    <3>3. ~IsBridged(finding.id)
      BY <2>2, <3>1, <3>2, OtherIds
    <3> QED
      BY <3>3 DEF Apart
  <2> PICK S : repairing \in Seq(S)
    BY DEF FindingsApart
  <2>4. /\ repairing' \in Seq(S \cup {finding})
        /\ \A i \in DOMAIN repairing' :
             \/ i \in DOMAIN repairing /\ repairing'[i] = repairing[i]
             \/ repairing'[i] = finding
    <3>1. repairing \in Seq(S \cup {finding})
      OBVIOUS
    <3> QED
      BY <3>1
  <2> QED
    BY <1>6, <2>1, <2>3, <2>4 DEF RepairChecks, FindingsApart, Apart
<1>7. CASE RepairEnds
  BY <1>7, <1>g DEF RepairEnds, BridgesFiled
<1>8. CASE RepairSaves
  BY <1>8 DEF RepairSaves, BridgesFiled, FindingsApart, Apart
<1>9. CASE RepairDies
  BY <1>9 DEF RepairDies, BridgesFiled, FindingsApart, Apart
<1>10. CASE UNCHANGED bridgeVars
  BY <1>10, <1>g DEF bridgeVars, BridgesFiled
<1> QED
  BY <1>1, <1>2, <1>3, <1>4, <1>5, <1>6, <1>7, <1>8, <1>9, <1>10 DEF BridgeNext

\* However requests were edited, bridged and repaired, the findings of a repair lead to no
\* bridge, by hash or by id (phase3b/bridge.py:1225, repair.py).
THEOREM RepairsStayApart == BridgeSpec => []RepairHasNoLineage
<1>1. LInv => RepairHasNoLineage
  BY DEF LInv, BridgesFiled, FindingsApart, Apart, RepairHasNoLineage, Traced
<1> QED
  BY BridgeInitInv, BridgeStepInv, <1>1, PTL DEF BridgeSpec
-----------------------------------------------------------------------------
(***************************************************************************)
(* The snapshot fetcher. While runs come one after another, what a run     *)
(* read of the ledger at its start stays true of all documents but the one *)
(* it is at: an open request is known, and a document that is not covered  *)
(* was asked for only as often as it failed.                               *)
(***************************************************************************)
FailuresOf(d) == Of({"failed"}, d)

\* A document whose request may still be open, or was answered.
Covered(d) == d \in bodies \/ d \in LeftOpen

\* How often it may have been asked for.
AllowedFor(d) == Cardinality(FailuresOf(d)) + (IF Covered(d) THEN 1 ELSE 0)

\* An intent of d that all others of d came before.
LastIntent(d, i) == i \in Intents(d) /\ \A j \in Intents(d) : j <= i

FetchShape ==
  /\ \E S : fetches \in Seq(S)
  /\ bodies \subseteq Listed
  /\ DOMAIN at = FetchRuns /\ DOMAIN doing = FetchRuns
  /\ DOMAIN ambiguous = FetchRuns /\ DOMAIN intent = FetchRuns
  /\ asked \in [Listed -> Nat]
  /\ \A r \in FetchRuns : at[r] \in Nat \ {0}
  /\ \A r \in FetchRuns : intent[r] \in 0..Len(fetches)
  /\ \A r \in FetchRuns : \A d \in ambiguous[r] : \E i : LastIntent(d, i)
  /\ \A i \in DOMAIN fetches : fetches[i].of \in 0..(i - 1)

\* A run went past the documents that are stored.
Collected(r) == \A d \in Listed : d < at[r] => d \in bodies

\* What a run alone knows of the open requests: all but the one it made itself.
KnowsOpen(r) ==
  /\ doing[r] = "indexed" => LeftOpen \ bodies \subseteq ambiguous[r]
  /\ doing[r] \in {"intended", "answered", "stored"} =>
       /\ LeftOpen \ bodies \subseteq ambiguous[r] \cup {at[r]}
       /\ LastIntent(at[r], intent[r])
  /\ doing[r] = "intended" => asked[at[r]] <= Cardinality(FailuresOf(at[r]))
  /\ doing[r] \in {"intended", "answered"} => at[r] \in LeftOpen

Solo ==
  /\ \A r, q \in FetchRuns : doing[r] \in Under /\ doing[q] \in Under => r = q
  /\ \A r \in FetchRuns : KnowsOpen(r)
  /\ \A d \in Listed : asked[d] <= AllowedFor(d)

\* The shape, the documents behind a run, and what a report says, whoever runs beside it.
Plain ==
  /\ FetchShape
  /\ \A r \in FetchRuns : /\ Collected(r)
                          /\ doing[r] \in {"intended", "answered"} => at[r] \in Listed
                          /\ doing[r] = "stored" => at[r] \in bodies
                          /\ doing[r] = "reported" => bodies = Listed

FetchInv == Plain /\ (together \/ Solo)
-----------------------------------------------------------------------------
LEMMA FetchBegins == FetchInit => FetchInv
<1> SUFFICES ASSUME FetchInit PROVE FetchInv
  OBVIOUS
<1> USE DEF FetchInit, Pending
<1>1. FetchShape
  BY DEF FetchShape
<1>2. \A r \in FetchRuns : Collected(r) /\ KnowsOpen(r)
  BY DEF Collected, KnowsOpen, Listed
<1>3. \A d \in Listed : FailuresOf(d) = {} /\ Cardinality(FailuresOf(d)) = 0
  BY FS_EmptySet DEF FailuresOf, Of
<1> QED
  BY <1>1, <1>2, <1>3 DEF FetchInv, Plain, Solo, AllowedFor, Under

\* What one more record changes.
LEMMA Noted ==
  ASSUME FetchShape, NEW kind, NEW doc, NEW of \in 0..Len(fetches), Note(kind, doc, of)
  PROVE  /\ Len(fetches') = Len(fetches) + 1 /\ \E S : fetches' \in Seq(S)
         /\ \A i \in DOMAIN fetches' : fetches'[i].of \in 0..(i - 1)
         /\ \A d : Intents(d)' = Intents(d) \cup
                     (IF kind = "intent" /\ doc = d THEN {Len(fetches) + 1} ELSE {})
         /\ \A d : FailuresOf(d)' = FailuresOf(d) \cup
                     (IF kind = "failed" /\ doc = d THEN {Len(fetches) + 1} ELSE {})
         /\ \A i : Closed(i)' <=> Closed(i) \/ (kind # "intent" /\ of = i)
         /\ ~Closed(Len(fetches) + 1)
         /\ \A d : \A i \in Intents(d) \cup FailuresOf(d) : i \in 1..Len(fetches)
<1> DEFINE e == [kind |-> kind, doc |-> doc, of |-> of]
           n == Len(fetches) + 1
<1> PICK S : fetches \in Seq(S)
  BY DEF FetchShape
<1>1. fetches' = Append(fetches, e)
  BY DEF Note
<1>2. fetches \in Seq(S \cup {e}) /\ Len(fetches) \in Nat
  OBVIOUS
<1>3. fetches' \in Seq(S \cup {e}) /\ Len(fetches') = n
  BY <1>1, <1>2
<1>4. DOMAIN fetches = 1..Len(fetches) /\ DOMAIN fetches' = 1..n
  BY <1>2, <1>3
<1>5. fetches'[n] = e /\ \A i \in 1..Len(fetches) : fetches'[i] = fetches[i]
  BY <1>1, <1>2
<1>6. e.kind = kind /\ e.doc = doc /\ e.of = of
  OBVIOUS
<1>7. \A i \in 1..n : i = n \/ i \in 1..Len(fetches)
  BY <1>2
<1> HIDE DEF e
<1>8. ASSUME NEW d
      PROVE  Intents(d)' = Intents(d) \cup (IF kind = "intent" /\ doc = d THEN {n} ELSE {})
  BY <1>2, <1>4, <1>5, <1>6, <1>7 DEF Intents
<1>9. ASSUME NEW d
      PROVE  FailuresOf(d)' = FailuresOf(d) \cup (IF kind = "failed" /\ doc = d THEN {n} ELSE {})
  BY <1>2, <1>4, <1>5, <1>6, <1>7 DEF FailuresOf, Of
<1>10. ASSUME NEW i PROVE Closed(i)' <=> Closed(i) \/ (kind # "intent" /\ of = i)
  BY <1>2, <1>4, <1>5, <1>6, <1>7 DEF Closed
<1>11. ~Closed(n)
  BY <1>2, <1>4 DEF Closed, FetchShape
<1>12. \A i \in DOMAIN fetches' : fetches'[i].of \in 0..(i - 1)
  BY <1>2, <1>4, <1>5, <1>6, <1>7 DEF FetchShape
<1>13. \A d : \A i \in Intents(d) \cup FailuresOf(d) : i \in 1..Len(fetches)
  BY <1>4 DEF Intents, FailuresOf, Of
<1> QED
  BY <1>3, <1>8, <1>9, <1>10, <1>11, <1>12, <1>13

\* A new intent is the last of its document, and is open.
LEMMA NotedIntent ==
  ASSUME FetchShape, NEW doc \in Listed, NEW n, n = Len(fetches) + 1, Note("intent", doc, 0)
  PROVE  /\ LeftOpen' = LeftOpen \cup {doc}
         /\ LastIntent(doc, n)'
         /\ \A d : d # doc => \A i : LastIntent(d, i)' <=> LastIntent(d, i)
<1>0. Len(fetches) \in Nat /\ 0 \in 0..Len(fetches)
  BY DEF FetchShape
<1>1. /\ \A d : Intents(d)' = Intents(d) \cup (IF doc = d THEN {n} ELSE {})
      /\ \A i : Closed(i)' <=> Closed(i)
      /\ ~Closed(n)
      /\ \A d : \A i \in Intents(d) : i \in 1..Len(fetches)
  BY <1>0, Noted
<1>2. LastIntent(doc, n)'
  BY <1>0, <1>1 DEF LastIntent
<1>3. ASSUME NEW d, d # doc, NEW i PROVE LastIntent(d, i)' <=> LastIntent(d, i)
  BY <1>1, <1>3 DEF LastIntent
<1>4. doc \in LeftOpen'
  BY <1>1, <1>2 DEF LeftOpen, LastIntent
<1>5. ASSUME NEW d \in Listed, d # doc PROVE d \in LeftOpen' <=> d \in LeftOpen
  BY <1>1, <1>5 DEF LeftOpen
<1>6. LeftOpen \subseteq Listed /\ LeftOpen' \subseteq Listed
  BY DEF LeftOpen, Listed
<1> QED
  BY <1>2, <1>3, <1>4, <1>5, <1>6

\* A record that closes the last intent of its document opens none and closes no other.
LEMMA NotedEnd ==
  ASSUME FetchShape, NEW kind, kind # "intent", NEW doc, NEW of \in 0..Len(fetches),
         of = 0 \/ of \in Intents(doc), Note(kind, doc, of)
  PROVE  /\ LeftOpen' \subseteq LeftOpen
         /\ LeftOpen \ {doc} \subseteq LeftOpen'
         /\ \A d, i : LastIntent(d, i)' <=> LastIntent(d, i)
<1>0. /\ \A d : Intents(d)' = Intents(d) \cup
                    (IF kind = "intent" /\ doc = d THEN {Len(fetches) + 1} ELSE {})
      /\ \A i : Closed(i)' <=> Closed(i) \/ (kind # "intent" /\ of = i)
  BY Noted
<1>1. /\ \A d : Intents(d)' = Intents(d)
      /\ \A i : Closed(i)' <=> Closed(i) \/ of = i
  BY <1>0
<1>5. \A d : 0 \notin Intents(d)
  BY DEF Intents, FetchShape
<1>2. \A d : d # doc => of \notin Intents(d)
  BY <1>5 DEF Intents
<1>3. LeftOpen' \subseteq LeftOpen
  BY <1>1 DEF LeftOpen, Listed
<1>4. LeftOpen \ {doc} \subseteq LeftOpen'
  BY <1>1, <1>2 DEF LeftOpen, Listed
<1> QED
  BY <1>1, <1>3, <1>4 DEF LastIntent

LEMMA FailuresCounted ==
  ASSUME FetchShape, NEW d
  PROVE  IsFiniteSet(FailuresOf(d)) /\ Cardinality(FailuresOf(d)) \in Nat
<1>1. Len(fetches) \in Nat /\ FailuresOf(d) \subseteq 1..Len(fetches)
  BY DEF FetchShape, FailuresOf, Of
<1>2. IsFiniteSet(1..Len(fetches))
  BY <1>1, FS_Interval
<1>3. IsFiniteSet(FailuresOf(d))
  BY <1>1, <1>2, FS_Subset
<1> QED
  BY <1>3, FS_CardinalityType

\* The failures of a document are counted one by one.
LEMMA NotedFailures ==
  ASSUME FetchShape, NEW kind, NEW doc, NEW of \in 0..Len(fetches), Note(kind, doc, of), NEW d
  PROVE  /\ Cardinality(FailuresOf(d)) \in Nat
         /\ Cardinality(FailuresOf(d)') = Cardinality(FailuresOf(d))
                                           + (IF kind = "failed" /\ doc = d THEN 1 ELSE 0)
<1>0. Len(fetches) \in Nat
  BY DEF FetchShape
<1>1. FailuresOf(d) \subseteq 1..Len(fetches)
  BY Noted
<1>2. IsFiniteSet(FailuresOf(d)) /\ Cardinality(FailuresOf(d)) \in Nat
  BY FailuresCounted
<1>3. FailuresOf(d)' = FailuresOf(d) \cup
        (IF kind = "failed" /\ doc = d THEN {Len(fetches) + 1} ELSE {})
  BY Noted
<1>4. Len(fetches) + 1 \notin FailuresOf(d)
  BY <1>0, <1>1
<1>5. CASE kind = "failed" /\ doc = d
  <2>1. FailuresOf(d)' = FailuresOf(d) \cup {Len(fetches) + 1}
    BY <1>3, <1>5
  <2> QED
    BY <1>2, <1>4, <1>5, <2>1, FS_AddElement
<1>6. CASE ~(kind = "failed" /\ doc = d)
  <2>1. FailuresOf(d)' = FailuresOf(d)
    BY <1>3, <1>6
  <2> QED
    BY <1>2, <1>6, <2>1
<1> QED
  BY <1>5, <1>6
-----------------------------------------------------------------------------
\* An intent stays the last of its document or another becomes it.
LEMMA LastStays ==
  ASSUME FetchShape, NEW kind, NEW doc, NEW of \in 0..Len(fetches), Note(kind, doc, of),
         NEW d, \E i : LastIntent(d, i)
  PROVE  \E i : LastIntent(d, i)'
<1> PICK n : n = Len(fetches) + 1
  OBVIOUS
<1> PICK i : LastIntent(d, i)
  OBVIOUS
<1>0. Len(fetches) \in Nat
  BY DEF FetchShape
<1>1. Intents(d)' = Intents(d) \cup (IF kind = "intent" /\ doc = d THEN {n} ELSE {})
  BY Noted
<1>2. \A j \in Intents(d) : j \in 1..Len(fetches)
  BY Noted
<1>3. CASE kind = "intent" /\ doc = d
  <2>1. LastIntent(d, n)'
    BY <1>0, <1>1, <1>2, <1>3 DEF LastIntent
  <2> QED
    BY <2>1
<1>4. CASE ~(kind = "intent" /\ doc = d)
  <2>1. LastIntent(d, i)'
    BY <1>1, <1>4 DEF LastIntent
  <2> QED
    BY <2>1
<1> QED
  BY <1>3, <1>4

\* The ledger's part of the shape over a record.
LEMMA NotedShape ==
  ASSUME FetchShape, NEW kind, NEW doc, NEW of \in 0..Len(fetches), Note(kind, doc, of)
  PROVE  /\ \E S : fetches' \in Seq(S)
         /\ \A i \in DOMAIN fetches' : fetches'[i].of \in 0..(i - 1)
         /\ Len(fetches) \in Nat /\ Len(fetches') = Len(fetches) + 1
         /\ \A r \in FetchRuns : intent[r] \in 0..Len(fetches')
         /\ \A r \in FetchRuns : \A d \in ambiguous[r] : \E i : LastIntent(d, i)'
<1>1. Len(fetches) \in Nat
  BY DEF FetchShape
<1>2. Len(fetches') = Len(fetches) + 1 /\ (\E S : fetches' \in Seq(S))
      /\ \A i \in DOMAIN fetches' : fetches'[i].of \in 0..(i - 1)
  BY Noted
<1>3. \A r \in FetchRuns : \A d \in ambiguous[r] : \E i : LastIntent(d, i)'
  BY LastStays DEF FetchShape
<1>4. \A r \in FetchRuns : intent[r] \in 0..Len(fetches')
  BY <1>1, <1>2 DEF FetchShape
<1> QED
  BY <1>1, <1>2, <1>3, <1>4

\* The record that closes for stored bytes names the last intent.
LEMMA Recovery ==
  ASSUME FetchShape, NEW r \in FetchRuns, NEW of, at[r] \in ambiguous[r],
         of = CHOOSE i \in Intents(at[r]) : \A j \in Intents(at[r]) : j <= i
  PROVE  LastIntent(at[r], of) /\ of \in 0..Len(fetches)
<1>1. PICK i : LastIntent(at[r], i)
  BY DEF FetchShape
<1>2. LastIntent(at[r], of)
  BY <1>1 DEF LastIntent
<1>3. of \in DOMAIN fetches
  BY <1>2 DEF LastIntent, Intents
<1> QED
  BY <1>2, <1>3 DEF FetchShape

LEMMA PlainStep == Plain /\ [FetchNext]_fetchVars => Plain'
<1> SUFFICES ASSUME Plain, [FetchNext]_fetchVars PROVE Plain'
  OBVIOUS
<1> USE DEF Plain, Collected
<1>0. FetchShape /\ Len(fetches) \in Nat
  BY DEF FetchShape
<1>1. ASSUME NEW r \in FetchRuns, ReadIndex(r) PROVE Plain'
  <2>1. \A d \in LeftOpen : \E i : LastIntent(d, i)
    BY DEF LeftOpen, LastIntent
  <2>2. FetchShape'
    BY <1>1, <2>1 DEF ReadIndex, To, FetchShape, LastIntent, Intents
  <2> QED
    BY <1>1, <2>2 DEF ReadIndex, To, FetchShape
<1>2. ASSUME NEW r \in FetchRuns, AlreadyStored(r) PROVE Plain'
  <2>1. FetchShape'
    <3>1. CASE at[r] \in ambiguous[r]
      <4> PICK of : of = CHOOSE i \in Intents(at[r]) : \A j \in Intents(at[r]) : j <= i
        OBVIOUS
      <4>1. of \in 0..Len(fetches) /\ Note("recovered", at[r], of)
        BY <1>2, <3>1, Recovery DEF AlreadyStored
      <4> QED
        BY <1>2, <4>1, NotedShape DEF AlreadyStored, FetchShape
    <3>2. CASE at[r] \notin ambiguous[r]
      BY <1>2, <3>2 DEF AlreadyStored, FetchShape, LastIntent, Intents
    <3> QED
      BY <3>1, <3>2
  <2>2. Collected(r)'
    BY <1>2 DEF AlreadyStored, FetchShape, Listed
  <2> QED
    BY <1>2, <2>1, <2>2 DEF AlreadyStored, FetchShape
<1>3. ASSUME NEW r \in FetchRuns, RefuseAmbiguous(r) \/ Interrupt(r) PROVE Plain'
  <2>1. FetchShape'
    <3>1. /\ \A q \in FetchRuns : at'[q] \in {1, at[q]} /\ intent'[q] \in {0, intent[q]}
                                  /\ ambiguous'[q] \subseteq ambiguous[q]
          /\ DOMAIN at' = FetchRuns /\ DOMAIN doing' = FetchRuns
          /\ DOMAIN ambiguous' = FetchRuns /\ DOMAIN intent' = FetchRuns
          /\ UNCHANGED <<fetches, bodies, asked>>
      BY <1>3 DEF RefuseAmbiguous, Interrupt, Ends, To, FetchShape
    <3>2. \A d, i : LastIntent(d, i)' <=> LastIntent(d, i)
      BY <3>1 DEF LastIntent, Intents
    <3>3. /\ \A q \in FetchRuns : at'[q] \in Nat \ {0} /\ intent'[q] \in 0..Len(fetches)
      BY <1>0, <3>1 DEF FetchShape
    <3>4. \A q \in FetchRuns : \A d \in ambiguous'[q] : \E i : LastIntent(d, i)'
      BY <3>1, <3>2 DEF FetchShape
    <3> QED
      BY <1>0, <3>1, <3>3, <3>4 DEF FetchShape
  <2>2. /\ at'[r] = 1 /\ doing'[r] \in {"refused", "dead"} /\ UNCHANGED bodies
        /\ \A q \in FetchRuns \ {r} : at'[q] = at[q] /\ doing'[q] = doing[q]
    BY <1>3 DEF RefuseAmbiguous, Interrupt, Ends, To, FetchShape
  <2>3. Collected(r)'
    BY <2>2 DEF Listed
  <2> QED
    BY <2>1, <2>2, <2>3
<1>4. ASSUME NEW r \in FetchRuns, Intend(r) PROVE Plain'
  <2>1. Note("intent", at[r], 0) /\ 0 \in 0..Len(fetches)
    BY <1>4 DEF Intend, FetchShape
  <2>2. FetchShape'
    BY <1>4, <2>1, NotedShape DEF Intend, To, FetchShape
  <2> QED
    BY <1>4, <2>2 DEF Intend, To, FetchShape
<1>5. ASSUME NEW r \in FetchRuns, Get(r) PROVE Plain'
  <2>1. asked' \in [Listed -> Nat]
    BY <1>5 DEF Get, FetchShape, Plain
  <2>2. CASE To(r, "answered") /\ UNCHANGED <<fetches, at, ambiguous, intent>>
    <3>1. FetchShape'
      BY <1>5, <2>1, <2>2 DEF Get, To, FetchShape, LastIntent, Intents
    <3> QED
      BY <1>5, <2>2, <3>1 DEF Get, To, FetchShape
  <2>3. CASE Ends(r, "failed") /\ Note("failed", at[r], intent[r])
    <3>1. FetchShape'
      BY <1>5, <2>1, <2>3, NotedShape DEF Get, Ends, To, FetchShape
    <3> QED
      BY <1>5, <2>3, <3>1 DEF Get, Ends, To, FetchShape, Listed
  <2> QED
    BY <1>5, <2>2, <2>3 DEF Get
<1>6. ASSUME NEW r \in FetchRuns, StoreObject(r) PROVE Plain'
  BY <1>6 DEF StoreObject, To, FetchShape, LastIntent, Intents
<1>7. ASSUME NEW r \in FetchRuns, Fetched(r) PROVE Plain'
  <2>1. FetchShape'
    BY <1>7, NotedShape DEF Fetched, To, FetchShape
  <2>2. Collected(r)'
    BY <1>7 DEF Fetched, FetchShape, Listed
  <2> QED
    BY <1>7, <2>1, <2>2 DEF Fetched, To, FetchShape
<1>8. ASSUME NEW r \in FetchRuns, Report(r) PROVE Plain'
  <2>1. Note("run", 0, 0) /\ 0 \in 0..Len(fetches)
    BY <1>8 DEF Report, FetchShape
  <2>2. FetchShape'
    BY <1>8, <2>1, NotedShape DEF Report, Ends, To, FetchShape
  <2>3. bodies = Listed
    <3>1. at[r] \in Nat \ {0} /\ at[r] \notin Listed /\ bodies \subseteq Listed
      BY <1>8 DEF Report, FetchShape
    <3>2. \A d \in Listed : d < at[r]
      BY <3>1, FetchAssumption DEF Listed
    <3> QED
      BY <3>1, <3>2
  <2> QED
    BY <1>8, <2>2, <2>3 DEF Report, Ends, To, FetchShape, Listed
<1>9. CASE UNCHANGED fetchVars
  BY <1>9 DEF fetchVars, FetchShape, LastIntent, Intents
<1> QED
  BY <1>1, <1>2, <1>3, <1>4, <1>5, <1>6, <1>7, <1>8, <1>9 DEF FetchNext
-----------------------------------------------------------------------------
\* Nobody is beside the one run that moves.
LEMMA SoloOne ==
  ASSUME Solo, NEW r \in FetchRuns, doing[r] \in Under,
         \A q \in FetchRuns \ {r} : doing'[q] = doing[q],
         doing'[r] \in Under => KnowsOpen(r)',
         \A d \in Listed : asked'[d] <= AllowedFor(d)'
  PROVE  Solo'
<1>1. \A q \in FetchRuns \ {r} : doing'[q] \notin Under
  BY DEF Solo
<1>2. ASSUME NEW q \in FetchRuns, doing'[q] \notin Under PROVE KnowsOpen(q)'
  BY <1>2 DEF KnowsOpen, Under
<1> QED
  BY <1>1, <1>2 DEF Solo

\* A document that is not asked for keeps within what is allowed if it stays covered, or
\* fails; nothing else takes a failure away.
LEMMA CountStays ==
  ASSUME FetchShape, FetchShape', NEW d \in Listed, asked[d] <= AllowedFor(d), asked'[d] = asked[d],
         Covered(d) => Covered(d)', Cardinality(FailuresOf(d)') >= Cardinality(FailuresOf(d))
  PROVE  asked'[d] <= AllowedFor(d)'
<1>1. /\ Cardinality(FailuresOf(d)) \in Nat /\ Cardinality(FailuresOf(d)') \in Nat
  <2>1. Cardinality(FailuresOf(d)) \in Nat
    BY FailuresCounted
  <2>2. Cardinality(FailuresOf(d)') \in Nat
    <3> PICK n \in Nat : n = Len(fetches')
      BY DEF FetchShape
    <3>1. FailuresOf(d)' \subseteq 1..n
      BY DEF FetchShape, FailuresOf, Of
    <3>2. IsFiniteSet(1..n)
      BY FS_Interval
    <3>3. IsFiniteSet(FailuresOf(d)')
      BY <3>1, <3>2, FS_Subset
    <3> QED
      BY <3>3, FS_CardinalityType
  <2> QED
    BY <2>1, <2>2
<1>2. asked[d] \in Nat
  BY DEF FetchShape
<1> QED
  BY <1>1, <1>2 DEF AllowedFor

LEMMA FailuresStay ==
  ASSUME FetchShape, UNCHANGED fetches \/ \E kind, doc : \E of \in 0..Len(fetches) : Note(kind, doc, of)
  PROVE  \A d : Cardinality(FailuresOf(d)') >= Cardinality(FailuresOf(d))
<1> SUFFICES ASSUME NEW d PROVE Cardinality(FailuresOf(d)') >= Cardinality(FailuresOf(d))
  OBVIOUS
<1>1. Cardinality(FailuresOf(d)) \in Nat
  BY FailuresCounted
<1>2. CASE UNCHANGED fetches
  <2>1. FailuresOf(d)' = FailuresOf(d)
    BY <1>2 DEF FailuresOf, Of
  <2> QED
    BY <1>1, <2>1
<1>3. ASSUME NEW kind, NEW doc, NEW of \in 0..Len(fetches), Note(kind, doc, of)
      PROVE  Cardinality(FailuresOf(d)') >= Cardinality(FailuresOf(d))
  BY <1>1, <1>3, NotedFailures
<1> QED
  BY <1>2, <1>3

LEMMA SameLedger ==
  ASSUME UNCHANGED fetches
  PROVE  LeftOpen' = LeftOpen /\ \A d, i : LastIntent(d, i)' <=> LastIntent(d, i)
BY DEF LeftOpen, LastIntent, Intents, Closed

LEMMA SoloStep ==
  ASSUME Plain, Plain', Solo, NEW r \in FetchRuns, ~together',
         \/ ReadIndex(r) \/ AlreadyStored(r) \/ RefuseAmbiguous(r) \/ Intend(r) \/ Get(r)
         \/ StoreObject(r) \/ Fetched(r) \/ Report(r) \/ Interrupt(r)
  PROVE  Solo'
<1>0. FetchShape /\ FetchShape' /\ KnowsOpen(r) /\ \A d \in Listed : asked[d] <= AllowedFor(d)
  BY DEF Plain, Solo
<1>c. ASSUME UNCHANGED asked, \A d \in Listed : Covered(d) => Covered(d)',
             UNCHANGED fetches \/ \E kind, doc : \E of \in 0..Len(fetches) : Note(kind, doc, of)
      PROVE  \A d \in Listed : asked'[d] <= AllowedFor(d)'
  BY <1>0, <1>c, FailuresStay, CountStays
<1>1. CASE ReadIndex(r)
  <2>1. \A q \in FetchRuns : doing[q] \notin Under
    BY <1>1 DEF ReadIndex
  <2>2. UNCHANGED <<fetches, bodies, asked>> /\ doing'[r] = "indexed" /\ ambiguous'[r] = LeftOpen
        /\ \A q \in FetchRuns \ {r} : doing'[q] = doing[q]
    BY <1>0, <1>1 DEF ReadIndex, To, FetchShape
  <2>3. LeftOpen' = LeftOpen
    BY <2>2, SameLedger
  <2>4. \A d \in Listed : Covered(d) => Covered(d)'
    BY <2>2, <2>3 DEF Covered
  <2>5. \A q \in FetchRuns : KnowsOpen(q)'
    BY <2>1, <2>2, <2>3 DEF KnowsOpen, Under
  <2>6. \A q \in FetchRuns \ {r} : doing'[q] \notin Under
    BY <2>1, <2>2
  <2> QED
    BY <1>c, <2>2, <2>4, <2>5, <2>6 DEF Solo
<1>2. CASE AlreadyStored(r)
  <2>1. /\ doing[r] = "indexed" /\ UNCHANGED <<doing, bodies, ambiguous, asked>> /\ at[r] \in bodies
    BY <1>2 DEF AlreadyStored
  <2>2. /\ LeftOpen' \subseteq LeftOpen /\ LeftOpen \ {at[r]} \subseteq LeftOpen'
        /\ UNCHANGED fetches \/ \E kind, doc : \E of \in 0..Len(fetches) : Note(kind, doc, of)
    <3>1. CASE at[r] \in ambiguous[r]
      <4> PICK of : of = CHOOSE i \in Intents(at[r]) : \A j \in Intents(at[r]) : j <= i
        OBVIOUS
      <4>1. of \in 0..Len(fetches) /\ of \in Intents(at[r]) /\ Note("recovered", at[r], of)
        BY <1>0, <1>2, <3>1, Recovery DEF AlreadyStored, LastIntent
      <4> QED
        BY <1>0, <4>1, NotedEnd
    <3>2. CASE at[r] \notin ambiguous[r]
      BY <1>2, <3>2, SameLedger DEF AlreadyStored
    <3> QED
      BY <3>1, <3>2
  <2>3. \A d \in Listed : Covered(d) => Covered(d)'
    BY <2>1, <2>2 DEF Covered
  <2>4. KnowsOpen(r)'
    BY <1>0, <2>1, <2>2 DEF KnowsOpen
  <2> QED
    BY <1>c, <2>1, <2>2, <2>3, <2>4, SoloOne DEF Under
<1>3. CASE RefuseAmbiguous(r) \/ Interrupt(r)
  <2>1. /\ doing[r] \in Under /\ doing'[r] \in {"refused", "dead"}
        /\ UNCHANGED <<fetches, bodies, asked>>
        /\ \A q \in FetchRuns \ {r} : doing'[q] = doing[q]
    BY <1>0, <1>3 DEF RefuseAmbiguous, Interrupt, Ends, To, FetchShape, Under
  <2>2. \A d \in Listed : Covered(d) => Covered(d)'
    BY <2>1, SameLedger DEF Covered
  <2> QED
    BY <1>c, <2>1, <2>2, SoloOne DEF Under
<1>4. CASE Intend(r)
  <2>1. /\ doing[r] = "indexed" /\ doing'[r] = "intended" /\ UNCHANGED <<bodies, at, ambiguous, asked>>
        /\ at[r] \in Listed \ (bodies \cup ambiguous[r]) /\ Note("intent", at[r], 0)
        /\ intent'[r] = Len(fetches) + 1 /\ 0 \in 0..Len(fetches)
        /\ \A q \in FetchRuns \ {r} : doing'[q] = doing[q]
    BY <1>0, <1>4 DEF Intend, To, FetchShape
  <2> PICK doc \in Listed, n \in Nat : doc = at[r] /\ n = Len(fetches) + 1
    BY <1>0, <2>1 DEF FetchShape
  <2>2. LeftOpen' = LeftOpen \cup {doc} /\ LastIntent(doc, n)'
    BY <1>0, <2>1, NotedIntent
  <2>3. \A d \in Listed : Covered(d) => Covered(d)'
    BY <2>1, <2>2 DEF Covered
  <2>4. asked[doc] <= Cardinality(FailuresOf(doc))
    <3>1. ~Covered(doc)
      BY <1>0, <2>1 DEF Covered, KnowsOpen
    <3> QED
      BY <1>0, <3>1, FailuresCounted DEF AllowedFor
  <2>5. Cardinality(FailuresOf(doc)') = Cardinality(FailuresOf(doc))
    BY <1>0, <2>1, NotedFailures, FailuresCounted
  <2>6. asked'[doc] <= Cardinality(FailuresOf(doc)')
    BY <2>1, <2>4, <2>5
  <2>7. KnowsOpen(r)'
    <3>1. at'[r] = doc /\ intent'[r] = n /\ doing'[r] = "intended"
      BY <2>1
    <3>2. LeftOpen' \ bodies' \subseteq ambiguous'[r] \cup {doc}
      BY <1>0, <2>1, <2>2 DEF KnowsOpen
    <3>3. Cardinality(FailuresOf(at[r])') = Cardinality(FailuresOf(doc)')
      BY <3>1 DEF FailuresOf, Of
    <3>4. LastIntent(at[r], intent[r])'
      BY <2>2, <3>1 DEF LastIntent, Intents
    <3> QED
      BY <2>2, <2>6, <3>1, <3>2, <3>3, <3>4 DEF KnowsOpen
  <2> QED
    BY <1>c, <2>1, <2>3, <2>7, SoloOne DEF Under
<1>5. CASE Get(r)
  <2>1. /\ doing[r] = "intended" /\ UNCHANGED bodies /\ asked' = [asked EXCEPT ![at[r]] = @ + 1]
        /\ asked \in [Listed -> Nat]
    BY <1>0, <1>5 DEF Get, FetchShape
  <2> PICK doc \in Listed : doc = at[r]
    BY <2>1 DEF Plain
  <2>2. asked[doc] <= Cardinality(FailuresOf(doc)) /\ doc \in LeftOpen
    BY <1>0, <2>1 DEF KnowsOpen
  <2>3. asked'[doc] = asked[doc] + 1 /\ \A d \in Listed \ {doc} : asked'[d] = asked[d]
    BY <2>1
  <2>4. CASE To(r, "answered") /\ UNCHANGED <<fetches, at, ambiguous, intent>>
    <3>1. LeftOpen' = LeftOpen /\ (\A d, i : LastIntent(d, i)' <=> LastIntent(d, i))
      BY <2>4, SameLedger
    <3>2. \A d : FailuresOf(d)' = FailuresOf(d)
      BY <2>4 DEF FailuresOf, Of
    <3>3. doing'[r] = "answered" /\ \A q \in FetchRuns \ {r} : doing'[q] = doing[q]
      BY <1>0, <2>4 DEF To, FetchShape
    <3>4. ASSUME NEW d \in Listed PROVE asked'[d] <= AllowedFor(d)'
      <4>1. Covered(d)' <=> Covered(d)
        BY <2>1, <3>1 DEF Covered
      <4>2. AllowedFor(d)' = AllowedFor(d)
        BY <3>2, <4>1 DEF AllowedFor
      <4>3. CASE d = doc
        <5>1. AllowedFor(doc) = Cardinality(FailuresOf(doc)) + 1 /\ Cardinality(FailuresOf(doc)) \in Nat
          BY <1>0, <2>2, FailuresCounted DEF AllowedFor, Covered
        <5> QED
          BY <2>1, <2>2, <2>3, <4>2, <4>3, <5>1
      <4>4. CASE d # doc
        BY <1>0, <2>3, <4>2, <4>4
      <4> QED
        BY <4>3, <4>4
    <3>5. KnowsOpen(r)'
      BY <1>0, <2>1, <2>4, <3>1, <3>3 DEF KnowsOpen, LastIntent, Intents
    <3> QED
      BY <2>1, <3>3, <3>4, <3>5, SoloOne DEF Under
  <2>5. CASE Ends(r, "failed") /\ Note("failed", at[r], intent[r])
    <3>1. doing'[r] = "failed" /\ \A q \in FetchRuns \ {r} : doing'[q] = doing[q]
      BY <1>0, <2>5 DEF Ends, To, FetchShape
    <3>2. intent[r] \in 0..Len(fetches) /\ intent[r] \in Intents(doc) /\ Note("failed", doc, intent[r])
      BY <1>0, <2>1, <2>5 DEF KnowsOpen, LastIntent, FetchShape
    <3>3. LeftOpen \ {doc} \subseteq LeftOpen'
      BY <1>0, <3>2, NotedEnd
    <3>4. ASSUME NEW d \in Listed PROVE asked'[d] <= AllowedFor(d)'
      <4>1. CASE d = doc
        <5>1. /\ Cardinality(FailuresOf(doc)) \in Nat
              /\ Cardinality(FailuresOf(doc)') = Cardinality(FailuresOf(doc)) + 1
          BY <1>0, <3>2, NotedFailures
        <5>2. AllowedFor(doc)' >= Cardinality(FailuresOf(doc)')
          BY <5>1 DEF AllowedFor
        <5> QED
          BY <2>1, <2>2, <2>3, <4>1, <5>1, <5>2 DEF AllowedFor
      <4>2. CASE d # doc
        <5>1. Covered(d) => Covered(d)'
          BY <2>1, <3>3, <4>2 DEF Covered
        <5>2. Cardinality(FailuresOf(d)') >= Cardinality(FailuresOf(d))
          BY <1>0, <3>2, FailuresStay
        <5> QED
          BY <1>0, <2>3, <4>2, <5>1, <5>2, CountStays
      <4> QED
        BY <4>1, <4>2
    <3> QED
      BY <2>1, <3>1, <3>4, SoloOne DEF Under
  <2> QED
    BY <1>5, <2>4, <2>5 DEF Get
<1>6. CASE StoreObject(r)
  <2>1. /\ doing[r] = "answered" /\ doing'[r] = "stored" /\ bodies' = bodies \cup {at[r]}
        /\ UNCHANGED <<fetches, at, ambiguous, intent, asked>>
        /\ \A q \in FetchRuns \ {r} : doing'[q] = doing[q]
    BY <1>0, <1>6 DEF StoreObject, To, FetchShape
  <2>2. LeftOpen' = LeftOpen /\ (\A d, i : LastIntent(d, i)' <=> LastIntent(d, i))
    BY <2>1, SameLedger
  <2>3. \A d \in Listed : Covered(d) => Covered(d)'
    BY <2>1, <2>2 DEF Covered
  <2>4. KnowsOpen(r)'
    BY <1>0, <2>1, <2>2 DEF KnowsOpen, LastIntent, Intents
  <2> QED
    BY <1>c, <2>1, <2>3, <2>4, SoloOne DEF Under
<1>7. CASE Fetched(r)
  <2>1. /\ doing[r] = "stored" /\ doing'[r] = "indexed" /\ UNCHANGED <<bodies, ambiguous, asked>>
        /\ at[r] \in bodies /\ Note("fetched", at[r], intent[r])
        /\ \A q \in FetchRuns \ {r} : doing'[q] = doing[q]
    BY <1>0, <1>7 DEF Fetched, To, FetchShape, Plain
  <2>2. intent[r] \in 0..Len(fetches) /\ intent[r] \in Intents(at[r])
    BY <1>0, <2>1 DEF KnowsOpen, LastIntent, FetchShape
  <2>3. LeftOpen' \subseteq LeftOpen /\ LeftOpen \ {at[r]} \subseteq LeftOpen'
    BY <1>0, <2>1, <2>2, NotedEnd
  <2>4. \A d \in Listed : Covered(d) => Covered(d)'
    BY <2>1, <2>3 DEF Covered
  <2>5. KnowsOpen(r)'
    BY <1>0, <2>1, <2>3 DEF KnowsOpen
  <2> QED
    BY <1>c, <2>1, <2>2, <2>4, <2>5, SoloOne DEF Under
<1>8. CASE Report(r)
  <2>1. /\ doing[r] = "indexed" /\ doing'[r] = "reported" /\ UNCHANGED <<bodies, asked>>
        /\ Note("run", 0, 0) /\ 0 \in 0..Len(fetches)
        /\ \A q \in FetchRuns \ {r} : doing'[q] = doing[q]
    BY <1>0, <1>8 DEF Report, Ends, To, FetchShape
  <2>2. LeftOpen \ {0} \subseteq LeftOpen'
    BY <1>0, <2>1, NotedEnd
  <2>3. \A d \in Listed : d # 0
    BY DEF Listed
  <2>4. \A d \in Listed : Covered(d) => Covered(d)'
    BY <2>1, <2>2, <2>3 DEF Covered
  <2> QED
    BY <1>c, <2>1, <2>4, SoloOne DEF Under
<1> QED
  BY <1>1, <1>2, <1>3, <1>4, <1>5, <1>6, <1>7, <1>8

LEMMA FetchStep == FetchInv /\ [FetchNext]_fetchVars => FetchInv'
<1> SUFFICES ASSUME FetchInv, [FetchNext]_fetchVars PROVE FetchInv'
  OBVIOUS
<1>1. Plain /\ Plain'
  BY PlainStep DEF FetchInv
<1>2. together => together'
  BY DEF FetchNext, fetchVars, ReadIndex, AlreadyStored, RefuseAmbiguous, Intend, Get, StoreObject,
         Fetched, Report, Interrupt
<1>3. CASE UNCHANGED fetchVars
  <2>1. LeftOpen' = LeftOpen /\ (\A d, i : LastIntent(d, i)' <=> LastIntent(d, i))
    BY <1>3, SameLedger DEF fetchVars
  <2>2. Solo => Solo'
    BY <1>3, <2>1 DEF fetchVars, Solo, KnowsOpen, AllowedFor, Covered, FailuresOf, Of, LastIntent, Intents
  <2> QED
    BY <1>1, <1>3, <2>2 DEF FetchInv, fetchVars
<1> QED
  BY <1>1, <1>2, <1>3, SoloStep DEF FetchInv, FetchNext

\* fetcher.py:291 and the index that is read once: while runs come one after another, a
\* document is asked for again only behind a recorded failure; and a report, whatever
\* ran beside it, says that every document is stored.
THEOREM DocumentsAreAskedOnce == FetchSpec => []AskedOnce
<1>1. FetchInv => AskedOnce
  <2> SUFFICES ASSUME FetchInv PROVE AskedOnce
    OBVIOUS
  <2>1. ASSUME Solo, NEW d \in Listed PROVE asked[d] <= 1 + Cardinality(Of({"failed"}, d))
    <3>1. Cardinality(FailuresOf(d)) \in Nat /\ asked[d] \in Nat
      BY FailuresCounted DEF FetchInv, Plain, FetchShape
    <3>2. asked[d] <= AllowedFor(d)
      BY <2>1 DEF Solo
    <3> QED
      BY <3>1, <3>2 DEF AllowedFor, FailuresOf
  <2> QED
    BY <2>1 DEF FetchInv, Plain, AskedOnce
<1> QED
  BY <1>1, FetchBegins, FetchStep, PTL DEF FetchSpec
-----------------------------------------------------------------------------
(***************************************************************************)
(* The research lead: a session, however often started, spends no more     *)
(* than its bound, tells all it spent and verifies no hypothesis twice.    *)
(***************************************************************************)
Verdicts == {"manual_review", "reject", "unresolved_finding"}
IterationRuns ==
  [status : {"running", "unresolved", "cancelled", "awaiting_review"},
   proposer : {"queued", "running", "failed", "succeeded"},
   verifier : {"none", "queued", "running", "failed", "succeeded", "cancelled"},
   calls : Nat, tokens : Nat, digest : Hypotheses \cup {NoHypothesis},
   verdict : Verdicts \cup {"none"}, signature : Signatures \cup {NoFindings}]
Attempts ==
  [digest : Hypotheses \cup {NoHypothesis},
   outcome : Verdicts \cup {"proposer_failed", "verifier_failed", "duplicate"},
   calls : Nat, productive : BOOLEAN]
Memories ==
  [records : Seq(Attempts), seen : SUBSET (Signatures \cup {NoFindings}), streak : Nat,
   reason : {"none", "budget_exhausted", "iterations_exhausted", "awaiting_human_review",
             "iteration_failed", "stagnated"}]

\* How far a run has come.
Begun(r) ==
  r.status = "running" /\ r.proposer = "queued" /\ r.verifier = "none"
  /\ r.digest = NoHypothesis /\ r.verdict = "none" /\ r.calls = 0
Proposing(r) ==
  r.status = "running" /\ r.proposer = "running" /\ r.verifier = "none"
  /\ r.digest = NoHypothesis /\ r.verdict = "none" /\ r.calls = 1
Barren(r) ==
  r.status = "unresolved" /\ r.proposer = "failed" /\ r.verifier = "none"
  /\ r.digest = NoHypothesis /\ r.verdict = "none" /\ r.calls \in 0..1
Proven(r) == r.proposer = "succeeded" /\ r.digest \in Hypotheses
Handed(r) ==
  Proven(r) /\ r.status = "running" /\ r.verifier = "queued" /\ r.verdict = "none" /\ r.calls = 1
Judging(r) ==
  Proven(r) /\ r.status = "running" /\ r.verifier = "running" /\ r.verdict = "none" /\ r.calls = 2
Unjudged(r) ==
  Proven(r) /\ r.status = "unresolved" /\ r.verifier = "failed" /\ r.verdict = "none"
  /\ r.calls \in 1..2
Decided(r) ==
  Proven(r) /\ r.status \in {"unresolved", "awaiting_review"} /\ r.verifier = "succeeded"
  /\ r.verdict \in Verdicts /\ r.calls = 2
Repeated(r) ==
  Proven(r) /\ r.status = "cancelled" /\ r.verifier = "cancelled" /\ r.verdict = "none"
  /\ r.calls = 1

Staged(r) ==
  \/ Begun(r) \/ Proposing(r) \/ Barren(r) \/ Handed(r) \/ Judging(r)
  \/ Unjudged(r) \/ Decided(r) \/ Repeated(r)

\* Nothing more comes of it unless a process takes it up that finds no job.
Still(r) == r.status = "running" => Proposing(r) \/ Judging(r)

InRun == {"half", "asked", "look", "verify", "asked again", "close"}

\* What the runs and the memory hold wherever the process is.
LeadShape ==
  /\ iterations \in Seq(IterationRuns) /\ lead \in Memories
  /\ \A i \in DOMAIN iterations : Staged(iterations[i])
  /\ \A i \in DOMAIN iterations : i < Len(iterations) => iterations[i].status # "running"
  /\ Len(lead.records) <= Len(iterations)
  /\ \A i \in DOMAIN lead.records :
       lead.records[i].calls = iterations[i].calls /\ lead.records[i].digest = iterations[i].digest
  /\ iterations # <<>> => PerIteration <= MaxModelCalls
  /\ Spent <= MaxModelCalls

\* Between two iterations, and in one.
BetweenRuns ==
  /\ leadPc \in InRun \cup {"off", "bounds", "start", "write"}
  /\ leadPc = "off" => lead.records = <<>>
  /\ leadPc \in {"bounds", "start"} /\ lead.records # <<>> =>
       /\ Len(iterations) = Len(lead.records)
       /\ \A i \in DOMAIN iterations : iterations[i].status # "running"
  /\ leadPc = "write" =>
       /\ Len(iterations) = Len(lead.records) /\ \A i \in DOMAIN iterations : Still(iterations[i])
       /\ iterations = <<>> => PerIteration > MaxModelCalls
  /\ leadPc \in InRun \cup {"start"} => Told(lead.records) + PerIteration <= MaxModelCalls
Placed(pc, r) ==
  /\ pc = "half" => Begun(r) \/ lead.records = <<>>
  /\ pc = "asked" => Proposing(r) \/ (Judging(r) /\ lead.records = <<>>)
  /\ pc = "look" =>
       ~Begun(r) /\ (Proposing(r) \/ Barren(r) \/ Handed(r) \/ lead.records = <<>>)
  /\ pc \in {"verify", "asked again"} => ~Tried(r.digest) /\ r.digest # NoHypothesis
  /\ pc = "asked again" => Judging(r)
  /\ pc = "close" =>
       Still(r) /\ ~Begun(r) /\ (r.digest # NoHypothesis /\ Tried(r.digest) => r.status # "running")
InsideRun == leadPc \in InRun => Len(iterations) = Iteration /\ Placed(leadPc, Current)

\* A session once written has told everything: a start of it again adds nothing.
SessionTold ==
  session.reason # "none" =>
    /\ session.calls = Spent
    /\ \A i \in DOMAIN iterations : Still(iterations[i])
    /\ iterations = <<>> => PerIteration > MaxModelCalls
    /\ leadPc \in InRun \cup {"bounds", "start"} => lead.records = <<>>
    /\ leadPc \in InRun => Current.status = "running" /\ leadPc \notin {"asked", "asked again"}

Verified(r) == r.verifier \in {"running", "failed", "succeeded"}
VerifiedOnce ==
  /\ verifications \in [Hypotheses -> 0..1]
  /\ \A h \in Hypotheses : verifications[h] = 1 =>
       \E i \in DOMAIN iterations : iterations[i].digest = h /\ Verified(iterations[i])

LeadInv == LeadShape /\ BetweenRuns /\ InsideRun /\ SessionTold /\ VerifiedOnce
-----------------------------------------------------------------------------
\* The calls of runs or of records, one more at the end.
LEMMA ToldLast ==
  ASSUME NEW its, NEW recs, Len(recs) \in Nat, Len(its) = Len(recs) + 1,
         \A i \in 1..Len(recs) : recs[i].calls = its[i].calls
  PROVE  Told(its) = Told(recs) + its[Len(its)].calls
<1> DEFINE s == [i \in 1..Len(recs) |-> recs[i].calls]
           t == [i \in 1..Len(its) |-> its[i].calls]
<1>1. PICK n \in Nat : n = Len(recs) /\ n + 1 = Len(its)
  OBVIOUS
<1>2. Len(s) = n /\ Len(t) = n + 1
  BY <1>1
<1>3. \A i \in 1..n : t[i] = s[i]
  BY <1>1
<1>4. t[n + 1] = its[n + 1].calls
  BY <1>1
<1> HIDE DEF s, t
<1>5. Tally(t) = Tally(s) + t[n + 1]
  BY <1>2, <1>3, TallyGrows
<1> QED
  BY <1>1, <1>4, <1>5 DEF s, t, Told

\* The same calls.
LEMMA ToldSame ==
  ASSUME NEW its, NEW recs, Len(recs) \in Nat, Len(its) = Len(recs),
         \A i \in 1..Len(recs) : recs[i].calls = its[i].calls
  PROVE  Told(its) = Told(recs)
<1>1. [i \in 1..Len(its) |-> its[i].calls] = [i \in 1..Len(recs) |-> recs[i].calls]
  OBVIOUS
<1> QED
  BY <1>1 DEF Told

LEMMA ToldType ==
  ASSUME NEW recs, Len(recs) \in Nat, \A i \in 1..Len(recs) : recs[i].calls \in Nat
  PROVE  Told(recs) \in Nat
<1> DEFINE s == [i \in 1..Len(recs) |-> recs[i].calls]
<1>1. PICK n \in Nat : n = Len(recs)
  OBVIOUS
<1>2. Len(s) = n
  BY <1>1
<1>3. \A i \in 1..n : s[i] \in Nat
  BY <1>1
<1> HIDE DEF s
<1> QED
  BY <1>2, <1>3, TallyType DEF s, Told

LEMMA ToldNone == Told(<<>>) = 0
<1>1. Len([i \in 1..Len(<<>>) |-> <<>>[i].calls]) = 0
  OBVIOUS
<1> QED
  BY <1>1, TallyOfNone DEF Told

LEMMA LeadFacts ==
  /\ MaxModelCalls \in Nat /\ PerIteration \in Nat /\ PerIteration >= 2
  /\ MaxIterations \in Nat /\ MaxIterations >= 1 /\ NoHypothesis \notin Hypotheses
BY LeadAssumption
-----------------------------------------------------------------------------
LEMMA LeadBegins == LeadInit => LeadInv
<1> SUFFICES ASSUME LeadInit PROVE LeadInv
  OBVIOUS
<1>1. /\ iterations = <<>> /\ lead = NoMemory /\ lead.records = <<>> /\ lead \in Memories
      /\ leadPc = "off" /\ session.reason = "none" /\ Spent = 0
      /\ verifications = [h \in Hypotheses |-> 0]
  BY ToldNone DEF LeadInit, NoMemory, Memories, Spent
<1>2. LeadShape
  BY <1>1, LeadFacts DEF LeadShape
<1>3. BetweenRuns /\ InsideRun /\ SessionTold
  BY <1>1 DEF BetweenRuns, InsideRun, InRun, SessionTold
<1>4. VerifiedOnce
  BY <1>1 DEF VerifiedOnce
<1> QED
  BY <1>2, <1>3, <1>4 DEF LeadInv

\* A run in hand changes, and no other: what holds of them all goes on to hold.
LEMMA RunChanges ==
  ASSUME LeadInv, leadPc \in InRun, NEW r \in IterationRuns, Staged(r), SetRun(r),
         UNCHANGED <<lead, session>>
  PROVE  /\ LeadShape'
         /\ Current \in IterationRuns /\ Staged(Current) /\ Iteration = Len(iterations)
         /\ Iteration \in DOMAIN iterations
         /\ Len(iterations') = Len(iterations) /\ Current' = r /\ iterations' # <<>>
         /\ \A i \in DOMAIN iterations : i # Iteration => iterations'[i] = iterations[i]
         /\ Told(lead.records)' = Told(lead.records) /\ Iteration' = Iteration
         /\ \A h : Tried(h)' <=> Tried(h)
<1> DEFINE n == Len(lead.records)
<1>0. LeadShape /\ Len(iterations) = n + 1 /\ n \in Nat
  <2>1. LeadShape /\ Len(iterations) = Iteration
    BY DEF LeadInv, InsideRun
  <2>2. lead.records \in Seq(Attempts)
    BY <2>1 DEF LeadShape, Memories
  <2> QED
    BY <2>1, <2>2 DEF Iteration
<1>1. /\ iterations \in Seq(IterationRuns) /\ n + 1 \in DOMAIN iterations
      /\ iterations' = [iterations EXCEPT ![n + 1] = r] /\ Iteration = n + 1
  BY <1>0 DEF LeadShape, SetRun, Iteration
<1>2. /\ iterations' \in Seq(IterationRuns) /\ Len(iterations') = n + 1 /\ iterations'[n + 1] = r
      /\ \A i \in DOMAIN iterations : i # n + 1 => iterations'[i] = iterations[i]
      /\ DOMAIN iterations' = 1..n + 1 /\ DOMAIN iterations = 1..n + 1
  BY <1>0, <1>1
<1>3. lead' = lead /\ lead.records \in Seq(Attempts) /\ DOMAIN lead.records = 1..n
  BY <1>0 DEF LeadShape, Memories
<1>4. Told(lead.records) + PerIteration <= MaxModelCalls /\ r.calls \in 0..2
  BY LeadFacts DEF LeadInv, BetweenRuns, Staged, Begun, Proposing, Barren, Handed, Judging, Unjudged,
                   Decided, Repeated
<1>5. Told(iterations') = Told(lead.records) + r.calls
  <2>1. \A i \in 1..n : lead.records[i].calls = iterations[i].calls
    BY <1>0, <1>3 DEF LeadShape
  <2>2. \A i \in 1..n : lead.records[i].calls = iterations'[i].calls
    BY <1>2, <2>1
  <2> QED
    BY <1>0, <1>2, <2>2, ToldLast
<1>6. Told(lead.records) \in Nat
  <2>1. \A i \in 1..n : lead.records[i] \in Attempts
    BY <1>3
  <2>2. \A i \in 1..n : lead.records[i].calls \in Nat
    BY <2>1 DEF Attempts
  <2> QED
    BY <1>0, <2>2, ToldType
<1>7. Spent' <= MaxModelCalls
  BY <1>4, <1>5, <1>6, LeadFacts DEF Spent
<1>8. \A i \in DOMAIN iterations' : Staged(iterations'[i])
  BY <1>0, <1>2 DEF LeadShape
<1>9. /\ \A i \in DOMAIN iterations' : i < Len(iterations') => iterations'[i].status # "running"
      /\ Len(lead.records) <= Len(iterations')
      /\ \A i \in DOMAIN lead.records : /\ lead.records[i].calls = iterations'[i].calls
                                        /\ lead.records[i].digest = iterations'[i].digest
  BY <1>0, <1>2, <1>3 DEF LeadShape
<1>10. PerIteration <= MaxModelCalls
  BY <1>4, <1>6, LeadFacts
<1>11. LeadShape'
  BY <1>0, <1>2, <1>3, <1>7, <1>8, <1>9, <1>10 DEF LeadShape
<1>12. Current \in IterationRuns /\ Staged(Current) /\ Current' = r /\ iterations' # <<>>
  BY <1>0, <1>1, <1>2, <1>3 DEF Current, Iteration, LeadShape
<1>13. \A h : Tried(h)' <=> Tried(h)
  BY <1>3 DEF Tried, Digests
<1> QED
  BY <1>0, <1>1, <1>2, <1>3, <1>11, <1>12, <1>13 DEF Iteration

\* ... and so does what depends on where the process is, for a session not yet told.
LEMMA RunStep ==
  ASSUME LeadInv, leadPc \in InRun, NEW r \in IterationRuns, Staged(r), SetRun(r),
         UNCHANGED <<lead, session>>, NEW pc \in InRun, leadPc' = pc, Placed(pc, r),
         session.reason = "none"
  PROVE  LeadShape' /\ BetweenRuns' /\ InsideRun' /\ SessionTold'
<1>1. /\ LeadShape' /\ Iteration = Len(iterations) /\ Iteration' = Iteration
      /\ Len(iterations') = Len(iterations) /\ Current' = r
      /\ Told(lead.records)' = Told(lead.records)
  BY RunChanges
<1>2. \A h : Tried(h)' <=> Tried(h)
  BY RunChanges
<1>3. BetweenRuns'
  BY <1>1 DEF BetweenRuns, InRun, LeadInv
<1>4. Placed(leadPc, Current)'
  BY <1>1, <1>2 DEF Placed
<1>5. InsideRun'
  BY <1>1, <1>4 DEF InsideRun
<1>6. SessionTold'
  BY DEF SessionTold
<1> QED
  BY <1>1, <1>3, <1>5, <1>6

\* The verifier's calls are those of runs that show them.
LEMMA VerifiedStays ==
  ASSUME LeadInv, leadPc \in InRun, NEW r \in IterationRuns, Staged(r), SetRun(r),
         UNCHANGED <<lead, session, verifications>>,
         Verified(Current) => Verified(r) /\ r.digest = Current.digest
  PROVE  VerifiedOnce'
<1>1. /\ Iteration \in DOMAIN iterations /\ Iteration = Len(iterations)
      /\ Len(iterations') = Len(iterations) /\ Current' = r /\ Iteration' = Iteration
      /\ \A i \in DOMAIN iterations : i # Iteration => iterations'[i] = iterations[i]
  BY RunChanges
<1>2. LeadShape /\ LeadShape' /\ VerifiedOnce
  BY RunChanges DEF LeadInv
<1>3. DOMAIN iterations' = DOMAIN iterations /\ iterations'[Iteration] = r
  BY <1>1, <1>2 DEF LeadShape, Current
<1>4. ASSUME NEW h \in Hypotheses, verifications[h] = 1
      PROVE  \E i \in DOMAIN iterations' : iterations'[i].digest = h /\ Verified(iterations'[i])
  <2>1. PICK i \in DOMAIN iterations : iterations[i].digest = h /\ Verified(iterations[i])
    BY <1>2, <1>4 DEF VerifiedOnce
  <2>2. CASE i = Iteration
    BY <1>1, <1>3, <2>1, <2>2 DEF Current
  <2>3. CASE i # Iteration
    BY <1>1, <1>3, <2>1, <2>3
  <2> QED
    BY <2>2, <2>3
<1> QED
  BY <1>2, <1>4 DEF VerifiedOnce

\* The run in hand.
LEMMA RunInHand ==
  ASSUME LeadInv, leadPc \in InRun
  PROVE  /\ Current \in IterationRuns /\ Staged(Current) /\ Placed(leadPc, Current)
         /\ Iteration = Len(iterations) /\ Iteration \in DOMAIN iterations
         /\ session.reason # "none" =>
              /\ lead.records = <<>> /\ leadPc \notin {"asked", "asked again"}
              /\ Proposing(Current) \/ Judging(Current)
<1>1. LeadShape /\ Len(iterations) = Iteration /\ Placed(leadPc, Current)
  BY DEF LeadInv, InsideRun
<1>2. lead.records \in Seq(Attempts) /\ iterations \in Seq(IterationRuns)
  BY <1>1 DEF LeadShape, Memories
<1>3. Iteration \in DOMAIN iterations
  BY <1>1, <1>2 DEF Iteration
<1>4. Current \in IterationRuns /\ Staged(Current)
  BY <1>1, <1>2, <1>3 DEF LeadShape, Current
<1>5. session.reason # "none" =>
        /\ lead.records = <<>> /\ leadPc \notin {"asked", "asked again"}
        /\ Proposing(Current) \/ Judging(Current)
  BY <1>3 DEF LeadInv, SessionTold, Current, Still
<1> QED
  BY <1>1, <1>3, <1>4, <1>5

LEMMA NothingTried == lead.records = <<>> => \A h : ~Tried(h)
BY DEF Tried, Digests

LEMMA AdvanceStep == ASSUME LeadInv, NEW job \in {"proposer", "verifier"}, Advance(job) PROVE LeadInv'
<1> DEFINE c == Current
<1>1. leadPc \in InRun /\ c.status = "running" /\ UNCHANGED <<lead, session>>
  BY DEF Advance, InRun
<1>2. c \in IterationRuns /\ Staged(c) /\ Placed(leadPc, c)
  BY <1>1, RunInHand
<1>3. session.reason = "none"
  <2>1. IF job = "proposer" THEN c.proposer = "queued"
        ELSE c.proposer # "queued" /\ c.verifier = "queued"
    BY DEF Advance
  <2>2. ~Proposing(c) /\ ~Judging(c)
    BY <2>1 DEF Proposing, Judging, Proven
  <2> QED
    BY <1>1, <2>2, RunInHand
<1>4. CASE job = "proposer"
  <2>1. Begun(c) /\ leadPc = "half" /\ ~Verified(c)
    BY <1>1, <1>2, <1>4
       DEF Advance, Staged, Begun, Proposing, Barren, Proven, Handed, Judging, Unjudged, Decided,
           Repeated, Placed, Verified
  <2>2. UNCHANGED verifications
    BY <1>4 DEF Advance
  <2> DEFINE r1 == [c EXCEPT !.proposer = "failed", !.status = "unresolved"]
             r2 == [c EXCEPT !.proposer = "running", !.calls = 1]
  <2>3. \/ SetRun(r1) /\ leadPc' = "look"
        \/ SetRun(r2) /\ leadPc' = "asked"
    <3>1. [c EXCEPT !.proposer = "running", !.calls = @ + 1] = r2
      BY <1>2, <2>1 DEF Begun
    <3> QED
      BY <1>4, <2>1, <3>1 DEF Advance, GoTo
  <2> HIDE DEF c
  <2>4. r1 \in IterationRuns /\ Barren(r1)
    <3>1. r1 \in IterationRuns
      BY <1>2 DEF IterationRuns
    <3>2. Barren(r1)
      BY <1>2, <2>1 DEF IterationRuns, Begun, Barren
    <3> QED
      BY <3>1, <3>2
  <2>5. r2 \in IterationRuns /\ Proposing(r2)
    <3>1. r2 \in IterationRuns
      BY <1>2 DEF IterationRuns
    <3>2. Proposing(r2)
      BY <1>2, <2>1 DEF IterationRuns, Begun, Proposing
    <3> QED
      BY <3>1, <3>2
  <2>6. Placed("look", r1) /\ Placed("asked", r2) /\ Staged(r1) /\ Staged(r2)
    BY <2>4, <2>5 DEF Placed, Staged, Begun, Barren
  <2> HIDE DEF c, r1, r2
  <2>7. LeadShape' /\ BetweenRuns' /\ InsideRun' /\ SessionTold'
    BY <1>1, <1>3, <2>3, <2>4, <2>5, <2>6, RunStep DEF InRun
  <2>8. VerifiedOnce'
    BY <1>1, <2>1, <2>2, <2>3, <2>4, <2>5, <2>6, VerifiedStays DEF c
  <2> QED
    BY <2>7, <2>8 DEF LeadInv
<1>5. CASE job = "verifier"
  <2>1. Handed(c) /\ leadPc \in {"half", "verify"}
    BY <1>1, <1>2, <1>5
       DEF Advance, Staged, Begun, Proposing, Barren, Proven, Handed, Judging, Unjudged, Decided,
           Repeated
  <2>2. ~Tried(c.digest) /\ (leadPc = "half" => lead.records = <<>>) /\ c.digest \in Hypotheses
        /\ c.digest # NoHypothesis
    BY <1>2, <2>1, NothingTried, LeadFacts DEF Placed, Begun, Handed, Proven
  <2> DEFINE r1 == [c EXCEPT !.verifier = "failed", !.status = "unresolved"]
             r2 == [c EXCEPT !.verifier = "running", !.calls = 2]
             pc1 == IF leadPc = "half" THEN "look" ELSE "close"
             pc2 == IF leadPc = "half" THEN "asked" ELSE "asked again"
  <2>3. \/ SetRun(r1) /\ leadPc' = pc1 /\ UNCHANGED verifications
        \/ /\ SetRun(r2) /\ leadPc' = pc2
           /\ verifications' = [verifications EXCEPT ![c.digest] = @ + 1]
    <3>1. [c EXCEPT !.verifier = "running", !.calls = @ + 1] = r2
      BY <1>2, <2>1 DEF Handed
    <3> QED
      BY <1>5, <2>1, <3>1 DEF Advance, GoTo
  <2> HIDE DEF c
  <2>4. r1 \in IterationRuns /\ Unjudged(r1) /\ r1.digest = c.digest
    <3>1. r1 \in IterationRuns
      BY <1>2 DEF IterationRuns
    <3>2. Unjudged(r1) /\ r1.digest = c.digest
      BY <1>2, <2>1 DEF IterationRuns, Handed, Unjudged, Proven
    <3> QED
      BY <3>1, <3>2
  <2>5. r2 \in IterationRuns /\ Judging(r2) /\ r2.digest = c.digest
    <3>1. r2 \in IterationRuns
      BY <1>2 DEF IterationRuns
    <3>2. Judging(r2) /\ r2.digest = c.digest
      BY <1>2, <2>1 DEF IterationRuns, Handed, Judging, Proven
    <3> QED
      BY <3>1, <3>2
  <2>6. Placed(pc1, r1) /\ Staged(r1) /\ pc1 \in InRun
    BY <2>1, <2>2, <2>4 DEF Placed, Staged, Begun, Unjudged, Still, InRun, Proven
  <2>7. Placed(pc2, r2) /\ Staged(r2) /\ pc2 \in InRun
    BY <2>1, <2>2, <2>5 DEF Placed, Staged, InRun
  <2>v. ~Verified(c)
    BY <2>1 DEF Handed, Verified
  <2> HIDE DEF c, r1, r2, pc1, pc2
  <2>8. LeadShape' /\ BetweenRuns' /\ InsideRun' /\ SessionTold'
    BY <1>1, <1>3, <2>3, <2>4, <2>5, <2>6, <2>7, RunStep
  <2>9. CASE SetRun(r1) /\ UNCHANGED verifications
    <3>1. VerifiedOnce'
      BY <1>1, <2>4, <2>6, <2>9, <2>v, VerifiedStays DEF c
    <3> QED
      BY <2>8, <3>1 DEF LeadInv
  <2>10. CASE SetRun(r2) /\ verifications' = [verifications EXCEPT ![c.digest] = @ + 1]
    <3>1. /\ Iteration \in DOMAIN iterations /\ Iteration = Len(iterations)
          /\ Len(iterations') = Len(iterations) /\ Current' = r2 /\ Iteration' = Iteration
          /\ \A i \in DOMAIN iterations : i # Iteration => iterations'[i] = iterations[i]
      BY <1>1, <2>5, <2>7, <2>10, RunChanges
    <3>2. LeadShape /\ VerifiedOnce /\ DOMAIN iterations' = DOMAIN iterations
          /\ iterations'[Iteration] = r2
      BY <2>8, <3>1 DEF LeadInv, LeadShape, Current
    <3>3. ASSUME NEW i \in DOMAIN iterations, iterations[i].digest = c.digest PROVE i = Iteration
      <4>1. lead.records \in Seq(Attempts) /\ iterations \in Seq(IterationRuns)
        BY <3>2 DEF LeadShape, Memories
      <4>2. i \in DOMAIN lead.records => Tried(c.digest)
        BY <3>2, <3>3 DEF LeadShape, Tried, Digests
      <4>3. i \notin DOMAIN lead.records
        BY <2>2, <4>2
      <4> QED
        BY <3>1, <4>1, <4>3 DEF Iteration
    <3>4. verifications[c.digest] = 0
      BY <2>2, <2>v, <3>2, <3>3 DEF VerifiedOnce, c, Current
    <3>5. verifications' \in [Hypotheses -> 0..1] /\ verifications'[c.digest] = 1
          /\ \A h \in Hypotheses : h # c.digest => verifications'[h] = verifications[h]
      BY <2>2, <2>10, <3>2, <3>4 DEF VerifiedOnce
    <3>6. Verified(r2)
      BY <2>5 DEF Judging, Verified
    <3>7. ASSUME NEW h \in Hypotheses, verifications'[h] = 1
          PROVE  \E i \in DOMAIN iterations' : iterations'[i].digest = h /\ Verified(iterations'[i])
      <4>1. CASE h = c.digest
        BY <2>5, <3>1, <3>2, <3>6, <4>1
      <4>2. CASE h # c.digest
        <5>1. PICK i \in DOMAIN iterations : iterations[i].digest = h /\ Verified(iterations[i])
          BY <3>2, <3>5, <3>7, <4>2 DEF VerifiedOnce
        <5>2. i # Iteration
          BY <4>2, <5>1 DEF c, Current
        <5> QED
          BY <3>1, <3>2, <5>1, <5>2
      <4> QED
        BY <4>1, <4>2
    <3> QED
      BY <2>8, <3>5, <3>7 DEF LeadInv, VerifiedOnce
  <2> QED
    BY <2>3, <2>9, <2>10
<1> QED
  BY <1>4, <1>5

\* An answer, or none: the run in hand goes on to q.
LEMMA AnswerKeeps ==
  ASSUME LeadInv, Waiting, Behind, NEW r \in IterationRuns, SetRun(r),
         UNCHANGED <<lead, session, verifications>>,
         \/ Proposing(Current) /\ (Barren(r) \/ Proposing(r) \/ Handed(r))
         \/ Judging(Current) /\ r.digest = Current.digest
            /\ (Unjudged(r) \/ Judging(r) \/ Decided(r))
  PROVE  LeadInv'
<1> DEFINE c == Current
           pc == IF leadPc = "asked" THEN "look" ELSE "close"
<1>1. leadPc \in InRun /\ pc \in InRun /\ leadPc' = pc /\ leadPc \in {"asked", "asked again"}
  BY DEF Waiting, Behind, GoTo, InRun
<1>2. Placed(leadPc, c) /\ session.reason = "none"
  BY <1>1, RunInHand
<1>3. Staged(r)
  BY DEF Staged
<1>4. Placed(pc, r)
  <2>1. CASE Proposing(c)
    <3>1. pc = "look"
      BY <1>1, <1>2, <2>1 DEF Placed, Proposing, Judging, Proven
    <3>2. Barren(r) \/ Proposing(r) \/ Handed(r)
      BY <2>1 DEF Proposing, Judging, Proven
    <3>3. ~Begun(r)
      BY <3>2 DEF Barren, Proposing, Handed, Proven, Begun
    <3> HIDE DEF pc
    <3> QED
      BY <3>1, <3>2, <3>3 DEF Placed
  <2>2. CASE Judging(c)
    <3>1. /\ r.digest = c.digest /\ ~Begun(r) /\ Still(r)
      BY <2>2 DEF Proposing, Judging, Unjudged, Decided, Begun, Still, Proven
    <3>2. ~Tried(c.digest) /\ (leadPc = "asked" => lead.records = <<>>)
      BY <1>1, <1>2, <2>2, NothingTried DEF Placed, Proposing, Judging, Proven
    <3> HIDE DEF c
    <3> QED
      BY <1>1, <3>1, <3>2 DEF Placed
  <2> QED
    BY <2>1, <2>2
<1>5. Verified(c) => Verified(r) /\ r.digest = c.digest
  BY DEF Verified, Proposing, Judging, Unjudged, Decided, Proven
<1> HIDE DEF pc
<1>6. LeadShape' /\ BetweenRuns' /\ InsideRun' /\ SessionTold'
  BY <1>1, <1>2, <1>3, <1>4, RunStep
<1>7. VerifiedOnce'
  BY <1>1, <1>3, <1>5, VerifiedStays
<1> QED
  BY <1>6, <1>7 DEF LeadInv

LEMMA AnswerStep ==
  ASSUME LeadInv, NEW n \in CallUsage,
         \/ CallFails(n) \/ CallLate(n)
         \/ \E h \in Hypotheses : Proposed(n, h)
         \/ \E s \in Signatures \cup {NoFindings} :
              \E v \in {"manual_review", "reject", "unresolved_finding"} : Judged(n, v, s)
  PROVE  LeadInv'
<1> DEFINE c == Current
<1>1. Waiting /\ Behind /\ UNCHANGED <<lead, session, verifications>>
  BY DEF CallFails, CallLate, Proposed, Judged
<1>2. leadPc \in InRun /\ c \in IterationRuns
  BY <1>1, RunInHand DEF Waiting, InRun
<1>3. \/ Proposing(c) /\ Running = "proposer"
      \/ Judging(c) /\ Running = "verifier"
  <2>1. Placed(leadPc, c) /\ leadPc \in {"asked", "asked again"}
    BY <1>1, <1>2, RunInHand DEF Waiting
  <2>2. Proposing(c) \/ Judging(c)
    BY <2>1 DEF Placed
  <2>3. Proposing(c) => Running = "proposer"
    BY DEF Proposing, Running
  <2>4. Judging(c) => Running = "verifier"
    BY DEF Judging, Proven, Running
  <2> QED
    BY <2>2, <2>3, <2>4
<1>4. PICK m \in Nat : m = c.tokens + n
  BY <1>2, LeadAssumption DEF IterationRuns
<1>5. ASSUME NEW r, SetRun(r), r \in IterationRuns,
             \/ Proposing(c) /\ (Barren(r) \/ Proposing(r) \/ Handed(r))
             \/ Judging(c) /\ r.digest = c.digest /\ (Unjudged(r) \/ Judging(r) \/ Decided(r))
      PROVE  LeadInv'
  BY <1>1, <1>5, AnswerKeeps
<1>6. CASE CallFails(n)
  <2> DEFINE r1 == [c EXCEPT !.proposer = "failed", !.status = "unresolved", !.tokens = m]
             r2 == [c EXCEPT !.verifier = "failed", !.status = "unresolved", !.tokens = m]
  <2>1. \/ Proposing(c) /\ SetRun(r1)
        \/ Judging(c) /\ SetRun(r2)
    BY <1>3, <1>4, <1>6 DEF CallFails
  <2> HIDE DEF c
  <2>2. r1 \in IterationRuns /\ r2 \in IterationRuns
    BY <1>2 DEF IterationRuns
  <2>3. Proposing(c) => Barren(r1)
    BY <1>2 DEF IterationRuns, Proposing, Barren
  <2>4. Judging(c) => Unjudged(r2) /\ r2.digest = c.digest
    BY <1>2 DEF IterationRuns, Judging, Unjudged, Proven
  <2> HIDE DEF r1, r2
  <2> QED
    BY <1>5, <2>1, <2>2, <2>3, <2>4
<1>7. CASE CallLate(n)
  <2> DEFINE r == [c EXCEPT !.tokens = m]
  <2>1. SetRun(r)
    BY <1>4, <1>7 DEF CallLate
  <2> HIDE DEF c
  <2>2. r \in IterationRuns /\ r.digest = c.digest /\ (Proposing(c) => Proposing(r)) /\ (Judging(c) => Judging(r))
    BY <1>2 DEF IterationRuns, Proposing, Judging, Proven
  <2> HIDE DEF r
  <2> QED
    BY <1>3, <1>5, <2>1, <2>2
<1>8. ASSUME NEW h \in Hypotheses, Proposed(n, h) PROVE LeadInv'
  <2> DEFINE r == [c EXCEPT !.proposer = "succeeded", !.digest = h, !.verifier = "queued",
                     !.tokens = m]
  <2>1. Proposing(c) /\ SetRun(r)
    BY <1>3, <1>4, <1>8 DEF Proposed
  <2> HIDE DEF c
  <2>2. r \in IterationRuns /\ Handed(r)
    BY <1>2, <2>1 DEF IterationRuns, Proposing, Handed, Proven
  <2> HIDE DEF r
  <2> QED
    BY <1>5, <2>1, <2>2
<1>9. ASSUME NEW s \in Signatures \cup {NoFindings},
             NEW v \in {"manual_review", "reject", "unresolved_finding"}, Judged(n, v, s)
      PROVE  LeadInv'
  <2> DEFINE st == IF v = "manual_review" THEN "awaiting_review" ELSE "unresolved"
             r == [c EXCEPT !.verifier = "succeeded", !.verdict = v, !.signature = s,
                     !.tokens = m, !.status = st]
  <2>1. Judging(c) /\ SetRun(r)
    BY <1>3, <1>4, <1>9 DEF Judged
  <2>2. st \in {"unresolved", "awaiting_review"} /\ v \in Verdicts
    BY DEF Verdicts
  <2> HIDE DEF c, st
  <2>3. r \in IterationRuns
    BY <1>2, <2>2 DEF IterationRuns
  <2>4. Decided(r) /\ r.digest = c.digest
    BY <1>2, <2>1, <2>2 DEF IterationRuns, Judging, Decided, Proven
  <2> HIDE DEF r
  <2> QED
    BY <1>5, <2>1, <2>3, <2>4
<1> QED
  BY <1>6, <1>7, <1>8, <1>9
-----------------------------------------------------------------------------
\* Steps that leave the runs alone.
LEMMA RunsStay ==
  ASSUME LeadInv, UNCHANGED <<iterations, verifications>>, lead' \in Memories,
         lead'.records \in {lead.records, <<>>}
  PROVE  LeadShape' /\ VerifiedOnce'
<1>1. LeadShape /\ VerifiedOnce
  BY DEF LeadInv
<1>2. Len(lead.records) \in Nat /\ iterations \in Seq(IterationRuns)
  BY <1>1 DEF LeadShape, Memories
<1>3. Len(lead'.records) <= Len(iterations)
      /\ \A i \in DOMAIN lead'.records : lead'.records[i].calls = iterations[i].calls
                                        /\ lead'.records[i].digest = iterations[i].digest
  BY <1>1, <1>2 DEF LeadShape
<1>4. LeadShape'
  BY <1>1, <1>3 DEF LeadShape, Spent
<1>5. VerifiedOnce'
  BY <1>1 DEF VerifiedOnce
<1> QED
  BY <1>4, <1>5

LEMMA Forgotten == NoMemory \in Memories /\ NoMemory.records = <<>>
BY DEF NoMemory, Memories

LEMMA LeavesStep ==
  ASSUME LeadInv, lead' = NoMemory, leadPc' \in {"off", "bounds"},
         UNCHANGED <<iterations, session, verifications>>
  PROVE  LeadInv'
<1>1. LeadShape' /\ VerifiedOnce'
  BY RunsStay, Forgotten
<1>2. lead'.records = <<>>
  BY Forgotten
<1>3. BetweenRuns' /\ InsideRun'
  BY <1>2 DEF BetweenRuns, InsideRun, InRun
<1>4. SessionTold'
  BY <1>2 DEF LeadInv, SessionTold, InRun, Spent
<1> QED
  BY <1>1, <1>3, <1>4 DEF LeadInv

\* The memory is a record of its fields.
LEMMA MemoryKeeps ==
  ASSUME LeadInv, NEW reason \in {"budget_exhausted", "iterations_exhausted"},
         Stop(reason)
  PROVE  lead' \in Memories /\ lead'.records = lead.records
BY DEF Stop, LeadInv, LeadShape, Memories

LEMMA CheckStep == ASSUME LeadInv, CheckBounds PROVE LeadInv'
<1>1. leadPc = "bounds" /\ UNCHANGED <<iterations, session, verifications>>
  BY DEF CheckBounds
<1>2. LeadShape /\ lead \in Memories /\ lead.records \in Seq(Attempts) /\ iterations \in Seq(IterationRuns)
  BY DEF LeadInv, LeadShape, Memories
<1>3. /\ lead.records # <<>> => /\ Len(iterations) = Len(lead.records)
                                /\ \A i \in DOMAIN iterations : iterations[i].status # "running"
      /\ session.reason # "none" => lead.records = <<>>
  BY <1>1 DEF LeadInv, BetweenRuns, SessionTold
<1>4. CASE leadPc' = "start" /\ RoomForIteration /\ UNCHANGED lead
  <2>1. LeadShape' /\ VerifiedOnce'
    BY <1>1, <1>2, <1>4, RunsStay
  <2>2. BetweenRuns' /\ InsideRun'
    BY <1>3, <1>1, <1>4 DEF BetweenRuns, InsideRun, InRun, RoomForIteration
  <2>3. SessionTold'
    BY <1>1, <1>3, <1>4 DEF LeadInv, SessionTold, InRun, Spent
  <2> QED
    BY <2>1, <2>2, <2>3 DEF LeadInv
<1>5. ASSUME NEW reason \in {"budget_exhausted", "iterations_exhausted"}, Stop(reason),
             Iteration > MaxIterations \/ ~RoomForIteration
      PROVE  LeadInv'
  <2>1. lead' \in Memories /\ lead'.records = lead.records /\ leadPc' = "write"
    BY <1>5, MemoryKeeps DEF Stop, GoTo
  <2>2. LeadShape' /\ VerifiedOnce'
    BY <1>1, <2>1, RunsStay
  <2>3. CASE lead.records = <<>>
    <3>1. ~RoomForIteration
      BY <1>5, <2>3, LeadFacts DEF Iteration
    <3>2. PerIteration > MaxModelCalls /\ iterations = <<>>
      BY <1>2, <2>3, <3>1, ToldNone, LeadFacts DEF RoomForIteration, LeadShape
    <3>3. BetweenRuns'
      BY <1>1, <2>1, <2>3, <3>2 DEF BetweenRuns, InRun
    <3> QED
      BY <1>1, <2>1, <2>2, <3>2, <3>3 DEF LeadInv, InsideRun, InRun, SessionTold, Spent
  <2>4. CASE lead.records # <<>>
    <3>1. iterations # <<>>
      BY <1>2, <1>3, <2>4
    <3>2. BetweenRuns'
      BY <1>1, <1>3, <2>1, <2>4, <3>1 DEF BetweenRuns, InRun, Still
    <3> QED
      BY <1>1, <1>3, <2>1, <2>2, <2>4, <3>2 DEF LeadInv, InsideRun, InRun, SessionTold
  <2> QED
    BY <2>3, <2>4
<1>6. \/ leadPc' = "start" /\ RoomForIteration /\ UNCHANGED lead
      \/ Stop("iterations_exhausted") /\ Iteration > MaxIterations
      \/ Stop("budget_exhausted") /\ ~RoomForIteration
  BY DEF CheckBounds, GoTo
<1> QED
  BY <1>4, <1>5, <1>6

LEMMA StartStep == ASSUME LeadInv, StartIteration PROVE LeadInv'
<1> DEFINE n == Len(lead.records)
<1>1. leadPc = "start" /\ leadPc' = "half" /\ UNCHANGED <<lead, session, verifications>>
  BY DEF StartIteration, GoTo
<1>2. LeadShape /\ lead \in Memories /\ lead.records \in Seq(Attempts) /\ iterations \in Seq(IterationRuns)
  BY DEF LeadInv, LeadShape, Memories
<1>3. /\ lead.records # <<>> => /\ Len(iterations) = n
                                /\ \A i \in DOMAIN iterations : iterations[i].status # "running"
      /\ session.reason # "none" => lead.records = <<>>
      /\ Told(lead.records) + PerIteration <= MaxModelCalls
  BY <1>1 DEF LeadInv, BetweenRuns, SessionTold, InRun
<1>4. n \in Nat /\ Len(iterations) \in Nat /\ n <= Len(iterations) /\ Iteration = n + 1
      /\ (lead.records = <<>> <=> n = 0)
  BY <1>2 DEF LeadShape, Iteration
<1>5. CASE Len(iterations) < Iteration /\ iterations' = Append(iterations, NewRun)
  <2>1. Len(iterations) = n
    BY <1>4, <1>5
  <2>2. NewRun \in IterationRuns /\ Begun(NewRun) /\ Staged(NewRun)
    BY DEF NewRun, IterationRuns, Begun, Staged
  <2>3. /\ iterations' \in Seq(IterationRuns) /\ Len(iterations') = n + 1 /\ iterations'[n + 1] = NewRun
        /\ \A i \in 1..n : iterations'[i] = iterations[i]
        /\ DOMAIN iterations' = 1..n + 1 /\ DOMAIN iterations = 1..n /\ iterations' # <<>>
    BY <1>2, <1>4, <1>5, <2>1, <2>2
  <2>4. \A i \in 1..n : lead.records[i].calls = iterations'[i].calls
                        /\ lead.records[i].digest = iterations'[i].digest
    BY <1>2, <1>4, <2>3 DEF LeadShape
  <2>5. Told(iterations') = Told(lead.records) + 0
    <3>1. iterations'[n + 1].calls = 0
      BY <2>3 DEF NewRun
    <3> QED
      BY <1>4, <2>3, <2>4, <3>1, ToldLast
  <2>6. Told(lead.records) \in Nat
    <3>1. \A i \in 1..n : lead.records[i] \in Attempts
      BY <1>2
    <3>2. \A i \in 1..n : lead.records[i].calls \in Nat
      BY <3>1 DEF Attempts
    <3> QED
      BY <1>4, <3>2, ToldType
  <2>7. \A i \in 1..n : iterations[i].status # "running"
    BY <1>3, <1>4, <2>3
  <2>8. LeadShape'
    <3>1. \A i \in DOMAIN iterations' : Staged(iterations'[i])
      BY <1>2, <1>4, <2>2, <2>3 DEF LeadShape
    <3>2. \A i \in DOMAIN iterations' : i < Len(iterations') => iterations'[i].status # "running"
      BY <1>4, <2>3, <2>7
    <3>3. Spent' <= MaxModelCalls /\ PerIteration <= MaxModelCalls
      BY <1>3, <2>5, <2>6, LeadFacts DEF Spent
    <3> QED
      BY <1>1, <1>2, <1>4, <2>3, <2>4, <3>1, <3>2, <3>3 DEF LeadShape
  <2>9. session.reason = "none"
    <3>1. session.reason # "none" => lead.records = <<>> /\ iterations = <<>>
      BY <1>2, <1>3, <1>4, <2>1
    <3>2. session.reason # "none" => PerIteration > MaxModelCalls
      BY <3>1 DEF LeadInv, SessionTold
    <3>3. session.reason # "none" => Told(lead.records) = 0
      BY <3>1, ToldNone
    <3> QED
      BY <1>3, <3>2, <3>3, LeadFacts
  <2>10. BetweenRuns' /\ SessionTold'
    BY <1>1, <1>3, <2>9 DEF BetweenRuns, SessionTold, InRun
  <2>11. InsideRun'
    <3>1. Current' = NewRun /\ Iteration' = n + 1
      BY <1>1, <1>4, <2>3 DEF Current, Iteration
    <3> QED
      BY <1>1, <2>2, <2>3, <3>1 DEF InsideRun, Placed
  <2>12. VerifiedOnce'
    <3>1. VerifiedOnce
      BY DEF LeadInv
    <3>2. ASSUME NEW h \in Hypotheses, verifications[h] = 1
          PROVE  \E i \in DOMAIN iterations' : iterations'[i].digest = h /\ Verified(iterations'[i])
      <4>1. PICK i \in DOMAIN iterations : iterations[i].digest = h /\ Verified(iterations[i])
        BY <3>1, <3>2 DEF VerifiedOnce
      <4> QED
        BY <1>4, <2>3, <4>1
    <3> QED
      BY <1>1, <3>1, <3>2 DEF VerifiedOnce
  <2> QED
    BY <2>8, <2>10, <2>11, <2>12 DEF LeadInv
<1>6. CASE Iteration <= Len(iterations) /\ Current.status = "running" /\ UNCHANGED iterations
  <2>1. lead.records = <<>> /\ Len(iterations) = Iteration
    BY <1>2, <1>3, <1>4, <1>6 DEF LeadShape, Current
  <2>2. LeadShape' /\ VerifiedOnce'
    BY <1>1, <1>2, <1>6, RunsStay
  <2>3. BetweenRuns'
    BY <1>1, <1>3 DEF BetweenRuns, InRun
  <2>4. InsideRun'
    BY <1>1, <1>6, <2>1 DEF InsideRun, Placed, Iteration
  <2>5. SessionTold'
    BY <1>1, <1>6, <2>1 DEF LeadInv, SessionTold, InRun, Spent, Current, Iteration
  <2> QED
    BY <2>2, <2>3, <2>4, <2>5 DEF LeadInv
<1> QED
  BY <1>5, <1>6 DEF StartIteration

LEMMA IdleStep == ASSUME LeadInv, NothingToDo PROVE LeadInv'
<1> DEFINE c == Current
           pc == IF leadPc = "half" THEN "look" ELSE "close"
<1>1. /\ leadPc \in {"half", "verify"} /\ leadPc' = pc
      /\ UNCHANGED <<iterations, lead, session, verifications>>
      /\ c.status # "running" \/ "queued" \notin {c.proposer, c.verifier}
  BY DEF NothingToDo, GoTo
<1>2. Staged(c) /\ Placed(leadPc, c)
  BY <1>1, RunInHand DEF InRun
<1>3. Placed(pc, c)
  <2>1. ~Begun(c) /\ Still(c)
    BY <1>1, <1>2
       DEF Staged, Begun, Proposing, Barren, Proven, Handed, Judging, Unjudged, Decided, Repeated, Still
  <2>2. leadPc = "half" => lead.records = <<>>
    BY <1>2, <2>1 DEF Placed
  <2>3. leadPc = "verify" => ~Tried(c.digest)
    BY <1>2 DEF Placed
  <2> HIDE DEF c
  <2> QED
    BY <1>1, <2>1, <2>2, <2>3 DEF Placed
<1>4. LeadShape' /\ VerifiedOnce'
  <2>1. lead \in Memories
    BY DEF LeadInv, LeadShape
  <2> QED
    BY <1>1, <2>1, RunsStay
<1>5. InsideRun'
  <2>1. Len(iterations) = Iteration
    BY <1>1, RunInHand DEF InRun
  <2>2. Placed(leadPc, Current)'
    BY <1>1, <1>3 DEF Placed, Current, Iteration, Tried, Digests
  <2> QED
    BY <1>1, <2>1, <2>2 DEF InsideRun, Iteration
<1>6. BetweenRuns' /\ SessionTold'
  BY <1>1 DEF LeadInv, BetweenRuns, SessionTold, InRun, Spent, Current, Iteration
<1> QED
  BY <1>4, <1>5, <1>6 DEF LeadInv

LEMMA LookStep == ASSUME LeadInv, Look PROVE LeadInv'
<1> DEFINE c == Current
<1>1. leadPc = "look" /\ UNCHANGED <<lead, session, verifications>>
  BY DEF Look
<1>2. Staged(c) /\ c \in IterationRuns /\ Placed("look", c) /\ leadPc \in InRun
      /\ (session.reason # "none" => lead.records = <<>>)
  BY <1>1, RunInHand DEF InRun
<1>3. CASE c.digest # NoHypothesis /\ Tried(c.digest)
  <2>1. lead.records # <<>> /\ session.reason = "none"
    BY <1>2, <1>3, NothingTried
  <2>2. Handed(c)
    BY <1>2, <1>3, <2>1 DEF Placed, Proposing, Barren
  <2> DEFINE r == [c EXCEPT !.status = "cancelled", !.verifier = "cancelled"]
  <2>3. SetRun(r) /\ leadPc' = "close"
    BY <1>3, <2>2 DEF Look, GoTo, Handed
  <2>v. ~Verified(c)
    BY <2>2 DEF Handed, Verified
  <2> HIDE DEF c
  <2>4. r \in IterationRuns
    BY <1>2 DEF IterationRuns
  <2>5. Repeated(r)
    BY <1>2, <2>2 DEF IterationRuns, Handed, Repeated, Proven
  <2>6. Placed("close", r) /\ Staged(r) /\ "close" \in InRun
    BY <2>5 DEF Placed, Staged, Repeated, Begun, Still, Proven, InRun
  <2> HIDE DEF r
  <2>7. LeadShape' /\ BetweenRuns' /\ InsideRun' /\ SessionTold'
    BY <1>1, <1>2, <2>1, <2>3, <2>4, <2>6, RunStep
  <2>8. VerifiedOnce'
    BY <1>1, <1>2, <2>3, <2>4, <2>6, <2>v, VerifiedStays DEF c
  <2> QED
    BY <2>7, <2>8 DEF LeadInv
<1>4. CASE ~(c.digest # NoHypothesis /\ Tried(c.digest))
  <2> DEFINE pc == IF c.digest = NoHypothesis THEN "close" ELSE "verify"
  <2>1. leadPc' = pc /\ UNCHANGED iterations
    BY <1>4 DEF Look, GoTo
  <2>2. Placed(pc, c)
    <3>1. c.digest = NoHypothesis => Proposing(c) \/ Barren(c)
      BY <1>2, LeadFacts
         DEF Placed, Staged, Begun, Proposing, Barren, Proven, Handed, Judging, Unjudged, Decided,
             Repeated
    <3>2. c.digest = NoHypothesis => Still(c) /\ ~Begun(c)
      BY <3>1 DEF Proposing, Barren, Begun, Still
    <3> HIDE DEF c
    <3> QED
      BY <1>4, <3>2 DEF Placed
  <2>3. LeadShape' /\ VerifiedOnce'
    <3>1. lead \in Memories
      BY DEF LeadInv, LeadShape
    <3> QED
      BY <1>1, <2>1, <3>1, RunsStay
  <2>4. InsideRun'
    <3>1. Len(iterations) = Iteration
      BY <1>2, RunInHand
    <3>2. Placed(leadPc, Current)'
      BY <1>1, <2>1, <2>2 DEF Placed, Current, Iteration, Tried, Digests
    <3> QED
      BY <1>1, <2>1, <3>1, <3>2 DEF InsideRun, Iteration
  <2>5. BetweenRuns' /\ SessionTold'
    BY <1>1, <2>1 DEF LeadInv, BetweenRuns, SessionTold, InRun, Spent, Current, Iteration
  <2> QED
    BY <2>3, <2>4, <2>5 DEF LeadInv
<1> QED
  BY <1>3, <1>4

LEMMA CloseStep == ASSUME LeadInv, Close PROVE LeadInv'
<1> DEFINE c == Current
           n == Len(lead.records)
           rec == [digest |-> c.digest, outcome |-> Conclusion, calls |-> MeasuredCalls,
                   productive |-> Productive]
<1>1. /\ leadPc = "close" /\ UNCHANGED <<iterations, session, verifications>>
      /\ lead' = [lead EXCEPT !.records = Append(@, rec), !.seen = @ \cup {c.signature},
                              !.streak = Streak, !.reason = ReasonAfter]
      /\ leadPc' = IF ReasonAfter = "none" THEN "bounds" ELSE "write"
  BY DEF Close, GoTo
<1>2. Staged(c) /\ c \in IterationRuns /\ Placed("close", c) /\ leadPc \in InRun
      /\ Iteration = Len(iterations) /\ Iteration \in DOMAIN iterations
      /\ (session.reason # "none" => lead.records = <<>> /\ (Proposing(c) \/ Judging(c)))
  BY <1>1, RunInHand DEF InRun
<1>3. LeadShape /\ lead \in Memories /\ lead.records \in Seq(Attempts) /\ iterations \in Seq(IterationRuns)
      /\ n \in Nat /\ Iteration = n + 1
  BY DEF LeadInv, LeadShape, Memories, Iteration
<1>4. /\ Conclusion \in Verdicts \cup {"proposer_failed", "verifier_failed", "duplicate"}
      /\ Conclusion \in Verdicts => c.verdict \in Verdicts
      /\ Conclusion = "duplicate" => c.digest # NoHypothesis /\ Tried(c.digest)
      /\ c.digest = NoHypothesis => Conclusion = "proposer_failed"
      /\ c.digest # NoHypothesis /\ ~Tried(c.digest) /\ c.verdict = "none" =>
           Conclusion = "verifier_failed"
  <2>1. c.verdict \in Verdicts \cup {"none"}
    BY <1>2 DEF IterationRuns
  <2>2. CASE c.digest = NoHypothesis
    BY <2>2 DEF Conclusion, Verdicts
  <2>3. CASE c.digest # NoHypothesis /\ Tried(c.digest)
    BY <2>3 DEF Conclusion, Verdicts
  <2>4. CASE c.digest # NoHypothesis /\ ~Tried(c.digest) /\ c.verdict = "none"
    BY <2>4 DEF Conclusion, Verdicts
  <2>5. CASE c.digest # NoHypothesis /\ ~Tried(c.digest) /\ c.verdict # "none"
    <3>1. Conclusion = c.verdict
      BY <2>5 DEF Conclusion
    <3> QED
      BY <2>1, <2>5, <3>1 DEF Verdicts
  <2> QED
    BY <2>2, <2>3, <2>4, <2>5
<1>5. ReasonAfter \in {"none", "budget_exhausted", "awaiting_human_review", "iteration_failed",
                       "stagnated"}
      /\ (Conclusion \in {"proposer_failed", "verifier_failed", "manual_review"} =>
            ReasonAfter # "none")
  BY DEF ReasonAfter, HitBound
<1>6. lead' \in Memories /\ lead'.records = Append(lead.records, rec)
  <2>1. rec \in Attempts
    <3>1. c.calls \in Nat /\ c.digest \in Hypotheses \cup {NoHypothesis}
      BY <1>2 DEF IterationRuns
    <3>2. Productive \in BOOLEAN
      BY DEF Productive
    <3> HIDE DEF c
    <3> QED
      BY <1>4, <3>1, <3>2 DEF Attempts, MeasuredCalls, c
  <2>2. Streak \in Nat /\ c.signature \in Signatures \cup {NoFindings}
    BY <1>2, <1>3 DEF Streak, Memories, IterationRuns
  <2> HIDE DEF c, rec
  <2>3. Append(lead.records, rec) \in Seq(Attempts)
    BY <1>3, <2>1
  <2> QED
    BY <1>1, <1>3, <1>5, <2>2, <2>3 DEF Memories
<1>7. /\ lead'.records \in Seq(Attempts) /\ Len(lead'.records) = n + 1
      /\ DOMAIN lead'.records = 1..n + 1 /\ lead'.records[n + 1] = rec /\ lead'.records # <<>>
      /\ \A i \in 1..n : lead'.records[i] = lead.records[i]
  <2>1. lead'.records \in Seq(Attempts)
    BY <1>6 DEF Memories
  <2> HIDE DEF rec
  <2> QED
    BY <1>3, <1>6, <2>1
<1>8. rec.calls = c.calls /\ rec.digest = c.digest
  BY DEF MeasuredCalls
<1>9. LeadShape'
  <2>1. \A i \in DOMAIN lead'.records : lead'.records[i].calls = iterations[i].calls
                                       /\ lead'.records[i].digest = iterations[i].digest
    <3>1. SUFFICES ASSUME NEW i \in 1..n + 1
                   PROVE  lead'.records[i].calls = iterations[i].calls
                          /\ lead'.records[i].digest = iterations[i].digest
      BY <1>7
    <3>2. CASE i = n + 1
      BY <1>3, <1>7, <1>8, <3>2 DEF Current
    <3>3. CASE i # n + 1
      <4>1. i \in 1..n /\ i \in DOMAIN lead.records
        BY <1>3, <3>3
      <4> HIDE DEF rec
      <4> QED
        BY <1>3, <1>7, <4>1 DEF LeadShape
    <3> QED
      BY <3>2, <3>3
  <2>2. Len(lead'.records) <= Len(iterations)
    BY <1>2, <1>3, <1>7
  <2> QED
    BY <1>1, <1>3, <1>6, <2>1, <2>2 DEF LeadShape, Spent
<1>10. c.verdict \in Verdicts => c.status # "running"
  BY <1>2 DEF Staged, Begun, Proposing, Barren, Proven, Handed, Judging, Unjudged, Decided, Repeated,
              Verdicts
<1>11. ReasonAfter = "none" => c.status # "running"
  BY <1>2, <1>4, <1>5, <1>10 DEF Placed
<1>12. \A i \in DOMAIN iterations : i # Iteration => iterations[i].status # "running"
  <2> SUFFICES ASSUME NEW i \in DOMAIN iterations, i # Iteration PROVE iterations[i].status # "running"
    OBVIOUS
  <2>0. DOMAIN iterations = 1..Len(iterations) /\ Len(iterations) \in Nat
    BY <1>3
  <2>1. i < Len(iterations)
    BY <1>2, <2>0
  <2> QED
    BY <1>3, <2>1 DEF LeadShape
<1>13. BetweenRuns'
  <2>1. \A i \in DOMAIN iterations : Still(iterations[i])
    BY <1>2, <1>12 DEF Placed, Still, Current
  <2>2. ReasonAfter = "none" => \A i \in DOMAIN iterations : iterations[i].status # "running"
    BY <1>11, <1>12 DEF Current
  <2>3. iterations # <<>> /\ Len(iterations) = Len(lead'.records)
    BY <1>2, <1>3, <1>7
  <2> QED
    BY <1>1, <2>1, <2>2, <2>3 DEF BetweenRuns, InRun
<1>14. InsideRun'
  BY <1>1 DEF InsideRun, InRun
<1>15. SessionTold'
  <2>1. session.reason # "none" => ReasonAfter # "none"
    <3>1. Proposing(c) => c.digest = NoHypothesis
      BY DEF Proposing
    <3>2. Judging(c) /\ lead.records = <<>> =>
            c.digest # NoHypothesis /\ ~Tried(c.digest) /\ c.verdict = "none"
      BY NothingTried, LeadFacts DEF Judging, Proven
    <3> QED
      BY <1>2, <1>4, <1>5, <3>1, <3>2
  <2> QED
    BY <1>1, <2>1 DEF LeadInv, SessionTold, InRun, Spent
<1>16. VerifiedOnce'
  BY <1>1 DEF LeadInv, VerifiedOnce
<1> QED
  BY <1>9, <1>13, <1>14, <1>15, <1>16 DEF LeadInv

LEMMA WriteStep == ASSUME LeadInv, WriteSession PROVE LeadInv'
<1>1. /\ leadPc = "write" /\ leadPc' = "off" /\ lead' = NoMemory
      /\ UNCHANGED <<iterations, verifications>> /\ session'.calls = Told(lead.records)
  BY DEF WriteSession, GoTo
<1>2. LeadShape' /\ VerifiedOnce'
  BY <1>1, RunsStay, Forgotten
<1>3. /\ Len(iterations) = Len(lead.records) /\ \A i \in DOMAIN iterations : Still(iterations[i])
      /\ iterations = <<>> => PerIteration > MaxModelCalls
  BY <1>1 DEF LeadInv, BetweenRuns
<1>4. Told(iterations) = Told(lead.records)
  <2>1. lead.records \in Seq(Attempts) /\ LeadShape
    BY DEF LeadInv, LeadShape, Memories
  <2>2. Len(lead.records) \in Nat
        /\ \A i \in 1..Len(lead.records) : lead.records[i].calls = iterations[i].calls
    BY <2>1 DEF LeadShape
  <2> QED
    BY <1>3, <2>2, ToldSame
<1>5. BetweenRuns' /\ InsideRun'
  BY <1>1, Forgotten DEF BetweenRuns, InsideRun, InRun
<1>6. SessionTold'
  BY <1>1, <1>3, <1>4 DEF SessionTold, InRun, Spent
<1> QED
  BY <1>2, <1>5, <1>6 DEF LeadInv

LEMMA LeadStep == LeadInv /\ [LeadNext]_leadVars => LeadInv'
<1> SUFFICES ASSUME LeadInv, [LeadNext]_leadVars PROVE LeadInv'
  OBVIOUS
<1>1. CASE Launch \/ LeadDies \/ StartRefused
  <2>1. lead' = NoMemory /\ leadPc' \in {"off", "bounds"} /\ UNCHANGED <<iterations, session, verifications>>
    BY <1>1 DEF Launch, LeadDies, StartRefused, GoTo
  <2> QED
    BY <2>1, LeavesStep
<1>2. CASE UNCHANGED leadVars
  <2>1. UNCHANGED <<iterations, leadPc, lead, session, verifications>>
    BY <1>2 DEF leadVars
  <2>2. LeadShape' /\ BetweenRuns' /\ SessionTold' /\ VerifiedOnce'
    BY <2>1 DEF LeadInv, LeadShape, BetweenRuns, SessionTold, VerifiedOnce, Spent, Current, Iteration
  <2>3. Placed(leadPc, Current)' = Placed(leadPc, Current)
    BY <2>1 DEF Placed, Current, Iteration, Tried, Digests
  <2>4. InsideRun'
    BY <2>1, <2>3 DEF LeadInv, InsideRun, Iteration
  <2> QED
    BY <2>2, <2>4 DEF LeadInv
<1>3. CASE \E n \in CallUsage :
             \/ CallFails(n) \/ CallLate(n)
             \/ \E h \in Hypotheses : Proposed(n, h)
             \/ \E s \in Signatures \cup {NoFindings} :
                  \E v \in {"manual_review", "reject", "unresolved_finding"} : Judged(n, v, s)
  BY <1>3, AnswerStep
<1> QED
  BY <1>1, <1>2, <1>3, CheckStep, StartStep, IdleStep, AdvanceStep, LookStep, CloseStep, WriteStep
     DEF LeadNext

\* lead.py:22-26 and 397-402: the calls of a session, over all its starts and deaths, stay
\* within its bound, the session that is written tells every one of them, and no
\* hypothesis is given to the verifier twice.
THEOREM SessionsAreAccounted == LeadSpec => []SessionAccounted
<1>1. LeadInv => SessionAccounted
  <2> SUFFICES ASSUME LeadInv PROVE SessionAccounted
    OBVIOUS
  <2>1. \A h \in Hypotheses : verifications[h] \in 0..1
    BY DEF LeadInv, VerifiedOnce
  <2>2. \A h \in Hypotheses : verifications[h] <= 1
    BY <2>1
  <2> QED
    BY <2>2 DEF LeadInv, LeadShape, SessionTold, SessionAccounted
<1> QED
  BY <1>1, LeadBegins, LeadStep, PTL DEF LeadSpec
-----------------------------------------------------------------------------
(***************************************************************************)
(* Ledgers whose entries carry bytes.                                      *)
(***************************************************************************)
ByteSum(ledger) == Tally([i \in DOMAIN ledger |-> ledger[i].bytes])

LEMMA BytesOfNone == ByteSum(<<>>) = 0
<1>1. Len([i \in DOMAIN <<>> |-> <<>>[i].bytes]) = 0
  OBVIOUS
<1> QED
  BY <1>1, TallyOfNone DEF ByteSum

LEMMA BytesType ==
  ASSUME NEW S, NEW ledger \in Seq(S), \A i \in DOMAIN ledger : ledger[i].bytes \in Nat
  PROVE  ByteSum(ledger) \in Nat
<1> DEFINE s == [i \in 1..Len(ledger) |-> ledger[i].bytes]
<1>1. PICK n \in Nat : n = Len(ledger) /\ DOMAIN ledger = 1..n
  OBVIOUS
<1>2. Len(s) = n
  BY <1>1
<1>3. \A i \in 1..n : s[i] \in Nat
  BY <1>1
<1>4. ByteSum(ledger) = Tally(s)
  BY <1>1 DEF ByteSum
<1> HIDE DEF s
<1> QED
  BY <1>2, <1>3, <1>4, TallyType

LEMMA BytesGrow ==
  ASSUME NEW S, NEW ledger \in Seq(S), NEW entry
  PROVE  ByteSum(Append(ledger, entry)) = ByteSum(ledger) + entry.bytes
<1> DEFINE longer == Append(ledger, entry)
           s == [i \in 1..Len(ledger) |-> ledger[i].bytes]
           t == [i \in 1..(Len(ledger) + 1) |-> longer[i].bytes]
<1>1. PICK n \in Nat : n = Len(ledger) /\ DOMAIN ledger = 1..n
  OBVIOUS
<1>0. ledger \in Seq(S \cup {entry})
  OBVIOUS
<1>2. /\ DOMAIN longer = 1..(n + 1) /\ longer[n + 1] = entry
      /\ \A i \in 1..n : longer[i] = ledger[i]
  BY <1>0, <1>1, AppendProperties
<1> HIDE DEF longer
<1>3. Len(s) = n /\ Len(t) = n + 1 /\ t[n + 1] = entry.bytes
  BY <1>1, <1>2
<1>4. \A i \in 1..n : t[i] = s[i]
  BY <1>1, <1>2
<1>5. ByteSum(ledger) = Tally(s) /\ ByteSum(longer) = Tally(t)
  BY <1>1, <1>2 DEF ByteSum
<1> HIDE DEF s, t
<1>6. Tally(t) = Tally(s) + t[n + 1]
  BY <1>3, <1>4, TallyGrows
<1> QED
  BY <1>3, <1>5, <1>6 DEF longer

\* What came before an entry does not change.
LEMMA BeforeStays ==
  ASSUME NEW S, NEW ledger \in Seq(S), NEW entry, NEW n \in 0..Len(ledger)
  PROVE  SubSeq(Append(ledger, entry), 1, n) = SubSeq(ledger, 1, n)
<1> DEFINE T == S \cup {entry}
           longer == Append(ledger, entry)
<1>1. ledger \in Seq(T) /\ Len(ledger) \in Nat
  OBVIOUS
<1>2. /\ longer \in Seq(T) /\ Len(longer) = Len(ledger) + 1
      /\ \A i \in 1..Len(ledger) : longer[i] = ledger[i]
  BY <1>1, AppendProperties
<1> HIDE DEF longer
<1>3. \A i \in 1..n : ledger[i] \in T /\ longer[i] \in T
  <2>1. ASSUME NEW i \in 1..n PROVE i \in 1..Len(ledger)
    BY <1>1, <2>1
  <2> QED
    BY <1>1, <1>2, <2>1, ElementOfSeq
<1>4. /\ SubSeq(ledger, 1, n) \in Seq(T) /\ Len(SubSeq(ledger, 1, n)) = n
      /\ \A i \in 1..n : SubSeq(ledger, 1, n)[i] = ledger[i]
  BY <1>3, SubSeqProperties
<1>5. /\ SubSeq(longer, 1, n) \in Seq(T) /\ Len(SubSeq(longer, 1, n)) = n
      /\ \A i \in 1..n : SubSeq(longer, 1, n)[i] = longer[i]
  BY <1>3, SubSeqProperties
<1>6. \A i \in 1..n : longer[i] = ledger[i]
  BY <1>2
<1>7. SubSeq(longer, 1, n) = SubSeq(ledger, 1, n)
  BY <1>4, <1>5, <1>6, SeqEqual
<1> QED
  BY <1>7 DEF longer
-----------------------------------------------------------------------------
(***************************************************************************)
(* The literature sweep.                                                   *)
(***************************************************************************)
EntryHeld(entry) == entry.bytes \in Nat /\ entry.network \in BOOLEAN

LedgerChecks ==
  /\ \E S : requestLedger \in Seq(S)
  /\ \A i \in DOMAIN requestLedger : EntryHeld(requestLedger[i])
  /\ \A i \in DOMAIN requestLedger :
       EntrySound(requestLedger, i) \/ EmptyAnswer(requestLedger[i])
  /\ Cardinality(Networked(requestLedger)) <= SweepRequests
  /\ Received(requestLedger) <= SweepBytes

Distinct(list) == \A i, j \in DOMAIN list : list[i] = list[j] => i = j
RankingChecks ==
  /\ \E F : found \in Seq(F)
  /\ Len(found) <= SweepCandidates /\ Distinct(found)

SweepInv == LedgerChecks /\ RankingChecks

LEMMA SweepBegins == SweepInit => SweepInv
<1> SUFFICES ASSUME SweepInit PROVE SweepInv
  OBVIOUS
<1>1. requestLedger = <<>> /\ found = <<>>
  BY DEF SweepInit
<1>2. Networked(<<>>) = {} /\ Cardinality(Networked(<<>>)) = 0
  BY FS_EmptySet DEF Networked
<1>3. Received(<<>>) = 0
  BY BytesOfNone DEF Received, ByteSum
<1>4. LedgerChecks
  BY <1>1, <1>2, <1>3, SweepAssumption DEF LedgerChecks
<1>5. RankingChecks
  BY <1>1, SweepAssumption DEF RankingChecks, Distinct
<1> QED
  BY <1>4, <1>5 DEF SweepInv

\* One entry more: sound for the refusal that comes when the budget is spent, and for what
\* was asked for while it was not.
LEMMA Entered ==
  ASSUME LedgerChecks, NEW entry, Enter(entry), EntryHeld(entry),
         \/ /\ entry.outcome = "refused_budget_exhausted" /\ ~entry.network /\ entry.bytes = 0
            /\ ~entry.hashed /\ entry.status = 0 /\ OverBudget
         \/ /\ entry.outcome # "refused_budget_exhausted" /\ ~OverBudget
            /\ RequestSound(entry) \/ EmptyAnswer(entry)
            /\ entry.bytes <= SweepBytes - Received(requestLedger)
  PROVE  LedgerChecks'
<1> PICK S : requestLedger \in Seq(S)
  BY DEF LedgerChecks
<1> PICK n \in Nat : n = Len(requestLedger) /\ DOMAIN requestLedger = 1..n
  OBVIOUS
<1>1. /\ requestLedger' \in Seq(S \cup {entry}) /\ DOMAIN requestLedger' = 1..(n + 1)
      /\ requestLedger'[n + 1] = entry
      /\ \A i \in 1..n : requestLedger'[i] = requestLedger[i]
  <2>1. requestLedger \in Seq(S \cup {entry})
    OBVIOUS
  <2> QED
    BY <2>1, AppendProperties DEF Enter
<1>2. \A i \in 1..(n + 1) : i \in 1..n \/ i = n + 1
  OBVIOUS
<1>3. \A i \in DOMAIN requestLedger' : EntryHeld(requestLedger'[i])
  BY <1>1, <1>2 DEF LedgerChecks
<1>4. ASSUME NEW i \in 1..(n + 1)
      PROVE  SubSeq(requestLedger', 1, i - 1) = SubSeq(requestLedger, 1, i - 1)
  <2>1. i - 1 \in 0..Len(requestLedger)
    OBVIOUS
  <2> QED
    BY <2>1, BeforeStays DEF Enter
<1>5. SubSeq(requestLedger, 1, n) = requestLedger
  BY SubSeqFull
<1>6. EntrySound(requestLedger', n + 1) \/ EmptyAnswer(entry)
  <2>1. CASE entry.outcome = "refused_budget_exhausted"
    <3>1. SubSeq(requestLedger', 1, (n + 1) - 1) = requestLedger
      <4>1. (n + 1) - 1 = n /\ n + 1 \in 1..(n + 1)
        OBVIOUS
      <4> QED
        BY <1>4, <1>5, <4>1
    <3>2. RefusalSound(requestLedger', n + 1)
      BY <1>1, <2>1, <3>1 DEF RefusalSound, OverBudget
    <3> QED
      BY <1>1, <2>1, <3>2 DEF EntrySound
  <2>2. CASE entry.outcome # "refused_budget_exhausted"
    BY <1>1, <2>2 DEF EntrySound
  <2> QED
    BY <2>1, <2>2
<1>7. ASSUME NEW i \in 1..n
      PROVE  EntrySound(requestLedger', i) \/ EmptyAnswer(requestLedger'[i])
  <2>1. requestLedger'[i] = requestLedger[i]
    BY <1>1
  <2>2. SubSeq(requestLedger', 1, i - 1) = SubSeq(requestLedger, 1, i - 1)
    BY <1>4
  <2>3. EntrySound(requestLedger', i) <=> EntrySound(requestLedger, i)
    BY <2>1, <2>2 DEF EntrySound, RefusalSound
  <2> QED
    BY <2>1, <2>3 DEF LedgerChecks
<1>8. \A i \in DOMAIN requestLedger' :
        EntrySound(requestLedger', i) \/ EmptyAnswer(requestLedger'[i])
  BY <1>1, <1>2, <1>6, <1>7
<1>9. Received(requestLedger') = Received(requestLedger) + entry.bytes
  BY BytesGrow DEF Received, ByteSum, Enter
<1>10. Received(requestLedger) \in Nat
  BY BytesType DEF LedgerChecks, EntryHeld, Received, ByteSum
<1>11. Received(requestLedger') <= SweepBytes
  BY <1>9, <1>10, SweepAssumption DEF LedgerChecks, EntryHeld
<1>12. Cardinality(Networked(requestLedger')) <= SweepRequests
  <2>1. IsFiniteSet(Networked(requestLedger)) /\ Cardinality(Networked(requestLedger)) \in Nat
    <3>1. Networked(requestLedger) \subseteq 1..n /\ IsFiniteSet(1..n)
      BY FS_Interval DEF Networked
    <3> QED
      BY <3>1, FS_Subset, FS_CardinalityType
  <2>2. CASE entry.network
    <3>1. Networked(requestLedger') = Networked(requestLedger) \cup {n + 1}
      BY <1>1, <1>2, <2>2 DEF Networked
    <3>2. n + 1 \notin Networked(requestLedger)
      BY DEF Networked
    <3>3. Cardinality(Networked(requestLedger')) = Cardinality(Networked(requestLedger)) + 1
      BY <2>1, <3>1, <3>2, FS_AddElement
    <3>4. Cardinality(Networked(requestLedger)) < SweepRequests
      BY <2>1, <2>2, SweepAssumption DEF OverBudget
    <3> QED
      BY <2>1, <3>3, <3>4, SweepAssumption
  <2>3. CASE ~entry.network
    <3>1. Networked(requestLedger') = Networked(requestLedger)
      BY <1>1, <1>2, <2>3 DEF Networked
    <3> QED
      BY <3>1 DEF LedgerChecks
  <2> QED
    BY <2>2, <2>3
<1> QED
  BY <1>1, <1>3, <1>8, <1>11, <1>12 DEF LedgerChecks
-----------------------------------------------------------------------------
\* What is kept of the first items of a page.
TakenFrom(kept, item) ==
  IF item \in ToSet(kept) \/ Len(kept) >= SweepCandidates THEN kept ELSE Append(kept, item)
Keeps(f, page, n) == f = [i \in 0..n |-> IF i = 0 THEN found ELSE TakenFrom(f[i - 1], page[i])]

LEMMA KeepsExists ==
  ASSUME NEW page
  PROVE  \A n \in Nat : \E f : Keeps(f, page, n)
<1> DEFINE S == {n \in Nat : \E f : Keeps(f, page, n)}
<1>1. 0 \in S
  <2>1. Keeps([i \in 0..0 |-> found], page, 0)
    BY DEF Keeps
  <2> QED
    BY <2>1
<1>2. ASSUME NEW n \in Nat, n \in S PROVE n + 1 \in S
  <2>1. PICK f : Keeps(f, page, n)
    BY <1>2
  <2> DEFINE g == [i \in 0..n + 1 |-> IF i = n + 1 THEN TakenFrom(f[n], page[n + 1]) ELSE f[i]]
  <2>2. \A i \in 0..n : g[i] = f[i]
    OBVIOUS
  <2>3. ASSUME NEW i \in 0..n + 1
        PROVE  g[i] = IF i = 0 THEN found ELSE TakenFrom(g[i - 1], page[i])
    <3>1. CASE i = n + 1
      BY <3>1
    <3>2. CASE i \in 0..n
      <4>1. f[i] = IF i = 0 THEN found ELSE TakenFrom(f[i - 1], page[i])
        BY <2>1, <3>2 DEF Keeps
      <4>2. i # 0 => i - 1 \in 0..n
        BY <3>2
      <4> HIDE DEF g
      <4> QED
        BY <2>2, <3>2, <4>1, <4>2
    <3> QED
      BY <3>1, <3>2
  <2>4. g = [i \in 0..n + 1 |-> IF i = 0 THEN found ELSE TakenFrom(g[i - 1], page[i])]
    <3>1. g = [i \in 0..n + 1 |-> g[i]]
      OBVIOUS
    <3> HIDE DEF g
    <3> QED
      BY <2>3, <3>1
  <2> HIDE DEF g
  <2>5. Keeps(g, page, n + 1)
    BY <2>4 DEF Keeps
  <2> QED
    BY <2>5
<1> HIDE DEF S
<1>3. Nat \subseteq S
  BY <1>1, <1>2, Inductively
<1> QED
  BY <1>3 DEF S

LEMMA AdmitIs ==
  ASSUME NEW page, Len(page) \in Nat
  PROVE  \E f : Keeps(f, page, Len(page)) /\ Admit(page) = f[Len(page)]
<1> DEFINE P(f) == f = [n \in 0..Len(page) |->
                          IF n = 0 THEN found
                          ELSE IF page[n] \in ToSet(f[n - 1]) \/ Len(f[n - 1]) >= SweepCandidates
                          THEN f[n - 1] ELSE Append(f[n - 1], page[n])]
<1>1. \E f : P(f)
  BY KeepsExists DEF Keeps, TakenFrom
<1>2. P(CHOOSE f : P(f))
  BY <1>1
<1> QED
  BY <1>2 DEF Admit, Keeps, TakenFrom

\* One item more leaves no two alike, and no more than the policy allows.
LEMMA TakenKeeps ==
  ASSUME NEW F, NEW kept \in Seq(F), NEW item \in F, Len(kept) <= SweepCandidates, Distinct(kept)
  PROVE  LET longer == TakenFrom(kept, item) IN
         longer \in Seq(F) /\ Len(longer) <= SweepCandidates /\ Distinct(longer)
<1>1. CASE item \in ToSet(kept) \/ Len(kept) >= SweepCandidates
  BY <1>1 DEF TakenFrom
<1>2. CASE ~(item \in ToSet(kept) \/ Len(kept) >= SweepCandidates)
  <2> DEFINE longer == Append(kept, item)
  <2>0. PICK n \in Nat : n = Len(kept) /\ DOMAIN kept = 1..n
    OBVIOUS
  <2>1. /\ longer \in Seq(F) /\ DOMAIN longer = 1..(n + 1) /\ Len(longer) = n + 1
        /\ longer[n + 1] = item /\ \A i \in 1..n : longer[i] = kept[i]
    BY <2>0, AppendProperties
  <2>2. \A i \in 1..n : kept[i] # item
    BY <1>2, <2>0 DEF ToSet
  <2>3. n + 1 <= SweepCandidates
    BY <1>2, <2>0, SweepAssumption
  <2>4. TakenFrom(kept, item) = longer
    BY <1>2 DEF TakenFrom
  <2> HIDE DEF longer
  <2>5. ASSUME NEW i \in 1..(n + 1), NEW j \in 1..(n + 1), longer[i] = longer[j]
        PROVE  i = j
    <3>1. (i \in 1..n \/ i = n + 1) /\ (j \in 1..n \/ j = n + 1)
      OBVIOUS
    <3> QED
      BY <2>0, <2>1, <2>2, <2>5, <3>1 DEF Distinct
  <2> QED
    BY <2>1, <2>3, <2>4, <2>5 DEF Distinct
<1> QED
  BY <1>1, <1>2

LEMMA AdmitKeeps ==
  ASSUME NEW F, found \in Seq(F), Len(found) <= SweepCandidates, Distinct(found),
         NEW page \in Seq(F)
  PROVE  Admit(page) \in Seq(F) /\ Len(Admit(page)) <= SweepCandidates /\ Distinct(Admit(page))
<1> PICK n \in Nat : n = Len(page)
  OBVIOUS
<1>1. PICK f : Keeps(f, page, n) /\ Admit(page) = f[n]
  BY AdmitIs
<1> DEFINE Good(i) == f[i] \in Seq(F) /\ Len(f[i]) <= SweepCandidates /\ Distinct(f[i])
           S == {i \in Nat : i <= n => Good(i)}
<1>2. 0 \in S
  BY <1>1 DEF Keeps
<1>3. ASSUME NEW i \in Nat, i \in S PROVE i + 1 \in S
  <2>1. CASE i + 1 <= n
    <3>1. f[i + 1] = TakenFrom(f[i], page[i + 1])
      BY <1>1, <2>1 DEF Keeps
    <3>2. page[i + 1] \in F
      BY <2>1, ElementOfSeq
    <3>3. Good(i)
      BY <1>3, <2>1
    <3>4. f[i] \in Seq(F) /\ Len(f[i]) <= SweepCandidates /\ Distinct(f[i])
      BY <3>3
    <3> HIDE DEF Good
    <3>5. LET longer == TakenFrom(f[i], page[i + 1]) IN
          longer \in Seq(F) /\ Len(longer) <= SweepCandidates /\ Distinct(longer)
      BY <3>2, <3>4, TakenKeeps
    <3> QED
      BY <3>1, <3>5 DEF Good
  <2> QED
    BY <2>1
<1> HIDE DEF S
<1>4. Nat \subseteq S
  BY <1>2, <1>3, Inductively
<1> QED
  BY <1>1, <1>4 DEF S
-----------------------------------------------------------------------------
LEMMA SweepStep == SweepInv /\ [SweepNext]_sweepVars => SweepInv'
<1> SUFFICES ASSUME SweepInv, [SweepNext]_sweepVars PROVE SweepInv'
  OBVIOUS
<1> USE DEF SweepInv
<1>0. Received(requestLedger) \in Nat
  BY BytesType DEF LedgerChecks, EntryHeld, Received, ByteSum
<1>l. UNCHANGED requestLedger => LedgerChecks'
  BY DEF LedgerChecks
<1>f. UNCHANGED found => RankingChecks'
  BY DEF RankingChecks
<1>r. ASSUME NEW status, NEW n \in Nat, NEW hashed, NEW outcome, n <= ResponseLimit, Asking,
             outcome # "refused_budget_exhausted",
             Enter(RequestEntry(TRUE, status, n, hashed, outcome)),
             \/ RequestSound(RequestEntry(TRUE, status, n, hashed, outcome))
             \/ EmptyAnswer(RequestEntry(TRUE, status, n, hashed, outcome))
      PROVE  LedgerChecks'
  <2>0. n <= SweepBytes - Received(requestLedger)
    <3>1. n <= ResponseLimit
      BY <1>r
    <3> QED
      BY <1>0, <3>1, SweepAssumption DEF ResponseLimit, Least
  <2> DEFINE entry == RequestEntry(TRUE, status, n, hashed, outcome)
  <2>1. /\ entry.network = TRUE /\ entry.status = status /\ entry.bytes = n
        /\ entry.outcome = outcome
    BY DEF RequestEntry
  <2>2. entry.bytes <= SweepBytes - Received(requestLedger)
    BY <2>0, <2>1
  <2>3. ~OverBudget /\ EntryHeld(entry)
    BY <1>r, <2>1 DEF Asking, EntryHeld
  <2> HIDE DEF entry
  <2>4. Enter(entry) /\ (RequestSound(entry) \/ EmptyAnswer(entry))
    BY <1>r DEF entry
  <2> QED
    BY <1>r, <2>1, <2>2, <2>3, <2>4, Entered
<1>1. CASE RefuseRequest
  <2> DEFINE entry == RequestEntry(FALSE, 0, 0, FALSE, "refused_budget_exhausted")
  <2>1. /\ entry.network = FALSE /\ entry.status = 0 /\ entry.bytes = 0 /\ entry.hashed = FALSE
        /\ entry.outcome = "refused_budget_exhausted"
    BY DEF RequestEntry
  <2>2. Enter(entry) /\ OverBudget /\ UNCHANGED found
    BY <1>1 DEF RefuseRequest
  <2>3. EntryHeld(entry)
    BY DEF EntryHeld, RequestEntry
  <2> HIDE DEF entry
  <2> QED
    BY <1>f, <2>1, <2>2, <2>3, Entered
<1>2. CASE TransportFails
  <2>1. RequestSound(RequestEntry(TRUE, 0, 0, FALSE, "transport_failure"))
    BY SweepAssumption DEF RequestSound, RequestEntry
  <2>2. 0 <= ResponseLimit
    BY <1>0, SweepAssumption DEF ResponseLimit, Least, LedgerChecks
  <2> QED
    BY <1>2, <1>f, <1>r, <2>1, <2>2 DEF TransportFails
<1>s. ASSUME NEW n \in Nat, n <= ResponseLimit PROVE n <= SweepPerRequest
  BY <1>0, <1>s, SweepAssumption DEF ResponseLimit, Least
<1>3. ASSUME NEW n \in Sizes, NotOk(n) PROVE SweepInv'
  <2>1. n \in Nat /\ n <= SweepPerRequest /\ n <= ResponseLimit
    BY <1>3, <1>s, SweepAssumption DEF NotOk
  <2>2. \/ RequestSound(RequestEntry(TRUE, 404, n, TRUE, "http_status_not_ok"))
        \/ EmptyAnswer(RequestEntry(TRUE, 404, n, TRUE, "http_status_not_ok"))
    BY <2>1 DEF RequestSound, RequestEntry, EmptyAnswer
  <2> QED
    BY <1>3, <1>f, <1>r, <2>1, <2>2 DEF NotOk
<1>4. ASSUME NEW n \in Sizes, Malformed(n) PROVE SweepInv'
  <2>1. n \in Nat /\ n <= SweepPerRequest /\ n <= ResponseLimit
    BY <1>4, <1>s, SweepAssumption DEF Malformed
  <2>2. \/ RequestSound(RequestEntry(TRUE, 200, n, TRUE, "provider_response_invalid"))
        \/ EmptyAnswer(RequestEntry(TRUE, 200, n, TRUE, "provider_response_invalid"))
    BY <2>1 DEF RequestSound, RequestEntry, EmptyAnswer
  <2> QED
    BY <1>4, <1>f, <1>r, <2>1, <2>2 DEF Malformed
<1>5. ASSUME NEW n \in Sizes, NEW page \in PagesOf(n), NEW more \in BOOLEAN,
             PageTaken(n, page, more)
      PROVE  SweepInv'
  <2>1. n \in Nat /\ 0 < n /\ n <= SweepPerRequest /\ n <= ResponseLimit
    BY <1>5, <1>s, SweepAssumption DEF PageTaken
  <2>2. RequestSound(RequestEntry(TRUE, 200, n, TRUE, "executed"))
    BY <2>1 DEF RequestSound, RequestEntry
  <2>3. LedgerChecks'
    BY <1>5, <1>r, <2>1, <2>2 DEF PageTaken
  <2>4. RankingChecks'
    <3> DEFINE p == Providers[place.provider]
               items == [i \in DOMAIN page |-> <<p, page[i]>>]
    <3> PICK F : found \in Seq(F)
      BY DEF RankingChecks
    <3>1. PICK k \in 0..2 : page \in [1..k -> Items]
      BY DEF PagesOf
    <3>2. items \in Seq(F \cup ({p} \X Items)) /\ found \in Seq(F \cup ({p} \X Items))
      <4>1. items \in [1..k -> F \cup ({p} \X Items)]
        BY <3>1
      <4> HIDE DEF items
      <4> QED
        BY <4>1
    <3>3. found' = Admit(items)
      BY <1>5 DEF PageTaken
    <3> HIDE DEF items
    <3> QED
      BY <3>2, <3>3, AdmitKeeps DEF RankingChecks
  <2> QED
    BY <2>3, <2>4
<1>6. CASE ResolverRaises \/ ReportSweep \/ UNCHANGED sweepVars
  BY <1>6, <1>l, <1>f DEF ResolverRaises, ReportSweep, sweepVars
<1> QED
  BY <1>1, <1>2, <1>3, <1>4, <1>5, <1>6 DEF SweepNext

\* However the transport answers, fails or resolves, the report of a sweep passes its own
\* recheck, unless a body came empty (phase4d/discovery_v2.py:405-640).
THEOREM SweepsCheckOut == SweepSpec => []SweepChecksOut
<1>1. SweepInv => SweepChecksOut
  BY DEF SweepInv, LedgerChecks, RankingChecks, Distinct, SweepChecksOut, SweepVerifies
<1> QED
  BY SweepBegins, SweepStep, <1>1, PTL DEF SweepSpec
-----------------------------------------------------------------------------
(***************************************************************************)
(* The batch acquisition.                                                  *)
(***************************************************************************)
BatchInv ==
  /\ \E S : urlLedger \in Seq(S)
  /\ \A i \in DOMAIN urlLedger : urlLedger[i].bytes \in Nat
  /\ \A i \in DOMAIN urlLedger : UrlSound(urlLedger, i) \/ EmptyBody(urlLedger[i])
  /\ BodyBytes(urlLedger) <= BatchBytes
  /\ Len(urlLedger) <= Len(Hosts)
  /\ batching = "reported" => Len(urlLedger) = Len(Hosts)

LEMMA BatchBegins == BatchInit => BatchInv
<1>1. BodyBytes(<<>>) = 0
  BY BytesOfNone DEF BodyBytes, ByteSum
<1> QED
  BY <1>1, BatchAssumption DEF BatchInit, BatchInv

\* What an entry alone has to be, and what the refused one has to come after.
UrlEntrySound(entry) ==
  /\ entry.bytes <= BatchPerUrl /\ (entry.bytes > 0 <=> entry.hashed)
  /\ CASE entry.outcome = "stored_candidate" ->
            entry.network /\ entry.status = 200 /\ entry.failure = "none"
       [] entry.outcome = "failed" ->
            /\ entry.failure # "none"
            /\ ~entry.network => entry.status = 0 /\ entry.bytes = 0 /\ ~entry.hashed
       [] OTHER -> ~entry.network /\ entry.bytes = 0 /\ entry.status = 0

LEMMA UrlSoundIs ==
  ASSUME NEW ledger, NEW i
  PROVE  UrlSound(ledger, i) <=>
           /\ UrlEntrySound(ledger[i])
           /\ \/ ledger[i].outcome \in {"stored_candidate", "failed"}
              \/ BodyBytes(SubSeq(ledger, 1, i)) >= BatchBytes
<1> DEFINE entry == ledger[i]
<1>1. CASE entry.outcome = "stored_candidate"
  BY <1>1 DEF UrlSound, UrlEntrySound
<1>2. CASE entry.outcome = "failed"
  BY <1>2 DEF UrlSound, UrlEntrySound
<1>3. CASE entry.outcome \notin {"stored_candidate", "failed"}
  BY <1>3 DEF UrlSound, UrlEntrySound
<1> QED
  BY <1>1, <1>2, <1>3

LEMMA UrlConcluded ==
  ASSUME BatchInv, batching = "batching", Url <= Len(Hosts),
         NEW entry, Conclude(entry), entry.bytes \in Nat, entry.bytes <= BytesLeft \/ entry.bytes = 0,
         UrlEntrySound(entry) \/ EmptyBody(entry),
         entry.outcome \in {"stored_candidate", "failed"} \/ BytesLeft <= 0
  PROVE  BatchInv'
<1> PICK S : urlLedger \in Seq(S)
  BY DEF BatchInv
<1> PICK n \in Nat : n = Len(urlLedger) /\ DOMAIN urlLedger = 1..n
  OBVIOUS
<1>1. /\ urlLedger' \in Seq(S \cup {entry}) /\ DOMAIN urlLedger' = 1..(n + 1)
      /\ Len(urlLedger') = n + 1 /\ urlLedger'[n + 1] = entry
      /\ \A i \in 1..n : urlLedger'[i] = urlLedger[i]
  <2>1. urlLedger \in Seq(S \cup {entry})
    OBVIOUS
  <2> QED
    BY <2>1, AppendProperties DEF Conclude
<1>2. \A i \in 1..(n + 1) : i \in 1..n \/ i = n + 1
  OBVIOUS
<1>3. BodyBytes(urlLedger') = BodyBytes(urlLedger) + entry.bytes
  BY BytesGrow DEF BodyBytes, ByteSum, Conclude
<1>4. BodyBytes(urlLedger) \in Nat
  BY BytesType DEF BatchInv, BodyBytes, ByteSum
<1>5. BodyBytes(urlLedger') <= BatchBytes
  BY <1>3, <1>4, BatchAssumption DEF BatchInv, BytesLeft
<1>6. ASSUME NEW i \in 1..n PROVE UrlSound(urlLedger', i) \/ EmptyBody(urlLedger'[i])
  <2>1. urlLedger'[i] = urlLedger[i]
    BY <1>1
  <2>2. SubSeq(urlLedger', 1, i) = SubSeq(urlLedger, 1, i)
    BY BeforeStays DEF Conclude
  <2>3. UrlSound(urlLedger', i) <=> UrlSound(urlLedger, i)
    BY <2>1, <2>2 DEF UrlSound
  <2> QED
    BY <2>1, <2>3 DEF BatchInv
<1>7. UrlSound(urlLedger', n + 1) \/ EmptyBody(entry)
  <2>1. SubSeq(urlLedger', 1, n + 1) = urlLedger'
    BY <1>1, SubSeqFull
  <2>2. UrlSound(urlLedger', n + 1) <=>
           /\ UrlEntrySound(urlLedger'[n + 1])
           /\ \/ urlLedger'[n + 1].outcome \in {"stored_candidate", "failed"}
              \/ BodyBytes(SubSeq(urlLedger', 1, n + 1)) >= BatchBytes
    BY UrlSoundIs
  <2>3. BytesLeft <= 0 => BodyBytes(urlLedger') >= BatchBytes
    BY <1>3, <1>4, BatchAssumption DEF BytesLeft
  <2> QED
    BY <1>1, <2>1, <2>2, <2>3
<1>8. \A i \in DOMAIN urlLedger' : UrlSound(urlLedger', i) \/ EmptyBody(urlLedger'[i])
  BY <1>1, <1>2, <1>6, <1>7
<1>9. \A i \in DOMAIN urlLedger' : urlLedger'[i].bytes \in Nat
  BY <1>1, <1>2 DEF BatchInv
<1>10. Len(urlLedger') <= Len(Hosts) /\ batching' = "batching"
  BY <1>1 DEF Url, Conclude
<1> QED
  BY <1>1, <1>5, <1>8, <1>9, <1>10 DEF BatchInv

LEMMA BatchStep == BatchInv /\ [BatchNext]_batchVars => BatchInv'
<1> SUFFICES ASSUME BatchInv, [BatchNext]_batchVars PROVE BatchInv'
  OBVIOUS
<1>0. BodyBytes(urlLedger) \in Nat
  BY BytesType DEF BatchInv, BodyBytes, ByteSum
<1>m. ASSUME NEW n \in Nat, n <= UrlLimit PROVE n <= BatchPerUrl /\ n <= BytesLeft
  BY <1>0, <1>m, BatchAssumption DEF UrlLimit, BytesLeft
<1>1. CASE RefuseUrl
  <2> DEFINE entry == Outcome(FALSE, 0, 0, FALSE, "refused_budget_exhausted", "bytes")
  <2>1. UrlEntrySound(entry) /\ entry.bytes = 0
    BY BatchAssumption DEF UrlEntrySound, Outcome
  <2>2. Conclude(entry) /\ BytesLeft <= 0 /\ batching = "batching" /\ Url <= Len(Hosts)
    BY <1>1 DEF RefuseUrl
  <2> HIDE DEF entry
  <2> QED
    BY <2>1, <2>2, UrlConcluded
<1>2. CASE UrlUnresolved
  <2> DEFINE entry == Outcome(FALSE, 0, 0, FALSE, "failed", "resolver")
  <2>1. UrlEntrySound(entry) /\ entry.bytes = 0 /\ entry.outcome = "failed"
    BY BatchAssumption DEF UrlEntrySound, Outcome
  <2>2. Conclude(entry) /\ batching = "batching" /\ Url <= Len(Hosts)
    BY <1>2 DEF UrlUnresolved
  <2> HIDE DEF entry
  <2> QED
    BY <2>1, <2>2, UrlConcluded
<1>3. CASE UrlFails
  <2> DEFINE entry == Outcome(TRUE, 0, 0, FALSE, "failed", "transport")
  <2>1. UrlEntrySound(entry) /\ entry.bytes = 0 /\ entry.outcome = "failed"
    BY BatchAssumption DEF UrlEntrySound, Outcome
  <2>2. Conclude(entry) /\ batching = "batching" /\ Url <= Len(Hosts)
    BY <1>3 DEF UrlFails, AskingUrl
  <2> HIDE DEF entry
  <2> QED
    BY <2>1, <2>2, UrlConcluded
<1>4. ASSUME NEW n \in BodySizes, NEW status, UrlRefusedBy(status, n) PROVE BatchInv'
  <2> DEFINE entry == Outcome(TRUE, status, n, TRUE, "failed", "status")
  <2>0. n \in Nat /\ n <= BatchPerUrl /\ n <= BytesLeft
    BY <1>4, <1>m, BatchAssumption DEF UrlRefusedBy
  <2>1. /\ UrlEntrySound(entry) \/ EmptyBody(entry)
        /\ entry.bytes = n /\ entry.outcome = "failed"
    BY <2>0 DEF UrlEntrySound, EmptyBody, Outcome
  <2>2. Conclude(entry) /\ batching = "batching" /\ Url <= Len(Hosts)
    BY <1>4 DEF UrlRefusedBy, AskingUrl
  <2> HIDE DEF entry
  <2> QED
    BY <2>0, <2>1, <2>2, UrlConcluded
<1>5. ASSUME NEW n \in BodySizes, UrlStored(n) PROVE BatchInv'
  <2> DEFINE entry == Outcome(TRUE, 200, n, TRUE, "stored_candidate", "none")
  <2>0. n \in Nat /\ n <= BatchPerUrl /\ n <= BytesLeft
    BY <1>5, <1>m, BatchAssumption DEF UrlStored
  <2>1. /\ UrlEntrySound(entry) \/ EmptyBody(entry)
        /\ entry.bytes = n /\ entry.outcome = "stored_candidate"
    BY <2>0 DEF UrlEntrySound, EmptyBody, Outcome
  <2>2. Conclude(entry) /\ batching = "batching" /\ Url <= Len(Hosts)
    BY <1>5 DEF UrlStored, AskingUrl
  <2> HIDE DEF entry
  <2> QED
    BY <2>0, <2>1, <2>2, UrlConcluded
<1>6. CASE ReportBatch
  <2>1. Len(urlLedger) = Len(Hosts)
    <3>1. Len(urlLedger) \in Nat
      BY DEF BatchInv
    <3> QED
      BY <1>6, <3>1, BatchAssumption DEF ReportBatch, Url, BatchInv
  <2> QED
    BY <1>6, <2>1 DEF ReportBatch, BatchInv, UrlSound
<1>7. CASE UNCHANGED batchVars
  BY <1>7 DEF batchVars, BatchInv, UrlSound
<1> QED
  BY <1>1, <1>2, <1>3, <1>4, <1>5, <1>6, <1>7 DEF BatchNext

\* However the hosts resolve and the transport answers or fails, the report of a batch
\* passes its own recheck, unless a body came empty (phase4b/batch_acquisition.py:365-475).
THEOREM BatchesCheckOut == BatchSpec => []BatchChecksOut
<1>1. BatchInv => BatchChecksOut
  BY DEF BatchInv, BatchChecksOut, BatchVerifies
<1> QED
  BY BatchBegins, BatchStep, <1>1, PTL DEF BatchSpec
-----------------------------------------------------------------------------
(***************************************************************************)
(* The references followed: those decided so far are the ones of the       *)
(* documents behind, and those behind in the document at hand.             *)
(***************************************************************************)
Lengths == [d \in DOMAIN origins |-> Len(origins[d])]

\* How many references the documents before have, d by d.
Counts(f) == Partial(f, Lengths, Len(origins)) /\ f[Len(origins)] = Tally(Lengths)

FollowPlace ==
  /\ origins \in Seq(Seq(Targets \cup {Unreadable}))
  /\ next \in [doc : Nat, index : Nat] /\ next.doc \in 1..(Len(origins) + 1)
  /\ IF next.doc <= Len(origins) THEN next.index \in 1..(Len(origins[next.doc]) + 1)
     ELSE next.index = 1
  /\ \E f : Counts(f) /\ Len(followed) + Len(refused) = f[next.doc - 1] + next.index - 1

DecidedSoFar ==
  /\ \E S : followed \in Seq(S) /\ refused \in Seq(S)
  /\ FollowVerifies
  /\ \A i \in DOMAIN refused : refused[i].reason = "fanout" =>
       Len(followed) = MaxFollowed /\ refused[i].target \in OnList \ SeenUrls

FollowInv == FollowPlace /\ DecidedSoFar
-----------------------------------------------------------------------------
LEMMA LengthsAre ==
  ASSUME NEW S, origins \in Seq(Seq(S))
  PROVE  /\ Len(origins) \in Nat /\ Len(Lengths) = Len(origins)
         /\ \A d \in 1..Len(origins) : Lengths[d] = Len(origins[d]) /\ Len(origins[d]) \in Nat
<1>1. PICK n \in Nat : n = Len(origins) /\ DOMAIN origins = 1..n
  OBVIOUS
<1>2. \A d \in 1..n : origins[d] \in Seq(S)
  BY <1>1, ElementOfSeq
<1>3. Len([d \in 1..n |-> Len(origins[d])]) = n
  OBVIOUS
<1> QED
  BY <1>1, <1>2, <1>3 DEF Lengths

\* The counts are naturals, and grow by the references of the next document.
LEMMA CountsAre ==
  ASSUME NEW S, origins \in Seq(Seq(S)), NEW f, Counts(f)
  PROVE  /\ \A d \in 1..Len(origins) : f[d] = f[d - 1] + Len(origins[d])
         /\ \A d \in 0..Len(origins) : f[d] \in Nat
<1> PICK n \in Nat : n = Len(origins)
  BY LengthsAre
<1>1. \A d \in 1..n : Lengths[d] = Len(origins[d]) /\ Len(origins[d]) \in Nat
  BY LengthsAre
<1>2. f[0] = 0 /\ \A d \in 1..n : f[d] = f[d - 1] + Len(origins[d])
  <2>1. f = [d \in 0..n |-> IF d = 0 THEN 0 ELSE f[d - 1] + Lengths[d]]
    BY DEF Counts, Partial
  <2>2. \A d \in 1..n : f[d] = f[d - 1] + Lengths[d]
    BY <2>1
  <2>3. f[0] = 0
    BY <2>1
  <2> QED
    BY <1>1, <2>2, <2>3
<1> DEFINE N == {d \in Nat : d <= n => f[d] \in Nat}
<1>3. 0 \in N
  BY <1>2
<1>4. ASSUME NEW d \in Nat, d \in N PROVE d + 1 \in N
  <2>1. CASE d + 1 <= n
    <3>1. d + 1 \in 1..n /\ (d + 1) - 1 = d /\ f[d] \in Nat
      BY <1>4, <2>1
    <3>2. f[d + 1] = f[d] + Len(origins[d + 1]) /\ Len(origins[d + 1]) \in Nat
      BY <1>1, <1>2, <3>1
    <3> QED
      BY <3>1, <3>2
  <2> QED
    BY <2>1
<1> HIDE DEF N
<1>5. Nat \subseteq N
  BY <1>3, <1>4, Inductively
<1> QED
  BY <1>2, <1>5 DEF N

LEMMA FollowBegins == FollowInit => FollowInv
<1> SUFFICES ASSUME FollowInit PROVE FollowInv
  OBVIOUS
<1> USE DEF FollowInit
<1>1. origins \in Seq(Seq(Targets \cup {Unreadable}))
  BY FollowAssumption
<1>2. /\ Len(origins) \in Nat /\ Len(Lengths) = Len(origins)
      /\ \A d \in 1..Len(origins) : Lengths[d] = Len(origins[d]) /\ Len(origins[d]) \in Nat
  BY <1>1, LengthsAre
<1>3. PICK f : Counts(f)
  BY <1>2, TallyIs DEF Counts
<1>4. f[0] = 0
  BY <1>2, <1>3 DEF Counts, Partial
<1>5. next.doc = 1 /\ next.index = 1 /\ Len(followed) = 0 /\ Len(refused) = 0
  OBVIOUS
<1>6. FollowPlace
  BY <1>1, <1>2, <1>3, <1>4, <1>5 DEF FollowPlace
<1>7. DecidedSoFar
  BY FollowAssumption DEF DecidedSoFar, FollowVerifies
<1> QED
  BY <1>6, <1>7 DEF FollowInv

\* One outcome more in a list of them.
LEMMA OutcomeMore ==
  ASSUME NEW S, NEW list \in Seq(S), NEW entry, NEW longer, longer = Append(list, entry)
  PROVE  /\ longer \in Seq(S \cup {entry}) /\ list \in Seq(S \cup {entry})
         /\ Len(list) \in Nat /\ Len(longer) = Len(list) + 1
         /\ DOMAIN list = 1..Len(list) /\ DOMAIN longer = 1..(Len(list) + 1)
         /\ longer[Len(list) + 1] = entry
         /\ \A i \in 1..Len(list) : longer[i] = list[i]
         /\ \A i \in DOMAIN longer : i \in DOMAIN list \/ i = Len(list) + 1
         /\ {longer[i].doc : i \in DOMAIN longer} = {list[i].doc : i \in DOMAIN list} \cup {entry.doc}
<1>1. list \in Seq(S \cup {entry}) /\ Len(list) \in Nat /\ DOMAIN list = 1..Len(list)
  OBVIOUS
<1>2. /\ longer \in Seq(S \cup {entry}) /\ Len(longer) = Len(list) + 1
      /\ DOMAIN longer = 1..(Len(list) + 1)
      /\ longer[Len(list) + 1] = entry
      /\ \A i \in 1..Len(list) : longer[i] = list[i]
  BY <1>1, AppendProperties
<1>3. \A i \in 1..(Len(list) + 1) : i \in 1..Len(list) \/ i = Len(list) + 1
  BY <1>1
<1>4. {longer[i].doc : i \in DOMAIN longer} = {list[i].doc : i \in DOMAIN list} \cup {entry.doc}
  BY <1>1, <1>2, <1>3
<1> QED
  BY <1>1, <1>2, <1>3, <1>4

LEMMA TakeStep == ASSUME FollowInv, TakeReference PROVE FollowInv'
<1> USE DEF FollowInv
<1> DEFINE n == Len(followed)
           entry == Reference(Refusal)
<1> PICK S : followed \in Seq(S) /\ refused \in Seq(S)
  BY DEF DecidedSoFar
<1>0. n \in Nat /\ Len(refused) \in Nat
  OBVIOUS
<1>1. /\ entry.doc = next.doc /\ entry.target = Target /\ entry.reason = Refusal
  BY DEF Reference
<1>2. /\ UNCHANGED origins /\ records' = records \cup {next.doc} /\ Within
      /\ next' = [next EXCEPT !.index = next.index + 1]
  BY DEF TakeReference
<1>3. /\ Refusal = "none" => followed' = Append(followed, entry) /\ refused' = refused
      /\ Refusal # "none" => refused' = Append(refused, entry) /\ followed' = followed
  BY DEF TakeReference
<1>4. /\ Refusal = "none" => Target \in OnList \ SeenUrls /\ n < MaxFollowed
      /\ Refusal = "fanout" => Target \in OnList \ SeenUrls /\ n >= MaxFollowed
  <2>1. Unreadable \notin OnList /\ MaxFollowed \in Nat
    BY FollowAssumption
  <2> QED
    BY <1>0, <2>1 DEF Refusal
<1> HIDE DEF entry
<1>5. FollowPlace'
  <2>1. /\ next'.doc = next.doc /\ next'.index = next.index + 1
        /\ next' \in [doc : Nat, index : Nat]
    <3>1. next \in [doc : Nat, index : Nat]
      BY DEF FollowPlace
    <3> QED
      BY <1>2, <3>1
  <2>2. /\ Len(origins) \in Nat
        /\ \A d \in 1..Len(origins) : Lengths[d] = Len(origins[d]) /\ Len(origins[d]) \in Nat
    BY LengthsAre DEF FollowPlace
  <2>3. /\ next.doc \in 1..Len(origins) /\ next.index \in Nat \ {0}
        /\ next'.index \in 1..(Len(origins[next.doc]) + 1)
    <3>1. /\ next.doc \in 1..(Len(origins) + 1) /\ next.doc <= Len(origins)
          /\ next.index <= Len(origins[next.doc])
      BY <1>2 DEF FollowPlace, Within
    <3>2. next.doc \in 1..Len(origins)
      BY <2>2, <3>1
    <3>3. next.index \in 1..(Len(origins[next.doc]) + 1)
      BY <3>1 DEF FollowPlace
    <3> QED
      BY <2>1, <2>2, <3>1, <3>2, <3>3
  <2>4. Len(followed') + Len(refused') = Len(followed) + Len(refused) + 1
    <3>1. Refusal = "none" => Len(followed') = n + 1 /\ refused' = refused
      BY <1>3, OutcomeMore
    <3>2. Refusal # "none" => Len(refused') = Len(refused) + 1 /\ followed' = followed
      BY <1>3, OutcomeMore
    <3> QED
      BY <1>0, <3>1, <3>2
  <2>5. PICK f : Counts(f) /\ Len(followed) + Len(refused) = f[next.doc - 1] + next.index - 1
    BY DEF FollowPlace
  <2>6. Counts(f)'
    BY <1>2, <2>5 DEF Counts, Lengths
  <2>7. f[next.doc - 1] \in Nat
    BY <2>2, <2>3, <2>5, CountsAre DEF FollowPlace
  <2>8. Len(followed') + Len(refused') = f[next'.doc - 1] + next'.index - 1
    <3>1. f[next'.doc - 1] = f[next.doc - 1]
      BY <2>1
    <3>2. Len(followed) + Len(refused) = f[next.doc - 1] + next.index - 1
      BY <2>5
    <3>3. Len(followed') + Len(refused') = f[next.doc - 1] + next.index - 1 + 1
      BY <2>4, <3>2
    <3>4. ASSUME NEW c \in Nat, NEW i \in Nat PROVE c + i - 1 + 1 = c + (i + 1) - 1
      OBVIOUS
    <3>5. f[next.doc - 1] + next.index - 1 + 1 = f[next'.doc - 1] + next'.index - 1
      <4>1. next.index \in Nat
        BY <2>3
      <4>2. f[next.doc - 1] + next.index - 1 + 1 = f[next.doc - 1] + (next.index + 1) - 1
        BY <2>7, <3>4, <4>1
      <4> QED
        BY <2>1, <4>2
    <3> QED
      BY <3>3, <3>5
  <2>9. IF next'.doc <= Len(origins') THEN next'.index \in 1..(Len(origins'[next'.doc]) + 1)
        ELSE next'.index = 1
    BY <1>2, <2>1, <2>2, <2>3
  <2> QED
    BY <1>2, <2>1, <2>2, <2>3, <2>6, <2>8, <2>9 DEF FollowPlace
<1>6. CASE Refusal = "none"
  <2>1. followed' = Append(followed, entry) /\ UNCHANGED refused
    BY <1>3, <1>6
  <2>2.  /\ followed' \in Seq(S \cup {entry}) /\ followed \in Seq(S \cup {entry})
         /\ Len(followed') = n + 1
         /\ DOMAIN followed = 1..n /\ DOMAIN followed' = 1..(n + 1)
         /\ followed'[n + 1] = entry
         /\ \A i \in 1..n : followed'[i] = followed[i]
         /\ (\A i \in DOMAIN followed' : i \in DOMAIN followed \/ i = n + 1)
         /\ {followed'[i].doc : i \in DOMAIN followed'}
              = {followed[i].doc : i \in DOMAIN followed} \cup {entry.doc}
    BY <2>1, OutcomeMore
  <2>3. refused \in Seq(S \cup {entry})
    OBVIOUS
  <2>4. \A i \in DOMAIN followed : followed[i].target # Target
    BY <1>4, <1>6 DEF SeenUrls
  <2>5. FollowVerifies'
    <3>1. Len(followed') <= MaxFollowed
      BY <1>0, <1>4, <1>6, <2>2, FollowAssumption
    <3>2. \A i \in DOMAIN followed' : followed'[i].target \in OnList
      BY <1>1, <1>4, <1>6, <2>2 DEF DecidedSoFar, FollowVerifies
    <3>3. \A i, j \in DOMAIN followed' : followed'[i].target = followed'[j].target => i = j
      BY <1>1, <2>2, <2>4 DEF DecidedSoFar, FollowVerifies
    <3>4. records' = {followed'[i].doc : i \in DOMAIN followed'}
                       \cup {refused'[i].doc : i \in DOMAIN refused'}
      <4>1. records = {followed[i].doc : i \in DOMAIN followed}
                        \cup {refused[i].doc : i \in DOMAIN refused}
        BY DEF DecidedSoFar, FollowVerifies
      <4> QED
        BY <1>1, <1>2, <2>1, <2>2, <4>1
    <3> QED
      BY <3>1, <3>2, <3>3, <3>4 DEF FollowVerifies
  <2>6. \A i \in DOMAIN refused : refused[i].reason # "fanout"
    BY <1>0, <1>4, <1>6, FollowAssumption DEF DecidedSoFar
  <2>7. DecidedSoFar'
    BY <2>1, <2>2, <2>3, <2>5, <2>6 DEF DecidedSoFar
  <2> QED
    BY <1>5, <2>7
<1>7. CASE Refusal # "none"
  <2>1. refused' = Append(refused, entry) /\ UNCHANGED followed
    BY <1>3, <1>7
  <2> DEFINE m == Len(refused)
  <2>2.  /\ refused' \in Seq(S \cup {entry})
         /\ Len(refused') = m + 1
         /\ DOMAIN refused = 1..m /\ DOMAIN refused' = 1..(m + 1)
         /\ refused'[m + 1] = entry
         /\ \A i \in 1..m : refused'[i] = refused[i]
         /\ \A i \in DOMAIN refused' : i \in DOMAIN refused \/ i = m + 1
         /\ {refused'[i].doc : i \in DOMAIN refused'}
              = {refused[i].doc : i \in DOMAIN refused} \cup {entry.doc}
    BY <2>1, OutcomeMore
  <2>3. followed' \in Seq(S \cup {entry})
    BY <2>1
  <2>4. records' = {followed'[i].doc : i \in DOMAIN followed'}
                       \cup {refused'[i].doc : i \in DOMAIN refused'}
    BY <1>1, <1>2, <2>1, <2>2 DEF DecidedSoFar, FollowVerifies
  <2>5. FollowVerifies'
    BY <2>1, <2>4 DEF DecidedSoFar, FollowVerifies
  <2>6. SeenUrls' = SeenUrls
    BY <2>1 DEF SeenUrls
  <2>7. ASSUME NEW i \in DOMAIN refused', refused'[i].reason = "fanout"
        PROVE  Len(followed') = MaxFollowed /\ refused'[i].target \in OnList \ SeenUrls'
    <3>1. CASE i = m + 1
      <4>1. n = MaxFollowed
        BY <1>0, <1>1, <1>4, <2>2, <2>7, <3>1, FollowAssumption DEF DecidedSoFar, FollowVerifies
      <4> QED
        BY <1>1, <1>4, <2>1, <2>2, <2>6, <2>7, <3>1, <4>1
    <3>2. CASE i \in DOMAIN refused
      BY <2>1, <2>2, <2>6, <2>7, <3>2 DEF DecidedSoFar
    <3> QED
      BY <2>2, <3>1, <3>2
  <2>8. DecidedSoFar'
    BY <2>2, <2>3, <2>5, <2>7 DEF DecidedSoFar
  <2> QED
    BY <1>5, <2>8
<1> QED
  BY <1>6, <1>7

LEMMA DoneStep == ASSUME FollowInv, DocumentDone PROVE FollowInv'
<1>1. /\ next' = [doc |-> next.doc + 1, index |-> 1] /\ next.doc <= Len(origins) /\ ~Within
      /\ UNCHANGED <<origins, records, followed, refused>>
  BY DEF DocumentDone
<1>2. next'.doc = next.doc + 1 /\ next'.index = 1
  BY <1>1
<1>3. /\ Len(origins) \in Nat
      /\ \A d \in 1..Len(origins) : Lengths[d] = Len(origins[d]) /\ Len(origins[d]) \in Nat
  BY LengthsAre DEF FollowInv, FollowPlace
<1>4. next.doc \in 1..Len(origins) /\ next.index = Len(origins[next.doc]) + 1
  BY <1>1, <1>3 DEF FollowInv, FollowPlace, Within
<1>5. PICK f : Counts(f) /\ Len(followed) + Len(refused) = f[next.doc - 1] + next.index - 1
  BY DEF FollowInv, FollowPlace
<1>6. Counts(f)'
  BY <1>1, <1>5 DEF Counts, Lengths
<1>7. f[next.doc] = f[next.doc - 1] + Len(origins[next.doc]) /\ f[next.doc - 1] \in Nat
  BY <1>3, <1>4, <1>5, CountsAre DEF FollowInv, FollowPlace
<1>8. Len(followed') + Len(refused') = f[next'.doc - 1] + next'.index - 1
  BY <1>1, <1>2, <1>3, <1>4, <1>5, <1>7
<1>9. next' \in [doc : Nat, index : Nat] /\ next'.doc \in 1..(Len(origins) + 1)
  BY <1>1, <1>3, <1>4
<1>10. IF next'.doc <= Len(origins') THEN next'.index \in 1..(Len(origins'[next'.doc]) + 1)
       ELSE next'.index = 1
  <2>1. next'.doc <= Len(origins) => Len(origins[next'.doc]) \in Nat
    BY <1>3, <1>9
  <2> QED
    BY <1>1, <1>2, <2>1
<1>11. FollowPlace'
  BY <1>1, <1>6, <1>8, <1>9, <1>10 DEF FollowInv, FollowPlace
<1>12. DecidedSoFar'
  BY <1>1 DEF FollowInv, DecidedSoFar, FollowVerifies, SeenUrls
<1> QED
  BY <1>11, <1>12 DEF FollowInv

LEMMA FollowStep == FollowInv /\ [FollowNext]_followVars => FollowInv'
<1>1. ASSUME FollowInv, UNCHANGED followVars PROVE FollowInv'
  <2>1. UNCHANGED <<origins, next, records, followed, refused>>
    BY <1>1 DEF followVars
  <2>2. FollowPlace'
    BY <1>1, <2>1 DEF FollowInv, FollowPlace, Counts, Lengths
  <2>3. DecidedSoFar'
    BY <1>1, <2>1 DEF FollowInv, DecidedSoFar, FollowVerifies, SeenUrls
  <2> QED
    BY <2>2, <2>3 DEF FollowInv
<1> QED
  BY <1>1, TakeStep, DoneStep DEF FollowNext

\* Whatever documents refer to, the record passes its own recheck, no reference is dropped
\* and one refused for the bound would have been followed (phase4d/following.py:112-345).
THEOREM FollowingChecksOut == FollowSpec => []FollowChecksOut
<1>1. FollowInv => FollowChecksOut
  <2> SUFFICES ASSUME FollowInv, next.doc > Len(origins) PROVE FollowChecksOut
    BY DEF FollowChecksOut
  <2>1. Len(origins) \in Nat
    BY LengthsAre DEF FollowInv, FollowPlace
  <2>2. next.doc = Len(origins) + 1 /\ next.index = 1
    BY <2>1 DEF FollowInv, FollowPlace
  <2>3. PICK f : Counts(f) /\ Len(followed) + Len(refused) = f[next.doc - 1] + next.index - 1
    BY DEF FollowInv, FollowPlace
  <2>4. f[Len(origins)] \in Nat
    BY <2>1, <2>3, CountsAre DEF FollowInv, FollowPlace
  <2>5. Len(followed) + Len(refused) = Tally(Lengths)
    BY <2>1, <2>2, <2>3, <2>4 DEF Counts
  <2> QED
    BY <2>5 DEF FollowInv, DecidedSoFar, FollowChecksOut, Lengths
<1> QED
  BY FollowBegins, FollowStep, <1>1, PTL DEF FollowSpec
-----------------------------------------------------------------------------
(***************************************************************************)
(* The synthesis workspace: what a session read is a prefix of the         *)
(* records.  While sessions come one after another the .tmp file is of the *)
(* one that is inside, and nobody owing means that the projection is the   *)
(* one of the records.                                                     *)
(***************************************************************************)
Row == [entry : Entries, at : Instants]
Early(log) == log \in Seq(Row) /\ IsPrefix(log, rows)

\* What was read or saved is a beginning of a sound log.
History ==
  /\ rows \in Seq(Row) /\ Sound(rows)
  /\ \A export \in saved : Verifies(export) /\ Early(export.records)
  /\ DOMAIN visit = Sessions
  /\ \A w \in Sessions :
       /\ visit[w].at \in {"verifying", "rebuilding", "projecting"} => Early(visit[w].log)
       /\ visit[w].at = "saving" => Early(visit[w].export.records)
       /\ visit[w].at = "verifying" => visit[w].next \in {"open", "reading"}
       /\ w \in Inside => visit[w].instant \in Instants
  /\ owing \subseteq Inside

OneInside ==
  /\ \A v, w \in Inside : v = w
  /\ output \subseteq saved
  /\ \A w \in Sessions : /\ visit[w].at = "saving" => temporary = {visit[w].export}
                         /\ visit[w].at = "replacing" => temporary \subseteq saved

Settled ==
  /\ OneInside
  /\ \A w \in Sessions : visit[w].at = "rebuilding" => visit[w].log = rows
  /\ owing = {} => projection = Projected(rows)

SynthesisInv ==
  /\ History
  /\ OneInside \/ "overlap" \in mishaps
  /\ Settled \/ mishaps # {}
-----------------------------------------------------------------------------
LEMMA SoundNone == Sound(<< >>)
  BY DEF Sound

LEMMA SynthesisBegins == SynthesisInit => SynthesisInv
<1> SUFFICES ASSUME SynthesisInit PROVE SynthesisInv
  OBVIOUS
<1> USE DEF SynthesisInit
<1>1. rows \in Seq(Row) /\ Sound(rows)
  BY SoundNone
<1>2. History
  BY <1>1 DEF History, Inside
<1>3. Settled
  BY DEF Settled, OneInside, Inside
<1> QED
  BY <1>2, <1>3 DEF SynthesisInv, Settled

\* A prefix agrees with the sequence at its own positions.
LEMMA PrefixIs ==
  ASSUME NEW S, NEW s \in Seq(S), NEW t \in Seq(S)
  PROVE  IsPrefix(s, t) <=> Len(s) <= Len(t) /\ \A i \in 1..Len(s) : s[i] = t[i]
<1>1. Len(s) \in Nat /\ Len(t) \in Nat /\ SubSeq(s, 1, Len(s)) = s
  BY SubSeqFull
<1>2. CASE Len(s) <= Len(t)
  <2>1. \A i \in 1..Len(s) : t[i] \in S
    BY <1>1, <1>2
  <2>2. /\ SubSeq(t, 1, Len(s)) \in Seq(S)
        /\ Len(SubSeq(t, 1, Len(s))) = Len(s)
        /\ \A i \in 1..Len(s) : SubSeq(t, 1, Len(s))[i] = t[i]
    BY <1>1, <2>1, SubSeqProperties
  <2> DEFINE u == SubSeq(t, 1, Len(s))
  <2>3. s = u <=> \A i \in 1..Len(s) : s[i] = u[i]
    BY <1>1, <2>2, SeqEqual
  <2> QED
    BY <1>1, <1>2, <2>2, <2>3 DEF IsPrefix
<1>3. CASE ~(Len(s) <= Len(t))
  BY <1>3 DEF IsPrefix
<1> QED
  BY <1>2, <1>3

LEMMA PrefixesMeet ==
  ASSUME NEW S, NEW s \in Seq(S), NEW t \in Seq(S), NEW u \in Seq(S),
         IsPrefix(s, u), IsPrefix(t, u)
  PROVE  IsPrefix(s, t) \/ IsPrefix(t, s)
<1>1. /\ Len(s) <= Len(u) /\ \A i \in 1..Len(s) : s[i] = u[i]
      /\ Len(t) <= Len(u) /\ \A i \in 1..Len(t) : t[i] = u[i]
  BY PrefixIs
<1>2. Len(s) \in Nat /\ Len(t) \in Nat
  OBVIOUS
<1>3. CASE Len(s) <= Len(t)
  <2>1. \A i \in 1..Len(s) : s[i] = t[i]
    BY <1>1, <1>2, <1>3
  <2> QED
    BY <1>3, <2>1, PrefixIs
<1>4. CASE Len(t) <= Len(s)
  <2>1. \A i \in 1..Len(t) : t[i] = s[i]
    BY <1>1, <1>2, <1>4
  <2> QED
    BY <1>4, <2>1, PrefixIs
<1> QED
  BY <1>2, <1>3, <1>4

LEMMA EarlySelf == ASSUME rows \in Seq(Row) PROVE Early(rows)
  BY PrefixIs DEF Early

LEMMA EarlyStays ==
  ASSUME rows \in Seq(Row), NEW row \in Row, rows' = Append(rows, row), NEW log, Early(log)
  PROVE  Early(log)'
<1>1. Len(log) <= Len(rows) /\ \A i \in 1..Len(log) : log[i] = rows[i]
  BY PrefixIs DEF Early
<1>2. Len(log) \in Nat /\ Len(rows) \in Nat
  BY DEF Early
<1>3. rows' \in Seq(Row) /\ Len(rows') = Len(rows) + 1 /\ \A i \in 1..Len(rows) : rows'[i] = rows[i]
  BY AppendProperties
<1>4. Len(log) <= Len(rows') /\ \A i \in 1..Len(log) : log[i] = rows'[i]
  BY <1>1, <1>2, <1>3
<1>5. IsPrefix(log, rows')
  BY <1>3, <1>4, PrefixIs DEF Early
<1> QED
  BY <1>5 DEF Early

\* A record of a new identity that cites earlier ones leaves the log sound.
LEMMA SoundGrows ==
  ASSUME rows \in Seq(Row), Sound(rows), NEW row \in Row, rows' = Append(rows, row),
         \A i \in DOMAIN rows : rows[i].entry # row.entry,
         \A input \in row.entry.inputs : \E i \in DOMAIN rows : rows[i].entry.id = input
  PROVE  Sound(rows)'
<1>1. /\ rows' \in Seq(Row) /\ Len(rows') = Len(rows) + 1 /\ rows'[Len(rows) + 1] = row
      /\ \A i \in 1..Len(rows) : rows'[i] = rows[i]
  BY AppendProperties
<1>2. Len(rows) \in Nat /\ DOMAIN rows = 1..Len(rows) /\ DOMAIN rows' = 1..(Len(rows) + 1)
  BY <1>1
<1>3. ASSUME NEW i \in DOMAIN rows', NEW j \in DOMAIN rows', rows'[i].entry = rows'[j].entry
      PROVE  i = j
  <2>1. (i \in 1..Len(rows) \/ i = Len(rows) + 1) /\ (j \in 1..Len(rows) \/ j = Len(rows) + 1)
    BY <1>2
  <2> QED
    BY <1>1, <1>2, <1>3, <2>1 DEF Sound
<1>4. ASSUME NEW i \in DOMAIN rows', NEW input \in rows'[i].entry.inputs
      PROVE  \E j \in 1..(i - 1) : rows'[j].entry.id = input
  <2>1. CASE i \in 1..Len(rows)
    <3>1. PICK j \in 1..(i - 1) : rows[j].entry.id = input
      BY <1>1, <1>2, <2>1 DEF Sound
    <3>2. j \in 1..Len(rows)
      BY <1>2, <2>1
    <3> QED
      BY <1>1, <3>1, <3>2
  <2>2. CASE i = Len(rows) + 1
    <3>1. PICK j \in DOMAIN rows : rows[j].entry.id = input
      BY <1>1, <2>2
    <3>2. j \in 1..(i - 1)
      BY <1>2, <2>2
    <3> QED
      BY <1>1, <1>2, <3>1, <3>2
  <2> QED
    BY <1>2, <2>1, <2>2
<1> QED
  BY <1>3, <1>4 DEF Sound
-----------------------------------------------------------------------------
\* One session moves.
LEMMA VisitChanges ==
  ASSUME DOMAIN visit = Sessions, NEW w \in Sessions, NEW now, visit' = [visit EXCEPT ![w] = now]
  PROVE  /\ DOMAIN visit' = Sessions /\ visit'[w] = now
         /\ \A v \in Sessions : v # w => visit'[v] = visit[v]
         /\ Inside' = IF now.at \in {"out", "over"} THEN Inside \ {w} ELSE Inside \cup {w}
<1>1. /\ DOMAIN visit' = Sessions /\ visit'[w] = now
      /\ \A v \in Sessions : v # w => visit'[v] = visit[v]
  OBVIOUS
<1> QED
  BY <1>1 DEF Inside

LEMMA StaysInside ==
  ASSUME History, NEW w \in Inside, NEW now, visit' = [visit EXCEPT ![w] = now],
         now.at \notin {"out", "over"}
  PROVE  /\ DOMAIN visit' = Sessions /\ visit'[w] = now
         /\ \A v \in Sessions : v # w => visit'[v] = visit[v]
         /\ Inside' = Inside
<1>0. w \in Sessions
  BY DEF Inside
<1>1. Inside' = IF now.at \in {"out", "over"} THEN Inside \ {w} ELSE Inside \cup {w}
  BY <1>0, VisitChanges DEF History
<1>2. Inside' = Inside
  BY <1>1
<1> QED
  BY <1>0, <1>2, VisitChanges DEF History

\* A session that leaves owes nothing more, and what it did not project is remembered.
LEMMA SessionLeaves ==
  ASSUME History, NEW w \in Sessions, LeaveWorkspace(w)
  PROVE  /\ DOMAIN visit' = Sessions /\ visit'[w].at = "over"
         /\ \A v \in Sessions : v # w => visit'[v] = visit[v]
         /\ Inside' = Inside \ {w} /\ owing' = owing \ {w}
         /\ mishaps \subseteq mishaps'
         /\ mishaps' = {} => owing' = owing
<1>1. /\ DOMAIN visit' = Sessions /\ visit'[w].at = "over"
      /\ \A v \in Sessions : v # w => visit'[v] = visit[v]
      /\ Inside' = Inside \ {w}
  <2> DEFINE now == [at |-> "over"]
  <2>1. now.at = "over" /\ visit' = [visit EXCEPT ![w] = now]
    BY DEF LeaveWorkspace
  <2> HIDE DEF now
  <2>2. /\ DOMAIN visit' = Sessions /\ visit'[w] = now
        /\ \A v \in Sessions : v # w => visit'[v] = visit[v]
        /\ Inside' = IF now.at \in {"out", "over"} THEN Inside \ {w} ELSE Inside \cup {w}
    BY <2>1, VisitChanges DEF History
  <2> QED
    BY <2>1, <2>2
<1> QED
  BY <1>1 DEF LeaveWorkspace

\* When a session leaves and nothing else changes.
LEMMA LeavingKeeps ==
  ASSUME SynthesisInv, NEW w \in Sessions, LeaveWorkspace(w),
         UNCHANGED <<rows, projection, saved, output, temporary>>
  PROVE  SynthesisInv'
<1> USE DEF SynthesisInv
<1>1. /\ DOMAIN visit' = Sessions /\ visit'[w].at = "over"
      /\ \A v \in Sessions : v # w => visit'[v] = visit[v]
      /\ Inside' = Inside \ {w} /\ owing' = owing \ {w}
      /\ mishaps \subseteq mishaps'
      /\ mishaps' = {} => owing' = owing
  BY SessionLeaves
<1>2. History'
  BY <1>1 DEF History, Early
<1>3. OneInside => OneInside'
  BY <1>1 DEF OneInside
<1>4. mishaps' = {} => Settled'
  BY <1>1, <1>3 DEF Settled
<1> QED
  BY <1>1, <1>2, <1>3, <1>4

\* When a session inside moves on, and the files and records do not.
LEMMA MovingKeeps ==
  ASSUME SynthesisInv, NEW w \in Inside, NEW now, visit' = [visit EXCEPT ![w] = now],
         now.at \in {"open", "reading", "verifying", "rebuilding", "projecting", "replacing"},
         now.at \in {"verifying", "rebuilding", "projecting"} => now.log = rows,
         now.at = "verifying" => now.next \in {"open", "reading"},
         now.instant = visit[w].instant,
         now.at = "replacing" => temporary \subseteq saved \/ "overlap" \in mishaps,
         UNCHANGED <<rows, projection, saved, output, temporary, owing, mishaps>>
  PROVE  SynthesisInv'
<1> USE DEF SynthesisInv
<1>0. w \in Sessions
  BY DEF Inside
<1>1. /\ DOMAIN visit' = Sessions /\ visit'[w] = now
      /\ \A v \in Sessions : v # w => visit'[v] = visit[v]
      /\ Inside' = Inside
  BY StaysInside
<1>2. Early(rows)
  BY EarlySelf DEF History
<1>3. History'
  BY <1>1, <1>2 DEF History, Early
<1>4. OneInside => OneInside' \/ "overlap" \in mishaps
  BY <1>1 DEF OneInside
<1>5. mishaps = {} => Settled'
  BY <1>1, <1>4 DEF Settled
<1> QED
  BY <1>3, <1>4, <1>5

LEMMA OpenStep == ASSUME SynthesisInv, NEW w \in Sessions, OpenWorkspace(w) PROVE SynthesisInv'
<1> USE DEF SynthesisInv, OpenWorkspace
<1> PICK instant \in Instants :
      visit' = [visit EXCEPT ![w] =
                   [at |-> "verifying", next |-> "open", instant |-> instant, log |-> rows]]
  OBVIOUS
<1> DEFINE now == [at |-> "verifying", next |-> "open", instant |-> instant, log |-> rows]
<1>0. /\ now.at = "verifying" /\ now.next = "open" /\ now.log = rows /\ now.instant \in Instants
      /\ visit' = [visit EXCEPT ![w] = now]
  OBVIOUS
<1> HIDE DEF now
<1>1. /\ DOMAIN visit' = Sessions /\ visit'[w] = now
      /\ \A v \in Sessions : v # w => visit'[v] = visit[v]
      /\ Inside' = Inside \cup {w}
  BY <1>0, VisitChanges DEF History
<1>2. Early(rows)
  BY EarlySelf DEF History
<1>3. History'
  BY <1>0, <1>1, <1>2 DEF History, Early
<1>4. OneInside => OneInside' \/ "overlap" \in mishaps'
  BY <1>0, <1>1 DEF OneInside
<1>5. mishaps' = {} => Settled'
  BY <1>0, <1>1, <1>4 DEF Settled
<1> QED
  BY <1>3, <1>4, <1>5

LEMMA VerifyStep == ASSUME SynthesisInv, NEW w \in Sessions, VerifyIntegrity(w) PROVE SynthesisInv'
<1>0. w \in Inside /\ visit[w].next \in {"open", "reading"}
  BY DEF SynthesisInv, History, Inside, VerifyIntegrity
<1>1. CASE LeaveWorkspace(w)
  BY <1>1, LeavingKeeps DEF VerifyIntegrity
<1>2. CASE ~LeaveWorkspace(w)
  <2> DEFINE now == [at |-> visit[w].next, instant |-> visit[w].instant]
  <2>1. now.at \in {"open", "reading"} /\ now.instant = visit[w].instant
    BY <1>0
  <2>2. visit' = [visit EXCEPT ![w] = now]
    BY <1>0, <1>2 DEF VerifyIntegrity, Inside, SynthesisInv, History
  <2> HIDE DEF now
  <2> QED
    BY <1>0, <1>2, <2>1, <2>2, MovingKeeps DEF VerifyIntegrity
<1> QED
  BY <1>1, <1>2

LEMMA AppendStep == ASSUME SynthesisInv, NEW w \in Sessions, AppendRecord(w) PROVE SynthesisInv'
<1>0. w \in Inside
  BY DEF Inside, AppendRecord
<1>1. CASE LeaveWorkspace(w) /\ UNCHANGED rows
  BY <1>1, LeavingKeeps DEF AppendRecord
<1>2. CASE ~(LeaveWorkspace(w) /\ UNCHANGED rows)
  <2> PICK entry \in Entries :
        LET row == [entry |-> entry, at |-> visit[w].instant] IN
        /\ \A input \in entry.inputs : \E i \in DOMAIN rows : rows[i].entry.id = input
        /\ ~\E i \in DOMAIN rows : rows[i].entry = entry
        /\ rows' = Append(rows, row)
        /\ owing' = owing \cup {w} /\ UNCHANGED <<visit, mishaps>>
    BY <1>2 DEF AppendRecord
  <2> DEFINE row == [entry |-> entry, at |-> visit[w].instant]
  <2>1. row \in Row /\ row.entry = entry
    BY <1>0 DEF Row, SynthesisInv, History
  <2>2. rows' = Append(rows, row)
    OBVIOUS
  <2> HIDE DEF row
  <2>3. Sound(rows)'
    BY <2>1, <2>2, SoundGrows DEF SynthesisInv, History
  <2>4. \A log : Early(log) => Early(log)'
    BY <2>1, <2>2, EarlyStays DEF SynthesisInv, History
  <2>5. rows' \in Seq(Row)
    BY <2>1, <2>2 DEF SynthesisInv, History
  <2>6. UNCHANGED <<projection, saved, output, temporary, visit, mishaps>> /\ Inside' = Inside
    BY DEF AppendRecord, Inside
  <2>7. History'
    BY <1>0, <2>3, <2>4, <2>5, <2>6 DEF SynthesisInv, History
  <2>8. OneInside => OneInside'
    BY <2>6 DEF OneInside
  <2>9. Settled => Settled'
    <3>1. ASSUME Settled, NEW v \in Sessions PROVE visit[v].at # "rebuilding"
      <4>1. visit[w].at = "open"
        BY DEF AppendRecord
      <4>2. visit[v].at = "rebuilding" => v \in Inside
        BY DEF Inside
      <4> QED
        BY <1>0, <3>1, <4>1, <4>2 DEF Settled, OneInside
    <3>2. owing' # {}
      OBVIOUS
    <3> QED
      BY <2>6, <2>8, <3>1, <3>2 DEF Settled
  <2> QED
    BY <2>6, <2>7, <2>8, <2>9 DEF SynthesisInv
<1> QED
  BY <1>1, <1>2

LEMMA ReadingSteps ==
  ASSUME SynthesisInv, NEW w \in Sessions, ReadForRebuild(w) \/ BeginExport(w) \/ ReadRecords(w)
  PROVE  SynthesisInv'
<1>0. w \in Inside
  BY DEF Inside, ReadForRebuild, BeginExport, ReadRecords
<1>1. ASSUME NEW now, visit' = [visit EXCEPT ![w] = now],
             now.at \in {"verifying", "rebuilding", "projecting"}, now.log = rows,
             now.at = "verifying" => now.next = "reading", now.instant = visit[w].instant
      PROVE  SynthesisInv'
  BY <1>0, <1>1, MovingKeeps DEF ReadForRebuild, BeginExport, ReadRecords
<1>2. CASE ReadForRebuild(w)
  <2> DEFINE now == [at |-> "rebuilding", instant |-> visit[w].instant, log |-> rows]
  <2>1. /\ now.at = "rebuilding" /\ now.log = rows /\ now.instant = visit[w].instant
        /\ visit' = [visit EXCEPT ![w] = now]
    BY <1>2 DEF ReadForRebuild
  <2> HIDE DEF now
  <2> QED
    BY <1>1, <2>1
<1>3. CASE BeginExport(w)
  <2> DEFINE now == [at |-> "verifying", next |-> "reading", instant |-> visit[w].instant,
                     log |-> rows]
  <2>1. /\ now.at = "verifying" /\ now.next = "reading" /\ now.log = rows
        /\ now.instant = visit[w].instant /\ visit' = [visit EXCEPT ![w] = now]
    BY <1>3 DEF BeginExport
  <2> HIDE DEF now
  <2> QED
    BY <1>1, <2>1
<1>4. CASE ReadRecords(w)
  <2> DEFINE now == [at |-> "projecting", instant |-> visit[w].instant, log |-> rows]
  <2>1. /\ now.at = "projecting" /\ now.log = rows /\ now.instant = visit[w].instant
        /\ visit' = [visit EXCEPT ![w] = now]
    BY <1>4 DEF ReadRecords
  <2> HIDE DEF now
  <2> QED
    BY <1>1, <2>1
<1> QED
  BY <1>2, <1>3, <1>4

LEMMA RebuildStep ==
  ASSUME SynthesisInv, NEW w \in Sessions, RebuildAdmissionProjection(w)
  PROVE  SynthesisInv'
<1> USE DEF SynthesisInv
<1> DEFINE now == [at |-> "open", instant |-> visit[w].instant]
<1>0. /\ now.at = "open" /\ now.instant = visit[w].instant /\ visit' = [visit EXCEPT ![w] = now]
      /\ w \in Inside
  BY DEF RebuildAdmissionProjection, Inside
<1>g. /\ visit[w].at = "rebuilding" /\ projection' = Projected(visit[w].log)
      /\ owing' = owing \ {w} /\ UNCHANGED <<rows, saved, temporary, output, mishaps>>
  BY DEF RebuildAdmissionProjection
<1> HIDE DEF now
<1>1. /\ DOMAIN visit' = Sessions /\ visit'[w] = now
      /\ \A v \in Sessions : v # w => visit'[v] = visit[v]
      /\ Inside' = Inside
  BY <1>0, StaysInside
<1>2. History'
  BY <1>0, <1>1, <1>g DEF History, Early
<1>3. OneInside => OneInside'
  BY <1>0, <1>1, <1>g DEF OneInside
<1>4. Settled => Settled'
  <2>1. Settled => projection' = Projected(rows')
    BY <1>g DEF Settled
  <2> QED
    BY <1>0, <1>1, <1>3, <1>g, <2>1 DEF Settled
<1> QED
  BY <1>2, <1>3, <1>4, <1>g

LEMMA TemporaryStep == ASSUME SynthesisInv, NEW w \in Sessions, WriteTemporary(w) PROVE SynthesisInv'
<1> USE DEF SynthesisInv
<1> DEFINE export == [records |-> visit[w].log, projection |-> projection]
           now == [at |-> "saving", instant |-> visit[w].instant, export |-> export]
<1>0. /\ now.at = "saving" /\ now.instant = visit[w].instant /\ now.export = export
      /\ export.records = visit[w].log
      /\ visit' = [visit EXCEPT ![w] = now] /\ w \in Inside
  BY DEF WriteTemporary, Inside
<1>g. /\ visit[w].at = "projecting" /\ temporary' = {export}
      /\ UNCHANGED <<rows, projection, saved, output, owing, mishaps>>
  BY DEF WriteTemporary
<1> HIDE DEF now, export
<1>1. /\ DOMAIN visit' = Sessions /\ visit'[w] = now
      /\ \A v \in Sessions : v # w => visit'[v] = visit[v]
      /\ Inside' = Inside
  BY <1>0, StaysInside
<1>2. History'
  BY <1>0, <1>1, <1>g DEF History, Early
<1>3. OneInside => OneInside'
  <2>1. ASSUME OneInside, NEW v \in Sessions, v # w PROVE visit'[v].at \notin {"saving", "replacing"}
    BY <1>0, <1>1, <2>1 DEF OneInside, Inside
  <2> QED
    BY <1>0, <1>1, <1>g, <2>1 DEF OneInside
<1>4. Settled => Settled'
  BY <1>0, <1>1, <1>3, <1>g DEF Settled
<1> QED
  BY <1>2, <1>3, <1>4, <1>g

LEMMA SaveStep == ASSUME SynthesisInv, NEW w \in Sessions, SaveVerifiedExport(w) PROVE SynthesisInv'
<1> USE DEF SynthesisInv
<1>0. w \in Inside
  BY DEF SaveVerifiedExport, Inside
<1>a. CASE ~Verifies(visit[w].export)
  BY <1>a, LeavingKeeps DEF SaveVerifiedExport
<1>b. CASE Verifies(visit[w].export)
  <2> DEFINE now == [at |-> "replacing", instant |-> visit[w].instant]
  <2>0. now.at = "replacing" /\ now.instant = visit[w].instant /\ visit' = [visit EXCEPT ![w] = now]
    BY <1>b DEF SaveVerifiedExport
  <2>g. /\ visit[w].at = "saving" /\ saved' = saved \cup {visit[w].export}
        /\ UNCHANGED <<rows, projection, temporary, output, owing, mishaps>>
    BY <1>b DEF SaveVerifiedExport
  <2> HIDE DEF now
  <2>1. /\ DOMAIN visit' = Sessions /\ visit'[w] = now
        /\ \A v \in Sessions : v # w => visit'[v] = visit[v]
        /\ Inside' = Inside
    BY <1>0, <2>0, StaysInside
  <2>2. History'
    <3>1. Early(visit[w].export.records)
      BY <2>g DEF History
    <3>2. \A export \in saved' : Verifies(export) /\ Early(export.records)
      BY <1>b, <2>g, <3>1 DEF History
    <3> QED
      BY <2>0, <2>1, <2>g, <3>2 DEF History, Early, Verifies
  <2>3. OneInside => OneInside'
    BY <1>0, <2>0, <2>1, <2>g DEF OneInside
  <2>4. Settled => Settled'
    BY <2>0, <2>1, <2>3, <2>g DEF Settled
  <2> QED
    BY <2>2, <2>3, <2>4, <2>g
<1> QED
  BY <1>a, <1>b

LEMMA ReplaceStep == ASSUME SynthesisInv, NEW w \in Sessions, ReplaceOutput(w) PROVE SynthesisInv'
<1> USE DEF SynthesisInv
<1>0. w \in Inside
  BY DEF ReplaceOutput, Inside
<1>a. CASE temporary = {}
  BY <1>a, LeavingKeeps DEF ReplaceOutput
<1>b. CASE temporary # {}
  <2> DEFINE now == [at |-> "open", instant |-> visit[w].instant]
  <2>0. now.at = "open" /\ now.instant = visit[w].instant /\ visit' = [visit EXCEPT ![w] = now]
    BY <1>b DEF ReplaceOutput
  <2>g. /\ visit[w].at = "replacing" /\ output' = temporary /\ temporary' = {}
        /\ UNCHANGED <<rows, projection, saved, owing, mishaps>>
    BY <1>b DEF ReplaceOutput
  <2> HIDE DEF now
  <2>1. /\ DOMAIN visit' = Sessions /\ visit'[w] = now
        /\ \A v \in Sessions : v # w => visit'[v] = visit[v]
        /\ Inside' = Inside
    BY <1>0, <2>0, StaysInside
  <2>2. History'
    BY <2>0, <2>1, <2>g DEF History, Early
  <2>3. OneInside => OneInside'
    <3>1. ASSUME OneInside, NEW v \in Sessions, v # w
          PROVE  visit'[v].at \notin {"saving", "replacing"}
      BY <1>0, <2>1, <3>1 DEF OneInside, Inside
    <3> QED
      BY <1>0, <2>0, <2>1, <2>g, <3>1 DEF OneInside
  <2>4. Settled => Settled'
    BY <2>0, <2>1, <2>3, <2>g DEF Settled
  <2> QED
    BY <2>2, <2>3, <2>4, <2>g
<1> QED
  BY <1>a, <1>b

LEMMA SynthesisStep == SynthesisInv /\ [SynthesisNext]_synthesisVars => SynthesisInv'
<1> SUFFICES ASSUME SynthesisInv, [SynthesisNext]_synthesisVars PROVE SynthesisInv'
  OBVIOUS
<1>1. CASE UNCHANGED synthesisVars
  BY <1>1 DEF synthesisVars, SynthesisInv, History, OneInside, Settled, Early, Inside
<1>2. ASSUME NEW w \in Sessions, CloseWorkspace(w) \/ SessionDies(w) PROVE SynthesisInv'
  BY <1>2, LeavingKeeps DEF CloseWorkspace, SessionDies
<1> QED
  BY <1>1, <1>2, OpenStep, VerifyStep, AppendStep, ReadingSteps, RebuildStep, TemporaryStep,
     SaveStep, ReplaceStep DEF SynthesisNext

\* Whatever sessions append, rebuild and export beside each other, die or raise, a saved
\* export derives from one state of the log and any two are views of one history
\* (synthesis/workspace.py:563).
THEOREM SavedExportsAreViews == SynthesisSpec => []ExportsAreViews
<1>1. SynthesisInv => ExportsAreViews
  <2> SUFFICES ASSUME SynthesisInv, NEW e \in saved, NEW f \in saved
               PROVE  Verifies(e) /\ (IsPrefix(e.records, f.records) \/ IsPrefix(f.records, e.records))
    BY DEF ExportsAreViews
  <2>1. /\ e.records \in Seq(Row) /\ IsPrefix(e.records, rows)
        /\ f.records \in Seq(Row) /\ IsPrefix(f.records, rows) /\ rows \in Seq(Row)
    BY DEF SynthesisInv, History, Early
  <2> QED
    BY <2>1, PrefixesMeet DEF SynthesisInv, History
<1> QED
  BY SynthesisBegins, SynthesisStep, <1>1, PTL DEF SynthesisSpec

\* A workspace nobody is in passes its own verification at the next open, unless a
\* session left an append unprojected or two overlapped (synthesis/workspace.py:473).
THEOREM WorkspaceOpensAgain == SynthesisSpec => []OpensAgain
<1>1. SynthesisInv => OpensAgain
  BY DEF SynthesisInv, History, Settled, OpensAgain
<1> QED
  BY SynthesisBegins, SynthesisStep, <1>1, PTL DEF SynthesisSpec

\* The exported file was verified and saved, unless sessions overlapped
\* (synthesis_cli.py:108).
THEOREM ExportedFileWasSaved == SynthesisSpec => []OutputWasSaved
<1>1. SynthesisInv => OutputWasSaved
  BY DEF SynthesisInv, OneInside, OutputWasSaved
<1> QED
  BY SynthesisBegins, SynthesisStep, <1>1, PTL DEF SynthesisSpec
-----------------------------------------------------------------------------
(***************************************************************************)
(* The vector partition: a file is created only where none is, so that     *)
(* while ingestions come one after another what a whole manifest names     *)
(* stays as it is, and the manifest follows the files it names.            *)
(***************************************************************************)
Storing == {"writing", "creating", "filling", "loading"}
Tasks ==
  [at : Storing \cup {"checking rights", "embedding"}, left : SUBSET Corpus,
   vectors : UNION {[D -> Vectors] : D \in SUBSET Corpus}, spent : Nat,
   sent : SUBSET Corpus, barred : SUBSET Corpus]

\* The documents a process may still send are none of those barred when it began.
Rightful(now) ==
  /\ now.sent \cap now.barred = {} /\ permitted \cap now.barred = {}
  /\ now.at \in {"checking rights", "embedding"} => now.left # {}
  /\ now.at = "embedding" => FirstOf(now.left) \notin now.barred
  /\ now.at \in Storing => now.left \subseteq DOMAIN now.vectors

Permissions ==
  /\ DOMAIN ingestion = Ingestions /\ DOMAIN artifacts = Corpus /\ permitted \subseteq Corpus
  /\ \A i \in Ingestions : Rightful(ingestion[i])
  /\ \A i \in Embedders : ingestion[i] \in Tasks

\* The artifacts of these documents are there, with these vectors.
Stored(vectors, documents) == \A d \in documents : artifacts[d] = {Whole(vectors[d])}

\* What a process has written, and the file it is at.
FileDue(now) == IF now.left # {} THEN artifacts[FirstOf(now.left)] ELSE manifest
Truthful(now) ==
  /\ now.at \in Storing => Stored(now.vectors, DOMAIN now.vectors \ now.left)
  /\ now.at = "creating" => FileDue(now) = {}
  /\ now.at = "filling" => FileDue(now) = {Torn}
  /\ now.at = "loading" => now.left = {} /\ manifest = {Whole(now.vectors)}

Singly ==
  /\ \A i, j \in Embedders : i = j
  /\ \/ manifest \in {{}, {Torn}}
     \/ \E entries : manifest = {Whole(entries)} /\ Stored(entries, DOMAIN entries)
  /\ \A vectors \in returned : manifest = {Whole(vectors)}
  /\ \A i \in Ingestions : Truthful(ingestion[i])

PartitionInv == Permissions /\ (Singly \/ abreast)
-----------------------------------------------------------------------------
LEMMA FirstIs ==
  ASSUME NEW documents \in SUBSET Corpus, documents # {}
  PROVE  FirstOf(documents) \in documents
<1>1. documents \subseteq Nat
  BY PartitionAssumption
<1>2. \E d \in documents : \A e \in documents : d <= e
  BY <1>1, LeastNumber
<1> QED
  BY <1>2 DEF FirstOf

LEMMA WholeIsNotTorn ==
  /\ \A v : Whole(v) # Torn /\ ~Whole(v).torn /\ Whole(v).body = v
  /\ Torn.torn
  /\ \A v, w : Whole(v) = Whole(w) => v = w
<1>1. \A v : Whole(v).torn = FALSE /\ Whole(v).body = v
  BY DEF Whole
<1>2. Torn.torn = TRUE
  BY DEF Torn
<1> QED
  BY <1>1, <1>2

LEMMA LoadsIs ==
  ASSUME NEW entries, manifest = {Whole(entries)}
  PROVE  PartitionLoads(artifacts, manifest) <=> Stored(entries, DOMAIN entries)
  BY WholeIsNotTorn DEF PartitionLoads, Stored

LEMMA PartitionBegins == PartitionInit => PartitionInv
<1> SUFFICES ASSUME PartitionInit PROVE PartitionInv
  OBVIOUS
<1> USE DEF PartitionInit
<1>1. Permissions
  BY DEF Permissions, Rightful, Embedders, Storing
<1>2. Singly
  BY DEF Singly, Truthful, Embedders, Storing
<1> QED
  BY <1>1, <1>2 DEF PartitionInv

\* One process moves.
LEMMA TaskChanges ==
  ASSUME Permissions, NEW i \in Ingestions, NEW now, ingestion' = [ingestion EXCEPT ![i] = now]
  PROVE  /\ DOMAIN ingestion' = Ingestions /\ ingestion'[i] = now
         /\ \A j \in Ingestions : j # i => ingestion'[j] = ingestion[j]
         /\ Embedders' = IF now.at \in {"new", "over"} THEN Embedders \ {i} ELSE Embedders \cup {i}
<1>1. /\ DOMAIN ingestion' = Ingestions /\ ingestion'[i] = now
      /\ \A j \in Ingestions : j # i => ingestion'[j] = ingestion[j]
  BY DEF Permissions
<1> QED
  BY <1>1 DEF Embedders

LEMMA OthersKeep ==
  ASSUME PartitionInv, NEW i \in Ingestions, NEW now, ingestion' = [ingestion EXCEPT ![i] = now],
         Rightful(now), now.at \notin {"new", "over"} => i \in Embedders /\ now \in Tasks,
         Singly /\ ~abreast => Truthful(now) /\ \A vectors \in returned' : manifest = {Whole(vectors)},
         UNCHANGED <<permitted, artifacts, manifest, abreast>>
  PROVE  PartitionInv'
<1>1. /\ DOMAIN ingestion' = Ingestions /\ ingestion'[i] = now
      /\ \A j \in Ingestions : j # i => ingestion'[j] = ingestion[j]
  BY TaskChanges DEF PartitionInv
<1>2. Embedders' \subseteq Embedders /\ (i \in Embedders' => now \in Tasks)
  <2>1. Embedders' = IF now.at \in {"new", "over"} THEN Embedders \ {i} ELSE Embedders \cup {i}
    BY TaskChanges DEF PartitionInv
  <2> QED
    BY <2>1
<1>3. Permissions'
  <2>1. \A j \in Ingestions : Rightful(ingestion[j])'
    BY <1>1 DEF PartitionInv, Permissions, Rightful
  <2> QED
    BY <1>1, <1>2, <2>1 DEF PartitionInv, Permissions
<1>4. ASSUME Singly, ~abreast PROVE Singly'
  <2>1. \A j \in Ingestions : Truthful(ingestion[j])'
    BY <1>1, <1>4 DEF Singly, Truthful, Stored, FileDue
  <2> QED
    BY <1>1, <1>2, <1>4, <2>1 DEF Singly, Stored
<1> QED
  BY <1>3, <1>4 DEF PartitionInv

LEMMA GivingUp ==
  ASSUME PartitionInv, NEW i \in Ingestions, GiveUp(i),
         UNCHANGED <<permitted, artifacts, manifest, abreast>>,
         Singly /\ ~abreast => \A vectors \in returned' : manifest = {Whole(vectors)}
  PROVE  PartitionInv'
<1> DEFINE now == [at |-> "over", sent |-> ingestion[i].sent, barred |-> ingestion[i].barred]
<1>1. /\ now.at = "over" /\ now.sent = ingestion[i].sent /\ now.barred = ingestion[i].barred
      /\ ingestion' = [ingestion EXCEPT ![i] = now]
  BY DEF GiveUp
<1> HIDE DEF now
<1>2. Rightful(now) /\ Truthful(now)
  BY <1>1 DEF PartitionInv, Permissions, Rightful, Truthful, Storing
<1> QED
  BY <1>1, <1>2, OthersKeep

LEMMA BeginIngestionStep == ASSUME PartitionInv, NEW i \in Ingestions, BeginIngestion(i) PROVE PartitionInv'
<1> PICK documents \in SUBSET Corpus :
      /\ documents # {}
      /\ ingestion' = [ingestion EXCEPT ![i] =
           [at |-> "checking rights", left |-> documents, vectors |-> [d \in {} |-> 0],
            spent |-> 0, sent |-> {}, barred |-> Corpus \ permitted]]
  BY DEF BeginIngestion
<1> DEFINE none == [d \in {} |-> 0]
           now == [at |-> "checking rights", left |-> documents, vectors |-> none,
                   spent |-> 0, sent |-> {}, barred |-> Corpus \ permitted]
<1>0. none \in [{} -> Vectors] /\ {} \in SUBSET Corpus
  OBVIOUS
<1>1. /\ now.at = "checking rights" /\ now.left = documents /\ now.sent = {}
      /\ now.barred = Corpus \ permitted /\ now \in Tasks
      /\ ingestion' = [ingestion EXCEPT ![i] = now]
  <2> HIDE DEF none
  <2>1. none \in UNION {[D -> Vectors] : D \in SUBSET Corpus}
    BY <1>0
  <2> QED
    BY <2>1 DEF Tasks, none
<1> HIDE DEF now
<1>2. Rightful(now)
  BY <1>1 DEF PartitionInv, Permissions, Rightful, Storing
<1>3. /\ DOMAIN ingestion' = Ingestions /\ ingestion'[i] = now
      /\ \A j \in Ingestions : j # i => ingestion'[j] = ingestion[j]
  BY <1>1, TaskChanges DEF PartitionInv
<1>4. Embedders' = Embedders \cup {i}
  <2>1. Embedders' = IF now.at \in {"new", "over"} THEN Embedders \ {i} ELSE Embedders \cup {i}
    BY <1>1, TaskChanges DEF PartitionInv
  <2> QED
    BY <1>1, <2>1
<1>5. UNCHANGED <<permitted, artifacts, manifest, returned>>
  BY DEF BeginIngestion
<1>6. Permissions'
  <2>1. \A j \in Ingestions : Rightful(ingestion[j])'
    BY <1>2, <1>3, <1>5 DEF PartitionInv, Permissions, Rightful
  <2>2. \A j \in Embedders' : ingestion'[j] \in Tasks
    BY <1>1, <1>3, <1>4 DEF PartitionInv, Permissions, Embedders
  <2> QED
    BY <1>3, <1>5, <2>1, <2>2 DEF PartitionInv, Permissions
<1>7. ASSUME Singly, Embedders = {} PROVE Singly'
  <2>1. \A j \in Ingestions : Truthful(ingestion[j])'
    BY <1>1, <1>3, <1>5, <1>7 DEF Singly, Truthful, Storing, Embedders
  <2> QED
    BY <1>4, <1>5, <1>7, <2>1 DEF Singly, Stored
<1>8. abreast' <=> abreast \/ Embedders # {}
  BY DEF BeginIngestion
<1> QED
  BY <1>6, <1>7, <1>8 DEF PartitionInv

LEMMA RightsStep == ASSUME PartitionInv, NEW i \in Ingestions, RequireRights(i) PROVE PartitionInv'
<1>0. UNCHANGED <<permitted, artifacts, manifest, returned, abreast>> /\ i \in Embedders
  BY DEF RequireRights, Embedders
<1>a. CASE GiveUp(i)
  BY <1>0, <1>a, GivingUp DEF Singly
<1>b. CASE ~GiveUp(i)
  <2> DEFINE now == [ingestion[i] EXCEPT !.at = "embedding"]
  <2>1. FirstOf(ingestion[i].left) \in permitted /\ ingestion[i].left # {} /\ ingestion[i] \in Tasks
    BY <1>0, <1>b DEF RequireRights, PartitionInv, Permissions, Rightful
  <2>2. /\ now.at = "embedding" /\ now.left = ingestion[i].left /\ now.sent = ingestion[i].sent
        /\ now.barred = ingestion[i].barred /\ now \in Tasks
    BY <2>1 DEF Tasks
  <2>3. ingestion' = [ingestion EXCEPT ![i] = now]
    BY <1>b DEF RequireRights
  <2> HIDE DEF now
  <2>4. Rightful(now) /\ Truthful(now)
    BY <2>1, <2>2 DEF PartitionInv, Permissions, Rightful, Truthful, Storing
  <2> QED
    BY <1>0, <2>2, <2>3, <2>4, OthersKeep DEF Singly
<1> QED
  BY <1>a, <1>b

\* What is held after an answer: the vectors of all it was asked for so far.
LEMMA EmbeddedIs ==
  ASSUME NEW task \in Tasks, task.left # {}, Rightful(task), task.at = "embedding",
         NEW v \in Vectors, NEW tokens \in TokenCounts
  PROVE  LET now == Embedded(task, v, tokens) IN
         now \in Tasks /\ Rightful(now) /\ Truthful(now)
<1> DEFINE d == FirstOf(task.left)
           vecs == [e \in DOMAIN task.vectors \cup {d} |-> IF e = d THEN v ELSE task.vectors[e]]
           now == [task EXCEPT !.at = IF task.left = {d} THEN "writing" ELSE "checking rights",
                     !.left = IF task.left = {d} THEN DOMAIN vecs ELSE task.left \ {d},
                     !.vectors = vecs, !.spent = task.spent + tokens,
                     !.sent = task.sent \cup {d}]
<1>1. now = Embedded(task, v, tokens)
  BY DEF Embedded
<1>2. d \in task.left /\ d \in Corpus /\ d \notin task.barred
  BY FirstIs DEF Rightful, Tasks
<1> HIDE DEF d
<1>3. task.spent + tokens \in Nat
  <2>1. task.spent \in Nat /\ tokens \in Nat
    BY PartitionAssumption DEF Tasks
  <2> QED
    BY <2>1
<1>4. /\ DOMAIN vecs = DOMAIN task.vectors \cup {d}
      /\ vecs \in UNION {[D -> Vectors] : D \in SUBSET Corpus}
  <2>1. PICK D \in SUBSET Corpus : task.vectors \in [D -> Vectors]
    BY DEF Tasks
  <2>2. D \cup {d} \in SUBSET Corpus /\ vecs \in [D \cup {d} -> Vectors]
    BY <1>2, <2>1
  <2> HIDE DEF vecs
  <2> QED
    BY <2>1, <2>2
<1> HIDE DEF vecs
<1>5. /\ now.at = IF task.left = {d} THEN "writing" ELSE "checking rights"
      /\ now.left = IF task.left = {d} THEN DOMAIN vecs ELSE task.left \ {d}
      /\ now.vectors = vecs /\ now.sent = task.sent \cup {d} /\ now.barred = task.barred
  BY DEF Tasks
<1>6. now \in Tasks
  <2>1. DOMAIN vecs \subseteq Corpus
    BY <1>4
  <2> QED
    BY <1>2, <1>3, <1>4, <2>1 DEF Tasks, Storing
<1> HIDE DEF now
<1>7. Rightful(now) /\ Truthful(now)
  BY <1>2, <1>4, <1>5 DEF Rightful, Truthful, Storing, Stored
<1> QED
  BY <1>1, <1>6, <1>7

LEMMA EmbedStep == ASSUME PartitionInv, NEW i \in Ingestions, EmbedDocument(i) PROVE PartitionInv'
<1> DEFINE task == ingestion[i]
           d == FirstOf(task.left)
<1>0. UNCHANGED <<permitted, artifacts, manifest, returned, abreast>> /\ i \in Embedders
  BY DEF EmbedDocument, Embedders
<1>1. task \in Tasks /\ task.at = "embedding" /\ Rightful(task) /\ task.left # {}
  BY <1>0 DEF EmbedDocument, PartitionInv, Permissions, Rightful
<1>a. CASE ingestion' = [ingestion EXCEPT ![i] =
             [at |-> "over", sent |-> task.sent \cup {d}, barred |-> task.barred]]
  <2> DEFINE now == [at |-> "over", sent |-> task.sent \cup {d}, barred |-> task.barred]
  <2>1. /\ now.at = "over" /\ now.sent = task.sent \cup {d} /\ now.barred = task.barred
        /\ ingestion' = [ingestion EXCEPT ![i] = now]
    BY <1>a
  <2> HIDE DEF now
  <2>2. Rightful(now) /\ Truthful(now)
    BY <1>1, <2>1 DEF Rightful, Truthful, Storing
  <2> QED
    BY <1>0, <2>1, <2>2, OthersKeep DEF Singly
<1>b. ASSUME NEW v \in Vectors, NEW tokens \in TokenCounts,
             ingestion' = [ingestion EXCEPT ![i] = Embedded(task, v, tokens)]
      PROVE  PartitionInv'
  BY <1>0, <1>1, <1>b, EmbeddedIs, OthersKeep DEF Singly
<1> QED
  BY <1>a, <1>b DEF EmbedDocument
-----------------------------------------------------------------------------
\* A process that finds or fills its file goes on to the next one.
LEMMA WrittenIs ==
  ASSUME PartitionInv, NEW i \in Embedders, ingestion[i].at \in Storing, Written(i)
  PROVE  \E now \in Tasks :
           /\ ingestion' = [ingestion EXCEPT ![i] = now] /\ Rightful(now)
           /\ now.vectors = ingestion[i].vectors
           /\ ArtifactNext(i) => now.at = "writing"
                                 /\ now.left = ingestion[i].left \ {FirstOf(ingestion[i].left)}
           /\ ~ArtifactNext(i) => now.at = "loading" /\ now.left = {}
<1> DEFINE task == ingestion[i]
           on == [task EXCEPT !.at = "writing", !.left = task.left \ {FirstOf(task.left)}]
           end == [task EXCEPT !.at = "loading"]
<1>1. task \in Tasks /\ Rightful(task)
  BY DEF PartitionInv, Permissions, Embedders
<1>2. /\ on \in Tasks /\ on.at = "writing" /\ on.left = task.left \ {FirstOf(task.left)}
      /\ on.vectors = task.vectors /\ on.sent = task.sent /\ on.barred = task.barred
  BY <1>1 DEF Tasks, Storing
<1>3. /\ end \in Tasks /\ end.at = "loading" /\ end.left = task.left
      /\ end.vectors = task.vectors /\ end.sent = task.sent /\ end.barred = task.barred
  BY <1>1 DEF Tasks, Storing
<1>4. ingestion' = [ingestion EXCEPT ![i] = IF task.left = {} THEN end ELSE on]
  BY DEF Written, Passed
<1> HIDE DEF on, end
<1>5. Rightful(on) /\ Rightful(end)
  BY <1>1, <1>2, <1>3 DEF Rightful, Storing
<1>6. CASE task.left # {}
  BY <1>2, <1>4, <1>5, <1>6 DEF ArtifactNext
<1>7. CASE task.left = {}
  BY <1>3, <1>4, <1>5, <1>7 DEF ArtifactNext
<1> QED
  BY <1>6, <1>7

LEMMA LookAtFileStep == ASSUME PartitionInv, NEW i \in Ingestions, LookAtFile(i) PROVE PartitionInv'
<1> DEFINE task == ingestion[i]
           d == FirstOf(task.left)
<1>0. UNCHANGED <<permitted, artifacts, manifest, returned, abreast>> /\ i \in Embedders
  BY DEF LookAtFile, Embedders
<1>1. task \in Tasks /\ Rightful(task) /\ task.at = "writing" /\ task.at \in Storing
  BY <1>0 DEF PartitionInv, Permissions, LookAtFile, Storing
<1>2. task.left # {} => d \in task.left
  BY <1>1, FirstIs DEF Tasks
<1>a. CASE FileNow(i) = {FileWanted(i)} /\ Written(i)
  <2> PICK now \in Tasks :
           /\ ingestion' = [ingestion EXCEPT ![i] = now] /\ Rightful(now)
           /\ now.vectors = ingestion[i].vectors
           /\ ArtifactNext(i) => now.at = "writing"
                                 /\ now.left = ingestion[i].left \ {FirstOf(ingestion[i].left)}
           /\ ~ArtifactNext(i) => now.at = "loading" /\ now.left = {}
    BY <1>0, <1>1, <1>a, WrittenIs
  <2>1. Singly => Truthful(task)
    BY DEF Singly
  <2>2. ASSUME Singly, task.left # {} PROVE Truthful(now)
    <3>1. artifacts[d] = {Whole(task.vectors[d])}
      BY <1>a, <2>2 DEF FileNow, FileWanted, ArtifactNext
    <3> QED
      BY <1>1, <2>1, <2>2, <3>1 DEF Truthful, Stored, ArtifactNext, Storing
  <2>3. ASSUME Singly, task.left = {} PROVE Truthful(now)
    <3>1. manifest = {Whole(task.vectors)}
      BY <1>a, <2>3 DEF FileNow, FileWanted, ArtifactNext
    <3> QED
      BY <1>1, <2>1, <2>3, <3>1 DEF Truthful, Stored, ArtifactNext, Storing
  <2> QED
    BY <1>0, <2>2, <2>3, OthersKeep DEF Singly
<1>b. CASE GiveUp(i)
  BY <1>0, <1>b, GivingUp DEF Singly
<1>c. CASE FileNow(i) = {} /\ ingestion' = [ingestion EXCEPT ![i].at = "creating"]
  <2> DEFINE now == [task EXCEPT !.at = "creating"]
  <2>1. /\ now \in Tasks /\ now.at = "creating" /\ now.left = task.left
        /\ now.vectors = task.vectors /\ now.sent = task.sent /\ now.barred = task.barred
    BY <1>1 DEF Tasks, Storing
  <2>2. ingestion' = [ingestion EXCEPT ![i] = now]
    BY <1>c
  <2> HIDE DEF now
  <2>3. Rightful(now)
    BY <1>1, <2>1 DEF Rightful, Storing
  <2>4. Singly => Truthful(now)
    BY <1>1, <1>c, <2>1 DEF Singly, Truthful, FileDue, FileNow, ArtifactNext, Storing
  <2> QED
    BY <1>0, <2>1, <2>2, <2>3, <2>4, OthersKeep DEF Singly
<1> QED
  BY <1>a, <1>b, <1>c DEF LookAtFile

\* A file is put where none is, or the torn one it was created as: nothing that a manifest
\* or a record counts on is touched.
LEMMA PutKeeps ==
  ASSUME PartitionInv, NEW i \in Embedders, ingestion[i].at \in {"creating", "filling"},
         NEW file, Put(i, file), file = Torn \/ file = FileWanted(i),
         NEW now \in Tasks, ingestion' = [ingestion EXCEPT ![i] = now], Rightful(now),
         UNCHANGED <<permitted, returned, abreast>>,
         now.vectors = ingestion[i].vectors, now.at \in Storing,
         file = Torn => now.at = "filling" /\ now.left = ingestion[i].left,
         file # Torn =>
           /\ ArtifactNext(i) => now.at = "writing"
                                 /\ now.left = ingestion[i].left \ {FirstOf(ingestion[i].left)}
           /\ ~ArtifactNext(i) => now.at = "loading" /\ now.left = {}
  PROVE  PartitionInv'
<1> DEFINE task == ingestion[i]
           d == FirstOf(task.left)
<1>0. i \in Ingestions /\ task \in Tasks /\ Rightful(task) /\ task.at \in Storing
  BY DEF PartitionInv, Permissions, Embedders, Storing
<1>1. /\ DOMAIN ingestion' = Ingestions /\ ingestion'[i] = now
      /\ \A j \in Ingestions : j # i => ingestion'[j] = ingestion[j]
  BY <1>0, TaskChanges DEF PartitionInv
<1>2. Embedders' = Embedders
  <2>1. Embedders' = IF now.at \in {"new", "over"} THEN Embedders \ {i} ELSE Embedders \cup {i}
    BY <1>0, TaskChanges DEF PartitionInv
  <2> QED
    BY <2>1 DEF Storing
<1>3. task.left # {} => d \in task.left /\ d \in Corpus /\ d \in DOMAIN task.vectors
  BY <1>0, FirstIs DEF Tasks, Rightful
<1>4. DOMAIN artifacts' = Corpus
  BY DEF Put, PartitionInv, Permissions
<1>5. Permissions'
  <2>1. \A j \in Ingestions : Rightful(ingestion[j])'
    BY <1>1 DEF PartitionInv, Permissions, Rightful
  <2> QED
    BY <1>1, <1>2, <1>4, <2>1 DEF PartitionInv, Permissions
<1>6. ASSUME Singly, ~abreast PROVE Singly'
  <2>1. Truthful(task) /\ FileDue(task) \in {{}, {Torn}}
    BY <1>0, <1>6 DEF Singly, Truthful
  <2>2. \A j \in Ingestions : j # i => Truthful(ingestion[j])'
    BY <1>0, <1>1, <1>6 DEF Singly, Truthful, Embedders, Storing
  <2>3. CASE task.left # {}
    <3>1. /\ artifacts' = [artifacts EXCEPT ![d] = {file}] /\ manifest' = manifest
          /\ artifacts[d] \in {{}, {Torn}}
      BY <2>1, <2>3 DEF Put, ArtifactNext, FileDue
    <3>2. artifacts'[d] = {file} /\ \A e \in Corpus : e # d => artifacts'[e] = artifacts[e]
      BY <1>3, <2>3, <3>1 DEF PartitionInv, Permissions
    <3>3. ASSUME NEW entries, NEW e, artifacts[e] = {Whole(entries[e])}
          PROVE  artifacts'[e] = {Whole(entries[e])}
      <4>1. e # d
        BY <3>1, <3>3, WholeIsNotTorn
      <4> QED
        BY <3>1, <3>3, <4>1
    <3>4. \A entries, documents : Stored(entries, documents) => Stored(entries, documents)'
      BY <3>3 DEF Stored
    <3>5. Truthful(now)'
      <4>1. CASE file = Torn
        <5>1. FileDue(now)' = {Torn}
          BY <2>3, <3>2, <4>1 DEF FileDue
        <5> QED
          BY <1>0, <2>1, <3>4, <4>1, <5>1 DEF Truthful, Storing
      <4>2. CASE file # Torn
        <5>1. now.at = "writing" /\ now.left = task.left \ {d} /\ file = Whole(task.vectors[d])
          BY <2>3, <4>2 DEF ArtifactNext, FileWanted
        <5>2. \A e \in DOMAIN now.vectors \ task.left : artifacts[e] = {Whole(now.vectors[e])}
          BY <1>0, <2>1 DEF Truthful, Stored
        <5>3. \A e \in DOMAIN now.vectors \ now.left : artifacts'[e] = {Whole(now.vectors[e])}
          BY <3>2, <3>3, <5>1, <5>2
        <5>4. Stored(now.vectors, DOMAIN now.vectors \ now.left)'
          BY <5>3 DEF Stored
        <5> QED
          BY <5>1, <5>4 DEF Truthful, Storing
      <4> QED
        BY <4>1, <4>2
    <3> QED
      BY <1>1, <1>2, <1>6, <2>2, <3>1, <3>4, <3>5 DEF Singly
  <2>4. CASE task.left = {}
    <3>1. artifacts' = artifacts /\ manifest' = {file} /\ manifest \in {{}, {Torn}}
      BY <2>1, <2>4 DEF Put, ArtifactNext, FileDue
    <3>2. returned' = {}
      BY <1>6, <3>1, WholeIsNotTorn DEF Singly
    <3>3. Stored(task.vectors, DOMAIN task.vectors)
      BY <1>0, <2>1, <2>4 DEF Truthful, Stored
    <3>4. Truthful(now)' /\ (manifest' \in {{}, {Torn}} \/ manifest' = {Whole(task.vectors)})
      <4>1. CASE file = Torn
        BY <2>4, <3>1, <3>3, <4>1 DEF Truthful, FileDue, Stored
      <4>2. CASE file # Torn
        <5>1. now.at = "loading" /\ now.left = {} /\ file = Whole(task.vectors)
          BY <2>4, <4>2 DEF ArtifactNext, FileWanted
        <5> QED
          BY <3>1, <3>3, <5>1 DEF Truthful, Stored
      <4> QED
        BY <4>1, <4>2
    <3>5. \/ manifest' \in {{}, {Torn}}
          \/ \E entries : manifest' = {Whole(entries)} /\ Stored(entries, DOMAIN entries)'
      BY <3>1, <3>3, <3>4 DEF Stored
    <3> QED
      BY <1>1, <1>2, <1>6, <2>2, <3>2, <3>4, <3>5 DEF Singly
  <2> QED
    BY <2>3, <2>4
<1> QED
  BY <1>5, <1>6 DEF PartitionInv

LEMMA CreateStep == ASSUME PartitionInv, NEW i \in Ingestions, CreateFile(i) PROVE PartitionInv'
<1> DEFINE task == ingestion[i]
           now == [task EXCEPT !.at = "filling"]
<1>0. i \in Embedders /\ task.at = "creating"
  BY DEF CreateFile, Embedders
<1>1. task \in Tasks /\ Rightful(task)
  BY <1>0 DEF PartitionInv, Permissions
<1>2. /\ now \in Tasks /\ now.at = "filling" /\ now.left = task.left
      /\ now.vectors = task.vectors /\ now.sent = task.sent /\ now.barred = task.barred
  BY <1>1 DEF Tasks, Storing
<1>3. ingestion' = [ingestion EXCEPT ![i] = now] /\ Put(i, Torn)
      /\ UNCHANGED <<permitted, returned, abreast>>
  BY DEF CreateFile
<1> HIDE DEF now
<1>4. Rightful(now) /\ now.at \in Storing
  BY <1>0, <1>1, <1>2 DEF Rightful, Storing
<1> QED
  BY <1>0, <1>2, <1>3, <1>4, PutKeeps

LEMMA FillStep == ASSUME PartitionInv, NEW i \in Ingestions, FillFile(i) PROVE PartitionInv'
<1>0. i \in Embedders /\ ingestion[i].at = "filling" /\ ingestion[i].at \in Storing
  BY DEF FillFile, Embedders, Storing
<1>1. Written(i) /\ Put(i, FileWanted(i)) /\ UNCHANGED <<permitted, returned, abreast>>
  BY DEF FillFile
<1> PICK now \in Tasks :
           /\ ingestion' = [ingestion EXCEPT ![i] = now] /\ Rightful(now)
           /\ now.vectors = ingestion[i].vectors
           /\ ArtifactNext(i) => now.at = "writing"
                                 /\ now.left = ingestion[i].left \ {FirstOf(ingestion[i].left)}
           /\ ~ArtifactNext(i) => now.at = "loading" /\ now.left = {}
  BY <1>0, <1>1, WrittenIs
<1>2. FileWanted(i) # Torn
  BY WholeIsNotTorn DEF FileWanted
<1>3. now.at \in Storing
  BY DEF Storing
<1> QED
  BY <1>0, <1>1, <1>2, <1>3, PutKeeps

LEMMA LoadStep == ASSUME PartitionInv, NEW i \in Ingestions, LoadPartition(i) PROVE PartitionInv'
<1>1. /\ GiveUp(i) /\ UNCHANGED <<permitted, artifacts, manifest, abreast>>
      /\ ingestion[i].at = "loading" /\ returned' \subseteq returned \cup {ingestion[i].vectors}
  BY DEF LoadPartition
<1>2. Singly => \A vectors \in returned' : manifest = {Whole(vectors)}
  BY <1>1 DEF Singly, Truthful
<1> QED
  BY <1>1, <1>2, GivingUp

LEMMA WithdrawStep == ASSUME PartitionInv, WithdrawRights PROVE PartitionInv'
<1>1. permitted' \subseteq permitted /\ UNCHANGED <<artifacts, manifest, ingestion, returned, abreast>>
  BY DEF WithdrawRights
<1>2. Permissions'
  BY <1>1 DEF PartitionInv, Permissions, Rightful, Embedders
<1>3. Singly => Singly'
  BY <1>1 DEF Singly, Truthful, Stored, FileDue, Embedders
<1> QED
  BY <1>1, <1>2, <1>3 DEF PartitionInv

LEMMA PartitionStep == PartitionInv /\ [PartitionNext]_partitionVars => PartitionInv'
<1> SUFFICES ASSUME PartitionInv, [PartitionNext]_partitionVars PROVE PartitionInv'
  OBVIOUS
<1>1. CASE UNCHANGED partitionVars
  <2>1. UNCHANGED <<permitted, artifacts, manifest, ingestion, returned, abreast>>
    BY <1>1 DEF partitionVars
  <2>2. Permissions'
    BY <2>1 DEF PartitionInv, Permissions, Rightful, Embedders
  <2>3. Singly => Singly'
    BY <2>1 DEF Singly, Truthful, Stored, FileDue, Embedders
  <2> QED
    BY <2>1, <2>2, <2>3 DEF PartitionInv
<1>2. ASSUME NEW i \in Ingestions, IngestionDies(i) PROVE PartitionInv'
  BY <1>2, GivingUp DEF IngestionDies, Singly
<1> QED
  BY <1>1, <1>2, BeginIngestionStep, RightsStep, EmbedStep, LookAtFileStep, CreateStep, FillStep, LoadStep,
     WithdrawStep DEF PartitionNext

\* A text is never sent whose rights were withdrawn before the ingestion began, however many
\* ingestions there are (embedding/ingestion.py:452).
THEOREM NothingWithdrawnIsSent == PartitionSpec => []WithdrawnNotSent
<1>1. PartitionInv => WithdrawnNotSent
  BY DEF PartitionInv, Permissions, Rightful, WithdrawnNotSent
<1> QED
  BY PartitionBegins, PartitionStep, <1>1, PTL DEF PartitionSpec

\* While ingestions come one after another, whatever died and was tried again, a whole
\* manifest loads and a recorded partition stays (embedding/partition.py:474, 660).
THEOREM RecordedPartitionsStay == PartitionSpec => []PartitionKept
<1>1. PartitionInv => PartitionKept
  BY LoadsIs DEF PartitionInv, Singly, PartitionKept
<1> QED
  BY PartitionBegins, PartitionStep, <1>1, PTL DEF PartitionSpec
-----------------------------------------------------------------------------
\* What the five parts wrote passes what checks it when it is read again, whatever came,
\* failed, was interleaved, died or was tried again: the reports of discovery_v2.py,
\* following.py and batch_acquisition.py, the synthesis workspace with its exports and the
\* vector partition, each with the exceptions its part names.
THEOREM WrittenIsAccepted ==
  SweepSpec /\ FollowSpec /\ BatchSpec /\ SynthesisSpec /\ PartitionSpec => []WrittenChecksOut
<1>1. /\ SweepChecksOut /\ FollowChecksOut /\ BatchChecksOut
      /\ ExportsAreViews /\ OpensAgain /\ OutputWasSaved
      /\ PartitionKept /\ WithdrawnNotSent
      => WrittenChecksOut
  BY DEF WrittenChecksOut
<1> QED
  BY SweepsCheckOut, FollowingChecksOut, BatchesCheckOut, SavedExportsAreViews,
     WorkspaceOpensAgain, ExportedFileWasSaved, RecordedPartitionsStay,
     NothingWithdrawnIsSent, <1>1, PTL
-----------------------------------------------------------------------------
(***************************************************************************)
(* The type invariants of the services, each with what its part's own      *)
(* invariant lacks of it.                                                  *)
(***************************************************************************)

\* A request file under the identity of its proposal and its proof.
Filed(request) ==
  request \in requests /\ request.id = BridgedId(request.proposal, request.proof)

BridgesTyped ==
  /\ \A b \in bridges : Filed(b.request)
  /\ \/ building = NoBridge
     \/ \E request \in requests, status \in {"running", "awaiting_review"} :
          building = {[request |-> request, status |-> status]} /\ Filed(request)

LEMMA BridgesStayTyped == BridgesTyped /\ [BridgeNext]_bridgeVars => BridgesTyped'
<1> SUFFICES ASSUME BridgesTyped, [BridgeNext]_bridgeVars PROVE BridgesTyped'
  OBVIOUS
<1>1. CASE BuildBridge
  <2> PICK proposal \in Proposals, proof \in Proofs, name \in Names,
           status \in {"running", "awaiting_review"} :
        LET request == [id |-> BridgedId(proposal, proof), proposal |-> proposal,
                        proof |-> proof, name |-> name] IN
        /\ requests' = requests \cup {request}
        /\ building' = {[request |-> request, status |-> status]}
    BY <1>1 DEF BuildBridge
  <2> DEFINE request == [id |-> BridgedId(proposal, proof), proposal |-> proposal,
                         proof |-> proof, name |-> name]
  <2>1. request.id = BridgedId(request.proposal, request.proof)
    OBVIOUS
  <2>2. requests' = requests \cup {request} /\ building' = {[request |-> request, status |-> status]}
    OBVIOUS
  <2>3. bridges' = bridges
    BY <1>1 DEF BuildBridge
  <2> HIDE DEF request
  <2> QED
    BY <2>1, <2>2, <2>3 DEF BridgesTyped, Filed
<1>2. CASE SaveBridge
  <2>1. PICK request \in requests, status \in {"running", "awaiting_review"} :
          building = {[request |-> request, status |-> status]} /\ Filed(request)
    BY <1>2 DEF SaveBridge, BridgesTyped
  <2>2. \A b \in building : b.request = request
    BY <2>1
  <2>3. requests' = requests /\ bridges' \subseteq bridges \cup building /\ building' = NoBridge
    BY <1>2 DEF SaveBridge
  <2> QED
    BY <2>1, <2>2, <2>3 DEF BridgesTyped, Filed
<1>3. ASSUME requests \subseteq requests', UNCHANGED <<bridges, building>> PROVE BridgesTyped'
  BY <1>3 DEF BridgesTyped, Filed
<1>4. CASE EditByHand
  BY <1>3, <1>4 DEF EditByHand
<1>5. CASE Check \/ RepairStarts \/ RepairChecks \/ RepairEnds \/ RepairSaves \/ RepairDies
  BY <1>3, <1>5 DEF Check, RepairStarts, RepairChecks, RepairEnds, RepairSaves, RepairDies
<1>6. CASE UNCHANGED bridgeVars
  BY <1>3, <1>6 DEF bridgeVars
<1> QED
  BY <1>1, <1>2, <1>4, <1>5, <1>6 DEF BridgeNext

\* One bridge at a time is being built, and every recorded one is of a request file under
\* the identity of its proposal and proof (phase3b/bridge.py).
THEOREM BridgeTyped == BridgeSpec => []BridgeTypeOK
<1>1. BridgeInit => BridgesTyped
  BY DEF BridgeInit, BridgesTyped
<1>2. BridgesTyped => BridgeTypeOK
  <2> SUFFICES ASSUME BridgesTyped PROVE BridgeTypeOK
    OBVIOUS
  <2>1. CASE building = NoBridge
    BY <2>1, FS_EmptySet DEF BridgesTyped, BridgeTypeOK, Filed, NoBridge
  <2>2. CASE building # NoBridge
    <3>1. PICK request \in requests, status \in {"running", "awaiting_review"} :
            building = {[request |-> request, status |-> status]}
      BY <2>2 DEF BridgesTyped
    <3>2. Cardinality(building) = 1
      BY <3>1, FS_Singleton
    <3> QED
      BY <3>1, <3>2 DEF BridgesTyped, BridgeTypeOK, Filed
  <2> QED
    BY <2>1, <2>2
<1> QED
  BY <1>1, <1>2, BridgesStayTyped, PTL DEF BridgeSpec
-----------------------------------------------------------------------------
\* A run is at a listed document or behind the last one.
WithinList == \A r \in FetchRuns : at[r] \in 1..(Documents + 1)

LEMMA WithinStays == Plain /\ WithinList /\ [FetchNext]_fetchVars => WithinList'
<1> SUFFICES ASSUME Plain, WithinList, [FetchNext]_fetchVars PROVE WithinList'
  OBVIOUS
<1>0. DOMAIN at = FetchRuns /\ bodies \subseteq 1..Documents /\ Documents \in Nat
  BY FetchAssumption DEF Plain, FetchShape, Listed
<1>1. ASSUME UNCHANGED at PROVE WithinList'
  BY <1>1 DEF WithinList
<1>2. ASSUME NEW r \in FetchRuns, at[r] \in bodies, at' = [at EXCEPT ![r] = @ + 1]
      PROVE  WithinList'
  BY <1>0, <1>2 DEF WithinList
<1>3. ASSUME NEW r \in FetchRuns, at' = [at EXCEPT ![r] = 1] PROVE WithinList'
  BY <1>0, <1>3 DEF WithinList
<1>4. ASSUME NEW r \in FetchRuns,
             \/ ReadIndex(r) \/ AlreadyStored(r) \/ RefuseAmbiguous(r) \/ Intend(r) \/ Get(r)
             \/ StoreObject(r) \/ Fetched(r) \/ Report(r) \/ Interrupt(r)
      PROVE  WithinList'
  <2>1. CASE AlreadyStored(r)
    BY <1>2, <2>1 DEF AlreadyStored
  <2>2. CASE Fetched(r)
    BY <1>2, <2>2 DEF Fetched, Plain
  <2>3. CASE ReadIndex(r) \/ Intend(r) \/ StoreObject(r)
    BY <1>1, <2>3 DEF ReadIndex, Intend, StoreObject
  <2>4. CASE RefuseAmbiguous(r) \/ Report(r) \/ Interrupt(r) \/ Get(r)
    BY <1>1, <1>3, <2>4 DEF RefuseAmbiguous, Report, Interrupt, Get, Ends
  <2> QED
    BY <1>4, <2>1, <2>2, <2>3, <2>4
<1>5. CASE UNCHANGED fetchVars
  BY <1>1, <1>5 DEF fetchVars
<1> QED
  BY <1>4, <1>5 DEF FetchNext

\* A ledger record closes an earlier one, what is stored is listed, and no run goes past
\* the end of the list (fetcher.py:183).
THEOREM FetchTyped == FetchSpec => []FetchTypeOK
<1>1. FetchInit => Plain /\ WithinList
  BY FetchBegins, FetchAssumption DEF FetchInit, FetchInv, WithinList
<1>2. Plain /\ WithinList => FetchTypeOK
  BY DEF Plain, FetchShape, WithinList, FetchTypeOK
<1> QED
  BY <1>1, <1>2, PlainStep, WithinStays, PTL DEF FetchSpec
-----------------------------------------------------------------------------
RequestTyped(entry) ==
  entry.provider \in ToSet(Providers) /\ entry.query \in 1..Queries /\ entry.bytes \in Nat

SweepTypes ==
  /\ \E S : requestLedger \in Seq(S)
  /\ \A i \in DOMAIN requestLedger : RequestTyped(requestLedger[i])
  /\ found \in Seq(ToSet(Providers) \X Items)
  /\ place \in [query : Nat \ {0}, provider : 1..Len(Providers), page : Nat]
  /\ resolved \subseteq ToSet(Providers)
  /\ sweeping \in {"sweeping", "reported", "raised"}

LEMMA ProviderListed ==
  /\ Len(Providers) \in Nat \ {0}
  /\ \A i \in 1..Len(Providers) : Providers[i] \in ToSet(Providers)
<1>1. Providers \in Seq(ToSet(Providers)) /\ Providers # <<>>
  BY SweepAssumption
<1>2. Len(Providers) \in Nat \ {0} /\ DOMAIN Providers = 1..Len(Providers)
  BY <1>1
<1> QED
  BY <1>2 DEF ToSet

LEMMA EntryTyped ==
  ASSUME SweepTypes, ~Over, NEW network, NEW status, NEW n \in Nat, NEW hashed, NEW outcome,
         Enter(RequestEntry(network, status, n, hashed, outcome))
  PROVE  /\ \E S : requestLedger' \in Seq(S)
         /\ \A i \in DOMAIN requestLedger' : RequestTyped(requestLedger'[i])
<1> DEFINE entry == RequestEntry(network, status, n, hashed, outcome)
<1>1. RequestTyped(entry)
  <2>1. place.query \in Nat \ {0} /\ place.provider \in 1..Len(Providers)
    BY DEF SweepTypes
  <2>2. place.query <= Queries
    BY <2>1, SweepAssumption DEF Over
  <2>3. /\ entry.provider = Providers[place.provider] /\ entry.query = place.query
        /\ entry.bytes = n
    BY DEF RequestEntry
  <2> HIDE DEF entry
  <2> QED
    BY <2>1, <2>2, <2>3, ProviderListed, SweepAssumption DEF RequestTyped
<1>2. Enter(entry)
  OBVIOUS
<1> HIDE DEF entry
<1> PICK S : requestLedger \in Seq(S)
  BY DEF SweepTypes
<1>3. requestLedger \in Seq(S \cup {entry})
  OBVIOUS
<1>4. /\ requestLedger' \in Seq(S \cup {entry})
      /\ \A i \in DOMAIN requestLedger' :
           \/ i \in DOMAIN requestLedger /\ requestLedger'[i] = requestLedger[i]
           \/ requestLedger'[i] = entry
  BY <1>2, <1>3, AppendProperties DEF Enter
<1> QED
  BY <1>1, <1>4 DEF SweepTypes

LEMMA OnwardTyped ==
  ASSUME SweepTypes, NEW more, Onward(more)
  PROVE  place' \in [query : Nat \ {0}, provider : 1..Len(Providers), page : Nat]
<1>1. /\ place = [query |-> place.query, provider |-> place.provider, page |-> place.page]
      /\ place.query \in Nat \ {0} /\ place.provider \in 1..Len(Providers) /\ place.page \in Nat
  BY DEF SweepTypes
<1>2. \/ place' = [query |-> place.query, provider |-> place.provider, page |-> place.page + 1]
      \/ /\ place.provider < Len(Providers)
         /\ place' = [query |-> place.query, provider |-> place.provider + 1, page |-> 1]
      \/ place' = [query |-> place.query + 1, provider |-> 1, page |-> 1]
  BY <1>1 DEF Onward
<1>3. /\ place.page + 1 \in Nat /\ place.query + 1 \in Nat \ {0} /\ 1 \in 1..Len(Providers)
      /\ place.provider < Len(Providers) => place.provider + 1 \in 1..Len(Providers)
  BY <1>1, ProviderListed
<1> QED
  BY <1>1, <1>2, <1>3

LEMMA SweepTypesStay == SweepInv /\ SweepTypes /\ [SweepNext]_sweepVars => SweepTypes'
<1> SUFFICES ASSUME SweepInv, SweepTypes, [SweepNext]_sweepVars PROVE SweepTypes'
  OBVIOUS
<1>r. ASSUME Asking, NEW network, NEW status, NEW n \in Nat, NEW hashed, NEW outcome, NEW more,
             Enter(RequestEntry(network, status, n, hashed, outcome)), Onward(more),
             found' \in Seq(ToSet(Providers) \X Items)
      PROVE  SweepTypes'
  <2>1. ~Over /\ sweeping' = sweeping
    BY <1>r DEF Asking
  <2>2. /\ \E S : requestLedger' \in Seq(S)
        /\ \A i \in DOMAIN requestLedger' : RequestTyped(requestLedger'[i])
    BY <1>r, <2>1, EntryTyped
  <2>3. place' \in [query : Nat \ {0}, provider : 1..Len(Providers), page : Nat]
    BY <1>r, OnwardTyped
  <2>4. resolved' \subseteq ToSet(Providers)
    BY <1>r, ProviderListed DEF Asking, SweepTypes
  <2> QED
    BY <1>r, <2>1, <2>2, <2>3, <2>4 DEF SweepTypes
<1>f. found \in Seq(ToSet(Providers) \X Items)
  BY DEF SweepTypes
<1>1. CASE RefuseRequest
  <2>1. ~Over /\ UNCHANGED <<found, place, resolved, sweeping>>
    BY <1>1 DEF RefuseRequest
  <2>2. /\ \E S : requestLedger' \in Seq(S)
        /\ \A i \in DOMAIN requestLedger' : RequestTyped(requestLedger'[i])
    BY <1>1, <2>1, EntryTyped DEF RefuseRequest
  <2> QED
    BY <2>1, <2>2 DEF SweepTypes
<1>2. CASE TransportFails
  BY <1>2, <1>r, <1>f DEF TransportFails
<1>3. ASSUME NEW n \in Sizes, NotOk(n) PROVE SweepTypes'
  <2>1. n \in Nat
    BY SweepAssumption
  <2> QED
    BY <1>3, <1>r, <1>f, <2>1 DEF NotOk
<1>4. ASSUME NEW n \in Sizes, Malformed(n) PROVE SweepTypes'
  <2>1. n \in Nat
    BY SweepAssumption
  <2> QED
    BY <1>4, <1>r, <1>f, <2>1 DEF Malformed
<1>5. ASSUME NEW n \in Sizes, NEW page \in PagesOf(n), NEW more \in BOOLEAN,
             PageTaken(n, page, more)
      PROVE  SweepTypes'
  <2>1. n \in Nat
    BY SweepAssumption
  <2> DEFINE p == Providers[place.provider]
             items == [i \in DOMAIN page |-> <<p, page[i]>>]
             F == ToSet(Providers) \X Items
  <2>2. p \in ToSet(Providers)
    BY ProviderListed DEF SweepTypes
  <2>3. PICK k \in 0..2 : page \in [1..k -> Items]
    BY DEF PagesOf
  <2> HIDE DEF p
  <2>4. items \in Seq(F)
    <3>1. items \in [1..k -> F]
      BY <2>2, <2>3
    <3> HIDE DEF items, F
    <3> QED
      BY <3>1
  <2>5. found' = Admit(items)
    BY <1>5 DEF PageTaken, p
  <2>6. found' \in Seq(F)
    <3>1. found \in Seq(F) /\ Len(found) <= SweepCandidates /\ Distinct(found)
      BY DEF SweepTypes, SweepInv, RankingChecks
    <3> HIDE DEF items, F
    <3> QED
      BY <2>4, <2>5, <3>1, AdmitKeeps
  <2> HIDE DEF items
  <2> QED
    BY <1>5, <1>r, <2>1, <2>6 DEF PageTaken
<1>6. CASE ResolverRaises \/ ReportSweep \/ UNCHANGED sweepVars
  BY <1>6 DEF SweepTypes, ResolverRaises, ReportSweep, sweepVars
<1> QED
  BY <1>1, <1>2, <1>3, <1>4, <1>5, <1>6 DEF SweepNext

\* An entry of the ledger is of a query and a provider of the policy, and so is a candidate
\* (phase4d/discovery_v2.py:282).
THEOREM SweepTyped == SweepSpec => []SweepTypeOK
<1>1. SweepInit => SweepTypes
  <2> SUFFICES ASSUME SweepInit PROVE SweepTypes
    OBVIOUS
  <2>1. place \in [query : Nat \ {0}, provider : 1..Len(Providers), page : Nat]
    BY ProviderListed DEF SweepInit
  <2> QED
    BY <2>1 DEF SweepInit, SweepTypes
<1>2. SweepTypes => SweepTypeOK
  <2> SUFFICES ASSUME SweepTypes PROVE SweepTypeOK
    OBVIOUS
  <2>1. ToSet(found) \subseteq ToSet(Providers) \X Items
    BY DEF SweepTypes, ToSet
  <2> QED
    BY <2>1 DEF SweepTypes, RequestTyped, SweepTypeOK
<1> QED
  BY <1>1, <1>2, SweepBegins, SweepStep, SweepTypesStay, PTL DEF SweepSpec
-----------------------------------------------------------------------------
Reasons == {"malformed", "offlist", "duplicate", "fanout"}

FollowTypes ==
  records \subseteq DOMAIN origins /\ \A i \in DOMAIN refused : refused[i].reason \in Reasons

LEMMA FollowTypesStay == FollowInv /\ FollowTypes /\ [FollowNext]_followVars => FollowTypes'
<1> SUFFICES ASSUME FollowInv, FollowTypes, [FollowNext]_followVars PROVE FollowTypes'
  OBVIOUS
<1>1. CASE TakeReference
  <2>1. Len(origins) \in Nat /\ DOMAIN origins = 1..Len(origins) /\ next.doc \in 1..(Len(origins) + 1)
    BY DEF FollowInv, FollowPlace
  <2>2. next.doc \in DOMAIN origins
    BY <1>1, <2>1 DEF TakeReference, Within
  <2>3. records' \subseteq DOMAIN origins'
    BY <1>1, <2>2 DEF TakeReference, FollowTypes
  <2>4. CASE Refusal = "none"
    BY <1>1, <2>3, <2>4 DEF TakeReference, FollowTypes
  <2>5. CASE Refusal # "none"
    <3> DEFINE entry == Reference(Refusal)
    <3>1. Refusal \in Reasons
      BY <2>5 DEF Refusal, Reasons
    <3>2. entry.reason \in Reasons
      BY <3>1 DEF Reference
    <3>3. refused' = Append(refused, entry)
      BY <1>1, <2>5 DEF TakeReference
    <3> HIDE DEF entry
    <3> PICK S : refused \in Seq(S)
      BY DEF FollowInv, DecidedSoFar
    <3>4. \A i \in DOMAIN refused' : refused'[i].reason \in Reasons
      <4>1. \A i \in DOMAIN refused' : i \in DOMAIN refused \/ i = Len(refused) + 1
        BY <3>3, OutcomeMore
      <4>2. \A i \in 1..Len(refused) : refused'[i] = refused[i]
        BY <3>3, OutcomeMore
      <4>3. refused'[Len(refused) + 1] = entry /\ DOMAIN refused = 1..Len(refused)
        BY <3>3, OutcomeMore
      <4> QED
        BY <3>2, <4>1, <4>2, <4>3 DEF FollowTypes
    <3> QED
      BY <2>3, <3>4 DEF FollowTypes
  <2> QED
    BY <2>4, <2>5
<1>2. CASE DocumentDone \/ UNCHANGED followVars
  BY <1>2 DEF DocumentDone, followVars, FollowTypes
<1> QED
  BY <1>1, <1>2 DEF FollowNext

\* Records are kept of documents that are there, and a refusal has one of the reasons
\* verify_followed knows (phase4d/following.py:112).
THEOREM FollowTyped == FollowSpec => []FollowTypeOK
<1>1. FollowInit => FollowTypes
  BY DEF FollowInit, FollowTypes
<1>2. FollowTypes => FollowTypeOK
  BY DEF FollowTypes, FollowTypeOK, Reasons
<1> QED
  BY <1>1, <1>2, FollowBegins, FollowStep, FollowTypesStay, PTL DEF FollowSpec
-----------------------------------------------------------------------------
BatchTypes ==
  /\ hostsKnown \subseteq ToSet(Hosts)
  /\ candidateBodies \subseteq DOMAIN urlLedger
  /\ \A i \in candidateBodies : urlLedger[i].outcome = "stored_candidate"
  /\ batching \in {"batching", "reported"}

\* An entry more, of a candidate whose body is handed out or not.
LEMMA BodiesStay ==
  ASSUME BatchInv, BatchTypes, NEW entry, Conclude(entry), hostsKnown' \subseteq ToSet(Hosts),
         \/ UNCHANGED candidateBodies
         \/ candidateBodies' = candidateBodies \cup {Url} /\ entry.outcome = "stored_candidate"
  PROVE  BatchTypes'
<1> PICK S : urlLedger \in Seq(S)
  BY DEF BatchInv
<1> PICK n \in Nat : n = Len(urlLedger) /\ DOMAIN urlLedger = 1..n
  OBVIOUS
<1>1. /\ DOMAIN urlLedger' = 1..(n + 1) /\ urlLedger'[n + 1] = entry
      /\ \A i \in 1..n : urlLedger'[i] = urlLedger[i]
  <2>1. urlLedger \in Seq(S \cup {entry})
    OBVIOUS
  <2> QED
    BY <2>1, AppendProperties DEF Conclude
<1>2. Url = n + 1 /\ n + 1 \in 1..(n + 1) /\ 1..n \subseteq 1..(n + 1)
  BY DEF Url
<1>3. batching' = batching
  BY DEF Conclude
<1> QED
  BY <1>1, <1>2, <1>3 DEF BatchTypes

LEMMA BatchTypesStay == BatchInv /\ BatchTypes /\ [BatchNext]_batchVars => BatchTypes'
<1> SUFFICES ASSUME BatchInv, BatchTypes, [BatchNext]_batchVars PROVE BatchTypes'
  OBVIOUS
<1>0. hostsKnown \subseteq ToSet(Hosts)
  BY DEF BatchTypes
<1>1. CASE RefuseUrl
  BY <1>0, <1>1, BodiesStay DEF RefuseUrl
<1>2. CASE UrlUnresolved
  BY <1>0, <1>2, BodiesStay DEF UrlUnresolved
<1>3. ASSUME AskingUrl PROVE hostsKnown' \subseteq ToSet(Hosts)
  <2>1. Hosts \in Seq(ToSet(Hosts)) /\ Len(urlLedger) \in Nat
    BY BatchAssumption DEF BatchInv
  <2>2. Url \in DOMAIN Hosts
    BY <1>3, <2>1 DEF AskingUrl, Url
  <2>3. Hosts[Url] \in ToSet(Hosts)
    BY <2>2 DEF ToSet
  <2> QED
    BY <1>0, <1>3, <2>3 DEF AskingUrl
<1>4. CASE UrlFails
  BY <1>3, <1>4, BodiesStay DEF UrlFails
<1>5. ASSUME NEW n, NEW status, UrlRefusedBy(status, n) PROVE BatchTypes'
  BY <1>3, <1>5, BodiesStay DEF UrlRefusedBy
<1>6. ASSUME NEW n, UrlStored(n) PROVE BatchTypes'
  <2>1. Outcome(TRUE, 200, n, TRUE, "stored_candidate", "none").outcome = "stored_candidate"
    BY DEF Outcome
  <2> QED
    BY <1>3, <1>6, <2>1, BodiesStay DEF UrlStored
<1>7. CASE ReportBatch \/ UNCHANGED batchVars
  BY <1>7 DEF ReportBatch, batchVars, BatchTypes
<1> QED
  BY <1>1, <1>2, <1>4, <1>5, <1>6, <1>7 DEF BatchNext

\* Every body that is handed out belongs to a request whose entry says it is stored, and
\* no more requests are entered than the plan has (phase4b/batch_acquisition.py:365).
THEOREM BatchTyped == BatchSpec => []BatchTypeOK
<1>1. BatchInit => BatchTypes
  BY DEF BatchInit, BatchTypes
<1>2. BatchInv /\ BatchTypes => BatchTypeOK
  BY DEF BatchInv, BatchTypes, BatchTypeOK
<1> QED
  BY <1>1, <1>2, BatchBegins, BatchStep, BatchTypesStay, PTL DEF BatchSpec
-----------------------------------------------------------------------------
\* No more iterations than the session may have, and none without a record that counts.
LeadBounded ==
  /\ Len(iterations) <= MaxIterations /\ lead.streak <= Len(lead.records)
  /\ leadPc = "start" => Iteration <= MaxIterations
  /\ session.calls \in Nat

LEMMA BoundedStays == LeadInv /\ LeadBounded /\ [LeadNext]_leadVars => LeadBounded'
<1> SUFFICES ASSUME LeadInv, LeadBounded, [LeadNext]_leadVars PROVE LeadBounded'
  OBVIOUS
<1>0. /\ iterations \in Seq(IterationRuns) /\ lead \in Memories /\ lead.records \in Seq(Attempts)
      /\ lead.streak \in Nat /\ Len(lead.records) \in Nat /\ Len(iterations) \in Nat
      /\ MaxIterations \in Nat
  BY LeadFacts DEF LeadInv, LeadShape, Memories
<1>b. /\ Len(iterations) <= MaxIterations /\ lead.streak <= Len(lead.records)
      /\ session.calls \in Nat
  BY DEF LeadBounded
<1>n. NoMemory.records = <<>> /\ NoMemory.streak = 0 /\ Len(<<>>) = 0
  BY DEF NoMemory
<1>s. ASSUME NEW r, SetRun(r) PROVE Len(iterations') = Len(iterations)
  BY <1>0, <1>s DEF SetRun
<1>k. ASSUME Len(iterations') = Len(iterations), UNCHANGED session, leadPc' # "start",
             \/ UNCHANGED lead
             \/ lead' = NoMemory
      PROVE  LeadBounded'
  BY <1>b, <1>k, <1>n DEF LeadBounded
<1>1. CASE Launch \/ LeadDies \/ StartRefused
  BY <1>1, <1>k DEF Launch, LeadDies, StartRefused, GoTo
<1>2. CASE CheckBounds
  <2>1. UNCHANGED <<iterations, session>>
    BY <1>2 DEF CheckBounds
  <2>2. CASE Iteration > MaxIterations \/ ~RoomForIteration
    <3>1. leadPc' = "write" /\ \E reason : lead' = [lead EXCEPT !.reason = reason]
      BY <1>2, <2>2 DEF CheckBounds, Stop, GoTo
    <3>2. lead'.records = lead.records /\ lead'.streak = lead.streak
      BY <1>0, <3>1 DEF Memories
    <3> QED
      BY <1>b, <2>1, <3>1, <3>2 DEF LeadBounded
  <2>3. CASE ~(Iteration > MaxIterations) /\ RoomForIteration
    <3>1. UNCHANGED lead /\ leadPc' = "start"
      BY <1>2, <2>3 DEF CheckBounds, GoTo
    <3>2. Iteration <= MaxIterations
      BY <1>0, <2>3 DEF Iteration
    <3> QED
      BY <1>b, <2>1, <3>1, <3>2 DEF LeadBounded, Iteration
  <2> QED
    BY <2>2, <2>3
<1>3. CASE StartIteration
  <2>1. leadPc' = "half" /\ UNCHANGED <<lead, session>> /\ Iteration <= MaxIterations
    BY <1>3 DEF StartIteration, GoTo, LeadBounded
  <2>2. CASE UNCHANGED iterations
    BY <1>k, <2>1, <2>2
  <2>3. CASE Len(iterations) < Iteration /\ iterations' = Append(iterations, NewRun)
    <3>1. Len(iterations') = Len(iterations) + 1
      <4>1. iterations \in Seq(IterationRuns \cup {NewRun})
        BY <1>0
      <4> QED
        BY <2>3, <4>1, AppendProperties
    <3>2. Len(iterations') <= MaxIterations
      BY <1>0, <2>1, <2>3, <3>1 DEF Iteration
    <3> QED
      BY <1>b, <2>1, <3>2 DEF LeadBounded
  <2> QED
    BY <1>3, <2>2, <2>3 DEF StartIteration
<1>4. ASSUME NEW job \in {"proposer", "verifier"}, Advance(job) PROVE LeadBounded'
  <2>1. UNCHANGED <<lead, session>> /\ leadPc' # "start" /\ \E r : SetRun(r)
    BY <1>4 DEF Advance, GoTo
  <2> QED
    BY <1>k, <1>s, <2>1
<1>5. CASE NothingToDo
  BY <1>5, <1>k DEF NothingToDo, GoTo
<1>6. CASE Look
  <2>1. UNCHANGED <<lead, session>> /\ leadPc' # "start" /\ (UNCHANGED iterations \/ \E r : SetRun(r))
    BY <1>6 DEF Look, GoTo
  <2> QED
    BY <1>k, <1>s, <2>1
<1>7. CASE Close
  <2> PICK a : lead' = [lead EXCEPT !.records = Append(@, a),
                  !.seen = @ \cup {Current.signature}, !.streak = Streak, !.reason = ReasonAfter]
    BY <1>7 DEF Close
  <2>1. lead'.records = Append(lead.records, a) /\ lead'.streak = Streak
    BY <1>0 DEF Memories
  <2>2. Len(lead'.records) = Len(lead.records) + 1
    <3>1. lead.records \in Seq(Attempts \cup {a})
      BY <1>0
    <3> QED
      BY <2>1, <3>1, AppendProperties
  <2>3. Streak <= Len(lead.records) + 1
    BY <1>0, <1>b DEF Streak
  <2>4. leadPc' # "start" /\ UNCHANGED <<iterations, session>>
    BY <1>7 DEF Close, GoTo
  <2> QED
    BY <1>b, <2>1, <2>2, <2>3, <2>4 DEF LeadBounded
<1>8. CASE WriteSession
  <2>1. Told(lead.records) \in Nat
    <3>1. \A i \in 1..Len(lead.records) : lead.records[i] \in Attempts
      BY <1>0
    <3>2. \A i \in 1..Len(lead.records) : lead.records[i].calls \in Nat
      BY <3>1 DEF Attempts
    <3> QED
      BY <1>0, <3>2, ToldType
  <2>2. session'.calls = Told(lead.records)
    BY <1>8 DEF WriteSession
  <2>3. leadPc' = "off" /\ lead' = NoMemory /\ UNCHANGED iterations
    BY <1>8 DEF WriteSession, GoTo
  <2> QED
    BY <1>b, <1>n, <2>1, <2>2, <2>3 DEF LeadBounded
<1>9. ASSUME NEW n \in CallUsage,
             \/ CallFails(n) \/ CallLate(n)
             \/ \E h \in Hypotheses : Proposed(n, h)
             \/ \E s \in Signatures \cup {NoFindings} :
                  \E v \in {"manual_review", "reject", "unresolved_finding"} : Judged(n, v, s)
      PROVE  LeadBounded'
  <2>1. UNCHANGED <<lead, session>> /\ leadPc' # "start" /\ \E r : SetRun(r)
    BY <1>9 DEF CallFails, CallLate, Proposed, Judged, Behind, GoTo
  <2> QED
    BY <1>k, <1>s, <2>1
<1>10. CASE UNCHANGED leadVars
  BY <1>10 DEF leadVars, LeadBounded, Iteration
<1> QED
  BY <1>1, <1>2, <1>3, <1>4, <1>5, <1>6, <1>7, <1>8, <1>9, <1>10 DEF LeadNext

\* A session has no more iterations than configured and none with more calls than an
\* iteration may make, whenever the process died and was started again (runtime/lead.py).
THEOREM LeadTyped == LeadSpec => []LeadTypeOK
<1>1. LeadInit => LeadBounded
  BY LeadFacts DEF LeadInit, NoMemory, LeadBounded
<1>2. LeadInv /\ LeadBounded => LeadTypeOK
  <2> SUFFICES ASSUME LeadInv, LeadBounded PROVE LeadTypeOK
    OBVIOUS
  <2>1. /\ iterations \in Seq(IterationRuns) /\ lead \in Memories /\ lead.records \in Seq(Attempts)
        /\ lead.streak \in Nat /\ Len(lead.records) \in Nat /\ Len(iterations) \in Nat
        /\ \A i \in DOMAIN iterations : Staged(iterations[i]) /\ iterations[i] \in IterationRuns
        /\ Len(lead.records) <= Len(iterations)
    BY DEF LeadInv, LeadShape, Memories
  <2>2. ASSUME NEW i \in DOMAIN iterations
        PROVE  /\ iterations[i].calls \in 0..PerIteration /\ iterations[i].tokens \in Nat
               /\ iterations[i].digest \in Hypotheses \cup {NoHypothesis}
    <3>1. iterations[i].calls \in 0..2
      BY <2>1 DEF Staged, Begun, Proposing, Barren, Handed, Judging, Unjudged, Decided, Repeated
    <3> QED
      BY <2>1, <3>1, LeadFacts DEF IterationRuns
  <2>3. lead.streak \in 0..MaxIterations
    BY <2>1, LeadFacts DEF LeadBounded
  <2>4. leadPc \in {"off", "bounds", "start", "half", "asked", "look", "verify", "asked again",
                    "close", "write"}
    BY DEF LeadInv, BetweenRuns, InRun
  <2> QED
    BY <2>2, <2>3, <2>4 DEF LeadBounded, LeadTypeOK
<1> QED
  BY <1>1, <1>2, LeadBegins, LeadStep, BoundedStays, PTL DEF LeadSpec
-----------------------------------------------------------------------------
SynthesisTypes ==
  /\ Len(rows) <= MaxRecords /\ DOMAIN projection \subseteq Subjects
  /\ mishaps \subseteq {"overlap", "ended_owing"}

LEMMA ViewsAreOfSubjects == ASSUME NEW log PROVE DOMAIN Projected(log) \subseteq Subjects
  BY DEF Projected

LEMMA SynthesisTypesStay ==
  SynthesisInv /\ SynthesisTypes /\ [SynthesisNext]_synthesisVars => SynthesisTypes'
<1> SUFFICES ASSUME SynthesisInv, SynthesisTypes, [SynthesisNext]_synthesisVars
             PROVE  SynthesisTypes'
  OBVIOUS
<1>l. \A w : LeaveWorkspace(w) => mishaps' \subseteq {"overlap", "ended_owing"}
  BY DEF LeaveWorkspace, SynthesisTypes
<1>k. ASSUME UNCHANGED <<rows, projection>>,
             mishaps' \subseteq {"overlap", "ended_owing"}
      PROVE  SynthesisTypes'
  BY <1>k DEF SynthesisTypes
<1>m. mishaps \subseteq {"overlap", "ended_owing"}
  BY DEF SynthesisTypes
<1>1. ASSUME NEW w, OpenWorkspace(w) PROVE SynthesisTypes'
  BY <1>1, <1>k, <1>m DEF OpenWorkspace
<1>2. ASSUME NEW w, VerifyIntegrity(w) \/ SaveVerifiedExport(w) \/ ReplaceOutput(w)
                    \/ CloseWorkspace(w) \/ SessionDies(w)
      PROVE  SynthesisTypes'
  <2>1. UNCHANGED <<rows, projection>> /\ (UNCHANGED mishaps \/ LeaveWorkspace(w))
    BY <1>2 DEF VerifyIntegrity, SaveVerifiedExport, ReplaceOutput, CloseWorkspace, SessionDies
  <2> QED
    BY <1>k, <1>l, <1>m, <2>1
<1>3. ASSUME NEW w, AppendRecord(w) PROVE SynthesisTypes'
  <2>1. /\ UNCHANGED projection
        /\ \/ /\ Len(rows) < MaxRecords /\ UNCHANGED mishaps
              /\ \E row : rows' = Append(rows, row)
           \/ UNCHANGED rows /\ LeaveWorkspace(w)
    BY <1>3 DEF AppendRecord
  <2>2. CASE UNCHANGED rows /\ LeaveWorkspace(w)
    BY <1>k, <1>l, <2>1, <2>2
  <2>3. ASSUME Len(rows) < MaxRecords, UNCHANGED mishaps, NEW row, rows' = Append(rows, row)
        PROVE  SynthesisTypes'
    <3>1. rows \in Seq(Row \cup {row}) /\ Len(rows) \in Nat
      BY DEF SynthesisInv, History
    <3>2. Len(rows') = Len(rows) + 1
      BY <2>3, <3>1, AppendProperties
    <3>3. Len(rows') <= MaxRecords
      BY <2>3, <3>1, <3>2, SynthesisAssumption
    <3> QED
      BY <2>1, <2>3, <3>3 DEF SynthesisTypes
  <2> QED
    BY <2>1, <2>2, <2>3
<1>4. ASSUME NEW w, RebuildAdmissionProjection(w) PROVE SynthesisTypes'
  BY <1>4, ViewsAreOfSubjects DEF RebuildAdmissionProjection, SynthesisTypes
<1>5. ASSUME NEW w, ReadForRebuild(w) \/ BeginExport(w) \/ ReadRecords(w) \/ WriteTemporary(w)
      PROVE  SynthesisTypes'
  BY <1>5, <1>k, <1>m DEF ReadForRebuild, BeginExport, ReadRecords, WriteTemporary
<1>6. CASE UNCHANGED synthesisVars
  BY <1>6, <1>k, <1>m DEF synthesisVars
<1> QED
  BY <1>1, <1>2, <1>3, <1>4, <1>5, <1>6 DEF SynthesisNext

\* The log stays within its ceiling and a session that owes a rebuild is inside
\* (synthesis/workspace.py:450).
THEOREM SynthesisTyped == SynthesisSpec => []SynthesisTypeOK
<1>1. SynthesisInit => SynthesisTypes
  BY ViewsAreOfSubjects, SynthesisAssumption DEF SynthesisInit, SynthesisTypes
<1>2. SynthesisInv /\ SynthesisTypes => SynthesisTypeOK
  <2> SUFFICES ASSUME SynthesisInv, SynthesisTypes PROVE SynthesisTypeOK
    OBVIOUS
  <2>1. \A i \in DOMAIN rows : rows[i] \in Row
    BY DEF SynthesisInv, History
  <2>2. \A i \in DOMAIN rows : rows[i].entry \in Entries /\ rows[i].at \in Instants
    BY <2>1 DEF Row
  <2> QED
    BY <2>2 DEF SynthesisInv, History, SynthesisTypes, SynthesisTypeOK
<1> QED
  BY <1>1, <1>2, SynthesisBegins, SynthesisStep, SynthesisTypesStay, PTL DEF SynthesisSpec
-----------------------------------------------------------------------------
\* What an artifact holds, and one manifest.
Files == {Torn} \cup {Whole(v) : v \in Vectors}
PartitionFiles ==
  /\ artifacts \in [Corpus -> SUBSET Files]
  /\ manifest = {} \/ \E file : manifest = {file}

\* A process at its files puts one in its place that may be there.
LEMMA PutTyped ==
  ASSUME PartitionInv, PartitionFiles, NEW i \in Embedders, ingestion[i].at \in Storing,
         NEW file \in {Torn, FileWanted(i)}, Put(i, file)
  PROVE  PartitionFiles'
<1>1. CASE ArtifactNext(i)
  <2>1. ingestion[i] \in Tasks /\ Rightful(ingestion[i])
    BY DEF PartitionInv, Permissions, Embedders
  <2>2. ingestion[i].left \in SUBSET Corpus /\ ingestion[i].left # {}
    BY <1>1, <2>1 DEF ArtifactNext, Tasks
  <2>3. PICK d \in ingestion[i].left : d = FirstOf(ingestion[i].left)
    BY <2>2, FirstIs
  <2>4. ingestion[i].vectors[d] \in Vectors
    <3>1. PICK D \in SUBSET Corpus : ingestion[i].vectors \in [D -> Vectors]
      BY <2>1 DEF Tasks
    <3>2. d \in D
      BY <2>1, <2>3, <3>1 DEF Rightful
    <3> QED
      BY <3>1, <3>2
  <2>5. FileWanted(i) \in Files
    BY <1>1, <2>3, <2>4 DEF FileWanted, Files
  <2>6. file \in Files
    BY <2>5 DEF Files
  <2>7. artifacts' = [artifacts EXCEPT ![d] = {file}] /\ UNCHANGED manifest
    BY <1>1, <2>3 DEF Put
  <2> QED
    BY <2>6, <2>7 DEF PartitionFiles
<1>2. CASE ~ArtifactNext(i)
  BY <1>2 DEF Put, PartitionFiles
<1> QED
  BY <1>1, <1>2

LEMMA FilesStay == PartitionInv /\ PartitionFiles /\ [PartitionNext]_partitionVars => PartitionFiles'
<1> SUFFICES ASSUME PartitionInv, PartitionFiles, [PartitionNext]_partitionVars
             PROVE  PartitionFiles'
  OBVIOUS
<1>k. ASSUME UNCHANGED <<artifacts, manifest>> PROVE PartitionFiles'
  BY <1>k DEF PartitionFiles
<1>1. ASSUME NEW i \in Ingestions, CreateFile(i) \/ FillFile(i) PROVE PartitionFiles'
  <2>1. i \in Embedders /\ ingestion[i].at \in Storing
    BY <1>1 DEF CreateFile, FillFile, Embedders, Storing
  <2>2. \E file \in {Torn, FileWanted(i)} : Put(i, file)
    BY <1>1 DEF CreateFile, FillFile
  <2> QED
    BY <2>1, <2>2, PutTyped
<1>2. ASSUME NEW i \in Ingestions,
             \/ BeginIngestion(i) \/ RequireRights(i) \/ EmbedDocument(i) \/ LookAtFile(i)
             \/ LoadPartition(i) \/ IngestionDies(i)
      PROVE  PartitionFiles'
  BY <1>2, <1>k DEF BeginIngestion, RequireRights, EmbedDocument, LookAtFile, LoadPartition,
                    IngestionDies
<1>3. CASE WithdrawRights \/ UNCHANGED partitionVars
  BY <1>3, <1>k DEF WithdrawRights, partitionVars
<1> QED
  BY <1>1, <1>2, <1>3 DEF PartitionNext

\* A document's file is torn or holds one vector a provider answered, and there is one
\* manifest at most, however many ingestions write (embedding/partition.py:660).
THEOREM PartitionTyped == PartitionSpec => []PartitionTypeOK
<1>1. PartitionInit => PartitionFiles
  BY DEF PartitionInit, PartitionFiles
<1>2. PartitionInv /\ PartitionFiles => PartitionTypeOK
  <2> SUFFICES ASSUME PartitionInv, PartitionFiles PROVE PartitionTypeOK
    OBVIOUS
  <2>1. Cardinality(manifest) <= 1
    <3>1. CASE manifest = {}
      BY <3>1, FS_EmptySet
    <3>2. ASSUME NEW file, manifest = {file} PROVE Cardinality(manifest) <= 1
      <4>1. Cardinality({file}) = 1
        BY FS_Singleton
      <4> QED
        BY <3>2, <4>1
    <3> QED
      BY <3>1, <3>2 DEF PartitionFiles
  <2>2. ASSUME NEW i \in Ingestions
        PROVE  ingestion[i].at \in {"new", "checking rights", "embedding", "writing", "creating",
                                    "filling", "loading", "over"}
    BY DEF PartitionInv, Permissions, Embedders, Tasks, Storing
  <2> QED
    BY <2>1, <2>2 DEF PartitionInv, Permissions, PartitionFiles, Files, PartitionTypeOK
<1> QED
  BY <1>1, <1>2, PartitionBegins, PartitionStep, FilesStay, PTL DEF PartitionSpec
-----------------------------------------------------------------------------
\* What each of the ten services keeps has its shape and its bounds, for any constants
\* their assumptions allow (the state of corpus_service, phase3b, phase4b, phase4d,
\* runtime, synthesis, embedding and the baseline loop).
THEOREM ServicesTyped ==
  /\ StoreSpec /\ FetchSpec /\ LoopSpec /\ BridgeSpec /\ SweepSpec
  /\ FollowSpec /\ BatchSpec /\ LeadSpec /\ SynthesisSpec /\ PartitionSpec
  => []ServicesTypeOK
<1>1. /\ StoreTypeOK /\ FetchTypeOK /\ LoopTypeOK /\ BridgeTypeOK
      /\ SweepTypeOK /\ FollowTypeOK /\ BatchTypeOK /\ LeadTypeOK
      /\ SynthesisTypeOK /\ PartitionTypeOK
      => ServicesTypeOK
  BY DEF ServicesTypeOK
<1> QED
  BY StoreTyped, FetchTyped, LoopTyped, BridgeTyped, SweepTyped, FollowTyped, BatchTyped,
     LeadTyped, SynthesisTyped, PartitionTyped, <1>1, PTL
=============================================================================
