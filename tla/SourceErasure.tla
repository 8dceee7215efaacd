------------------------------ MODULE SourceErasure ------------------------------
(***************************************************************************)
(* The rights and content store (phase4a) seen from one source: an         *)
(* append-only log of rights decisions, provenance, evidence cards and     *)
(* lifecycle actions in SQLite, the source's row beside it, its bytes in   *)
(* a directory of their own, and the erasure that a deletion request       *)
(* starts and a later open finishes.  An opener is a process that opens    *)
(* the store, which verifies all of it, and then acts; several may be      *)
(* open at once, an effect on the disk may fail, and a process may die.    *)
(* Revocation, takedown and suppression act alike and are one action, and  *)
(* the uses a decision may be about are one use.                           *)
(***************************************************************************)
EXTENDS Naturals, FiniteSets, Sequences

CONSTANTS Openers,             \* processes
          Asked,               \* the decisions and lifecycle actions callers append
          Moments,             \* the instants callers record them at
          MaxRows,             \* MAX_RECORDS, the ceiling on records
          MaxActs,             \* bound: what a process does while it has the store open
          MaxTroubles          \* deaths and failed effects on the disk

Rights == {"allowed", "prohibited"}
Lifecycle == {"takedown", "restore", "hold", "release", "request", "completion"}

\* service.py:312: a completion is appended by the deletion alone; what is there at the start fits.
ASSUME ErasureAssumption ==
  /\ 0 \notin Moments /\ Moments \subseteq Nat
  /\ Asked \subseteq (Rights \cup Lifecycle) \ {"completion"}
  /\ MaxRows \in Nat /\ MaxRows >= 3

Suppressing == {"takedown", "request", "completion"}

\* Slip: only a completion closes the lifecycle.
SealedWhenCompleted == {"completed"}

Sealed == {"removing", "completed"}
Awaiting == {"requested", "removing"}

VARIABLES audit,               \* phase4_records: kind, lifecycle predecessor, instant
          erasure,             \* deletion_state, "none" before the source has a row
          retained,            \* content_retained
          object,              \* its directories: the active one, the one being deleted
          bytes,               \* the active directory holds source.bin
          cards,               \* evidence cards in the active directory
          drafts,              \* openers whose temporary file exists
          opener,              \* what each process does and has read
          acts,                \* how much each process has done
          troubles,            \* deaths and failed effects so far
          wedges               \* history: what may keep the store from opening

erasureVars == <<audit, erasure, retained, object, bytes, cards, drafts, opener,
                 acts, troubles, wedges>>
contentVars == <<object, bytes, cards, drafts>>

Kinds(set) == {i \in DOMAIN audit : audit[i].kind \in set}
LastAt(positions) ==
  IF positions = {} THEN 0 ELSE CHOOSE i \in positions : \A j \in positions : j <= i

\* A hold lasts until it is released; a source stays suppressed unless a restore came
\* after, of a source still active.
OnHold == LastAt(Kinds({"hold"})) > LastAt(Kinds({"release"}))
Suppressed ==
  LET restores == IF retained /\ erasure = "active" THEN Kinds({"restore"}) ELSE {}
  IN  LastAt(Kinds(Suppressing)) > LastAt(restores)

\* evaluate_rights and require_rights: nobody asked for its deletion, its last lifecycle
\* action restores it if any blocks it, and the last decision allows the use.
Permitted ==
  /\ Kinds({"request", "completion"}) = {}
  /\ Kinds({"takedown"}) = {} \/ LastAt(Kinds({"restore"})) = LastAt(Kinds(Lifecycle))
  /\ Kinds(Rights) # {} /\ audit[LastAt(Kinds(Rights))].kind = "allowed"
  /\ erasure # "none" => ~Suppressed /\ retained

\* Every lifecycle action follows the one before it and is not older, and a completion
\* answers a request while no hold is in force (_validate_lifecycle_chain).
Chained ==
  \A i \in Kinds(Lifecycle) :
    LET before(set) == LastAt({j \in Kinds(set) : j < i}) IN
    /\ audit[i].previous = before(Lifecycle)
    /\ \A j \in Kinds(Lifecycle) : j < i => audit[j].instant <= audit[i].instant
    /\ audit[i].kind = "completion" =>
         /\ before({"request"}) > before({"completion"})
         /\ before({"hold"}) <= before({"release"})

\* What every open verifies (_verify_durable_integrity_with).
Intact ==
  /\ Chained
  /\ drafts = {}
  /\ Cardinality(Kinds({"provenance"})) = (IF erasure = "none" THEN 0 ELSE 1)
  /\ Cardinality(Kinds({"completion"})) = (IF erasure = "completed" THEN 1 ELSE 0)
  /\ erasure \in Awaiting \cup {"incomplete", "completed"} => Kinds({"request"}) # {}
  /\ erasure \in {"active", "requested"} => object = {"active"}
  /\ erasure = "active" => retained
  /\ erasure = "completed" => object = {} /\ ~retained
  /\ "active" \in object =>
       object = {"active"} /\ erasure # "none" /\ bytes /\ cards = Cardinality(Kinds({"card"}))
  /\ "deleting" \in object => object = {"deleting"} /\ erasure = "removing"

ErasureInit ==
  /\ \E taken \in BOOLEAN, asked \in BOOLEAN :
       LET row(kind, moment) == [kind |-> kind, previous |-> 0, instant |-> moment] IN
       /\ audit = <<row("allowed", 0)>> \o (IF taken THEN <<row("provenance", 0)>> ELSE << >>)
                     \o (IF asked THEN <<row("request", 1)>> ELSE << >>)
       /\ asked => taken
       /\ erasure = IF asked THEN "requested" ELSE IF taken THEN "active" ELSE "none"
       /\ retained = taken /\ bytes = taken
       /\ object = IF taken THEN {"active"} ELSE {}
  /\ cards = 0
  /\ drafts = {}
  /\ opener = [o \in Openers |-> [at |-> "closed"]]
  /\ acts = [o \in Openers |-> 0]
  /\ troubles = 0
  /\ wedges = {}

Goes(o, state) == opener' = [opener EXCEPT ![o] = state]
Proceed(o, at) == opener' = [opener EXCEPT ![o].at = at]
Builds(o, kind, previous, moment) ==
  Goes(o, [at |-> "build", kind |-> kind, previous |-> previous, instant |-> moment])
MayAct(o) == opener[o].at = "idle" /\ acts[o] < MaxActs
Acts(o) == acts' = [acts EXCEPT ![o] = @ + 1]
\* Who has not acted yet comes from the reconciliation, and verifies once more.
Rest(o) == Goes(o, [at |-> IF acts[o] = 0 THEN "verifying" ELSE "idle"])
EmptyObject == object' = {} /\ bytes' = FALSE /\ cards' = 0

\* An open that finds the store intact reconciles a pending deletion before anything else.
OpenStore(o) ==
  /\ opener[o].at = "closed" /\ Intact
  /\ Goes(o, [at |-> IF erasure \in Awaiting THEN "reconcile" ELSE "verifying"])
  /\ UNCHANGED <<audit, erasure, retained, contentVars, troubles, wedges, acts>>

VerifyDurableIntegrity(o) ==
  /\ opener[o].at = "verifying"
  /\ Goes(o, [at |-> IF Intact THEN "idle" ELSE "over"])
  /\ UNCHANGED <<audit, erasure, retained, contentVars, troubles, wedges, acts>>

CloseStore(o) ==
  /\ opener[o].at = "idle"
  /\ Goes(o, [at |-> "over"])
  /\ UNCHANGED <<audit, erasure, retained, contentVars, troubles, wedges, acts>>

(***************************************************************************)
(* Appending: the caller reads the last record of its chain, then the next *)
(* sequence, and a transaction accepts the record if both still fit.       *)
(***************************************************************************)
BeginAppend(o) ==
  /\ MayAct(o)
  /\ \/ \E kind \in Asked \cap Rights : Builds(o, kind, 0, 0)
     \/ /\ erasure # "none"
        /\ \E kind \in Asked \cap Lifecycle, moment \in Moments :
             /\ \A i \in Kinds(Lifecycle) : audit[i].instant <= moment
             /\ Builds(o, kind, LastAt(Kinds(Lifecycle)), moment)
  /\ Acts(o)
  /\ UNCHANGED <<audit, erasure, retained, contentVars, troubles, wedges>>

NumberRecord(o) ==
  /\ opener[o].at = "build"
  /\ Goes(o, [at |-> "append", kind |-> opener[o].kind, previous |-> opener[o].previous,
                instant |-> opener[o].instant, sequence |-> Len(audit)])
  /\ UNCHANGED <<audit, erasure, retained, contentVars, troubles, wedges, acts>>

Fits(o) == Len(audit) < MaxRows /\ opener[o].sequence = Len(audit)

AppendWith(o) ==
  audit' = Append(audit, [kind |-> opener[o].kind, previous |-> opener[o].previous,
                          instant |-> opener[o].instant])

BeingRemoved == \E o \in Openers : opener[o].at \in {"rename", "remove"}

Ask(o) ==
  IF opener[o].kind = "request" THEN erasure' = "requested" ELSE UNCHANGED erasure

AppendDecided(o) ==
  /\ opener[o].at = "append" /\ opener[o].kind \in Asked
  /\ IF Fits(o) /\ (opener[o].kind \in Lifecycle => erasure \notin Sealed)
     THEN /\ AppendWith(o) /\ Ask(o)
          /\ wedges' = wedges
               \cup (IF opener[o].kind \in Lifecycle
                        /\ opener[o].previous # LastAt(Kinds(Lifecycle))
                     THEN {"broken_chain"} ELSE {})
               \cup (IF opener[o].kind = "request" /\ (object # {"active"} \/ BeingRemoved)
                     THEN {"asked_again_late"} ELSE {})
     ELSE UNCHANGED <<audit, erasure, wedges>>
  /\ Rest(o)
  /\ UNCHANGED <<retained, contentVars, troubles, acts>>

(***************************************************************************)
(* Intake: the rights, then the bytes, then the record of where they came  *)
(* from; a record that is refused takes the bytes with it.                 *)
(***************************************************************************)
BeginIntake(o) ==
  /\ MayAct(o) /\ Permitted /\ object = {}
  /\ Goes(o, [at |-> "make"])
  /\ Acts(o)
  /\ UNCHANGED <<audit, erasure, retained, contentVars, troubles, wedges>>

\* The directory may have been made by another since: mkdir accepts it.
MakeObject(o) ==
  /\ opener[o].at = "make"
  /\ object' = object \cup {"active"}
  /\ drafts' = drafts \cup {o}
  /\ Goes(o, [at |-> "write"])
  /\ UNCHANGED <<audit, erasure, retained, bytes, cards, troubles, wedges, acts>>

\* The temporary file is linked in place, once; who finds the place taken, or the
\* directory gone, removes the directory it opened.
PublishSource(o) ==
  /\ opener[o].at = "write"
  /\ drafts' = drafts \ {o}
  /\ IF "active" \in object /\ ~bytes
     THEN /\ bytes' = TRUE
          /\ Builds(o, "provenance", 0, 0)
          /\ UNCHANGED <<object, cards, wedges>>
     ELSE /\ EmptyObject /\ Rest(o)
          /\ wedges' = wedges \cup {"intakes_collided"}
  /\ UNCHANGED <<audit, erasure, retained, troubles, acts>>

AppendProvenance(o) ==
  /\ opener[o].at = "append" /\ opener[o].kind = "provenance"
  /\ IF Fits(o) /\ erasure = "none"
     THEN /\ AppendWith(o)
          /\ erasure' = "active" /\ retained' = TRUE
          /\ UNCHANGED <<object, bytes, cards, wedges>>
     ELSE /\ EmptyObject
          /\ wedges' = IF erasure = "none" THEN wedges ELSE wedges \cup {"intakes_collided"}
          /\ UNCHANGED <<audit, erasure, retained>>
  /\ Rest(o)
  /\ UNCHANGED <<drafts, troubles, acts>>

(***************************************************************************)
(* An evidence card: rights, the bytes it quotes and the next sequence,    *)
(* the card's file beside them, then its record; a record that is refused  *)
(* takes the file with it.                                                 *)
(***************************************************************************)
BeginCard(o) ==
  /\ MayAct(o) /\ erasure # "none" /\ Permitted
  /\ Goes(o, [at |-> "quote"])
  /\ Acts(o)
  /\ UNCHANGED <<audit, erasure, retained, contentVars, troubles, wedges>>

QuoteSource(o) ==
  /\ opener[o].at = "quote"
  /\ IF bytes THEN Goes(o, [at |-> "card", sequence |-> Len(audit)]) ELSE Rest(o)
  /\ UNCHANGED <<audit, erasure, retained, contentVars, troubles, wedges, acts>>

PutCard(o) ==
  /\ opener[o].at = "card"
  /\ IF bytes
     THEN /\ cards' = cards + 1
          /\ Goes(o, [at |-> "append", kind |-> "card", previous |-> 0, instant |-> 0,
                        sequence |-> opener[o].sequence])
     ELSE UNCHANGED cards /\ Rest(o)
  /\ UNCHANGED <<audit, erasure, retained, object, bytes, drafts, troubles, wedges, acts>>

AppendCard(o) ==
  /\ opener[o].at = "append" /\ opener[o].kind = "card"
  /\ IF Fits(o) THEN AppendWith(o) /\ UNCHANGED cards
     ELSE /\ cards' = IF cards > 0 THEN cards - 1 ELSE 0
          /\ UNCHANGED audit
  /\ Rest(o)
  /\ UNCHANGED <<erasure, retained, object, bytes, drafts, troubles, wedges, acts>>

(***************************************************************************)
(* complete_deletion: no hold, then the removal begins, the directory is   *)
(* renamed and removed, its absence verified and the completion appended,  *)
(* recorded at the instant of the request that was read first.  What fails *)
(* on the way leaves the deletion incomplete.                              *)
(***************************************************************************)
CompleteDeletion(o) ==
  /\ \/ opener[o].at = "reconcile" /\ UNCHANGED acts
     \/ MayAct(o) /\ Acts(o)
  /\ IF erasure \in Awaiting /\ ~OnHold
     THEN Goes(o, [at |-> "begin", instant |-> audit[LastAt(Kinds({"request"}))].instant])
     ELSE opener[o].at = "reconcile" /\ Rest(o)
  /\ UNCHANGED <<audit, erasure, retained, contentVars, troubles, wedges>>

BeginRemoval(o) ==
  /\ opener[o].at = "begin"
  /\ IF erasure \in Awaiting
     THEN /\ erasure' = "removing" /\ Proceed(o, "rename")
          /\ wedges' = IF OnHold THEN wedges \cup {"hold_overtaken"} ELSE wedges
     ELSE UNCHANGED <<erasure, wedges>> /\ Rest(o)
  /\ UNCHANGED <<audit, retained, contentVars, troubles, acts>>

RenameObject(o) ==
  /\ opener[o].at = "rename"
  /\ IF "active" \in object
     THEN /\ object' = {"deleting"} /\ bytes' = FALSE /\ cards' = 0
          /\ wedges' = IF erasure = "removing" THEN wedges ELSE wedges \cup {"half_removed"}
     ELSE UNCHANGED <<object, bytes, cards, wedges>>
  /\ Proceed(o, IF object = {} THEN "verify" ELSE "remove")
  /\ UNCHANGED <<audit, erasure, retained, drafts, troubles, acts>>

\* Another that removes the same directory may take it from under this one.
RemoveTree(o) ==
  /\ opener[o].at = "remove"
  /\ object' = object \ {"deleting"}
  /\ \/ Proceed(o, "verify")
     \/ "deleting" \notin object /\ Proceed(o, "failed")
  /\ UNCHANGED <<audit, erasure, retained, bytes, cards, drafts, troubles, wedges, acts>>

RemovalFails(o) ==
  /\ opener[o].at \in {"rename", "remove"} /\ object # {}
  /\ troubles < MaxTroubles /\ troubles' = troubles + 1
  /\ Proceed(o, "failed")
  /\ UNCHANGED <<audit, erasure, retained, contentVars, wedges, acts>>

VerifySourceAbsent(o) ==
  /\ opener[o].at = "verify"
  /\ IF object = {} /\ drafts = {}
     THEN Builds(o, "completion", LastAt(Kinds(Lifecycle)), opener[o].instant)
     ELSE Proceed(o, "failed")
  /\ UNCHANGED <<audit, erasure, retained, contentVars, troubles, wedges, acts>>

AppendDeletionCompletion(o) ==
  /\ opener[o].at = "append" /\ opener[o].kind = "completion"
  /\ IF /\ object = {} /\ drafts = {} /\ Fits(o)
        /\ erasure = "removing" /\ Kinds({"completion"}) = {}
     THEN /\ AppendWith(o) /\ erasure' = "completed" /\ retained' = FALSE /\ Rest(o)
          /\ wedges' = IF \E i \in Kinds(Lifecycle) : audit[i].instant > opener[o].instant
                       THEN wedges \cup {"backdated"} ELSE wedges
     ELSE Proceed(o, "failed") /\ UNCHANGED <<audit, erasure, retained, wedges>>
  /\ UNCHANGED <<contentVars, troubles, acts>>

RecordDeletionFailure(o) ==
  /\ opener[o].at = "failed"
  /\ IF erasure = "removing"
     THEN /\ erasure' = "incomplete" /\ retained' = (object # {})
          /\ wedges' = IF "deleting" \in object THEN wedges \cup {"half_removed"} ELSE wedges
     ELSE UNCHANGED <<erasure, retained, wedges>>
  /\ Rest(o)
  /\ UNCHANGED <<audit, contentVars, troubles, acts>>

\* A process dies; between the bytes of a source or a card and their record it leaves
\* them behind without one.
Storing(o) ==
  \/ opener[o].at = "write"
  \/ opener[o].at \in {"build", "append"} /\ opener[o].kind \in {"provenance", "card"}

OpenerDies(o) ==
  /\ opener[o].at \notin {"closed", "over"}
  /\ troubles < MaxTroubles /\ troubles' = troubles + 1
  /\ Goes(o, [at |-> "over"])
  /\ wedges' = IF Storing(o) THEN wedges \cup {"died_storing"} ELSE wedges
  /\ UNCHANGED <<audit, erasure, retained, contentVars, acts>>

ErasureNext ==
  \E o \in Openers :
    \/ OpenStore(o) \/ VerifyDurableIntegrity(o) \/ CloseStore(o)
    \/ BeginAppend(o) \/ NumberRecord(o) \/ AppendDecided(o)
    \/ BeginIntake(o) \/ MakeObject(o) \/ PublishSource(o) \/ AppendProvenance(o)
    \/ BeginCard(o) \/ QuoteSource(o) \/ PutCard(o) \/ AppendCard(o)
    \/ CompleteDeletion(o) \/ BeginRemoval(o) \/ RenameObject(o) \/ RemoveTree(o)
    \/ RemovalFails(o) \/ VerifySourceAbsent(o) \/ AppendDeletionCompletion(o)
    \/ RecordDeletionFailure(o) \/ OpenerDies(o)

ErasureSpec == ErasureInit /\ [][ErasureNext]_erasureVars

-----------------------------------------------------------------------------

\* Records, the source's row, its object and the processes have their shape.
ErasureTypeOK ==
  /\ Len(audit) <= MaxRows
  /\ \A i \in DOMAIN audit :
       audit[i].kind \in Rights \cup Lifecycle \cup {"provenance", "card"}
  /\ erasure \in {"none", "active", "incomplete", "completed"} \cup Awaiting
  /\ object \subseteq {"active", "deleting"} /\ (bytes => "active" \in object)
  /\ cards \in Nat /\ retained \in BOOLEAN
  /\ drafts \subseteq Openers

\* A store nobody is in opens again, unless one of the named wedges happened: a process
\* died between bytes and their record, two took in one source together, an action was
\* appended behind a predecessor that was no longer the last, a hold came between the
\* check for one and the removal, a removal failed half way or went on after another had
\* given it up, a deletion whose bytes are gone was asked for again, or a completion, which takes the instant of its request,
\* came after an action recorded later (phase4a/workspace.py:348).
StoreReopens ==
  (\A o \in Openers : opener[o].at \in {"closed", "over"}) /\ wedges = {} => Intact

\* While anything runs: an active source has its bytes, unless two took it in together; a
\* completion is the only one, leaves no right to use the source, and its bytes come back
\* only with an intake permitted before, which is refused later or dies; and the bytes of
\* a source are never missing unnoticed (phase4a/service.py:330, workspace.py:242).
ErasureHonest ==
  /\ erasure = "active" /\ "intakes_collided" \notin wedges => bytes /\ retained
  /\ Cardinality(Kinds({"completion"})) = (IF erasure = "completed" THEN 1 ELSE 0)
  /\ erasure = "completed" => ~retained /\ ~Permitted
  /\ erasure = "completed" /\ bytes =>
       "died_storing" \in wedges \/ \E o \in Openers : Storing(o)
  /\ erasure \in {"active", "requested"} /\ object = {} =>
       wedges \cap {"asked_again_late", "intakes_collided"} # {}

\* The three together, for the runs (phase4a/service.py:330, workspace.py:348).
ErasureSound == ErasureTypeOK /\ StoreReopens /\ ErasureHonest
=============================================================================
