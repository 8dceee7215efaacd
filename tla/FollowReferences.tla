--------------------------- MODULE FollowReferences ---------------------------
(***************************************************************************)
(* phase4d/following.py: follow_references, which enqueues the references  *)
(* of acquired documents as candidates, reference by reference, and        *)
(* verify_followed, which rechecks the record it returns.                  *)
(*                                                                         *)
(* A reference is its target, Unreadable when no URL can be made of it.    *)
(* Documents are valid, distinct and bound to their acquisition records:   *)
(* one that is not raises before anything is returned.                     *)
(***************************************************************************)
EXTENDS Integers, Sequences, FiniteSets, Sums

CONSTANTS
  Targets,       \* URLs references may name
  Unreadable,
  OnList,        \* the targets whose host is on the allowlist
  References,    \* the choices of references, one sequence per document
  MaxFollowed    \* max_followed_per_run

ASSUME FollowAssumption ==
  /\ OnList \subseteq Targets /\ Unreadable \notin Targets /\ MaxFollowed \in Nat \ {0}
  /\ \A choice \in References : choice \in Seq(Seq(Targets \cup {Unreadable}))

VARIABLES
  origins,       \* the references of each document
  next,          \* the document and reference that come next
  records,       \* documents whose acquisition record is kept
  followed, refused   \* outcomes: [doc, index, target, reason]

followVars == <<origins, next, records, followed, refused>>

FollowInit ==
  /\ origins \in References /\ next = [doc |-> 1, index |-> 1]
  /\ records = {} /\ followed = <<>> /\ refused = <<>>
-----------------------------------------------------------------------------
Within == next.doc <= Len(origins) /\ next.index <= Len(origins[next.doc])
Target == origins[next.doc][next.index]
SeenUrls == {followed[i].target : i \in DOMAIN followed}

Reference(reason) ==
  [doc |-> next.doc, index |-> next.index, target |-> Target, reason |-> reason]

\* Slip: the bound is looked at before the duplicates, and the target kept out of it.
RefusalUnseen ==
  CASE Target = Unreadable -> "malformed"
    [] Target \notin OnList -> "offlist"
    [] Len(followed) >= MaxFollowed -> "fanout"
    [] OTHER -> "none"

\* The first check that refuses decides the reason.
Refusal ==
  CASE Target = Unreadable -> "malformed"
    [] Target # Unreadable /\ Target \notin OnList -> "offlist"
    [] Target \in OnList /\ Target \in SeenUrls -> "duplicate"
    [] Target \in OnList \ SeenUrls /\ Len(followed) >= MaxFollowed -> "fanout"
    [] OTHER -> "none"

TakeReference ==
  /\ Within
  /\ records' = records \cup {next.doc}
  /\ IF Refusal = "none"
     THEN followed' = Append(followed, Reference("none")) /\ UNCHANGED refused
     ELSE refused' = Append(refused, Reference(Refusal)) /\ UNCHANGED followed
  /\ next' = [next EXCEPT !.index = @ + 1] /\ UNCHANGED origins

DocumentDone ==
  /\ ~Within /\ next.doc <= Len(origins)
  /\ next' = [doc |-> next.doc + 1, index |-> 1]
  /\ UNCHANGED <<origins, records, followed, refused>>

FollowNext == TakeReference \/ DocumentDone
FollowSpec == FollowInit /\ [][FollowNext]_followVars
-----------------------------------------------------------------------------
\* What verify_followed asks of the record.
FollowVerifies ==
  /\ Len(followed) <= MaxFollowed
  /\ \A i \in DOMAIN followed : followed[i].target \in OnList
  /\ \A i, j \in DOMAIN followed : followed[i].target = followed[j].target => i = j
  /\ records = {followed[i].doc : i \in DOMAIN followed}
                 \cup {refused[i].doc : i \in DOMAIN refused}

FollowTypeOK ==
  /\ records \subseteq DOMAIN origins
  /\ \A i \in DOMAIN refused : refused[i].reason \in {"malformed", "offlist", "duplicate", "fanout"}

\* The record of any documents passes verify_followed, no reference is dropped, and one
\* refused for the bound would have been followed without it (following.py:112-214).
FollowChecksOut ==
  next.doc > Len(origins) =>
    /\ FollowVerifies
    /\ Len(followed) + Len(refused) = Tally([d \in DOMAIN origins |-> Len(origins[d])])
    /\ \A i \in DOMAIN refused : refused[i].reason = "fanout" =>
         /\ Len(followed) = MaxFollowed
         /\ refused[i].target \in OnList \ SeenUrls
=============================================================================
