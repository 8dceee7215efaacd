--------------------------- MODULE CandidateLifecycle ---------------------------
(***************************************************************************)
(* phase4b/service.py over phase4b/workspace.py and its content store: the *)
(* candidates of one source, from acquisition over parsing to their        *)
(* invalidation.  A process opens the store, which reconciles the retained *)
(* bytes with the records, and runs one operation; processes may run       *)
(* beside each other and die between any two transactions or file          *)
(* operations.                                                             *)
(*                                                                         *)
(* A record is named by what it says, and the projection is what the       *)
(* records say (every append rebuilds it in its own transaction).  Reads   *)
(* in a row that no write separates are one step.  The right "storage"     *)
(* stands for the rights to acquire and to retain.                         *)
(***************************************************************************)
EXTENDS Naturals, Sequences, SequencesExt

CONSTANTS
  Parties,          \* processes
  Bodies,           \* what the network may send
  Parses,           \* what a parser may propose
  RecordCeiling,    \* MAX_RECORDS
  MaxVisits, MaxDeaths, MaxChanges   \* bounds on opens, deaths, changes of the rights

ASSUME CeilingAssumption == RecordCeiling \in Nat /\ RecordCeiling >= 2

VARIABLES
  rows,             \* phase4b_records, in the order of their sequence
  pendingBody,      \* phase4b_pending_publications: at most one, the source's
  content,          \* the source's directory, if there: [by, body], body a set
  deleting,         \* its directory under the .deleting name is there
  permits,          \* the rights that are allowed
  doings,           \* what a process does
  visits, deaths, changes,
  company,          \* history: processes that had another beside them
  uncovered,        \* history: a journal row was deleted under a publication
  unfounded         \* history: a record was appended against what its check had read

bounds4B == <<visits, deaths, changes>>
candidateVars ==
  <<rows, pendingBody, content, deleting, permits, doings, bounds4B, company, uncovered,
    unfounded>>

Uses4B == {"storage", "parsing"}

CandidateInit ==
  /\ rows = <<>> /\ pendingBody = {} /\ content = {} /\ deleting = FALSE
  /\ permits = Uses4B /\ doings = [p \in Parties |-> [at |-> "out"]]
  /\ visits = 0 /\ deaths = 0 /\ changes = 0
  /\ company = {} /\ uncovered = FALSE /\ unfounded = FALSE
-----------------------------------------------------------------------------
Row(kind, says, of) == [kind |-> kind, says |-> says, of |-> of]

\* project_records: a candidate is active until a record invalidates it.
Acquired(log) == {r \in ToSet(log) : r.kind = "acquisition"}
ActiveIn(log) ==
  {r \in ToSet(log) : /\ r.kind # "invalidation"
                      /\ \A i \in ToSet(log) : i.kind = "invalidation" => r \notin i.of}
ActiveAcquired == Acquired(rows) \cap ActiveIn(rows)

\* content.read against the hash of the record.
Readable(acquisition) == \E c \in content : acquisition.says \in c.body

At(p, place) == doings[p].at = place
Does(p, doing) == doings' = [doings EXCEPT ![p] = doing]
MoveTo(p, place) == Does(p, [at |-> place])

Removal(goal) == [at |-> "removing", goal |-> goal]
Appending(row, goal) == [at |-> "numbering", row |-> row, seen |-> Len(rows), goal |-> goal]

Inside(p) == ~At(p, "out")
-----------------------------------------------------------------------------
OpenCandidates(p) ==
  /\ At(p, "out") /\ visits < MaxVisits
  /\ visits' = visits + 1
  /\ LET others == {q \in Parties \ {p} : Inside(q)}
     IN  company' = IF others = {} THEN company \ {p} ELSE company \cup others \cup {p}
  /\ MoveTo(p, "opening")
  /\ UNCHANGED <<rows, pendingBody, content, deleting, permits, deaths, changes, uncovered,
                 unfounded>>

\* Slip: the journal row goes and the bytes stay, whether an acquisition has them or not.
ReconcileLeaving(p) ==
  /\ At(p, "opening")
  /\ MoveTo(p, IF pendingBody = {} THEN "reconciling" ELSE "clearing")
  /\ UNCHANGED <<rows, pendingBody, content, deleting, permits, bounds4B, company, uncovered,
                 unfounded>>

\* A journal row means that a publication did not reach its end: its bytes stay only for
\* an active acquisition of them.
ReconcilePending(p) ==
  /\ At(p, "opening")
  /\ CASE pendingBody = {} -> MoveTo(p, "reconciling")
       [] \E r \in ActiveAcquired : r.says \in pendingBody -> MoveTo(p, "clearing")
       [] OTHER -> Does(p, Removal("clearing"))
  /\ UNCHANGED <<rows, pendingBody, content, deleting, permits, bounds4B, company, uncovered,
                 unfounded>>

\* finish_publication, at the end of one's own or of the one that was found.
FinishPublication(p) ==
  /\ doings[p].at \in {"clearing", "closing", "undone", "refused"}
  /\ pendingBody' = {}
  /\ uncovered' = (uncovered \/ (~At(p, "closing") /\ p \in company))
  /\ CASE At(p, "clearing") -> MoveTo(p, "reconciling")
       [] At(p, "refused") -> Does(p, Appending(Row("failure", "blocked", {}), "out"))
       [] OTHER -> MoveTo(p, "out")
  /\ UNCHANGED <<rows, content, deleting, permits, bounds4B, company, unfounded>>

\* The rest of _reconcile_content_state: nothing stays of an invalidated source, and an
\* active acquisition without its bytes is invalidated, with all that is active beside it.
ReconcileSource(p) ==
  /\ At(p, "reconciling")
  /\ CASE Acquired(rows) # {} /\ ActiveAcquired = {} -> Does(p, Removal("opened"))
       [] \E r \in ActiveAcquired : ~Readable(r) ->
            Does(p, Appending(Row("invalidation", "integrity", ActiveIn(rows)), "opened"))
       [] OTHER -> MoveTo(p, "opened")
  /\ UNCHANGED <<rows, pendingBody, content, deleting, permits, bounds4B, company, uncovered,
                 unfounded>>

\* remove_source: the directory gets its .deleting name, then the tree is removed.
RenameSource(p) ==
  /\ At(p, "removing")
  /\ content' = {} /\ deleting' = (deleting \/ content # {})
  /\ Does(p, [at |-> "unlinking", goal |-> doings[p].goal])
  /\ UNCHANGED <<rows, pendingBody, permits, bounds4B, company, uncovered, unfounded>>

\* verify_absent follows, except where a publication is undone or cleared.
UnlinkSource(p) ==
  /\ At(p, "unlinking")
  /\ deleting' = FALSE
  /\ MoveTo(p, IF doings[p].goal \in {"opened", "erased", "removed"} /\ content # {}
               THEN "out" ELSE doings[p].goal)
  /\ UNCHANGED <<rows, pendingBody, content, permits, bounds4B, company, uncovered, unfounded>>
-----------------------------------------------------------------------------
AfterAppend(p) ==
  IF doings[p].goal \in {"opened", "erased", "removed"}
  THEN Does(p, Removal(doings[p].goal)) ELSE MoveTo(p, doings[p].goal)

\* An append that raises undoes a publication.
AppendRaises(p) ==
  IF doings[p].goal = "closing" THEN Does(p, Removal("undone")) ELSE MoveTo(p, "out")

\* append: a record that is there is returned, a new one gets the next number.
NumberRow(p) ==
  /\ At(p, "numbering")
  /\ IF doings[p].row \in ToSet(rows)
     THEN AfterAppend(p)
     ELSE Does(p, [at |-> "inserting", row |-> doings[p].row, seen |-> doings[p].seen,
                   goal |-> doings[p].goal, number |-> Len(rows)])
  /\ UNCHANGED <<rows, pendingBody, content, deleting, permits, bounds4B, company, uncovered,
                 unfounded>>

\* What has to hold of the records that the check before an append could see.
Founded(doing) ==
  LET known == SubSeq(rows, 1, doing.seen)
  IN  /\ doing.row.kind = "acquisition" => Acquired(known) = {}
      /\ doing.row.kind \in {"invalidation", "parse"} => doing.row.of \subseteq ActiveIn(known)

\* ... which must still be the next in the transaction (_insert_verified).
InsertRow(p) ==
  /\ At(p, "inserting")
  /\ IF doings[p].number = Len(rows) /\ Len(rows) < RecordCeiling
     THEN /\ rows' = Append(rows, doings[p].row)
          /\ unfounded' = (unfounded \/ ~Founded(doings[p]))
          /\ AfterAppend(p)
     ELSE AppendRaises(p) /\ UNCHANGED <<rows, unfounded>>
  /\ UNCHANGED <<pendingBody, content, deleting, permits, bounds4B, company, uncovered>>
-----------------------------------------------------------------------------
\* acquire: no second acquisition of a source, and the right to it, before the network.
BeginAcquire(p) ==
  /\ At(p, "opened")
  /\ Acquired(rows) = {} /\ "storage" \in permits
  /\ MoveTo(p, "asking")
  /\ UNCHANGED <<rows, pendingBody, content, deleting, permits, bounds4B, company, uncovered,
                 unfounded>>

\* The network answered: the rights and the source are looked at again.
Answered(p) ==
  /\ At(p, "asking")
  /\ \/ Does(p, Appending(Row("failure", "network", {}), "out"))
     \/ /\ "storage" \notin permits
        /\ Does(p, Appending(Row("failure", "blocked", {}), "out"))
     \/ \E b \in Bodies :
          /\ "storage" \in permits
          /\ IF Acquired(rows) = {} THEN Does(p, [at |-> "declaring", body |-> b])
                                     ELSE MoveTo(p, "out")
  /\ UNCHANGED <<rows, pendingBody, content, deleting, permits, bounds4B, company, uncovered,
                 unfounded>>

\* begin_publication: another publication of other bytes is a conflict.
BeginPublication(p) ==
  /\ At(p, "declaring")
  /\ LET body == doings[p].body
     IN  IF pendingBody \subseteq {body}
         THEN pendingBody' = {body} /\ Does(p, [at |-> "making", body |-> body])
         ELSE MoveTo(p, "out") /\ UNCHANGED pendingBody
  /\ UNCHANGED <<rows, content, deleting, permits, bounds4B, company, uncovered, unfounded>>

\* put_source: a directory of its own, and the bytes into it unless it was taken away.
MakeSource(p) ==
  /\ At(p, "making")
  /\ IF content = {} /\ ~deleting
     THEN /\ content' = {[by |-> p, body |-> {}]}
          /\ Does(p, [at |-> "writing", body |-> doings[p].body])
     ELSE Does(p, Removal("undone")) /\ UNCHANGED content
  /\ UNCHANGED <<rows, pendingBody, deleting, permits, bounds4B, company, uncovered, unfounded>>

WriteSource(p) ==
  /\ At(p, "writing")
  /\ IF content = {[by |-> p, body |-> {}]}
     THEN /\ content' = {[by |-> p, body |-> {doings[p].body}]}
          /\ Does(p, [at |-> "rechecking", body |-> doings[p].body])
     ELSE Does(p, Removal("undone")) /\ UNCHANGED content
  /\ UNCHANGED <<rows, pendingBody, deleting, permits, bounds4B, company, uncovered, unfounded>>

\* "Close both revocation windows": the rights and the source once more.
Recheck(p) ==
  /\ At(p, "rechecking")
  /\ CASE "storage" \notin permits -> Does(p, Removal("refused"))
       [] "storage" \in permits /\ Acquired(rows) # {} -> Does(p, Removal("undone"))
       [] OTHER -> Does(p, Appending(Row("acquisition", doings[p].body, {}), "closing"))
  /\ UNCHANGED <<rows, pendingBody, content, deleting, permits, bounds4B, company, uncovered,
                 unfounded>>
-----------------------------------------------------------------------------
\* parse, up to the parser: an acquisition that was invalidated loses its bytes.
BeginParse(p) ==
  /\ At(p, "opened") /\ "parsing" \in permits
  /\ \E a \in Acquired(rows) :
       IF a \notin ActiveIn(rows) THEN Does(p, Removal("out"))
       ELSE Readable(a) /\ Does(p, [at |-> "parsing", row |-> a])
  /\ UNCHANGED <<rows, pendingBody, content, deleting, permits, bounds4B, company, uncovered,
                 unfounded>>

\* "Parser execution is an untrusted, potentially long-running boundary": the rights
\* and the acquisition are looked at again.
Parsed(p) ==
  /\ At(p, "parsing")
  /\ LET parsed == doings[p].row
     IN  CASE permits # Uses4B -> MoveTo(p, "synchronizing")
           [] permits = Uses4B /\ parsed \notin ActiveIn(rows) -> Does(p, Removal("out"))
           [] OTHER -> \/ \E t \in Parses : Does(p, Appending(Row("parse", t, {parsed}), "out"))
                       \/ Does(p, Appending(Row("failure", "parser", {parsed}), "out"))
  /\ UNCHANGED <<rows, pendingBody, content, deleting, permits, bounds4B, company, uncovered,
                 unfounded>>

\* synchronize_rights, as an operation or from a parse whose rights are gone.
SynchronizeRights(p) ==
  /\ doings[p].at \in {"opened", "synchronizing"}
  /\ CASE permits = Uses4B -> MoveTo(p, "out")
       [] permits # Uses4B /\ ActiveIn(rows) = {} -> Does(p, Removal("erased"))
       [] OTHER -> Does(p, Appending(Row("invalidation", "rights", ActiveIn(rows)), "erased"))
  /\ UNCHANGED <<rows, pendingBody, content, deleting, permits, bounds4B, company, uncovered,
                 unfounded>>

\* invalidate_candidates for somebody's decision; a superseded candidate may leave the
\* bytes where they are.
InvalidateCandidates(p) ==
  /\ At(p, "opened")
  /\ \E targets \in (SUBSET ActiveIn(rows)) \ {{}}, goal \in {"removed", "out"} :
       Does(p, Appending(Row("invalidation", "decision", targets), goal))
  /\ UNCHANGED <<rows, pendingBody, content, deleting, permits, bounds4B, company, uncovered,
                 unfounded>>

\* Packages of another store: an acquisition alone, with a parse, or invalidated.
Packages(acquisition) ==
  {<<acquisition>>, <<acquisition, Row("invalidation", "decision", {acquisition})>>}
    \cup {<<acquisition, Row("parse", t, {acquisition})>> : t \in Parses}

\* import_bytes: records are numbered, so a package fits a store that begins it.  No bytes
\* come with it.
ImportCandidates(p) ==
  /\ At(p, "opened")
  /\ \E b \in Bodies : \E package \in Packages(Row("acquisition", b, {})) :
       IsStrictPrefix(rows, package) /\ rows' = package
  /\ MoveTo(p, "out")
  /\ UNCHANGED <<pendingBody, content, deleting, permits, bounds4B, company, uncovered,
                 unfounded>>

LeaveCandidates(p) ==
  /\ doings[p].at \in {"opened", "erased", "removed"}
  /\ MoveTo(p, "out")
  /\ UNCHANGED <<rows, pendingBody, content, deleting, permits, bounds4B, company, uncovered,
                 unfounded>>

\* A dead process leaves rows and files as they are.
PartyDies(p) ==
  /\ Inside(p) /\ deaths < MaxDeaths
  /\ deaths' = deaths + 1
  /\ MoveTo(p, "out")
  /\ UNCHANGED <<rows, pendingBody, content, deleting, permits, visits, changes, company,
                 uncovered, unfounded>>

\* A human decides about a right (append_rights of the rights and content store).
DecideRight ==
  /\ changes < MaxChanges
  /\ changes' = changes + 1
  /\ \E u \in Uses4B : permits' = IF u \in permits THEN permits \ {u} ELSE permits \cup {u}
  /\ UNCHANGED <<rows, pendingBody, content, deleting, doings, visits, deaths, company,
                 uncovered, unfounded>>

CandidateStep(p) ==
  \/ OpenCandidates(p) \/ ReconcilePending(p) \/ FinishPublication(p) \/ ReconcileSource(p)
  \/ RenameSource(p) \/ UnlinkSource(p) \/ NumberRow(p) \/ InsertRow(p)
  \/ BeginAcquire(p) \/ Answered(p) \/ BeginPublication(p) \/ MakeSource(p)
  \/ WriteSource(p) \/ Recheck(p) \/ BeginParse(p) \/ Parsed(p) \/ SynchronizeRights(p)
  \/ InvalidateCandidates(p) \/ ImportCandidates(p) \/ LeaveCandidates(p) \/ PartyDies(p)

CandidateNext == DecideRight \/ \E p \in Parties : CandidateStep(p)

CandidateSpec == CandidateInit /\ [][CandidateNext]_candidateVars
-----------------------------------------------------------------------------
CandidateTypeOK ==
  /\ Len(rows) <= RecordCeiling /\ \A i, j \in DOMAIN rows : rows[i] = rows[j] => i = j
  /\ pendingBody \in {{}} \cup {{b} : b \in Bodies}
  /\ content \in {{}} \cup {{c} : c \in [by : Parties, body : {{}} \cup {{b} : b \in Bodies}]}
  /\ deleting \in BOOLEAN /\ permits \subseteq Uses4B
  /\ company \subseteq Parties /\ uncovered \in BOOLEAN /\ unfounded \in BOOLEAN

Alone(p) == p \notin company
Left == content # {} \/ deleting

\* service.py:623: bytes are never there without a record or a journal row by which the
\* next open finds them, over any deaths, unless an open or an undoing beside a
\* publication has taken its journal row.
NeverUntraced ==
  Left => pendingBody # {} \/ Acquired(rows) # {} \/ uncovered

\* service.py:622-686: who opened the store alone finds no journal row, the bytes of each
\* active acquisition, and nothing of a source without one.
OpenedWhole ==
  \A p \in Parties : At(p, "opened") /\ Alone(p) =>
    /\ pendingBody = {}
    /\ \A a \in ActiveAcquired : Readable(a)
    /\ Left => ActiveAcquired # {} \/ uncovered

\* service.py:504, "Invalidate candidates and erase bytes": a synchronization alone that
\* found a right gone leaves nothing active and no bytes.
ErasedWhole ==
  \A p \in Parties : At(p, "erased") /\ Alone(p) => ActiveIn(rows) = {} /\ ~Left

\* The four together, and that no record but one that came between a check and its number
\* contradicts that check (service.py:268, 402-413): no second acquisition of a source, no
\* parse of an invalidated one, no second invalidation.
CandidatesAccounted ==
  CandidateTypeOK /\ NeverUntraced /\ OpenedWhole /\ ErasedWhole /\ ~unfounded
=============================================================================
