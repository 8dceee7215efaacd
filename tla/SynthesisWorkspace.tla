--------------------------- MODULE SynthesisWorkspace ---------------------------
(***************************************************************************)
(* The synthesis workspace (synthesis/workspace.py) and its export command *)
(* (synthesis_cli.py): an append-only log of records in SQLite, a          *)
(* projection of the admissions rebuilt from it in a transaction of its    *)
(* own, a verification at every open, and exports that are verified again  *)
(* before they are saved.  A session is a process that opens the           *)
(* workspace, appends, rebuilds and exports, and may raise or die in       *)
(* between; several may be open at once.                                   *)
(***************************************************************************)
EXTENDS Naturals, FiniteSets, Sequences, SequencesExt

CONSTANTS Sessions,            \* processes, each opening the workspace once
          Entries,             \* what callers append, one record identity each
          Instants,            \* the recorded_at a session stamps its records with
          MaxRecords           \* the ceiling on records

ASSUME SynthesisAssumption == MaxRecords \in Nat

Absent == "none"

VARIABLES rows,                \* synthesis_records, in the order of their sequence
          projection,          \* synthesis_admission_projection, by subject
          saved,               \* synthesis_verified_exports
          temporary,           \* the export's .tmp file, if there is one
          output,              \* the exported file, if there is one
          visit,               \* what each session does and has read
          owing,               \* sessions that appended and have not rebuilt
          mishaps              \* history: why the projection may lag the records

synthesisVars == <<rows, projection, saved, temporary, output, visit, owing, mishaps>>

Subjects == {entry.subject : entry \in Entries}

\* Positions in a log of the records of one type about a subject.
About(log, type, s) ==
  {i \in DOMAIN log : log[i].entry.type = type /\ log[i].entry.subject = s}

LastOf(positions) == CHOOSE i \in positions : \A j \in positions : j <= i

\* The current view of the log: the last admission of a subject, closed by any
\* invalidation of it that came later.
Projected(log) ==
  [s \in {t \in Subjects : About(log, "graph_admission", t) # {}} |->
     LET last == LastOf(About(log, "graph_admission", s))
         later == {i \in About(log, "influence_invalidation", s) : i > last}
     IN  [admission |-> IF later = {} THEN log[last].entry.decision
                        ELSE "invalidated_by_later_record",
          record |-> log[last].entry.id,
          invalidation |-> IF later = {} THEN Absent ELSE log[LastOf(later)].entry.id]]

\* Records have different identities and cite earlier ones.
Sound(log) ==
  \A i \in DOMAIN log :
    /\ \A j \in DOMAIN log : log[i].entry = log[j].entry => i = j
    /\ \A input \in log[i].entry.inputs : \E j \in 1..(i - 1) : log[j].entry.id = input

\* An export is accepted when its projection derives from its own records.
Verifies(export) ==
  Sound(export.records) /\ export.projection = Projected(export.records)

Inside == {w \in Sessions : visit[w].at \notin {"out", "over"}}

\* A session is over: it closed, raised or died.  One that leaves an append it has not
\* projected leaves the projection behind.
LeaveWorkspace(w) ==
  /\ visit' = [visit EXCEPT ![w] = [at |-> "over"]]
  /\ owing' = owing \ {w}
  /\ mishaps' = IF w \in owing THEN mishaps \cup {"ended_owing"} ELSE mishaps

SynthesisInit ==
  /\ rows = << >>
  /\ projection = Projected(<< >>)
  /\ saved = {}
  /\ temporary = {}
  /\ output = {}
  /\ visit = [w \in Sessions |-> [at |-> "out"]]
  /\ owing = {}
  /\ mishaps = {}

\* Opening reads the records, to verify and to project them, and then compares.
OpenWorkspace(w) ==
  /\ visit[w].at = "out"
  /\ \E instant \in Instants :
       visit' = [visit EXCEPT ![w] =
                     [at |-> "verifying", next |-> "open", instant |-> instant, log |-> rows]]
  /\ mishaps' = IF Inside = {} THEN mishaps ELSE mishaps \cup {"overlap"}
  /\ UNCHANGED <<rows, projection, saved, temporary, output, owing>>

\* The stored projection must be the one of the records read before; if it is not the
\* session raises "projection drift".
VerifyIntegrity(w) ==
  /\ visit[w].at = "verifying"
  /\ IF Sound(visit[w].log) /\ projection = Projected(visit[w].log)
     THEN /\ visit' = [visit EXCEPT ![w] =
                           [at |-> @.next, instant |-> @.instant]]
          /\ UNCHANGED <<owing, mishaps>>
     ELSE LeaveWorkspace(w)
  /\ UNCHANGED <<rows, projection, saved, temporary, output>>

\* One record, in an immediate transaction: its inputs are there, and a record of its
\* identity is the same byte for byte, or there is room for a new one.
AppendRecord(w) ==
  /\ visit[w].at = "open"
  /\ \E entry \in Entries :
       LET row == [entry |-> entry, at |-> visit[w].instant]
           known == \E i \in DOMAIN rows : rows[i].entry = entry
           cited == \A input \in entry.inputs :
                      \E i \in DOMAIN rows : rows[i].entry.id = input
       IN  \/ /\ cited /\ ~known /\ Len(rows) < MaxRecords
              /\ rows' = Append(rows, row)
              /\ owing' = owing \cup {w}
              /\ UNCHANGED <<visit, mishaps>>
           \/ /\ ~cited \/ (known /\ ~Contains(rows, row)) \/ (~known /\ Len(rows) >= MaxRecords)
              /\ LeaveWorkspace(w)
              /\ UNCHANGED rows
  /\ UNCHANGED <<projection, saved, temporary, output>>

\* The records are read first; the projection is replaced in a transaction of its own.
ReadForRebuild(w) ==
  /\ visit[w].at = "open"
  /\ visit' = [visit EXCEPT ![w] =
                   [at |-> "rebuilding", instant |-> @.instant, log |-> rows]]
  /\ UNCHANGED <<rows, projection, saved, temporary, output, owing, mishaps>>

RebuildAdmissionProjection(w) ==
  /\ visit[w].at = "rebuilding"
  /\ projection' = Projected(visit[w].log)
  /\ visit' = [visit EXCEPT ![w] = [at |-> "open", instant |-> @.instant]]
  /\ owing' = owing \ {w}
  /\ UNCHANGED <<rows, saved, temporary, output, mishaps>>

\* An export verifies as an open does, then reads the records and the projection.
BeginExport(w) ==
  /\ visit[w].at = "open" /\ w \notin owing
  /\ visit' = [visit EXCEPT ![w] =
                   [at |-> "verifying", next |-> "reading", instant |-> @.instant,
                    log |-> rows]]
  /\ UNCHANGED <<rows, projection, saved, temporary, output, owing, mishaps>>

ReadRecords(w) ==
  /\ visit[w].at = "reading"
  /\ visit' = [visit EXCEPT ![w] =
                   [at |-> "projecting", instant |-> @.instant, log |-> rows]]
  /\ UNCHANGED <<rows, projection, saved, temporary, output, owing, mishaps>>

\* The command writes what it read to the .tmp file before it is saved.
WriteTemporary(w) ==
  LET export == [records |-> visit[w].log, projection |-> projection] IN
  /\ visit[w].at = "projecting"
  /\ temporary' = {export}
  /\ visit' = [visit EXCEPT ![w] =
                   [at |-> "saving", instant |-> @.instant, export |-> export]]
  /\ UNCHANGED <<rows, projection, saved, output, owing, mishaps>>

\* Only an export that verifies is saved.
SaveVerifiedExport(w) ==
  /\ visit[w].at = "saving"
  /\ IF Verifies(visit[w].export)
     THEN /\ saved' = saved \cup {visit[w].export}
          /\ visit' = [visit EXCEPT ![w] = [at |-> "replacing", instant |-> @.instant]]
          /\ UNCHANGED <<owing, mishaps>>
     ELSE LeaveWorkspace(w) /\ UNCHANGED saved
  /\ UNCHANGED <<rows, projection, temporary, output>>

\* The .tmp file becomes the output, whoever wrote it last; without one it raises.
ReplaceOutput(w) ==
  /\ visit[w].at = "replacing"
  /\ IF temporary = {} THEN LeaveWorkspace(w) /\ UNCHANGED <<temporary, output>>
     ELSE /\ output' = temporary
          /\ temporary' = {}
          /\ visit' = [visit EXCEPT ![w] = [at |-> "open", instant |-> @.instant]]
          /\ UNCHANGED <<owing, mishaps>>
  /\ UNCHANGED <<rows, projection, saved>>

\* Callers rebuild before they close.
CloseWorkspace(w) ==
  /\ visit[w].at = "open" /\ w \notin owing
  /\ LeaveWorkspace(w)
  /\ UNCHANGED <<rows, projection, saved, temporary, output>>

SessionDies(w) ==
  /\ w \in Inside
  /\ LeaveWorkspace(w)
  /\ UNCHANGED <<rows, projection, saved, temporary, output>>

SynthesisNext ==
  \E w \in Sessions :
    \/ OpenWorkspace(w) \/ VerifyIntegrity(w) \/ AppendRecord(w)
    \/ ReadForRebuild(w) \/ RebuildAdmissionProjection(w)
    \/ BeginExport(w) \/ ReadRecords(w) \/ WriteTemporary(w)
    \/ SaveVerifiedExport(w) \/ ReplaceOutput(w)
    \/ CloseWorkspace(w) \/ SessionDies(w)

SynthesisSpec == SynthesisInit /\ [][SynthesisNext]_synthesisVars

-----------------------------------------------------------------------------

\* Records, projection, exports and sessions have their shape.
SynthesisTypeOK ==
  /\ Len(rows) <= MaxRecords
  /\ \A i \in DOMAIN rows : rows[i].entry \in Entries /\ rows[i].at \in Instants
  /\ DOMAIN projection \subseteq Subjects
  /\ owing \subseteq Inside
  /\ mishaps \subseteq {"overlap", "ended_owing"}

\* What verify_export_bytes accepted derives from one state of the log, whatever was
\* appended between an export's reads, and any two saved exports are views of one
\* history (workspace.py:563).
ExportsAreViews ==
  /\ \A export \in saved : Verifies(export)
  /\ \A e, f \in saved : IsPrefix(e.records, f.records) \/ IsPrefix(f.records, e.records)

\* A workspace nobody is in opens again: its records are sound and its projection is the
\* one of its records, unless a session left an append unprojected or two were open at
\* once (workspace.py:473, 545).
OpensAgain ==
  Inside = {} /\ mishaps = {} => Sound(rows) /\ projection = Projected(rows)

\* The exported file was saved, unless two sessions shared its .tmp file
\* (synthesis_cli.py:108).
OutputWasSaved ==
  output \subseteq saved \/ "overlap" \in mishaps
=============================================================================
