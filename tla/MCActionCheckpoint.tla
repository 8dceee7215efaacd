-------------------------- MODULE MCActionCheckpoint --------------------------
(***************************************************************************)
(* Instances of ActionCheckpoint for TLC.  Sequence 1 may be claimed by a  *)
(* paid action, by the same action with another recorded_at, and by an     *)
(* idempotent one; sequence 2 shares the lock with it.                     *)
(***************************************************************************)
EXTENDS ActionCheckpoint, TLC

MCPaid == [seq |-> 1, request |-> "search", paid |-> TRUE, at |-> 1]
MCLater == [MCPaid EXCEPT !.at = 2]
MCLocal == [seq |-> 1, request |-> "verify", paid |-> FALSE, at |-> 1]

MCOther == [seq |-> 2, request |-> "report", paid |-> TRUE, at |-> 1]

CONSTANTS p1, p2, p3, o1, o2

MCClash == {MCPaid, MCLater, MCLocal, MCOther}
MCRetry == {MCLocal}

MCSymmetry == Permutations(Procs) \cup Permutations(Outcomes)
=============================================================================
