---------------------------- MODULE LiteratureCycle ----------------------------
(***************************************************************************)
(* campaign/end_to_end.py: which planned action may come next.             *)
(*                                                                         *)
(* A plan is a record: its action type, the generation it names (only      *)
(* retrieve_evidence names one), and whether its request passes the shape  *)
(* checks of its type (a depth-one, pinned result following; a question    *)
(* that is there).  "malformed" stands for bytes parse_planned_action      *)
(* rejects, "declined" for a planner response whose status is not          *)
(* completed.  The action types are shortened: "search" is                 *)
(* search_literature, "acquire" acquire_source, and so on.                 *)
(***************************************************************************)
EXTENDS Integers

Substantive == {"derive", "write_program", "run_program", "experiment",
                "falsify", "verify", "formal_check"}

\* The actions whose failure does not stop a campaign.
Candidates == {"experiment", "run_program", "verify", "formal_check"}

\* The stage each rung of the literature ladder starts from.
Minimum == [acquire |-> 1, parse |-> 2, embed |-> 3, refresh |-> 4, retrieve |-> 5]

\* The rung the previous one must have completed.
Before == [acquire |-> "search", parse |-> "acquire", embed |-> "parse",
           refresh |-> "embed", retrieve |-> "refresh"]

\* Slip: the literature may be entered at any rung.
AdmissibleAtAnyStage(plan, stage, searched, published, bound) ==
  /\ plan.kind = "follow" => plan.sound
  /\ plan.kind = "retrieve" /\ bound => plan.names \in published
  /\ plan.kind \in Substantive => searched

\* Slip: retrieval names whatever generation it likes.
AdmissibleUnbound(plan, stage, searched, published, bound) ==
  /\ plan.kind = "follow" => stage >= 1 /\ plan.sound
  /\ plan.kind \in DOMAIN Minimum => stage >= Minimum[plan.kind]
  /\ plan.kind \in Substantive => searched

\* _advance_literature_state does not raise; bound is require_published_binding.
Admissible(plan, stage, searched, published, bound) ==
  /\ plan.kind = "follow" => stage >= 1 /\ plan.sound
  /\ plan.kind \in DOMAIN Minimum => stage >= Minimum[plan.kind]
  /\ plan.kind = "retrieve" /\ bound => plan.names \in published
  /\ plan.kind \in Substantive => searched

\* ... and the stage it returns.
StageAfter(plan, stage) ==
  IF plan.kind = "search" THEN 1
  ELSE IF plan.kind \in DOMAIN Minimum THEN Minimum[plan.kind] + 1
  ELSE stage

SearchedAfter(plan, searched) == searched \/ plan.kind = "search"
=============================================================================
