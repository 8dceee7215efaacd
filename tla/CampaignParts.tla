---------------------------- MODULE CampaignParts -----------------------------
(***************************************************************************)
(* The parts of the campaign code that share no state: the runner of a     *)
(* fixed list and the budget ledger of version 2; the runner, the          *)
(* planner's account and the commands over a campaign root of version 1.   *)
(***************************************************************************)
EXTENDS EndToEndCampaign, CampaignBudget, SequentialCampaign, CampaignPlanner, CampaignRoot

\* The type invariants of the parts (end_to_end.py:177-303, budget.py, runner.py,
\* planner.py and campaign_cli.py): what each of them keeps has its shape and bounds.
CampaignsTypeOK == ListTypeOK /\ BudgetTypeOK /\ CampaignTypeOK /\ PlannerTypeOK /\ RootTypeOK
=============================================================================
