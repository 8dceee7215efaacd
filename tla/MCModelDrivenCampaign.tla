------------------------- MODULE MCModelDrivenCampaign -------------------------
(***************************************************************************)
(* Instances of ModelDrivenCampaign for TLC.                               *)
(***************************************************************************)
EXTENDS ModelDrivenCampaign, TLC

CONSTANTS g1, g2, a1, a2

Planned(kind) == [kind |-> kind, names |-> None, sound |-> TRUE]

\* Questions, candidates and failures, over few sequences and two deaths.
MCResumePlans ==
  {Planned(k) : k \in {"search", "experiment", "derive", "ask", "report",
                       "malformed"}}

\* Only what a campaign with questions needs.
MCQuestionPlans == {Planned(k) : k \in {"ask", "report"}}

MCRegistered == {"search", "follow", "acquire", "parse", "embed", "refresh",
                 "retrieve", "experiment", "verify", "derive"}
MCPaidKinds == {"derive", "acquire", "embed"}
=============================================================================
