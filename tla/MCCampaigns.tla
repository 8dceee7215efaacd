----------------------------- MODULE MCCampaigns -----------------------------
(***************************************************************************)
(* The parts of the campaign code that share no state, each alone: a       *)
(* behaviour is a behaviour of one part, chosen at the start, with the     *)
(* variables of the others at rest.  The parts are the fixed-list runner,  *)
(* the model-driven runner on the literature ladder, the budget ledger,    *)
(* of version 1 the runner, the planner's account and the commands over a  *)
(* campaign root; and the exact graph computations an experiment's         *)
(* verifier asks for (experiment_sandbox/verifier.py), with their replay:  *)
(* every graph of three vertices or fewer, every one of four in which the  *)
(* first two are joined, and two beyond.                                   *)
(***************************************************************************)
EXTENDS CampaignParts, ExactGraph, TLC

CONSTANTS t1, t2, b1, c1, c2, r1, g1, g2

\* The fixture's list cut to the actions that behave differently, with the results
\* its requests are built from; the same list with the experiment before the search
\* (refused); and one without an action that needs another's result.
ListStep(kind, isPaid, needs) ==
  [kind |-> kind, names |-> None, sound |-> TRUE, paid |-> isPaid, needs |-> needs]

\* plan, search, acquire, experiment, verify, falsify, report
Fixture ==
  << ListStep("plan", TRUE, {}), ListStep("search", FALSE, {1}),
     ListStep("acquire", FALSE, {2}), ListStep("experiment", FALSE, {}),
     ListStep("verify", FALSE, {4}), ListStep("falsify", FALSE, {5}),
     ListStep("report", FALSE, {}) >>

Unordered ==
  << ListStep("plan", TRUE, {}), ListStep("experiment", FALSE, {1}),
     ListStep("search", FALSE, {}) >>

Plain ==
  << ListStep("search", FALSE, {}), ListStep("experiment", TRUE, {}),
     ListStep("falsify", FALSE, {}), ListStep("verify", FALSE, {}) >>

MCLists == {Fixture, Unordered, Plain}

\* Two quantities, a primary and a fallback model route, an unauthorized profile and
\* the tool capability; amounts that fit and that breach.
MCFields == {"requests", "cost"}
Amount(n, c) == ("requests" :> n) @@ ("cost" :> c)
MCLimits == ("model" :> Amount(2, 3)) @@ ("fallback_model" :> Amount(1, 2))
              @@ ("tool" :> Amount(2, 0))
MCRequests ==
  {[capability |-> "model", profile |-> p] : p \in {"main", "spare", "other"}}
    \cup {[capability |-> "tool", profile |-> "main"]}
MCReserves == {Amount(1, 0), Amount(1, 1)}
MCUses == {Amount(1, 0), Amount(1, 2), Amount(1, 4)}

\* The whole ladder, a second cycle, result following and bound retrieval, in one run
\* without deaths (MCModelDrivenCampaign has them).
LadderPlan(kind) == [kind |-> kind, names |-> None, sound |-> TRUE]
MCLadderPlans ==
  {LadderPlan(k) : k \in {"search", "follow", "acquire", "parse", "embed", "refresh"}}
    \cup {[LadderPlan("retrieve") EXCEPT !.names = g] : g \in {g1, g2}}
MCLadderKinds ==
  {"search", "follow", "acquire", "parse", "embed", "refresh", "retrieve"}

MCPairs(n) == {{i, j} : i \in 1..n, j \in 1..n} \ {{i} : i \in 1..n}
MCGraph(n, edges) == [order |-> n, edges |-> edges]
MCStar(n) == MCGraph(n, {{1, i} : i \in 2..n})
\* The vertices 2 and 4, beside all the others: no seed tells one from the other.
MCSplit == MCGraph(5, {{2, 4}} \cup {{i, j} : i \in {2, 4}, j \in {1, 3, 5}})
MCWitnesses ==
  UNION {{MCGraph(n, edges) : edges \in SUBSET MCPairs(n)} : n \in 1..3}
    \cup {MCGraph(4, edges \cup {{1, 2}}) : edges \in SUBSET MCPairs(4)}
    \cup {MCSplit, MCStar(6)}

MCScalar(e, vectors) == [eigenvalue |-> e, dimension |-> Len(vectors), vectors |-> vectors]
MCQuotient(matrix, copies) ==
  [matrix |-> matrix, multiplicity |-> Len(copies), copies |-> copies]
MCBlocks(scalars, quotients) == [scalars |-> scalars, quotients |-> quotients]
MCDecompositions ==
  \* The triangle: the second with a vector twice, the third with one that is no
  \* eigenvector, the fourth without the largest eigenvalue, the fifth with one root
  \* in two blocks.
  {MCBlocks(<<MCScalar(2, <<<<1, 1, 1>>>>), MCScalar(-1, <<<<1, -1, 0>>, v>>)>>, <<>>) :
     v \in {<<0, 1, -1>>, <<1, -1, 0>>, <<1, 1, 0>>}}
  \cup {MCBlocks(<<MCScalar(-1, <<<<1, -1, 0>>, <<0, 1, -1>>, <<1, 0, -1>>>>)>>, <<>>),
        MCBlocks(<<MCScalar(-1, <<<<1, -1, 0>>>>), MCScalar(-1, <<<<1, 1, -2>>>>)>>,
                 <<MCQuotient(<<<<2>>>>, <<<<<<1, 1, 1>>>>>>)>>)}
  \* The path of three, with its quotient and with the quotient transposed.
  \cup {MCBlocks(<<MCScalar(-2, <<<<1, 0, -1>>>>)>>,
                 <<MCQuotient(q, <<<<<<1, 0, 1>>, <<0, 1, 0>>>>>>)>>) :
          q \in {<<<<2, 1>>, <<2, 0>>>>, <<<<2, 2>>, <<1, 0>>>>}}
  \* The cycle of four, a block in two copies, then in one copy twice.
  \cup {MCBlocks(<<MCScalar(4, <<<<1, 1, 1, 1>>>>), MCScalar(0, <<<<1, -1, 1, -1>>>>)>>,
                 <<MCQuotient(<<<<-2>>>>, <<<<<<1, 0, -1, 0>>>>, <<v>>>>)>>) :
          v \in {<<0, 1, 0, -1>>, <<1, 0, -1, 0>>}}
  \* The star of six, too large without it.
  \cup {MCBlocks(<<MCScalar(-2, <<<<0, 1, -1, 0, 0, 0>>, <<0, 0, 1, -1, 0, 0>>,
                                 <<0, 0, 0, 1, -1, 0>>, <<0, 0, 0, 0, 1, -1>>>>)>>,
                 <<MCQuotient(<<<<0, 5>>, <<1, 8>>>>,
                              <<<<<<1, 0, 0, 0, 0, 0>>, <<0, 1, 1, 1, 1, 1>>>>>>)>>)}

MCExtentValues == {<<4, 1>>, <<5, 1>>, <<13, 2>>, <<17, 2>>}
-----------------------------------------------------------------------------
VARIABLES part, ladderIntents, ladderTerminals, ladderRuns, ladderProduced,
          ladderSummary, ladderPc, ladderStep, ladderSeq,
          ladderFrame, ladderAnswer, ladderHeld, ladderCrashes

ladderVars == <<ladderIntents, ladderTerminals, ladderRuns, ladderProduced, ladderSummary, ladderPc,
                ladderStep, ladderSeq, ladderFrame, ladderAnswer, ladderHeld, ladderCrashes>>

Ladder == INSTANCE ModelDrivenCampaign WITH
  Plans <- MCLadderPlans, Registered <- MCLadderKinds, PaidKinds <- {"acquire", "embed"},
  PlannerIsPaid <- TRUE, Generations <- {g1, g2}, Answers <- {}, MaxCrashes <- 0,
  intents <- ladderIntents, terminals <- ladderTerminals, runs <- ladderRuns,
  produced <- ladderProduced, summary <- ladderSummary, pc <- ladderPc,
  step <- ladderStep, seq <- ladderSeq, frame <- ladderFrame,
  answer <- ladderAnswer, held <- ladderHeld, crashes <- ladderCrashes

Init ==
  /\ part \in {"list", "ladder", "budget", "turns", "planner", "root", "graph"}
  /\ ListInit /\ Ladder!Init /\ BudgetInit /\ CampaignInit /\ PlannerInit /\ RootInit
  /\ GraphInit
  \* The inputs of a part at rest are chosen once.
  /\ part # "list" => actions = Plain
  /\ part # "turns" => turn = 1
  /\ part # "graph" => witness = MCGraph(1, {})
  /\ part # "root" => paying = {}
  /\ part # "root" => \A c \in Commands : content[c] = CHOOSE x \in Contents : TRUE

Next ==
  /\ UNCHANGED part
  /\ \/ part = "list" /\ ListNext
     \/ part # "list" /\ UNCHANGED listVars
  /\ \/ part = "ladder" /\ Ladder!Next
     \/ part # "ladder" /\ UNCHANGED ladderVars
  /\ \/ part = "budget" /\ BudgetNext
     \/ part # "budget" /\ UNCHANGED budgetVars
  /\ \/ part = "turns" /\ CampaignNext
     \/ part # "turns" /\ UNCHANGED campaignVars
  /\ \/ part = "planner" /\ PlannerNext
     \/ part # "planner" /\ UNCHANGED plannerVars
  /\ \/ part = "root" /\ RootNext
     \/ part # "root" /\ UNCHANGED rootVars
  /\ \/ part = "graph" /\ GraphNext
     \/ part # "graph" /\ UNCHANGED graphVars

Spec == Init /\ [][Next]_<<part, listVars, ladderVars, budgetVars, campaignVars, plannerVars,
                          rootVars, graphVars>>

\* end_to_end.py:84-128 over a whole campaign: a rung's effect ran only after the rung
\* before it was completed in the same literature cycle, and a retrieval names a
\* generation that a completed refresh of this campaign published.
LadderClimbed == Ladder!LadderClimbed
=============================================================================
