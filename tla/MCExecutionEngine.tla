-------------------------- MODULE MCExecutionEngine --------------------------
(***************************************************************************)
(* Plans for TLC: small dependency graphs, each with the choices of        *)
(* parallel group, timeout, approval and executor that matter for it.      *)
(***************************************************************************)
EXTENDS ExecutionEngine

MCSteps == 1..3

\* 1 <- 2 <- 3; 1 and 2 before 3; 1 before 2 and 3; 2 and 3 wait for each other.
MCDependsOn ==
  { <<{}, {1}, {2}>>, <<{}, {}, {1, 2}>>, <<{}, {1}, {1}>>, <<{}, {1, 3}, {2}>> }

\* Every step on its own; 1 and 2 together; 2 and 3 together.
MCGroups == { <<1, 2, 3>>, <<1, 1, 3>>, <<1, 2, 2>> }

\* Every choice of steps with a timeout, and a first step that needs an
\* approval, or a second one that does or that has no executor.
MCPlans ==
  [dependsOn : MCDependsOn, group : MCGroups, timed : SUBSET MCSteps,
   gated : {{}, {1}, {2}}, approved : {{}, {1}}, executable : {MCSteps, MCSteps \ {2}}]
=============================================================================
