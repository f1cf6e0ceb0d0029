------------------------ MODULE MCExecutionIntegrity ------------------------
(***************************************************************************)
(* ExecutionIntegrity on small sets.  Sessions are interchangeable: the    *)
(* provider may create any that is absent.                                 *)
(***************************************************************************)
EXTENDS ExecutionIntegrity, TLC

Symmetry == Permutations(Sessions) \union Permutations(Drivers)

\* The workflow needs no approval in these runs: approvals do not meet the
\* stores, and DurableWorkflow has them.
NoApprovals == {}
=============================================================================
