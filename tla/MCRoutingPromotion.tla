-------------------------- MODULE MCRoutingPromotion ---------------------------
(***************************************************************************)
(* Two live samples, the reference's and then the candidate's.  Two        *)
(* results of the first may be published by the same authorization.        *)
(***************************************************************************)
EXTENDS RoutingPromotion, TLC

CONSTANTS o1, o2, o3

Draft(sample, role, shadow, live) ==
  [sample |-> sample, role |-> role,
   reading |-> [shadow |-> shadow, live |-> live, candidates |-> 0, stops |-> FALSE]]

First == Draft(1, "reference", 1, 0)
Second == Draft(2, "candidate", 1, 1)

MCDrafts == {First, Second}
MCAuthority == (o1 :> First) @@ (o2 :> First) @@ (o3 :> Second)

Symmetry == Permutations(Callers) \union Permutations({o1, o2})
=============================================================================
