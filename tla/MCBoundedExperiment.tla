-------------------------- MODULE MCBoundedExperiment --------------------------
(***************************************************************************)
(* Three samples, of which the first runs in the shadow only, and what     *)
(* callers may ask authorizations for: the second as the reference, and    *)
(* the third as the candidate after it; and the third from a reading too   *)
(* early, and from one that meets a stop condition, which nobody gets.     *)
(***************************************************************************)
EXTENDS BoundedExperiment, TLC

CONSTANTS s1, s2, s3

Draft(s, role, ran1, ran2, stops) ==
  [sample |-> s, role |-> role,
   reading |-> [shadow |-> ran1, live |-> ran2, candidates |-> 0, stops |-> stops]]

MCDrafts ==
  {Draft(s2, "reference", 1, 0, FALSE), Draft(s3, "candidate", 1, 1, FALSE),
   Draft(s3, "reference", 0, 0, FALSE), Draft(s3, "reference", 1, 0, TRUE)}

Symmetry ==
  Permutations(Callers) \union Permutations(ReferenceRuns) \union
  Permutations(CandidateRuns) \union Permutations(Verifications)
=============================================================================
