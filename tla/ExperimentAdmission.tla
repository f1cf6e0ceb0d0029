-------------------------- MODULE ExperimentAdmission --------------------------
(***************************************************************************)
(* What comes before an experiment: the admission gate judges two cohorts  *)
(* by a policy, an eligible decision lets an experiment be defined, and a  *)
(* workflow with approvals lets it be allowed.  Each is a document that    *)
(* grants nothing by itself; all that follows verifies the three again,    *)
(* from the caller's copies.  The distances between cohorts that the       *)
(* policy limits are Booleans here.                                        *)
(***************************************************************************)
EXTENDS Naturals

CONSTANTS
  CohortSizes,          \* observations a cohort may have
  MinimumObservations   \* of the policy

\* validatePolicyValues
ValidPolicy == MinimumObservations \in Nat \ {0} /\ CohortSizes \subseteq Nat

ASSUME PolicyAssumption == ValidPolicy

VARIABLES
  admission,  \* the admission decision
  contract    \* the experiment: none, defined, allowed or denied

admissionVars == <<admission, contract>>

NoAdmission == [class |-> "none", samples |-> 0]

AdmissionInit ==
  /\ admission = NoAdmission
  /\ contract = "none"

-----------------------------------------------------------------------------
(* assessM5ControlledExperimentAdmission *)

\* Two cohorts: their sizes, if executions, latencies and costs are measured
\* often enough, if the candidate's are measured less often than the
\* reference's, and if the candidate does worse than the policy allows.
Cohorts == [reference : CohortSizes, candidate : CohortSizes,
            covered : BOOLEAN, drifted : BOOLEAN, worse : BOOLEAN]

\* collectInsufficiencyReasons
Insufficient(cohorts) ==
  \/ cohorts.reference < MinimumObservations
  \/ cohorts.candidate < MinimumObservations
  \/ ~cohorts.covered

\* chooseClassification: a cohort too small is not compared, and one measured
\* differently is not judged.
AdmissionClass(cohorts) ==
  CASE Insufficient(cohorts) -> "INSUFFICIENT_EVIDENCE"
    [] ~Insufficient(cohorts) /\ cohorts.drifted -> "MEASUREMENT_DRIFT"
    [] ~Insufficient(cohorts) /\ ~cohorts.drifted /\ cohorts.worse ->
         "NOT_ELIGIBLE_FOR_CONTROLLED_EXPERIMENT"
    [] OTHER -> "ELIGIBLE_FOR_CONTROLLED_EXPERIMENT"

Assess ==
  /\ admission = NoAdmission
  /\ \E cohorts \in Cohorts :
       admission' = [class |-> AdmissionClass(cohorts), samples |-> cohorts.candidate]
  /\ UNCHANGED contract

\* assertEligibleAdmission
Eligible == admission.class = "ELIGIBLE_FOR_CONTROLLED_EXPERIMENT"

Define ==
  /\ Eligible
  /\ contract = "none"
  /\ contract' = "defined"
  /\ UNCHANGED admission

\* The decision is taken in a workflow in its publish phase, with exactly its
\* approvals; a workflow that does not run can only deny.
DecideContract ==
  /\ contract = "defined"
  /\ \E running \in BOOLEAN :
       contract' \in {"denied"} \union (IF running THEN {"allowed"} ELSE {})
  /\ UNCHANGED admission

\* What every later document and dispatch verifies first.
ExperimentAllowed == Eligible /\ contract = "allowed"

AdmissionNext == Assess \/ Define \/ DecideContract
=============================================================================
