--------------------------- MODULE RoutingReadiness ---------------------------
(***************************************************************************)
(* The decision that a production adapter may be built and rehearsed.  A   *)
(* proposal collects four evidence documents and classifies them; a person *)
(* allows or denies it at the approval boundary of an R4 workflow.  The    *)
(* decision is verified again by everything that follows, together with    *)
(* the receipt of the isolated change it rests on: that receipt only       *)
(* verifies while the isolated target and the journals behind it are what  *)
(* they were.                                                              *)
(*                                                                         *)
(* Documents are the caller's copies and keep their content; the isolated  *)
(* target and its journals belong to RoutingMutation, and only whether the *)
(* receipt verifies is kept here.                                          *)
(***************************************************************************)
CONSTANT Flaws   \* what an evidence document may leave unproven

VARIABLES
  isolated,   \* the isolated change's receipt verifies
  readiness   \* the proposal's classification and what was decided about it

readinessVars == <<isolated, readiness>>

Rehearsed == {"PASSED", "FAILED", "MANUAL_RECONCILIATION_REQUIRED"}

ReadinessInit ==
  /\ isolated = TRUE
  /\ readiness = [class |-> "none", decision |-> "none"]

\* The four documents: what they leave unproven, and how the rehearsal of a
\* rollback ended.
Evidence == [flaws : SUBSET Flaws, rollback : Rehearsed]

\* verifyReadinessContext: what the evidence says.
ReadinessClass(evidence) ==
  CASE evidence.rollback = "MANUAL_RECONCILIATION_REQUIRED" -> "MANUAL_RECONCILIATION_REQUIRED"
    [] evidence.rollback = "PASSED" /\ evidence.flaws = {} -> "READY"
    [] OTHER -> "NOT_READY"

ProposeReadiness ==
  /\ isolated
  /\ readiness.class = "none"
  /\ \E evidence \in Evidence : readiness' = [readiness EXCEPT !.class = ReadinessClass(evidence)]
  /\ UNCHANGED isolated

\* The documents are unchanging: only the receipt may cease to verify.
ProposalVerifies == isolated /\ readiness.class # "none"

\* What a decision is taken on: the snapshots of the route and of the adapter's
\* source as they are now, and the workflow it is asked in.
Current == [target : {"proposed", "drifted"}, source : {"proposed", "drifted", "unverified"},
            workflow : {"active", "waiting", "elsewhere"}]

\* assertTargetFresh, assertSourceFresh, assertR4Workflow
AtBoundary(current, decision) ==
  /\ current.target = "proposed"
  /\ current.source = "proposed"
  /\ current.workflow \in {"active"} \union (IF decision = "allow" THEN {} ELSE {"waiting"})

\* A decision needs what was proposed to be there still; an allowance an active
\* workflow and a READY proposal, too.
AuthorizeReadiness ==
  /\ ProposalVerifies
  /\ readiness.decision = "none"
  /\ \E decision \in {"allow", "deny"}, current \in Current :
       /\ AtBoundary(current, decision)
       /\ decision = "allow" => readiness.class = "READY"
       /\ readiness' = [readiness EXCEPT !.decision = decision]
  /\ UNCHANGED isolated

\* verifyLocalProductionRoutingReadinessAuthorization
DecisionVerifies == ProposalVerifies /\ readiness.decision # "none"

\* verifyRehearsalAuthority
Authority == DecisionVerifies /\ readiness = [class |-> "READY", decision |-> "allow"]

\* The isolated target or a journal behind its receipt changes; the journals
\* only grow, so that the receipt does not verify again.
IsolatedChanges == isolated /\ isolated' = FALSE /\ UNCHANGED readiness

ReadinessNext == ProposeReadiness \/ AuthorizeReadiness \/ IsolatedChanges
=============================================================================
