------------------------ MODULE WorkflowStateMachine ------------------------
(***************************************************************************)
(* One engineering workflow run under WorkflowStateMachine: every method   *)
(* may be called at any time, with any clock reading that does not run     *)
(* backwards; a call that throws leaves the run as it is.  This is the      *)
(* abstract specification of a run; DurableWorkflow implements it with      *)
(* callers that hold stale copies and a store that fails.                  *)
(***************************************************************************)
EXTENDS WorkflowTransitions

VARIABLE run

vars == << run >>

Init == run = NoRun

CreateRun ==
  \E risk \in RiskClasses, now \in Times :
    run = NoRun /\ run' = Create(risk, now)

ApproveResults(r, now) == UNION {Approve(r, a, now) : a \in ApprovalIds}

FailResults(r, now) == UNION {Fail(r, reason, now) : reason \in Reasons}

\* The runs the methods return, one clock reading and one argument at a time.
MethodResults(r, now) ==
  Start(r, now) \union Advance(r, now) \union RequestApproval(r, now)
    \union ApproveResults(r, now) \union SkipApproval(r, now)
    \union Pause(r, now) \union Resume(r, now)
    \union Retry(r, now) \union Recover(r, now)
    \union FailResults(r, now)
    \union Cancel(r, now) \union Succeed(r, TRUE, now)

Transition ==
  \E now \in Times :
    /\ run # NoRun
    /\ now >= run.updatedAt
    /\ run' \in MethodResults(run, now)
    /\ run'.attempt <= MaxAttempts

Next == CreateRun \/ Transition

Spec == Init /\ [][Next]_vars

-----------------------------------------------------------------------------
(* Properties. *)

\* The values of the variable.
TypeOK == run \in Runs \union {NoRun}

\* Every run the machine can return passes assertWorkflowRun: the durable
\* store never refuses a transition of the machine because of its shape, in
\* particular never because an approval id repeats.
Persistable == run # NoRun => WellFormed(run)

\* A run is approved at most once, over all its attempts, and from then on
\* stays in publish: no failure and retry leads back to an approval.
ApprovedOnce ==
  run # NoRun =>
    /\ Len(run.approvalIds) <= 1
    /\ run.approvalIds # << >> => run.phase = "publish"

\* A failure reason is carried by failed runs and by no other: a retry, a
\* recovery or a cancellation never leaves one behind.
ReasonIffFailed ==
  run # NoRun => (run.failureReason # NoReason <=> run.status = "failed")

\* Attempt 0 means that no work was ever dispatched: the run is still in
\* phase start, and is queued, or was given up before it started.
AttemptZeroNeverRan ==
  run # NoRun => (run.attempt = 0 =>
    run.phase = "start" /\ run.status \in {"queued", "failed", "cancelled"})

\* How a transition may change a run, retries included: it keeps the risk
\* class and the approvals, never returns to an earlier phase or attempt, and
\* never leaves a cancelled or succeeded status.
MayBecome(r, q) ==
  /\ q.riskClass = r.riskClass
  /\ PhaseOrder[q.phase] >= PhaseOrder[r.phase]
  /\ q.attempt \in {r.attempt, r.attempt + 1}
  /\ ApprovalsExtend(r.approvalIds, q.approvalIds)
  /\ r.status \notin {"cancelled", "succeeded"}

\* No sequence of calls, retries and recoveries included, undoes what a run
\* has reached: every step of the machine is a MayBecome step.
Progresses == [][run # NoRun => MayBecome(run, run')]_vars
=============================================================================
