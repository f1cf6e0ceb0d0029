------------------------ MODULE WorkflowTransitions ------------------------
(***************************************************************************)
(* The transition function of an engineering workflow run, as the class    *)
(* WorkflowStateMachine computes it, and the two judgements the durable     *)
(* layer passes on its results: the shape check assertWorkflowRun and the  *)
(* replay check assertCheckpointTransition.                                 *)
(*                                                                         *)
(* The code's methods are pure: they take a run and return a new run, or   *)
(* throw.  Each is translated to an operator whose value is the set of      *)
(* runs it may return: a singleton, or {} where the method throws.          *)
(* The run's id is the index under which other modules keep it, and         *)
(* projectId and createdAt, which no transition changes, are left out.      *)
(***************************************************************************)
EXTENDS Naturals, Sequences

CONSTANTS
  RiskClasses,   \* risk classes in use, out of "R0" .. "R4"
  ApprovalIds,   \* identifiers an approver may present
  Reasons,       \* failure reasons (non-blank strings)
  NoReason,      \* failureReason is undefined
  Times,         \* the values of the caller's clock
  NoRun,         \* the run has not been created
  MaxAttempts    \* bound on attempt, for model checking

ASSUME TransitionsAssumption ==
  /\ RiskClasses \subseteq {"R0", "R1", "R2", "R3", "R4"}
  /\ NoReason \notin Reasons
  /\ Times \subseteq Nat

Phases == {"start", "classify", "compile_context", "execute",
           "verify", "review", "approval", "publish"}

Statuses == {"queued", "running", "waiting_external", "waiting_approval",
             "retrying", "failed", "cancelled", "succeeded"}

\* PHASE_ORDER, the position of a phase in PHASES counted from 0.
PhaseOrder ==
  [p \in Phases |->
     CASE p = "start"           -> 0
       [] p = "classify"        -> 1
       [] p = "compile_context" -> 2
       [] p = "execute"         -> 3
       [] p = "verify"          -> 4
       [] p = "review"          -> 5
       [] p = "approval"        -> 6
       [] p = "publish"         -> 7]

Runs == [riskClass     : RiskClasses,
         phase         : Phases,
         status        : Statuses,
         attempt       : Nat,
         approvalIds   : Seq(ApprovalIds),
         failureReason : Reasons \union {NoReason},
         updatedAt     : Times]

ASSUME RunAssumption == NoRun \notin Runs /\ MaxAttempts \in Nat

Returned(cond, run) == IF cond THEN {run} ELSE {}

IsTerminal(run) == run.status \in {"failed", "cancelled", "succeeded"}

-----------------------------------------------------------------------------
(* The methods of WorkflowStateMachine. *)

Create(risk, now) ==
  [riskClass |-> risk, phase |-> "start", status |-> "queued", attempt |-> 0,
   approvalIds |-> << >>, failureReason |-> NoReason, updatedAt |-> now]

Start(run, now) ==
  Returned(run.status = "queued",
           [run EXCEPT !.status = "running", !.phase = "classify",
                       !.attempt = 1, !.updatedAt = now])

\* The phase after p in PHASES; publish has none.
Successors(p) == {q \in Phases : PhaseOrder[q] = PhaseOrder[p] + 1}

\* Also legal in status retrying, at any phase but review and publish.
Advance(run, now) ==
  {[run EXCEPT !.status = "running", !.phase = q, !.updatedAt = now] :
     q \in {s \in Successors(run.phase) :
              /\ run.status \in {"running", "retrying"}
              /\ s # "approval"}}

RequestApproval(run, now) ==
  Returned(run.status = "running" /\ run.phase = "review",
           [run EXCEPT !.status = "waiting_approval", !.phase = "approval",
                       !.updatedAt = now])

Approve(run, approvalId, now) ==
  Returned(run.status = "waiting_approval" /\ run.phase = "approval",
           [run EXCEPT !.status = "running", !.phase = "publish",
                       !.approvalIds = Append(@, approvalId),
                       !.updatedAt = now])

SkipApproval(run, now) ==
  Returned(run.status = "running" /\ run.phase = "review",
           [run EXCEPT !.phase = "publish", !.updatedAt = now])

Pause(run, now) ==
  Returned(run.status \in {"running", "retrying"},
           [run EXCEPT !.status = "waiting_external", !.updatedAt = now])

Resume(run, now) ==
  Returned(run.status = "waiting_external",
           [run EXCEPT !.status = "running", !.updatedAt = now])

\* The phase is kept: a retry resumes where the run failed.
Retry(run, now) ==
  Returned(run.status = "failed",
           [run EXCEPT !.status = "retrying", !.attempt = @ + 1,
                       !.failureReason = NoReason, !.updatedAt = now])

Recover(run, now) ==
  Returned(run.status \in {"waiting_external", "retrying"},
           [run EXCEPT !.status = "running", !.updatedAt = now])

Fail(run, reason, now) ==
  Returned(~IsTerminal(run),
           [run EXCEPT !.status = "failed", !.failureReason = reason,
                       !.updatedAt = now])

Cancel(run, now) ==
  Returned(~IsTerminal(run),
           [run EXCEPT !.status = "cancelled", !.updatedAt = now])

Succeed(run, evidenceGatePassed, now) ==
  Returned(/\ run.status = "running"
           /\ run.phase = "publish"
           /\ evidenceGatePassed,
           [run EXCEPT !.status = "succeeded", !.updatedAt = now])

-----------------------------------------------------------------------------
(* What the durable layer accepts. *)

HasDuplicates(s) == \E i, j \in 1..Len(s) : i # j /\ s[i] = s[j]

\* assertWorkflowRun does not throw.
WellFormed(run) ==
  /\ ~HasDuplicates(run.approvalIds)
  /\ run.status = "failed" => run.failureReason # NoReason
  /\ run.status = "queued" => run.phase = "start" /\ run.attempt = 0
  /\ run.status = "waiting_approval" => run.phase = "approval"
  /\ run.status = "succeeded" => run.phase = "publish"
  /\ run.status \in {"running", "waiting_external", "waiting_approval", "retrying"}
       => run.attempt >= 1

\* assertInitialCheckpoint does not throw: createdAt is the run's updatedAt.
IsInitialCheckpoint(run) == run = Create(run.riskClass, run.updatedAt)

\* isPrefix(previous, next)
ApprovalsExtend(previous, next) ==
  /\ Len(previous) <= Len(next)
  /\ \A i \in 1..Len(previous) : previous[i] = next[i]

\* The runs some method returns from previous, replayed with the clock value
\* and the arguments read off next.
Candidates(previous, next) ==
  LET now == next.updatedAt IN
    Start(previous, now) \union Advance(previous, now)
      \union RequestApproval(previous, now)
      \union (IF Len(next.approvalIds) = Len(previous.approvalIds) + 1
                THEN Approve(previous, next.approvalIds[Len(next.approvalIds)], now)
                ELSE {})
      \union SkipApproval(previous, now) \union Pause(previous, now)
      \union Resume(previous, now) \union Retry(previous, now)
      \union Recover(previous, now)
      \union (IF next.failureReason # NoReason
                THEN Fail(previous, next.failureReason, now) ELSE {})
      \union Cancel(previous, now) \union Succeed(previous, TRUE, now)

\* Fault: the clock may run backwards.
IsTransitionAtAnyTime(previous, next) ==
  /\ previous.riskClass = next.riskClass
  /\ ApprovalsExtend(previous.approvalIds, next.approvalIds)
  /\ next \in Candidates(previous, next)

\* assertCheckpointTransition does not throw.
IsCheckpointTransition(previous, next) ==
  /\ previous.riskClass = next.riskClass
  /\ next.updatedAt >= previous.updatedAt
  /\ ApprovalsExtend(previous.approvalIds, next.approvalIds)
  /\ next \in Candidates(previous, next)

-----------------------------------------------------------------------------
(* planWorkflowRecovery. *)

RecoveryDisposition(run) ==
  CASE run.status = "queued"                    -> "safe_to_start"
    [] run.status = "waiting_approval"          -> "await_approval"
    [] run.status = "waiting_external"          -> "await_external"
    [] run.status = "running"                   -> "reconcile_runtime"
    [] run.status = "retrying"                  -> "reconcile_retry"
    [] run.status = "failed"                    -> "explicit_retry"
    [] run.status \in {"cancelled", "succeeded"} -> "terminal"

AutomaticResumeAllowed(run) == RecoveryDisposition(run) = "safe_to_start"

RuntimeReconciliationRequired(run) ==
  RecoveryDisposition(run) \in {"reconcile_runtime", "reconcile_retry"}
=============================================================================
