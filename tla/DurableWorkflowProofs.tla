------------------------ MODULE DurableWorkflowProofs ------------------------
(***************************************************************************)
(* Proofs about DurableWorkflow and the state machine it implements, for   *)
(* any number of callers and every choice of risk classes, approval ids,   *)
(* reasons, clock values and attempt bound.                                *)
(*                                                                         *)
(* The machine's inductive invariant is Shape: what a run in each status   *)
(* looks like.  Persistable alone is not inductive: that an approval id    *)
(* cannot repeat needs ApprovedOnce, which needs that publish is never     *)
(* left.  That of the durable workflow is DurableInv: the line a failed    *)
(* checkpoint left in the file, which no object has admitted yet, may      *)
(* follow the stored run.  Without it, reopening the store could jump      *)
(* anywhere.  What holds of the machine then holds of the stored run.      *)
(*                                                                         *)
(* What a call on an outdated copy may do rests on HeldInv: a copy is what *)
(* the stored run once was, and how far it may be behind.  Within one       *)
(* attempt a run never comes back to retrying, and does not leave the      *)
(* approval it waits for without an answer.                                *)
(***************************************************************************)
EXTENDS DurableWorkflow, TLAPS

\* The machine's inductive invariant, of the stored run.
Shape ==
  /\ Machine!TypeOK
  /\ Machine!Persistable
  /\ Machine!ApprovedOnce
  /\ Machine!ReasonIffFailed
  /\ Machine!AttemptZeroNeverRan

\* What the invariant says of one run.
GoodRun(r) ==
  /\ r \in Runs
  /\ WellFormed(r)
  /\ Len(r.approvalIds) <= 1
  /\ r.approvalIds # << >> => r.phase = "publish"
  /\ r.failureReason # NoReason <=> r.status = "failed"
  /\ r.attempt = 0 =>
       r.phase = "start" /\ r.status \in {"queued", "failed", "cancelled"}

\* next may follow previous in the file.
MayFollow(previous, next) ==
  /\ next \in Runs
  /\ next.attempt <= MaxAttempts \/ previous = NoRun
  /\ IF previous = NoRun THEN IsInitialCheckpoint(next)
                         ELSE IsCheckpointTransition(previous, next)

DurableInv ==
  /\ stored \in Runs \union {NoRun}
  /\ unadmitted # NoRun => MayFollow(stored, unadmitted)

-----------------------------------------------------------------------------
(* The machine's methods *)

\* The machine instantiated over the stored run has the methods of this
\* module.
LEMMA SameMethods ==
  ASSUME NEW r, NEW now
  PROVE  /\ Machine!Start(r, now) = Start(r, now)
         /\ Machine!Advance(r, now) = Advance(r, now)
         /\ Machine!RequestApproval(r, now) = RequestApproval(r, now)
         /\ Machine!SkipApproval(r, now) = SkipApproval(r, now)
         /\ Machine!Pause(r, now) = Pause(r, now)
         /\ Machine!Resume(r, now) = Resume(r, now)
         /\ Machine!Retry(r, now) = Retry(r, now)
         /\ Machine!Recover(r, now) = Recover(r, now)
         /\ Machine!Cancel(r, now) = Cancel(r, now)
         /\ Machine!Succeed(r, TRUE, now) = Succeed(r, TRUE, now)
         /\ \A a : Machine!Approve(r, a, now) = Approve(r, a, now)
         /\ \A reason : Machine!Fail(r, reason, now) = Fail(r, reason, now)
<1>1. Machine!Start(r, now) = Start(r, now)
  BY DEF Start, Machine!Start, Returned, Machine!Returned
<1>2. Machine!Advance(r, now) = Advance(r, now)
  BY DEF Advance, Machine!Advance, Successors, Machine!Successors,
         PhaseOrder, Machine!PhaseOrder, Phases, Machine!Phases
<1>3. Machine!RequestApproval(r, now) = RequestApproval(r, now)
  BY DEF RequestApproval, Machine!RequestApproval, Returned, Machine!Returned
<1>4. Machine!SkipApproval(r, now) = SkipApproval(r, now)
  BY DEF SkipApproval, Machine!SkipApproval, Returned, Machine!Returned
<1>5. Machine!Pause(r, now) = Pause(r, now)
  BY DEF Pause, Machine!Pause, Returned, Machine!Returned
<1>6. Machine!Resume(r, now) = Resume(r, now)
  BY DEF Resume, Machine!Resume, Returned, Machine!Returned
<1>7. Machine!Retry(r, now) = Retry(r, now)
  BY DEF Retry, Machine!Retry, Returned, Machine!Returned
<1>8. Machine!Recover(r, now) = Recover(r, now)
  BY DEF Recover, Machine!Recover, Returned, Machine!Returned
<1>9. Machine!Cancel(r, now) = Cancel(r, now)
  BY DEF Cancel, Machine!Cancel, Returned, Machine!Returned, IsTerminal, Machine!IsTerminal
<1>10. Machine!Succeed(r, TRUE, now) = Succeed(r, TRUE, now)
  BY DEF Succeed, Machine!Succeed, Returned, Machine!Returned
<1>11. \A a : Machine!Approve(r, a, now) = Approve(r, a, now)
  BY DEF Approve, Machine!Approve, Returned, Machine!Returned
<1>12. \A reason : Machine!Fail(r, reason, now) = Fail(r, reason, now)
  BY DEF Fail, Machine!Fail, Returned, Machine!Returned, IsTerminal, Machine!IsTerminal
<1> QED BY <1>1, <1>2, <1>3, <1>4, <1>5, <1>6, <1>7, <1>8, <1>9, <1>10, <1>11, <1>12

\* So are the judgements on a run and the order of the phases.
LEMMA SameJudgements ==
  /\ Machine!Runs = Runs
  /\ Machine!PhaseOrder = PhaseOrder
  /\ \A r : Machine!WellFormed(r) <=> WellFormed(r)
  /\ \A s, t : Machine!ApprovalsExtend(s, t) <=> ApprovalsExtend(s, t)
<1>1. Machine!Runs = Runs
  BY DEF Machine!Runs, Runs, Machine!Phases, Phases, Machine!Statuses, Statuses
<1>2. Machine!PhaseOrder = PhaseOrder
  BY DEF Machine!PhaseOrder, PhaseOrder, Machine!Phases, Phases
<1>3. \A r : Machine!WellFormed(r) <=> WellFormed(r)
  BY DEF Machine!WellFormed, WellFormed, Machine!HasDuplicates, HasDuplicates
<1>4. \A s, t : Machine!ApprovalsExtend(s, t) <=> ApprovalsExtend(s, t)
  BY DEF Machine!ApprovalsExtend, ApprovalsExtend
<1> QED BY <1>1, <1>2, <1>3, <1>4

\* The results of the methods, taken apart: a method that returns was legal.
LEMMA MethodCases ==
  ASSUME NEW r, NEW now, NEW q \in Machine!MethodResults(r, now)
  PROVE  \/ q \in Start(r, now)
         \/ q \in Advance(r, now)
         \/ q \in RequestApproval(r, now)
         \/ \E a \in ApprovalIds : q \in Approve(r, a, now)
         \/ q \in SkipApproval(r, now)
         \/ q \in Pause(r, now) \/ q \in Resume(r, now)
         \/ q \in Retry(r, now) \/ q \in Recover(r, now)
         \/ \E reason \in Reasons : q \in Fail(r, reason, now)
         \/ q \in Cancel(r, now)
         \/ q \in Succeed(r, TRUE, now)
<1>1. q \in Machine!ApproveResults(r, now)
        => \E a \in ApprovalIds : q \in Approve(r, a, now)
  BY SameMethods DEF Machine!ApproveResults
<1>2. q \in Machine!FailResults(r, now)
        => \E reason \in Reasons : q \in Fail(r, reason, now)
  BY SameMethods DEF Machine!FailResults
<1>3. \/ q \in Start(r, now) \/ q \in Advance(r, now)
      \/ q \in RequestApproval(r, now)
      \/ q \in Machine!ApproveResults(r, now)
      \/ q \in SkipApproval(r, now)
      \/ q \in Pause(r, now) \/ q \in Resume(r, now)
      \/ q \in Retry(r, now) \/ q \in Recover(r, now)
      \/ q \in Machine!FailResults(r, now)
      \/ q \in Cancel(r, now)
      \/ q \in Succeed(r, TRUE, now)
  BY SameMethods DEF Machine!MethodResults
<1> QED BY <1>1, <1>2, <1>3

\* A sequence of at most one element repeats nothing.
LEMMA ShortNoDuplicates ==
  ASSUME NEW s \in Seq(ApprovalIds), Len(s) <= 1
  PROVE  ~HasDuplicates(s)
BY DEF HasDuplicates

\* create() returns a run that satisfies the invariant.
LEMMA CreateGood ==
  ASSUME NEW risk \in RiskClasses, NEW now \in Times
  PROVE  GoodRun(Machine!Create(risk, now))
BY TransitionsAssumption
   DEF GoodRun, Machine!Create, Runs, WellFormed, HasDuplicates, Phases, Statuses

\* Every method keeps the invariant.
LEMMA MethodGood ==
  ASSUME NEW r, GoodRun(r), NEW now \in Times, NEW q \in Machine!MethodResults(r, now)
  PROVE  GoodRun(q)
<1> USE TransitionsAssumption DEF GoodRun, Runs, Returned, Phases, Statuses
<1>1. ASSUME q \in Runs, q.approvalIds = r.approvalIds,
             q.phase # r.phase => r.approvalIds = << >>,
             q.failureReason # NoReason <=> q.status = "failed",
             q.attempt = 0 =>
               q.phase = "start" /\ q.status \in {"queued", "failed", "cancelled"},
             q.status = "queued" => q.phase = "start" /\ q.attempt = 0,
             q.status = "waiting_approval" => q.phase = "approval",
             q.status = "succeeded" => q.phase = "publish"
      PROVE  GoodRun(q)
  <2>1. ~HasDuplicates(q.approvalIds)
    BY <1>1, ShortNoDuplicates
  <2>2. WellFormed(q)
    BY <1>1, <2>1 DEF WellFormed
  <2> QED BY <1>1, <2>2
<1>2. CASE q \in Start(r, now)
  <2>1. /\ r.status = "queued"
        /\ q = [r EXCEPT !.status = "running", !.phase = "classify",
                         !.attempt = 1, !.updatedAt = now]
    BY <1>2 DEF Start
  <2>2. r.phase = "start" /\ r.approvalIds = << >>
    BY <2>1 DEF WellFormed
  <2>3. q \in Runs
    BY <2>1
  <2> QED BY <1>1, <2>1, <2>2, <2>3
<1>3. CASE q \in Advance(r, now)
  <2>1. PICK p \in Successors(r.phase) :
          /\ q = [r EXCEPT !.status = "running", !.phase = p, !.updatedAt = now]
          /\ r.status \in {"running", "retrying"}
    BY <1>3 DEF Advance
  <2>2. p \in Phases /\ r.phase # "publish"
    BY <2>1 DEF Successors, PhaseOrder
  <2> QED BY <1>1, <2>1, <2>2 DEF WellFormed
<1>4. CASE q \in RequestApproval(r, now)
  BY <1>1, <1>4 DEF RequestApproval, WellFormed
<1>5. ASSUME NEW a \in ApprovalIds, q \in Approve(r, a, now)
      PROVE  GoodRun(q)
  <2>1. /\ r.status = "waiting_approval" /\ r.phase = "approval"
        /\ q = [r EXCEPT !.status = "running", !.phase = "publish",
                         !.approvalIds = Append(@, a), !.updatedAt = now]
    BY <1>5 DEF Approve
  <2>2. r.approvalIds = << >>
    BY <2>1
  <2>3. q.approvalIds = Append(<< >>, a)
    BY <2>1, <2>2
  <2>4. /\ Append(<< >>, a) \in Seq(ApprovalIds)
        /\ Len(Append(<< >>, a)) = 1
    OBVIOUS
  <2>5. q \in Runs
    BY <2>1, <2>3, <2>4
  <2>6. ~HasDuplicates(Append(<< >>, a))
    BY <2>4 DEF HasDuplicates
  <2>7. /\ q.status = "running" /\ q.phase = "publish"
        /\ q.attempt = r.attempt /\ q.failureReason = r.failureReason
    BY <2>1
  <2>8. q.attempt >= 1 /\ q.failureReason = NoReason
    BY <2>1, <2>7 DEF WellFormed
  <2>9. ~HasDuplicates(q.approvalIds) /\ Len(q.approvalIds) = 1
    BY <2>3, <2>4, <2>6
  <2>10. WellFormed(q)
    BY <2>7, <2>8, <2>9 DEF WellFormed
  <2> QED BY <2>5, <2>7, <2>8, <2>9, <2>10
<1>6. CASE q \in SkipApproval(r, now)
  BY <1>1, <1>6 DEF SkipApproval, WellFormed
<1>7. CASE q \in Pause(r, now) \/ q \in Resume(r, now)
  BY <1>1, <1>7 DEF Pause, Resume, WellFormed
<1>8. CASE q \in Retry(r, now)
  <2>1. /\ r.status = "failed"
        /\ q = [r EXCEPT !.status = "retrying", !.attempt = @ + 1,
                         !.failureReason = NoReason, !.updatedAt = now]
    BY <1>8 DEF Retry
  <2>2. r.attempt + 1 \in Nat /\ r.attempt + 1 # 0
    OBVIOUS
  <2>3. q = [r EXCEPT !.status = "retrying", !.attempt = r.attempt + 1,
                      !.failureReason = NoReason, !.updatedAt = now]
    BY <2>1
  <2>4. q \in Runs /\ q.attempt = r.attempt + 1
    BY <2>2, <2>3
  <2>5. q.attempt # 0
    BY <2>2, <2>4
  <2> QED BY <1>1, <2>1, <2>3, <2>4, <2>5
<1>12. CASE q \in Recover(r, now)
  BY <1>1, <1>12 DEF Recover, WellFormed
<1>9. ASSUME NEW reason \in Reasons, q \in Fail(r, reason, now)
      PROVE  GoodRun(q)
  BY <1>1, <1>9 DEF Fail, IsTerminal, WellFormed
<1>10. CASE q \in Cancel(r, now)
  BY <1>1, <1>10 DEF Cancel, IsTerminal, WellFormed
<1>11. CASE q \in Succeed(r, TRUE, now)
  BY <1>1, <1>11 DEF Succeed, WellFormed
<1> QED
  BY MethodCases, <1>2, <1>3, <1>4, <1>5, <1>6, <1>7, <1>8, <1>9, <1>10, <1>11, <1>12

\* The invariant says of the variable what GoodRun says of a run.
LEMMA ShapeIsGoodRun == Shape <=> (stored = NoRun \/ GoodRun(stored))
BY RunAssumption, SameJudgements DEF Shape, GoodRun, Machine!TypeOK, Machine!Persistable,
   Machine!ApprovedOnce, Machine!ReasonIffFailed, Machine!AttemptZeroNeverRan

\* Every step of the machine keeps it.
LEMMA ShapeStep == Shape /\ [Machine!Next]_(Machine!vars) => Shape'
<1> SUFFICES ASSUME Shape, [Machine!Next]_(Machine!vars) PROVE Shape'
  OBVIOUS
<1>1. (stored' = NoRun \/ GoodRun(stored')) => Shape'
  BY RunAssumption, SameJudgements DEF Shape, GoodRun, Machine!TypeOK, Machine!Persistable,
     Machine!ApprovedOnce, Machine!ReasonIffFailed, Machine!AttemptZeroNeverRan
<1>2. CASE Machine!CreateRun
  BY <1>1, <1>2, CreateGood DEF Machine!CreateRun
<1>3. CASE Machine!Transition
  BY <1>1, <1>3, ShapeIsGoodRun, MethodGood DEF Machine!Transition
<1>4. CASE UNCHANGED Machine!vars
  BY <1>1, <1>4, ShapeIsGoodRun DEF Machine!vars
<1> QED BY <1>2, <1>3, <1>4 DEF Machine!Next

\* Every method only moves a run forward.
LEMMA MethodProgress ==
  ASSUME NEW r, GoodRun(r), NEW now \in Times, NEW q \in Machine!MethodResults(r, now)
  PROVE  Machine!MayBecome(r, q)
<1> USE TransitionsAssumption, SameJudgements DEF GoodRun, Runs, Returned, Phases, Statuses
<1>1. \A p \in Phases : PhaseOrder[p] >= PhaseOrder[p]
  BY DEF PhaseOrder
<1>2. \A p \in Phases : PhaseOrder["publish"] >= PhaseOrder[p]
  BY DEF PhaseOrder
<1>3. ApprovalsExtend(r.approvalIds, r.approvalIds)
  BY DEF ApprovalsExtend
<1>4. CASE q \in Start(r, now)
  <2>1. /\ r.status = "queued" /\ q.phase = "classify" /\ q.attempt = 1
        /\ q.riskClass = r.riskClass /\ q.approvalIds = r.approvalIds
    BY <1>4 DEF Start
  <2>2. r.phase = "start" /\ r.attempt = 0
    BY <2>1 DEF WellFormed
  <2> QED BY <1>3, <2>1, <2>2 DEF Machine!MayBecome, PhaseOrder
<1>5. CASE q \in Advance(r, now)
  <2>1. PICK p \in Successors(r.phase) :
          /\ q = [r EXCEPT !.status = "running", !.phase = p, !.updatedAt = now]
          /\ r.status \in {"running", "retrying"}
    BY <1>5 DEF Advance
  <2>2. PhaseOrder[p] >= PhaseOrder[r.phase]
    BY <2>1 DEF Successors, PhaseOrder
  <2> QED BY <1>3, <2>1, <2>2 DEF Machine!MayBecome
<1>6. CASE q \in RequestApproval(r, now)
  <2>1. /\ r.status = "running" /\ r.phase = "review" /\ q.phase = "approval"
        /\ q.riskClass = r.riskClass /\ q.attempt = r.attempt
        /\ q.approvalIds = r.approvalIds
    BY <1>6 DEF RequestApproval
  <2>2. PhaseOrder["approval"] >= PhaseOrder["review"]
    BY DEF PhaseOrder
  <2> QED BY <1>3, <2>1, <2>2 DEF Machine!MayBecome
<1>7. ASSUME NEW a \in ApprovalIds, q \in Approve(r, a, now)
      PROVE  Machine!MayBecome(r, q)
  <2>1. /\ r.status = "waiting_approval" /\ q.phase = "publish"
        /\ q.riskClass = r.riskClass /\ q.attempt = r.attempt
        /\ q.approvalIds = Append(r.approvalIds, a)
    BY <1>7 DEF Approve
  <2>2. ApprovalsExtend(r.approvalIds, q.approvalIds)
    BY <2>1 DEF ApprovalsExtend
  <2> QED BY <1>2, <2>1, <2>2 DEF Machine!MayBecome
<1>8. CASE q \in SkipApproval(r, now)
  BY <1>2, <1>3, <1>8 DEF SkipApproval, Machine!MayBecome
<1>9. CASE q \in Pause(r, now) \/ q \in Resume(r, now)
  BY <1>1, <1>3, <1>9 DEF Pause, Resume, Machine!MayBecome
<1>10. CASE q \in Retry(r, now)
  <2>1. /\ r.status = "failed"
        /\ q = [r EXCEPT !.status = "retrying", !.attempt = r.attempt + 1,
                         !.failureReason = NoReason, !.updatedAt = now]
    BY <1>10 DEF Retry
  <2>2. /\ q.phase = r.phase /\ q.attempt = r.attempt + 1
        /\ q.riskClass = r.riskClass /\ q.approvalIds = r.approvalIds
    BY <2>1
  <2> QED BY <1>1, <1>3, <2>1, <2>2 DEF Machine!MayBecome
<1>14. CASE q \in Recover(r, now)
  BY <1>1, <1>3, <1>14 DEF Recover, Machine!MayBecome
<1>11. ASSUME NEW reason \in Reasons, q \in Fail(r, reason, now)
       PROVE  Machine!MayBecome(r, q)
  BY <1>1, <1>3, <1>11 DEF Fail, IsTerminal, Machine!MayBecome
<1>12. CASE q \in Cancel(r, now)
  BY <1>1, <1>3, <1>12 DEF Cancel, IsTerminal, Machine!MayBecome
<1>13. CASE q \in Succeed(r, TRUE, now)
  BY <1>1, <1>3, <1>13 DEF Succeed, Machine!MayBecome
<1> QED
  BY MethodCases, <1>4, <1>5, <1>6, <1>7, <1>8, <1>9, <1>10, <1>11, <1>12, <1>13, <1>14

-----------------------------------------------------------------------------
(* The durable workflow implements the machine *)

\* A run that passes the replay check is the result of a method of the
\* machine, called at the time and with the arguments read off the run.
LEMMA ReplayIsTransition ==
  ASSUME NEW previous \in Runs, NEW next \in Runs,
         IsCheckpointTransition(previous, next)
  PROVE  /\ next.updatedAt \in Times
         /\ next.updatedAt >= previous.updatedAt
         /\ next \in Machine!MethodResults(previous, next.updatedAt)
<1> DEFINE now == next.updatedAt
           n   == Len(next.approvalIds)
<1>1. now \in Times /\ now >= previous.updatedAt
  BY DEF IsCheckpointTransition, Runs
<1>2. next \in Candidates(previous, next)
  BY DEF IsCheckpointTransition
<1>3. ASSUME n = Len(previous.approvalIds) + 1,
             next \in Approve(previous, next.approvalIds[n], now)
      PROVE  next \in Machine!ApproveResults(previous, now)
  <2>1. next.approvalIds \in Seq(ApprovalIds) /\ previous.approvalIds \in Seq(ApprovalIds)
    BY DEF Runs
  <2>2. n \in 1..Len(next.approvalIds)
    BY <1>3, <2>1
  <2>3. next.approvalIds[n] \in ApprovalIds
    BY <2>1, <2>2
  <2> QED BY <1>3, <2>3, SameMethods DEF Machine!ApproveResults
<1>4. ASSUME next.failureReason # NoReason,
             next \in Fail(previous, next.failureReason, now)
      PROVE  next \in Machine!FailResults(previous, now)
  <2>1. next.failureReason \in Reasons
    BY <1>4 DEF Runs
  <2> QED BY <1>4, <2>1, SameMethods DEF Machine!FailResults
<1>5. \/ next \in Start(previous, now) \/ next \in Advance(previous, now)
      \/ next \in RequestApproval(previous, now)
      \/ n = Len(previous.approvalIds) + 1
           /\ next \in Approve(previous, next.approvalIds[n], now)
      \/ next \in SkipApproval(previous, now)
      \/ next \in Pause(previous, now) \/ next \in Resume(previous, now)
      \/ next \in Retry(previous, now) \/ next \in Recover(previous, now)
      \/ next.failureReason # NoReason
           /\ next \in Fail(previous, next.failureReason, now)
      \/ next \in Cancel(previous, now)
      \/ next \in Succeed(previous, TRUE, now)
  BY <1>2 DEF Candidates
<1>6. \/ next \in Start(previous, now) \/ next \in Advance(previous, now)
      \/ next \in RequestApproval(previous, now)
      \/ next \in Machine!ApproveResults(previous, now)
      \/ next \in SkipApproval(previous, now)
      \/ next \in Pause(previous, now) \/ next \in Resume(previous, now)
      \/ next \in Retry(previous, now) \/ next \in Recover(previous, now)
      \/ next \in Machine!FailResults(previous, now)
      \/ next \in Cancel(previous, now)
      \/ next \in Succeed(previous, TRUE, now)
  BY <1>3, <1>4, <1>5
<1>7. next \in Machine!MethodResults(previous, now)
  BY <1>6, SameMethods DEF Machine!MethodResults
<1> QED BY <1>1, <1>7

\* A step to a run that may follow is a step of the machine.
LEMMA FollowIsMachineStep ==
  ASSUME NEW next, stored \in Runs \union {NoRun},
         MayFollow(stored, next), stored' = next
  PROVE  Machine!Next
<1>1. CASE stored = NoRun
  <2>1. next \in Runs /\ next = Create(next.riskClass, next.updatedAt)
    BY <1>1 DEF MayFollow, IsInitialCheckpoint
  <2>2. next.riskClass \in RiskClasses /\ next.updatedAt \in Times
    BY <2>1 DEF Runs
  <2> QED BY <1>1, <2>1, <2>2
         DEF Machine!Next, Machine!CreateRun, Create, Machine!Create
<1>2. CASE stored # NoRun
  <2>1. /\ stored \in Runs /\ next \in Runs /\ next.attempt <= MaxAttempts
        /\ IsCheckpointTransition(stored, next)
    BY <1>2 DEF MayFollow
  <2>2. /\ next.updatedAt \in Times
        /\ next.updatedAt >= stored.updatedAt
        /\ next \in Machine!MethodResults(stored, next.updatedAt)
    BY <2>1, ReplayIsTransition
  <2> QED BY <1>2, <2>1, <2>2 DEF Machine!Next, Machine!Transition
<1> QED BY <1>1, <1>2

\* A checkpoint stores a run that may follow, or leaves one in the file.
LEMMA PersistFollows ==
  ASSUME NEW c \in Callers, NEW run, Persist(c, run),
         run.attempt <= MaxAttempts \/ stored = NoRun
  PROVE  /\ run \in Runs
         /\ MayFollow(stored, run)
         /\ unadmitted = NoRun
         /\ \/ stored' = run /\ unadmitted' = NoRun
            \/ stored' = stored /\ unadmitted' = run
BY DEF Persist, Accepts, MayFollow

\* What every step does to the stored run and the line in doubt.
LEMMA StepKinds ==
  ASSUME DurableInv, [Next]_vars
  PROVE  \/ UNCHANGED << stored, unadmitted >>
         \/ \E run \in Runs :
              /\ MayFollow(stored, run)
              /\ \/ stored' = run /\ unadmitted' = NoRun
                 \/ stored' = stored /\ unadmitted' = run
<1>1. ASSUME NEW c \in Callers, CreateRun(c)
      PROVE  \E run \in Runs :
               /\ MayFollow(stored, run)
               /\ \/ stored' = run /\ unadmitted' = NoRun
                  \/ stored' = stored /\ unadmitted' = run
  <2>1. PICK risk \in RiskClasses, now \in Times : Persist(c, Create(risk, now))
    BY <1>1 DEF CreateRun
  <2>2. stored = NoRun \/ Create(risk, now).attempt <= MaxAttempts
    BY RunAssumption DEF Create
  <2> QED BY <2>1, <2>2, PersistFollows
<1>2. ASSUME NEW c \in Callers, NEW method \in Methods, NEW now \in Times,
             Call(c, method, now)
      PROVE  \E run \in Runs :
               /\ MayFollow(stored, run)
               /\ \/ stored' = run /\ unadmitted' = NoRun
                  \/ stored' = stored /\ unadmitted' = run
  BY <1>2, PersistFollows DEF Call
<1>3. CASE Reopen
  BY <1>3 DEF Reopen, DurableInv, MayFollow
<1>4. ASSUME NEW c \in Callers, Load(c)
      PROVE  UNCHANGED << stored, unadmitted >>
  BY <1>4 DEF Load
<1>5. CASE Crash
  BY <1>5 DEF Crash
<1> QED BY <1>1, <1>2, <1>3, <1>4, <1>5 DEF Next, vars

\* The line in doubt may always follow the stored run.
THEOREM DurableInvariant == Spec => []DurableInv
<1>1. Init => DurableInv
  BY DEF Init, DurableInv
<1>2. DurableInv /\ [Next]_vars => DurableInv'
  <2> SUFFICES ASSUME DurableInv, [Next]_vars PROVE DurableInv'
    OBVIOUS
  <2> QED BY StepKinds DEF DurableInv, MayFollow
<1> QED BY <1>1, <1>2, PTL DEF Spec

\* Whatever callers hold and whichever checkpoints fail, the stored run goes
\* through the states of WorkflowStateMachine.
THEOREM DurableImplementsMachine == Spec => ImplementsMachine
<1>1. Init => Machine!Init
  BY DEF Init, Machine!Init
<1>2. DurableInv /\ [Next]_vars => [Machine!Next]_(Machine!vars)
  <2> SUFFICES ASSUME DurableInv, [Next]_vars, stored' # stored
               PROVE  Machine!Next
    BY DEF Machine!vars
  <2>1. PICK run \in Runs : MayFollow(stored, run) /\ stored' = run
    BY StepKinds
  <2> QED BY <2>1, FollowIsMachineStep DEF DurableInv
<1> QED BY <1>1, <1>2, DurableInvariant, PTL
        DEF Spec, ImplementsMachine, Machine!Spec
-----------------------------------------------------------------------------
(* What holds of the machine holds of the stored run *)

\* Every run the store ever has, over any number of attempts, callers, failing
\* checkpoints and restarts, has the shape the store demands, is approved at
\* most once, carries a failure reason exactly when failed, and has attempt 0
\* only before any work.
THEOREM ShapeInvariant == Spec => []Shape
<1>1. Machine!Init => Shape
  BY ShapeIsGoodRun DEF Machine!Init
<1>2. Machine!Spec => []Shape
  BY <1>1, ShapeStep, PTL DEF Machine!Spec
<1> QED BY <1>2, DurableImplementsMachine, PTL DEF ImplementsMachine

\* No sequence of calls, by whichever callers, undoes what a run has reached.
THEOREM ProgressesHolds == Spec => Machine!Progresses
<1>1. Shape /\ [Machine!Next]_(Machine!vars)
        => [stored # NoRun => Machine!MayBecome(stored, stored')]_(Machine!vars)
  <2> SUFFICES ASSUME Shape, Machine!Next, stored # NoRun
               PROVE Machine!MayBecome(stored, stored')
    BY DEF Machine!vars
  <2>1. GoodRun(stored)
    BY ShapeIsGoodRun
  <2> QED BY <2>1, MethodProgress DEF Machine!Next, Machine!CreateRun, Machine!Transition
<1>2. Machine!Spec /\ []Shape => Machine!Progresses
  BY <1>1, PTL DEF Machine!Spec, Machine!Progresses
<1> QED BY <1>2, ShapeInvariant, DurableImplementsMachine, PTL DEF ImplementsMachine

\* The durable store never refuses a machine's result for its shape.
THEOREM PersistableHolds == Spec => []Machine!Persistable
<1>1. Shape => Machine!Persistable
  BY DEF Shape
<1> QED BY <1>1, ShapeInvariant, PTL

\* A run is approved at most once and never leaves publish afterwards.
THEOREM ApprovedOnceHolds == Spec => []Machine!ApprovedOnce
<1>1. Shape => Machine!ApprovedOnce
  BY DEF Shape
<1> QED BY <1>1, ShapeInvariant, PTL

-----------------------------------------------------------------------------
(* Calls on outdated copies *)

\* h may be a copy of what s is by now.  In one attempt only the copy itself
\* is about to be retried, and what has got to the approval waits for it.
Past(h, s) ==
  /\ h.attempt <= s.attempt
  /\ PhaseOrder[h.phase] <= PhaseOrder[s.phase]
  /\ Len(h.approvalIds) <= Len(s.approvalIds)
  /\ h.attempt = s.attempt =>
       /\ s.status = "retrying" => h = s
       /\ h.phase # "approval" /\ s.phase = "approval" =>
            s.status \in {"waiting_approval", "failed", "cancelled"}

\* The first attempt is a retry only of a run that failed in the queue.
RetriedFromTheQueue(r) == r.status = "retrying" /\ r.attempt = 1 => r.phase = "start"

\* Callers have copies of what the stored run once was.
HeldInv ==
  /\ held \in [Callers -> Runs \union {NoRun}]
  /\ stored # NoRun => RetriedFromTheQueue(stored)
  /\ \A c \in Callers :
       held[c] # NoRun => /\ stored # NoRun
                          /\ GoodRun(held[c])
                          /\ Past(held[c], stored)

\* Every run is a copy of itself, and stays a copy of what becomes of it.
LEMMA PastIsReflexive == ASSUME NEW r, GoodRun(r) PROVE Past(r, r)
BY DEF Past, GoodRun, Runs, Phases, PhaseOrder

LEMMA PastGrows ==
  ASSUME NEW h, GoodRun(h), NEW s, GoodRun(s), Past(h, s),
         NEW now \in Times, NEW q \in Machine!MethodResults(s, now)
  PROVE  Past(h, q)
<1> USE DEF Returned
<1>1. /\ PhaseOrder[q.phase] >= PhaseOrder[s.phase]
      /\ q.attempt \in {s.attempt, s.attempt + 1}
      /\ Len(s.approvalIds) <= Len(q.approvalIds)
  BY MethodProgress, SameJudgements DEF Machine!MayBecome, ApprovalsExtend
<1>2. GoodRun(q)
  BY MethodGood
<1>3. \A p \in Phases : PhaseOrder[p] \in Nat
  BY DEF PhaseOrder, Phases
<1>4. /\ h.attempt \in Nat /\ s.attempt \in Nat /\ q.attempt \in Nat
      /\ h.phase \in Phases /\ s.phase \in Phases /\ q.phase \in Phases
      /\ Len(h.approvalIds) \in Nat /\ Len(s.approvalIds) \in Nat
      /\ Len(q.approvalIds) \in Nat
  BY <1>2 DEF GoodRun, Runs
<1>5. /\ h.attempt <= q.attempt
      /\ PhaseOrder[h.phase] <= PhaseOrder[q.phase]
      /\ Len(h.approvalIds) <= Len(q.approvalIds)
  BY <1>1, <1>3, <1>4 DEF Past
<1>6. ASSUME h.attempt = q.attempt
      PROVE  /\ q.status # "retrying"
             /\ h.phase # "approval" /\ q.phase = "approval" =>
                  q.status \in {"waiting_approval", "failed", "cancelled"}
  <2>1. h.attempt = s.attempt /\ q.attempt = s.attempt
    BY <1>1, <1>4, <1>6 DEF Past
  <2>2. h.phase # "approval" /\ s.phase = "approval" =>
          s.status \in {"waiting_approval", "failed", "cancelled"}
    BY <2>1 DEF Past
  <2>3. q.status # "retrying" /\ (h.phase # "approval" /\ q.phase = "approval" =>
          q.status \in {"waiting_approval", "failed", "cancelled"})
    <3>1. CASE q \in Start(s, now)
      BY <3>1 DEF Start, GoodRun, Runs
    <3>2. CASE q \in Advance(s, now)
      BY <3>2 DEF Advance, GoodRun, Runs
    <3>3. CASE q \in RequestApproval(s, now)
      BY <3>3 DEF RequestApproval, GoodRun, Runs
    <3>4. ASSUME NEW a \in ApprovalIds, q \in Approve(s, a, now)
          PROVE  q.status = "running" /\ q.phase = "publish"
      BY <3>4 DEF Approve, GoodRun, Runs
    <3>5. CASE q \in SkipApproval(s, now)
      BY <3>5 DEF SkipApproval, GoodRun, Runs
    <3>6. CASE q \in Pause(s, now) \/ q \in Resume(s, now) \/ q \in Recover(s, now)
      <4>1. CASE s.status = "retrying"
        <5>1. h = s
          BY <2>1, <4>1 DEF Past
        <5> QED BY <3>6, <5>1 DEF Pause, Resume, Recover, GoodRun, Runs
      <4>2. CASE s.status # "retrying"
        BY <2>2, <3>6, <4>2 DEF Pause, Resume, Recover, GoodRun, Runs
      <4> QED BY <4>1, <4>2
    <3>7. CASE q \in Retry(s, now)
      <4>1. q.attempt = s.attempt + 1
        BY <3>7 DEF Retry, GoodRun, Runs
      <4> QED BY <1>4, <2>1, <4>1
    <3>8. ASSUME NEW reason \in Reasons, q \in Fail(s, reason, now)
          PROVE  q.status = "failed"
      BY <3>8 DEF Fail, GoodRun, Runs
    <3>9. CASE q \in Cancel(s, now)
      BY <3>9 DEF Cancel, GoodRun, Runs
    <3>10. CASE q \in Succeed(s, TRUE, now)
      BY <3>10 DEF Succeed, GoodRun, Runs
    <3> QED BY MethodCases, <3>1, <3>2, <3>3, <3>4, <3>5, <3>6, <3>7, <3>8, <3>9, <3>10
  <2> QED BY <2>3
<1>7. h.attempt = q.attempt =>
        /\ q.status = "retrying" => h = q
        /\ h.phase # "approval" /\ q.phase = "approval" =>
             q.status \in {"waiting_approval", "failed", "cancelled"}
  BY <1>6
<1> QED BY <1>5, <1>7, Zenon DEF Past

\* A retry of the first attempt finds the run where it was queued.
LEMMA RetriedFromTheQueueKept ==
  ASSUME NEW s, GoodRun(s), NEW now \in Times, NEW q \in Machine!MethodResults(s, now)
  PROVE  RetriedFromTheQueue(q)
<1> USE DEF Returned, GoodRun, Runs
<1>1. CASE q \in Retry(s, now)
  <2>1. q.attempt = s.attempt + 1 /\ q.phase = s.phase
    BY <1>1 DEF Retry
  <2>2. s.attempt \in Nat
    OBVIOUS
  <2>3. q.attempt = 1 => s.attempt = 0
    BY <2>1, <2>2
  <2> QED BY <2>1, <2>3 DEF RetriedFromTheQueue
<1>2. CASE q \notin Retry(s, now)
  <2>1. q.status # "retrying"
    <3>1. CASE q \in Start(s, now) \/ q \in Advance(s, now) \/ q \in RequestApproval(s, now)
      BY <3>1 DEF Start, Advance, RequestApproval
    <3>2. ASSUME NEW a \in ApprovalIds, q \in Approve(s, a, now) PROVE q.status = "running"
      BY <3>2 DEF Approve
    <3>3. CASE \/ q \in SkipApproval(s, now) \/ q \in Pause(s, now)
               \/ q \in Resume(s, now) \/ q \in Recover(s, now)
      BY <3>3 DEF SkipApproval, Pause, Resume, Recover
    <3>4. ASSUME NEW reason \in Reasons, q \in Fail(s, reason, now) PROVE q.status = "failed"
      BY <3>4 DEF Fail
    <3>5. CASE q \in Cancel(s, now) \/ q \in Succeed(s, TRUE, now)
      BY <3>5 DEF Cancel, Succeed
    <3> QED BY MethodCases, <1>2, <3>1, <3>2, <3>3, <3>4, <3>5
  <2> QED BY <2>1 DEF RetriedFromTheQueue
<1> QED BY <1>1, <1>2

\* A step leaves a caller the copy it had, gives it the stored run, or takes
\* it away; the store never forgets the run.
LEMMA HeldKinds ==
  ASSUME HeldInv, DurableInv, [Next]_vars
  PROVE  /\ held' \in [Callers -> Runs \union {NoRun}]
         /\ stored # NoRun => stored' # NoRun
         /\ \A c \in Callers : held'[c] \in {held[c], stored', NoRun}
<1> USE RunAssumption
<1>1. ASSUME NEW c \in Callers, NEW run, Persist(c, run)
      PROVE  /\ held' \in [Callers -> Runs \union {NoRun}]
             /\ stored # NoRun => stored' # NoRun
             /\ \A d \in Callers : held'[d] \in {held[d], stored', NoRun}
  <2>1. run \in Runs /\ run # NoRun
    BY <1>1 DEF Persist, Accepts
  <2>2. CASE stored' = run /\ held' = [held EXCEPT ![c] = run]
    BY <2>1, <2>2 DEF HeldInv
  <2>3. CASE UNCHANGED << stored, held >>
    BY <2>3 DEF HeldInv
  <2> QED BY <1>1, <2>2, <2>3 DEF Persist
<1>2. ASSUME NEW c \in Callers, Load(c)
      PROVE  /\ held' \in [Callers -> Runs \union {NoRun}]
             /\ stored # NoRun => stored' # NoRun
             /\ \A d \in Callers : held'[d] \in {held[d], stored', NoRun}
  BY <1>2 DEF Load, HeldInv, DurableInv
<1>3. CASE Reopen
  BY <1>3 DEF Reopen, HeldInv
<1>4. CASE Crash
  BY <1>4 DEF Crash, HeldInv
<1>5. CASE UNCHANGED vars
  BY <1>5 DEF vars, HeldInv
<1> QED BY <1>1, <1>2, <1>3, <1>4, <1>5 DEF Next, CreateRun, Call

\* Whoever holds a copy of the run holds what it once was.
THEOREM HeldInvariant == Spec => []HeldInv
<1>1. Init => HeldInv
  BY DEF Init, HeldInv
<1>2. DurableInv /\ Shape /\ Shape' /\ HeldInv /\ [Next]_vars => HeldInv'
  <2> SUFFICES ASSUME DurableInv, Shape, Shape', HeldInv, [Next]_vars PROVE HeldInv'
    OBVIOUS
  <2>1. /\ held' \in [Callers -> Runs \union {NoRun}]
        /\ stored # NoRun => stored' # NoRun
        /\ \A c \in Callers : held'[c] \in {held[c], stored', NoRun}
    BY HeldKinds
  <2>2. stored' # NoRun => GoodRun(stored')
    BY SameJudgements, RunAssumption
       DEF Shape, GoodRun, Machine!TypeOK, Machine!Persistable,
           Machine!ApprovedOnce, Machine!ReasonIffFailed, Machine!AttemptZeroNeverRan
  <2>3. /\ stored' # NoRun => RetriedFromTheQueue(stored')
        /\ stored # NoRun => \A h : GoodRun(h) /\ Past(h, stored) => Past(h, stored')
    <3>1. CASE stored' = stored
      BY <3>1 DEF HeldInv
    <3>2. CASE stored' # stored
      <4>1. PICK run \in Runs : MayFollow(stored, run) /\ stored' = run
        BY <3>2, StepKinds
      <4>2. CASE stored = NoRun
        BY <4>1, <4>2 DEF MayFollow, IsInitialCheckpoint, Create, RetriedFromTheQueue
      <4>3. CASE stored # NoRun
        <5>1. GoodRun(stored) /\ stored \in Runs
          BY <4>3, ShapeIsGoodRun DEF GoodRun
        <5>2. run.updatedAt \in Times /\ run \in Machine!MethodResults(stored, run.updatedAt)
          BY <4>1, <4>3, <5>1, ReplayIsTransition DEF MayFollow
        <5> QED BY <4>1, <5>1, <5>2, PastGrows, RetriedFromTheQueueKept
      <4> QED BY <4>2, <4>3
    <3> QED BY <3>1, <3>2
  <2>4. ASSUME NEW c \in Callers, held'[c] # NoRun
        PROVE  stored' # NoRun /\ GoodRun(held'[c]) /\ Past(held'[c], stored')
    <3>1. CASE held'[c] = held[c]
      BY <2>1, <2>3, <2>4, <3>1 DEF HeldInv
    <3>2. CASE held'[c] = stored'
      BY <2>2, <2>4, <3>2, PastIsReflexive
    <3> QED BY <2>1, <2>4, <3>1, <3>2
  <2> QED BY <2>1, <2>3, <2>4 DEF HeldInv
<1> QED BY <1>1, <1>2, DurableInvariant, ShapeInvariant, PTL DEF Spec

\* Which methods lead to a status.
LEMMA ByStatus ==
  ASSUME NEW r, GoodRun(r), NEW now, NEW q \in Machine!MethodResults(r, now)
  PROVE  /\ q.status = "waiting_approval" => q \in RequestApproval(r, now)
         /\ q.status = "waiting_external" => q \in Pause(r, now)
         /\ q.status = "retrying" => q \in Retry(r, now)
         /\ q.status = "failed" => \E reason \in Reasons : q \in Fail(r, reason, now)
         /\ q.status = "cancelled" => q \in Cancel(r, now)
         /\ q.status = "succeeded" => q \in Succeed(r, TRUE, now)
         /\ q.status = "running" =>
              \/ q \in Start(r, now) \/ q \in Advance(r, now)
              \/ \E a \in ApprovalIds : q \in Approve(r, a, now)
              \/ q \in SkipApproval(r, now)
              \/ q \in Resume(r, now) \/ q \in Recover(r, now)
<1> USE DEF Returned, GoodRun, Runs
<1>1. q \in Start(r, now) \/ q \in Advance(r, now) => q.status = "running"
  BY DEF Start, Advance
<1>2. q \in RequestApproval(r, now) => q.status = "waiting_approval"
  BY DEF RequestApproval
<1>3. \A a : q \in Approve(r, a, now) => q.status = "running"
  BY DEF Approve
<1>4. q \in SkipApproval(r, now) \/ q \in Resume(r, now) \/ q \in Recover(r, now)
        => q.status = "running"
  BY DEF SkipApproval, Resume, Recover
<1>5. q \in Pause(r, now) => q.status = "waiting_external"
  BY DEF Pause
<1>6. q \in Retry(r, now) => q.status = "retrying"
  BY DEF Retry
<1>7. \A reason : q \in Fail(r, reason, now) => q.status = "failed"
  BY DEF Fail
<1>8. q \in Cancel(r, now) => q.status = "cancelled"
  BY DEF Cancel
<1>9. q \in Succeed(r, TRUE, now) => q.status = "succeeded"
  BY DEF Succeed
<1> HIDE DEF GoodRun, Runs, Returned
<1> QED BY MethodCases, <1>1, <1>2, <1>3, <1>4, <1>5, <1>6, <1>7, <1>8, <1>9

\* The results of a method called by its name.
LEMMA OutcomesOfMethods ==
  ASSUME NEW r, NEW now
  PROVE  /\ Outcomes("start", r, now) = Start(r, now)
         /\ Outcomes("advance", r, now) = Advance(r, now)
         /\ Outcomes("requestApproval", r, now) = RequestApproval(r, now)
         /\ \A q : q \in Outcomes("approve", r, now)
                    <=> \E a \in ApprovalIds : q \in Approve(r, a, now)
         /\ Outcomes("skipApproval", r, now) = SkipApproval(r, now)
         /\ Outcomes("pause", r, now) = Pause(r, now)
         /\ Outcomes("resume", r, now) = Resume(r, now)
         /\ Outcomes("retry", r, now) = Retry(r, now)
         /\ Outcomes("recover", r, now) = Recover(r, now)
         /\ \A q : q \in Outcomes("fail", r, now)
                    <=> \E reason \in Reasons : q \in Fail(r, reason, now)
         /\ Outcomes("cancel", r, now) = Cancel(r, now)
         /\ Outcomes("succeed", r, now) = Succeed(r, TRUE, now)
<1>1. Machine!ApproveResults(r, now) = UNION {Machine!Approve(r, a, now) : a \in ApprovalIds}
  BY DEF Machine!ApproveResults
<1>2. Machine!FailResults(r, now) = UNION {Machine!Fail(r, reason, now) : reason \in Reasons}
  BY DEF Machine!FailResults
<1>3. \A q : q \in Machine!ApproveResults(r, now)
               <=> \E a \in ApprovalIds : q \in Approve(r, a, now)
  BY <1>1, SameMethods
<1>4. \A q : q \in Machine!FailResults(r, now)
               <=> \E reason \in Reasons : q \in Fail(r, reason, now)
  BY <1>2, SameMethods
<1> QED BY <1>3, <1>4 DEF Outcomes

\* Every method gives its run the time it was called at.
LEMMA OutcomesAreNow ==
  ASSUME NEW h, GoodRun(h), NEW method \in Methods, NEW now,
         NEW q \in Outcomes(method, h, now)
  PROVE  q.updatedAt = now
<1> USE DEF Returned, GoodRun, Runs
<1>1. CASE method = "start"
  <2>1. q \in Start(h, now)
    BY <1>1, OutcomesOfMethods
  <2> QED BY <2>1 DEF Start
<1>2. CASE method = "advance"
  <2>1. q \in Advance(h, now)
    BY <1>2, OutcomesOfMethods
  <2> QED BY <2>1 DEF Advance
<1>3. CASE method = "requestApproval"
  <2>1. q \in RequestApproval(h, now)
    BY <1>3, OutcomesOfMethods
  <2> QED BY <2>1 DEF RequestApproval
<1>4. CASE method = "approve"
  <2>1. PICK a \in ApprovalIds : q \in Approve(h, a, now)
    BY <1>4, OutcomesOfMethods
  <2> QED BY <2>1 DEF Approve
<1>5. CASE method = "skipApproval"
  <2>1. q \in SkipApproval(h, now)
    BY <1>5, OutcomesOfMethods
  <2> QED BY <2>1 DEF SkipApproval
<1>6. CASE method = "pause"
  <2>1. q \in Pause(h, now)
    BY <1>6, OutcomesOfMethods
  <2> QED BY <2>1 DEF Pause
<1>7. CASE method = "resume"
  <2>1. q \in Resume(h, now)
    BY <1>7, OutcomesOfMethods
  <2> QED BY <2>1 DEF Resume
<1>8. CASE method = "retry"
  <2>1. q \in Retry(h, now)
    BY <1>8, OutcomesOfMethods
  <2> QED BY <2>1 DEF Retry
<1>9. CASE method = "recover"
  <2>1. q \in Recover(h, now)
    BY <1>9, OutcomesOfMethods
  <2> QED BY <2>1 DEF Recover
<1>10. CASE method = "fail"
  <2>1. PICK reason \in Reasons : q \in Fail(h, reason, now)
    BY <1>10, OutcomesOfMethods
  <2> QED BY <2>1 DEF Fail
<1>11. CASE method = "cancel"
  <2>1. q \in Cancel(h, now)
    BY <1>11, OutcomesOfMethods
  <2> QED BY <2>1 DEF Cancel
<1>12. CASE method = "succeed"
  <2>1. q \in Succeed(h, TRUE, now)
    BY <1>12, OutcomesOfMethods
  <2> QED BY <2>1 DEF Succeed
<1> QED BY <1>1, <1>2, <1>3, <1>4, <1>5, <1>6, <1>7, <1>8, <1>9, <1>10, <1>11, <1>12 DEF Methods

\* An approval adds one id and leads to publish.
LEMMA ApproveAdds ==
  ASSUME NEW r, GoodRun(r), NEW a \in ApprovalIds, NEW now, NEW q \in Approve(r, a, now)
  PROVE  /\ r.status = "waiting_approval" /\ r.phase = "approval"
         /\ q.status = "running" /\ q.phase = "publish" /\ q.attempt = r.attempt
         /\ Len(q.approvalIds) = Len(r.approvalIds) + 1
<1>1. /\ r.status = "waiting_approval" /\ r.phase = "approval"
      /\ q = [r EXCEPT !.status = "running", !.phase = "publish",
                       !.approvalIds = Append(r.approvalIds, a), !.updatedAt = now]
  BY DEF Approve, Returned
<1>2. /\ q.status = "running" /\ q.phase = "publish" /\ q.attempt = r.attempt
      /\ q.approvalIds = Append(r.approvalIds, a)
  BY <1>1 DEF GoodRun, Runs
<1>3. r.approvalIds \in Seq(ApprovalIds)
  BY DEF GoodRun, Runs
<1>4. Len(Append(r.approvalIds, a)) = Len(r.approvalIds) + 1
  BY <1>3
<1> QED BY <1>1, <1>2, <1>4

\* A call on an outdated copy whose result the store accepts: the store
\* replays it from the stored run, and either the same method leads there, or
\* a resume, or for a start an advance.
LEMMA OutdatedCall ==
  ASSUME NEW h, GoodRun(h), NEW s, GoodRun(s), Past(h, s), h # s,
         RetriedFromTheQueue(s),
         NEW method \in Methods, NEW now,
         NEW q \in Outcomes(method, h, now), q \in Runs,
         IsCheckpointTransition(s, q)
  PROVE  \/ q \in Outcomes(method, s, now)
         \/ q \in Resume(s, now)
         \/ method = "start" /\ q \in Advance(s, now)
<1>1. q.updatedAt = now /\ q \in Machine!MethodResults(s, now)
  BY OutcomesAreNow, ReplayIsTransition DEF GoodRun
<1>2. /\ \A p \in Phases : PhaseOrder[p] \in Nat
      /\ h.attempt \in Nat /\ s.attempt \in Nat
      /\ h.phase \in Phases /\ s.phase \in Phases /\ q.phase \in Phases
      /\ Len(h.approvalIds) \in Nat /\ Len(s.approvalIds) \in Nat
  BY DEF PhaseOrder, Phases, GoodRun, Runs
<1>3. /\ h.attempt <= s.attempt
      /\ PhaseOrder[h.phase] <= PhaseOrder[s.phase]
      /\ Len(h.approvalIds) <= Len(s.approvalIds)
      /\ s.status = "retrying" => h.attempt # s.attempt
      /\ h.attempt = s.attempt /\ h.phase # "approval" /\ s.phase = "approval" =>
           s.status \in {"waiting_approval", "failed", "cancelled"}
  BY DEF Past
<1>4. /\ h.status = "queued" => h.attempt = 0
      /\ h.status \in {"running", "waiting_external", "waiting_approval", "retrying"} =>
           h.attempt >= 1
  BY DEF GoodRun, WellFormed
\* What the replay from s may be.
<1>5. q \in Start(s, now) =>
        /\ s.attempt = 0 /\ q.attempt = 1 /\ q.phase = "classify"
  BY DEF Start, Returned, GoodRun, WellFormed, Runs
<1>6. ASSUME q \in Advance(s, now)
      PROVE  /\ s.status \in {"running", "retrying"}
             /\ PhaseOrder[q.phase] = PhaseOrder[s.phase] + 1
             /\ q.attempt = s.attempt /\ q.approvalIds = s.approvalIds
  <2>1. PICK p \in Successors(s.phase) :
          /\ q = [s EXCEPT !.status = "running", !.phase = p, !.updatedAt = now]
          /\ s.status \in {"running", "retrying"}
    BY <1>6 DEF Advance
  <2>2. q.phase = p /\ q.attempt = s.attempt /\ q.approvalIds = s.approvalIds
    BY <2>1 DEF GoodRun, Runs
  <2> QED BY <2>1, <2>2 DEF Successors
<1>7. \A a \in ApprovalIds : q \in Approve(s, a, now) =>
        /\ s.phase = "approval" /\ q.phase = "publish"
        /\ Len(q.approvalIds) = Len(s.approvalIds) + 1
  BY ApproveAdds
<1>8. q \in SkipApproval(s, now) =>
        /\ s.phase = "review" /\ q.phase = "publish"
        /\ q.attempt = s.attempt /\ q.approvalIds = s.approvalIds
  BY DEF SkipApproval, Returned, GoodRun, Runs
<1>9. q \in Recover(s, now) =>
        \/ q \in Resume(s, now)
        \/ q.attempt = s.attempt /\ s.attempt # h.attempt
  BY <1>3 DEF Recover, Resume, Returned, GoodRun, Runs
<1>10. q.status = "running" =>
         \/ q \in Start(s, now) \/ q \in Advance(s, now)
         \/ \E a \in ApprovalIds : q \in Approve(s, a, now)
         \/ q \in SkipApproval(s, now)
         \/ q \in Resume(s, now) \/ q \in Recover(s, now)
  BY <1>1, ByStatus
\* A result in the phase its copy is in is a resume.
<1>11. ASSUME q.status = "running", q.phase = h.phase, q.attempt = h.attempt, h.attempt >= 1
       PROVE  q \in Resume(s, now)
  <2>1. q \notin Start(s, now)
    BY <1>2, <1>3, <1>5, <1>11
  <2>2. q \notin Advance(s, now)
    BY <1>2, <1>3, <1>6, <1>11
  <2>3. /\ PhaseOrder["approval"] < PhaseOrder["publish"]
        /\ PhaseOrder["review"] < PhaseOrder["publish"]
    BY DEF PhaseOrder, Phases
  <2>4. \A a \in ApprovalIds : q \notin Approve(s, a, now)
    BY <1>2, <1>3, <1>7, <1>11, <2>3
  <2>5. q \notin SkipApproval(s, now)
    BY <1>2, <1>3, <1>8, <1>11, <2>3
  <2> QED BY <1>9, <1>10, <1>11, <2>1, <2>2, <2>4, <2>5
<1>12. CASE method = "start"
  <2>1. q \in Start(h, now)
    BY <1>12, OutcomesOfMethods
  <2>2. q.status = "running" /\ q.phase = "classify" /\ q.attempt = 1
    BY <2>1 DEF Start, Returned, GoodRun, Runs
  <2>3. ASSUME q \in Recover(s, now)
        PROVE  q \in Resume(s, now)
    <3>1. q.phase = s.phase /\ q.attempt = s.attempt
      BY <2>3 DEF Recover, Returned, GoodRun, Runs
    <3>2. s.status # "retrying"
      BY <2>2, <3>1 DEF RetriedFromTheQueue
    <3> QED BY <2>3, <3>2 DEF Recover, Resume, Returned
  <2>4. \A a \in ApprovalIds : q \notin Approve(s, a, now)
    BY <1>7, <2>2
  <2>5. q \notin SkipApproval(s, now)
    BY <1>8, <2>2
  <2>6. \/ q \in Start(s, now) \/ q \in Advance(s, now) \/ q \in Resume(s, now)
    BY <1>10, <2>2, <2>3, <2>4, <2>5
  <2> QED BY <1>12, <2>6, OutcomesOfMethods
<1>13. CASE method = "advance"
  <2>1. q \in Advance(h, now)
    BY <1>13, OutcomesOfMethods
  <2>2. /\ h.status \in {"running", "retrying"}
        /\ q.status = "running"
        /\ q.phase \in Successors(h.phase) /\ q.phase # "approval"
        /\ PhaseOrder[q.phase] = PhaseOrder[h.phase] + 1
        /\ q.attempt = h.attempt /\ q.approvalIds = h.approvalIds
    BY <2>1 DEF Advance, Successors, GoodRun, Runs
  <2>3. h.phase # "review"
    BY <2>2 DEF Successors, PhaseOrder, Phases
  <2>4. q \notin Start(s, now)
    BY <1>2, <1>3, <1>4, <1>5, <2>2
  <2>5. \A a \in ApprovalIds : q \notin Approve(s, a, now)
    BY <1>2, <1>3, <1>7, <2>2
  <2>6. q \notin SkipApproval(s, now)
    <3>1. SUFFICES ASSUME q \in SkipApproval(s, now) PROVE FALSE
      OBVIOUS
    <3>2. q.phase = "publish" /\ s.phase = "review"
      BY <1>8, <3>1
    <3>3. h.phase = "approval"
      BY <1>2, <2>2, <3>2 DEF PhaseOrder, Phases, Successors
    <3> QED BY <1>3, <3>2, <3>3 DEF PhaseOrder, Phases
  <2>7. q \in Advance(s, now) \/ q \in Resume(s, now)
    BY <1>2, <1>3, <1>9, <1>10, <2>2, <2>4, <2>5, <2>6
  <2> QED BY <1>13, <2>7, OutcomesOfMethods
<1>14. CASE method = "requestApproval"
  <2>1. q \in RequestApproval(h, now)
    BY <1>14, OutcomesOfMethods
  <2>2. q.status = "waiting_approval"
    BY <2>1 DEF RequestApproval, Returned, GoodRun, Runs
  <2>3. q \in RequestApproval(s, now)
    BY <1>1, <2>2, ByStatus
  <2> QED BY <1>14, <2>3, OutcomesOfMethods
<1>15. CASE method = "approve"
  <2>1. PICK a \in ApprovalIds : q \in Approve(h, a, now)
    BY <1>15, OutcomesOfMethods
  <2>2. /\ h.status = "waiting_approval" /\ h.phase = "approval"
        /\ q.status = "running" /\ q.phase = "publish" /\ q.attempt = h.attempt
        /\ Len(q.approvalIds) = Len(h.approvalIds) + 1
    BY <2>1, ApproveAdds
  <2>3. q \notin Start(s, now)
    BY <1>5, <2>2
  <2>4. q \notin Advance(s, now)
    <3>1. SUFFICES ASSUME q \in Advance(s, now) PROVE FALSE
      OBVIOUS
    <3>2. PhaseOrder[s.phase] + 1 = PhaseOrder["publish"] /\ Len(s.approvalIds) # 0
      BY <1>2, <1>6, <2>2, <3>1
    <3>3. s.phase = "publish"
      BY <3>2 DEF GoodRun
    <3> QED BY <3>2, <3>3 DEF PhaseOrder, Phases
  <2>5. q \notin SkipApproval(s, now)
    BY <1>3, <1>8, <2>2 DEF PhaseOrder, Phases
  <2>6. (\E b \in ApprovalIds : q \in Approve(s, b, now)) \/ q \in Resume(s, now)
    BY <1>9, <1>10, <2>2, <2>3, <2>4, <2>5, <1>2, <1>3
  <2> QED BY <1>15, <2>6, OutcomesOfMethods
<1>16. CASE method = "skipApproval"
  <2>1. q \in SkipApproval(h, now)
    BY <1>16, OutcomesOfMethods
  <2>2. /\ h.status = "running" /\ h.phase = "review"
        /\ q.status = "running" /\ q.phase = "publish"
        /\ q.attempt = h.attempt /\ q.approvalIds = h.approvalIds
    BY <2>1 DEF SkipApproval, Returned, GoodRun, Runs
  <2>3. q \notin Start(s, now)
    BY <1>5, <2>2
  <2>4. q \notin Advance(s, now)
    <3>1. SUFFICES ASSUME q \in Advance(s, now) PROVE FALSE
      OBVIOUS
    <3>2. PhaseOrder[s.phase] + 1 = PhaseOrder["publish"] /\ h.attempt = s.attempt
      BY <1>6, <2>2, <3>1
    <3>3. s.phase = "approval"
      BY <1>2, <3>2 DEF PhaseOrder, Phases
    <3> QED BY <1>3, <1>6, <2>2, <3>1, <3>2, <3>3
  <2>5. \A a \in ApprovalIds : q \notin Approve(s, a, now)
    BY <1>2, <1>3, <1>7, <2>2
  <2>6. q \in SkipApproval(s, now) \/ q \in Resume(s, now)
    BY <1>9, <1>10, <2>2, <2>3, <2>4, <2>5, <1>2, <1>3
  <2> QED BY <1>16, <2>6, OutcomesOfMethods
<1>17. CASE method = "pause"
  <2>1. q \in Pause(h, now)
    BY <1>17, OutcomesOfMethods
  <2>2. q.status = "waiting_external"
    BY <2>1 DEF Pause, Returned, GoodRun, Runs
  <2>3. q \in Pause(s, now)
    BY <1>1, <2>2, ByStatus
  <2> QED BY <1>17, <2>3, OutcomesOfMethods
<1>18. CASE method \in {"resume", "recover"}
  <2>1. q \in Resume(h, now) \/ q \in Recover(h, now)
    BY <1>18, OutcomesOfMethods
  <2>2. /\ h.status \in {"waiting_external", "retrying"} /\ q.status = "running"
        /\ q.phase = h.phase /\ q.attempt = h.attempt
    BY <2>1 DEF Resume, Recover, Returned, GoodRun, Runs
  <2> QED BY <1>4, <1>11, <2>2
<1>19. CASE method = "retry"
  <2>1. q \in Retry(h, now)
    BY <1>19, OutcomesOfMethods
  <2>2. q.status = "retrying"
    BY <2>1 DEF Retry, Returned, GoodRun, Runs
  <2>3. q \in Retry(s, now)
    BY <1>1, <2>2, ByStatus
  <2> QED BY <1>19, <2>3, OutcomesOfMethods
<1>20. CASE method = "fail"
  <2>1. PICK reason \in Reasons : q \in Fail(h, reason, now)
    BY <1>20, OutcomesOfMethods
  <2>2. q.status = "failed"
    BY <2>1 DEF Fail, Returned, GoodRun, Runs
  <2>3. \E why \in Reasons : q \in Fail(s, why, now)
    BY <1>1, <2>2, ByStatus
  <2> QED BY <1>20, <2>3, OutcomesOfMethods
<1>21. CASE method = "cancel"
  <2>1. q \in Cancel(h, now)
    BY <1>21, OutcomesOfMethods
  <2>2. q.status = "cancelled"
    BY <2>1 DEF Cancel, Returned, GoodRun, Runs
  <2>3. q \in Cancel(s, now)
    BY <1>1, <2>2, ByStatus
  <2> QED BY <1>21, <2>3, OutcomesOfMethods
<1>22. CASE method = "succeed"
  <2>1. q \in Succeed(h, TRUE, now)
    BY <1>22, OutcomesOfMethods
  <2>2. q.status = "succeeded"
    BY <2>1 DEF Succeed, Returned, GoodRun, Runs
  <2>3. q \in Succeed(s, TRUE, now)
    BY <1>1, <2>2, ByStatus
  <2> QED BY <1>22, <2>3, OutcomesOfMethods
<1> QED
  BY <1>12, <1>13, <1>14, <1>15, <1>16, <1>17, <1>18, <1>19, <1>20, <1>21, <1>22 DEF Methods

\* A caller with an outdated copy can at most resume a paused run, or, if its
\* call is a start, advance one that is retried from the queue, with any
\* number of callers, approvals and attempts.
THEOREM StaleCallsResume == Spec => StaleCallsOnlyResume
<1>1. Shape /\ HeldInv /\ stored' # stored =>
        \A c \in Callers, method \in Methods, now \in Times :
          held[c] # stored /\ Call(c, method, now) =>
            \/ stored' \in Outcomes(method, stored, now)
            \/ stored' \in Resume(stored, now)
            \/ method = "start" /\ stored' \in Advance(stored, now)
  <2> SUFFICES ASSUME Shape, HeldInv, stored' # stored,
                      NEW c \in Callers, NEW method \in Methods, NEW now \in Times,
                      held[c] # stored, Call(c, method, now)
               PROVE  \/ stored' \in Outcomes(method, stored, now)
                      \/ stored' \in Resume(stored, now)
                      \/ method = "start" /\ stored' \in Advance(stored, now)
    OBVIOUS
  <2>1. PICK run \in Outcomes(method, held[c], now) : Persist(c, run)
    BY DEF Call
  <2>2. stored' = run /\ Accepts(run)
    BY <2>1 DEF Persist
  <2>3. /\ stored # NoRun /\ GoodRun(held[c]) /\ Past(held[c], stored)
        /\ RetriedFromTheQueue(stored)
    BY DEF HeldInv, Call
  <2>4. GoodRun(stored)
    BY <2>3, ShapeIsGoodRun
  <2>5. run \in Runs /\ IsCheckpointTransition(stored, run)
    BY <2>2, <2>3 DEF Accepts
  <2> QED BY <2>1, <2>2, <2>3, <2>4, <2>5, OutdatedCall
<1> QED BY <1>1, ShapeInvariant, HeldInvariant, PTL DEF StaleCallsOnlyResume

\* No store takes a run while the outcome of a checkpoint is open; the next
\* run it has is the one in doubt.
THEOREM DoubtComesFirst == Spec => DoubtIsSettledFirst
<1>1. [Next]_vars => [unadmitted # NoRun /\ stored' # stored => stored' = unadmitted]_vars
  BY DEF Next, CreateRun, Call, Persist, Accepts, Load, Reopen, Crash, vars
<1> QED BY <1>1, PTL DEF Spec, DoubtIsSettledFirst
=============================================================================
