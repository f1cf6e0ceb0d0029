--------------------------- MODULE DurableWorkflow ---------------------------
(***************************************************************************)
(* One workflow run kept by DurableWorkflowStateMachine: callers hold       *)
(* copies of the run, each method is applied to the caller's copy and not  *)
(* to the stored run, and the checkpoint store then decides whether the    *)
(* result may follow what it has.  A checkpoint may throw after its line   *)
(* reached the file; the store object is useless until it is reopened,     *)
(* and the process may die at any time.                                    *)
(*                                                                         *)
(* What the file goes through below that, torn lines and power losses, is  *)
(* in JsonlStore; here the file is the stored run and at most one line the *)
(* store has not admitted.                                                 *)
(***************************************************************************)
EXTENDS WorkflowTransitions

CONSTANT Callers   \* parties that hold copies of the run

VARIABLES
  stored,      \* the store's latest run
  unadmitted,  \* the run in the line a failed checkpoint left in the file
  open,        \* a store object exists
  held         \* each caller's copy

vars == << stored, unadmitted, open, held >>

Machine == INSTANCE WorkflowStateMachine WITH run <- stored

Init ==
  /\ stored = NoRun
  /\ unadmitted = NoRun
  /\ open = TRUE
  /\ held = [c \in Callers |-> NoRun]

-----------------------------------------------------------------------------
(* The checkpoint store. *)

\* Fault: any well-formed run may follow any other.
AcceptsAnySuccessor(run) ==
  /\ open
  /\ unadmitted = NoRun
  /\ run \in Runs
  /\ WellFormed(run)
  /\ stored = NoRun => IsInitialCheckpoint(run)

\* Fault: the store does not notice the line it failed to admit.
AcceptsOverDoubt(run) ==
  /\ open
  /\ run \in Runs
  /\ WellFormed(run)
  /\ IF stored = NoRun THEN IsInitialCheckpoint(run)
                       ELSE IsCheckpointTransition(stored, run)

\* checkpoint(run) passes its checks: the file has not grown behind the
\* store's back, and the run may follow the stored one.
Accepts(run) ==
  /\ open
  /\ unadmitted = NoRun
  /\ run \in Runs
  /\ WellFormed(run)
  /\ IF stored = NoRun THEN IsInitialCheckpoint(run)
                       ELSE IsCheckpointTransition(stored, run)

\* new JsonlWorkflowCheckpointStore: load() admits every line of the file.
Reopen ==
  /\ ~open \/ unadmitted # NoRun
  /\ open' = TRUE
  /\ stored' = IF unadmitted = NoRun THEN stored ELSE unadmitted
  /\ unadmitted' = NoRun
  /\ UNCHANGED held

-----------------------------------------------------------------------------
(* The callers. *)

\* persist(run): the checkpoint succeeds and the caller gets the run, or it
\* throws after the line was written and the caller keeps what it had.
Persist(c, run) ==
  /\ Accepts(run)
  /\ \/ /\ stored' = run
        /\ held' = [held EXCEPT ![c] = run]
        /\ UNCHANGED unadmitted
     \/ /\ unadmitted' = run
        /\ UNCHANGED << stored, held >>
  /\ UNCHANGED open

Methods == {"start", "advance", "requestApproval", "approve", "skipApproval",
            "pause", "resume", "retry", "recover", "fail", "cancel", "succeed"}

\* The runs a method may return for run.
Outcomes(method, run, now) ==
  CASE method = "start"           -> Start(run, now)
    [] method = "advance"         -> Advance(run, now)
    [] method = "requestApproval" -> RequestApproval(run, now)
    [] method = "approve"         -> Machine!ApproveResults(run, now)
    [] method = "skipApproval"    -> SkipApproval(run, now)
    [] method = "pause"           -> Pause(run, now)
    [] method = "resume"          -> Resume(run, now)
    [] method = "retry"           -> Retry(run, now)
    [] method = "recover"         -> Recover(run, now)
    [] method = "fail"            -> Machine!FailResults(run, now)
    [] method = "cancel"          -> Cancel(run, now)
    [] method = "succeed"         -> Succeed(run, TRUE, now)

CreateRun(c) ==
  \E risk \in RiskClasses, now \in Times : Persist(c, Create(risk, now))

\* A method of DurableWorkflowStateMachine, on the caller's own copy.
Call(c, method, now) ==
  /\ held[c] # NoRun
  /\ \E run \in Outcomes(method, held[c], now) :
       run.attempt <= MaxAttempts /\ Persist(c, run)

\* load(runId)
Load(c) ==
  /\ open
  /\ stored # NoRun
  /\ held' = [held EXCEPT ![c] = stored]
  /\ UNCHANGED << stored, unadmitted, open >>

\* The process dies, and with it the store object and all copies.
Crash ==
  /\ open
  /\ open' = FALSE
  /\ held' = [c \in Callers |-> NoRun]
  /\ UNCHANGED << stored, unadmitted >>

Next ==
  \/ \E c \in Callers :
       \/ CreateRun(c)
       \/ \E method \in Methods, now \in Times : Call(c, method, now)
       \/ Load(c)
  \/ Reopen
  \/ Crash

Spec == Init /\ [][Next]_vars

-----------------------------------------------------------------------------
(* Properties. *)

\* The values of the variables.
TypeOK ==
  /\ stored \in Runs \union {NoRun}
  /\ unadmitted \in Runs \union {NoRun}
  /\ open \in BOOLEAN
  /\ held \in [Callers -> Runs \union {NoRun}]

\* What a call on an outdated copy may do to the run: the same as on the
\* stored run, resume a run that was paused meanwhile, or, if it is a start,
\* advance a run that failed in the queue and is being retried.  So an
\* outdated caller never repeats an attempt, a phase or an approval and never
\* leaves a terminal status, but its advance or approve may undo a pause.
StaleCallsOnlyResume ==
  [][stored' # stored =>
       \A c \in Callers, method \in Methods, now \in Times :
         held[c] # stored /\ Call(c, method, now) =>
           \/ stored' \in Outcomes(method, stored, now)
           \/ stored' \in Resume(stored, now)
           \/ method = "start" /\ stored' \in Advance(stored, now)]_vars

\* A checkpoint whose outcome the caller does not know is settled before any
\* other is taken: the next run the store admits is the one in doubt.
DoubtIsSettledFirst ==
  [][unadmitted # NoRun /\ stored' # stored => stored' = unadmitted]_vars

\* Callers with outdated copies, failing checkpoints and crashes together
\* produce no history that one caller of WorkflowStateMachine could not.
ImplementsMachine == Machine!Spec
=============================================================================
