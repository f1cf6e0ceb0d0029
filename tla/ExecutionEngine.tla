--------------------------- MODULE ExecutionEngine ---------------------------
(***************************************************************************)
(* ExecutionEngine.run (execution/execution-engine.ts): a plan of steps    *)
(* with dependencies is executed in rounds.  A round takes the steps whose *)
(* dependencies have all succeeded, splits them into parallel groups and   *)
(* runs the groups one after the other, the steps of a group together.  A  *)
(* step is a loop of attempts; each attempt races the executor's promise   *)
(* against a timer, and a call that loses the race keeps running.          *)
(*                                                                         *)
(* Steps are numbered in plan order.  Outputs, model ids, trace texts and  *)
(* clock values are left out: an answer is "late" when the elapsed time    *)
(* the engine measures has reached the step's timeout.                     *)
(***************************************************************************)
EXTENDS Naturals

CONSTANTS
  Steps,        \* positions of the steps in decision.plan
  Plans,        \* the plans considered, a set of records (see IsPlan)
  MaxAttempts   \* step.maxAttempts ?? options.maxAttempts ?? 3

\* A plan: dependsOn; the key of each step's parallel group (its own number
\* when it has none); the steps with a timeoutMs; those that need an approval;
\* those approved; those some registered executor can handle.
IsPlan(p) ==
  p \in [dependsOn : [Steps -> SUBSET Steps], group : [Steps -> Steps],
         timed : SUBSET Steps, gated : SUBSET Steps,
         approved : SUBSET Steps, executable : SUBSET Steps]

ASSUME PlansAreTyped ==
  /\ Steps \subseteq Nat
  /\ MaxAttempts \in Nat
  /\ \A p \in Plans : IsPlan(p)

VARIABLES
  plan,       \* input.decision.plan with its approvals and executors
  status,     \* which of the sets completed, failed, ... a step is in
  todo,       \* steps of this round whose group has not started
  batch,      \* the group Promise.all waits for
  task,       \* where runStep is for each step of the batch
  attempts,   \* the attempt runStep is in, 0 before the first
  live,       \* executor calls that have not settled, as <<step, attempt>>
  cancelled,  \* context.signal is aborted
  verdict     \* the status run returned

vars == <<plan, status, todo, batch, task, attempts, live, cancelled, verdict>>

Pending == "pending"
Results == {"succeeded", "failed", "timed_out", "blocked"}
Awaiting == {"calling", "signalled"}    \* signalled: the attempt's signal is aborted

TypeOK ==
  /\ plan \in Plans
  /\ status \in [Steps -> Results \cup {Pending, "skipped"}]
  /\ todo \subseteq Steps
  /\ batch \subseteq Steps
  /\ task \in [Steps -> Results \cup Awaiting \cup {"idle", "delaying"}]
  /\ attempts \in [Steps -> 0..MaxAttempts]
  /\ live \subseteq Steps \X Nat
  /\ cancelled \in BOOLEAN
  /\ verdict \in Results \cup {"none"}

Init ==
  /\ plan \in Plans
  /\ status = [s \in Steps |-> Pending]
  /\ todo = {}
  /\ batch = {}
  /\ task = [s \in Steps |-> "idle"]
  /\ attempts = [s \in Steps |-> 0]
  /\ live = {}
  /\ cancelled \in BOOLEAN
  /\ verdict = "none"

In(kind) == {s \in Steps : status[s] = kind}

-----------------------------------------------------------------------------
(* Rounds and groups *)

\* Fault: the ready filter forgets the steps that timed out.
UnsettledOrTimedOut == In(Pending) \cup In("timed_out")

Unsettled == In(Pending)

\* Fault: a dependency need only not have failed.
ReadyUnlessFailed ==
  {s \in Unsettled : plan.dependsOn[s] \cap (In("failed") \cup In("blocked") \cup Unsettled) = {}}

Ready == {s \in Unsettled : plan.dependsOn[s] \subseteq In("succeeded")}

\* The first group in plan order among the steps waiting to start.
NextGroup(waiting) ==
  LET first == CHOOSE s \in waiting : \A t \in waiting : s <= t
  IN  {s \in waiting : plan.group[s] = plan.group[first]}

\* What runStep settles on without calling an executor.
Refusal(s) ==
  IF s \in plan.gated \ plan.approved THEN "blocked"
  ELSE IF s \notin plan.executable \/ MaxAttempts = 0 THEN "failed"
  ELSE "none"

\* An attempt without timeout gets the run's own signal; one with a timeout
\* gets a fresh signal that only hears an abort that comes later.
FirstSignal(s) ==
  IF cancelled /\ s \notin plan.timed THEN "signalled" ELSE "calling"

StartGroup ==
  LET waiting == IF todo = {} THEN Ready ELSE todo
      group   == NextGroup(waiting)
      called  == {s \in group : Refusal(s) = "none"}
  IN  /\ verdict = "none"
      /\ batch = {}
      /\ waiting # {}
      /\ batch' = group
      /\ todo' = waiting \ group
      /\ task' = [s \in Steps |-> IF s \in called THEN FirstSignal(s)
                                  ELSE IF s \in group THEN Refusal(s) ELSE task[s]]
      /\ attempts' = [s \in Steps |-> IF s \in called THEN 1 ELSE attempts[s]]
      /\ live' = live \cup {<<s, 1>> : s \in called}
      /\ UNCHANGED <<plan, status, cancelled, verdict>>

\* Promise.all resolves once every step of the group has.
Collect ==
  /\ batch # {}
  /\ \A s \in batch : task[s] \in Results
  /\ status' = [s \in Steps |-> IF s \in batch THEN task[s] ELSE status[s]]
  /\ task' = [s \in Steps |-> IF s \in batch THEN "idle" ELSE task[s]]
  /\ batch' = {}
  /\ UNCHANGED <<plan, todo, attempts, live, cancelled, verdict>>

FinalStatus ==
  IF In("blocked") # {} THEN "blocked"
  ELSE IF In("timed_out") # {} THEN "timed_out"
  ELSE IF In("failed") # {} THEN "failed"
  ELSE "succeeded"

Skippable ==
  {s \in Unsettled : plan.dependsOn[s] \cap (In("failed") \cup In("blocked")) # {}}

\* Fault: the loop skips and looks again instead of breaking off.
FinishWhenSettled ==
  /\ verdict = "none"
  /\ batch = {} /\ todo = {} /\ Ready = {}
  /\ status' = [s \in Steps |-> IF s \in Skippable THEN "skipped" ELSE status[s]]
  /\ verdict' = IF Unsettled \ Skippable = {} THEN FinalStatus ELSE "none"
  /\ UNCHANGED <<plan, todo, batch, task, attempts, live, cancelled>>

\* Nothing is ready: every step is settled, or the unsettled ones are stuck.
\* Those that depend directly on a failed or blocked step are skipped, the
\* others keep no status; the loop ends either way.
Finish ==
  /\ verdict = "none"
  /\ batch = {} /\ todo = {} /\ Ready = {}
  /\ status' = [s \in Steps |-> IF s \in Skippable THEN "skipped" ELSE status[s]]
  /\ verdict' = FinalStatus
  /\ UNCHANGED <<plan, todo, batch, task, attempts, live, cancelled>>

-----------------------------------------------------------------------------
(* Attempts *)

\* What an executor's promise settles with: a value; a result that carries a
\* normalized error; a rejection with a plain Error or with a normalized one.
\* "expired" is the code TIMEOUT or, for a plain Error, its message.
Answers ==
  [kind : {"value"}] \cup
  [kind : {"error", "rejected"}, retryable : BOOLEAN, expired : BOOLEAN] \cup
  [kind : {"thrown"}, expired : BOOLEAN]

\* A late answer is a timeout whatever it says; otherwise the code decides, or
\* for a plain Error the message and the attempt's signal.
TimedOut(answer, late, signalled) ==
  \/ late
  \/ answer.kind # "value" /\ answer.expired
  \/ answer.kind = "thrown" /\ signalled

\* A plain Error is retryable; an aborted attempt's rejection is not.
Retryable(answer, signalled) ==
  \/ answer.kind = "thrown"
  \/ answer.kind = "error" /\ answer.retryable
  \/ answer.kind = "rejected" /\ answer.retryable /\ ~signalled

\* What the attempt comes to; "retry" still depends on the attempts left.
Disposition(answer, late, signalled) ==
  IF TimedOut(answer, late, signalled) THEN "timed_out"
  ELSE IF answer.kind = "value" THEN "succeeded"
  ELSE IF Retryable(answer, signalled) THEN "retry" ELSE "failed"

\* retry-policy.ts shouldRetry, the attempt having failed for good otherwise.
AfterAttempt(s, disposition) ==
  IF disposition # "retry" THEN disposition
  ELSE IF attempts[s] < MaxAttempts THEN "delaying" ELSE "failed"

Answer(s) ==
  /\ task[s] \in Awaiting
  /\ live' = live \ {<<s, attempts[s]>>}
  /\ \E answer \in Answers, late \in BOOLEAN :
       /\ late => s \in plan.timed
       /\ task' = [task EXCEPT ![s] =
                     AfterAttempt(s, Disposition(answer, late, task[s] = "signalled"))]
  /\ UNCHANGED <<plan, status, todo, batch, attempts, cancelled, verdict>>

\* The first of the two timers of createTimeoutSignal aborts the attempt ...
DeadlineAborts(s) ==
  /\ s \in plan.timed
  /\ task[s] = "calling"
  /\ task' = [task EXCEPT ![s] = "signalled"]
  /\ UNCHANGED <<plan, status, todo, batch, attempts, live, cancelled, verdict>>

\* Fault: a timed-out attempt is retried like a failed one.
TimerRetries(s) ==
  /\ s \in plan.timed
  /\ task[s] = "signalled"
  /\ task' = [task EXCEPT ![s] = AfterAttempt(s, "retry")]
  /\ UNCHANGED <<plan, status, todo, batch, attempts, live, cancelled, verdict>>

\* ... the second wins the race; nobody waits for the call any more.
TimerFires(s) ==
  /\ s \in plan.timed
  /\ task[s] = "signalled"
  /\ task' = [task EXCEPT ![s] = "timed_out"]
  /\ UNCHANGED <<plan, status, todo, batch, attempts, live, cancelled, verdict>>

\* The delay of the retry policy is over.
Retry(s) ==
  /\ task[s] = "delaying"
  /\ attempts' = [attempts EXCEPT ![s] = @ + 1]
  /\ live' = live \cup {<<s, attempts[s] + 1>>}
  /\ task' = [task EXCEPT ![s] = FirstSignal(s)]
  /\ UNCHANGED <<plan, status, todo, batch, cancelled, verdict>>

\* A call nobody waits for settles; its outcome is dropped.
AbandonedCallSettles(call) ==
  /\ call \in live
  /\ task[call[1]] \notin Awaiting
  /\ live' = live \ {call}
  /\ UNCHANGED <<plan, status, todo, batch, task, attempts, cancelled, verdict>>

\* The caller aborts input.signal.  The loop never looks at it: only the
\* attempts under way hear it.
Cancel ==
  /\ verdict = "none"
  /\ ~cancelled
  /\ cancelled' = TRUE
  /\ task' = [s \in Steps |-> IF task[s] = "calling" THEN "signalled" ELSE task[s]]
  /\ UNCHANGED <<plan, status, todo, batch, attempts, live, verdict>>

Next ==
  \/ StartGroup
  \/ Collect
  \/ Finish
  \/ Cancel
  \/ \E s \in Steps : Answer(s) \/ DeadlineAborts(s) \/ TimerFires(s) \/ Retry(s)
  \/ \E call \in live : AbandonedCallSettles(call)

Spec == Init /\ [][Next]_vars

\* The event loop runs what is due and timers fire; an executor is relied on
\* to answer only where no timeout covers it.
Fairness ==
  /\ WF_vars(StartGroup)
  /\ WF_vars(Collect)
  /\ WF_vars(Finish)
  /\ \A s \in Steps :
       /\ WF_vars(DeadlineAborts(s))
       /\ WF_vars(TimerFires(s))
       /\ WF_vars(Retry(s))
       /\ WF_vars(s \notin plan.timed /\ Answer(s))

FairSpec == Spec /\ Fairness

-----------------------------------------------------------------------------
(* Properties *)

\* What a step depends on, directly or through other steps: the smallest set
\* that has its dependencies, and theirs.
Upstream(s) ==
  {t \in Steps : \A closed \in SUBSET Steps :
     /\ plan.dependsOn[s] \subseteq closed
     /\ \A u \in closed : plan.dependsOn[u] \subseteq closed
     => t \in closed}

\* "Executes steps in dependency order" and "approval gates": an executor is
\* called for a step only after everything the step depends on, directly or
\* through other steps, has succeeded, and only if neither the step nor any of
\* those waits for an approval that was not given.
GatesHold ==
  \A s \in Steps : attempts[s] > 0 =>
    /\ s \notin plan.gated \ plan.approved
    /\ \A t \in Upstream(s) :
         status[t] = "succeeded" /\ t \notin plan.gated \ plan.approved

\* Two attempts of a step never run at the same time, although a call that has
\* timed out cannot be stopped: an attempt is repeated only after it settled.
OneCallPerStep ==
  \A c, d \in live : c[1] = d[1] => c = d

\* A step that has a result keeps it and is not attempted again, whatever
\* later rounds, timers or late answers do.
SettledStaysSettled ==
  [][\A s \in Steps : status[s] # Pending =>
       status'[s] = status[s] /\ attempts'[s] = attempts[s]]_vars

\* run returns: every plan, also one with a cycle or with steps behind a
\* failure, a timeout or a missing approval, comes to a verdict, even if
\* executors with a timeout never answer.
Terminates == <>(verdict # "none")
=============================================================================
