--------------------------- MODULE ExecutionProofs ---------------------------
(***************************************************************************)
(* What holds of the parts that execute a plan: of the engine, for every   *)
(* plan, every number of steps and of attempts, cyclic plans included; of  *)
(* the tool broker, for every catalogue, request and number of attempts;   *)
(* and of a session of the OpenCode adapter, for any number of callers and *)
(* of tasks.  The three share no state: each has a specification of its    *)
(* own.                                                                    *)
(***************************************************************************)
EXTENDS ExecutionEngine, ToolBroker, OpenCodeSessions, TLAPS, FiniteSetTheorems

-----------------------------------------------------------------------------
(* The engine *)

\* Only steps of the current group have a task; a step that is waiting or
\* running has no result, and has not been attempted before its group started.
Scheduled ==
  /\ batch \cap todo = {}
  /\ \A s \in batch \cup todo : status[s] = Pending
  /\ \A s \in Steps : s \notin batch => task[s] = "idle"
  /\ \A s \in Steps : status[s] = Pending /\ s \notin batch => attempts[s] = 0

\* A retry is only planned while attempts are left.
Budgeted == \A s \in Steps : task[s] = "delaying" => attempts[s] < MaxAttempts

\* A call in flight is its step's latest attempt, and the step is waiting for
\* it or has timed out.
Tracked ==
  \A c \in live :
    /\ c[2] = attempts[c[1]]
    /\ \/ task[c[1]] \in Awaiting \cup {"timed_out"}
       \/ status[c[1]] = "timed_out"

\* Steps are started once what they depend on has succeeded and their approval
\* is there; success comes from a call.
Gated ==
  /\ \A s \in batch \cup todo : plan.dependsOn[s] \subseteq In("succeeded")
  /\ \A s \in Steps : task[s] \in Awaiting \cup {"delaying", "succeeded"} => attempts[s] > 0
  /\ \A s \in Steps : status[s] = "succeeded" => attempts[s] > 0
  /\ \A s \in Steps : attempts[s] > 0 =>
       /\ s \notin plan.gated \ plan.approved
       /\ plan.dependsOn[s] \subseteq In("succeeded")

EngineInv == TypeOK /\ Scheduled /\ Budgeted /\ Tracked /\ Gated

-----------------------------------------------------------------------------
(* Facts about the operators *)

\* What starts is taken from what waits.
LEMMA GroupOfWaiting ==
  ASSUME NEW waiting
  PROVE  NextGroup(waiting) \subseteq waiting
BY DEF NextGroup

\* A settled attempt leaves its step with a result or with another attempt to
\* make, which the budget allows.
LEMMA AfterAttemptIsKnown ==
  ASSUME NEW s, NEW answer, NEW late, NEW signalled, NEW result,
         result = AfterAttempt(s, Disposition(answer, late, signalled))
  PROVE  /\ result \in {"succeeded", "timed_out", "failed", "delaying"}
         /\ result = "delaying" => attempts[s] < MaxAttempts
BY DEF Disposition, AfterAttempt

\* The final status is one of the results.
LEMMA FinalStatusIsResult == FinalStatus \in Results
BY DEF FinalStatus, Results

-----------------------------------------------------------------------------
(* The invariant is inductive *)

LEMMA InitEngine == Init => EngineInv
BY PlansAreTyped DEF Init, EngineInv, TypeOK, Scheduled, Budgeted, Tracked, Gated,
   In, Results, Awaiting, Pending

LEMMA StartGroupKeeps == EngineInv /\ StartGroup => EngineInv'
<1> SUFFICES ASSUME EngineInv, StartGroup PROVE EngineInv' OBVIOUS
<1> DEFINE waiting == IF todo = {} THEN Ready ELSE todo
<1> DEFINE group == NextGroup(waiting)
<1> DEFINE called == {s \in group : Refusal(s) = "none"}
<1>1. group \subseteq waiting
  BY GroupOfWaiting
<1>2. /\ batch = {}
      /\ batch' = group
      /\ todo' = waiting \ group
      /\ task' = [s \in Steps |-> IF s \in called THEN FirstSignal(s)
                                  ELSE IF s \in group THEN Refusal(s) ELSE task[s]]
      /\ attempts' = [s \in Steps |-> IF s \in called THEN 1 ELSE attempts[s]]
      /\ live' = live \cup {<<s, 1>> : s \in called}
      /\ UNCHANGED <<plan, status, cancelled, verdict>>
  BY DEF StartGroup
<1>3. /\ waiting \subseteq Steps
      /\ \A s \in waiting : /\ status[s] = Pending
                            /\ plan.dependsOn[s] \subseteq In("succeeded")
                            /\ attempts[s] = 0
  BY <1>2 DEF EngineInv, TypeOK, Scheduled, Gated, Ready, Unsettled, In
<1>4. \A s \in group : /\ Refusal(s) \in {"blocked", "failed", "none"}
                       /\ Refusal(s) = "none" =>
                             MaxAttempts # 0 /\ s \notin plan.gated \ plan.approved
  BY DEF Refusal
<1>5. \A s \in Steps : FirstSignal(s) \in Awaiting
  BY DEF FirstSignal, Awaiting
<1> HIDE DEF group, waiting
<1>6. /\ called \subseteq group
      /\ group \subseteq Steps
      /\ MaxAttempts \in Nat
      /\ \A s \in called : MaxAttempts # 0 /\ Refusal(s) = "none"
  BY <1>1, <1>3, <1>4, PlansAreTyped
<1> HIDE DEF called
<1>a. TypeOK'
  <2>1. task' \in [Steps -> Results \cup Awaiting \cup {"idle", "delaying"}]
    <3>1. \A s \in Steps : task'[s] \in Results \cup Awaiting \cup {"idle", "delaying"}
      BY <1>2, <1>4, <1>5, <1>6 DEF EngineInv, TypeOK, Results, called
    <3> QED BY <3>1, <1>2
  <2>2. attempts' \in [Steps -> 0..MaxAttempts]
    BY <1>2, <1>6 DEF EngineInv, TypeOK
  <2>3. live' \subseteq Steps \X Nat
    BY <1>2, <1>6 DEF EngineInv, TypeOK
  <2> QED BY <2>1, <2>2, <2>3, <1>1, <1>2, <1>3 DEF EngineInv, TypeOK
<1>b. Scheduled'
  BY <1>1, <1>2, <1>3, <1>6 DEF EngineInv, TypeOK, Scheduled
<1>c. Budgeted'
  <2> SUFFICES ASSUME NEW s \in Steps, task'[s] = "delaying"
               PROVE  attempts'[s] < MaxAttempts
    BY DEF Budgeted
  <2>1. s \notin group
    BY <1>2, <1>4, <1>5 DEF Awaiting, called
  <2> QED BY <2>1, <1>2, <1>6 DEF EngineInv, Budgeted
<1>d. Tracked'
  <2> SUFFICES ASSUME NEW c \in live'
               PROVE  /\ c[2] = attempts'[c[1]]
                      /\ \/ task'[c[1]] \in Awaiting \cup {"timed_out"}
                         \/ status'[c[1]] = "timed_out"
    BY DEF Tracked
  <2>1. CASE c \in live
    <3>1. /\ c[1] \in Steps
          /\ task[c[1]] = "idle"
          /\ status[c[1]] = "timed_out"
      BY <2>1, <1>2 DEF EngineInv, TypeOK, Tracked, Scheduled, Awaiting
    <3>2. c[1] \notin group
      BY <3>1, <1>1, <1>3 DEF Pending
    <3> QED BY <2>1, <3>1, <3>2, <1>2, <1>6 DEF EngineInv, Tracked
  <2>2. CASE c \in {<<s, 1>> : s \in called}
    BY <2>2, <1>2, <1>5, <1>6
  <2> QED BY <2>1, <2>2, <1>2
<1>e. Gated'
  <2>1. In("succeeded")' = In("succeeded")
    BY <1>2 DEF In
  <2>2. \A s \in batch' \cup todo' : plan'.dependsOn[s] \subseteq In("succeeded")'
    BY <2>1, <1>1, <1>2, <1>3
  <2>3. \A s \in Steps : task'[s] \in Awaiting \cup {"delaying", "succeeded"} =>
          attempts'[s] > 0
    <3> TAKE s \in Steps
    <3>1. CASE s \in called  BY <3>1, <1>2
    <3>2. CASE s \in group \ called
      <4>1. task'[s] \in {"blocked", "failed"}
        BY <3>2, <1>2, <1>4, <1>6 DEF called
      <4> QED BY <4>1 DEF Awaiting
    <3>3. CASE s \notin group  BY <3>3, <1>2, <1>6 DEF EngineInv, Gated
    <3> QED BY <3>1, <3>2, <3>3
  <2>4. \A s \in Steps : status'[s] = "succeeded" => attempts'[s] > 0
    BY <1>2 DEF EngineInv, Gated
  <2>5. \A s \in Steps : attempts'[s] > 0 =>
          /\ s \notin plan'.gated \ plan'.approved
          /\ plan'.dependsOn[s] \subseteq In("succeeded")'
    <3> TAKE s \in Steps
    <3>1. CASE s \in called  BY <3>1, <2>1, <1>1, <1>2, <1>3, <1>4, <1>6
    <3>2. CASE s \notin called  BY <3>2, <2>1, <1>2 DEF EngineInv, Gated
    <3> QED BY <3>1, <3>2
  <2> QED BY <2>2, <2>3, <2>4, <2>5 DEF Gated
<1> QED BY <1>a, <1>b, <1>c, <1>d, <1>e DEF EngineInv

\* A step that is running keeps its place; used by every action that changes
\* the tasks of steps under way and nothing else but, perhaps, drops calls.
LEMMA TaskChangeKeeps ==
  ASSUME EngineInv, NEW s \in Steps,
         task[s] \in Awaiting,
         UNCHANGED <<plan, status, todo, batch, attempts, verdict>>,
         cancelled' = cancelled,
         NEW result \in {"succeeded", "timed_out", "failed", "delaying", "signalled"},
         task' = [task EXCEPT ![s] = result],
         result = "delaying" => attempts[s] < MaxAttempts,
         live' \subseteq live,
         result \notin {"signalled", "timed_out"} => <<s, attempts[s]>> \notin live'
  PROVE  EngineInv'
<1>1. /\ s \in batch
      /\ attempts[s] > 0
      /\ task'[s] = result
      /\ \A t \in Steps : t # s => task'[t] = task[t]
  BY DEF EngineInv, TypeOK, Scheduled, Gated, Awaiting
<1>a. TypeOK'
  BY DEF EngineInv, TypeOK, Results, Awaiting
<1>b. Scheduled'
  BY <1>1 DEF EngineInv, Scheduled
<1>c. Budgeted'
  BY <1>1 DEF EngineInv, Budgeted
<1>d. Tracked'
  <2> SUFFICES ASSUME NEW c \in live'
               PROVE  /\ c[2] = attempts[c[1]]
                      /\ \/ task'[c[1]] \in Awaiting \cup {"timed_out"}
                         \/ status[c[1]] = "timed_out"
    BY DEF Tracked
  <2>1. /\ c \in live
        /\ c \in Steps \X Nat
        /\ c[2] = attempts[c[1]]
        /\ \/ task[c[1]] \in Awaiting \cup {"timed_out"}
           \/ status[c[1]] = "timed_out"
    BY DEF EngineInv, TypeOK, Tracked
  <2>2. CASE c[1] = s
    <3>1. c = <<s, attempts[s]>>  BY <2>1, <2>2
    <3> QED BY <3>1, <2>1, <1>1 DEF Awaiting
  <2>3. CASE c[1] # s  BY <2>1, <2>3, <1>1
  <2> QED BY <2>1, <2>2, <2>3
<1>e. Gated'
  BY <1>1 DEF EngineInv, Gated, In, Awaiting
<1> QED BY <1>a, <1>b, <1>c, <1>d, <1>e DEF EngineInv

LEMMA AnswerKeeps == ASSUME NEW s \in Steps PROVE EngineInv /\ Answer(s) => EngineInv'
<1> SUFFICES ASSUME EngineInv, Answer(s) PROVE EngineInv' OBVIOUS
<1>1. PICK answer \in Answers, late \in BOOLEAN :
        task' = [task EXCEPT ![s] =
                   AfterAttempt(s, Disposition(answer, late, task[s] = "signalled"))]
  BY DEF Answer
<1> DEFINE result == AfterAttempt(s, Disposition(answer, late, task[s] = "signalled"))
<1>2. /\ result \in {"succeeded", "timed_out", "failed", "delaying", "signalled"}
      /\ result = "delaying" => attempts[s] < MaxAttempts
  BY AfterAttemptIsKnown
<1> HIDE DEF result
<1>3. task' = [task EXCEPT ![s] = result]
  BY <1>1 DEF result
<1> QED BY <1>2, <1>3, TaskChangeKeeps DEF Answer

LEMMA DeadlineKeeps ==
  ASSUME NEW s \in Steps PROVE EngineInv /\ DeadlineAborts(s) => EngineInv'
<1> SUFFICES ASSUME EngineInv, DeadlineAborts(s) PROVE EngineInv' OBVIOUS
<1> DEFINE result == "signalled"
<1>1. result \in {"succeeded", "timed_out", "failed", "delaying", "signalled"}
  OBVIOUS
<1> QED BY <1>1, TaskChangeKeeps DEF DeadlineAborts, Awaiting

LEMMA TimerKeeps ==
  ASSUME NEW s \in Steps PROVE EngineInv /\ TimerFires(s) => EngineInv'
<1> SUFFICES ASSUME EngineInv, TimerFires(s) PROVE EngineInv' OBVIOUS
<1> DEFINE result == "timed_out"
<1>1. result \in {"succeeded", "timed_out", "failed", "delaying", "signalled"}
  OBVIOUS
<1> QED BY <1>1, TaskChangeKeeps DEF TimerFires, Awaiting

LEMMA RetryKeeps == ASSUME NEW s \in Steps PROVE EngineInv /\ Retry(s) => EngineInv'
<1> SUFFICES ASSUME EngineInv, Retry(s) PROVE EngineInv' OBVIOUS
<1>1. /\ s \in batch /\ status[s] = Pending
      /\ attempts[s] \in Nat /\ attempts[s] < MaxAttempts /\ attempts[s] > 0
      /\ MaxAttempts \in Nat
  BY PlansAreTyped DEF Retry, EngineInv, TypeOK, Scheduled, Budgeted, Gated
<1>2. /\ task' = [task EXCEPT ![s] = FirstSignal(s)]
      /\ attempts' = [attempts EXCEPT ![s] = @ + 1]
      /\ live' = live \cup {<<s, attempts[s] + 1>>}
      /\ FirstSignal(s) \in Awaiting
      /\ UNCHANGED <<plan, status, todo, batch, cancelled, verdict>>
  BY DEF Retry, FirstSignal, Awaiting
<1>3. /\ task'[s] \in Awaiting
      /\ attempts'[s] = attempts[s] + 1
      /\ \A t \in Steps : t # s => task'[t] = task[t] /\ attempts'[t] = attempts[t]
  BY <1>2 DEF EngineInv, TypeOK
<1>a. TypeOK'
  <2>1. attempts' \in [Steps -> 0..MaxAttempts]
    BY <1>1, <1>2 DEF EngineInv, TypeOK
  <2>2. live' \subseteq Steps \X Nat
    BY <1>1, <1>2 DEF EngineInv, TypeOK
  <2> QED BY <2>1, <2>2, <1>2 DEF EngineInv, TypeOK
<1>b. Scheduled'
  BY <1>1, <1>2, <1>3 DEF EngineInv, Scheduled
<1>c. Budgeted'
  BY <1>2, <1>3 DEF EngineInv, Budgeted, Awaiting
<1>d. Tracked'
  <2> SUFFICES ASSUME NEW c \in live'
               PROVE  /\ c[2] = attempts'[c[1]]
                      /\ \/ task'[c[1]] \in Awaiting \cup {"timed_out"}
                         \/ status'[c[1]] = "timed_out"
    BY DEF Tracked
  <2>1. CASE c \in live
    <3>1. c[1] \in Steps /\ c[1] # s
      BY <2>1, <1>1 DEF EngineInv, TypeOK, Tracked, Retry, Awaiting, Pending
    <3> QED BY <2>1, <3>1, <1>2, <1>3 DEF EngineInv, Tracked
  <2>2. CASE c = <<s, attempts[s] + 1>>
    BY <2>2, <1>3
  <2> QED BY <2>1, <2>2, <1>2
<1>e. Gated'
  <2>1. In("succeeded")' = In("succeeded")  BY <1>2 DEF In
  <2>2. \A t \in Steps : attempts'[t] > 0 => attempts[t] > 0
    BY <1>1, <1>3
  <2>3. \A t \in Steps : attempts[t] > 0 => attempts'[t] > 0
    BY <1>1, <1>3
  <2>4. \A t \in Steps : task'[t] \in Awaiting \cup {"delaying", "succeeded"} =>
          attempts'[t] > 0
    BY <2>3, <1>1, <1>3 DEF EngineInv, Gated
  <2> QED BY <2>1, <2>2, <2>3, <2>4, <1>2 DEF EngineInv, Gated
<1> QED BY <1>a, <1>b, <1>c, <1>d, <1>e DEF EngineInv

LEMMA CollectKeeps == EngineInv /\ Collect => EngineInv'
<1> SUFFICES ASSUME EngineInv, Collect PROVE EngineInv' OBVIOUS
<1>1. /\ \A s \in batch : task[s] \in Results
      /\ status' = [s \in Steps |-> IF s \in batch THEN task[s] ELSE status[s]]
      /\ task' = [s \in Steps |-> IF s \in batch THEN "idle" ELSE task[s]]
      /\ batch' = {}
      /\ UNCHANGED <<plan, todo, attempts, live, cancelled, verdict>>
  BY DEF Collect
<1>2. \A s \in Steps : task'[s] = "idle"
  BY <1>1 DEF EngineInv, Scheduled
<1>3. Pending \notin Results
  BY DEF Pending, Results
<1>4. In("succeeded") \subseteq In("succeeded")'
  BY <1>1, <1>3 DEF In, EngineInv, Scheduled, Pending
<1>a. TypeOK'
  BY <1>1, <1>2 DEF EngineInv, TypeOK
<1>b. Scheduled'
  BY <1>1, <1>2, <1>3 DEF EngineInv, TypeOK, Scheduled
<1>c. Budgeted'
  BY <1>2 DEF Budgeted
<1>d. Tracked'
  <2> SUFFICES ASSUME NEW c \in live
               PROVE  /\ c[2] = attempts[c[1]]
                      /\ status'[c[1]] = "timed_out"
    BY <1>1 DEF Tracked
  <2>1. /\ c[1] \in Steps
        /\ c[2] = attempts[c[1]]
        /\ \/ task[c[1]] \in Awaiting \cup {"timed_out"}
           \/ status[c[1]] = "timed_out"
    BY DEF EngineInv, TypeOK, Tracked
  <2>2. CASE c[1] \in batch
    <3>1. status[c[1]] = Pending /\ task[c[1]] \notin Awaiting
      BY <2>2, <1>1 DEF EngineInv, Scheduled, Results, Awaiting
    <3> QED BY <3>1, <2>1, <2>2, <1>1 DEF Pending
  <2>3. CASE c[1] \notin batch
    BY <2>1, <2>3, <1>1 DEF EngineInv, Scheduled, Awaiting
  <2> QED BY <2>1, <2>2, <2>3
<1>e. Gated'
  <2>1. \A s \in Steps : status'[s] = "succeeded" => attempts'[s] > 0
    BY <1>1 DEF EngineInv, Gated
  <2> QED BY <2>1, <1>1, <1>2, <1>4 DEF EngineInv, Gated, Awaiting
<1> QED BY <1>a, <1>b, <1>c, <1>d, <1>e DEF EngineInv

LEMMA FinishKeeps == EngineInv /\ Finish => EngineInv'
<1> SUFFICES ASSUME EngineInv, Finish PROVE EngineInv' OBVIOUS
<1>1. /\ batch = {} /\ todo = {}
      /\ status' = [s \in Steps |-> IF s \in Skippable THEN "skipped" ELSE status[s]]
      /\ verdict' \in Results
      /\ UNCHANGED <<plan, todo, batch, task, attempts, live, cancelled>>
  BY FinalStatusIsResult DEF Finish
<1>2. \A s \in Skippable : s \in Steps /\ status[s] = Pending
  BY DEF Skippable, Unsettled, In
<1>3. In("succeeded") = In("succeeded")'
  BY <1>1, <1>2 DEF In, Pending
<1>a. TypeOK'
  BY <1>1 DEF EngineInv, TypeOK
<1>b. Scheduled'
  BY <1>1, <1>2 DEF EngineInv, Scheduled, Pending
<1>c. Budgeted'
  BY <1>1 DEF EngineInv, Budgeted
<1>d. Tracked'
  <2> SUFFICES ASSUME NEW c \in live
               PROVE  /\ c[2] = attempts[c[1]]
                      /\ \/ task[c[1]] \in Awaiting \cup {"timed_out"}
                         \/ status'[c[1]] = "timed_out"
    BY <1>1 DEF Tracked
  <2>1. /\ c[1] \in Steps
        /\ status[c[1]] = "timed_out" => c[1] \notin Skippable
    BY <1>2 DEF EngineInv, TypeOK, Pending
  <2> QED BY <2>1, <1>1 DEF EngineInv, Tracked
<1>e. Gated'
  BY <1>1, <1>2, <1>3 DEF EngineInv, Gated
<1> QED BY <1>a, <1>b, <1>c, <1>d, <1>e DEF EngineInv

LEMMA CancelKeeps == EngineInv /\ Cancel => EngineInv'
<1> SUFFICES ASSUME EngineInv, Cancel PROVE EngineInv' OBVIOUS
<1>1. /\ task' = [s \in Steps |-> IF task[s] = "calling" THEN "signalled" ELSE task[s]]
      /\ cancelled' = TRUE
      /\ UNCHANGED <<plan, status, todo, batch, attempts, live, verdict>>
  BY DEF Cancel
<1>a. TypeOK'
  BY <1>1 DEF EngineInv, TypeOK, Awaiting
<1>b. Scheduled'
  BY <1>1 DEF EngineInv, Scheduled
<1>c. Budgeted'
  BY <1>1 DEF EngineInv, Budgeted
<1>d. Tracked'
  BY <1>1 DEF EngineInv, TypeOK, Tracked, Awaiting
<1>e. Gated'
  BY <1>1 DEF EngineInv, Gated, Awaiting, In
<1> QED BY <1>a, <1>b, <1>c, <1>d, <1>e DEF EngineInv

LEMMA AbandonedKeeps ==
  ASSUME NEW k \in live PROVE EngineInv /\ AbandonedCallSettles(k) => EngineInv'
BY DEF AbandonedCallSettles, EngineInv, TypeOK, Scheduled, Budgeted, Tracked, Gated, In

LEMMA NextKeeps == EngineInv /\ [Next]_vars => EngineInv'
<1> SUFFICES ASSUME EngineInv, [Next]_vars PROVE EngineInv' OBVIOUS
<1>1. CASE StartGroup  BY <1>1, StartGroupKeeps
<1>2. CASE Collect     BY <1>2, CollectKeeps
<1>3. CASE Finish      BY <1>3, FinishKeeps
<1>4. CASE Cancel      BY <1>4, CancelKeeps
<1>5. ASSUME NEW s \in Steps, Answer(s) \/ DeadlineAborts(s) \/ TimerFires(s) \/ Retry(s)
      PROVE  EngineInv'
  BY <1>5, AnswerKeeps, DeadlineKeeps, TimerKeeps, RetryKeeps
<1>6. ASSUME NEW k \in live, AbandonedCallSettles(k) PROVE EngineInv'
  BY <1>6, AbandonedKeeps
<1>7. CASE UNCHANGED vars
  BY <1>7 DEF vars, EngineInv, TypeOK, Scheduled, Budgeted, Tracked, Gated, In
<1> QED BY <1>1, <1>2, <1>3, <1>4, <1>5, <1>6, <1>7 DEF Next

-----------------------------------------------------------------------------
(* Theorems *)

\* The invariant holds of every run of the engine: types, and the bookkeeping
\* of groups, attempts and calls in flight.
THEOREM EngineInvariant == Spec => []EngineInv
<1> QED BY InitEngine, NextKeeps, PTL DEF Spec

\* No step ever has two executor calls running, whatever times out, however
\* many attempts there are.
THEOREM CallsDoNotOverlap == Spec => []OneCallPerStep
<1>1. EngineInv => OneCallPerStep
  <2> SUFFICES ASSUME EngineInv, NEW c \in live, NEW d \in live, c[1] = d[1] PROVE c = d
    BY DEF OneCallPerStep
  <2>1. c \in Steps \X Nat /\ d \in Steps \X Nat /\ c[2] = d[2]
    BY DEF EngineInv, TypeOK, Tracked
  <2> QED BY <2>1
<1> QED BY <1>1, EngineInvariant, PTL

\* The dependency order and the approval gates hold for every plan: what a
\* step that has been attempted depends on has succeeded in an attempt of its
\* own, so the steps of which that is true are closed under dependencies.
THEOREM GatesAreKept == Spec => []GatesHold
<1>1. EngineInv => GatesHold
  <2> SUFFICES ASSUME EngineInv, NEW s \in Steps, attempts[s] > 0
               PROVE  /\ s \notin plan.gated \ plan.approved
                      /\ \A t \in Upstream(s) :
                           status[t] = "succeeded" /\ t \notin plan.gated \ plan.approved
    BY DEF GatesHold
  <2> DEFINE succeeded == {t \in Steps : status[t] = "succeeded" /\ attempts[t] > 0}
  <2>1. \A t \in Steps : attempts[t] > 0 =>
          t \notin plan.gated \ plan.approved /\ plan.dependsOn[t] \subseteq succeeded
    BY DEF EngineInv, Gated, In
  <2>2. /\ plan.dependsOn[s] \subseteq succeeded
        /\ \A t \in succeeded : plan.dependsOn[t] \subseteq succeeded
    BY <2>1
  <2>3. Upstream(s) \subseteq succeeded
    <3>1. succeeded \in SUBSET Steps
      OBVIOUS
    <3> HIDE DEF succeeded
    <3> QED BY <2>2, <3>1 DEF Upstream
  <2> QED BY <2>1, <2>3
<1> QED BY <1>1, EngineInvariant, PTL

\* A result is final: no step of the engine changes it or repeats the step.
THEOREM ResultsAreFinal == Spec => SettledStaysSettled
<1> DEFINE Final == \A s \in Steps : status[s] # Pending =>
                      status'[s] = status[s] /\ attempts'[s] = attempts[s]
<1>1. EngineInv /\ [Next]_vars => [Final]_vars
  <2> SUFFICES ASSUME EngineInv, [Next]_vars, NEW s \in Steps, status[s] # Pending
               PROVE  status'[s] = status[s] /\ attempts'[s] = attempts[s]
    OBVIOUS
  <2>1. s \notin batch \cup todo /\ task[s] = "idle"
    BY DEF EngineInv, Scheduled
  <2>2. CASE StartGroup
    <3> DEFINE waiting == IF todo = {} THEN Ready ELSE todo
    <3>1. s \notin waiting
      BY <2>1 DEF Ready, Unsettled, In
    <3>2. s \notin NextGroup(waiting)
      BY <3>1, GroupOfWaiting
    <3> QED BY <2>2, <3>2 DEF StartGroup
  <2>3. CASE Collect  BY <2>1, <2>3 DEF Collect, EngineInv, TypeOK
  <2>4. CASE Finish
    <3>1. s \notin Skippable  BY DEF Skippable, Unsettled, In
    <3> QED BY <2>4, <3>1 DEF Finish
  <2>5. CASE Cancel  BY <2>5 DEF Cancel
  <2>6. ASSUME NEW t \in Steps, Answer(t) \/ DeadlineAborts(t) \/ TimerFires(t)
        PROVE  status'[s] = status[s] /\ attempts'[s] = attempts[s]
    BY <2>6 DEF Answer, DeadlineAborts, TimerFires
  <2>7. ASSUME NEW t \in Steps, Retry(t)
        PROVE  status'[s] = status[s] /\ attempts'[s] = attempts[s]
    BY <2>7, <2>1 DEF Retry, EngineInv, TypeOK
  <2>8. ASSUME NEW k \in live, AbandonedCallSettles(k)
        PROVE  status'[s] = status[s] /\ attempts'[s] = attempts[s]
    BY <2>8 DEF AbandonedCallSettles
  <2>9. CASE UNCHANGED vars  BY <2>9 DEF vars
  <2> QED BY <2>2, <2>3, <2>4, <2>5, <2>6, <2>7, <2>8, <2>9 DEF Next
<1> QED BY <1>1, EngineInvariant, PTL DEF Spec, SettledStaysSettled

-----------------------------------------------------------------------------
(* The broker *)

Points == {"selecting", "granted", "health", "calling", "delaying", "returned"}

BrokerTypes ==
  /\ options \in Options
  /\ phase \in Points
  /\ aborted \in BOOLEAN
  /\ records \in Seq(Statuses)
  /\ calls \in SUBSET (Nat \ {0})

\* Nothing is called before the health check; a call that is alive belongs to
\* an attempt that was made, the one under way included.
CallsAreCounted ==
  /\ phase \in {"selecting", "granted", "health"} => records = <<>> /\ calls = {}
  /\ \A n \in calls : n <= Current /\ (phase # "calling" => n <= Len(records))

\* A call left running was given up by the timer, or by the abort that ended
\* the invocation.
LeftRunning ==
  \A n \in calls : n <= Len(records) =>
    \/ records[n] = "timed_out"
    \/ records[n] = "aborted" /\ n = Len(records) /\ phase = "returned"

\* What follows a timeout is a retry the request asked for.
TimeoutsRetried ==
  \A n \in 1..Len(records) :
    records[n] = "timed_out" /\ (n < Len(records) \/ phase # "returned") =>
      options.retryOnTimeout

\* A tool that is not safe to repeat has been called at most once, and then
\* the invocation is over with that call.
UnsafeTool == tool.idempotency # "safe" \/ tool.sideEffects = "destructive"
CalledOnce == records = <<>> \/ (UnsafeTool => Len(records) = 1 /\ phase = "returned")

BrokerInv ==
  BrokerTypes /\ CallsAreCounted /\ LeftRunning /\ TimeoutsRetried /\ CalledOnce

-----------------------------------------------------------------------------

\* One more record: the earlier ones stay.
LEMMA RecordAppended ==
  ASSUME NEW s \in Seq(Statuses), NEW e \in Statuses
  PROVE  /\ Append(s, e) \in Seq(Statuses)
         /\ Len(Append(s, e)) = Len(s) + 1
         /\ Append(s, e)[Len(s) + 1] = e
         /\ \A n \in 1..Len(s) : Append(s, e)[n] = s[n]
OBVIOUS

\* An attempt that ends while the source is called is recorded; the
\* invocation returns, waits for a retry or goes on with the next attempt.
LEMMA AttemptEnds ==
  ASSUME BrokerInv, phase = "calling", NEW e \in Statuses,
         records' = Append(records, e),
         UNCHANGED <<tool, options>>, aborted' \in BOOLEAN,
         phase' \in {"returned", "delaying", "calling"},
         phase' # "returned" =>
           ~UnsafeTool /\ (e = "timed_out" => options.retryOnTimeout),
         calls' \subseteq calls \cup {Len(records) + 2},
         Len(records) + 2 \in calls' => phase' = "calling",
         Len(records) + 1 \in calls' =>
           e = "timed_out" \/ (e = "aborted" /\ phase' = "returned")
  PROVE  BrokerInv'
<1> DEFINE made == Len(records) + 1
<1>1. /\ records \in Seq(Statuses) /\ Len(records) \in Nat
      /\ records' \in Seq(Statuses) /\ Len(records') = made
      /\ records'[made] = e
      /\ \A n \in 1..Len(records) : records'[n] = records[n]
  BY RecordAppended DEF BrokerInv, BrokerTypes
<1>2. \A n \in calls' : n \in Nat \ {0} /\ (n <= made \/ n = made + 1)
  BY <1>1 DEF BrokerInv, BrokerTypes, CallsAreCounted, Current
<1>3. BrokerTypes'
  BY <1>1, <1>2 DEF BrokerInv, BrokerTypes, Points
<1>4. CallsAreCounted'
  BY <1>1, <1>2 DEF CallsAreCounted, Current
<1>5. LeftRunning'
  <2> SUFFICES ASSUME NEW n \in calls', n <= made
               PROVE  \/ records'[n] = "timed_out"
                      \/ records'[n] = "aborted" /\ n = made /\ phase' = "returned"
    BY <1>1 DEF LeftRunning
  <2>1. CASE n = made
    BY <1>1, <2>1
  <2>2. CASE n # made
    <3>1. n \in calls /\ n <= Len(records) /\ n \in Nat
      BY <1>1, <1>2, <2>2
    <3>2. n \in 1..Len(records)
      BY <1>1, <1>2, <3>1
    <3> QED BY <1>1, <3>1, <3>2 DEF BrokerInv, LeftRunning
  <2> QED BY <2>1, <2>2
<1>6. TimeoutsRetried'
  <2> SUFFICES ASSUME NEW n \in 1..made, records'[n] = "timed_out",
                      n < made \/ phase' # "returned"
               PROVE  options.retryOnTimeout
    BY <1>1 DEF TimeoutsRetried
  <2>1. CASE n = made
    BY <1>1, <2>1
  <2>2. CASE n # made
    BY <1>1, <2>2 DEF BrokerInv, TimeoutsRetried
  <2> QED BY <2>1, <2>2
<1>7. CalledOnce'
  BY <1>1 DEF CalledOnce, BrokerInv, UnsafeTool
<1> QED BY <1>3, <1>4, <1>5, <1>6, <1>7 DEF BrokerInv

\* A step that records nothing keeps the invariant if it only ends calls, or
\* starts the attempt under way.
LEMMA NothingRecorded ==
  ASSUME BrokerInv, UNCHANGED <<tool, options, records>>, aborted' \in BOOLEAN,
         phase' \in {"calling", "delaying", "returned"},
         phase = "returned" => phase' = "returned",
         phase' = "calling" => phase \in {"health", "delaying", "calling"},
         phase' = "delaying" => phase = "delaying",
         phase \in {"health", "calling"} => phase' # "delaying",
         phase = "calling" => phase' = "calling",
         calls' \subseteq calls \cup {Current},
         Current \in calls' => phase' = "calling"
  PROVE  BrokerInv'
<1>1. Len(records) \in Nat /\ records \in Seq(Statuses)
  BY DEF BrokerInv, BrokerTypes
<1>2. \A n \in calls' : n \in Nat \ {0} /\ (n \in calls \/ n = Len(records) + 1)
  BY <1>1 DEF BrokerInv, BrokerTypes, Current
<1>3. \A n \in calls' : n <= Current /\ (phase' # "calling" => n <= Len(records))
  BY <1>1, <1>2 DEF BrokerInv, CallsAreCounted, Current
<1>4. BrokerTypes'
  BY <1>2 DEF BrokerInv, BrokerTypes, Points
<1>5. CallsAreCounted'
  BY <1>3 DEF CallsAreCounted, Current
<1>6. LeftRunning'
  BY <1>1, <1>2 DEF BrokerInv, LeftRunning
<1>7. TimeoutsRetried'
  BY DEF BrokerInv, TimeoutsRetried
<1>8. CalledOnce'
  BY DEF BrokerInv, CalledOnce, UnsafeTool
<1> QED BY <1>4, <1>5, <1>6, <1>7, <1>8 DEF BrokerInv

\* The head of the loop returns or calls, and never waits.
LEMMA AttemptBegins ==
  ASSUME NEW n, BeginAttempt(n)
  PROVE  /\ phase' \in {"calling", "returned"}
         /\ calls' \subseteq calls \cup {n}
         /\ n \in calls' => n \in calls \/ phase' = "calling"
         /\ phase' = "returned" => calls' = calls
BY DEF BeginAttempt, Return

\* A retry is of a tool that is safe to repeat, after a timeout only if the
\* request asked for it.
LEMMA RetryIsSafe ==
  ASSUME NEW timeout, NEW retryable, ShouldRetry(timeout, retryable)
  PROVE  ~UnsafeTool /\ (timeout => options.retryOnTimeout)
BY DEF ShouldRetry, CanAutomaticallyRetry, UnsafeTool

\* How an invocation proceeds, for every request, every set of tools and every
\* ceiling of attempts.
THEOREM BrokerInvariant == BrokerSpec => []BrokerInv
<1>1. BrokerInit => BrokerInv
  <2> SUFFICES ASSUME BrokerInit PROVE BrokerInv
    OBVIOUS
  <2>1. records = <<>> /\ Len(records) = 0 /\ records \in Seq(Statuses) /\ calls = {}
    BY DEF BrokerInit
  <2>2. BrokerTypes
    BY <2>1 DEF BrokerInit, BrokerTypes, Points
  <2> QED BY <2>1, <2>2
          DEF BrokerInv, CallsAreCounted, LeftRunning, TimeoutsRetried, CalledOnce
<1>2. BrokerInv /\ [BrokerNext]_brokerVars => BrokerInv'
  <2> SUFFICES ASSUME BrokerInv, [BrokerNext]_brokerVars PROVE BrokerInv'
    OBVIOUS
  <2>0. /\ Len(records) \in Nat /\ Current = Len(records) + 1 /\ aborted \in BOOLEAN
        /\ phase # "calling" => Current \notin calls
        /\ Len(records) + 2 \notin calls
    BY DEF BrokerInv, BrokerTypes, CallsAreCounted, Current
  <2>1. CASE Select
    BY <2>1 DEF Select, invocation, BrokerInv, BrokerTypes, Points,
           CallsAreCounted,
                LeftRunning, TimeoutsRetried, CalledOnce, UnsafeTool
  <2>2. CASE Invoke
    BY <2>2 DEF Invoke, BrokerInv, BrokerTypes, Points, CallsAreCounted,
                LeftRunning, TimeoutsRetried, CalledOnce, UnsafeTool
  <2>3. CASE Checked
    <3>1. CASE BeginAttempt(1)
      BY <2>0, <2>3, <3>1, AttemptBegins, NothingRecorded
         DEF Checked, invocation, BrokerInv, CallsAreCounted
    <3>2. CASE Return("failed") /\ UNCHANGED calls
      BY <2>0, <2>3, <3>2, NothingRecorded
         DEF Checked, Return, invocation
    <3> QED BY <2>3, <3>1, <3>2 DEF Checked
  <2>4. CASE SourceAnswers
    <3>1. PICK e \in Statuses, retryable \in BOOLEAN :
            /\ records' = Append(records, e)
            /\ IF /\ e \in {"failed", "timed_out"}
                  /\ ShouldRetry(e = "timed_out", retryable)
               THEN phase' = "delaying" /\ UNCHANGED outcome
               ELSE Return(e)
      BY <2>4 DEF SourceAnswers
    <3>2. /\ phase' \in {"returned", "delaying"}
          /\ phase' # "returned" =>
               ~UnsafeTool /\ (e = "timed_out" => options.retryOnTimeout)
      BY <3>1, RetryIsSafe DEF Return
    <3> QED BY <2>0, <2>4, <3>1, <3>2, AttemptEnds
       DEF SourceAnswers, invocation
  <2>5. CASE TimesOut
    <3>1. CASE ShouldRetry(TRUE, CanAutomaticallyRetry(options.retryOnTimeout))
      <4>1. ~UnsafeTool /\ options.retryOnTimeout
        BY <3>1, RetryIsSafe
      <4>2. BeginAttempt(Len(records) + 2)
        BY <2>0, <2>5, <3>1 DEF TimesOut
      <4> QED BY <2>0, <2>5, <4>1, <4>2, AttemptBegins, AttemptEnds
              DEF TimesOut, invocation, Statuses
    <3>2. CASE ~ShouldRetry(TRUE, CanAutomaticallyRetry(options.retryOnTimeout))
      BY <2>0, <2>5, <3>2, AttemptEnds
         DEF TimesOut, Return, invocation, Statuses
    <3> QED BY <3>1, <3>2
  <2>6. CASE DelayOver
    BY <2>0, <2>6, AttemptBegins, NothingRecorded DEF DelayOver, invocation
  <2>7. CASE AbortInvocation
    <3>1. CASE phase = "calling"
      BY <2>0, <2>7, <3>1, AttemptEnds
         DEF AbortInvocation, Return, invocation, Statuses
    <3>2. CASE phase # "calling"
      <4>1. UNCHANGED <<tool, options, phase, calls, records>> /\ aborted' \in BOOLEAN
        BY <2>7, <3>2 DEF AbortInvocation, invocation
      <4> QED BY <4>1 DEF BrokerInv, BrokerTypes, Points, CallsAreCounted, Current,
                          LeftRunning, TimeoutsRetried, CalledOnce, UnsafeTool
    <3> QED BY <3>1, <3>2
  <2>8. ASSUME NEW n \in calls, LostCallSettles(n)
        PROVE  BrokerInv'
    <3>1. /\ UNCHANGED <<tool, options, phase, aborted, records>>
          /\ calls' \subseteq calls
      BY <2>8 DEF LostCallSettles, invocation
    <3> QED BY <3>1 DEF BrokerInv, BrokerTypes, CallsAreCounted, Current,
                        LeftRunning, TimeoutsRetried, CalledOnce, UnsafeTool
  <2>9. CASE UNCHANGED brokerVars
    BY <2>9 DEF brokerVars, invocation, progress, BrokerInv, BrokerTypes,
           CallsAreCounted, Current,
                LeftRunning, TimeoutsRetried, CalledOnce, UnsafeTool
  <2> QED BY <2>1, <2>2, <2>3, <2>4, <2>5, <2>6, <2>7, <2>8, <2>9 DEF BrokerNext
<1> QED BY <1>1, <1>2, PTL DEF BrokerSpec

\* A tool that is not safe to repeat is called at most once, whichever way the
\* attempt ends.
THEOREM UnsafeToolsRunOnce == BrokerSpec => []UnsafeRunsOnce
<1>1. BrokerInv => UnsafeRunsOnce
  <2> SUFFICES ASSUME BrokerInv, UnsafeTool
               PROVE  Len(records) + (IF phase = "calling" THEN 1 ELSE 0) <= 1
    BY DEF UnsafeRunsOnce, UnsafeTool
  <2>1. Len(records) = 0 \/ (Len(records) = 1 /\ phase = "returned")
    BY DEF BrokerInv, CalledOnce
  <2>2. CASE phase = "calling"
    <3>1. Len(records) = 0
      BY <2>1, <2>2
    <3> QED BY <2>2, <3>1
  <2>3. CASE phase # "calling"
    BY <2>1, <2>3
  <2> QED BY <2>2, <2>3
<1> QED BY <1>1, BrokerInvariant, PTL

\* Two calls of one invocation overlap only if the request asked for retries
\* after a timeout, and a call left running was recorded as such.
THEOREM OverlapsAreAskedFor == BrokerSpec => []OverlapIsAskedFor
<1>1. BrokerInv => OverlapIsAskedFor
  <2> SUFFICES ASSUME BrokerInv PROVE OverlapIsAskedFor
    OBVIOUS
  <2>1. ASSUME Cardinality(calls) > 1 PROVE options.retryOnTimeout
    <3>1. PICK n, m \in calls : n < m
      <4>1. calls # {}
        BY <2>1, FS_EmptySet
      <4>2. PICK x : x \in calls
        BY <4>1
      <4>3. calls # {x}
        BY <2>1, FS_Singleton
      <4>4. PICK y \in calls : y # x
        BY <4>2, <4>3
      <4> QED BY <4>2, <4>4 DEF BrokerInv, BrokerTypes
    <3>2. /\ n \in Nat \ {0} /\ m \in Nat \ {0} /\ Len(records) \in Nat
          /\ m <= Len(records) + 1
          /\ phase # "calling" => m <= Len(records)
      BY <3>1 DEF BrokerInv, BrokerTypes, CallsAreCounted, Current
    <3>3. n \in 1..Len(records) /\ (n < Len(records) \/ phase = "calling")
      BY <3>1, <3>2
    <3>4. records[n] = "timed_out"
      BY <3>1, <3>2, <3>3 DEF BrokerInv, LeftRunning
    <3> QED BY <3>3, <3>4 DEF BrokerInv, TimeoutsRetried
  <2> QED BY <2>1 DEF BrokerInv, LeftRunning, OverlapIsAskedFor
<1> QED BY <1>1, BrokerInvariant, PTL

\* Once the caller has aborted, no call to the source starts.
THEOREM AbortsWin == BrokerSpec => AbortWins
<1>1. [BrokerNext]_brokerVars => [calls' \subseteq calls \/ ~aborted]_brokerVars
  BY DEF BrokerNext, Select, Invoke, Checked, SourceAnswers,
         TimesOut, DelayOver, AbortInvocation,
         LostCallSettles, BeginAttempt, Return, brokerVars,
         progress
<1> QED BY <1>1, PTL DEF BrokerSpec, AbortWins

-----------------------------------------------------------------------------
(* What the broker selects *)

\* A set of naturals has a least element.
LEMMA LeastElement ==
  ASSUME NEW T \in SUBSET Nat, T # {}
  PROVE  \E x \in T : \A y \in T : x <= y
<1> DEFINE R == OpToRel(<, Nat)
<1>1. IsWellFoundedOn(R, Nat)
  BY NatLessThanWellFounded
<1> HIDE DEF R
<1>2. PICK x \in T : \A y \in T : <<y, x>> \notin R
  BY <1>1, WFMin
<1>3. \A y \in T : ~(y < x)
  BY <1>2 DEF R, OpToRel
<1> QED BY <1>3

\* The tools that would cover something new.
Useful(r, eligible, chosen) == {t \in eligible \ chosen : Gain(r, chosen, t) > 0}

\* A gain is a number of required capabilities, and none at all if it is zero.
LEMMA GainCounts ==
  ASSUME NEW r \in Requests, NEW chosen, NEW t
  PROVE  /\ Gain(r, chosen, t) \in Nat
         /\ Gain(r, chosen, t) <= Cardinality(r.required)
         /\ Cardinality(r.required) \in Nat
         /\ Gain(r, chosen, t) = 0 => r.required \cap t.capabilities \subseteq Covered(chosen)
<1> DEFINE new == (r.required \ Covered(chosen)) \cap t.capabilities
<1>1. IsFiniteSet(r.required)
  BY RequestsAreTyped DEF IsRequest
<1>2. IsFiniteSet(new) /\ Cardinality(new) <= Cardinality(r.required)
  <2>1. new \in SUBSET r.required
    OBVIOUS
  <2> QED BY <1>1, <2>1, FS_Subset
<1>3. Cardinality(new) \in Nat /\ Cardinality(r.required) \in Nat
  BY <1>1, <1>2, FS_CardinalityType
<1>4. Gain(r, chosen, t) = Cardinality(new)
  BY DEF Gain
<1>5. Cardinality(new) = 0 => new = {}
  BY <1>2, FS_EmptySet
<1> QED BY <1>2, <1>3, <1>4, <1>5

\* The sort has a first element, however many candidates there are.
LEMMA BestExists ==
  ASSUME NEW r \in Requests, NEW chosen, NEW useful \in SUBSET Catalogue, useful # {}
  PROVE  \E best \in useful : \A t \in useful : Precedes(r, chosen, best, t)
<1> DEFINE gain(t) == Gain(r, chosen, t)
           effect(t) == IF t.sideEffects = "none" THEN 0 ELSE 1
           most == Cardinality(r.required)
<1>1. \A t \in useful : gain(t) \in Nat /\ gain(t) <= most /\ most \in Nat
  BY GainCounts
<1>2. \A t \in useful : t.id \in Nat /\ effect(t) \in Nat
  BY CatalogueIsTyped DEF IsTool
<1>3. \A a, b : Precedes(r, chosen, a, b) <=>
        \/ gain(a) > gain(b)
        \/ gain(a) = gain(b) /\ effect(a) < effect(b)
        \/ gain(a) = gain(b) /\ effect(a) = effect(b) /\ a.id <= b.id
  BY DEF Precedes
<1> HIDE DEF gain, effect, most
<1>4. PICK m \in {most - gain(t) : t \in useful} :
        \A n \in {most - gain(t) : t \in useful} : m <= n
  <2>1. {most - gain(t) : t \in useful} \in SUBSET Nat
    BY <1>1
  <2>2. {most - gain(t) : t \in useful} # {}
    OBVIOUS
  <2> QED BY <2>1, <2>2, LeastElement
<1> DEFINE first == {t \in useful : most - gain(t) = m}
<1>5. first # {} /\ first \subseteq useful
  OBVIOUS
<1>6. \A a \in first, t \in useful : gain(a) >= gain(t) /\ (gain(a) = gain(t) => t \in first)
  BY <1>1, <1>4
<1> HIDE DEF first
<1>7. PICK e \in {effect(t) : t \in first} : \A n \in {effect(t) : t \in first} : e <= n
  <2>1. {effect(t) : t \in first} \in SUBSET Nat
    BY <1>2, <1>5
  <2>2. {effect(t) : t \in first} # {}
    BY <1>5
  <2> QED BY <2>1, <2>2, LeastElement
<1> DEFINE second == {t \in first : effect(t) = e}
<1>8. second # {} /\ second \subseteq first
  OBVIOUS
<1>9. \A a \in second, t \in first :
        effect(a) <= effect(t) /\ (effect(a) = effect(t) => t \in second)
  BY <1>7
<1> HIDE DEF second
<1>10. PICK i \in {t.id : t \in second} : \A n \in {t.id : t \in second} : i <= n
  <2>1. {t.id : t \in second} \in SUBSET Nat
    BY <1>2, <1>5, <1>8
  <2>2. {t.id : t \in second} # {}
    BY <1>8
  <2> QED BY <2>1, <2>2, LeastElement
<1>11. PICK best \in second : best.id = i
  OBVIOUS
<1>12. best \in useful /\ best \in first
  BY <1>5, <1>8, <1>11
<1>13. ASSUME NEW t \in useful PROVE Precedes(r, chosen, best, t)
  <2>1. CASE gain(best) > gain(t)
    BY <1>3, <2>1
  <2>2. CASE gain(best) = gain(t) /\ effect(best) < effect(t)
    BY <1>3, <2>2
  <2>3. CASE gain(best) = gain(t) /\ ~(effect(best) < effect(t))
    <3>1. t \in first
      BY <1>6, <1>12, <2>3
    <3>2. effect(best) = effect(t)
      BY <1>2, <1>9, <1>11, <1>12, <2>3, <3>1
    <3>3. t \in second
      BY <1>9, <1>11, <3>1, <3>2
    <3>4. best.id <= t.id
      BY <1>10, <1>11, <3>3
    <3> QED BY <1>3, <2>3, <3>2, <3>4
  <2> QED BY <1>1, <1>6, <1>12, <2>1, <2>2, <2>3
<1> QED BY <1>12, <1>13

\* An iteration takes one tool more as long as one is useful, and none then.
LEMMA WithBestGrows ==
  ASSUME NEW r \in Requests, NEW eligible \in SUBSET Catalogue,
         NEW chosen \in SUBSET eligible, IsFiniteSet(chosen)
  PROVE  /\ WithBest(r, eligible, chosen) \subseteq eligible
         /\ IsFiniteSet(WithBest(r, eligible, chosen))
         /\ IF Useful(r, eligible, chosen) = {}
            THEN WithBest(r, eligible, chosen) = chosen
            ELSE Cardinality(WithBest(r, eligible, chosen)) = Cardinality(chosen) + 1
<1>1. CASE Useful(r, eligible, chosen) = {}
  <2>1. WithBest(r, eligible, chosen) = chosen
    BY <1>1 DEF WithBest, Useful
  <2> QED BY <1>1, <2>1
<1>2. CASE Useful(r, eligible, chosen) # {}
  <2> DEFINE useful == Useful(r, eligible, chosen)
             best == CHOOSE b \in useful : \A t \in useful : Precedes(r, chosen, b, t)
  <2>1. WithBest(r, eligible, chosen) = chosen \cup {best}
    BY <1>2 DEF WithBest, Useful
  <2>2. useful \in SUBSET Catalogue
    BY DEF Useful
  <2>3. best \in useful
    BY <1>2, <2>2, BestExists
  <2>4. best \in eligible \ chosen
    BY <2>3 DEF Useful
  <2> HIDE DEF best
  <2>5. IsFiniteSet(chosen \cup {best}) /\ Cardinality(chosen \cup {best}) = Cardinality(chosen) + 1
    BY <2>4, FS_AddElement
  <2> QED BY <1>2, <2>1, <2>4, <2>5
<1> QED BY <1>1, <1>2

\* The tools asked for by id fit: no two eligible tools share one.
LEMMA RequestedFit ==
  ASSUME NEW r \in Requests, NEW found \in SUBSET Catalogue
  PROVE  /\ Requested(r, Eligible(r, found)) \subseteq Eligible(r, found)
         /\ IsFiniteSet(Requested(r, Eligible(r, found)))
         /\ Cardinality(Requested(r, Eligible(r, found))) <= r.maxTools
<1> DEFINE eligible == Eligible(r, found)
           first == Requested(r, eligible)
           ids == SelectSeq(r.requested, LAMBDA id : \E t \in eligible : t.id = id)
           place == [t \in first |-> CHOOSE i \in 1..r.maxTools : ids[i] = t.id]
<1>1. first \subseteq eligible /\ \A t \in first : \E i \in 1..r.maxTools : ids[i] = t.id
  BY DEF Requested
<1> HIDE DEF first, ids
<1>2. \A t \in first : place[t] \in 1..r.maxTools /\ ids[place[t]] = t.id
  BY <1>1
<1> HIDE DEF place
<1>3. \A s, t \in first : place[s] = place[t] => s = t
  <2>1. \A s, t \in eligible : s.id = t.id => s = t
    BY DEF Eligible, Admitted, Duplicate
  <2> QED BY <1>1, <1>2, <2>1
<1>4. place \in Injection(first, 1..r.maxTools)
  BY <1>2, <1>3 DEF place, Injection, IsInjective
<1>5. r.maxTools \in Nat \ {0}
  BY RequestsAreTyped DEF IsRequest
<1>6. IsFiniteSet(1..r.maxTools) /\ Cardinality(1..r.maxTools) = r.maxTools
  BY <1>5, FS_Interval
<1>7. IsFiniteSet(first) /\ Cardinality(first) <= r.maxTools
  BY <1>4, <1>6, FS_Injection
<1> QED BY <1>1, <1>7 DEF first

\* The loop of select, as the function of the number of its iterations.
IsFill(fill, r, found, bound) ==
  fill = [n \in 0..bound |->
            IF n = 0 THEN Requested(r, Eligible(r, found))
            ELSE WithBest(r, Eligible(r, found), fill[n - 1])]
Fill(r, found) == CHOOSE fill : IsFill(fill, r, found, r.maxTools)

\* There is such a function: the shortest bound with none would have one made
\* of the function for the bound before it.
LEMMA FillExists ==
  ASSUME NEW r \in Requests, NEW found
  PROVE  IsFill(Fill(r, found), r, found, r.maxTools)
<1> DEFINE start == Requested(r, Eligible(r, found))
           next(chosen) == WithBest(r, Eligible(r, found), chosen)
           without == {k \in Nat : ~\E f : IsFill(f, r, found, k)}
<1>1. \A f, k : IsFill(f, r, found, k) <=>
        f = [n \in 0..k |-> IF n = 0 THEN start ELSE next(f[n - 1])]
  BY DEF IsFill
<1> HIDE DEF start, next
<1>2. ASSUME without # {} PROVE FALSE
  <2>1. PICK k \in without : \A j \in without : k <= j
    BY <1>2, LeastElement
  <2>2. k # 0
    <3>1. IsFill([n \in 0..0 |-> start], r, found, 0)
      <4> DEFINE f == [n \in 0..0 |-> start]
      <4>1. f = [n \in 0..0 |-> IF n = 0 THEN start ELSE next(f[n - 1])]
        OBVIOUS
      <4> QED BY <1>1, <4>1
    <3> QED BY <2>1, <3>1
  <2>3. PICK g : IsFill(g, r, found, k - 1)
    <3>1. k - 1 \in Nat /\ ~(k <= k - 1)
      BY <2>2
    <3>2. k - 1 \notin without
      BY <2>1, <3>1
    <3> QED BY <3>1, <3>2
  <2> DEFINE f == [n \in 0..k |-> IF n = k THEN next(g[k - 1]) ELSE g[n]]
  <2>4. g = [n \in 0..(k - 1) |-> IF n = 0 THEN start ELSE next(g[n - 1])]
    BY <1>1, <2>3
  <2>5. \A n \in 0..(k - 1) : g[n] = IF n = 0 THEN start ELSE next(g[n - 1])
    BY <2>4
  <2>6. f = [n \in 0..k |-> IF n = 0 THEN start ELSE next(f[n - 1])]
    <3> SUFFICES ASSUME NEW n \in 0..k
                 PROVE  f[n] = IF n = 0 THEN start ELSE next(f[n - 1])
      OBVIOUS
    <3>1. CASE n = k
      <4>1. k - 1 \in 0..k /\ k - 1 # k
        BY <2>2
      <4>2. f[k - 1] = g[k - 1] /\ f[n] = next(g[k - 1])
        BY <3>1, <4>1
      <4> QED BY <2>2, <3>1, <4>2
    <3>2. CASE n # k
      <4>1. n \in 0..(k - 1) /\ f[n] = g[n]
        BY <3>2
      <4>2. n # 0 => n - 1 \in 0..k /\ n - 1 # k
        BY <3>2
      <4>3. n # 0 => f[n - 1] = g[n - 1]
        BY <4>2
      <4> QED BY <2>5, <4>1, <4>3
    <3> QED BY <3>1, <3>2
  <2>7. IsFill(f, r, found, k)
    BY <1>1, <2>6
  <2> QED BY <2>1, <2>7
<1>3. r.maxTools \in Nat
  BY RequestsAreTyped DEF IsRequest
<1>4. \E f : IsFill(f, r, found, r.maxTools)
  BY <1>2, <1>3
<1> QED BY <1>4 DEF Fill

\* The loop ends with a full grant or with no useful tool left.
LEMMA SelectionIsFull ==
  ASSUME NEW r \in Requests, NEW found \in SUBSET Catalogue
  PROVE  /\ Selection(r, found) \subseteq Eligible(r, found)
         /\ IsFiniteSet(Selection(r, found))
         /\ \/ Cardinality(Selection(r, found)) = r.maxTools
            \/ Useful(r, Eligible(r, found), Selection(r, found)) = {}
<1> DEFINE eligible == Eligible(r, found)
           first == Requested(r, eligible)
           fill == Fill(r, found)
           rounds == r.maxTools - Cardinality(first)
           Filled(n) == /\ fill[n] \subseteq eligible /\ IsFiniteSet(fill[n])
                        /\ \/ Cardinality(fill[n]) = Cardinality(first) + n
                           \/ Useful(r, eligible, fill[n]) = {}
           unfilled == {n \in 0..rounds : ~Filled(n)}
<1>1. r.maxTools \in Nat
  BY RequestsAreTyped DEF IsRequest
<1>2. /\ first \subseteq eligible /\ IsFiniteSet(first) /\ Cardinality(first) \in Nat
      /\ rounds \in 0..r.maxTools
  <2>1. first \subseteq eligible /\ IsFiniteSet(first) /\ Cardinality(first) <= r.maxTools
    BY RequestedFit
  <2>2. Cardinality(first) \in Nat
    BY <2>1, FS_CardinalityType
  <2> QED BY <1>1, <2>1, <2>2
<1>3. \A n \in 0..r.maxTools :
        fill[n] = IF n = 0 THEN first ELSE WithBest(r, eligible, fill[n - 1])
  <2>1. IsFill(fill, r, found, r.maxTools)
    BY FillExists
  <2> HIDE DEF fill
  <2> QED BY <2>1 DEF IsFill
<1>4. Selection(r, found) = fill[rounds]
  BY DEF Selection, Fill, IsFill
<1>5. eligible \in SUBSET Catalogue
  BY DEF Eligible
<1> HIDE DEF fill, first, rounds, eligible
<1>6. ASSUME unfilled # {} PROVE FALSE
  <2>1. PICK k \in unfilled : \A j \in unfilled : k <= j
    <3>1. unfilled \in SUBSET Nat
      OBVIOUS
    <3> QED BY <1>6, <3>1, LeastElement
  <2>2. CASE k = 0
    <3>1. fill[0] = first
      BY <1>1, <1>3
    <3>2. Filled(0)
      BY <1>2, <3>1
    <3> QED BY <2>1, <2>2, <3>2
  <2>3. CASE k # 0
    <3>1. k \in 0..r.maxTools /\ k - 1 \in 0..rounds /\ ~(k <= k - 1)
      BY <1>1, <1>2, <2>3
    <3>2. Filled(k - 1)
      BY <2>1, <3>1
    <3>3. fill[k] = WithBest(r, eligible, fill[k - 1])
      BY <1>3, <2>3, <3>1
    <3>4. /\ fill[k] \subseteq eligible /\ IsFiniteSet(fill[k])
          /\ IF Useful(r, eligible, fill[k - 1]) = {}
             THEN fill[k] = fill[k - 1]
             ELSE Cardinality(fill[k]) = Cardinality(fill[k - 1]) + 1
      BY <1>5, <3>2, <3>3, WithBestGrows
    <3>5. CASE Useful(r, eligible, fill[k - 1]) = {}
      BY <2>1, <3>4, <3>5
    <3>6. CASE Useful(r, eligible, fill[k - 1]) # {}
      <4>1. Cardinality(fill[k]) = Cardinality(first) + k
        BY <1>2, <3>1, <3>2, <3>4, <3>6
      <4> QED BY <2>1, <3>4, <4>1
    <3> QED BY <3>5, <3>6
  <2> QED BY <2>2, <2>3
<1>7. Filled(rounds)
  <2>1. rounds \in 0..rounds
    BY <1>1, <1>2
  <2>2. rounds \notin unfilled
    BY <1>6
  <2> QED BY <2>1, <2>2
<1>8. Cardinality(first) + rounds = r.maxTools
  BY <1>1, <1>2 DEF rounds
<1> QED BY <1>4, <1>7, <1>8 DEF eligible

\* For every catalogue and request: a required capability is left uncovered only
\* if no eligible tool has it or the grant is full.
THEOREM CoversWhatItCan == BrokerSpec => []CoverageIsMaximal
<1> DEFINE Granted == /\ request \in Requests
                      /\ phase # "selecting" => grants = Selection(request, Discovered(available))
<1>1. BrokerInit => Granted
  BY DEF BrokerInit
<1>2. Granted /\ [BrokerNext]_brokerVars => Granted'
  BY DEF BrokerNext, Select, Invoke, Checked, SourceAnswers, TimesOut, DelayOver,
         AbortInvocation, LostCallSettles, BeginAttempt, Return, brokerVars, selection,
         invocation, progress
<1>3. Granted => CoverageIsMaximal
  <2> SUFFICES ASSUME Granted, phase # "selecting", Cardinality(grants) < request.maxTools,
                      NEW t \in Eligible(request, Discovered(available))
               PROVE  request.required \cap t.capabilities \subseteq Covered(grants)
    BY DEF CoverageIsMaximal
  <2> DEFINE found == Discovered(available)
  <2>1. found \in SUBSET Catalogue
    BY DEF Discovered
  <2>2. \/ Useful(request, Eligible(request, found), grants) = {}
        \/ Cardinality(grants) = request.maxTools
    BY <2>1, SelectionIsFull
  <2>3. request.maxTools \in Nat
    BY RequestsAreTyped DEF IsRequest
  <2>4. CASE t \in grants
    BY <2>4 DEF Covered
  <2>5. CASE t \notin grants
    <3>1. ~(Gain(request, grants, t) > 0)
      BY <2>2, <2>3, <2>5 DEF Useful
    <3>2. Gain(request, grants, t) = 0
      BY <3>1, GainCounts
    <3> QED BY <3>2, GainCounts
  <2> QED BY <2>4, <2>5
<1> QED BY <1>1, <1>2, <1>3, PTL DEF BrokerSpec

-----------------------------------------------------------------------------
(* The OpenCode adapter *)

Locals == {"created", "running", "completed", "waiting_approval", "interrupted",
           "aborted", "destroyed", "failed"}

\* Where an operation waits, and what it has with it.
CallRecords ==
  {NoCall}
    \cup [op : {"send"}, at : {"baseline"}]
    \cup [op : {"send"}, at : {"prompt", "refused"}, base : Nat]
    \cup [op : {"send"}, at : {"prompted"}, task : Nat, base : Nat]
    \cup [op : {"interrupted", "aborted"}, at : {"abort", "done"}]
    \cup [op : {"destroyed"}, at : {"delete", "done"}]
    \cup [op : {"running", "aborted"}, at : {"reply", "done"}]
    \cup [op : {"created"}, at : {"get"}]
    \cup [op : {"events"}, at : {"lists"}, asked : SUBSET {"messages", "permissions"},
          count : Nat, permission : BOOLEAN]
    \cup [op : {"status"}, at : {"status"}]
    \cup [op : {"status"}, at : {"typed", "messages"}, type : BOOLEAN]
    \cup [op : {"status"}, at : {"read"}, type : BOOLEAN, count : Nat]

\* The adapter's and the provider's state.
SessionTypes ==
  /\ local \in Locals
  /\ last \in Nat /\ baseline \in Nat
  /\ terminal \in BOOLEAN /\ busySeen \in BOOLEAN
  /\ call \in [Callers -> CallRecords]
  /\ messages \in Seq([role : {"user", "assistant"}, task : Nat])
  /\ working \in Seq(Nat)
  /\ busy \in BOOLEAN /\ pending \in BOOLEAN /\ deleted \in BOOLEAN
  /\ mixed \in SUBSET {"working", "lost"} /\ overlapped \in BOOLEAN

Asked(n) == messages[n].role = "user"

\* Tasks are numbered as they are taken, and only the driver's are.
Numbered ==
  /\ \A n \in DOMAIN messages : messages[n].task <= Sent
  /\ \A n \in DOMAIN messages : Asked(n) => messages[n].task >= 1
  /\ \A n \in DOMAIN working : working[n] <= Sent
  /\ \A c \in Callers :
       /\ call[c].at \in {"baseline", "prompt", "prompted", "refused"} => c = Driver
       /\ call[c].at \in {"lists", "read"} => call[c].count <= Len(messages)
  /\ working # <<>> => busy

\* While no task got in the way of another: the provider works at most on the
\* last one taken, and answers come after what they answer.
InTurn ==
  mixed = {} =>
    /\ working = <<>> \/ (working = <<Sent>> /\ ~Answered(Sent))
    /\ \A m, n \in DOMAIN messages :
         m < n /\ Asked(m) /\ ~Asked(n) => messages[m].task <= messages[n].task
    /\ IF call[Driver].at = "prompted"
       THEN call[Driver].task = Sent /\ last < Sent
       ELSE last = Sent

\* The baselines divide the messages.
Divided ==
  mixed = {} =>
    \A m \in DOMAIN messages : Asked(m) =>
      /\ baseline < m => last <= messages[m].task
      /\ call[Driver].at = "prompt" => m <= call[Driver].base
      /\ call[Driver].at = "prompted" /\ call[Driver].base < m =>
           call[Driver].task <= messages[m].task

\* What is called completed, or was seen to be, was answered.
Evidence == \E t \in last..Sent : Answered(t)
Evident == mixed = {} /\ (terminal \/ local = "completed") => Evidence

\* An operation that has seen the provider at rest, or stopped it.
FoundIdle(r) ==
  \/ r.at \in {"baseline", "prompt", "get"}
  \/ r.at \in {"typed", "messages", "read"} /\ ~r.type
  \/ r.at = "done" /\ r.op = "interrupted"

\* While operations come one by one and no answer is lost.
Alone == ~overlapped /\ "lost" \notin mixed
OneByOne ==
  Alone =>
    /\ mixed = {}
    /\ \A c, d \in Callers : c # d =>
         call[c] = NoCall \/ call[d] = NoCall
    /\ working # <<>> /\ Reusable(local) => call[Driver].at = "prompted"
    /\ \A c \in Callers : FoundIdle(call[c]) => working = <<>>

SessionsInv == SessionTypes /\ Numbered /\ InTurn /\ Divided /\ Evident /\ OneByOne

-----------------------------------------------------------------------------
(* Messages and calls *)

\* Sequences: their elements, one more, and one less.
LEMMA InSequence ==
  ASSUME NEW S, NEW s \in Seq(S), NEW n \in 1..Len(s)
  PROVE  s[n] \in S
OBVIOUS

LEMMA Added ==
  ASSUME NEW S, NEW s \in Seq(S), NEW e \in S
  PROVE  /\ Append(s, e) \in Seq(S)
         /\ Len(s) \in Nat /\ DOMAIN s = 1..Len(s)
         /\ DOMAIN Append(s, e) = 1..(Len(s) + 1)
         /\ Append(s, e)[Len(s) + 1] = e
         /\ \A n \in DOMAIN s : Append(s, e)[n] = s[n]
         /\ s = <<>> => Append(s, e) = <<e>>
<1>1. Append(<<>>, e) = <<e>>
  OBVIOUS
<1>2. s = <<>> => Append(s, e) = <<e>>
  BY <1>1
<1>3. Len(s) \in Nat /\ DOMAIN s = 1..Len(s) /\ Append(s, e) \in Seq(S)
  OBVIOUS
<1>4. /\ DOMAIN Append(s, e) = 1..(Len(s) + 1)
      /\ Append(s, e)[Len(s) + 1] = e
  BY <1>3
<1>5. \A n \in DOMAIN s : Append(s, e)[n] = s[n]
  BY <1>3
<1> QED BY <1>2, <1>3, <1>4, <1>5

LEMMA TakenOff ==
  ASSUME NEW S, NEW s \in Seq(S), s # <<>>
  PROVE  /\ Tail(s) \in Seq(S) /\ Head(s) \in S
         /\ 1 \in DOMAIN s /\ Head(s) = s[1]
         /\ \A n \in DOMAIN Tail(s) : n + 1 \in DOMAIN s /\ Tail(s)[n] = s[n + 1]
         /\ \A e : s = <<e>> => Tail(s) = <<>> /\ Head(s) = e
<1>1. \A e : s = <<e>> => Tail(s) = <<>> /\ Head(s) = e
  OBVIOUS
<1> QED BY <1>1

\* The positions of the users' messages.
Prompts == {n \in DOMAIN messages : Asked(n)}

\* The prompts sent are the messages of the user.
LEMMA SentIsPrompts == Sent = Cardinality(Prompts)
BY DEF Sent, Prompts, Asked

LEMMA SentIsCounted ==
  ASSUME SessionTypes
  PROVE  /\ IsFiniteSet(Prompts)
         /\ Sent = Cardinality(Prompts) /\ Sent \in Nat
         /\ DOMAIN messages = 1..Len(messages) /\ Len(messages) \in Nat
         /\ \A n \in Prompts : Sent >= 1
<1>1. messages \in Seq([role : {"user", "assistant"}, task : Nat])
  BY DEF SessionTypes
<1>2. DOMAIN messages = 1..Len(messages) /\ Len(messages) \in Nat
  BY <1>1
<1>3. IsFiniteSet(1..Len(messages))
  BY <1>2, FS_Interval
<1>4. IsFiniteSet(Prompts)
  BY <1>2, <1>3, FS_Subset DEF Prompts
<1>5. Sent = Cardinality(Prompts)
  BY SentIsPrompts
<1>6. Sent \in Nat
  BY <1>4, <1>5, FS_CardinalityType
<1>7. ASSUME NEW n \in Prompts PROVE Sent >= 1
  BY <1>4, <1>5, <1>6, <1>7, FS_EmptySet
<1> QED BY <1>2, <1>4, <1>5, <1>6, <1>7

\* A message more.
LEMMA MessageAdded ==
  ASSUME SessionTypes, NEW m \in [role : {"user", "assistant"}, task : Nat],
         messages' = Append(messages, m)
  PROVE  /\ messages' \in Seq([role : {"user", "assistant"}, task : Nat])
         /\ Len(messages') = Len(messages) + 1
         /\ DOMAIN messages' = 1..(Len(messages) + 1)
         /\ messages'[Len(messages) + 1] = m
         /\ \A n \in DOMAIN messages : messages'[n] = messages[n]
         /\ Sent' = IF m.role = "user" THEN Sent + 1 ELSE Sent
<1>1. messages \in Seq([role : {"user", "assistant"}, task : Nat])
  BY DEF SessionTypes
<1>2. /\ messages' \in Seq([role : {"user", "assistant"}, task : Nat])
      /\ Len(messages') = Len(messages) + 1 /\ Len(messages) \in Nat
      /\ DOMAIN messages' = 1..(Len(messages) + 1)
      /\ messages'[Len(messages) + 1] = m
      /\ \A n \in 1..Len(messages) : messages'[n] = messages[n]
  BY <1>1
<1>3. IsFiniteSet(Prompts) /\ Sent = Cardinality(Prompts)
      /\ DOMAIN messages = 1..Len(messages)
  BY SentIsCounted
<1>4. Len(messages) + 1 \notin Prompts
  BY <1>2, <1>3 DEF Prompts
<1>5. (Sent = Cardinality(Prompts))'
  BY SentIsPrompts, PTL
<1>6. CASE m.role = "user"
  <2>1. Prompts' = Prompts \cup {Len(messages) + 1}
    BY <1>2, <1>3, <1>6 DEF Prompts, Asked
  <2> QED BY <1>2, <1>3, <1>4, <1>5, <1>6, <2>1, FS_AddElement
<1>7. CASE m.role # "user"
  <2>1. Prompts' = Prompts
    BY <1>2, <1>3, <1>7 DEF Prompts, Asked
  <2> QED BY <1>2, <1>3, <1>5, <1>7, <2>1
<1> QED BY <1>2, <1>3, <1>6, <1>7

\* What was seen of the messages is evidence for the last task, or for one
\* that is being sent.
LEMMA TerminalIsEvidence ==
  ASSUME SessionTypes, Numbered, InTurn, Divided, mixed = {},
         NEW count \in Nat, count <= Len(messages), TerminalSince(count)
  PROVE  Evidence
<1>1. PICK m, n \in (baseline + 1)..count :
        m < n /\ messages[m].role = "user" /\ messages[n].role = "assistant"
  BY DEF TerminalSince
<1>2. DOMAIN messages = 1..Len(messages) /\ Len(messages) \in Nat /\ Sent \in Nat
  BY SentIsCounted
<1>3. baseline \in Nat /\ last \in Nat
  BY DEF SessionTypes
<1>4. m \in DOMAIN messages /\ n \in DOMAIN messages /\ baseline < m /\ m < n
  BY <1>1, <1>2, <1>3
<1>5. messages[n] \in [role : {"user", "assistant"}, task : Nat]
      /\ messages[m] \in [role : {"user", "assistant"}, task : Nat]
  <2>1. messages \in Seq([role : {"user", "assistant"}, task : Nat])
    BY DEF SessionTypes
  <2>2. m \in 1..Len(messages) /\ n \in 1..Len(messages)
    BY <1>2, <1>4
  <2> QED BY <2>1, <2>2, InSequence
<1>6. last <= messages[m].task
  BY <1>1, <1>4 DEF Divided, Asked
<1>7. messages[m].task <= messages[n].task /\ messages[n].task <= Sent
  BY <1>1, <1>4 DEF InTurn, Asked, Numbered
<1>8. messages[n].task \in last..Sent
  BY <1>2, <1>3, <1>5, <1>6, <1>7
<1>9. messages[n] = [role |-> "assistant", task |-> messages[n].task]
  BY <1>1, <1>5
<1> QED BY <1>4, <1>8, <1>9 DEF Evidence, Answered

\* What a record of a call has, by where it waits.
LEMMA CallFields ==
  ASSUME NEW r \in CallRecords
  PROVE  /\ r.at = "idle" => r = NoCall
         /\ r.at = "prompt" => r.op = "send" /\ r.base \in Nat
         /\ r.at = "prompted" => r.op = "send" /\ r.base \in Nat /\ r.task \in Nat
         /\ r.at \in {"baseline", "refused"} => r.op = "send"
         /\ r.at = "done" => r.op \in {"interrupted", "aborted", "destroyed", "running"}
         /\ r.at = "get" => r.op = "created"
         /\ r.at \in {"typed", "messages", "read"} => r.type \in BOOLEAN
         /\ r.at = "read" => r.count \in Nat
         /\ r.at = "lists" => /\ r.asked \in SUBSET {"messages", "permissions"}
                              /\ r.count \in Nat /\ r.permission \in BOOLEAN
BY DEF CallRecords, NoCall

LEMMA CallMoved ==
  ASSUME NEW r \in CallRecords
  PROVE  /\ r.at = "prompt" => [r EXCEPT !.at = "refused"] \in CallRecords
         /\ r.at \in {"abort", "delete", "reply"} =>
              [r EXCEPT !.at = "done"] \in CallRecords
         /\ r.at = "typed" => [r EXCEPT !.at = "messages"] \in CallRecords
         /\ \A a \in {"refused", "done", "messages"} :
              /\ [r EXCEPT !.at = a].at = a
              /\ [r EXCEPT !.at = a].op = r.op
              /\ [r EXCEPT !.at = a].type = r.type
BY DEF CallRecords, NoCall

\* A caller whose operation goes from one point to another, or ends.
Moves(c, r) == r \in CallRecords /\ call' = [call EXCEPT ![c] = r]

\* The other calls stay where they are.
LEMMA OneCallMoves ==
  ASSUME SessionTypes, NEW c \in Callers, NEW r, Moves(c, r)
  PROVE  /\ call' \in [Callers -> CallRecords]
         /\ call'[c] = r
         /\ \A d \in Callers : d # c => call'[d] = call[d]
         /\ \A d \in Callers : call[d] \in CallRecords
         /\ Driver \in Callers
BY DEF SessionTypes, Moves, Callers

\* An operation that adds no message and starts no task keeps the messages
\* and the baselines in order, wherever it goes next.
LEMMA OrderIsKept ==
  ASSUME SessionTypes, Numbered, InTurn, Divided,
         NEW c \in Callers, NEW r, Moves(c, r),
         UNCHANGED <<last, baseline, messages, mixed>>,
         working' = working \/ working' = <<>>,
         working' # <<>> => busy',
         call[c].at # "prompted", r.at # "prompted",
         r.at \in {"baseline", "prompt", "refused"} => c = Driver,
         r.at \in {"lists", "read"} => r.count <= Len(messages),
         mixed = {} /\ r.at = "prompt" => \A m \in Prompts : m <= r.base
  PROVE  /\ Numbered' /\ InTurn' /\ Divided'
         /\ Sent' = Sent /\ (Evidence => Evidence')
<1>1. /\ call'[c] = r /\ \A d \in Callers : d # c => call'[d] = call[d]
      /\ Driver \in Callers
  BY OneCallMoves
<1>2. Sent' = Sent /\ DOMAIN messages' = DOMAIN messages
        /\ Len(messages') = Len(messages)
  BY DEF Sent
<1>3. Numbered'
  <2>1. \A n \in DOMAIN messages' :
          messages'[n].task <= Sent' /\ (Asked(n)' => messages'[n].task >= 1)
    BY <1>2 DEF Numbered, Asked
  <2>2. \A n \in DOMAIN working' : working'[n] <= Sent'
    <3>1. DOMAIN <<>> = {}
      OBVIOUS
    <3> QED BY <1>2, <3>1 DEF Numbered
  <2>3. \A d \in Callers :
          /\ call'[d].at \in {"baseline", "prompt", "prompted", "refused"} => d = Driver
          /\ call'[d].at \in {"lists", "read"} => call'[d].count <= Len(messages')
    <3> TAKE d \in Callers
    <3>1. CASE d = c
      BY <1>1, <1>2, <3>1
    <3>2. CASE d # c
      BY <1>1, <1>2, <3>2 DEF Numbered
    <3> QED BY <3>1, <3>2
  <2> QED BY <2>1, <2>2, <2>3 DEF Numbered
<1>4. InTurn'
  <2> SUFFICES ASSUME mixed = {} PROVE InTurn'
    BY DEF InTurn
  <2>1. \/ working' = <<>>
        \/ working' = <<Sent'>> /\ ~Answered(Sent)'
    BY <1>2 DEF InTurn, Answered
  <2>2. \A m, n \in DOMAIN messages' :
          m < n /\ Asked(m)' /\ ~Asked(n)' => messages'[m].task <= messages'[n].task
    BY DEF InTurn, Asked
  <2>3. IF call'[Driver].at = "prompted"
        THEN call'[Driver].task = Sent' /\ last' < Sent'
        ELSE last' = Sent'
    <3>1. CASE c = Driver
      BY <1>1, <1>2, <3>1 DEF InTurn
    <3>2. CASE c # Driver
      BY <1>1, <1>2, <3>2 DEF InTurn
    <3> QED BY <3>1, <3>2
  <2> QED BY <2>1, <2>2, <2>3 DEF InTurn
<1>5. Divided'
  <2> SUFFICES ASSUME mixed = {}, NEW m \in DOMAIN messages, Asked(m)
               PROVE  /\ baseline < m => last <= messages[m].task
                      /\ call'[Driver].at = "prompt" => m <= call'[Driver].base
                      /\ call'[Driver].at = "prompted" /\ call'[Driver].base < m =>
                           call'[Driver].task <= messages[m].task
    BY DEF Divided, Asked
  <2>1. CASE c = Driver
    BY <1>1, <2>1 DEF Divided, Prompts
  <2>2. CASE c # Driver
    BY <1>1, <2>2 DEF Divided
  <2> QED BY <2>1, <2>2
<1>6. Evidence => Evidence'
  BY <1>2 DEF Evidence, Answered
<1> QED BY <1>2, <1>3, <1>4, <1>5, <1>6

\* As long as operations come one by one, the one that is under way is alone.
LEMMA TurnIsKept ==
  ASSUME SessionTypes, OneByOne, NEW c \in Callers, NEW r, Moves(c, r),
         call[c] # NoCall, Alone' => Alone, mixed' = mixed,
         Alone /\ working' # <<>> /\ Reusable(local') =>
           r.at = "prompted" /\ c = Driver,
         Alone /\ FoundIdle(r) => working' = <<>>
  PROVE  OneByOne'
<1> SUFFICES ASSUME Alone, Alone' PROVE OneByOne'
  BY DEF OneByOne
<1>1. /\ call'[c] = r /\ \A d \in Callers : d # c => call'[d] = call[d]
  BY OneCallMoves
<1>2. \A d \in Callers : d # c =>
        call[d] = NoCall /\ call'[d] = NoCall
  BY <1>1 DEF OneByOne
<1>3. ~FoundIdle(NoCall)
  BY DEF FoundIdle, NoCall
<1>4. \A d \in Callers : FoundIdle(call'[d]) => working' = <<>>
  BY <1>1, <1>2, <1>3
<1>5. \A d, e \in Callers : d # e =>
        call'[d] = NoCall \/ call'[e] = NoCall
  BY <1>2
<1>6. working' # <<>> /\ Reusable(local') => call'[Driver].at = "prompted"
  BY <1>1
<1> QED BY <1>4, <1>5, <1>6 DEF OneByOne, Reusable, FoundIdle

\* What an operation under way may do without getting in anyone's way.
LEMMA StepIsSafe ==
  ASSUME SessionsInv, NEW c \in Callers, NEW r, Moves(c, r),
         UNCHANGED <<last, baseline, messages, mixed, overlapped>>,
         call[c].at \notin {"idle", "prompted"}, r.at # "prompted",
         local' \in Locals, terminal' \in BOOLEAN, busySeen' \in BOOLEAN,
         busy' \in BOOLEAN, pending' \in BOOLEAN, deleted' \in BOOLEAN,
         working' = working \/ working' = <<>>,
         working' # <<>> => busy',
         r.at \in {"baseline", "prompt", "refused"} => c = Driver,
         r.at \in {"lists", "read"} => r.count <= Len(messages),
         mixed = {} /\ r.at = "prompt" => \A m \in Prompts : m <= r.base,
         Alone /\ working' # <<>> => ~Reusable(local'),
         Alone /\ FoundIdle(r) => working' = <<>>,
         mixed = {} /\ (terminal' \/ local' = "completed") => Evidence
  PROVE  SessionsInv'
<1>1. Numbered' /\ InTurn' /\ Divided' /\ (Evidence => Evidence')
  BY OrderIsKept DEF SessionsInv
<1>2. OneByOne'
  <2>1. call[c] # NoCall
    BY DEF NoCall
  <2>2. Alone' => Alone
    BY DEF Alone
  <2> QED BY <2>1, <2>2, TurnIsKept DEF SessionsInv
<1>3. SessionTypes'
  <2>1. call' \in [Callers -> CallRecords]
    BY OneCallMoves DEF SessionsInv
  <2>2. <<>> \in Seq(Nat)
    OBVIOUS
  <2> QED BY <2>1, <2>2 DEF SessionsInv, SessionTypes
<1>4. Evident'
  BY <1>1 DEF Evident
<1> QED BY <1>1, <1>2, <1>3, <1>4 DEF SessionsInv

\* While an operation is under way alone, a session that may be sent a task is
\* at rest.
LEMMA RestIsKnown ==
  ASSUME SessionsInv, Alone, NEW c \in Callers,
         call[c].at \notin {"idle", "prompted"}, Reusable(local)
  PROVE  working = <<>>
<1>1. call[c] # NoCall /\ NoCall.at = "idle"
  BY DEF NoCall
<1>2. call[Driver].at # "prompted"
  <2>1. CASE c = Driver
    BY <2>1
  <2>2. CASE c # Driver
    BY <1>1, <2>2 DEF SessionsInv, OneByOne, Callers
  <2> QED BY <2>1, <2>2
<1> QED BY <1>2 DEF SessionsInv, OneByOne

-----------------------------------------------------------------------------
(* Operations begin *)

\* An operation that begins finds what its first request needs: a session that may
\* be sent a task is at rest if no other operation is under way.
LEMMA BeginIsSafe ==
  ASSUME SessionsInv, NEW c \in Callers, NEW r \in CallRecords, Begin(c, r),
         r.at \notin {"prompted", "idle"},
         r.at \in {"baseline", "prompt", "refused"} => c = Driver,
         r.at \in {"lists", "read"} => r.count <= Len(messages),
         mixed = {} /\ r.at = "prompt" => \A m \in Prompts : m <= r.base,
         FoundIdle(r) => Reusable(local) /\ r.at \in {"baseline", "prompt", "get"}
  PROVE  SessionsInv'
<1>1. Moves(c, r) /\ UNCHANGED <<adapter, provider, mixed>>
        /\ call[c] = NoCall
  BY DEF Begin, Moves
<1>2. NoCall.at = "idle" /\ ~FoundIdle(NoCall)
  BY DEF NoCall, FoundIdle
<1>3. working # <<>> => busy
  BY DEF SessionsInv, Numbered
<1>4. Numbered' /\ InTurn' /\ Divided' /\ (Evidence => Evidence')
  BY <1>1, <1>2, <1>3, OrderIsKept DEF SessionsInv, adapter, provider
<1>5. OneByOne'
  <2> SUFFICES ASSUME Alone' PROVE OneByOne'
    BY DEF OneByOne
  <2>1. Alone /\ \A d \in Callers : call[d] = NoCall
    BY <1>1 DEF Alone, Begin
  <2>2. mixed = {} /\ (working # <<>> => ~Reusable(local))
    BY <1>2, <2>1 DEF SessionsInv, OneByOne, Callers
  <2>3. call'[c] = r /\ \A d \in Callers : d # c => call'[d] = NoCall
    BY <1>1, <2>1, OneCallMoves DEF SessionsInv
  <2>4. \A d \in Callers : FoundIdle(call'[d]) => working = <<>>
    BY <1>2, <2>2, <2>3
  <2>5. \A d, e \in Callers : d # e =>
          call'[d] = NoCall \/ call'[e] = NoCall
    BY <2>3
  <2>6. UNCHANGED <<working, local>>
    BY <1>1 DEF adapter, provider
  <2>7. working' # <<>> => ~Reusable(local)'
    BY <2>2, <2>6 DEF Reusable
  <2>8. (\A d \in Callers : FoundIdle(call[d]) => working = <<>>)'
    BY <2>4, <2>6 DEF FoundIdle
  <2> QED BY <1>1, <2>2, <2>5, <2>7, <2>8 DEF OneByOne
<1>6. SessionTypes'
  <2>1. call' \in [Callers -> CallRecords]
    BY <1>1, OneCallMoves DEF SessionsInv
  <2>2. overlapped' \in BOOLEAN
    BY DEF Begin
  <2> QED BY <1>1, <2>1, <2>2
     DEF SessionsInv, SessionTypes, adapter, provider
<1>7. Evident'
  BY <1>1, <1>4 DEF SessionsInv, Evident, adapter
<1> QED BY <1>4, <1>5, <1>6, <1>7 DEF SessionsInv

LEMMA SendTaskIsSafe ==
  ASSUME SessionsInv, NEW c \in Callers, SendTask(c)
  PROVE  SessionsInv'
<1> DEFINE r == IF last = 0 THEN [op |-> "send", at |-> "prompt", base |-> 0]
                            ELSE [op |-> "send", at |-> "baseline"]
<1>1. c = Driver /\ Reusable(local) /\ Begin(c, r)
  BY DEF SendTask
<1>2. r \in CallRecords /\ r.at \in {"prompt", "baseline"}
  BY DEF CallRecords
<1>3. mixed = {} /\ r.at = "prompt" => \A m \in Prompts : m <= r.base
  <2> SUFFICES ASSUME mixed = {}, r.at = "prompt" PROVE Prompts = {}
    OBVIOUS
  <2>1. last = 0
    OBVIOUS
  <2>2. call[Driver].at # "prompted"
    BY <1>1 DEF Begin, NoCall
  <2>3. Sent = 0
    BY <2>1, <2>2 DEF SessionsInv, InTurn
  <2> QED BY <2>3, SentIsCounted DEF SessionsInv
<1> HIDE DEF r
<1> QED BY <1>1, <1>2, <1>3, BeginIsSafe DEF FoundIdle

LEMMA OthersBegin ==
  ASSUME SessionsInv, NEW c \in Callers,
         \/ Interrupt(c) \/ Abort(c)
         \/ Destroy(c) \/ Resume(c)
         \/ Respond(c) \/ GetEvents(c) \/ GetStatus(c)
  PROVE  SessionsInv'
<1> DEFINE firsts ==
      [op : {"interrupted", "aborted"}, at : {"abort"}]
        \cup [op : {"destroyed"}, at : {"delete"}]
        \cup [op : {"running", "aborted"}, at : {"reply"}]
        \cup [op : {"status"}, at : {"status"}]
<1>1. ASSUME NEW r \in firsts, Begin(c, r) PROVE SessionsInv'
  <2>1. r \in CallRecords /\ r.at \in {"abort", "delete", "reply", "status"}
    BY <1>1 DEF CallRecords
  <2> HIDE DEF firsts
  <2> QED BY <1>1, <2>1, BeginIsSafe DEF FoundIdle
<1>2. CASE Interrupt(c)
  BY <1>1, <1>2 DEF Interrupt
<1>3. CASE Abort(c)
  BY <1>1, <1>3 DEF Abort
<1>4. CASE Destroy(c)
  BY <1>1, <1>4 DEF Destroy
<1>5. CASE Respond(c)
  BY <1>1, <1>5 DEF Respond
<1>6. CASE GetStatus(c)
  BY <1>1, <1>6 DEF GetStatus
<1>7. CASE Resume(c)
  <2> DEFINE r == [op |-> "created", at |-> "get"]
  <2>1. Begin(c, r) /\ Reusable(local)
    BY <1>7 DEF Resume, Reusable
  <2>2. r \in CallRecords /\ r.at = "get"
    BY DEF CallRecords
  <2> HIDE DEF r
  <2> QED BY <2>1, <2>2, BeginIsSafe DEF FoundIdle
<1>8. CASE GetEvents(c)
  <2> DEFINE r == [op |-> "events", at |-> "lists", asked |-> {"messages", "permissions"},
                   count |-> 0, permission |-> FALSE]
  <2>1. Begin(c, r)
    BY <1>8 DEF GetEvents
  <2>2. r \in CallRecords /\ r.at = "lists" /\ r.count = 0
    BY DEF CallRecords
  <2>3. 0 <= Len(messages)
    BY SentIsCounted DEF SessionsInv
  <2> HIDE DEF r
  <2> QED BY <2>1, <2>2, <2>3, BeginIsSafe DEF FoundIdle
<1> QED BY <1>2, <1>3, <1>4, <1>5, <1>6, <1>7, <1>8

-----------------------------------------------------------------------------
(* Requests *)

\* Where a request leaves its operation.
LEMMA MovesOn ==
  ASSUME SessionTypes, NEW c \in Callers
  PROVE  /\ Stops(c) => Moves(c, NoCall)
         /\ \A a \in {"refused", "done", "messages"} :
              Goes(c, a) /\ [call[c] EXCEPT !.at = a] \in CallRecords =>
                Moves(c, [call[c] EXCEPT !.at = a])
<1>1. NoCall \in CallRecords
  BY DEF CallRecords
<1> QED BY <1>1 DEF Moves, Stops, Goes, SessionTypes

\* An operation that is over has seen nothing.
LEMMA NowhereToGo == NoCall.at = "idle" /\ ~FoundIdle(NoCall)
BY DEF NoCall, FoundIdle

\* A request that only reads, or is of no avail: the operation learns
\* something, or stops.
LEMMA AskingIsSafe ==
  ASSUME SessionsInv, NEW c \in Callers, NEW r, Moves(c, r),
         UNCHANGED <<adapter, provider, history>>,
         call[c].at \notin {"idle", "prompted"}, r.at # "prompted",
         r.at \in {"baseline", "prompt", "refused"} => c = Driver,
         r.at \in {"lists", "read"} => r.count <= Len(messages),
         mixed = {} /\ r.at = "prompt" => \A m \in Prompts : m <= r.base,
         Alone /\ FoundIdle(r) => working = <<>>
  PROVE  SessionsInv'
<1>1. /\ UNCHANGED <<last, baseline, messages, mixed, overlapped, working, local>>
      /\ local' \in Locals /\ terminal' \in BOOLEAN /\ busySeen' \in BOOLEAN
      /\ busy' \in BOOLEAN /\ pending' \in BOOLEAN /\ deleted' \in BOOLEAN
  BY DEF adapter, provider, history, SessionsInv, SessionTypes
<1>2. working' # <<>> => busy'
  BY DEF provider, SessionsInv, Numbered
<1>3. Alone /\ working' # <<>> => ~Reusable(local')
  BY <1>1, RestIsKnown
<1>4. mixed = {} /\ (terminal' \/ local' = "completed") => Evidence
  BY DEF adapter, SessionsInv, Evident
<1> QED BY <1>1, <1>2, <1>3, <1>4, StepIsSafe

LEMMA StoppingIsSafe ==
  ASSUME SessionsInv, NEW c \in Callers, Stops(c),
         UNCHANGED <<adapter, provider, history>>,
         call[c].at \notin {"idle", "prompted"}
  PROVE  SessionsInv'
<1>1. Moves(c, NoCall)
  BY MovesOn DEF SessionsInv
<1> QED BY <1>1, NowhereToGo, AskingIsSafe

LEMMA ReadBaselineIsSafe ==
  ASSUME SessionsInv, NEW c \in Callers, ReadBaseline(c)
  PROVE  SessionsInv'
<1> DEFINE r == [op |-> "send", at |-> "prompt", base |-> Len(messages)]
<1>1. call[c].at = "baseline" /\ c = Driver
        /\ UNCHANGED <<adapter, provider, history>>
  BY DEF ReadBaseline, SessionsInv, Numbered
<1>2. CASE Stops(c)
  BY <1>1, <1>2, StoppingIsSafe
<1>3. CASE call' = [call EXCEPT ![c] = r]
  <2>1. /\ DOMAIN messages = 1..Len(messages) /\ Len(messages) \in Nat
    BY SentIsCounted DEF SessionsInv
  <2>2. r \in CallRecords /\ r.at = "prompt" /\ r.base = Len(messages)
    BY <2>1 DEF CallRecords
  <2>3. \A m \in Prompts : m <= r.base
    BY <2>1, <2>2 DEF Prompts
  <2>4. Moves(c, r)
    BY <1>3, <2>2 DEF Moves
  <2>5. Alone => working = <<>>
    BY <1>1 DEF SessionsInv, OneByOne, FoundIdle
  <2> HIDE DEF r
  <2> QED BY <1>1, <2>2, <2>3, <2>4, <2>5, AskingIsSafe
<1> QED BY <1>2, <1>3 DEF ReadBaseline

LEMMA ListRequestIsSafe ==
  ASSUME SessionsInv, NEW c \in Callers, ListRequest(c)
  PROVE  SessionsInv'
<1>1. /\ call[c].at = "lists"
      /\ UNCHANGED <<adapter, provider, history>>
      /\ call[c] \in CallRecords /\ call \in [Callers -> CallRecords]
  BY DEF ListRequest, SessionsInv, SessionTypes
<1>2. CASE Stops(c)
  BY <1>1, <1>2, StoppingIsSafe
<1>3. CASE ~Stops(c)
  <2>1. Len(messages) \in Nat /\ call[c].count <= Len(messages)
    BY <1>1, SentIsCounted DEF SessionsInv, Numbered
  <2>2. pending \in BOOLEAN
    BY DEF SessionsInv, SessionTypes
  <2> DEFINE heard == [call[c] EXCEPT !.asked = @ \ {"messages"}, !.count = Len(messages)]
             listed(b) == [call[c] EXCEPT !.asked = @ \ {"permissions"}, !.permission = b]
  <2> DEFINE lists == [op : {"events"}, at : {"lists"},
                       asked : SUBSET {"messages", "permissions"},
                       count : Nat, permission : BOOLEAN]
  <2>3. call[c] \in lists /\ lists \subseteq CallRecords
    BY <1>1 DEF CallRecords, NoCall
  <2>4. heard \in lists /\ heard.count = Len(messages)
        /\ \A b \in BOOLEAN : listed(b) \in lists /\ listed(b).count = call[c].count
    BY <2>1, <2>3
  <2>5. PICK r \in CallRecords :
          /\ r.at = "lists" /\ r.count <= Len(messages)
          /\ call' = [call EXCEPT ![c] = r]
    <3>1. \/ call' = [call EXCEPT ![c].asked = @ \ {"messages"}, ![c].count = Len(messages)]
          \/ \E b \in {pending, FALSE} :
               call' = [call EXCEPT ![c].asked = @ \ {"permissions"}, ![c].permission = b]
      BY <1>3 DEF ListRequest
    <3>2. \/ call' = [call EXCEPT ![c] = heard]
          \/ \E b \in {pending, FALSE} : call' = [call EXCEPT ![c] = listed(b)]
      BY <1>1, <3>1
    <3>3. \A r \in lists : r \in CallRecords /\ r.at = "lists"
      BY <2>3
    <3> HIDE DEF heard, listed, lists
    <3>4. \E r \in lists : r.count <= Len(messages) /\ call' = [call EXCEPT ![c] = r]
      <4>1. CASE call' = [call EXCEPT ![c] = heard]
        <5>1. heard \in lists /\ heard.count <= Len(messages)
          BY <2>1, <2>4
        <5> QED BY <4>1, <5>1
      <4>2. CASE \E b \in {pending, FALSE} : call' = [call EXCEPT ![c] = listed(b)]
        <5>1. PICK b \in BOOLEAN : call' = [call EXCEPT ![c] = listed(b)]
          BY <2>2, <4>2
        <5>2. listed(b) \in lists /\ listed(b).count <= Len(messages)
          BY <2>1, <2>4
        <5> QED BY <5>1, <5>2
      <4> QED BY <3>2, <4>1, <4>2
    <3> QED BY <3>3, <3>4
  <2>6. Moves(c, r) /\ ~FoundIdle(r)
    BY <2>5 DEF Moves, FoundIdle
  <2> QED BY <1>1, <2>5, <2>6, AskingIsSafe
<1> QED BY <1>2, <1>3

LEMMA StatusRequestIsSafe ==
  ASSUME SessionsInv, NEW c \in Callers, StatusRequest(c)
  PROVE  SessionsInv'
<1> DEFINE r == [op |-> "status", at |-> "typed", type |-> busy]
<1>1. call[c].at = "status"
        /\ UNCHANGED <<adapter, provider, history>>
  BY DEF StatusRequest
<1>2. CASE Stops(c)
  BY <1>1, <1>2, StoppingIsSafe
<1>3. CASE call' = [call EXCEPT ![c] = r]
  <2>1. busy \in BOOLEAN /\ (working # <<>> => busy)
    BY DEF SessionsInv, SessionTypes, Numbered
  <2>2. r \in CallRecords /\ r.at = "typed" /\ (r.type <=> busy)
    BY <2>1 DEF CallRecords
  <2>3. Moves(c, r)
    BY <1>3, <2>2 DEF Moves
  <2>4. FoundIdle(r) => working = <<>>
    BY <2>1, <2>2 DEF FoundIdle
  <2> HIDE DEF r
  <2> QED BY <1>1, <2>2, <2>3, <2>4, AskingIsSafe
<1> QED BY <1>2, <1>3 DEF StatusRequest

LEMMA MessagesRequestIsSafe ==
  ASSUME SessionsInv, NEW c \in Callers, MessagesRequest(c)
  PROVE  SessionsInv'
<1> DEFINE r == [op |-> "status", at |-> "read", type |-> call[c].type,
                 count |-> Len(messages)]
<1>1. call[c].at = "messages"
        /\ UNCHANGED <<adapter, provider, history>>
  BY DEF MessagesRequest
<1>2. CASE Stops(c)
  BY <1>1, <1>2, StoppingIsSafe
<1>3. CASE call' = [call EXCEPT ![c] = r]
  <2>1. Len(messages) \in Nat /\ call[c].type \in BOOLEAN
    BY <1>1, SentIsCounted, CallFields DEF SessionsInv, SessionTypes
  <2>2. /\ r \in CallRecords /\ r.at = "read" /\ (r.type <=> call[c].type)
        /\ r.count = Len(messages)
    BY <2>1 DEF CallRecords
  <2>3. Moves(c, r)
    BY <1>3, <2>2 DEF Moves
  <2>4. Alone /\ FoundIdle(r) => working = <<>>
    BY <1>1, <2>2 DEF FoundIdle, SessionsInv, OneByOne
  <2>5. r.count <= Len(messages)
    BY <2>1, <2>2
  <2> HIDE DEF r
  <2> QED BY <1>1, <2>2, <2>3, <2>4, <2>5, AskingIsSafe
<1> QED BY <1>2, <1>3 DEF MessagesRequest

\* The provider is told to stop, to forget or to go on.
LEMMA StoppedIsSafe ==
  ASSUME SessionsInv, NEW c \in Callers, NEW r, Moves(c, r),
         UNCHANGED <<adapter, messages, history>>,
         call[c].at \in {"abort", "delete", "reply"},
         r.at \in {"idle", "done"},
         busy' \in BOOLEAN, pending' \in BOOLEAN, deleted' \in BOOLEAN,
         working' = <<>> \/ (UNCHANGED <<working, busy>> /\ ~FoundIdle(r))
  PROVE  SessionsInv'
<1>1. /\ UNCHANGED <<last, baseline, messages, mixed, overlapped, local>>
      /\ local' \in Locals /\ terminal' \in BOOLEAN /\ busySeen' \in BOOLEAN
  BY DEF adapter, history, SessionsInv, SessionTypes
<1>2. working' # <<>> => busy' /\ working' = working
  BY DEF SessionsInv, Numbered
<1>3. Alone /\ working' # <<>> => ~Reusable(local')
  BY <1>1, <1>2, RestIsKnown
<1>4. mixed = {} /\ (terminal' \/ local' = "completed") => Evidence
  BY DEF adapter, SessionsInv, Evident
<1> QED BY <1>1, <1>2, <1>3, <1>4, StepIsSafe

LEMMA StoppingRequestsAreSafe ==
  ASSUME SessionsInv, NEW c \in Callers,
         AbortRequest(c) \/ DeleteRequest(c) \/ ReplyRequest(c)
  PROVE  SessionsInv'
<1> DEFINE done == [call[c] EXCEPT !.at = "done"]
<1>1. /\ call[c].at \in {"abort", "delete", "reply"}
      /\ UNCHANGED <<adapter, messages, history>>
      /\ busy' \in BOOLEAN /\ pending' \in BOOLEAN /\ deleted' \in BOOLEAN
  BY DEF AbortRequest, DeleteRequest, ReplyRequest,
         provider, SessionsInv, SessionTypes
<1>2. call[c] \in CallRecords
  BY DEF SessionsInv, SessionTypes
<1>3. done \in CallRecords /\ done.at = "done" /\ done.op = call[c].op
  BY <1>1, <1>2, CallMoved
<1>4. Stops(c) => Moves(c, NoCall)
  BY MovesOn DEF SessionsInv
<1>5. Goes(c, "done") => Moves(c, done)
  BY <1>3, MovesOn DEF SessionsInv
<1> HIDE DEF done
<1>6. CASE AbortRequest(c)
  BY <1>1, <1>3, <1>4, <1>5, <1>6, NowhereToGo, StoppedIsSafe DEF AbortRequest
<1>7. CASE DeleteRequest(c)
  BY <1>1, <1>3, <1>4, <1>5, <1>7, NowhereToGo, StoppedIsSafe DEF DeleteRequest
<1>8. CASE ReplyRequest(c)
  <2>1. call[c].op # "interrupted"
    BY <1>2, <1>8 DEF ReplyRequest, CallRecords, NoCall
  <2>2. ~FoundIdle(done)
    BY <1>3, <2>1 DEF FoundIdle
  <2> QED BY <1>1, <1>3, <1>4, <1>5, <1>8, <2>2, NowhereToGo, StoppedIsSafe
     DEF ReplyRequest
<1> QED BY <1>6, <1>7, <1>8

\* A prompt that is taken.
LEMMA PromptTaken ==
  ASSUME SessionsInv, NEW c \in Callers, call[c].at = "prompt", c = Driver,
         NEW lost \in BOOLEAN, NEW r, Moves(c, r),
         r.at = (IF lost THEN "refused" ELSE "prompted"),
         ~lost => r.task = Sent + 1 /\ r.base = call[c].base,
         messages' = Append(messages, [role |-> "user", task |-> Sent + 1]),
         working' = Append(working, Sent + 1), busy' = TRUE,
         mixed' = mixed \cup {m \in {"working"} : working # <<>>} \cup {m \in {"lost"} : lost},
         UNCHANGED <<adapter, pending, deleted, overlapped>>
  PROVE  SessionsInv'
<1> DEFINE m1 == [role |-> "user", task |-> Sent + 1]
<1>1. /\ DOMAIN messages = 1..Len(messages) /\ Len(messages) \in Nat /\ Sent \in Nat
      /\ last \in Nat /\ baseline \in Nat /\ working \in Seq(Nat) /\ SessionTypes
      /\ messages \in Seq([role : {"user", "assistant"}, task : Nat])
  BY SentIsCounted DEF SessionsInv, SessionTypes
<1>2. m1 \in [role : {"user", "assistant"}, task : Nat] /\ m1.role = "user"
        /\ m1.task = Sent + 1
  BY <1>1
<1>3. /\ messages' \in Seq([role : {"user", "assistant"}, task : Nat])
      /\ Len(messages') = Len(messages) + 1
      /\ DOMAIN messages' = 1..(Len(messages) + 1)
      /\ messages'[Len(messages) + 1] = m1
      /\ \A n \in DOMAIN messages : messages'[n] = messages[n]
      /\ Sent' = Sent + 1
  BY <1>1, <1>2, MessageAdded
<1>a. \A n \in 1..(Len(messages) + 1) :
        /\ n # Len(messages) + 1 => n \in DOMAIN messages
        /\ \A m \in 1..(Len(messages) + 1) : m < n => m \in DOMAIN messages
  BY <1>1
<1> HIDE DEF m1
<1>4. /\ call' \in [Callers -> CallRecords] /\ call'[c] = r
      /\ \A d \in Callers : d # c => call'[d] = call[d]
      /\ \A d \in Callers : call[d] \in CallRecords
  BY <1>1, OneCallMoves
<1>5. /\ \A n \in DOMAIN messages : messages[n] \in [role : {"user", "assistant"}, task : Nat]
      /\ \A n \in DOMAIN messages : messages[n].task \in Nat
  <2>1. \A n \in DOMAIN messages : messages[n] \in [role : {"user", "assistant"}, task : Nat]
    BY <1>1, InSequence
  <2> QED BY <2>1
<1>6. /\ \A n \in DOMAIN working : working[n] \in Nat /\ working[n] <= Sent
      /\ Len(working) \in Nat /\ DOMAIN working = 1..Len(working)
  <2>1. \A n \in DOMAIN working : working[n] <= Sent
    BY DEF SessionsInv, Numbered
  <2>2. Len(working) \in Nat /\ DOMAIN working = 1..Len(working)
    BY <1>1
  <2>3. \A n \in 1..Len(working) : working[n] \in Nat
    BY <1>1, InSequence
  <2> QED BY <2>1, <2>2, <2>3
<1>7. /\ working' \in Seq(Nat) /\ DOMAIN working' = 1..(Len(working) + 1)
      /\ working'[Len(working) + 1] = Sent + 1
      /\ \A n \in DOMAIN working : working'[n] = working[n]
      /\ working = <<>> => working' = <<Sent + 1>>
  <2>1. Sent + 1 \in Nat
    BY <1>1
  <2> QED BY <1>1, <2>1, Added
<1>8. mixed' = {} => mixed = {} /\ working = <<>> /\ ~lost
  <2>1. \A x : x \notin mixed' => x \notin mixed
    OBVIOUS
  <2>2. "working" \notin mixed' => working = <<>>
    OBVIOUS
  <2>3. "lost" \notin mixed' => ~lost
    OBVIOUS
  <2> QED BY <2>1, <2>2, <2>3
<1>9. SessionTypes'
  <2>1. mixed' \in SUBSET {"working", "lost"}
    BY DEF SessionsInv, SessionTypes
  <2> QED BY <1>3, <1>4, <1>7, <2>1 DEF SessionsInv, SessionTypes, adapter
<1>10. Numbered'
  <2>1. \A n \in DOMAIN messages' :
          messages'[n].task <= Sent' /\ (Asked(n)' => messages'[n].task >= 1)
    <3> SUFFICES ASSUME NEW n \in 1..(Len(messages) + 1)
                 PROVE  /\ messages'[n].task <= Sent + 1
                        /\ Asked(n)' => messages'[n].task >= 1
      BY <1>3
    <3>1. CASE n = Len(messages) + 1
      BY <1>1, <1>2, <1>3, <3>1
    <3>2. CASE n # Len(messages) + 1
      <4>1. n \in DOMAIN messages
        BY <1>a, <3>2
      <4>2. messages[n].task <= Sent /\ (Asked(n) => messages[n].task >= 1)
        BY <4>1 DEF SessionsInv, Numbered
      <4>3. messages'[n] = messages[n] /\ messages[n].task \in Nat
        BY <1>3, <1>5, <4>1
      <4>4. messages[n].task <= Sent + 1
        BY <1>1, <4>2, <4>3
      <4> QED BY <4>2, <4>3, <4>4 DEF Asked
    <3> QED BY <3>1, <3>2
  <2>2. \A n \in DOMAIN working' : working'[n] <= Sent'
    <3> SUFFICES ASSUME NEW n \in 1..(Len(working) + 1)
                 PROVE  working'[n] <= Sent + 1
      BY <1>3, <1>7
    <3>1. CASE n = Len(working) + 1
      BY <1>1, <1>7, <3>1
    <3>2. CASE n # Len(working) + 1
      <4>1. n \in DOMAIN working
        BY <1>6, <3>2
      <4> QED BY <1>1, <1>6, <1>7, <4>1
    <3> QED BY <3>1, <3>2
  <2>3. \A d \in Callers :
          /\ call'[d].at \in {"baseline", "prompt", "prompted", "refused"} => d = Driver
          /\ call'[d].at \in {"lists", "read"} => call'[d].count <= Len(messages')
    <3> TAKE d \in Callers
    <3>1. CASE d = c
      BY <1>4, <3>1
    <3>2. CASE d # c
      <4>1. /\ call[d].at \in {"baseline", "prompt", "prompted", "refused"} => d = Driver
            /\ call[d].at \in {"lists", "read"} => call[d].count <= Len(messages)
        BY DEF SessionsInv, Numbered
      <4>2. call[d].at \in {"lists", "read"} => call[d].count \in Nat
        BY <1>4, CallFields
      <4>3. call'[d] = call[d]
        BY <1>4, <3>2
      <4>4. call[d].at \in {"lists", "read"} => call[d].count <= Len(messages) + 1
        BY <1>1, <4>1, <4>2
      <4> QED BY <1>3, <4>1, <4>3, <4>4
    <3> QED BY <3>1, <3>2
  <2> QED BY <2>1, <2>2, <2>3 DEF Numbered
<1>11. Evidence => Evidence'
  <2> SUFFICES ASSUME NEW t \in last..Sent, Answered(t)
               PROVE  Evidence'
    BY DEF Evidence
  <2>1. PICK n \in DOMAIN messages : messages[n] = [role |-> "assistant", task |-> t]
    BY DEF Answered
  <2>2. n \in DOMAIN messages' /\ messages'[n] = [role |-> "assistant", task |-> t]
    BY <1>1, <1>3, <2>1
  <2>3. t \in last'..Sent'
    BY <1>1, <1>3 DEF adapter
  <2>4. Answered(t)'
    BY <2>2 DEF Answered
  <2> QED BY <2>3, <2>4 DEF Evidence
<1>12. Evident'
  <2> SUFFICES ASSUME mixed' = {}, terminal \/ local = "completed" PROVE Evidence'
    BY DEF Evident, adapter
  <2> QED BY <1>8, <1>11 DEF SessionsInv, Evident
<1>13. mixed = {} => last = Sent
  BY DEF SessionsInv, InTurn
<1>14. InTurn'
  <2> SUFFICES ASSUME mixed' = {} PROVE InTurn'
    BY DEF InTurn
  <2>1. working' = <<Sent'>>
    BY <1>3, <1>7, <1>8
  <2>2. ~Answered(Sent)'
    <3> SUFFICES ASSUME NEW n \in DOMAIN messages',
                        messages'[n] = [role |-> "assistant", task |-> Sent']
                 PROVE  FALSE
      BY DEF Answered
    <3>1. CASE n = Len(messages) + 1
      BY <1>2, <1>3, <3>1
    <3>2. CASE n # Len(messages) + 1
      <4>1. n \in DOMAIN messages /\ messages'[n] = messages[n]
        BY <1>3, <1>a, <3>2
      <4>2. messages[n].task <= Sent
        BY <4>1 DEF SessionsInv, Numbered
      <4> QED BY <1>1, <1>3, <4>1, <4>2
    <3> QED BY <3>1, <3>2
  <2>3. \A m, n \in DOMAIN messages' :
          m < n /\ Asked(m)' /\ ~Asked(n)' => messages'[m].task <= messages'[n].task
    <3> SUFFICES ASSUME NEW m \in 1..(Len(messages) + 1), NEW n \in 1..(Len(messages) + 1),
                        m < n, Asked(m)', ~Asked(n)'
                 PROVE  messages'[m].task <= messages'[n].task
      BY <1>3
    <3>1. n # Len(messages) + 1
      BY <1>2, <1>3 DEF Asked
    <3>2. m \in DOMAIN messages /\ n \in DOMAIN messages
      BY <1>a, <3>1
    <3>3. messages'[m] = messages[m] /\ messages'[n] = messages[n]
      BY <1>3, <3>2
    <3> QED BY <1>8, <3>2, <3>3 DEF SessionsInv, InTurn, Asked
  <2>4. call'[Driver].at = "prompted" /\ call'[Driver].task = Sent'
          /\ last' < Sent'
    <3>1. last' = Sent /\ ~lost
      BY <1>8, <1>13 DEF adapter
    <3>2. last' < Sent'
      BY <1>1, <1>3, <3>1
    <3>3. r.at = "prompted" /\ r.task = Sent'
      BY <1>3, <3>1
    <3> QED BY <1>4, <3>2, <3>3
  <2> QED BY <2>1, <2>2, <2>3, <2>4 DEF InTurn
<1>15. Divided'
  <2> SUFFICES ASSUME mixed' = {}, NEW m \in 1..(Len(messages) + 1), Asked(m)'
               PROVE  /\ baseline < m => last <= messages'[m].task
                      /\ call'[Driver].at = "prompt" => m <= call'[Driver].base
                      /\ call'[Driver].at = "prompted" /\ call'[Driver].base < m =>
                           call'[Driver].task <= messages'[m].task
    BY <1>3 DEF Divided, adapter
  <2>1. mixed = {} /\ ~lost /\ call'[Driver].at = "prompted"
        /\ call'[Driver].task = Sent + 1 /\ call'[Driver].base = call[Driver].base
    BY <1>4, <1>8
  <2>2. CASE m = Len(messages) + 1
    <3>1. messages'[m].task = Sent + 1
      BY <1>2, <1>3, <2>2
    <3>2. last <= Sent + 1 /\ Sent + 1 <= Sent + 1
      BY <1>1, <1>13, <2>1
    <3> QED BY <2>1, <3>1, <3>2
  <2>3. CASE m # Len(messages) + 1
    <3>1. m \in DOMAIN messages /\ messages'[m] = messages[m]
      BY <1>3, <1>a, <2>3
    <3>2. /\ baseline < m => last <= messages[m].task
          /\ m <= call[Driver].base
      BY <2>1, <3>1 DEF SessionsInv, Divided, Asked
    <3>3. call[Driver].base \in Nat
      BY <1>4, CallFields
    <3>4. ~(call[Driver].base < m)
      BY <1>1, <3>1, <3>2, <3>3
    <3> QED BY <2>1, <3>1, <3>2, <3>4
  <2> QED BY <2>2, <2>3
<1>16. OneByOne'
  <2> SUFFICES ASSUME Alone' PROVE OneByOne'
    BY DEF OneByOne
  <2>1. Alone /\ ~lost
    BY DEF Alone
  <2>2. mixed = {} /\ working = <<>>
    BY <2>1 DEF SessionsInv, OneByOne, FoundIdle
  <2>3. mixed' = {}
    BY <2>1, <2>2
  <2>4. call[c] # NoCall
    BY NowhereToGo
  <2>5. call'[c] = r /\ \A d \in Callers : d # c => call'[d] = NoCall
    BY <1>4, <2>1, <2>4 DEF SessionsInv, OneByOne
  <2>6. \A d, e \in Callers : d # e =>
          call'[d] = NoCall \/ call'[e] = NoCall
    BY <2>5
  <2>7. call'[Driver].at = "prompted"
    BY <2>1, <2>5
  <2>8. \A d \in Callers : ~FoundIdle(call'[d])
    <3>1. ~FoundIdle(r)
      BY <2>1 DEF FoundIdle
    <3> QED BY <2>5, <3>1, NowhereToGo
  <2>9. \A d \in Callers : ~FoundIdle(call[d])'
    BY <2>8 DEF FoundIdle
  <2> QED BY <2>3, <2>6, <2>7, <2>9 DEF OneByOne
<1> QED BY <1>9, <1>10, <1>12, <1>14, <1>15, <1>16 DEF SessionsInv

LEMMA PromptIsSafe ==
  ASSUME SessionsInv, NEW c \in Callers, Prompt(c)
  PROVE  SessionsInv'
<1> DEFINE refused == [call[c] EXCEPT !.at = "refused"]
           prompted == [op |-> "send", at |-> "prompted", task |-> Sent + 1,
                        base |-> call[c].base]
<1>1. call[c].at = "prompt" /\ c = Driver /\ call[c] \in CallRecords
  BY DEF Prompt, SessionsInv, Numbered, SessionTypes
<1>2. refused \in CallRecords /\ refused.at = "refused"
  BY <1>1, CallMoved
<1>3. Goes(c, "refused") => Moves(c, refused)
  BY <1>2, MovesOn DEF SessionsInv
<1>4. call[c].base \in Nat /\ Sent \in Nat
  BY <1>1, CallFields, SentIsCounted DEF SessionsInv
<1>5. prompted \in CallRecords /\ prompted.at = "prompted"
      /\ prompted.task = Sent + 1 /\ prompted.base = call[c].base
  BY <1>4 DEF CallRecords
<1>6. call' = [call EXCEPT ![c] = prompted] => Moves(c, prompted)
  BY <1>5 DEF Moves
<1>7. CASE /\ UNCHANGED <<messages, working, busy, mixed>>
           /\ Goes(c, "refused") \/ Stops(c)
  <2>1. UNCHANGED <<adapter, provider, history>>
    BY <1>7 DEF Prompt, provider, history
  <2>2. CASE Stops(c)
    BY <1>1, <2>1, <2>2, StoppingIsSafe
  <2>3. CASE Goes(c, "refused")
    <3> HIDE DEF refused
    <3>1. ~FoundIdle(refused)
      BY <1>2 DEF FoundIdle
    <3> QED BY <1>1, <1>2, <1>3, <2>1, <2>3, <3>1, AskingIsSafe
  <2> QED BY <1>7, <2>2, <2>3
<1>8. CASE /\ messages' = Append(messages, [role |-> "user", task |-> Sent + 1])
           /\ working' = Append(working, Sent + 1)
           /\ busy' = TRUE
           /\ \E lost \in BOOLEAN :
                /\ mixed' = mixed \cup {m \in {"working"} : working # <<>>}
                                  \cup {m \in {"lost"} : lost}
                /\ IF lost THEN Goes(c, "refused")
                           ELSE call' = [call EXCEPT ![c] = prompted]
  <2>1. PICK lost \in BOOLEAN :
          /\ mixed' = mixed \cup {m \in {"working"} : working # <<>>}
                            \cup {m \in {"lost"} : lost}
          /\ IF lost THEN Goes(c, "refused") ELSE call' = [call EXCEPT ![c] = prompted]
    BY <1>8
  <2>2. UNCHANGED <<adapter, pending, deleted, overlapped>>
    BY DEF Prompt
  <2> HIDE DEF refused, prompted
  <2>3. CASE lost
    BY <1>1, <1>2, <1>3, <1>8, <2>1, <2>2, <2>3, PromptTaken
  <2>4. CASE ~lost
    BY <1>1, <1>5, <1>6, <1>8, <2>1, <2>2, <2>4, PromptTaken
  <2> QED BY <2>3, <2>4
<1> QED BY <1>7, <1>8 DEF Prompt

-----------------------------------------------------------------------------
(* The provider *)

LEMMA FinishIsSafe ==
  ASSUME SessionsInv, FinishTurn
  PROVE  SessionsInv'
<1> DEFINE m1 == [role |-> "assistant", task |-> Head(working)]
<1>1. /\ DOMAIN messages = 1..Len(messages) /\ Len(messages) \in Nat /\ Sent \in Nat
      /\ last \in Nat /\ baseline \in Nat /\ working \in Seq(Nat) /\ SessionTypes
      /\ messages \in Seq([role : {"user", "assistant"}, task : Nat])
  BY SentIsCounted DEF SessionsInv, SessionTypes
<1>2. /\ working # <<>> /\ working' = Tail(working)
      /\ UNCHANGED <<adapter, call, busy, pending, deleted, history>>
  BY DEF FinishTurn
<1>3. /\ working' \in Seq(Nat) /\ Head(working) \in Nat /\ Head(working) <= Sent
      /\ \A n \in DOMAIN working' : working'[n] <= Sent
      /\ working = <<Sent>> => working' = <<>> /\ Head(working) = Sent
  <2>1. \A n \in DOMAIN working : working[n] <= Sent
    BY DEF SessionsInv, Numbered
  <2> QED BY <1>1, <1>2, <2>1, TakenOff
<1>4. m1 \in [role : {"user", "assistant"}, task : Nat]
      /\ m1.role = "assistant" /\ m1.task = Head(working)
  BY <1>3
<1>5. messages' = messages \/ messages' = Append(messages, m1)
  BY DEF FinishTurn
<1> HIDE DEF m1
<1>6. /\ messages' \in Seq([role : {"user", "assistant"}, task : Nat])
      /\ Sent' = Sent
      /\ Len(messages) <= Len(messages') /\ Len(messages') \in Nat
      /\ \A n \in DOMAIN messages : n \in DOMAIN messages' /\ messages'[n] = messages[n]
      /\ \A n \in DOMAIN messages' \ DOMAIN messages : messages'[n] = m1
      /\ \A m, n \in DOMAIN messages' : m < n => m \in DOMAIN messages
  <2>1. CASE messages' = messages
    <3>1. Sent' = Sent
      BY <2>1 DEF Sent
    <3> QED BY <1>1, <2>1, <3>1
  <2>2. CASE messages' = Append(messages, m1)
    <3>1. /\ messages' \in Seq([role : {"user", "assistant"}, task : Nat])
          /\ Len(messages') = Len(messages) + 1
          /\ DOMAIN messages' = 1..(Len(messages) + 1)
          /\ messages'[Len(messages) + 1] = m1
          /\ \A n \in DOMAIN messages : messages'[n] = messages[n]
          /\ Sent' = IF m1.role = "user" THEN Sent + 1 ELSE Sent
      BY <1>1, <1>4, <2>2, MessageAdded
    <3>2. Sent' = Sent
      BY <1>4, <3>1
    <3>3. DOMAIN messages' \ DOMAIN messages = {Len(messages) + 1}
      BY <1>1, <3>1
    <3>4. \A m, n \in 1..(Len(messages) + 1) : m < n => m \in 1..Len(messages)
      BY <1>1
    <3>5. Len(messages) <= Len(messages') /\ Len(messages') \in Nat
      BY <1>1, <3>1
    <3>6. \A n \in DOMAIN messages : n \in DOMAIN messages'
      BY <1>1, <3>1
    <3> QED BY <1>1, <3>1, <3>2, <3>3, <3>4, <3>5, <3>6
  <2> QED BY <1>5, <2>1, <2>2
<1>7. SessionTypes'
  BY <1>2, <1>3, <1>6 DEF SessionsInv, SessionTypes, adapter, history
<1>8. Numbered'
  <2>1. ASSUME NEW n \in DOMAIN messages'
        PROVE  messages'[n].task <= Sent' /\ (Asked(n)' => messages'[n].task >= 1)
    <3>1. CASE n \in DOMAIN messages
      BY <1>6, <3>1 DEF SessionsInv, Numbered, Asked
    <3>2. CASE n \notin DOMAIN messages
      BY <1>3, <1>4, <1>6, <3>2 DEF Asked
    <3> QED BY <3>1, <3>2
  <2>2. ASSUME NEW d \in Callers, call[d].at \in {"lists", "read"}
        PROVE  call[d].count <= Len(messages')
    <3>1. call[d].count \in Nat
      BY <2>2, CallFields DEF SessionsInv, SessionTypes
    <3>2. call[d].count <= Len(messages)
      BY <2>2 DEF SessionsInv, Numbered
    <3> QED BY <1>1, <1>6, <3>1, <3>2
  <2>3. \A d \in Callers :
          call'[d].at \in {"baseline", "prompt", "prompted", "refused"} => d = Driver
    BY <1>2 DEF SessionsInv, Numbered
  <2>4. busy'
    BY <1>2 DEF SessionsInv, Numbered
  <2> QED BY <1>2, <1>3, <1>6, <2>1, <2>2, <2>3, <2>4 DEF Numbered
<1>9. InTurn'
  <2> SUFFICES ASSUME mixed = {} PROVE InTurn'
    BY <1>2 DEF InTurn, history
  <2>1. working = <<Sent>>
    BY <1>2 DEF SessionsInv, InTurn
  <2>2. working' = <<>> /\ m1.task = Sent
    BY <1>3, <1>4, <2>1
  <2>3. ASSUME NEW m \in DOMAIN messages', NEW n \in DOMAIN messages',
               m < n, Asked(m)', ~Asked(n)'
        PROVE  messages'[m].task <= messages'[n].task
    <3>1. m \in DOMAIN messages /\ messages'[m] = messages[m]
      BY <1>6, <2>3
    <3>2. CASE n \in DOMAIN messages
      BY <1>6, <2>3, <3>1, <3>2 DEF SessionsInv, InTurn, Asked
    <3>3. CASE n \notin DOMAIN messages
      BY <1>6, <2>2, <3>1, <3>3 DEF SessionsInv, Numbered
    <3> QED BY <3>2, <3>3
  <2>4. IF call'[Driver].at = "prompted"
        THEN call'[Driver].task = Sent' /\ last' < Sent'
        ELSE last' = Sent'
    BY <1>2, <1>6 DEF SessionsInv, InTurn, adapter
  <2> QED BY <2>2, <2>3, <2>4 DEF InTurn
<1>10. Divided'
  <2> SUFFICES ASSUME mixed = {}, NEW m \in DOMAIN messages', Asked(m)'
               PROVE  /\ baseline < m => last <= messages'[m].task
                      /\ call[Driver].at = "prompt" => m <= call[Driver].base
                      /\ call[Driver].at = "prompted" /\ call[Driver].base < m =>
                           call[Driver].task <= messages'[m].task
    BY <1>2 DEF Divided, adapter, history
  <2>1. m \in DOMAIN messages /\ messages'[m] = messages[m]
    BY <1>4, <1>6 DEF Asked
  <2> QED BY <2>1 DEF SessionsInv, Divided, Asked
<1>11. Evident'
  <2> SUFFICES ASSUME mixed = {}, terminal \/ local = "completed" PROVE Evidence'
    BY <1>2 DEF Evident, adapter, history
  <2>1. PICK t \in last..Sent : Answered(t)
    BY DEF SessionsInv, Evident, Evidence
  <2>2. Answered(t)'
    BY <1>6, <2>1 DEF Answered
  <2>3. t \in last'..Sent'
    BY <1>2, <1>6 DEF adapter
  <2> QED BY <2>2, <2>3 DEF Evidence
<1>12. OneByOne'
  <2> SUFFICES ASSUME Alone PROVE OneByOne'
    BY <1>2 DEF OneByOne, Alone, history
  <2>1. working' = <<>> /\ mixed' = {}
    BY <1>2, <1>3 DEF SessionsInv, OneByOne, InTurn, history
  <2>2. \A c, d \in Callers : c # d =>
          call'[c] = NoCall \/ call'[d] = NoCall
    BY <1>2 DEF SessionsInv, OneByOne
  <2> QED BY <2>1, <2>2 DEF OneByOne
<1> QED BY <1>7, <1>8, <1>9, <1>10, <1>11, <1>12 DEF SessionsInv

\* The turn is over, or a permission is asked for.
LEMMA ProviderIsSafe ==
  ASSUME SessionsInv, TurnIdle \/ AskPermission
  PROVE  SessionsInv'
<1>1. /\ UNCHANGED <<adapter, call, messages, working, deleted, history>>
      /\ busy' \in BOOLEAN /\ pending' \in BOOLEAN
      /\ working # <<>> => busy'
  BY DEF TurnIdle, AskPermission, SessionsInv, SessionTypes, Numbered
<1>2. Sent' = Sent
  BY <1>1 DEF Sent
<1>3. SessionTypes'
  BY <1>1 DEF SessionsInv, SessionTypes, adapter, history
<1>4. Numbered'
  BY <1>1, <1>2 DEF SessionsInv, Numbered, Asked
<1>5. InTurn'
  BY <1>1, <1>2
     DEF SessionsInv, InTurn, Asked, Answered, adapter, history
<1>6. Divided'
  BY <1>1 DEF SessionsInv, Divided, Asked, adapter, history
<1>7. Evident'
  BY <1>1, <1>2
     DEF SessionsInv, Evident, Evidence, Answered, adapter, history
<1>8. OneByOne'
  BY <1>1 DEF SessionsInv, OneByOne, Alone, FoundIdle, Reusable, adapter,
         history
<1> QED BY <1>3, <1>4, <1>5, <1>6, <1>7, <1>8 DEF SessionsInv

-----------------------------------------------------------------------------
(* Answers *)

\* An answer that leaves no trace but in the adapter's own status.
LEMMA AnswerIsSafe ==
  ASSUME SessionsInv, NEW c \in Callers, Stops(c),
         UNCHANGED <<last, baseline, provider, history>>,
         call[c].at \notin {"idle", "prompted"},
         local' \in Locals, terminal' \in BOOLEAN, busySeen' \in BOOLEAN,
         Alone /\ working # <<>> => ~Reusable(local'),
         mixed = {} /\ (terminal' \/ local' = "completed") => Evidence
  PROVE  SessionsInv'
<1>1. /\ UNCHANGED <<last, baseline, messages, mixed, overlapped, working>>
      /\ busy' \in BOOLEAN /\ pending' \in BOOLEAN /\ deleted' \in BOOLEAN
      /\ working' # <<>> => busy'
  BY DEF provider, history, SessionsInv, SessionTypes, Numbered
<1>2. Moves(c, NoCall)
  BY MovesOn DEF SessionsInv
<1> QED BY <1>1, <1>2, NowhereToGo, StepIsSafe

\* The task is the last one only now; the baseline is from before its prompt.
LEMMA StartedIsSafe ==
  ASSUME SessionsInv, NEW c \in Callers, Started(c)
  PROVE  SessionsInv'
<1>1. Stops(c) /\ UNCHANGED <<provider, history>>
  BY DEF Started
<1>2. CASE call[c].at = "refused"
  <2>1. local' = "failed" /\ UNCHANGED <<last, baseline, terminal, busySeen>>
    BY <1>2 DEF Started
  <2>2. /\ local' \in Locals /\ terminal' \in BOOLEAN /\ busySeen' \in BOOLEAN
        /\ ~Reusable(local')
    BY <2>1 DEF Locals, Reusable, SessionsInv, SessionTypes
  <2>3. mixed = {} /\ (terminal' \/ local' = "completed") => Evidence
    BY <2>1 DEF SessionsInv, Evident
  <2> QED BY <1>1, <1>2, <2>1, <2>2, <2>3, AnswerIsSafe
<1>3. CASE call[c].at = "prompted"
  <2>1. /\ last' = call[c].task /\ baseline' = call[c].base
        /\ terminal' = FALSE /\ busySeen' = FALSE /\ local' = "running"
        /\ c = Driver /\ Moves(c, NoCall) /\ SessionTypes
    BY <1>1, <1>3, MovesOn DEF Started, SessionsInv, Numbered
  <2>2. /\ call' \in [Callers -> CallRecords] /\ call'[c] = NoCall
        /\ \A d \in Callers : d # c => call'[d] = call[d]
        /\ \A d \in Callers : call[d] \in CallRecords
    BY <2>1, OneCallMoves
  <2>3. call[c].task \in Nat /\ call[c].base \in Nat
    BY <1>3, <2>2, CallFields
  <2>4. Sent' = Sent
          /\ UNCHANGED <<messages, working, busy, mixed, overlapped>>
    BY <1>1 DEF Sent, provider, history
  <2>5. SessionTypes'
    BY <1>1, <2>1, <2>2, <2>3 DEF SessionTypes, Locals, provider, history
  <2>6. Numbered'
    <3>1. ASSUME NEW d \in Callers
          PROVE  /\ call'[d].at \in {"baseline", "prompt", "prompted", "refused"} =>
                      d = Driver
                 /\ call'[d].at \in {"lists", "read"} => call'[d].count <= Len(messages)
      <4>1. CASE d = c
        BY <2>2, <4>1, NowhereToGo
      <4>2. CASE d # c
        BY <2>2, <4>2 DEF SessionsInv, Numbered
      <4> QED BY <4>1, <4>2
    <3> QED BY <2>4, <3>1 DEF SessionsInv, Numbered, Asked
  <2>7. InTurn'
    <3>1. mixed = {} => last' = Sent
      BY <1>3, <2>1 DEF SessionsInv, InTurn
    <3>2. call'[Driver].at # "prompted"
      BY <2>1, <2>2, NowhereToGo
    <3>3. mixed = {} =>
            /\ \/ working = <<>>
               \/ working = <<Sent>> /\ ~Answered(Sent)
            /\ \A m, n \in DOMAIN messages :
                 m < n /\ Asked(m) /\ ~Asked(n) => messages[m].task <= messages[n].task
      BY DEF SessionsInv, InTurn
    <3> QED BY <2>4, <3>1, <3>2, <3>3 DEF InTurn, Asked, Answered
  <2>8. Divided'
    <3> SUFFICES ASSUME mixed = {}, NEW m \in DOMAIN messages, Asked(m)
                 PROVE  baseline' < m => last' <= messages[m].task
      BY <2>1, <2>2, <2>4, NowhereToGo DEF Divided, Asked
    <3> QED BY <1>3, <2>1 DEF SessionsInv, Divided
  <2>9. Evident'
    BY <2>1 DEF Evident
  <2>10. OneByOne'
    <3>1. call[c] # NoCall /\ ~Reusable(local')
            /\ ~FoundIdle(NoCall)
      BY <1>3, <2>1, NowhereToGo DEF Reusable
    <3>2. Alone' => Alone
      BY <2>4 DEF Alone
    <3> QED BY <2>1, <2>4, <3>1, <3>2, TurnIsKept DEF SessionsInv
  <2> QED BY <2>5, <2>6, <2>7, <2>8, <2>9, <2>10 DEF SessionsInv
<1> QED BY <1>2, <1>3 DEF Started

\* After an interrupt that came through the provider is at rest.
LEMMA DoneIsSafe ==
  ASSUME SessionsInv, NEW c \in Callers, Done(c)
  PROVE  SessionsInv'
<1>1. /\ call[c].at = "done" /\ local' = call[c].op /\ Stops(c)
      /\ UNCHANGED <<last, baseline, terminal, busySeen, provider, history>>
  BY DEF Done
<1>2. call[c].op \in {"interrupted", "aborted", "destroyed", "running"}
  BY <1>1, CallFields DEF SessionsInv, SessionTypes
<1>3. local' \in Locals /\ local' # "completed"
  BY <1>1, <1>2 DEF Locals
<1>4. ASSUME Alone, working # <<>> PROVE ~Reusable(local')
  <2>1. call[c].op # "interrupted"
    BY <1>1, <1>4 DEF SessionsInv, OneByOne, FoundIdle
  <2> QED BY <1>1, <1>2, <2>1 DEF Reusable
<1>5. terminal' \in BOOLEAN /\ busySeen' \in BOOLEAN
      /\ (mixed = {} /\ (terminal' \/ local' = "completed") => Evidence)
  BY <1>1, <1>3 DEF SessionsInv, SessionTypes, Evident
<1> QED BY <1>1, <1>3, <1>4, <1>5, AnswerIsSafe

LEMMA ResumedIsSafe ==
  ASSUME SessionsInv, NEW c \in Callers, Resumed(c)
  PROVE  SessionsInv'
<1>1. /\ call[c].at = "get" /\ Stops(c)
      /\ UNCHANGED <<last, baseline, terminal, busySeen, provider, history>>
      /\ local' = call[c].op \/ local' = local
  BY DEF Resumed
<1>2. call[c].op = "created"
  BY <1>1, CallFields DEF SessionsInv, SessionTypes
<1>3. local' \in Locals /\ (local' = local \/ local' = "created")
  BY <1>1, <1>2 DEF Locals, SessionsInv, SessionTypes
<1>4. Alone => working = <<>>
  BY <1>1 DEF SessionsInv, OneByOne, FoundIdle
<1>5. terminal' \in BOOLEAN /\ busySeen' \in BOOLEAN
      /\ (mixed = {} /\ (terminal' \/ local' = "completed") => Evidence)
  BY <1>1, <1>3 DEF SessionsInv, SessionTypes, Evident
<1> QED BY <1>1, <1>3, <1>4, <1>5, AnswerIsSafe

\* The messages getEvents has may be old; they are still evidence.
LEMMA ListedIsSafe ==
  ASSUME SessionsInv, NEW c \in Callers, Listed(c)
  PROVE  SessionsInv'
<1>1. /\ call[c].at = "lists" /\ Stops(c)
      /\ UNCHANGED <<last, baseline, busySeen, provider, history>>
      /\ terminal' = (terminal \/ (last # 0 /\ TerminalSince(call[c].count)))
      /\ local' = "waiting_approval" \/ local' = local
  BY DEF Listed
<1>2. call[c].count \in Nat /\ call[c].count <= Len(messages)
  BY <1>1, CallFields DEF SessionsInv, SessionTypes, Numbered
<1>3. terminal' \in BOOLEAN /\ busySeen' \in BOOLEAN /\ local' \in Locals
  BY <1>1 DEF Locals, SessionsInv, SessionTypes
<1>4. ASSUME Alone, working # <<>> PROVE ~Reusable(local')
  <2>1. ~Reusable(local)
    BY <1>1, <1>4, RestIsKnown
  <2> QED BY <1>1, <2>1 DEF Reusable
<1>5. ASSUME mixed = {}, terminal' \/ local' = "completed" PROVE Evidence
  <2>1. CASE TerminalSince(call[c].count)
    BY <1>2, <1>5, <2>1, TerminalIsEvidence DEF SessionsInv
  <2>2. CASE terminal \/ local = "completed"
    BY <1>5, <2>2 DEF SessionsInv, Evident
  <2> QED BY <1>1, <1>5, <2>1, <2>2
<1> QED BY <1>1, <1>3, <1>4, <1>5, AnswerIsSafe

\* What getStatus concludes is true of the last task, and a session that is
\* called completed is at rest.
LEMMA ConcludeIsSafe ==
  ASSUME SessionsInv, NEW c \in Callers, Stops(c),
         call[c].at \in {"typed", "read"},
         NEW found \in BOOLEAN, Conclude(found, call[c].type),
         UNCHANGED <<last, baseline, provider, history>>,
         terminal' = (terminal \/ found),
         mixed = {} /\ found => Evidence
  PROVE  SessionsInv'
<1>1. call[c].type \in BOOLEAN
  BY CallFields DEF SessionsInv, SessionTypes
<1>2. /\ local' \in {"completed", "running", "created"}
      /\ local' = "completed" => found
      /\ local' = "created" => ~call[c].type
  BY <1>1 DEF Conclude
<1>3. busySeen \in BOOLEAN /\ terminal \in BOOLEAN
  BY DEF SessionsInv, SessionTypes
<1>4. busySeen' \in BOOLEAN /\ terminal' \in BOOLEAN /\ local' \in Locals
  BY <1>2, <1>3 DEF Conclude, Locals
<1>5. ASSUME Alone, working # <<>> PROVE ~Reusable(local')
  <2>1. call[c].type
    BY <1>5 DEF SessionsInv, OneByOne, FoundIdle
  <2>2. ~found
    <3> SUFFICES ASSUME found PROVE FALSE
      OBVIOUS
    <3>1. mixed = {} /\ working = <<Sent>> /\ ~Answered(Sent)
      BY <1>5 DEF SessionsInv, OneByOne, InTurn
    <3>2. call[Driver].at # "prompted"
      <4>1. CASE c = Driver
        BY <4>1
      <4>2. CASE c # Driver
        BY <1>5, <4>2, NowhereToGo DEF SessionsInv, OneByOne, Callers
      <4> QED BY <4>1, <4>2
    <3>3. last = Sent
      BY <3>1, <3>2 DEF SessionsInv, InTurn
    <3>4. Sent \in Nat
      BY SentIsCounted DEF SessionsInv
    <3>5. PICK t \in last..Sent : Answered(t)
      BY <3>1 DEF Evidence
    <3>6. t = Sent
      BY <3>3, <3>4
    <3> QED BY <3>1, <3>5, <3>6
  <2> QED BY <1>2, <2>1, <2>2 DEF Reusable
<1>6. ASSUME mixed = {}, terminal' \/ local' = "completed" PROVE Evidence
  <2>1. CASE found
    BY <1>6, <2>1
  <2>2. CASE terminal
    BY <1>6, <2>2 DEF SessionsInv, Evident
  <2> QED BY <1>2, <1>6, <2>1, <2>2
<1> QED BY <1>4, <1>5, <1>6, AnswerIsSafe

LEMMA TypedIsSafe ==
  ASSUME SessionsInv, NEW c \in Callers, Typed(c)
  PROVE  SessionsInv'
<1>1. /\ call[c].at = "typed"
      /\ UNCHANGED <<last, baseline, terminal, provider, history>>
  BY DEF Typed
<1>2. CASE last # 0 /\ ~terminal
  <2> DEFINE r == [call[c] EXCEPT !.at = "messages"]
  <2>1. Goes(c, "messages") /\ UNCHANGED adapter
    BY <1>1, <1>2 DEF Typed, adapter
  <2>2. r \in CallRecords /\ r.at = "messages" /\ r.type = call[c].type
    BY <1>1, CallMoved DEF SessionsInv, SessionTypes
  <2>3. Moves(c, r)
    BY <2>1, <2>2, MovesOn DEF SessionsInv
  <2>4. Alone /\ FoundIdle(r) => working = <<>>
    BY <1>1, <2>2 DEF SessionsInv, OneByOne, FoundIdle
  <2> HIDE DEF r
  <2> QED BY <1>1, <2>1, <2>2, <2>3, <2>4, AskingIsSafe
<1>3. CASE ~(last # 0 /\ ~terminal)
  <2>1. Conclude(terminal, call[c].type) /\ Stops(c)
    BY <1>3 DEF Typed
  <2>2. terminal \in BOOLEAN /\ (mixed = {} /\ terminal => Evidence)
    BY DEF SessionsInv, SessionTypes, Evident
  <2> QED BY <1>1, <2>1, <2>2, ConcludeIsSafe
<1> QED BY <1>2, <1>3

LEMMA ReadIsSafe ==
  ASSUME SessionsInv, NEW c \in Callers, Read(c)
  PROVE  SessionsInv'
<1> DEFINE found == TerminalSince(call[c].count)
<1>1. /\ call[c].at = "read" /\ Stops(c) /\ Conclude(found, call[c].type)
      /\ UNCHANGED <<last, baseline, provider, history>>
      /\ terminal' = (terminal \/ found)
  BY DEF Read
<1>2. call[c].count \in Nat /\ call[c].count <= Len(messages)
  BY <1>1, CallFields DEF SessionsInv, SessionTypes, Numbered
<1>3. mixed = {} /\ found => Evidence
  BY <1>2, TerminalIsEvidence DEF SessionsInv
<1>4. found \in BOOLEAN
  BY DEF TerminalSince
<1> HIDE DEF found
<1> QED BY <1>1, <1>3, <1>4, ConcludeIsSafe

-----------------------------------------------------------------------------
(* The theorems *)

LEMMA InitIsSafe == SessionInit => SessionsInv
<1> SUFFICES ASSUME SessionInit PROVE SessionsInv
  OBVIOUS
<1>1. messages = <<>> /\ DOMAIN messages = {} /\ working = <<>> /\ Len(messages) = 0
  BY DEF SessionInit
<1>2. Sent = 0
  <2>1. Prompts = {}
    BY <1>1 DEF Prompts
  <2> QED BY <2>1, SentIsPrompts, FS_EmptySet
<1>3. Driver \in Callers /\ \A c \in Callers : call[c] = NoCall
  BY DEF SessionInit, Callers
<1>4. SessionTypes
  <2>1. <<>> \in Seq([role : {"user", "assistant"}, task : Nat]) /\ <<>> \in Seq(Nat)
    OBVIOUS
  <2>2. call \in [Callers -> CallRecords]
    BY DEF SessionInit, CallRecords
  <2> QED BY <1>1, <2>1, <2>2 DEF SessionInit, SessionTypes, Locals
<1>5. Numbered
  BY <1>1, <1>3 DEF Numbered, NoCall
<1>6. InTurn
  BY <1>1, <1>2, <1>3 DEF SessionInit, InTurn, NoCall
<1>7. Divided
  BY <1>1 DEF Divided
<1>8. Evident
  BY DEF SessionInit, Evident
<1>9. OneByOne
  BY <1>1, <1>3, NowhereToGo DEF SessionInit, OneByOne
<1> QED BY <1>4, <1>5, <1>6, <1>7, <1>8, <1>9 DEF SessionsInv

LEMMA NextIsSafe == SessionsInv /\ [SessionNext]_sessionVars => SessionsInv'
<1> SUFFICES ASSUME SessionsInv, [SessionNext]_sessionVars PROVE SessionsInv'
  OBVIOUS
<1>1. CASE UNCHANGED sessionVars
  <2>1. Sent' = Sent
    BY <1>1 DEF Sent, sessionVars, provider
  <2>2. SessionTypes' /\ Numbered' /\ Divided'
    BY <1>1, <2>1 DEF SessionsInv, SessionTypes, Numbered, Divided, Asked,
                      sessionVars, adapter, provider, history
  <2>3. InTurn' /\ Evident' /\ OneByOne'
    BY <1>1, <2>1 DEF SessionsInv, InTurn, Evident, Evidence, OneByOne, Alone, FoundIdle,
                      Reusable, Asked, Answered, sessionVars,
                      adapter, provider, history
  <2> QED BY <2>2, <2>3 DEF SessionsInv
<1>2. CASE FinishTurn \/ TurnIdle \/ AskPermission
  BY <1>2, FinishIsSafe, ProviderIsSafe
<1>3. ASSUME NEW c \in Callers,
             \/ SendTask(c) \/ Interrupt(c) \/ Abort(c)
             \/ Destroy(c) \/ Resume(c)
             \/ Respond(c) \/ GetEvents(c) \/ GetStatus(c)
      PROVE  SessionsInv'
  BY <1>3, SendTaskIsSafe, OthersBegin
<1>4. ASSUME NEW c \in Callers, SessionRequests(c) PROVE SessionsInv'
  BY <1>4, ReadBaselineIsSafe, PromptIsSafe, StoppingRequestsAreSafe, ListRequestIsSafe,
     StatusRequestIsSafe, MessagesRequestIsSafe DEF SessionRequests
<1>5. ASSUME NEW c \in Callers, SessionAnswers(c) PROVE SessionsInv'
  BY <1>5, StartedIsSafe, DoneIsSafe, ResumedIsSafe, ListedIsSafe, TypedIsSafe, ReadIsSafe
     DEF SessionAnswers
<1> QED BY <1>1, <1>2, <1>3, <1>4, <1>5 DEF SessionNext

\* Whatever the callers and the provider do, and however many tasks are sent, the
\* messages, the baselines and what was concluded from them stay in order.
THEOREM SessionsInvariant == SessionSpec => []SessionsInv
BY InitIsSafe, NextIsSafe, PTL DEF SessionSpec

\* For any number of callers and tasks: unless a prompt was taken whose answer was
\* lost, or prompts ran into one another, a completed session has the final message
\* of its last task, or of one that is being sent.
THEOREM CompletionsAreAnswered == SessionSpec => []CompletedIsAnswered
<1>1. SessionsInv => CompletedIsAnswered
  BY DEF SessionsInv, Evident, Evidence, CompletedIsAnswered
<1> QED BY <1>1, SessionsInvariant, PTL

\* For any number of callers and tasks: a prompt is only sent to a session that
\* still works on another if operations overlapped or the answer to a prompt was
\* lost.
THEOREM TasksComeOneByOne == SessionSpec => []OneTaskAtATime
<1>1. SessionsInv => OneTaskAtATime
  BY DEF SessionsInv, OneByOne, Alone, OneTaskAtATime
<1> QED BY <1>1, SessionsInvariant, PTL
=============================================================================
