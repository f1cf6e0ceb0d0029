----------------------------- MODULE ToolBroker ------------------------------
(***************************************************************************)
(* ToolBroker (tools/tool-broker.ts): a caller has tools selected for a    *)
(* request and invokes one of those it was granted.  The invocation has a  *)
(* health check, attempts that race a timer and the caller's abort, and    *)
(* retries; it looks at the grant, never again at the policy.  Invocations *)
(* share no state, so one is modelled.  Inputs and outputs, error texts    *)
(* and durations are left out.                                             *)
(***************************************************************************)
EXTENDS ToolSelection

CONSTANT AttemptsCeiling    \* maxAttemptsCeiling

ASSUME CeilingIsPositive == AttemptsCeiling \in Nat \ {0}

VARIABLES
  available,  \* sources in order when select discovers them
  request,    \* the selection request
  grants,     \* the tools granted
  tool,       \* the granted tool that is invoked
  options,    \* what matters of the invocation request
  phase,      \* where the caller or invoke is waiting
  aborted,    \* the invocation's signal is aborted
  calls,      \* numbers of the attempts whose source call has not settled
  records,    \* attempts: the status recorded for each, in order
  outcome     \* the status invoke returned

selection == <<available, request, grants>>
invocation == <<tool, options>>
progress == <<phase, aborted, calls, records, outcome>>
brokerVars == <<selection, invocation, progress>>

Statuses == {"succeeded", "failed", "timed_out", "aborted"}
NoTool == [id |-> 0]

Options == [retryOnTimeout : BOOLEAN, maxAttempts : 1..AttemptsCeiling]

\* The attempt under way: the one after those recorded.
Current == Len(records) + 1

BrokerInit ==
  /\ available \in SUBSET Sources
  /\ request \in Requests
  /\ grants = {}
  /\ tool = NoTool
  /\ options \in Options
  /\ phase = "selecting"
  /\ aborted = FALSE
  /\ calls = {}
  /\ records = <<>>
  /\ outcome = "none"

Select ==
  /\ phase = "selecting"
  /\ grants' = Selection(request, Discovered(available))
  /\ phase' = "granted"
  /\ UNCHANGED <<available, request, invocation, aborted, calls, records, outcome>>

\* The caller picks a grant; it may have aborted already.
Invoke ==
  /\ phase = "granted"
  /\ tool' \in grants
  /\ aborted' \in BOOLEAN
  /\ phase' = "health"
  /\ UNCHANGED <<selection, options, calls, records, outcome>>

Return(status) ==
  /\ phase' = "returned"
  /\ outcome' = status

\* Fault: the loop starts the attempt and leaves the abort to the race.
BeginAttemptAnyway(n) ==
  /\ phase' = "calling"
  /\ calls' = calls \cup {n}
  /\ UNCHANGED outcome

\* The head of the loop: an aborted request makes no further attempt.
BeginAttempt(n) ==
  IF aborted
  THEN Return("aborted") /\ UNCHANGED calls
  ELSE /\ phase' = "calling"
       /\ calls' = calls \cup {n}
       /\ UNCHANGED outcome

\* safeHealth and safeVersion: both awaited before the first attempt, without a
\* timer and without a look at the abort signal; a source that is unhealthy,
\* incompatible or throws ends the invocation.
Checked ==
  /\ phase = "health"
  /\ \/ BeginAttempt(1)
     \/ Return("failed") /\ UNCHANGED calls
  /\ UNCHANGED <<selection, invocation, aborted, records>>

-----------------------------------------------------------------------------
(* Retries *)

\* Fault: any tool is repeated.
CanRepeatAnything(enabled) == enabled

CanAutomaticallyRetry(enabled) ==
  enabled /\ tool.idempotency = "safe" /\ tool.sideEffects # "destructive"

ShouldRetry(timeout, retryable) ==
  /\ retryable
  /\ Current < options.maxAttempts
  /\ CanAutomaticallyRetry(~timeout \/ options.retryOnTimeout)
  /\ timeout => options.retryOnTimeout

-----------------------------------------------------------------------------
(* Outcomes of the race *)

\* The source answers: an output; or a normalized error, whose category
\* decides the status.  (What it throws becomes a provider_error that is not
\* retryable, one of the cases of "failed".)
SourceAnswers ==
  /\ phase = "calling"
  /\ \E status \in Statuses, retryable \in BOOLEAN :
       /\ records' = Append(records, status)
       /\ IF status \in {"failed", "timed_out"} /\ ShouldRetry(status = "timed_out", retryable)
          THEN phase' = "delaying" /\ UNCHANGED outcome
          ELSE Return(status)
  /\ calls' = calls \ {Current}
  /\ UNCHANGED <<selection, invocation, aborted>>

\* Fault: a timeout is repeated as long as attempts are left.
TimesOutRepeating ==
  /\ phase = "calling"
  /\ records' = Append(records, "timed_out")
  /\ IF Current < options.maxAttempts /\ CanAutomaticallyRetry(TRUE)
     THEN BeginAttempt(Current + 1)
     ELSE Return("timed_out") /\ UNCHANGED calls
  /\ UNCHANGED <<selection, invocation, aborted>>

\* Fault: the timer only signals the source, the attempt waits for its answer.
TimesOutCooperatively == phase = "calling" /\ UNCHANGED brokerVars

\* The timer of createInvocationBoundary wins; the next attempt starts at once.
TimesOut ==
  /\ phase = "calling"
  /\ records' = Append(records, "timed_out")
  /\ IF ShouldRetry(TRUE, CanAutomaticallyRetry(options.retryOnTimeout))
     THEN BeginAttempt(Current + 1)
     ELSE Return("timed_out") /\ UNCHANGED calls
  /\ UNCHANGED <<selection, invocation, aborted>>

\* retryDelay is over.
DelayOver ==
  /\ phase = "delaying"
  /\ BeginAttempt(Current)
  /\ UNCHANGED <<selection, invocation, aborted, records>>

\* The caller aborts.  An attempt under way is given up at once, whatever the
\* source does; otherwise the loop notices when it comes round.
AbortInvocation ==
  /\ phase \in {"health", "calling", "delaying"}
  /\ ~aborted
  /\ aborted' = TRUE
  /\ IF phase = "calling"
     THEN records' = Append(records, "aborted") /\ Return("aborted")
     ELSE UNCHANGED <<records, phase, outcome>>
  /\ UNCHANGED <<selection, invocation, calls>>

\* A call that lost the race settles; nobody looks.
LostCallSettles(n) ==
  /\ n \in calls
  /\ phase # "calling" \/ n # Current
  /\ calls' = calls \ {n}
  /\ UNCHANGED <<selection, invocation, phase, aborted, records, outcome>>

BrokerNext ==
  \/ Select
  \/ Invoke
  \/ Checked
  \/ SourceAnswers
  \/ TimesOut
  \/ DelayOver
  \/ AbortInvocation
  \/ \E n \in calls : LostCallSettles(n)

BrokerSpec == BrokerInit /\ [][BrokerNext]_brokerVars

\* Timers fire.  The source need not answer, neither an attempt nor the checks
\* before the first one.
FairBrokerSpec == BrokerSpec /\ WF_brokerVars(TimesOut) /\ WF_brokerVars(DelayOver)

-----------------------------------------------------------------------------
(* Properties *)

\* A required capability is left uncovered only if no eligible tool has it or
\* the grant is full.
CoverageIsMaximal ==
  phase # "selecting" /\ Cardinality(grants) < request.maxTools =>
    \A t \in Eligible(request, Discovered(available)) :
      request.required \cap t.capabilities \subseteq Covered(grants)

\* "Automatic retries are limited to idempotency-safe, non-destructive tools":
\* the source is called at most once for any other tool, whether attempts fail,
\* time out or are refused.
UnsafeRunsOnce ==
  tool # NoTool /\ (tool.idempotency # "safe" \/ tool.sideEffects = "destructive") =>
    Len(records) + (IF phase = "calling" THEN 1 ELSE 0) <= 1

\* "Timeout retry requires explicit opt-in": two calls of the same invocation
\* run at the same time only if the request asked for retries after a timeout,
\* and every call that was left running has been recorded as timed out or, the
\* last one, as aborted.
OverlapIsAskedFor ==
  /\ Cardinality(calls) > 1 => options.retryOnTimeout
  /\ \A n \in calls : n <= Len(records) =>
       \/ records[n] = "timed_out"
       \/ (records[n] = "aborted" /\ n = Len(records))

\* "Parent workflow abort wins": once the caller has aborted, whether before,
\* during or between attempts, no call to the source starts.
AbortWins == [][calls' \subseteq calls \/ ~aborted]_brokerVars

\* "Enforces timeout": once its first attempt has begun, an invocation returns,
\* even if the source never answers an attempt and however often it is retried.
\* The checks before that are not timed: a source that answers neither health()
\* nor version() holds the invocation, and its caller's abort, for ever.
Returns == phase = "calling" ~> outcome # "none"
=============================================================================
