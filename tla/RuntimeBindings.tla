-------------------------- MODULE RuntimeBindings --------------------------
(***************************************************************************)
(* Which runtime session belongs to which attempt of a workflow run: the   *)
(* entries of JsonlRuntimeBindingStore and the order they may come in.     *)
(* A binding's projectId follows from its workflow run and is left out;     *)
(* its workspace is fixed by the session it names.                         *)
(***************************************************************************)
EXTENDS Naturals, Sequences

CONSTANTS
  RunIds,      \* workflow runs
  Sessions,    \* runtime sessions a provider may create
  BoundTimes   \* values of the clock in boundAt

ASSUME BindingsAssumption == BoundTimes \subseteq Nat

Bindings == [workflowRunId : RunIds, workflowAttempt : Nat \ {0},
             sessionId : Sessions, boundAt : BoundTimes]

\* The positions of a run's bindings in a log.
BindingsOf(log, runId) == {n \in DOMAIN log : log[n].workflowRunId = runId}

\* assertBindingProgression does not throw.
BindingProgression(previous, next) ==
  /\ next.workflowAttempt > previous.workflowAttempt
  /\ next.boundAt >= previous.boundAt

\* bind() accepts b after log: it must progress from the run's latest binding.
BindingAdmissible(log, b) ==
  \A n \in BindingsOf(log, b.workflowRunId) :
    (\A m \in BindingsOf(log, b.workflowRunId) : m <= n)
      => BindingProgression(log[n], b)
=============================================================================
