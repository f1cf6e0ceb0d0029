--------------------------- MODULE MCBindingStore ---------------------------
(***************************************************************************)
(* JsonlStore as JsonlRuntimeBindingStore uses it, on small sets.          *)
(***************************************************************************)
EXTENDS JsonlStore, RuntimeBindings

CONSTANTS s1, s2, p1, MaxAttempt

MCStores == {s1, s2}
OneProcess == {p1}
SameProcess == [s \in MCStores |-> p1]

MCTimes == {0, 1}

MCEntries == [workflowRunId : RunIds, workflowAttempt : 1..MaxAttempt,
              sessionId : Sessions, boundAt : BoundTimes]
=============================================================================
