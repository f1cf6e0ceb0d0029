------------------------- MODULE ExecutionIntegrity -------------------------
(***************************************************************************)
(* One runtime-backed workflow run across the stores that record it: the   *)
(* workflow checkpoints, the runtime bindings, the integrity journal and   *)
(* the run ledger, and the sessions of the runtime provider.               *)
(*                                                                         *)
(* Drivers are concurrent calls of the coordinators: createBoundSession    *)
(* and its compensating cleanup, and reconcile followed by verify, whose    *)
(* awaits let the run, the stores and the sessions change underneath.  The *)
(* other operations are single turns of the event loop.  Appending to a    *)
(* store may throw after its line reached the file; the store then refuses *)
(* everything until the process reopens it.  The process may die between   *)
(* any two turns.  Workflow checkpoints fail in DurableWorkflow, and files *)
(* in JsonlStore; here a checkpoint happens or does not.                   *)
(*                                                                         *)
(* All stores live in one process, as their single-writer contract asks.   *)
(* Every attempt uses the same runtime and the same workspace.             *)
(***************************************************************************)
EXTENDS WorkflowTransitions, IntegrityJournal

CONSTANTS
  Drivers,      \* concurrent calls
  NoRecord,     \* the ledger has no record of the run
  Unreliable    \* the stores whose appends may throw, for model checking

ASSUME IntegrityAssumption == Unreliable \subseteq {"bindings", "journal", "ledger"}

VARIABLES
  workflow,   \* the latest checkpoint
  bindings,   \* the lines of the binding file
  journal,    \* the lines of the journal file
  ledger,     \* the record in the ledger file, and the attempt it was made for
  fenced,     \* the stores whose object missed the last line of its file
  session,    \* the provider's status of each session
  driver,     \* what each call is doing
  fate,       \* history variable: how the creation of each session ended
  passes      \* history variable: the sessions a verifier passed

vars == << workflow, bindings, journal, ledger, fenced, session, driver,
           fate, passes >>

Machine == INSTANCE WorkflowStateMachine WITH run <- workflow

SessionStatuses == {"absent", "live", "completed", "ended", "destroyed"}

Idle == [pc |-> "idle", attempt |-> 0, sessionId |-> NoSession, passed |-> FALSE]

Init ==
  /\ workflow = NoRun
  /\ bindings = << >>
  /\ journal = << >>
  /\ ledger = NoRecord
  /\ fenced = {}
  /\ session = [x \in Sessions |-> "absent"]
  /\ driver = [d \in Drivers |-> Idle]
  /\ fate = [x \in Sessions |-> "none"]
  /\ passes = {}

-----------------------------------------------------------------------------
(* What the store objects show, and how they append. *)

Seen(log, store) ==
  IF store \in fenced THEN SubSeq(log, 1, Len(log) - 1) ELSE log

BindingsSeen == Seen(bindings, "bindings")
JournalSeen == Seen(journal, "journal")
LedgerSeen == IF "ledger" \in fenced THEN NoRecord ELSE ledger

\* append() writes its line, and returns or throws.
AppendReturns(store) == store \notin fenced /\ UNCHANGED fenced

AppendThrows(store) ==
  /\ store \in Unreliable \ fenced
  /\ fenced' = fenced \union {store}

\* bindingForAttempt, as a set of at most one binding.
BindingFor(attempt) ==
  {b \in {BindingsSeen[n] : n \in DOMAIN BindingsSeen} : b.attempt = attempt}

\* assertBindingProgression.
BindAccepts(b) ==
  \A n \in DOMAIN BindingsSeen : BindingsSeen[n].attempt < b.attempt

-----------------------------------------------------------------------------
(* The workflow. *)

WorkflowStep ==
  /\ \/ \E risk \in RiskClasses, now \in Times :
          workflow = NoRun /\ workflow' = Create(risk, now)
     \/ \E now \in Times :
          /\ workflow # NoRun
          /\ now >= workflow.updatedAt
          /\ workflow' \in Machine!MethodResults(workflow, now)
          /\ workflow'.attempt <= MaxAttempts
  /\ UNCHANGED << bindings, journal, ledger, fenced, session, driver, fate, passes >>

-----------------------------------------------------------------------------
(* RuntimeSessionBindingCoordinator.createBoundSession *)

\* Fault: a session may be made for a run in any phase and status.
BeginCreateAnytime(d) ==
  /\ driver[d].pc = "idle"
  /\ workflow # NoRun
  /\ \A n \in DOMAIN BindingsSeen : BindingsSeen[n].attempt < workflow.attempt
  /\ driver' = [driver EXCEPT ![d] =
                  [Idle EXCEPT !.pc = "creating", !.attempt = workflow.attempt]]
  /\ UNCHANGED << workflow, bindings, journal, ledger, fenced, session, fate, passes >>

\* assertExecutableWorkflow
Executable(run) ==
  run.phase = "execute" /\ run.status \in {"running", "retrying"} /\ run.attempt >= 1

\* Up to the await of createSession: the run must be in execute, and not yet
\* bound for this attempt or a later one.
BeginCreate(d) ==
  /\ driver[d].pc = "idle"
  /\ workflow # NoRun
  /\ Executable(workflow)
  /\ \A n \in DOMAIN BindingsSeen : BindingsSeen[n].attempt < workflow.attempt
  /\ driver' = [driver EXCEPT ![d] =
                  [Idle EXCEPT !.pc = "creating", !.attempt = workflow.attempt]]
  /\ UNCHANGED << workflow, bindings, journal, ledger, fenced, session, fate, passes >>

\* The provider creates the session; its answer is under way.
ProviderCreates(d, x) ==
  /\ driver[d].pc = "creating"
  /\ session[x] = "absent"
  /\ session' = [session EXCEPT ![x] = "live"]
  /\ driver' = [driver EXCEPT ![d].pc = "created", ![d].sessionId = x]
  /\ UNCHANGED << workflow, bindings, journal, ledger, fenced, fate, passes >>

\* createSession rejects, before or after the provider created the session.
CreateFails(d) ==
  /\ driver[d].pc \in {"creating", "created"}
  /\ driver' = [driver EXCEPT ![d] = Idle]
  /\ fate' = [x \in Sessions |->
                IF x = driver[d].sessionId THEN "leaked" ELSE fate[x]]
  /\ UNCHANGED << workflow, bindings, journal, ledger, fenced, session, passes >>

\* createSession resolves and the binding is stored, all in one turn.
Bind(d) ==
  LET b == [attempt |-> driver[d].attempt, sessionId |-> driver[d].sessionId] IN
    /\ driver[d].pc = "created"
    /\ BindAccepts(b)
    /\ bindings' = Append(bindings, b)
    /\ \/ /\ AppendReturns("bindings")
          /\ driver' = [driver EXCEPT ![d] = Idle]
          /\ fate' = [fate EXCEPT ![b.sessionId] = "bound"]
       \/ /\ AppendThrows("bindings")
          /\ driver' = [driver EXCEPT ![d].pc = "aborting"]
          /\ fate' = [fate EXCEPT ![b.sessionId] = "in_doubt"]
    /\ UNCHANGED << workflow, journal, ledger, session, passes >>

\* Fault: there is no cleanup.
BindRefusedAndForgotten(d) ==
  /\ driver[d].pc = "created"
  /\ driver' = [driver EXCEPT ![d] = Idle]
  /\ fate' = [fate EXCEPT ![driver[d].sessionId] = "refused"]
  /\ UNCHANGED << workflow, bindings, journal, ledger, fenced, session, passes >>

\* createSession resolves, but the session does not match the request, or
\* bind() throws without having written: the session is to be cleaned up.
BindRefused(d) ==
  /\ driver[d].pc = "created"
  /\ driver' = [driver EXCEPT ![d].pc = "aborting"]
  /\ fate' = [fate EXCEPT ![driver[d].sessionId] = "refused"]
  /\ UNCHANGED << workflow, bindings, journal, ledger, fenced, session, passes >>

\* cleanupCreatedSession: abort; destroy comes next whether it succeeds or not.
CleanupAbort(d) ==
  LET x == driver[d].sessionId IN
    /\ driver[d].pc = "aborting"
    /\ session' \in {session, [session EXCEPT ![x] = "ended"]}
    /\ driver' = [driver EXCEPT ![d].pc = "destroying"]
    /\ UNCHANGED << workflow, bindings, journal, ledger, fenced, fate, passes >>

\* ... and destroy.  createBoundSession then throws, naming what failed.
CleanupDestroy(d) ==
  LET x == driver[d].sessionId IN
    /\ driver[d].pc = "destroying"
    /\ driver' = [driver EXCEPT ![d] = Idle]
    /\ \/ /\ session' = [session EXCEPT ![x] = "destroyed"]
          /\ UNCHANGED fate
       \/ /\ fate' = [fate EXCEPT ![x] =
                        IF @ = "refused" THEN "leaked" ELSE @]
          /\ UNCHANGED session
    /\ UNCHANGED << workflow, bindings, journal, ledger, fenced, passes >>

\* The provider works on a session.
ProviderEnds(x) ==
  /\ session[x] = "live"
  /\ \E status \in {"completed", "ended"} :
       session' = [session EXCEPT ![x] = status]
  /\ UNCHANGED << workflow, bindings, journal, ledger, fenced, driver, fate, passes >>

-----------------------------------------------------------------------------
(* RuntimeReconciliationCoordinator.reconcile and                          *)
(* RuntimeVerificationCoordinator.verify                                   *)

\* reconcile(run, binding) up to the await of the probe.
BeginReconcile(d) ==
  /\ driver[d].pc = "idle"
  /\ workflow # NoRun
  /\ RuntimeReconciliationRequired(workflow)
  /\ \E b \in BindingFor(workflow.attempt) :
       driver' = [driver EXCEPT ![d] =
                    [Idle EXCEPT !.pc = "probing", !.attempt = b.attempt,
                                 !.sessionId = b.sessionId]]
  /\ UNCHANGED << workflow, bindings, journal, ledger, fenced, session, fate, passes >>

\* The probe answers.  Only a completed session may be verified; the call
\* ends on every other answer and on a failure to observe.
Observe(d) ==
  /\ driver[d].pc = "probing"
  /\ \/ /\ session[driver[d].sessionId] = "completed"
        /\ driver' = [driver EXCEPT ![d].pc = "verifying"]
     \/ driver' = [driver EXCEPT ![d] = Idle]
  /\ UNCHANGED << workflow, bindings, journal, ledger, fenced, session, fate, passes >>

\* The verifier answers; a verifier that throws yields a failed outcome.
Verify(d) ==
  /\ driver[d].pc = "verifying"
  /\ \E passed \in BOOLEAN :
       /\ driver' = [driver EXCEPT ![d].pc = "verified", ![d].passed = passed]
       /\ passes' = passes \union {x \in {driver[d].sessionId} : passed}
  /\ UNCHANGED << workflow, bindings, journal, ledger, fenced, session, fate >>

\* The caller drops the outcome, having used it or not.
Drop(d) ==
  /\ driver[d].pc = "verified"
  /\ driver' = [driver EXCEPT ![d] = Idle]
  /\ UNCHANGED << workflow, bindings, journal, ledger, fenced, session, fate, passes >>

-----------------------------------------------------------------------------
(* ExecutionIntegrityCoordinator: the milestones. *)

AppendToJournal(e) ==
  /\ IntegrityProgression(JournalSeen, e)
  /\ journal' = Append(journal, e)
  /\ AppendReturns("journal") \/ AppendThrows("journal")

\* recordRuntimeBound does not throw before its append.
RuntimeBoundReady(b) ==
  /\ workflow # NoRun
  /\ b \in BindingFor(workflow.attempt)

RecordRuntimeBound ==
  /\ \E n \in DOMAIN BindingsSeen :
       /\ RuntimeBoundReady(BindingsSeen[n])
       /\ AppendToJournal(RuntimeBound(BindingsSeen[n].attempt,
                                       BindingsSeen[n].sessionId))
  /\ UNCHANGED << workflow, bindings, ledger, session, driver, fate, passes >>

\* Fault: the outcome is filed under the run's current attempt.
RecordVerificationAsCurrent(d) ==
  LET v == driver[d] IN
    /\ v.pc = "verified"
    /\ HasStage(JournalSeen, "runtime_bound", workflow.attempt)
    /\ AppendToJournal(VerificationRecorded(workflow.attempt, v.sessionId, v.passed))
    /\ UNCHANGED << workflow, bindings, ledger, session, driver, fate, passes >>

\* recordVerification, by the caller that holds the outcome.
RecordVerification(d) ==
  LET v == driver[d] IN
    /\ v.pc = "verified"
    /\ HasStage(JournalSeen, "runtime_bound", v.attempt)
    /\ workflow.attempt = v.attempt
    /\ [attempt |-> v.attempt, sessionId |-> v.sessionId] \in BindingFor(v.attempt)
    /\ AppendToJournal(VerificationRecorded(v.attempt, v.sessionId, v.passed))
    /\ UNCHANGED << workflow, bindings, ledger, session, driver, fate, passes >>

\* Fault: the run need not have ended.
WorkflowTerminalEarly ==
  /\ workflow # NoRun
  /\ BindingFor(workflow.attempt) # {}
  /\ HasStage(JournalSeen, "runtime_bound", workflow.attempt)
  /\ workflow.status = "succeeded" => HasPassed(JournalSeen, workflow.attempt)

\* recordWorkflowTerminal does not throw before its append.
WorkflowTerminalReady ==
  /\ workflow # NoRun
  /\ IsTerminal(workflow)
  /\ BindingFor(workflow.attempt) # {}
  /\ HasStage(JournalSeen, "runtime_bound", workflow.attempt)
  /\ workflow.status = "succeeded" => HasPassed(JournalSeen, workflow.attempt)

RecordWorkflowTerminal ==
  /\ WorkflowTerminalReady
  /\ AppendToJournal(WorkflowTerminal(workflow.attempt, workflow.status))
  /\ UNCHANGED << workflow, bindings, ledger, session, driver, fate, passes >>

\* assertLedgerMatchesWorkflow: the record has no attempt to compare.
LedgerMatches(record, run) ==
  /\ record.riskClass = run.riskClass
  /\ record.outcome = run.status
  /\ run.status = "failed" => record.failureReason = run.failureReason

\* recordLedgerFinalized does not throw before its append.
LedgerFinalizedReady ==
  /\ workflow # NoRun
  /\ IsTerminal(workflow)
  /\ HasStage(JournalSeen, "workflow_terminal", workflow.attempt)
  /\ BindingFor(workflow.attempt) # {}
  /\ LedgerSeen # NoRecord
  /\ LedgerMatches(LedgerSeen, workflow)

RecordLedgerFinalized ==
  /\ LedgerFinalizedReady
  /\ AppendToJournal(LedgerFinalized(workflow.attempt, LedgerSeen.outcome))
  /\ UNCHANGED << workflow, bindings, ledger, session, driver, fate, passes >>

-----------------------------------------------------------------------------
(* RuntimeRunLedgerFinalizer.appendTerminal *)

\* The runs a caller may present: the latest checkpoint, or the failed run of
\* an attempt that has been retried since.
Snapshots ==
  {workflow} \union
  UNION {{[workflow EXCEPT !.status = "failed", !.attempt = a, !.failureReason = reason] :
            reason \in Reasons} : a \in 1..(workflow.attempt - 1)}

\* The verification outcomes a caller can present: one it holds, or the one
\* recoverVerification reads back from the journal.
Verifications(attempt) ==
  {[sessionId |-> driver[d].sessionId, passed |-> driver[d].passed] :
     d \in {e \in Drivers : driver[e].pc = "verified"}}
  \union
  {[sessionId |-> e.sessionId, passed |-> e.passed] :
     e \in EntriesFor(JournalSeen, "verification_recorded", attempt)}

\* assertTerminalWorkflow; a failed snapshot always has its reason.
Finalizable(run) ==
  /\ IsTerminal(run)
  /\ run.status = "succeeded" => run.phase = "publish"
  /\ run.status = "failed" => run.failureReason \in Reasons

\* assertVerificationMatchesBinding, of a verification of this run
VerificationMatches(v, b) == v.sessionId = b.sessionId

\* Success needs a PASS on the bound session.
MayFinalize(run) ==
  \E b \in BindingFor(run.attempt) :
    run.status = "succeeded" =>
      \E v \in Verifications(run.attempt) : v.passed /\ VerificationMatches(v, b)

\* The append to the ledger.  The attempt is for the properties: the code's
\* record does not have it.
WriteLedger(run) ==
  /\ AppendReturns("ledger") \/ AppendThrows("ledger")
  /\ ledger' = [riskClass |-> run.riskClass, outcome |-> run.status,
                failureReason |-> run.failureReason, attempt |-> run.attempt]
  /\ UNCHANGED << workflow, bindings, journal, session, driver, fate, passes >>

\* Fault: a success is recorded whatever the verifier said.
AppendTerminalUnverified ==
  /\ workflow # NoRun
  /\ LedgerSeen = NoRecord
  /\ \E run \in Snapshots :
       Finalizable(run) /\ BindingFor(run.attempt) # {} /\ WriteLedger(run)

\* Fault: records may repeat.
AppendTerminalAgain ==
  /\ workflow # NoRun
  /\ \E run \in Snapshots :
       Finalizable(run) /\ MayFinalize(run) /\ WriteLedger(run)

\* One record per run, ever.
AppendTerminal ==
  /\ workflow # NoRun
  /\ LedgerSeen = NoRecord
  /\ \E run \in Snapshots :
       Finalizable(run) /\ MayFinalize(run) /\ WriteLedger(run)

-----------------------------------------------------------------------------
(* The process dies and starts again: calls vanish, stores are reloaded. *)

InFlight == {driver[d].sessionId : d \in {e \in Drivers :
               driver[e].pc \in {"created", "aborting", "destroying"}}}

Restart ==
  /\ fenced # {} \/ \E d \in Drivers : driver[d] # Idle
  /\ fenced' = {}
  /\ driver' = [d \in Drivers |-> Idle]
  /\ fate' = [x \in Sessions |->
                IF x \in InFlight /\ fate[x] \in {"none", "refused"}
                  THEN "leaked" ELSE fate[x]]
  /\ UNCHANGED << workflow, bindings, journal, ledger, session, passes >>

Next ==
  \/ WorkflowStep
  \/ \E d \in Drivers :
       \/ BeginCreate(d) \/ \E x \in Sessions : ProviderCreates(d, x)
       \/ CreateFails(d) \/ Bind(d) \/ BindRefused(d)
       \/ CleanupAbort(d) \/ CleanupDestroy(d)
       \/ BeginReconcile(d) \/ Observe(d)
       \/ Verify(d) \/ Drop(d) \/ RecordVerification(d)
  \/ \E x \in Sessions : ProviderEnds(x)
  \/ RecordRuntimeBound \/ RecordWorkflowTerminal \/ RecordLedgerFinalized
  \/ AppendTerminal
  \/ Restart

Spec == Init /\ [][Next]_vars

-----------------------------------------------------------------------------
(* ExecutionIntegrityCoordinator.inspect *)

IsBound == BindingFor(workflow.attempt) # {}

Has(stage) == HasStage(JournalSeen, stage, workflow.attempt)

\* The reasons to ask for manual intervention, for a run that exists.
Contradiction ==
  \/ \E n \in DOMAIN BindingsSeen : BindingsSeen[n].attempt > workflow.attempt
  \/ ~IsBound /\ \/ Has("runtime_bound") \/ Has("verification_recorded")
                  \/ LedgerSeen # NoRecord
                  \/ IsTerminal(workflow)
                  \/ workflow.phase \notin {"start", "classify", "compile_context"}
  \/ Has("workflow_terminal") /\ ~IsTerminal(workflow)
  \/ Has("ledger_finalized") /\ LedgerSeen = NoRecord
  \/ LedgerSeen # NoRecord /\ ~LedgerMatches(LedgerSeen, workflow)
  \/ /\ Has("runtime_bound") /\ workflow.status = "succeeded"
     /\ ~HasPassed(JournalSeen, workflow.attempt)

\* What is missing in a state without contradictions, earliest first.
NextStep ==
  CASE ~IsBound -> "consistent_pre_runtime"
    [] IsBound /\ ~Has("runtime_bound") -> "record_runtime_binding_milestone"
    [] IsBound /\ Has("runtime_bound") /\ ~IsTerminal(workflow) ->
         IF ~Has("verification_recorded") THEN "reconcile_runtime"
         ELSE IF HasPassed(JournalSeen, workflow.attempt)
                THEN "verification_available" ELSE "verification_failed"
    [] IsBound /\ Has("runtime_bound") /\ IsTerminal(workflow) ->
         IF ~Has("workflow_terminal") THEN "record_terminal_milestone"
         ELSE IF LedgerSeen = NoRecord THEN "finalize_run_ledger"
         ELSE IF ~Has("ledger_finalized") THEN "record_ledger_finalized_milestone"
         ELSE "consistent_terminal"

Disposition ==
  IF workflow = NoRun
    THEN IF BindingsSeen = << >> /\ LedgerSeen = NoRecord /\ JournalSeen = << >>
           THEN "not_found" ELSE "manual_intervention"
    ELSE IF Contradiction THEN "manual_intervention" ELSE NextStep

-----------------------------------------------------------------------------
(* Properties. *)

\* planWorkflowRecovery lets a restarted process start a run on its own only
\* if no runtime ever saw the run: no session exists and none is being made.
AutomaticStartIsSafe ==
  workflow = NoRun \/ AutomaticResumeAllowed(workflow) =>
    /\ \A x \in Sessions : session[x] = "absent"
    /\ \A d \in Drivers : driver[d].pc = "idle"

\* A session the provider still has is bound, is being created or cleaned up,
\* or was lost in one of the ways the coordinator reports or cannot see: the
\* answer to createSession never came, the cleanup failed, the process died,
\* or the outcome of bind() is unknown.  No race loses one silently.
NoSilentLeak ==
  \A x \in Sessions : session[x] \in {"live", "completed", "ended"} =>
    fate[x] \in {"bound", "in_doubt", "leaked"} \/ x \in InFlight

\* A verdict in the journal is about the session that the journal and the
\* binding file have for the attempt, though the run may have been retried
\* and bound again while the probe and the verifier were awaited.
VerdictIsForBoundSession ==
  \A e \in {journal[n] : n \in DOMAIN journal} :
    e.stage = "verification_recorded" =>
      /\ e.passed => e.sessionId \in passes
      /\ \E f \in EntriesFor(journal, "runtime_bound", e.attempt) :
           f.sessionId = e.sessionId
      /\ \E n \in DOMAIN bindings :
           bindings[n].attempt = e.attempt /\ bindings[n].sessionId = e.sessionId

\* The ledger calls a run succeeded only if a verifier passed the session
\* that is bound for the attempt that succeeded.
SuccessWasVerified ==
  ledger # NoRecord /\ ledger.outcome = "succeeded" =>
    /\ workflow.status = "succeeded"
    /\ \E n \in DOMAIN bindings : /\ bindings[n].attempt = workflow.attempt
                                  /\ bindings[n].sessionId \in passes

\* inspect asks for a human only for one of these: work may have been done
\* without a binding, success was claimed without a recorded PASS, or the run
\* was retried after its one ledger record was written.
InterventionIsExplained ==
  Disposition = "manual_intervention" =>
    \/ ~IsBound
    \/ workflow.status = "succeeded" /\ ~HasPassed(JournalSeen, workflow.attempt)
    \/ LedgerSeen # NoRecord /\ LedgerSeen.attempt < workflow.attempt

\* The milestone that inspect says is missing would be accepted.
RepairAccepted ==
  CASE Disposition = "record_runtime_binding_milestone" ->
         \E b \in BindingFor(workflow.attempt) :
           IntegrityProgression(JournalSeen, RuntimeBound(b.attempt, b.sessionId))
    [] Disposition = "record_terminal_milestone" ->
         /\ WorkflowTerminalReady
         /\ IntegrityProgression(JournalSeen,
              WorkflowTerminal(workflow.attempt, workflow.status))
    [] Disposition = "finalize_run_ledger" -> LedgerSeen = NoRecord
    [] Disposition = "record_ledger_finalized_milestone" ->
         /\ LedgerFinalizedReady
         /\ IntegrityProgression(JournalSeen,
              LedgerFinalized(workflow.attempt, LedgerSeen.outcome))
    [] OTHER -> TRUE

\* Every partial state inspect classifies can be completed with the step it
\* names, as long as the journal has not been finalized by an earlier attempt.
RepairsAreAccepted ==
  ~Finalized(JournalSeen) \/ Has("ledger_finalized") => RepairAccepted

\* Once all stores agree on a cancelled or succeeded run, nothing a late call
\* does makes them disagree again.
AgreementIsFinal ==
  [][Disposition = "consistent_terminal" /\ workflow.status # "failed"
       => Disposition' = "consistent_terminal"]_vars
=============================================================================
