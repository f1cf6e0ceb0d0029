# Verification of the agent router's control plane

These TLA+ modules model the stateful core of the intelligent agent router (TypeScript, under `src/src/`): the life cycle of an engineering workflow run and the local stores that keep it; the runtime sessions it is bound to and the journal that ties them together; the engine that executes a plan and the broker that grants and invokes tools; the adapter for the OpenCode runtime; and the chain of governed changes, from a controlled experiment over its journalled publications, the promotion and the isolated route change to the rehearsal and the one authorized change of the local production route. TLC checks them on small instances, TLAPS proves every safety property and every refinement of these runs for all instances. Section 2 maps modules to code, section 3 says what each run checks, section 4 what is proved.

## 1. Inventory

The router turns a task into a plan, runs it under a risk policy, and records what happened durably enough that a restarted process does not have to guess. There is one Node.js process with one event loop: everything between two `await`s is atomic, everything across an `await` is not. There are no threads; the concurrency comes from overlapping asynchronous calls, from several processes on one file, and from crashes.

| Component (source) | State | Operations | Interacts with | Hard behaviour | What makes it correct |
|---|---|---|---|---|---|
| Workflow state machine (`control-plane/workflow-state-machine.ts`) | none: pure functions on a `WorkflowRun` | create, start, advance, requestApproval, approve, skipApproval, pause, resume, retry, recover, fail, cancel, succeed | durable workflow | long sequences of legal calls; retry keeps the phase | one approval, no return to an earlier phase or attempt, results the store accepts |
| Durable workflow (`control-plane/durable-workflow.ts`) | file of checkpoints, latest run by id | the same methods with a checkpoint; load; recovery plan | callers holding copies | outdated copies, a checkpoint that throws after writing | histories a single caller could have made |
| Append-only stores (checkpoints, bindings, integrity journal, run ledger) | file; parsed entries, expected size and next sequence number in memory | open and load, append, get, history | everything durable | crash between write, flush and admission; two objects or processes on a file; torn lines | acknowledged entries are never lost, illegal histories never admitted |
| Runtime reconciliation (`reconciliation/`) | binding of each attempt to a session | bind, reconcile with a probe | adapters, verification | the provider moves on while the probe is awaited | one session per attempt |
| Runtime run integration (`integration/runtime-run-integration.ts`) | none | createBoundSession, verify, appendTerminal | adapter, binding store, ledger | session exists before its binding; compensating cleanup; not atomic with the workflow | no session is lost silently, no success without a passing verifier |
| Execution integrity (`integration/execution-integrity.ts`) | journal of milestones | four record operations, recoverVerification, inspect | all of the above | partial states between any two writes; attempts share one journal | every partial state is classified, and the named step is accepted |
| Run ledger (`control-plane/run-ledger.ts`) | one record per run | append, get; EvidenceGate | appendTerminal | one record for several attempts | as above |
| In-memory runtime adapter (`runtime/in-memory-runtime-adapter.ts`) | sessions, tasks, events | createSession, sendTask, abort, destroy, ... | coordinators | | the reference behaviour of a provider |
| Execution engine (`execution/`) | sets of completed, failed, timed out, blocked and skipped steps | run | executors | timeouts against results, retries, parallel groups, plans that get stuck | a step runs only after its dependencies; the final status tells the truth |
| Tool broker (`tools/tool-broker.ts`) | registered sources | discover, select, invoke | tool sources | timeout, abort, retry while an attempt is still running | no tool with side effects runs twice |
| OpenCode adapter (`runtime/opencode-*.ts`) | local status, last task, baseline of each session | createSession, sendTask, interrupt, resume, getStatus, getEvents, respondToApproval, abort, destroy | provider over HTTP | status read before and written after a request; a busy flag that lags; answers that are lost | the answer to one task never completes another; an answered task is seen |
| Worktree manager (`workspace/`) | leases, the repository | create, inspect, release | git | the repository changes between commands | no dirty worktree is removed |
| Experiment journal and executor (`evaluation/controlled-experiment-execution-journal.ts`, `bounded-experiment-executor.ts`, guardrails, sample authorization, `integration/deferred-bounded-live-execution.ts`) | events by sample | define and allow an experiment; reserve, dispatch, error, completion | runtime coordinators, side effects | digests awaited between check and write; old authorizations; live steps that nothing keeps in order; errors that are never resolved | one unresolved sample, records that are backed by what ran, reservations heed the evidence |
| Bounded-live side effects (`integration/bounded-live-*.ts`) | events by operation | reserve, commit, error; publish, restore; reconcile | sinks | crash between the external effect and its record; late requests | an effect happens at most once |
| Admission and promotion (`evaluation/m5-admission-gate.ts`, `controlled-experiment.ts`, `routing-promotion.ts`) | none: documents that are prepared and verified again | assess, define, authorize; propose, authorize | experiment, side-effect journal | counters and evidence come from the caller | a promotion rests on committed outputs, and none is left out |
| Isolated routing mutation (`integration/isolated-routing-mutation.ts`) | route state file, journal | apply, reconcile, verify receipt | files, other processes | crash between route and journal; drift | one change per authorization; reports stay true |
| Readiness, rehearsal, apply (`evaluation/local-production-*.ts`) | production file, clone, two journals, backup | decide; rehearse and restore on a clone; prepare, execute, recover | all files, other programs | overlapping calls, crash at every await, restart | one write, on proof; receipts stay true |
| Statistics, routing and planning, providers, publication, observability, policy tables, command line | none, or another append-only file | pure computations | | | see `PROJECT.json` for why each is left out |

## 2. Modules

```
WorkflowTransitions                the methods, the shape check, the replay check
  WorkflowStateMachine             one run, every call sequence        (abstract)
  DurableWorkflow                  callers' copies, failing checkpoints, crashes
    DurableWorkflowProofs          of both
DurableHistory                     what an append-only store promises  (abstract)
  JsonlStore                       the file, the objects, the processes
    JsonlStoreProofs
    MCBindingStore + RuntimeBindings   instance for the binding store
IntegrityJournal                   journal entries and their order
  ExecutionIntegrity               workflow + bindings + journal + ledger + sessions
    MCExecutionIntegrity
    ExecutionIntegrityProofs
ExecutionEngine                    one run of a plan
  MCExecutionEngine
ToolSelection                      which tools a request is granted     (operators)
  ToolBroker                       a selection, then one invocation of a tool granted
    MCToolBroker
OpenCodeSessions                   one session of the adapter and its provider
  ExecutionProofs                  of ExecutionEngine, ToolBroker and OpenCodeSessions
ExperimentAdmission                the documents that let an experiment run
  ExperimentGuardrails             its budget, its guardrails, the authorizations they give
    BoundedExperiment              its journal, the shadow executor, the live samples' steps
      MCBoundedExperiment
      ExperimentProofs
SideEffects                        publish, restore, their journal, the sink, recovery
  RoutingPromotion                 by whose authority (ExperimentGuardrails), and what is promoted
    MCRoutingPromotion
    SideEffectsProofs              of SideEffects and RoutingPromotion
AuthorizedMutation                 what an authorized change promises  (abstract)
  RoutingMutation                  the isolated route, its journal, several processes
    MCRoutingMutation
    RoutingMutationProofs
  RoutingReadiness                 the decision that production may be rehearsed
    AdapterRehearsal               the rehearsal on a clone
      RoutingApply                 the one change of production
        LocalProduction            all three around one file others change, too
          LocalProductionProofs
```

**WorkflowTransitions** has an operator for each method of `WorkflowStateMachine`. A method returns a run or throws, so the operator's value is the set of runs it may return. Timestamps are numbers from a small set; project id and creation time never change and are left out. `WellFormed` is `assertWorkflowRun` (its checks of JavaScript types are the type of the record), `IsCheckpointTransition` is `assertCheckpointTransition`: it replays every method on the stored run with the clock value and the arguments read off the new one.

**WorkflowStateMachine** is one run under all of these. A call may use any clock reading that is not before `updatedAt`: the state machine itself does not check this, the durable store does, and its callers read one clock. Likewise failure reasons and approval ids come from their sets, because the store refuses blank ones.

**DurableWorkflow** adds what `DurableWorkflowStateMachine` does around a method. `held[c]` is the copy a caller passes in, `stored` the store's latest run, `unadmitted` the line that a throwing checkpoint left behind; until the store is reopened `assertStorageUnchanged` refuses everything. `Persist` is the whole of `persist` and `checkpoint`; clock readings are arbitrary here, so calls with an old clock are included and refused.

**JsonlStore** is the shared skeleton of the four synchronous stores; the binding store's lines are the ones `map` names. `append` is a single turn of the event loop but not a single system call: `BeginAppend` (all checks), `Write`, `Sync`, with `WriteFails` and `SyncFails` for what may throw, and another process, a crash or a power loss between them. `flushed` is the length of the prefix that survives a power loss; the rest may survive in part, up to a torn line. Reading a file that was not flushed does not flush it. The ceiling on one record depends on the argument only and is part of `Admissible`.

**RuntimeBindings** gives `Admissible` for the binding store. **DurableHistory** is what a caller may rely on: a history that grows by admissible entries and of which a committed prefix stays.

**IntegrityJournal** holds the entries and `assertIntegrityProgression`. **ExecutionIntegrity** composes the workflow, the three other stores, the provider's sessions and concurrent calls (`driver`). A driver stands for one asynchronous call; its fields are the local variables that live across an `await`. An append either returns or throws after writing; in the second case the store is `fenced`: its object does not show the last line and refuses to go on until `Restart` reloads it (an append that throws before writing has no effect on any of the stores; for `bind`, where it starts the cleanup, it is `BindRefused`). The checkpoints are taken as atomic here, because DurableWorkflow has their failures. Calls on an outdated run need no extra action: a `createBoundSession` or `reconcile` begun with an old run behaves as one begun earlier and still awaiting; the milestones compare their argument with the stored run; and `appendTerminal`, which does not, takes `Snapshots`. Two history variables serve the properties: `fate` (how a session's creation ended) and `passes` (what a verifier passed); so does the ledger's `attempt`, which the code's record does not have.

**ExecutionEngine** is one call of `run`: `plan` and `cancelled` are its input, `status` the five sets of settled steps, `todo` and `batch` the ready list and the group of the `for` loop, `task[s]` the point where `runStep` of a step awaits something. `StartGroup` and `Collect` are the code before and after `Promise.all`, `Finish` the break and the final status. An attempt's end is `Answer` (the executor's promise settles first, with every kind of value, result error or rejection, in time or late) or `TimerFires`; `live` remembers the calls that lost the race. Which answer leads to which disposition is `Disposition`, from the two branches of `runStep`; its `catch` branch, reached by an executor that throws before it returns a promise, gives no disposition these do not. A retry takes place when the delay ends, whatever its length.

**ToolSelection** is `select` as an operator of the request and the tools found; its sort is the order `Precedes`. A source that is not available has no tools in its snapshot, so the two rejections `select` has for such a source are never used and are left out. **ToolBroker** is one call of `select` and one of `invoke` for a tool it granted: invocations share nothing that changes, and `invoke` takes a descriptor and does not look at the policy again. `options` holds what the retry rules look at.

**SideEffects** composes the side-effect journal, concurrent `publish` or `restore` calls (`caller`), the isolated sink and one `reconcile`. The journal is the asynchronous cousin of JsonlStore: its checks (`Reserve`, `Records`), two awaited digests, then a write that repeats only `assertTransition` (`Appended`, `AppendThrows`). A publication and a restore differ in what they carry and not in what happens to them, so an operation is a model value. The sink keeps an effect in memory (`Takes`) before it saves it (`Saves`), answers a repeated key from memory, and forgets what is unsaved when it restarts; `CallFails` is every way the coordinator's `try` can end badly, and leaves the request on its way. `reconcile` reads the journal and, after an await, the sink. `asked`, `receipts` and the report's `quiet` are history variables. A crash in the middle of the sink's `writeFile` leaves a file it refuses to start on: that is a sink that answers nothing, hence `unknown`. Nothing in the code resolves an operation left in doubt, so no action does.

**OpenCodeSessions** is one session. The adapter's maps are `local`, `last`, `baseline`, `terminal` and `busySeen`; an operation is a record in `call` that says which request it awaits, and writes to the adapter's state only when that request is answered (`Started`, `Done`, `Listed`, `Conclude`), over whatever other operations wrote meanwhile. `Conclude` is the end of `getStatus`. The provider is external and modelled from how the adapter and its tests use it: it takes prompts in order, says that it is busy from the prompt on and possibly for ever after, and any answer may be lost with the request done or not. Only `Driver` sends tasks, one call after the other, and it also watches, approves and interrupts; `Others` watch, approve and interrupt at any time, and aborting and destroying the session are left to them. `mixed` and `overlapped` are history variables.

**AuthorizedMutation** is the promise the next two families share: reserved before carried out, carried out at most once, and a verdict in the journal is true. **RoutingMutation** has one action for each stretch between awaits of `apply` and `reconcile`: the authority and the journal are looked at (`Apply`), the reservation is written (`Reserve`, `Write`) and read back (`Reread`, `Admit`), the route is compared, replaced and confirmed (`ApplyExact`, `WriteState`, `Confirm`), and the verdict recorded (`Record`). Lines carry their sequence number; a second process writing in between gives two lines one number, and the file then cannot be loaded. An authorization is named by a model value and leads from the state `Before(a)` to a state of its own.

**RoutingReadiness**, **AdapterRehearsal** and **RoutingApply** share the production file. Readiness is a decision whose verification includes the isolated mutation's receipt, so `isolated` becomes false for good when anything happens to that route or its journals. The rehearsal's two phases (candidate, restore) each reserve, change the clone and commit, production being compared around each step (`CheckProduction`, `Recheck`); a digest stands for the content it was taken of. The apply's chain of documents is `chain`; `Execute` to `Answer` are the stretches of `execute` between awaits, `Recover` and `Decide` those of `recover`; `PrepareLine` and `AppendLine` are the two halves of the apply journal's `append`, with its digest awaited between. **LocalProduction** composes them with others who change production or the clone, an operator who restores the backup, and a crash.

**ExperimentAdmission** holds the documents before an experiment. **ExperimentGuardrails** has the guardrails (`Verdict`) and what they authorize. A guardrail decision is a document the caller brings, checked by its digest; nothing binds its counters, or the statistics behind them, to a journal. So `Drafts` is the set of authorizations a caller may ask for, each with the reading it brings, and `Authorizations` are those `prepareBoundedLiveSampleAuthorization` gives.

**BoundedExperiment** has the journal (`file` and `mem` give each sample's last event: sequences of events of one sample are determined by it) and everything that writes to it. The shadow executor is one call: `Inspect`, `ReserveShadow`, `Run`, `RecordOutcome`, with an append (`Append`) awaited in between. The steps of a live sample are five functions which nothing in `src/` calls in an order, and each is an action of its own, with the checks of its own function and no others, made any number of times: `ReserveLive` reads both journals; `Dispatch` reads neither and asks only for two runs without a binding; `BeginPublish` and `Publish` ask for an authorization and one verified result (a result is a run and the time at which it was verified, so the same run may be published again); `RecordPublished` compares the pair, the receipt and the reservation; `Complete` resolves the sample. `RunElsewhere` is the rest of the system, whose runs may be shown as well. `breached` says at how many completed samples the statistics meet a stop condition: the statistics themselves are floating point and abstracted. What can happen inside a publication is in SideEffects.

**RoutingPromotion** is SideEffects with the authority each operation is made by (`Authority`, a live sample's or a rollback's), and the promotion, whose context (`Contexts`) is any set of evidence a caller can bring. `Proves` is `verifyBoundedLiveEvidence`: it reads the side-effect journal and never the experiment's. The two modules share ExperimentGuardrails and are not composed with one another, because the code does not compose them either.

Each `MC` module only instantiates; where a module needs no definitions for its constants, its `.cfg` alone does. Operators introduced by `Fault:` are not part of any specification: they are plausible bugs of the definition that follows, and each one makes the property named with it in `PROJECT.json` fail.

## 3. Runs

| Run | States | What it shows |
|---|---|---|
| `durable_workflow` | 107 942 | Two callers: a call on an outdated copy can at most resume a paused run or, if it is a start, advance one that never ran (`StaleCallsOnlyResume`); a checkpoint in doubt is settled before the next (`DoubtIsSettledFirst`); all histories are histories of the state machine (`ImplementsMachine`). |
| `binding_store` | 20 391 | Two objects in one process: acknowledged lines are flushed (`AckedIsFlushed`), only a torn line makes the file unreadable (`ReadableUnlessTorn`), and the store implements DurableHistory, so that no line changes its place and an object with an old history adds none that does not follow (`KeepsPromise`). |
| `execution_overlap` | 1 945 060 | Two calls, two attempts, a binding store that may fail: an automatic start never meets a session (`AutomaticStartIsSafe`), no session is lost silently (`NoSilentLeak`), verdicts and successes are about the session bound for their attempt (`VerdictIsForBoundSession`, `SuccessWasVerified`). |
| `execution_retry` | 326 881 | One call, two attempts, a journal and a ledger that may fail: `inspect` asks for a human only for the listed reasons (`InterventionIsExplained`), every milestone it names would be accepted unless an earlier attempt was finalized (`RepairsAreAccepted`), and agreement of all stores on a cancelled or succeeded run is final (`AgreementIsFinal`). |
| `execution_engine` | 191 936 | Chains, joins, forks and a cycle of three steps, every grouping and choice of timeouts: approvals and dependencies gate every executor call, also through parallel groups (`GatesHold`); attempts of a step never overlap (`OneCallPerStep`); results are final (`SettledStaysSettled`); `run` returns (`Terminates`). |
| `tool_broker` | 295 606 | Any request over six tools of two sources that may be down: what can be covered is (`CoverageIsMaximal`). Then any interleaving of answer, timer and abort: a tool not safe to repeat is called once, calls overlap only when asked for, an abort wins, and once its first attempt has begun `invoke` returns, also if the source never answers (`Returns`). |
| `side_effects` | 345 960 | Two calls, two live samples and three operations, two of which publish two results of the first sample by the same authorization. The sink is asked once for an operation (`AskedOnce`), and for another one only when the first is committed (`DoubtIsAlone`); the journal says committed only of effects the sink has saved (`CommitIsTrue`); a recovery report stays true (`ReportsHold`); and an allowed promotion rests on outputs that are committed and saved, of different samples, the candidate's among them, with none left out before the last one shown (`PromotionIsEarned`). |
| `routing_mutation` | 887 283 | Two processes with two authorizations, the second for the state the first leads to: each is written at most once and after its reservation, verdicts in the journal are true (`KeepsPromise`); an operation in doubt or in manual reconciliation blocks the next (`DoubtBlocks`); a receipt is verified only of a committed operation (`VerifiedIsCommitted`); reports stay true (`ReportsHold`). |
| `local_production` | 1 049 592 | Rehearsal and apply, two overlapping apply calls: all three operations keep the promise, a write has a whole backup, a READY and allowed decision and a complete rehearsal behind it (`WritesOnProof`), receipts stay true (`ReceiptsHold`). |
| `local_production_restart` | violation | See findings. |
| `experiment` | 1 875 102 | Three samples, two overlapping calls, live runs and publications in any order: a shadow task runs once for each side and behind its reservation, and a live sample recorded as dispatched has a published output behind it, by an authorization for this very sample under the role it is reserved for, of a pair that ran (`DispatchesAreBacked`); one is in flight (`OneInFlight`); reservations heed the evidence there is (`EvidenceIsHeeded`). |
| `opencode` | 1 028 193 | Two tasks: the answer to one never completes another (`CompletedIsAnswered`), the second is not sent while the first is worked on, unless operations overlapped or an answer was lost (`OneTaskAtATime`), an answered task does not stay running for ever (`AnswerIsSeen`). |

**Bounds.** Two attempts: the code compares attempts only for order and successor, and a fault across attempts needs two. Two approval ids let a repeated id differ from a new one; two clock values give a reading before and after the last. Two sessions: one per attempt. Two callers, objects, processes, drivers: every race in this code is between two. `MaxFileBytes` is three lines: room for a line below, at and above the ceiling. `Unreliable` names the stores whose appends may throw: the binding store in one of the two runs, the journal and the ledger in the other, all of them in the theorems. `execution_*` use no approvals and one clock value: the integrity code looks at neither. Three steps are enough for every shape the engine tells apart (a dependency with and without others in its group, a join, a fork, a step behind a stuck one), and two attempts for a retry with a call left over. The broker's ceiling of three attempts leaves room for a first, a middle and a last one. Six tools let a tool be duplicated, useless, mutating in either sense, and more useful alone than together. Two callers in `side_effects` and two samples, the least number whose counters have an order, with a third operation that publishes one of them again; one journal object at a time, because with two on a file both can pass every check before either writes, and `AskedOnce` then depends on the sink: the store asks for a single writer. Its operations are publications; a restore differs only in its authority and in being shown to the promotion, and is left to the theorems. In `routing_mutation` each caller has a process and a journal object of its own; two calls of one process on one object are an observation below. `local_production` has one authorized operation, because operations do not look at each other's events, two calls, because an execute may race a recovery or another execute, and two flaws of an evidence document, because readiness tells an unrestorable adapter from any other flaw. The experiment's three samples are one shadow and two live ones, of which one may be the candidate's: the least budget in which every counter can be exceeded; of the four drafts two are authorized, one for each role and reading, so that an old authorization stands next to a new one, and two are not, one for its counters and one for its statistics. One run for each side, which may be verified at two times, and `MaxPublications` of two: a first publication and its repetition, or one for each sample. Two tasks in `opencode`: one whose evidence may be taken for the other's. (For `OneTaskAtATime` two were too few: see the observations and section 4.) `CHECK_DEADLOCK FALSE` everywhere, because a cancelled or succeeded run, an unreadable file, or a bound is a legitimate end. Drivers and sessions, samples and callers are symmetric, and in `routing_mutation` the two processes, each a caller together with its journal object; the runs that check a liveness property use no symmetry.

**Fairness** is assumed only in the modules' `FairSpec`. Of the engine and the broker it is assumed that the event loop runs what is due and that timers fire; an executor has to answer only where its step has no timeout (the engine then waits for it without limit), a tool source never. The health and version checks before the first attempt are awaited without a timer, and nothing is assumed of them; `Returns` therefore speaks of invocations whose first attempt has begun. Of the OpenCode adapter it is assumed that the requests of the driver end (the client bounds each with a timeout), that the driver goes on polling, the only way the adapter has to tell a caller anything, and that a status or messages request asked again and again is answered at some time; the provider may stay silent about everything else and report busy for ever. Nothing else is assumed of callers, providers or verifiers.

### Finding

`local_production_restart`. `docs/M5_LOCAL_PRODUCTION_ROUTING_APPLY.md:42` promises that recovery "verifies historical rehearsal provenance without requiring the current production bytes to still equal the pre-apply bytes". `recover` asks the rehearsal journal for that provenance (`local-production-routing-apply.ts:1146`), and a process that starts again has to open it first: `load` (`local-production-adapter-rehearsal.ts:659`) compares production with the fingerprint taken before the apply, finds the authorized change, appends `manual_reconciliation_required` and throws. From then on every recovery and every receipt verification of the change is refused. Shortest trace: rehearse, seal, execute up to the rename, crash, open. The tests reopen only the apply journal.

### Observations

Behaviour met while modelling that a reader of the code may want to know of; where a text of the repository speaks of it, it is quoted.

Workflow, stores, integrity:

- A run that fails while it waits for approval keeps its phase; retry and then `advance` take it to publish without an approval. `approvalIds` then stays empty.
- An outdated `advance` or `approve` resumes a run that was paused meanwhile; an outdated `start` may act as an `advance`.
- The ledger's record has no attempt: the record of a failed attempt passes for that of a later one that fails for the same reason, and once a record is written a retried run that ends otherwise needs manual intervention for good.
- When `bind` throws after writing, the cleanup destroys a session that the reopened binding file names.
- One torn line makes a file unreadable until it is repaired by hand.
- Two processes on one file may both append line 1; the file can then not be opened, and nothing acknowledged is lost (`AckedIsNeverLost`). The stores ask for a single writer.
- `load()` admits what it reads without a flush: after a failed flush or a crash before it, the reopened binding store reports an entry that a power loss removes (`docs/WORKFLOW_RECOVERY.md:62`: "file `fsync` before in-process admission").
- A failed attempt may be finalized and then retried; when the second attempt is bound and fails for the same reason, `inspect` answers `record_runtime_binding_milestone`, and `recordRuntimeBound` throws because the journal is already finalized (`docs/EXECUTION_INTEGRITY.md:118`: "recoverable through explicit control-plane actions"). `RepairsAreAccepted` excludes this case.

Engine and broker:

- A plan with a cycle of dependencies ends as succeeded with none of those steps run. Steps behind a timed-out step, or two steps behind a failed one, end without a status.
- The engine's loop does not look at the abort signal: after an abort the next steps and retries still start, and an attempt with a timeout gets a signal that is not aborted.
- Duplicate tool ids are looked for among the tools discovered at that moment ("quarantined rather than selected arbitrarily", `docs/VNEXT_IMPLEMENTATION_STATUS.md:68`): while one source is down, its twin in another source is granted.
- The selection is greedy: it can grant three tools where two would cover the same ("the smallest capability set", `tests/tool-broker.test.mjs:46`).
- `invoke` awaits the source's `health()` and `version()` with no timer and no look at the abort signal (`tool-broker.ts:231`): a source that never answers them holds the invocation for ever, whatever timeout the caller set.
- In the broker, a tool whose timeout is retried runs next to the call that timed out. That is what opting in means for a tool declared safe, but nothing stops the older call.

Side effects and experiments:

- A recovery probe may find nothing and report `explicit_retry_eligible` while the request is still on its way, and the effect lands later; `ReportsHold` therefore speaks of operations with nothing under way. A probe also sees effects the sink has not saved, which a restart of the sink undoes.
- An operation that ends in an error, or whose process dies, bars every later one for good; `reconcile` only reports.
- The side-effect journal compares the size before its digests are awaited and not again before the write ("changed outside this writer; reopen before writing"): when one `reserve` writes its line and throws in `fsyncSync`, a second one already past the check appends a line with the same number and goes on to ask its sink; the file can no longer be opened. The experiment's journal and the apply journal are written in the same way.
- The bounded executor is described as sequential, but nothing keeps its calls apart: overlapping calls can exceed a budget by the number of callers less one, decide on a guardrail reading that is no longer true, put a shadow sample after a live one, or reserve a live sample on counters that are no longer true. `EvidenceIsHeeded` therefore speaks of reservations no other event came before.
- A live sample's dispatch and publication consult neither the experiment's journal nor each other. `dispatch` keeps the same workflow runs from being bound twice, not the sample. `publish` checks the authorization and the selected side's result; the operation's id is made of both, so after a committed publication the same run, verified again at another time, is published again by the same authorization, and a sample that was never reserved, or whose other side failed, can be published. Only `recordPublishedDispatch` looks at the pair, after the effect. `DispatchesAreBacked` therefore speaks of what the journal records, not of how often something was shown.
- Of the reservation `recordPublishedDispatch` compares the sample and whether the candidate's output may be visible: a sample reserved for the shadow can be recorded by a publication of its reference side.
- A live sample's authorization carries the reading its caller brought. `reserve` compares its three counters with the journal again, but not whether the statistics meet a stop condition: that a breach stops live samples rests on an honest caller, and `EvidenceIsHeeded` claims it of shadow samples only. A rollback authorization may be old when the restore begins.
- The promotion reads the side-effect journal, never the experiment's: a sample that was published twice, or without a reservation, is promoted as well, with one of its operations shown. Final counters are the caller's, the statistics must be those of the admission decision, and live samples after the covered prefix, or a restore, can be left out by the caller. The route snapshot is a document of the caller's.

Routing changes:

- Two overlapping calls of one process on one journal object both reserve and write the same authorization (`docs/M5_ISOLATED_ROUTING_MUTATION_RECOVERY.md`: "An authorization/operation cannot be used twice."); with an object for each process, which the run has, they do not. A `reconcile` that overlaps an `apply` may record `not_applied` and the apply still writes.
- To reconcile an older operation after a newer one changed the route finds drift, records `manual` and blocks the journal.
- The readiness decision is verified with the isolated receipt at every rehearsal call, every rehearsal line and every verification of the apply, recovery included: later activity on the isolated route blocks even the recovery of the production change. Its snapshots of target and source are documents of the caller's.
- A rehearsal operation found not to be applied stays reserved for ever. Reconciling or finalizing a rehearsal after the apply takes the authorized change for drift, too.
- A program that writes production between the last comparison and the rename is overwritten. When `recover` overlaps `execute` it may record `not_applied_safe` and the write still takes place; `ReceiptsHold` speaks of verdicts with no other call at work.
- If the commit line was lost and an operator restores the reference before `recover`, it reports `NOT_APPLIED_SAFE`; the model lets the operator restore only when no operation waits for a verdict.

OpenCode adapter:

- A prompt that times out although it was taken leaves `failed` and no last task; an approval or an overlapping `getStatus` revives the session, the next task is sent with an empty baseline, and the first one's answer completes it (`tests/opencode-stale-busy.test.mjs:109`: "terminal evidence from a previous task cannot complete a reused session task"). Two overlapping first `sendTask`s do the same. `mixed` excludes both from the properties.
- Such a lost answer can, without any overlap, lead to a prompt on top of another: the first task's answer is lost, an approval revives the session, the second task is sent with the empty baseline, the first one's answer completes it, and a third one is sent while the second is worked on. It takes three tasks; the attempt to prove `OneTaskAtATime` found it after the run with two had passed a version of the property that did not except it.
- A late `getEvents` can report `waiting_approval` after the permission was answered, and a lost answer to the reply leaves it there for ever. A stale `getStatus` can put `created` or `running` over `destroyed`, `aborted` or `failed`.
- If the provider's busy flag lagged behind a prompt, `getStatus` would free a session that works; the model, like the tests, has it busy at once.

## 4. Proofs

The theorems state every invariant, action property and refinement that a passing run checks, liveness excepted, and hold for every value of the constants that satisfies the modules' `ASSUME`s: sets disjoint from their null values, records of the right type, numbers natural, a budget and a policy the code would accept. The bounds of the runs are gone: any number of callers, processes, attempts, steps, sessions, operations and samples, with no set assumed to be finite but the capabilities one request asks for. Three modules need one more assumption, which is a contract the code states, or the setting in which it is meant to be used; each is a named definition in the proof module, and a hypothesis of the theorems that need it:

| Assumption | Module | Why |
|---|---|---|
| `SingleWriter`, at all times | SideEffectsProofs | the store asks for a single writer: two objects on one file may both pass every check before either writes |
| `SharedProcess` | JsonlStoreProofs, of all but `AckedIsNeverLost` | two processes may both append line 1, and the file is then unreadable with no line torn |
| `OwnObjects` | RoutingMutationProofs | two calls on one journal object may both write the same authorization (see the observations) |

**DurableWorkflowProofs.** `Persistable`, that a store accepts whatever the methods return, is not inductive: that a new approval does not repeat an id holds because a run is approved at most once, which holds because a run with an approval has reached publish and no method leaves it. `Shape` says what a run in each status looks like, one method at a time. The durable workflow needs more: the line that a failed checkpoint left may follow the stored run (`DurableInv`), or reopening could jump anywhere. With it every step is a step of the machine or leaves the run unchanged (`DurableImplementsMachine`), and `Persistable`, `ApprovedOnce` and `Progresses`, which have no run of their own, hold of the stored run. What a call on an outdated copy may do rests on `HeldInv`: a copy is what the stored run once was (`Past`), and within one attempt a run does not come back to retrying.

**JsonlStoreProofs.** `FileInv`, for any number of processes: the line an object has written stays in the file while the object flushes it (`WrittenIsInFile`), so the flush covers it; later steps extend the flushed prefix or keep it. `HistoryInv`, for the objects of one process: the file is a history of lines that could be loaded, with at most a torn last one; what an object holds is a beginning of it (`StoresFollow`); one object at a time is inside `append`, and what it checked still holds when it writes (`AppendsFollow`). Then only a torn line makes the file unreadable, and every step is one of DurableHistory.

**ExecutionIntegrityProofs.** No store knows of the others, and calls hold what they read before an await. What makes the stores agree is that attempts only grow: what a late call holds is of the present attempt or of one that is over (`CallsFit`), the binding file has one session for each (`BindingsProgress`), and every line of the journal and the ledger's record say what is so, in terms that later attempts do not undo (`JournalIsTrue`, `LedgerIsTrue`). `AgreementIsFinal` is the same invariant seen from a run that has ended.

**ExecutionProofs**, the engine. `EngineInv`: the batch and the waiting list are apart and hold steps without a status, only steps of the batch have a task (`Scheduled`); a retry is planned only while attempts are left (`Budgeted`); a live call is its step's latest attempt, and the step is waiting for it or has timed out (`Tracked`); a started step is approved and what it depends on has succeeded (`Gated`). `GatesHold` speaks of all that a step depends on, near or far: the set of steps whose dependencies were met is closed, and what is upstream of a step is the smallest closed set.

**ExecutionProofs**, the broker. `CoversWhatItCan` is about `select`: the loop is a recursive function, whose existence and values come from least-number arguments, since the library's induction theorems cannot be used. Every iteration adds a tool or finds none useful, the sort has a first element in any set of tools, and the tools asked for by id fit because no two eligible ones share an id. `BrokerInv` is about `invoke`: a call left running was given up by the timer or by the abort that ended the invocation, a timeout is followed by an attempt only when the request asked for it, and a tool not safe to repeat has at most one record, the last.

**ExecutionProofs**, the adapter. `SessionsInv`: tasks are numbered as the provider takes them, and at most one is being sent (`Numbered`); while no task got in the way of another, the provider works on the last one at most, and answers come after what they answer (`InTurn`); the baseline, the adapter's or the one a call holds, divides the messages of the last task from those before it (`Divided`); what was seen of the messages is evidence for the last task or for one being sent (`Evident`); and while operations come one by one and no answer is lost, a session the adapter thinks free does not work (`OneByOne`). It was checked with three tasks (7 470 977 states) before it was proved for all.

**SideEffectsProofs.** `AskedOnce` is not inductive: a call that has reserved has yet to ask, and what keeps others from asking too is that every open journal object knows of the reservation (`EngagedIsKnown`) and that a call about to ask is the first one to (`AsksFirst`). `DoubtIsAlone` needs the same of two operations (`EngagedAlone`). `CommitIsTrue` and `ReportsHold` add where requests and effects are (`RequestsMatchSink`), that a commit follows an answer, and that a report is about an operation in the file.

The promotion comes on top: its steps leave the effects alone, and a step of the effects with its authority is one of SideEffects (`StepsAreEffects`), so that what was proved of these holds here too. An eligible proposal found nothing in doubt, so all its evidence was committed, and a line of the file stays (`PromotionInv`); that the sink has saved it is `CommitIsTrue`. That no live sample is left out is a pigeonhole argument (`CountersRun`): the evidence is finite, because each piece has a line in the file, and distinct counters of which each is the number of the smaller ones are all the numbers below their count. The experiment's journal plays no part.

**ExperimentProofs.** None of the three properties is inductive. The file may be one event ahead of the journal object for a sample, and a sample is not reserved twice because only one for which nothing was run can be behind by a reservation (`JournalInv`). A call on its way knows its sample, the one that may still run it is the only one, and one about to record a dispatch has what backs it: both shadow tasks sent, or a receipt of a publication for this sample (`CallFits`, `CallsInv`). Nothing is known of the runs and publications themselves but that they only grow, so that what backed a record once backs it for good; that no run is dispatched or published twice is neither true nor needed. A call that judges holds a reading that is exact unless an event was written since (`EvidenceFits`).

**RoutingMutationProofs.** No one journal object keeps a second process from writing for an authorization again. An object that has not seen the reservation finds the file longer than it expects, before it writes or when it reads its own line back; of several that wrote, only the last can be satisfied, and only if it was the first to write since it looked (`LastWriterAlone`). So one reservation counts and leads to one change (`ReservedOnce`, `WritesAreKnown`). An operation that a call found not to be applied, with nobody else at work on it, is dead and stays so (`DeadStays`), which makes reports true for ever.

**LocalProductionProofs.** The reservation does not keep two `execute`s apart: both may have found the journal empty before either wrote. What does is the temporary file, of which there is one, with the look at production that is taken while it is held; once a call has renamed it, no call under way meets the reference again, because a backup is restored only when none is. `ProductionInv` adds to this what the rehearsal's lines and its clone say of each other, and what a call's documents prove. `ReceiptsHold`, `WritesOnProof` and the refinement to AuthorizedMutation, for both rehearsal operations and the apply, follow.

Three properties stay with TLC: `Terminates`, `Returns` and `AnswerIsSeen` are liveness under fairness, which the prover does not reach. `RestartKeepsHistory` is the finding, and false. Attempts at proofs corrected two definitions that the runs had let pass: `OneTaskAtATime` (see the observations), and `CoversLiveSamples`, which takes the samples in the order of their counters, as the code does. No module here uses RECURSIVE operators.

## 5. Plan

What is left are the EvidenceGate and the risk policy as operators, where a property needs them, and the parts below.

Not modelled, and why: the worktree manager (a model of git, not of this code), scoring and statistics (floating point), digests and document assembly (a model would be the identity; the modules use equality of content instead), the provider clients, publication to GitHub, formatting, telemetry, the command line, the pages under `docs/` and `evals/`, and the proof scripts under `scripts/`, which drive the modelled components.
