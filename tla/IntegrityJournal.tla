-------------------------- MODULE IntegrityJournal --------------------------
(***************************************************************************)
(* The entries of ExecutionIntegrityJournal about one workflow run and the *)
(* order they may come in.  An entry carries the fields of its stage; the  *)
(* others have fixed values.  Evidence is reduced to the verdict it proves, *)
(* and timestamps are left out: the clock of one process does not run back. *)
(***************************************************************************)
EXTENDS Naturals, Sequences

CONSTANTS
  Sessions,    \* runtime sessions
  NoSession    \* not a session

ASSUME JournalAssumption == NoSession \notin Sessions

Stages == {"runtime_bound", "verification_recorded",
           "workflow_terminal", "ledger_finalized"}

Outcomes == {"failed", "cancelled", "succeeded"}

JournalEntries ==
  [stage : Stages, attempt : Nat \ {0}, sessionId : Sessions \union {NoSession},
   passed : BOOLEAN, outcome : Outcomes \union {"none"}]

RuntimeBound(attempt, x) ==
  [stage |-> "runtime_bound", attempt |-> attempt, sessionId |-> x,
   passed |-> FALSE, outcome |-> "none"]

VerificationRecorded(attempt, x, passed) ==
  [stage |-> "verification_recorded", attempt |-> attempt, sessionId |-> x,
   passed |-> passed, outcome |-> "none"]

WorkflowTerminal(attempt, status) ==
  [stage |-> "workflow_terminal", attempt |-> attempt, sessionId |-> NoSession,
   passed |-> FALSE, outcome |-> status]

LedgerFinalized(attempt, outcome) ==
  [stage |-> "ledger_finalized", attempt |-> attempt, sessionId |-> NoSession,
   passed |-> FALSE, outcome |-> outcome]

\* The entries of a stage and an attempt, as a set.
EntriesFor(journal, stage, attempt) ==
  {journal[n] : n \in {m \in DOMAIN journal : /\ journal[m].stage = stage
                                              /\ journal[m].attempt = attempt}}

HasStage(journal, stage, attempt) == EntriesFor(journal, stage, attempt) # {}

Finalized(journal) ==
  \E n \in DOMAIN journal : journal[n].stage = "ledger_finalized"

HasPassed(journal, attempt) ==
  \E e \in EntriesFor(journal, "verification_recorded", attempt) : e.passed

\* Fault: a stage may be recorded once per run, not once per attempt.
ProgressionOncePerRun(journal, next) ==
  /\ ~Finalized(journal)
  /\ \A n \in DOMAIN journal : /\ journal[n].attempt <= next.attempt
                               /\ journal[n].stage # next.stage
  /\ next.stage # "runtime_bound"
       => HasStage(journal, "runtime_bound", next.attempt)
  /\ next.stage = "verification_recorded"
       => ~HasStage(journal, "workflow_terminal", next.attempt)
  /\ next.stage = "workflow_terminal" /\ next.outcome = "succeeded"
       => HasPassed(journal, next.attempt)
  /\ next.stage = "ledger_finalized"
       => \E e \in EntriesFor(journal, "workflow_terminal", next.attempt) :
            e.outcome = next.outcome

\* assertIntegrityProgression does not throw.
IntegrityProgression(journal, next) ==
  /\ ~Finalized(journal)
  /\ \A n \in DOMAIN journal : journal[n].attempt <= next.attempt
  /\ ~HasStage(journal, next.stage, next.attempt)
  /\ next.stage = "runtime_bound"
       => \A n \in DOMAIN journal : journal[n].attempt < next.attempt
  /\ next.stage # "runtime_bound"
       => HasStage(journal, "runtime_bound", next.attempt)
  /\ next.stage = "verification_recorded"
       => ~HasStage(journal, "workflow_terminal", next.attempt)
  /\ next.stage = "workflow_terminal" /\ next.outcome = "succeeded"
       => HasPassed(journal, next.attempt)
  /\ next.stage = "ledger_finalized"
       => \E e \in EntriesFor(journal, "workflow_terminal", next.attempt) :
            e.outcome = next.outcome
=============================================================================
