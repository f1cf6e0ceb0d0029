----------------------------- MODULE JsonlStore -----------------------------
(***************************************************************************)
(* The local persistence every durable component of the router shares:     *)
(* an append-only JSON Lines file, opened by store objects that keep the    *)
(* parsed entries in memory.  JsonlWorkflowCheckpointStore,                 *)
(* JsonlRuntimeBindingStore, JsonlExecutionIntegrityJournal and             *)
(* JsonlRunLedger have the same constructor, load, append and              *)
(* assertStorageUnchanged; they differ in what an entry is and which entry *)
(* may follow which (Admissible), and in that the ledger's lines carry no  *)
(* sequence number (Sequenced).                                            *)
(*                                                                         *)
(* Appending is one synchronous call, so two objects of one process never  *)
(* interleave inside it, but those of two processes do.  A write may be cut *)
(* short, a flush may fail, a process may die between any two system       *)
(* calls, and a power loss takes what was never flushed.                   *)
(*                                                                         *)
(* A line has length 1, whatever its bytes: sizes count lines, and a torn   *)
(* line is a piece of file that ends the last line without a newline.  The *)
(* per-record byte ceiling is a check on the caller's argument alone and    *)
(* belongs to Admissible.                                                   *)
(***************************************************************************)
EXTENDS Naturals, Sequences

CONSTANTS
  Stores,             \* store objects
  Processes,          \* operating-system processes
  ProcessOf,          \* the process a store object lives in
  Entries,            \* what callers may append
  Admissible(_, _),   \* Admissible(log, e): e may follow the entries log
  Sequenced,          \* do lines carry sequence numbers?
  MaxFileBytes,       \* the caller's ceiling on the file
  Torn                \* an incomplete line

Lines == [sequence : Nat, entry : Entries]

ASSUME StoreAssumption ==
  /\ ProcessOf \in [Stores -> Processes]
  /\ Sequenced \in BOOLEAN
  /\ MaxFileBytes \in Nat \ {0}
  /\ Torn \notin Lines

VARIABLES
  file,     \* the file as the operating system shows it
  flushed,  \* the length of the prefix of it that survives a power loss
  store,    \* each object: open or not, and its private fields
  pc,       \* where each object is inside append()
  pending,  \* the line each object is appending
  acked     \* history variable: the lines whose append() returned, by position

vars == << file, flushed, store, pc, pending, acked >>

Closed == [open |-> FALSE, log |-> << >>, expectedFileSize |-> 0,
           nextSequence |-> 1]

NoLine == << >>

EntriesOf(lines) == [n \in DOMAIN lines |-> lines[n].entry]

Init ==
  /\ file = << >>
  /\ flushed = 0
  /\ store = [s \in Stores |-> Closed]
  /\ pc = [s \in Stores |-> "idle"]
  /\ pending = [s \in Stores |-> NoLine]
  /\ acked = {}

\* No object of s's process is inside append(): its event loop is free.
ProcessFree(s) == \A t \in Stores : ProcessOf[t] = ProcessOf[s] => pc[t] = "idle"

-----------------------------------------------------------------------------
(* The constructor. *)

\* load() accepts the lines: complete, within bounds, in sequence, and each
\* admissible after the ones before it.
Loadable(lines) ==
  /\ Len(lines) <= MaxFileBytes
  /\ \A n \in DOMAIN lines : lines[n] # Torn
  /\ \A n \in DOMAIN lines :
       /\ Sequenced => lines[n].sequence = n
       /\ Admissible(EntriesOf(SubSeq(lines, 1, n - 1)), lines[n].entry)

\* new Jsonl...(options).  When load() throws there is no object.
Open(s) ==
  /\ ~store[s].open
  /\ ProcessFree(s)
  /\ Loadable(file)
  /\ store' = [store EXCEPT ![s] =
                 [open |-> TRUE, log |-> EntriesOf(file),
                  expectedFileSize |-> Len(file),
                  nextSequence |-> Len(file) + 1]]
  /\ UNCHANGED << file, flushed, pc, pending, acked >>

-----------------------------------------------------------------------------
(* append(), checkpoint() or bind(). *)

\* Shared by the faulty forms of BeginAppend below: what is checked is given.
BeginAppendIf(s, e, checked) ==
  /\ store[s].open
  /\ ProcessFree(s)
  /\ checked
  /\ pc' = [pc EXCEPT ![s] = "writing"]
  /\ pending' = [pending EXCEPT ![s] = [sequence |-> store[s].nextSequence,
                                        entry |-> e]]
  /\ UNCHANGED << file, flushed, store, acked >>

\* Fault: the entry is not checked against the history.
BeginAppendUnvalidated(s, e) ==
  BeginAppendIf(s, e, /\ Len(file) = store[s].expectedFileSize
                      /\ store[s].expectedFileSize + 1 <= MaxFileBytes)

\* Fault: the size of the new line is not counted.
BeginAppendOneTooMany(s, e) ==
  BeginAppendIf(s, e, /\ Len(file) = store[s].expectedFileSize
                      /\ Admissible(store[s].log, e)
                      /\ store[s].expectedFileSize <= MaxFileBytes)

\* The checks.  A call that fails one throws and changes nothing.
BeginAppend(s, e) ==
  /\ store[s].open
  /\ ProcessFree(s)
  /\ Len(file) = store[s].expectedFileSize
  /\ Admissible(store[s].log, e)
  /\ store[s].expectedFileSize + 1 <= MaxFileBytes
  /\ pc' = [pc EXCEPT ![s] = "writing"]
  /\ pending' = [pending EXCEPT ![s] = [sequence |-> store[s].nextSequence,
                                        entry |-> e]]
  /\ UNCHANGED << file, flushed, store, acked >>

\* writeFileSync on a handle opened for appending.
Write(s) ==
  /\ pc[s] = "writing"
  /\ file' = Append(file, pending[s])
  /\ pc' = [pc EXCEPT ![s] = "syncing"]
  /\ UNCHANGED << flushed, store, pending, acked >>

\* openSync or writeFileSync throws, perhaps after writing part of the line.
WriteFails(s) ==
  /\ pc[s] = "writing"
  /\ file' \in {file, Append(file, Torn)}
  /\ pc' = [pc EXCEPT ![s] = "idle"]
  /\ pending' = [pending EXCEPT ![s] = NoLine]
  /\ UNCHANGED << flushed, store, acked >>

\* Fault: the call returns without fsyncSync.
SyncWithoutFlush(s) ==
  /\ pc[s] = "syncing"
  /\ store' = [store EXCEPT ![s] =
                 [open |-> TRUE,
                  log |-> Append(store[s].log, pending[s].entry),
                  expectedFileSize |-> store[s].expectedFileSize + 1,
                  nextSequence |-> store[s].nextSequence + 1]]
  /\ acked' = acked \union {<< store[s].expectedFileSize + 1, pending[s] >>}
  /\ pc' = [pc EXCEPT ![s] = "idle"]
  /\ pending' = [pending EXCEPT ![s] = NoLine]
  /\ UNCHANGED << file, flushed >>

\* fsyncSync flushes the whole file; the entry is admitted and the call returns.
Sync(s) ==
  /\ pc[s] = "syncing"
  /\ flushed' = Len(file)
  /\ store' = [store EXCEPT ![s] =
                 [open |-> TRUE,
                  log |-> Append(store[s].log, pending[s].entry),
                  expectedFileSize |-> store[s].expectedFileSize + 1,
                  nextSequence |-> store[s].nextSequence + 1]]
  /\ acked' = acked \union {<< store[s].expectedFileSize + 1, pending[s] >>}
  /\ pc' = [pc EXCEPT ![s] = "idle"]
  /\ pending' = [pending EXCEPT ![s] = NoLine]
  /\ UNCHANGED file

\* fsyncSync throws: the line is in the file, but not in the object.
SyncFails(s) ==
  /\ pc[s] = "syncing"
  /\ pc' = [pc EXCEPT ![s] = "idle"]
  /\ pending' = [pending EXCEPT ![s] = NoLine]
  /\ UNCHANGED << file, flushed, store, acked >>

-----------------------------------------------------------------------------
(* Failures of the environment. *)

\* A process dies, wherever its objects are; the file keeps what was written.
ProcessCrash(p) ==
  LET dead == {s \in Stores : ProcessOf[s] = p} IN
    /\ \E s \in dead : store[s].open
    /\ store' = [s \in Stores |-> IF s \in dead THEN Closed ELSE store[s]]
    /\ pc' = [s \in Stores |-> IF s \in dead THEN "idle" ELSE pc[s]]
    /\ pending' = [s \in Stores |-> IF s \in dead THEN NoLine ELSE pending[s]]
    /\ UNCHANGED << file, flushed, acked >>

\* What may be left of the file once its unflushed part is lost, possibly in
\* the middle of a line.
Remains ==
  {SubSeq(file, 1, n) : n \in flushed..Len(file)} \union
  {Append(SubSeq(file, 1, n), Torn) : n \in {m \in flushed..Len(file) : m < Len(file)}}

PowerLoss ==
  /\ \E s \in Stores : store[s].open
  /\ file' \in Remains
  /\ flushed' = Len(file')
  /\ store' = [s \in Stores |-> Closed]
  /\ pc' = [s \in Stores |-> "idle"]
  /\ pending' = [s \in Stores |-> NoLine]
  /\ UNCHANGED acked

Next ==
  \/ \E s \in Stores :
       \/ Open(s)
       \/ \E e \in Entries : BeginAppend(s, e)
       \/ Write(s) \/ WriteFails(s) \/ Sync(s) \/ SyncFails(s)
  \/ \E p \in Processes : ProcessCrash(p)
  \/ PowerLoss

Spec == Init /\ [][Next]_vars

-----------------------------------------------------------------------------
(* Properties. *)

PendingLines == [sequence : Nat, entry : Entries] \union {NoLine}

\* The values of the variables.
TypeOK ==
  /\ file \in Seq(Lines \union {Torn})
  /\ flushed \in 0..Len(file)
  /\ store \in [Stores -> [open : BOOLEAN, log : Seq(Entries),
                           expectedFileSize : Nat, nextSequence : Nat]]
  /\ pc \in [Stores -> {"idle", "writing", "syncing"}]
  /\ pending \in [Stores -> PendingLines]
  /\ acked \subseteq Nat \X Lines

\* The bytes of a line whose append() returned survive everything, a power
\* loss included: they are in the flushed part of the file.
AckedIsFlushed ==
  \A a \in acked : \E n \in 1..flushed : file[n] = a[2]

\* One process: only a torn line can make the file unreadable.
ReadableUnlessTorn ==
  (\A n \in DOMAIN file : file[n] # Torn) => Loadable(file)

\* The history a reader would find, and how much of it cannot be lost.
WholeLines == IF file # << >> /\ file[Len(file)] = Torn
                THEN SubSeq(file, 1, Len(file) - 1) ELSE file

Promise == INSTANCE DurableHistory WITH
             history <- EntriesOf(WholeLines),
             committed <- IF flushed <= Len(WholeLines)
                            THEN flushed ELSE Len(WholeLines)

\* One process: the store keeps the promise of DurableHistory.
KeepsPromise == Promise!Spec
=============================================================================
