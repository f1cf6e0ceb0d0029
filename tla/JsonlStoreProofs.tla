-------------------------- MODULE JsonlStoreProofs --------------------------
(***************************************************************************)
(* Proofs about JsonlStore for any number of objects and processes and any *)
(* kind of entry: what append() acknowledged is never lost.                *)
(*                                                                         *)
(* AckedIsFlushed is not inductive: that fsync flushes the line of the      *)
(* object that calls it needs that the line is still in the file, though   *)
(* other processes write to it between the write and the flush.  FileInv   *)
(* adds that.                                                              *)
(***************************************************************************)
EXTENDS JsonlStore, SequenceTheorems, TLAPS

FileLines == Lines \union {Torn}

\* What the lemmas need to know of the file and the flushed length.
FileOK == file \in Seq(FileLines) /\ flushed \in Nat /\ flushed <= Len(file)

\* A line being flushed is in the file.
WrittenIsInFile ==
  \A s \in Stores : pc[s] = "syncing" =>
    \E n \in 1..Len(file) : file[n] = pending[s]

\* An object inside append() has a line to append.
PendingOK ==
  \A s \in Stores : pc[s] # "idle" => pending[s] \in Lines

TypeInv == TypeOK /\ PendingOK

FileInv == TypeInv /\ WrittenIsInFile /\ AckedIsFlushed

-----------------------------------------------------------------------------

\* What is left after a power loss has the flushed prefix at its start.
LEMMA RemainsKeepsFlushed ==
  ASSUME FileOK, NEW left \in Remains
  PROVE  /\ left \in Seq(FileLines)
         /\ flushed <= Len(left)
         /\ \A n \in 1..flushed : left[n] = file[n]
<1> USE DEF FileOK, FileLines
<1>1. \A n \in flushed..Len(file) :
        /\ SubSeq(file, 1, n) \in Seq(FileLines)
        /\ Len(SubSeq(file, 1, n)) = n
        /\ \A i \in 1..n : SubSeq(file, 1, n)[i] = file[i]
  OBVIOUS
<1>2. CASE left \in {SubSeq(file, 1, n) : n \in flushed..Len(file)}
  BY <1>1, <1>2
<1>3. CASE left \in {Append(SubSeq(file, 1, n), Torn) :
                      n \in {m \in flushed..Len(file) : m < Len(file)}}
  <2>1. PICK n \in flushed..Len(file) : left = Append(SubSeq(file, 1, n), Torn)
    BY <1>3
  <2>2. /\ SubSeq(file, 1, n) \in Seq(FileLines)
        /\ Len(SubSeq(file, 1, n)) = n
        /\ \A i \in 1..n : SubSeq(file, 1, n)[i] = file[i]
    BY <1>1
  <2>3. /\ left \in Seq(FileLines) /\ Len(left) = n + 1
        /\ \A i \in 1..n : left[i] = SubSeq(file, 1, n)[i]
    BY <2>1, <2>2
  <2> QED BY <2>2, <2>3
<1> QED BY <1>2, <1>3 DEF Remains

\* Appending to the file keeps the lines that were there.
LEMMA AppendKeeps ==
  ASSUME FileOK, NEW line \in FileLines
  PROVE  /\ Append(file, line) \in Seq(FileLines)
         /\ Len(Append(file, line)) = Len(file) + 1
         /\ \A n \in 1..Len(file) : Append(file, line)[n] = file[n]
         /\ Append(file, line)[Len(file) + 1] = line
BY DEF FileOK

\* The entries of a file without torn lines are a sequence of entries.
LEMMA EntriesAreTyped ==
  ASSUME NEW lines \in Seq(FileLines),
         \A n \in DOMAIN lines : lines[n] # Torn
  PROVE  EntriesOf(lines) \in Seq(Entries)
<1>1. DOMAIN lines = 1..Len(lines) /\ Len(lines) \in Nat
  OBVIOUS
<1>2. \A n \in 1..Len(lines) : lines[n].entry \in Entries
  BY <1>1 DEF FileLines, Lines
<1>3. [n \in 1..Len(lines) |-> lines[n].entry] \in [1..Len(lines) -> Entries]
  BY <1>2
<1>4. [n \in 1..Len(lines) |-> lines[n].entry] \in Seq(Entries)
  BY <1>1, <1>3, SeqDef
<1> QED BY <1>1, <1>4 DEF EntriesOf

LEMMA TypeInit == Init => TypeInv
BY StoreAssumption
   DEF Init, TypeInv, TypeOK, PendingOK, Closed, NoLine, PendingLines

\* Every step keeps the types.
LEMMA TypeStep == TypeInv /\ [Next]_vars => TypeInv'
<1> SUFFICES ASSUME TypeInv, [Next]_vars PROVE TypeInv'
  OBVIOUS
<1> USE StoreAssumption DEF TypeInv, TypeOK, PendingOK, PendingLines, Lines
<1>0. FileOK /\ FileLines = Lines \union {Torn}
  BY DEF FileOK, FileLines
<1>1. ASSUME NEW s \in Stores, Open(s) PROVE TypeInv'
  <2>1. EntriesOf(file) \in Seq(Entries)
    BY <1>0, <1>1, EntriesAreTyped DEF Open, Loadable, FileOK
  <2>2. Len(file) \in Nat
    OBVIOUS
  <2> DEFINE opened == [open |-> TRUE, log |-> EntriesOf(file),
                        expectedFileSize |-> Len(file),
                        nextSequence |-> Len(file) + 1]
  <2>3. opened \in [open : BOOLEAN, log : Seq(Entries),
                     expectedFileSize : Nat, nextSequence : Nat]
    BY <2>1, <2>2
  <2>4. store' = [store EXCEPT ![s] = opened]
    BY <1>1 DEF Open
  <2>5. UNCHANGED << file, flushed, pc, pending, acked >>
    BY <1>1 DEF Open
  <2> HIDE DEF opened
  <2> QED BY <2>3, <2>4, <2>5
<1>2. ASSUME NEW s \in Stores, NEW e \in Entries, BeginAppend(s, e) PROVE TypeInv'
  BY <1>2 DEF BeginAppend
<1>3. ASSUME NEW s \in Stores, Write(s) PROVE TypeInv'
  <2>1. pending[s] \in Lines
    BY <1>3 DEF Write
  <2>2. /\ file' \in Seq(FileLines)
        /\ Len(file') = Len(file) + 1
    BY <1>0, <1>3, <2>1, AppendKeeps DEF Write
  <2>3. flushed' \in 0..Len(file')
    BY <1>3, <2>2 DEF Write
  <2>4. pc' \in [Stores -> {"idle", "writing", "syncing"}]
    BY <1>3 DEF Write
  <2>5. \A t \in Stores : pc'[t] # "idle" => pending'[t] \in Lines
    BY <1>3, <2>1 DEF Write
  <2>6. UNCHANGED << store, pending, acked >>
    BY <1>3 DEF Write
  <2> QED BY <1>0, <2>2, <2>3, <2>4, <2>5, <2>6
<1>4. ASSUME NEW s \in Stores, WriteFails(s) PROVE TypeInv'
  <2>1. CASE file' = file
    BY <1>0, <1>4, <2>1 DEF WriteFails
  <2>2. CASE file' = Append(file, Torn)
    <3>1. /\ file' \in Seq(FileLines)
          /\ Len(file') = Len(file) + 1
      BY <1>0, <2>2, AppendKeeps
    <3>2. flushed' \in 0..Len(file')
      BY <1>4, <3>1 DEF WriteFails
    <3>3. pc' \in [Stores -> {"idle", "writing", "syncing"}]
      BY <1>4 DEF WriteFails
    <3>4. pending' \in [Stores -> PendingLines]
      BY <1>4 DEF WriteFails, NoLine
    <3>5. \A t \in Stores : pc'[t] # "idle" => pending'[t] \in Lines
      BY <1>4 DEF WriteFails
    <3>6. UNCHANGED << store, acked >>
      BY <1>4 DEF WriteFails
    <3> QED BY <1>0, <3>1, <3>2, <3>3, <3>4, <3>5, <3>6
  <2> QED BY <1>4, <2>1, <2>2 DEF WriteFails
<1>5. ASSUME NEW s \in Stores, Sync(s) PROVE TypeInv'
  <2>1. pending[s] \in Lines
    BY <1>5 DEF Sync
  <2>2. Append(store[s].log, pending[s].entry) \in Seq(Entries)
    BY <2>1
  <2> DEFINE grown == [open |-> TRUE,
                       log |-> Append(store[s].log, pending[s].entry),
                       expectedFileSize |-> store[s].expectedFileSize + 1,
                       nextSequence |-> store[s].nextSequence + 1]
  <2>3. grown \in [open : BOOLEAN, log : Seq(Entries),
                    expectedFileSize : Nat, nextSequence : Nat]
    BY <2>2
  <2>4. store' = [store EXCEPT ![s] = grown]
    BY <1>5 DEF Sync
  <2> HIDE DEF grown
  <2>5. store' \in [Stores -> [open : BOOLEAN, log : Seq(Entries),
                               expectedFileSize : Nat, nextSequence : Nat]]
    BY <2>3, <2>4
  <2>6. flushed' \in 0..Len(file') /\ file' = file
    BY <1>5 DEF Sync
  <2>7. acked' \subseteq Nat \X Lines
    BY <1>5, <2>1 DEF Sync
  <2>8. /\ pc' \in [Stores -> {"idle", "writing", "syncing"}]
        /\ pending' \in [Stores -> PendingLines]
        /\ \A t \in Stores : pc'[t] # "idle" => pending'[t] \in Lines
    BY <1>5 DEF Sync, NoLine
  <2> QED BY <2>5, <2>6, <2>7, <2>8
<1>6. ASSUME NEW s \in Stores, SyncFails(s) PROVE TypeInv'
  BY <1>6 DEF SyncFails
<1>7. ASSUME NEW p \in Processes, ProcessCrash(p) PROVE TypeInv'
  BY <1>7 DEF ProcessCrash, Closed, NoLine
<1>8. CASE PowerLoss
  <2>1. file' \in Seq(FileLines) /\ flushed' = Len(file')
    BY <1>0, <1>8, RemainsKeepsFlushed DEF PowerLoss
  <2>2. Len(file') \in Nat
    BY <2>1
  <2> QED BY <1>0, <1>8, <2>1, <2>2 DEF PowerLoss, Closed, NoLine
<1>9. CASE UNCHANGED vars
  BY <1>9 DEF vars
<1> QED BY <1>1, <1>2, <1>3, <1>4, <1>5, <1>6, <1>7, <1>8, <1>9 DEF Next

\* The types of all variables.
THEOREM TypeInvariant == Spec => []TypeOK
<1>1. TypeInv => TypeOK
  BY DEF TypeInv
<1> QED BY <1>1, TypeInit, TypeStep, PTL DEF Spec

-----------------------------------------------------------------------------

\* A step that only makes the file longer, and starts no flush, keeps what
\* was written and what was acknowledged.
LEMMA GrowthKeeps ==
  ASSUME FileInv, UNCHANGED << flushed, acked >>,
         Len(file') \in Nat, Len(file) <= Len(file'),
         \A n \in 1..Len(file) : file'[n] = file[n],
         \A s \in Stores : pc'[s] = "syncing" =>
           pc[s] = "syncing" /\ pending'[s] = pending[s]
  PROVE  WrittenIsInFile' /\ AckedIsFlushed'
<1>1. Len(file) \in Nat /\ flushed \in 0..Len(file)
  BY DEF FileInv, TypeInv, TypeOK
<1>2. WrittenIsInFile'
  BY <1>1 DEF FileInv, WrittenIsInFile
<1>3. AckedIsFlushed'
  BY <1>1 DEF FileInv, AckedIsFlushed
<1> QED BY <1>2, <1>3

\* Every step keeps the invariant.
LEMMA FileStep == FileInv /\ [Next]_vars => FileInv'
<1> SUFFICES ASSUME FileInv, [Next]_vars PROVE FileInv'
  OBVIOUS
<1>0. /\ TypeInv /\ TypeInv' /\ FileOK /\ Len(file) \in Nat /\ Len(file') \in Nat
      /\ pc \in [Stores -> {"idle", "writing", "syncing"}]
      /\ pending \in [Stores -> PendingLines]
      /\ FileLines = Lines \union {Torn}
  BY TypeStep DEF FileInv, TypeInv, TypeOK, FileOK, FileLines
<1> SUFFICES WrittenIsInFile' /\ AckedIsFlushed'
  BY <1>0 DEF FileInv
<1>1. ASSUME NEW s \in Stores, Open(s)
      PROVE  WrittenIsInFile' /\ AckedIsFlushed'
  BY <1>0, <1>1, GrowthKeeps DEF Open
<1>2. ASSUME NEW s \in Stores, NEW e \in Entries, BeginAppend(s, e)
      PROVE  WrittenIsInFile' /\ AckedIsFlushed'
  <2>1. \A t \in Stores : pc'[t] = "syncing" =>
          pc[t] = "syncing" /\ pending'[t] = pending[t]
    BY <1>0, <1>2 DEF BeginAppend, ProcessFree
  <2> QED BY <1>0, <1>2, <2>1, GrowthKeeps DEF BeginAppend
<1>3. ASSUME NEW s \in Stores, Write(s)
      PROVE  WrittenIsInFile' /\ AckedIsFlushed'
  <2>1. pending[s] \in FileLines
    BY <1>0, <1>3 DEF Write, TypeInv, PendingOK
  <2>2. /\ Len(file') = Len(file) + 1
        /\ \A n \in 1..Len(file) : file'[n] = file[n]
        /\ file'[Len(file) + 1] = pending[s]
    BY <1>0, <1>3, <2>1, AppendKeeps DEF Write
  <2>3. ASSUME NEW t \in Stores, pc'[t] = "syncing"
        PROVE  \E n \in 1..Len(file') : file'[n] = pending'[t]
    <3>1. CASE t = s
      BY <1>0, <1>3, <2>2, <3>1 DEF Write
    <3>2. CASE t # s
      <4>1. pc[t] = "syncing" /\ pending'[t] = pending[t]
        BY <1>0, <1>3, <2>3, <3>2 DEF Write
      <4>2. PICK n \in 1..Len(file) : file[n] = pending[t]
        BY <4>1 DEF FileInv, WrittenIsInFile
      <4> QED BY <1>0, <2>2, <4>1, <4>2
    <3> QED BY <3>1, <3>2
  <2>4. AckedIsFlushed'
    BY <1>0, <1>3, <2>2 DEF Write, FileInv, AckedIsFlushed, FileOK
  <2> QED BY <2>3, <2>4 DEF WrittenIsInFile
<1>4. ASSUME NEW s \in Stores, WriteFails(s)
      PROVE  WrittenIsInFile' /\ AckedIsFlushed'
  <2>1. /\ Len(file) <= Len(file')
        /\ \A n \in 1..Len(file) : file'[n] = file[n]
    BY <1>0, <1>4, AppendKeeps DEF WriteFails
  <2>2. \A t \in Stores : pc'[t] = "syncing" =>
          pc[t] = "syncing" /\ pending'[t] = pending[t]
    BY <1>0, <1>4 DEF WriteFails
  <2> QED BY <1>0, <1>4, <2>1, <2>2, GrowthKeeps DEF WriteFails
<1>5. ASSUME NEW s \in Stores, Sync(s)
      PROVE  WrittenIsInFile' /\ AckedIsFlushed'
  <2>1. PICK n \in 1..Len(file) : file[n] = pending[s]
    BY <1>5 DEF Sync, FileInv, WrittenIsInFile
  <2>2. flushed' = Len(file) /\ file' = file
    BY <1>5 DEF Sync
  <2>3. AckedIsFlushed'
    <3> SUFFICES ASSUME NEW a \in acked'
                 PROVE  \E m \in 1..flushed' : file'[m] = a[2]
      BY DEF AckedIsFlushed
    <3>1. CASE a \in acked
      BY <1>0, <2>2, <3>1 DEF FileInv, AckedIsFlushed, FileOK
    <3>2. CASE a = << store[s].expectedFileSize + 1, pending[s] >>
      BY <2>1, <2>2, <3>2
    <3> QED BY <1>5, <3>1, <3>2 DEF Sync
  <2>4. \A t \in Stores : pc'[t] = "syncing" =>
          pc[t] = "syncing" /\ pending'[t] = pending[t]
    BY <1>0, <1>5 DEF Sync
  <2>5. WrittenIsInFile'
    BY <2>2, <2>4 DEF FileInv, WrittenIsInFile
  <2> QED BY <2>3, <2>5
<1>6. ASSUME NEW s \in Stores, SyncFails(s)
      PROVE  WrittenIsInFile' /\ AckedIsFlushed'
  <2>1. \A t \in Stores : pc'[t] = "syncing" =>
          pc[t] = "syncing" /\ pending'[t] = pending[t]
    BY <1>0, <1>6 DEF SyncFails
  <2> QED BY <1>0, <1>6, <2>1, GrowthKeeps DEF SyncFails
<1>7. ASSUME NEW p \in Processes, ProcessCrash(p)
      PROVE  WrittenIsInFile' /\ AckedIsFlushed'
  <2>1. \A t \in Stores : pc'[t] = "syncing" =>
          pc[t] = "syncing" /\ pending'[t] = pending[t]
    BY <1>0, <1>7 DEF ProcessCrash
  <2> QED BY <1>0, <1>7, <2>1, GrowthKeeps DEF ProcessCrash
<1>8. CASE PowerLoss
  <2>1. /\ flushed <= flushed'
        /\ \A n \in 1..flushed : file'[n] = file[n]
    BY <1>0, <1>8, RemainsKeepsFlushed DEF PowerLoss
  <2>2. AckedIsFlushed'
    <3>1. flushed \in Nat /\ flushed' \in Nat
      BY <1>0, <1>8 DEF FileOK, PowerLoss
    <3> QED BY <1>8, <2>1, <3>1 DEF PowerLoss, FileInv, AckedIsFlushed
  <2>3. WrittenIsInFile'
    BY <1>8 DEF PowerLoss, WrittenIsInFile
  <2> QED BY <2>2, <2>3
<1>9. CASE UNCHANGED vars
  BY <1>9 DEF vars, FileInv, WrittenIsInFile, AckedIsFlushed
<1> QED BY <1>1, <1>2, <1>3, <1>4, <1>5, <1>6, <1>7, <1>8, <1>9 DEF Next

\* A line whose append() returned is never lost, even when several processes
\* race on the file against the single-writer contract.
THEOREM AckedIsNeverLost == Spec => []AckedIsFlushed
<1>1. Init => FileInv
  BY TypeInit DEF Init, FileInv, WrittenIsInFile, AckedIsFlushed
<1>2. FileInv => AckedIsFlushed
  BY DEF FileInv
<1> QED BY <1>1, <1>2, FileStep, PTL DEF Spec
-----------------------------------------------------------------------------
(* One process *)

\* All objects live in the same process, the single writer the code asks for.
SharedProcess == \A s, t \in Stores : ProcessOf[s] = ProcessOf[t]

\* The lines of a file but for a torn one at its end.
Whole(lines) ==
  IF lines # << >> /\ lines[Len(lines)] = Torn
  THEN SubSeq(lines, 1, Len(lines) - 1) ELSE lines

\* A line load() would accept after lines.
MayFollow(line, lines) ==
  /\ Len(lines) + 1 <= MaxFileBytes
  /\ Sequenced => line.sequence = Len(lines) + 1
  /\ Admissible(EntriesOf(lines), line.entry)

\* What an object has in memory is the beginning of the file.
StoresFollow ==
  \A s \in Stores : store[s].open =>
    /\ store[s].expectedFileSize <= Len(WholeLines)
    /\ store[s].log = EntriesOf(SubSeq(WholeLines, 1, store[s].expectedFileSize))
    /\ store[s].nextSequence = store[s].expectedFileSize + 1

\* One object at a time is inside append(); what was checked of its line still
\* holds when the line is written, and the written line is the last.
AppendsFollow ==
  \A s \in Stores : pc[s] # "idle" =>
    /\ store[s].open
    /\ \A t \in Stores : pc[t] # "idle" => t = s
    /\ pc[s] = "writing" =>
         Len(file) = store[s].expectedFileSize /\ MayFollow(pending[s], file)
    /\ pc[s] = "syncing" =>
         Len(file) = store[s].expectedFileSize + 1 /\ file[Len(file)] = pending[s]

HistoryInv == TypeInv /\ Loadable(WholeLines) /\ StoresFollow /\ AppendsFollow

-----------------------------------------------------------------------------
(* Beginnings of sequences *)

LEMMA PrefixProperties ==
  ASSUME NEW S, NEW lines \in Seq(S), NEW n \in 0..Len(lines)
  PROVE  /\ SubSeq(lines, 1, n) \in Seq(S)
         /\ Len(SubSeq(lines, 1, n)) = n
         /\ \A i \in 1..n : SubSeq(lines, 1, n)[i] = lines[i]
<1>1. Len(lines) \in Nat /\ \A i \in 1..n : lines[i] \in S
  OBVIOUS
<1> QED BY <1>1, SubSeqProperties

\* What is appended to a sequence does not change its beginnings.
LEMMA PrefixOfAppend ==
  ASSUME NEW S, NEW lines \in Seq(S), NEW line \in S, NEW n \in 0..Len(lines)
  PROVE  SubSeq(Append(lines, line), 1, n) = SubSeq(lines, 1, n)
<1>1. /\ Append(lines, line) \in Seq(S)
      /\ Len(Append(lines, line)) = Len(lines) + 1
      /\ \A i \in 1..Len(lines) : Append(lines, line)[i] = lines[i]
  BY AppendProperties
<1>2. n \in 0..Len(Append(lines, line)) /\ Len(lines) \in Nat
  BY <1>1
<1>3. /\ SubSeq(Append(lines, line), 1, n) \in Seq(S)
      /\ Len(SubSeq(Append(lines, line), 1, n)) = n
      /\ \A i \in 1..n : SubSeq(Append(lines, line), 1, n)[i] = Append(lines, line)[i]
  BY <1>1, <1>2, PrefixProperties
<1>4. /\ SubSeq(lines, 1, n) \in Seq(S)
      /\ Len(SubSeq(lines, 1, n)) = n
      /\ \A i \in 1..n : SubSeq(lines, 1, n)[i] = lines[i]
  BY PrefixProperties
<1> QED BY <1>1, <1>2, <1>3, <1>4, SeqEqual

\* The beginning of a beginning is one of the whole.
LEMMA PrefixOfPrefix ==
  ASSUME NEW S, NEW lines \in Seq(S), NEW n \in 0..Len(lines), NEW m \in 0..n
  PROVE  SubSeq(SubSeq(lines, 1, n), 1, m) = SubSeq(lines, 1, m)
<1>1. m \in 0..Len(lines) /\ Len(lines) \in Nat
  OBVIOUS
<1> DEFINE start == SubSeq(lines, 1, n)
<1>2. start \in Seq(S) /\ Len(start) = n /\ \A i \in 1..n : start[i] = lines[i]
  BY PrefixProperties
<1>3. /\ SubSeq(lines, 1, m) \in Seq(S)
      /\ Len(SubSeq(lines, 1, m)) = m
      /\ \A i \in 1..m : SubSeq(lines, 1, m)[i] = lines[i]
  BY <1>1, PrefixProperties
<1> HIDE DEF start
<1>4. /\ SubSeq(start, 1, m) \in Seq(S)
      /\ Len(SubSeq(start, 1, m)) = m
      /\ \A i \in 1..m : SubSeq(start, 1, m)[i] = start[i]
  BY <1>2, PrefixProperties
<1>5. SubSeq(start, 1, m) = SubSeq(lines, 1, m)
  BY <1>2, <1>3, <1>4, SeqEqual
<1> QED BY <1>5 DEF start

\* The entries of lines none of which is torn.
LEMMA EntriesOfLines ==
  ASSUME NEW lines \in Seq(Lines)
  PROVE  /\ EntriesOf(lines) \in Seq(Entries)
         /\ Len(EntriesOf(lines)) = Len(lines)
         /\ \A i \in 1..Len(lines) : EntriesOf(lines)[i] = lines[i].entry
<1>1. lines \in Seq(FileLines) /\ DOMAIN lines = 1..Len(lines) /\ Len(lines) \in Nat
  BY SeqMonotonic, LenProperties DEF FileLines
<1>2. \A i \in 1..Len(lines) : lines[i] \in Lines
  BY ElementOfSeq
<1>3. EntriesOf(lines) \in Seq(Entries)
  BY <1>1, <1>2, StoreAssumption, EntriesAreTyped
<1> QED BY <1>1, <1>3 DEF EntriesOf

\* The entries of a longer, and of a shorter, file.
LEMMA EntriesOfAppend ==
  ASSUME NEW lines \in Seq(Lines), NEW line \in Lines
  PROVE  EntriesOf(Append(lines, line)) = Append(EntriesOf(lines), line.entry)
<1> DEFINE grown == Append(lines, line)
           more == Append(EntriesOf(lines), line.entry)
<1>1. /\ grown \in Seq(Lines) /\ Len(grown) = Len(lines) + 1 /\ Len(lines) \in Nat
      /\ \A i \in 1..Len(lines) : grown[i] = lines[i]
      /\ grown[Len(lines) + 1] = line
  BY AppendProperties
<1>2. line.entry \in Entries
  BY DEF Lines
<1>3. /\ more \in Seq(Entries) /\ Len(more) = Len(lines) + 1
      /\ \A i \in 1..Len(lines) : more[i] = lines[i].entry
      /\ more[Len(lines) + 1] = line.entry
  BY <1>2, EntriesOfLines, AppendProperties
<1> HIDE DEF grown, more
<1>4. /\ EntriesOf(grown) \in Seq(Entries)
      /\ Len(EntriesOf(grown)) = Len(lines) + 1
      /\ \A i \in 1..Len(grown) : EntriesOf(grown)[i] = grown[i].entry
  BY <1>1, EntriesOfLines
<1>5. \A i \in 1..Len(grown) : EntriesOf(grown)[i] = more[i]
  BY <1>1, <1>3, <1>4
<1>6. EntriesOf(grown) = more
  BY <1>1, <1>3, <1>4, <1>5, SeqEqual
<1> QED BY <1>6 DEF grown, more

LEMMA EntriesOfPrefix ==
  ASSUME NEW lines \in Seq(Lines), NEW n \in 0..Len(lines)
  PROVE  EntriesOf(SubSeq(lines, 1, n)) = SubSeq(EntriesOf(lines), 1, n)
<1> DEFINE start == SubSeq(lines, 1, n)
           less == SubSeq(EntriesOf(lines), 1, n)
<1>1. start \in Seq(Lines) /\ Len(start) = n /\ \A i \in 1..n : start[i] = lines[i]
  BY PrefixProperties
<1>2. /\ less \in Seq(Entries) /\ Len(less) = n
      /\ \A i \in 1..n : less[i] = lines[i].entry
  BY EntriesOfLines, PrefixProperties
<1> HIDE DEF start, less
<1>3. /\ EntriesOf(start) \in Seq(Entries) /\ Len(EntriesOf(start)) = n
      /\ \A i \in 1..n : EntriesOf(start)[i] = start[i].entry
  BY <1>1, EntriesOfLines
<1>4. EntriesOf(start) = less
  BY <1>1, <1>2, <1>3, SeqEqual
<1> QED BY <1>4 DEF start, less

-----------------------------------------------------------------------------
(* What load() accepts *)

LEMMA LoadableLines ==
  ASSUME NEW lines \in Seq(FileLines), Loadable(lines)
  PROVE  lines \in Seq(Lines)
<1>1. Len(lines) \in Nat /\ DOMAIN lines = 1..Len(lines) /\ lines = [i \in 1..Len(lines) |-> lines[i]]
  BY LenProperties
<1>2. \A i \in 1..Len(lines) : lines[i] \in Lines
  BY <1>1, ElementOfSeq DEF Loadable, FileLines
<1>3. lines \in [1..Len(lines) -> Lines]
  BY <1>1, <1>2
<1> QED BY <1>1, <1>3, SeqDef

\* It accepts a longer file if the new line may follow, and any beginning.
LEMMA LoadableGrows ==
  ASSUME NEW lines \in Seq(Lines), Loadable(lines), NEW line \in Lines, MayFollow(line, lines)
  PROVE  Loadable(Append(lines, line))
<1> DEFINE grown == Append(lines, line)
<1>1. /\ grown \in Seq(Lines) /\ Len(grown) = Len(lines) + 1 /\ Len(lines) \in Nat
      /\ \A i \in 1..Len(lines) : grown[i] = lines[i]
      /\ grown[Len(lines) + 1] = line
      /\ DOMAIN grown = 1..(Len(lines) + 1) /\ DOMAIN lines = 1..Len(lines)
  BY AppendProperties, LenProperties
<1>2. \A i \in 1..(Len(lines) + 1) : SubSeq(grown, 1, i - 1) = SubSeq(lines, 1, i - 1)
  BY <1>1, PrefixOfAppend
<1>3. SubSeq(lines, 1, Len(lines)) = lines
  BY SubSeqFull
<1> HIDE DEF grown
<1>4. Len(grown) <= MaxFileBytes /\ \A i \in DOMAIN grown : grown[i] # Torn
  BY <1>1, StoreAssumption DEF MayFollow
<1>5. ASSUME NEW i \in DOMAIN grown
      PROVE  /\ Sequenced => grown[i].sequence = i
             /\ Admissible(EntriesOf(SubSeq(grown, 1, i - 1)), grown[i].entry)
  <2>1. CASE i = Len(lines) + 1
    <3>1. SubSeq(grown, 1, i - 1) = lines /\ grown[i] = line
      BY <1>1, <1>2, <1>3, <2>1
    <3> QED BY <2>1, <3>1 DEF MayFollow
  <2>2. CASE i \in 1..Len(lines)
    <3>1. SubSeq(grown, 1, i - 1) = SubSeq(lines, 1, i - 1) /\ grown[i] = lines[i]
      BY <1>1, <1>2, <2>2
    <3> QED BY <1>1, <2>2, <3>1 DEF Loadable
  <2> QED BY <1>1, <2>1, <2>2
<1>6. Loadable(grown)
  BY <1>4, <1>5 DEF Loadable
<1> QED BY <1>6 DEF grown

LEMMA LoadableStart ==
  ASSUME NEW lines \in Seq(Lines), Loadable(lines), NEW n \in 0..Len(lines)
  PROVE  Loadable(SubSeq(lines, 1, n))
<1> DEFINE start == SubSeq(lines, 1, n)
<1>1. /\ start \in Seq(Lines) /\ Len(start) = n /\ DOMAIN start = 1..n
      /\ \A i \in 1..n : start[i] = lines[i]
      /\ DOMAIN lines = 1..Len(lines) /\ Len(lines) \in Nat
  BY PrefixProperties, LenProperties
<1>2. \A i \in 1..n : SubSeq(start, 1, i - 1) = SubSeq(lines, 1, i - 1)
  BY PrefixOfPrefix
<1> HIDE DEF start
<1>3. Len(start) <= MaxFileBytes
  BY <1>1, StoreAssumption DEF Loadable
<1>4. ASSUME NEW i \in DOMAIN start
      PROVE  /\ start[i] # Torn
             /\ Sequenced => start[i].sequence = i
             /\ Admissible(EntriesOf(SubSeq(start, 1, i - 1)), start[i].entry)
  <2>1. /\ i \in DOMAIN lines /\ start[i] = lines[i]
        /\ SubSeq(start, 1, i - 1) = SubSeq(lines, 1, i - 1)
    BY <1>1, <1>2
  <2> QED BY <2>1 DEF Loadable
<1>5. Loadable(start)
  BY <1>3, <1>4 DEF Loadable
<1> QED BY <1>5 DEF start

\* The whole lines of a file are its beginning, but for one line at most.
LEMMA WholeIsStart ==
  ASSUME NEW lines \in Seq(FileLines)
  PROVE  /\ Whole(lines) \in Seq(FileLines)
         /\ Len(Whole(lines)) \in Nat
         /\ Len(Whole(lines)) <= Len(lines) /\ Len(lines) <= Len(Whole(lines)) + 1
         /\ Whole(lines) = SubSeq(lines, 1, Len(Whole(lines)))
         /\ Len(Whole(lines)) = Len(lines) => Whole(lines) = lines
<1>1. CASE lines # << >> /\ lines[Len(lines)] = Torn
  <2>1. Len(lines) \in Nat \ {0}
    BY <1>1, EmptySeq
  <2>2. Len(lines) - 1 \in 0..Len(lines)
    BY <2>1
  <2>3. /\ SubSeq(lines, 1, Len(lines) - 1) \in Seq(FileLines)
        /\ Len(SubSeq(lines, 1, Len(lines) - 1)) = Len(lines) - 1
    BY <2>2, PrefixProperties
  <2>4. Whole(lines) = SubSeq(lines, 1, Len(lines) - 1)
    BY <1>1 DEF Whole
  <2> QED BY <2>1, <2>3, <2>4
<1>2. CASE ~(lines # << >> /\ lines[Len(lines)] = Torn)
  <2>1. Whole(lines) = lines
    BY <1>2 DEF Whole
  <2> QED BY <2>1, SubSeqFull, LenProperties
<1> QED BY <1>1, <1>2

LEMMA WholeOfAppend ==
  ASSUME NEW lines \in Seq(FileLines)
  PROVE  /\ Whole(Append(lines, Torn)) = lines
         /\ \A line \in Lines : Whole(Append(lines, line)) = Append(lines, line)
<1>1. \A line \in FileLines :
        /\ Append(lines, line) # << >>
        /\ Append(lines, line)[Len(Append(lines, line))] = line
        /\ SubSeq(Append(lines, line), 1, Len(Append(lines, line)) - 1) = lines
  <2> TAKE line \in FileLines
  <2>1. /\ Append(lines, line) # << >> /\ Len(Append(lines, line)) = Len(lines) + 1
        /\ Append(lines, line)[Len(lines) + 1] = line
        /\ Len(lines) \in Nat
    BY AppendProperties, LenProperties
  <2>2. SubSeq(Append(lines, line), 1, Len(lines)) = lines
    BY <2>1, PrefixOfAppend, SubSeqFull
  <2> QED BY <2>1, <2>2
<1>2. Torn \in FileLines /\ Lines \subseteq FileLines
  BY DEF FileLines
<1> QED BY <1>1, <1>2, StoreAssumption DEF Whole

\* A file without a torn line is whole.
LEMMA WholeLoadable ==
  ASSUME NEW lines \in Seq(FileLines), \A n \in DOMAIN lines : lines[n] # Torn
  PROVE  Whole(lines) = lines
<1>1. lines # << >> => Len(lines) \in DOMAIN lines
  BY EmptySeq, LenProperties
<1> QED BY <1>1 DEF Whole

\* What a power loss leaves of a readable history is a beginning of it, and
\* has what was flushed.
LEMMA WhatRemains ==
  ASSUME FileOK, Loadable(WholeLines), NEW left \in Remains
  PROVE  \E n \in 0..Len(WholeLines) :
           /\ Whole(left) = SubSeq(WholeLines, 1, n)
           /\ left \in Seq(FileLines) /\ n <= Len(left)
           /\ flushed <= n \/ n = Len(WholeLines)
<1>1. WholeLines = Whole(file) /\ file \in Seq(FileLines) /\ flushed \in Nat
  BY DEF WholeLines, Whole, FileOK
<1>2. /\ WholeLines \in Seq(Lines) /\ Len(WholeLines) \in Nat
      /\ Len(WholeLines) <= Len(file) /\ Len(file) <= Len(WholeLines) + 1
      /\ WholeLines = SubSeq(file, 1, Len(WholeLines))
  BY <1>1, WholeIsStart, LoadableLines
<1>3. left \in Seq(FileLines)
  BY RemainsKeepsFlushed
<1>4. ASSUME NEW n \in flushed..Len(file), n < Len(file)
      PROVE  /\ n \in 0..Len(WholeLines)
             /\ SubSeq(file, 1, n) = SubSeq(WholeLines, 1, n)
             /\ SubSeq(file, 1, n) \in Seq(Lines) /\ Len(SubSeq(file, 1, n)) = n
  <2>1. n \in 0..Len(WholeLines)
    BY <1>1, <1>2, <1>4
  <2>2. SubSeq(SubSeq(file, 1, Len(WholeLines)), 1, n) = SubSeq(file, 1, n)
    BY <1>1, <1>2, <2>1, PrefixOfPrefix
  <2> QED BY <1>2, <2>1, <2>2, PrefixProperties
<1>5. CASE \E n \in flushed..Len(file) : left = SubSeq(file, 1, n)
  <2>1. PICK n \in flushed..Len(file) : left = SubSeq(file, 1, n)
    BY <1>5
  <2>2. CASE n = Len(file)
    <3>1. left = file
      BY <1>1, <2>1, <2>2, SubSeqFull
    <3>2. Whole(left) = SubSeq(WholeLines, 1, Len(WholeLines))
      BY <1>1, <1>2, <3>1, SubSeqFull
    <3>3. Len(WholeLines) \in 0..Len(WholeLines) /\ Len(WholeLines) <= Len(left)
      BY <1>2, <3>1
    <3> QED BY <1>3, <3>2, <3>3
  <2>3. CASE n < Len(file)
    <3>1. left \in Seq(Lines) /\ Len(left) = n /\ left = SubSeq(WholeLines, 1, n)
      BY <1>4, <2>1, <2>3
    <3>2. \A i \in DOMAIN left : left[i] # Torn
      BY <3>1, StoreAssumption
    <3>3. Whole(left) = left
      BY <1>3, <3>2, WholeLoadable
    <3> QED BY <1>3, <1>4, <2>3, <3>1, <3>3
  <2> QED BY <1>1, <2>2, <2>3
<1>6. CASE \E n \in flushed..Len(file) : n < Len(file) /\ left = Append(SubSeq(file, 1, n), Torn)
  <2>1. PICK n \in flushed..Len(file) :
          n < Len(file) /\ left = Append(SubSeq(file, 1, n), Torn)
    BY <1>6
  <2>2. /\ n \in 0..Len(WholeLines)
        /\ SubSeq(file, 1, n) = SubSeq(WholeLines, 1, n)
        /\ SubSeq(file, 1, n) \in Seq(Lines) /\ Len(SubSeq(file, 1, n)) = n
    BY <1>4, <2>1
  <2>3. SubSeq(file, 1, n) \in Seq(FileLines)
    BY <2>2, SeqMonotonic DEF FileLines
  <2>4. Whole(left) = SubSeq(file, 1, n) /\ Len(left) = n + 1
    <3>1. Torn \in FileLines
      BY DEF FileLines
    <3>2. Len(left) = Len(SubSeq(file, 1, n)) + 1
      BY <2>1, <2>3, <3>1, AppendProperties
    <3> QED BY <2>1, <2>2, <2>3, <3>2, WholeOfAppend
  <2> QED BY <1>3, <2>1, <2>2, <2>4
<1> QED BY <1>5, <1>6 DEF Remains

-----------------------------------------------------------------------------
(* HistoryInv is inductive *)

LEMMA HistoryFacts ==
  ASSUME HistoryInv
  PROVE  /\ file \in Seq(FileLines) /\ flushed \in Nat /\ flushed <= Len(file)
         /\ WholeLines = Whole(file) /\ WholeLines \in Seq(Lines)
         /\ Len(file) \in Nat /\ Len(WholeLines) \in Nat
         /\ Len(WholeLines) <= Len(file) /\ Len(file) <= Len(WholeLines) + 1
         /\ Len(WholeLines) = Len(file) => WholeLines = file
         /\ \A s \in Stores : pc[s] # "idle" =>
              WholeLines = file /\ file \in Seq(Lines) /\ pending[s] \in Lines
<1>1. /\ file \in Seq(FileLines) /\ flushed \in 0..Len(file) /\ WholeLines = Whole(file)
      /\ Loadable(WholeLines)
  BY DEF HistoryInv, TypeInv, TypeOK, FileLines, WholeLines, Whole
<1>2. Len(file) \in Nat
  BY <1>1, LenProperties
<1>3. WholeLines \in Seq(Lines)
  BY <1>1, WholeIsStart, LoadableLines
<1>4. ASSUME NEW s \in Stores, pc[s] # "idle"
      PROVE  WholeLines = file /\ file \in Seq(Lines) /\ pending[s] \in Lines
  <2>1. pending[s] \in Lines /\ pc[s] \in {"writing", "syncing"}
    BY <1>4 DEF HistoryInv, TypeInv, TypeOK, PendingOK
  <2>2. CASE pc[s] = "writing"
    <3>1. Len(file) = store[s].expectedFileSize /\ store[s].expectedFileSize <= Len(WholeLines)
      BY <2>2 DEF HistoryInv, AppendsFollow, StoresFollow
    <3> QED BY <1>1, <1>2, <1>3, <2>1, <3>1, WholeIsStart
  <2>3. CASE pc[s] = "syncing"
    <3>1. file[Len(file)] = pending[s]
      BY <2>3 DEF HistoryInv, AppendsFollow
    <3>2. WholeLines = file
      BY <1>1, <2>1, <3>1, StoreAssumption DEF Whole
    <3> QED BY <1>3, <2>1, <3>2
  <2> QED BY <2>1, <2>2, <2>3
<1> QED BY <1>1, <1>2, <1>3, <1>4, WholeIsStart

\* What objects have in memory follows a history that gets longer.
LEMMA GrowthIsFollowed ==
  ASSUME HistoryInv, NEW line \in Lines,
         WholeLines' = Append(WholeLines, line), store' = store
  PROVE  StoresFollow'
<1>1. WholeLines \in Seq(Lines) /\ Len(WholeLines) \in Nat
  BY HistoryFacts
<1>2. Len(WholeLines') = Len(WholeLines) + 1
  BY <1>1, AppendProperties
<1>3. ASSUME NEW s \in Stores, store[s].open
      PROVE  /\ store[s].expectedFileSize <= Len(WholeLines')
             /\ store[s].log = EntriesOf(SubSeq(WholeLines', 1, store[s].expectedFileSize))
             /\ store[s].nextSequence = store[s].expectedFileSize + 1
  <2>1. /\ store[s].expectedFileSize \in Nat
        /\ store[s].expectedFileSize <= Len(WholeLines)
        /\ store[s].log = EntriesOf(SubSeq(WholeLines, 1, store[s].expectedFileSize))
        /\ store[s].nextSequence = store[s].expectedFileSize + 1
    BY <1>3 DEF HistoryInv, StoresFollow, TypeInv, TypeOK
  <2>2. store[s].expectedFileSize \in 0..Len(WholeLines)
    BY <1>1, <2>1
  <2>3. SubSeq(WholeLines', 1, store[s].expectedFileSize) =
          SubSeq(WholeLines, 1, store[s].expectedFileSize)
    BY <1>1, <2>2, PrefixOfAppend
  <2>4. store[s].expectedFileSize <= Len(WholeLines')
    BY <1>1, <1>2, <2>1
  <2>5. store[s].log = EntriesOf(SubSeq(WholeLines', 1, store[s].expectedFileSize))
    BY <2>1, <2>3
  <2> QED BY <2>1, <2>4, <2>5
<1>4. \A s \in Stores : store'[s] = store[s]
  OBVIOUS
<1> QED BY <1>3, <1>4 DEF StoresFollow

\* A history that stays the same is followed by the objects that do.
LEMMA SameHistoryIsFollowed ==
  ASSUME HistoryInv, WholeLines' = WholeLines,
         \A s \in Stores : store'[s].open => store'[s] = store[s]
  PROVE  StoresFollow' /\ Loadable(WholeLines)'
BY DEF HistoryInv, StoresFollow, Loadable

\* While no object is inside append(), one may enter it.
LEMMA AppendsAreFollowed ==
  ASSUME \A s \in Stores : pc'[s] = "idle"
  PROVE  AppendsFollow'
BY DEF AppendsFollow

LEMMA AllIdle ==
  ASSUME SharedProcess, NEW s \in Stores, ProcessFree(s)
  PROVE  \A t \in Stores : pc[t] = "idle"
BY DEF SharedProcess, ProcessFree

LEMMA OpenFollows ==
  ASSUME SharedProcess, HistoryInv, NEW s \in Stores, Open(s)
  PROVE  Loadable(WholeLines)' /\ StoresFollow' /\ AppendsFollow'
<1>1. Loadable(file) /\ UNCHANGED <<file, pc, pending>> /\ ProcessFree(s)
  BY DEF Open
<1>2. WholeLines = file /\ WholeLines' = file /\ file \in Seq(Lines)
  BY <1>1, HistoryFacts, WholeLoadable DEF Loadable, WholeLines, Whole
<1> DEFINE fresh == [open |-> TRUE, log |-> EntriesOf(file),
                     expectedFileSize |-> Len(file), nextSequence |-> Len(file) + 1]
<1>3. store' = [store EXCEPT ![s] = fresh]
  BY DEF Open
<1>4. /\ fresh.open /\ fresh.log = EntriesOf(file)
      /\ fresh.expectedFileSize = Len(file) /\ fresh.nextSequence = Len(file) + 1
  OBVIOUS
<1> HIDE DEF fresh
<1>5. store'[s] = fresh /\ \A t \in Stores \ {s} : store'[t] = store[t]
  BY <1>3 DEF HistoryInv, TypeInv, TypeOK
<1>6. SubSeq(file, 1, Len(file)) = file
  BY <1>2, SubSeqFull
<1>7. ASSUME NEW t \in Stores, store'[t].open
      PROVE  /\ store'[t].expectedFileSize <= Len(file)
             /\ store'[t].log = EntriesOf(SubSeq(file, 1, store'[t].expectedFileSize))
             /\ store'[t].nextSequence = store'[t].expectedFileSize + 1
  <2>1. CASE t = s
    <3>1. store'[t].log = EntriesOf(file) /\ store'[t].expectedFileSize = Len(file)
      BY <1>4, <1>5, <2>1
    <3>2. store'[t].log = EntriesOf(SubSeq(file, 1, store'[t].expectedFileSize))
      BY <1>6, <3>1
    <3>3. store'[t].expectedFileSize <= Len(file)
      BY <3>1, HistoryFacts
    <3>4. store'[t].nextSequence = store'[t].expectedFileSize + 1
      BY <1>4, <1>5, <2>1
    <3> QED BY <3>2, <3>3, <3>4
  <2>2. CASE t # s
    BY <1>2, <1>5, <1>7, <2>2 DEF HistoryInv, StoresFollow
  <2> QED BY <2>1, <2>2
<1>8. StoresFollow'
  BY <1>2, <1>7 DEF StoresFollow
<1>9. Loadable(WholeLines)'
  BY <1>1, <1>2 DEF Loadable
<1> QED BY <1>1, <1>8, <1>9, AllIdle, AppendsAreFollowed

LEMMA BeginFollows ==
  ASSUME SharedProcess, HistoryInv, NEW s \in Stores, NEW e \in Entries, BeginAppend(s, e)
  PROVE  Loadable(WholeLines)' /\ StoresFollow' /\ AppendsFollow'
<1> DEFINE line == [sequence |-> store[s].nextSequence, entry |-> e]
<1>1. /\ store[s].open /\ ProcessFree(s) /\ Len(file) = store[s].expectedFileSize
      /\ Admissible(store[s].log, e) /\ store[s].expectedFileSize + 1 <= MaxFileBytes
      /\ pc' = [pc EXCEPT ![s] = "writing"]
      /\ pending' = [pending EXCEPT ![s] = line]
      /\ UNCHANGED <<file, store>>
  BY DEF BeginAppend
<1>2. line.sequence = store[s].nextSequence /\ line.entry = e
  OBVIOUS
<1> HIDE DEF line
<1>3. /\ \A t \in Stores : pc[t] = "idle"
      /\ pc'[s] = "writing" /\ pending'[s] = line
      /\ \A t \in Stores \ {s} : pc'[t] = "idle"
  BY <1>1, AllIdle DEF HistoryInv, TypeInv, TypeOK
<1>4. /\ store[s].expectedFileSize <= Len(WholeLines)
      /\ store[s].log = EntriesOf(SubSeq(WholeLines, 1, store[s].expectedFileSize))
      /\ store[s].nextSequence = store[s].expectedFileSize + 1
  BY <1>1 DEF HistoryInv, StoresFollow
<1>5. WholeLines = file /\ WholeLines \in Seq(Lines)
  BY <1>1, <1>4, HistoryFacts
<1>6. store[s].log = EntriesOf(file)
  BY <1>1, <1>4, <1>5, SubSeqFull
<1>7. MayFollow(line, file)
  BY <1>1, <1>2, <1>4, <1>6 DEF MayFollow
<1>8. MayFollow(pending'[s], file')
  BY <1>1, <1>3, <1>7
<1>9. AppendsFollow'
  BY <1>1, <1>3, <1>8 DEF AppendsFollow, MayFollow
<1>10. WholeLines' = WholeLines
  BY <1>1 DEF WholeLines
<1> QED BY <1>1, <1>9, <1>10, SameHistoryIsFollowed

LEMMA WriteFollows ==
  ASSUME HistoryInv, NEW s \in Stores, Write(s)
  PROVE  Loadable(WholeLines)' /\ StoresFollow' /\ AppendsFollow'
<1>1. /\ pc[s] = "writing" /\ file' = Append(file, pending[s])
      /\ pc' = [pc EXCEPT ![s] = "syncing"] /\ UNCHANGED <<store, pending>>
  BY DEF Write
<1>2. /\ WholeLines = file /\ file \in Seq(Lines) /\ file \in Seq(FileLines)
      /\ pending[s] \in Lines
  BY <1>1, HistoryFacts
<1>3. /\ store[s].open /\ Len(file) = store[s].expectedFileSize
      /\ MayFollow(pending[s], file)
      /\ \A t \in Stores : pc[t] # "idle" => t = s
  BY <1>1 DEF HistoryInv, AppendsFollow
<1>4. WholeLines' = Whole(file')
  BY DEF WholeLines, Whole
<1>5. WholeLines' = Append(file, pending[s])
  BY <1>1, <1>2, <1>4, WholeOfAppend
<1>6. Loadable(Append(file, pending[s]))
  BY <1>2, <1>3, LoadableGrows DEF HistoryInv
<1>7. Loadable(WholeLines)'
  BY <1>5, <1>6 DEF Loadable
<1>8. StoresFollow'
  BY <1>1, <1>2, <1>5, GrowthIsFollowed
<1>9. Len(file') = Len(file) + 1 /\ file'[Len(file')] = pending[s]
  BY <1>1, <1>2, AppendProperties
<1>10. pc'[s] = "syncing" /\ \A t \in Stores \ {s} : pc'[t] = "idle"
  BY <1>1, <1>3 DEF HistoryInv, TypeInv, TypeOK
<1>11. AppendsFollow'
  BY <1>1, <1>3, <1>9, <1>10 DEF AppendsFollow
<1> QED BY <1>7, <1>8, <1>11

LEMMA WriteFailsFollows ==
  ASSUME HistoryInv, NEW s \in Stores, WriteFails(s)
  PROVE  WholeLines' = WholeLines /\ Loadable(WholeLines)' /\ StoresFollow' /\ AppendsFollow'
<1>1. /\ pc[s] = "writing" /\ file' \in {file, Append(file, Torn)}
      /\ pc' = [pc EXCEPT ![s] = "idle"] /\ UNCHANGED store
  BY DEF WriteFails
<1>2. WholeLines = file /\ file \in Seq(FileLines)
  BY <1>1, HistoryFacts
<1>3. WholeLines = Whole(file) /\ WholeLines' = Whole(file')
  BY DEF WholeLines, Whole
<1>4. WholeLines' = WholeLines
  BY <1>1, <1>2, <1>3, WholeOfAppend
<1>5. \A t \in Stores : pc'[t] = "idle"
  BY <1>1 DEF HistoryInv, TypeInv, TypeOK, AppendsFollow
<1> QED BY <1>1, <1>4, <1>5, SameHistoryIsFollowed, AppendsAreFollowed

LEMMA SyncFollows ==
  ASSUME HistoryInv, NEW s \in Stores, Sync(s)
  PROVE  Loadable(WholeLines)' /\ StoresFollow' /\ AppendsFollow'
<1> DEFINE grown == [open |-> TRUE,
                     log |-> Append(store[s].log, pending[s].entry),
                     expectedFileSize |-> store[s].expectedFileSize + 1,
                     nextSequence |-> store[s].nextSequence + 1]
<1>1. /\ pc[s] = "syncing" /\ pc' = [pc EXCEPT ![s] = "idle"]
      /\ store' = [store EXCEPT ![s] = grown] /\ UNCHANGED file
  BY DEF Sync
<1>2. /\ grown.open /\ grown.log = Append(store[s].log, pending[s].entry)
      /\ grown.expectedFileSize = store[s].expectedFileSize + 1
      /\ grown.nextSequence = store[s].nextSequence + 1
  OBVIOUS
<1> HIDE DEF grown
<1>3. store'[s] = grown /\ \A t \in Stores \ {s} : store'[t] = store[t]
  BY <1>1 DEF HistoryInv, TypeInv, TypeOK
<1>4. /\ store[s].open /\ Len(file) = store[s].expectedFileSize + 1
      /\ file[Len(file)] = pending[s] /\ store[s].expectedFileSize \in Nat
      /\ \A t \in Stores : pc[t] # "idle" => t = s
  BY <1>1 DEF HistoryInv, AppendsFollow, TypeInv, TypeOK
<1>5. WholeLines = file /\ WholeLines' = file /\ file \in Seq(Lines) /\ pending[s] \in Lines
  BY <1>1, HistoryFacts DEF WholeLines
<1> DEFINE size == store[s].expectedFileSize
<1>6. /\ store[s].log = EntriesOf(SubSeq(file, 1, size))
      /\ store[s].nextSequence = size + 1
  BY <1>4, <1>5 DEF HistoryInv, StoresFollow
<1>7. /\ SubSeq(file, 1, size) \in Seq(Lines) /\ Len(SubSeq(file, 1, size)) = size
      /\ \A i \in 1..size : SubSeq(file, 1, size)[i] = file[i]
  BY <1>4, <1>5, PrefixProperties
<1>8. Append(SubSeq(file, 1, size), pending[s]) = file
  <2> DEFINE again == Append(SubSeq(file, 1, size), pending[s])
  <2>1. /\ again \in Seq(Lines) /\ Len(again) = size + 1
        /\ \A i \in 1..size : again[i] = file[i]
        /\ again[size + 1] = pending[s]
    BY <1>5, <1>7, AppendProperties
  <2> HIDE DEF again
  <2>2. \A i \in 1..Len(again) : again[i] = file[i]
    BY <1>4, <2>1
  <2>3. again = file
    BY <1>4, <1>5, <2>1, <2>2, SeqEqual
  <2> QED BY <2>3 DEF again
<1>9. grown.log = EntriesOf(file)
  BY <1>2, <1>5, <1>6, <1>7, <1>8, EntriesOfAppend
<1>10. SubSeq(file, 1, Len(file)) = file
  BY <1>5, SubSeqFull
<1>11. ASSUME NEW t \in Stores, store'[t].open
       PROVE  /\ store'[t].expectedFileSize <= Len(file)
              /\ store'[t].log = EntriesOf(SubSeq(file, 1, store'[t].expectedFileSize))
              /\ store'[t].nextSequence = store'[t].expectedFileSize + 1
  <2>1. CASE t = s
    <3>1. store'[t].log = EntriesOf(file) /\ store'[t].expectedFileSize = Len(file)
      BY <1>2, <1>3, <1>4, <1>9, <2>1
    <3>2. store'[t].log = EntriesOf(SubSeq(file, 1, store'[t].expectedFileSize))
      BY <1>10, <3>1
    <3>3. store'[t].expectedFileSize <= Len(file)
      BY <1>4, <3>1
    <3>4. store'[t].nextSequence = store'[t].expectedFileSize + 1
      BY <1>2, <1>3, <1>6, <2>1
    <3> QED BY <3>2, <3>3, <3>4
  <2>2. CASE t # s
    BY <1>3, <1>5, <1>11, <2>2 DEF HistoryInv, StoresFollow
  <2> QED BY <2>1, <2>2
<1>12. StoresFollow'
  BY <1>5, <1>11 DEF StoresFollow
<1>13. \A t \in Stores : pc'[t] = "idle"
  BY <1>1, <1>4 DEF HistoryInv, TypeInv, TypeOK
<1> QED BY <1>5, <1>12, <1>13, AppendsAreFollowed DEF HistoryInv, Loadable

LEMMA LossFollows ==
  ASSUME HistoryInv, PowerLoss
  PROVE  /\ Loadable(WholeLines)' /\ StoresFollow' /\ AppendsFollow'
         /\ \E n \in 0..Len(WholeLines) :
              /\ WholeLines' = SubSeq(WholeLines, 1, n)
              /\ Len(WholeLines') = n /\ n <= flushed' /\ flushed' \in Nat
              /\ flushed <= n \/ n = Len(WholeLines)
<1>1. /\ file' \in Remains /\ flushed' = Len(file')
      /\ \A s \in Stores : ~store'[s].open /\ pc'[s] = "idle"
  BY DEF PowerLoss, Closed
<1>2. FileOK /\ Loadable(WholeLines)
  BY HistoryFacts DEF FileOK, HistoryInv
<1>3. PICK n \in 0..Len(WholeLines) :
        /\ Whole(file') = SubSeq(WholeLines, 1, n)
        /\ file' \in Seq(FileLines) /\ n <= Len(file')
        /\ flushed <= n \/ n = Len(WholeLines)
  BY <1>1, <1>2, WhatRemains
<1>4. WholeLines' = SubSeq(WholeLines, 1, n)
  BY <1>3 DEF WholeLines, Whole
<1>5. WholeLines \in Seq(Lines)
  BY HistoryFacts
<1>6. Loadable(SubSeq(WholeLines, 1, n)) /\ Len(SubSeq(WholeLines, 1, n)) = n
  BY <1>2, <1>5, LoadableStart, PrefixProperties
<1>7. Loadable(WholeLines)'
  BY <1>4, <1>6 DEF Loadable
<1>8. StoresFollow' /\ AppendsFollow'
  BY <1>1, AppendsAreFollowed DEF StoresFollow
<1>9. Len(file') \in Nat
  BY <1>3, LenProperties
<1> QED BY <1>1, <1>3, <1>4, <1>6, <1>7, <1>8, <1>9

\* Steps that leave the file alone and at most close objects.
LEMMA RestFollows ==
  ASSUME HistoryInv,
         \/ \E s \in Stores : SyncFails(s)
         \/ \E p \in Processes : ProcessCrash(p)
         \/ UNCHANGED vars
  PROVE  Loadable(WholeLines)' /\ StoresFollow' /\ AppendsFollow'
<1>1. file' = file /\ \A s \in Stores : store'[s].open => store'[s] = store[s]
  BY DEF SyncFails, ProcessCrash, vars, Closed
<1>2. WholeLines' = WholeLines
  BY <1>1 DEF WholeLines
<1>3. \A s \in Stores : pc'[s] # "idle" =>
        pc'[s] = pc[s] /\ store'[s] = store[s] /\ pending'[s] = pending[s]
  BY DEF SyncFails, ProcessCrash, vars, HistoryInv, TypeInv, TypeOK
<1>4. AppendsFollow'
  BY <1>1, <1>3 DEF HistoryInv, AppendsFollow, MayFollow
<1> QED BY <1>1, <1>2, <1>4, SameHistoryIsFollowed

LEMMA HistoryStep ==
  ASSUME SharedProcess, HistoryInv, [Next]_vars
  PROVE  HistoryInv'
<1>1. TypeInv'
  BY TypeStep DEF HistoryInv
<1>2. Loadable(WholeLines)' /\ StoresFollow' /\ AppendsFollow'
  BY OpenFollows, BeginFollows, WriteFollows, WriteFailsFollows, SyncFollows,
     LossFollows, RestFollows DEF Next
<1> QED BY <1>1, <1>2 DEF HistoryInv

LEMMA HistoryInit == Init => HistoryInv
<1> SUFFICES ASSUME Init PROVE HistoryInv
  OBVIOUS
<1>1. WholeLines = << >> /\ Loadable(<< >>)
  BY StoreAssumption DEF Init, WholeLines, Loadable
<1>2. \A s \in Stores : ~store[s].open /\ pc[s] = "idle"
  BY DEF Init, Closed
<1> QED BY <1>1, <1>2, TypeInit DEF HistoryInv, StoresFollow, AppendsFollow

\* In one process, objects that come and go, tear lines or die leave a
\* history that load() accepts and that every open object has read.
THEOREM HistoryInvariant ==
  ASSUME SharedProcess PROVE Spec => []HistoryInv
<1>1. HistoryInv /\ [Next]_vars => HistoryInv'
  BY HistoryStep
<1> QED BY <1>1, HistoryInit, PTL DEF Spec

\* Only a torn line can keep a file from being opened again.
THEOREM TornAloneBlocks ==
  ASSUME SharedProcess PROVE Spec => []ReadableUnlessTorn
<1>1. HistoryInv => ReadableUnlessTorn
  <2> SUFFICES ASSUME HistoryInv, \A n \in DOMAIN file : file[n] # Torn PROVE Loadable(file)
    BY DEF ReadableUnlessTorn
  <2>1. WholeLines = file
    BY HistoryFacts, WholeLoadable
  <2> QED BY <2>1 DEF HistoryInv
<1> QED BY <1>1, HistoryInvariant, PTL

-----------------------------------------------------------------------------
(* Refinement of DurableHistory *)

History == EntriesOf(WholeLines)
CommittedLines == IF flushed <= Len(WholeLines) THEN flushed ELSE Len(WholeLines)

LEMMA CommittedIsPart ==
  ASSUME HistoryInv
  PROVE  /\ CommittedLines \in Nat /\ CommittedLines <= Len(WholeLines)
         /\ Len(History) = Len(WholeLines) /\ Len(WholeLines) \in Nat
BY HistoryFacts, EntriesOfLines DEF CommittedLines, History

\* Writing a line extends the history.
LEMMA WriteExtends ==
  ASSUME HistoryInv, NEW s \in Stores, Write(s)
  PROVE  \E e \in Entries :
           /\ Admissible(History, e)
           /\ History' = Append(History, e)
           /\ CommittedLines' = CommittedLines
<1>1. /\ pc[s] = "writing" /\ file' = Append(file, pending[s]) /\ flushed' = flushed
  BY DEF Write
<1>2. /\ WholeLines = file /\ file \in Seq(Lines) /\ file \in Seq(FileLines)
      /\ pending[s] \in Lines /\ flushed \in Nat /\ flushed <= Len(file) /\ Len(file) \in Nat
  BY <1>1, HistoryFacts
<1>3. WholeLines' = Append(file, pending[s])
  BY <1>1, <1>2, WholeOfAppend DEF WholeLines, Whole
<1>4. pending[s].entry \in Entries /\ Admissible(History, pending[s].entry)
  BY <1>1, <1>2 DEF HistoryInv, AppendsFollow, MayFollow, History, Lines
<1>5. History' = Append(History, pending[s].entry)
  BY <1>2, <1>3, EntriesOfAppend DEF History
<1>6. Len(WholeLines') = Len(file) + 1
  BY <1>2, <1>3, AppendProperties
<1>7. CommittedLines' = CommittedLines
  BY <1>1, <1>2, <1>6 DEF CommittedLines
<1> QED BY <1>4, <1>5, <1>7

\* A flush commits all of it.
LEMMA SyncCommits ==
  ASSUME HistoryInv, NEW s \in Stores, Sync(s)
  PROVE  History' = History /\ CommittedLines' \in CommittedLines..Len(History)
<1>1. WholeLines' = WholeLines /\ flushed' = Len(file)
  BY DEF Sync, WholeLines
<1>2. CommittedLines' = Len(WholeLines)
  BY <1>1, HistoryFacts DEF CommittedLines
<1> QED BY <1>1, <1>2, CommittedIsPart DEF History

\* A power loss loses its end, but nothing committed.
LEMMA LossLosesTail ==
  ASSUME HistoryInv, PowerLoss
  PROVE  \E n \in CommittedLines..Len(History) :
           History' = SubSeq(History, 1, n) /\ CommittedLines' \in CommittedLines..n
<1>1. PICK n \in 0..Len(WholeLines) :
        /\ WholeLines' = SubSeq(WholeLines, 1, n)
        /\ Len(WholeLines') = n /\ n <= flushed' /\ flushed' \in Nat
        /\ flushed <= n \/ n = Len(WholeLines)
  BY LossFollows
<1>2. WholeLines \in Seq(Lines) /\ flushed \in Nat
  BY HistoryFacts
<1>3. History' = SubSeq(History, 1, n)
  BY <1>1, <1>2, EntriesOfPrefix DEF History
<1>4. CommittedLines' = n
  BY <1>1 DEF CommittedLines
<1>5. n \in CommittedLines..Len(History)
  BY <1>1, <1>2, CommittedIsPart DEF CommittedLines
<1> QED BY <1>3, <1>4, <1>5, CommittedIsPart

\* Other steps do not touch it.
LEMMA RestStutters ==
  ASSUME HistoryInv, UNCHANGED <<file, flushed>> \/ \E s \in Stores : WriteFails(s)
  PROVE  History' = History /\ CommittedLines' = CommittedLines
<1>1. WholeLines' = WholeLines /\ flushed' = flushed
  BY WriteFailsFollows DEF WholeLines, WriteFails
<1> QED BY <1>1 DEF History, CommittedLines

\* In one process, the store keeps the promise of DurableHistory: a history
\* that grows by admissible entries and never loses its committed part.
THEOREM StoreKeepsPromise ==
  ASSUME SharedProcess PROVE Spec => KeepsPromise
<1>1. Init => Promise!Init
  BY DEF Init, Promise!Init, EntriesOf, WholeLines
<1>2. HistoryInv /\ [Next]_vars => [Promise!Next]_(Promise!vars)
  <2> SUFFICES ASSUME HistoryInv, [Next]_vars PROVE [Promise!Next]_(Promise!vars)
    OBVIOUS
  <2>1. ASSUME NEW s \in Stores, Write(s) PROVE Promise!Next
    BY <2>1, WriteExtends DEF Promise!Next, Promise!Extend, History, CommittedLines
  <2>2. ASSUME NEW s \in Stores, Sync(s) PROVE Promise!Next
    BY <2>2, SyncCommits DEF Promise!Next, Promise!Commit, History, CommittedLines
  <2>3. ASSUME PowerLoss PROVE Promise!Next
    BY <2>3, LossLosesTail DEF Promise!Next, Promise!LoseTail, History, CommittedLines
  <2>4. ASSUME UNCHANGED <<file, flushed>> \/ \E s \in Stores : WriteFails(s)
        PROVE  UNCHANGED Promise!vars
    BY <2>4, RestStutters DEF Promise!vars, History, CommittedLines
  <2>5. \/ \E s \in Stores : Write(s) \/ Sync(s)
        \/ PowerLoss
        \/ UNCHANGED <<file, flushed>> \/ \E s \in Stores : WriteFails(s)
    BY DEF Next, Open, BeginAppend, SyncFails, ProcessCrash, vars
  <2> QED BY <2>1, <2>2, <2>3, <2>4, <2>5
<1> QED BY <1>1, <1>2, HistoryInvariant, PTL DEF Spec, KeepsPromise, Promise!Spec
=============================================================================
