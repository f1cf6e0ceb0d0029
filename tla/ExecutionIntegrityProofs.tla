----------------------- MODULE ExecutionIntegrityProofs -----------------------
(***************************************************************************)
(* Proofs about ExecutionIntegrity, for any number of concurrent calls, of *)
(* sessions and of attempts, and whichever stores' appends may throw.      *)
(*                                                                         *)
(* No store knows of the others.  What makes them agree is that attempts   *)
(* only grow: what a late call holds is of the present attempt or of one   *)
(* that is over, and the file of bindings has one session for each.  The   *)
(* inductive invariant says that of every line and every call.             *)
(***************************************************************************)
EXTENDS ExecutionIntegrity, SequenceTheorems, TLAPS

-----------------------------------------------------------------------------
(* The inductive invariant *)

Stores == {"bindings", "journal", "ledger"}
Fates == {"none", "bound", "in_doubt", "refused", "leaked"}
InFlightPoints == {"created", "aborting", "destroying"}
ObservingPoints == {"probing", "verifying", "verified"}
BindingLines == [attempt : Nat \ {0}, sessionId : Sessions]
CallRecords ==
  [pc : {"idle", "creating"} \union InFlightPoints \union ObservingPoints,
   attempt : Nat, sessionId : Sessions \union {NoSession}, passed : BOOLEAN]
LedgerRecords == [riskClass : RiskClasses, outcome : Outcomes,
                  failureReason : Reasons \union {NoReason}, attempt : Nat]

TypeInv ==
  /\ workflow \in Runs \union {NoRun}
  /\ bindings \in Seq(BindingLines)
  /\ journal \in Seq(JournalEntries)
  /\ ledger \in LedgerRecords \union {NoRecord}
  /\ fenced \subseteq Stores
  /\ session \in [Sessions -> SessionStatuses]
  /\ driver \in [Drivers -> CallRecords]
  /\ fate \in [Sessions -> Fates]

\* An object that missed a line has one to miss.
FencedHaveLines ==
  /\ "bindings" \in fenced => bindings # << >>
  /\ "journal" \in fenced => journal # << >>

\* Whatever there is came about for a run that was started.
RunStarted == workflow # NoRun /\ workflow.status # "queued"
WorkIsOfARun ==
  (\/ \E x \in Sessions : session[x] # "absent"
   \/ \E d \in Drivers : driver[d].pc # "idle"
   \/ bindings # << >> \/ journal # << >> \/ ledger # NoRecord)
  => RunStarted

InFlightCall(d) == driver[d].pc \in InFlightPoints

\* A call is about an attempt the run has reached; the session it created was
\* not there before, and what becomes of it is open.
CallFits(r) ==
  /\ r.pc # "idle" => r.attempt >= 1 /\ r.attempt <= workflow.attempt
  /\ r.pc \in {"idle", "creating"} => r.sessionId = NoSession
  /\ r.pc \in ObservingPoints => r.sessionId \in Sessions
  /\ r.pc = "verified" /\ r.passed => r.sessionId \in passes
  /\ r.pc \in InFlightPoints =>
       /\ r.sessionId \in Sessions /\ session[r.sessionId] # "absent"
       /\ r.pc = "created" => fate[r.sessionId] = "none"
       /\ r.pc # "created" => fate[r.sessionId] \in {"refused", "in_doubt"}

\* Every call fits, and no two have the same session in flight.
CallsFit ==
  /\ \A d \in Drivers : CallFits(driver[d])
  /\ \A d, e \in Drivers :
       InFlightCall(d) /\ InFlightCall(e) /\ driver[d].sessionId = driver[e].sessionId => d = e
  /\ \A x \in Sessions : session[x] = "absent" => fate[x] = "none"

\* One binding for an attempt, and none for an attempt to come.
BindingsProgress ==
  /\ \A n \in DOMAIN bindings : bindings[n].attempt <= workflow.attempt
  /\ \A m, n \in DOMAIN bindings : m < n => bindings[m].attempt < bindings[n].attempt

Bound(attempt, x) ==
  \E n \in DOMAIN bindings : bindings[n].attempt = attempt /\ bindings[n].sessionId = x

\* What a line of the journal says is so.
EntryIsTrue(n) ==
  LET e == journal[n] IN
    /\ e.attempt <= workflow.attempt
    /\ \E m \in 1..n : journal[m].attempt = e.attempt /\ journal[m].stage = "runtime_bound"
    /\ e.stage \in {"runtime_bound", "verification_recorded"} => Bound(e.attempt, e.sessionId)
    /\ e.stage = "verification_recorded" /\ e.passed => e.sessionId \in passes
    /\ e.stage = "workflow_terminal" /\ e.attempt = workflow.attempt =>
         IsTerminal(workflow) /\ e.outcome = workflow.status
    /\ e.stage = "ledger_finalized" =>
         /\ n = Len(journal) /\ ledger # NoRecord /\ "ledger" \notin fenced
         /\ \E m \in 1..n : journal[m].attempt = e.attempt /\ journal[m].stage = "workflow_terminal"

JournalIsTrue == \A n \in DOMAIN journal : EntryIsTrue(n)

\* The ledger's record is of the run as it is, or of an attempt that failed.
LedgerIsTrue ==
  ledger # NoRecord =>
    /\ ledger.attempt <= workflow.attempt
    /\ ledger.attempt = workflow.attempt => IsTerminal(workflow) /\ LedgerMatches(ledger, workflow)
    /\ ledger.attempt < workflow.attempt => ledger.outcome = "failed"
    /\ ledger.outcome = "succeeded" => \E x \in passes : Bound(ledger.attempt, x)

IntegrityInv ==
  /\ TypeInv /\ FencedHaveLines /\ WorkIsOfARun /\ CallsFit /\ NoSilentLeak
  /\ BindingsProgress /\ JournalIsTrue /\ LedgerIsTrue

-----------------------------------------------------------------------------
(* Facts about the operators *)

\* What an object shows is the file, or the file without its last line.
LEMMA SeenIsPrefix ==
  ASSUME NEW S, NEW log \in Seq(S), NEW store, store \in fenced => log # << >>
  PROVE  /\ Seen(log, store) \in Seq(S)
         /\ DOMAIN Seen(log, store) = 1..Len(Seen(log, store))
         /\ DOMAIN log = 1..Len(log) /\ Len(log) \in Nat
         /\ Len(Seen(log, store)) =
              IF store \in fenced THEN Len(log) - 1 ELSE Len(log)
         /\ DOMAIN Seen(log, store) \subseteq DOMAIN log
         /\ \A n \in DOMAIN Seen(log, store) : Seen(log, store)[n] = log[n]
<1>1. Len(log) \in Nat /\ DOMAIN log = 1..Len(log)
  BY LenProperties
<1>2. CASE store \notin fenced
  BY <1>1, <1>2 DEF Seen
<1>3. CASE store \in fenced
  <2>1. Seen(log, store) = SubSeq(log, 1, Len(log) - 1)
    BY <1>3 DEF Seen
  <2>2. Len(log) # 0
    BY <1>3, EmptySeq
  <2>6. Len(log) - 1 \in Nat /\ Len(log) - 1 <= Len(log)
    BY <1>1, <2>2
  <2>3. \A i \in 1..(Len(log) - 1) : log[i] \in S
    BY <1>1, <2>6, ElementOfSeq
  <2>4. /\ SubSeq(log, 1, Len(log) - 1) \in Seq(S)
        /\ Len(SubSeq(log, 1, Len(log) - 1)) = Len(log) - 1
        /\ \A i \in 1..(Len(log) - 1) : SubSeq(log, 1, Len(log) - 1)[i] = log[i]
    BY <1>1, <2>6, <2>3, SubSeqProperties
  <2>5. DOMAIN SubSeq(log, 1, Len(log) - 1) = 1..(Len(log) - 1)
    BY <2>4, LenProperties
  <2> QED BY <1>1, <1>3, <2>1, <2>6, <2>4, <2>5
<1> QED BY <1>2, <1>3

\* A line is added.
LEMMA AppendedLine ==
  ASSUME NEW S, NEW log \in Seq(S), NEW e \in S
  PROVE  /\ Append(log, e) \in Seq(S) /\ Append(log, e) # << >>
         /\ Len(log) \in Nat /\ Len(Append(log, e)) = Len(log) + 1
         /\ DOMAIN log = 1..Len(log) /\ DOMAIN Append(log, e) = 1..(Len(log) + 1)
         /\ \A n \in 1..Len(log) : Append(log, e)[n] = log[n]
         /\ Append(log, e)[Len(log) + 1] = e
<1>1. /\ Append(log, e) \in Seq(S)
      /\ Len(Append(log, e)) = Len(log) + 1
      /\ \A n \in 1..Len(log) : Append(log, e)[n] = log[n]
      /\ Append(log, e)[Len(log) + 1] = e
  BY AppendProperties
<1>2. /\ Len(log) \in Nat /\ DOMAIN log = 1..Len(log)
      /\ DOMAIN Append(log, e) = 1..(Len(log) + 1)
  BY <1>1, LenProperties
<1>3. Append(log, e) # << >>
  BY <1>1, <1>2, EmptySeq
<1> QED BY <1>1, <1>2, <1>3

\* A restarted process starts a run on its own only if it is queued.
LEMMA ResumeIsForQueued ==
  ASSUME NEW r \in Runs
  PROVE  /\ AutomaticResumeAllowed(r) <=> r.status = "queued"
         /\ RuntimeReconciliationRequired(r) => r.status # "queued"
<1>1. r.status \in Statuses
  BY DEF Runs
<1> QED BY <1>1 DEF AutomaticResumeAllowed, RuntimeReconciliationRequired, RecoveryDisposition, Statuses

\* What a method of the machine does to a run.
LEMMA MethodEffect ==
  ASSUME NEW r \in Runs, NEW now \in Times, NEW q \in Machine!MethodResults(r, now)
  PROVE  /\ q \in Runs /\ q.status # "queued"
         /\ r.status # "queued" => q.attempt = r.attempt \/ q.attempt = r.attempt + 1
         /\ IsTerminal(r) => r.status = "failed" /\ q.attempt = r.attempt + 1
<1> USE TransitionsAssumption DEF Runs, Phases, Statuses, IsTerminal, Machine!Returned, Machine!IsTerminal,
        Machine!Phases
<1>1. CASE q \in Machine!Start(r, now)
  <2>1. /\ r.status = "queued"
        /\ q = [r EXCEPT !.status = "running", !.phase = "classify",
                         !.attempt = 1, !.updatedAt = now]
    BY <1>1 DEF Machine!Start
  <2>2. q \in Runs /\ q.status = "running"
    BY <2>1
  <2> QED BY <2>1, <2>2
<1>2. CASE q \in Machine!Advance(r, now)
  <2>1. PICK p \in Machine!Successors(r.phase) :
          /\ q = [r EXCEPT !.status = "running", !.phase = p, !.updatedAt = now]
          /\ r.status \in {"running", "retrying"}
    BY <1>2 DEF Machine!Advance
  <2>2. p \in Phases
    BY <2>1 DEF Machine!Successors
  <2> QED BY <2>1, <2>2
<1>3. CASE q \in Machine!RequestApproval(r, now)
  BY <1>3 DEF Machine!RequestApproval
<1>4. CASE q \in Machine!ApproveResults(r, now)
  <2>1. PICK a \in ApprovalIds : q \in Machine!Approve(r, a, now)
    BY <1>4 DEF Machine!ApproveResults
  <2>2. Append(r.approvalIds, a) \in Seq(ApprovalIds)
    BY AppendProperties
  <2>3. /\ r.status = "waiting_approval"
        /\ q = [r EXCEPT !.status = "running", !.phase = "publish",
                         !.approvalIds = Append(r.approvalIds, a), !.updatedAt = now]
    BY <2>1 DEF Machine!Approve
  <2> QED BY <2>2, <2>3
<1>5. CASE q \in Machine!SkipApproval(r, now)
  BY <1>5 DEF Machine!SkipApproval
<1>6. CASE q \in Machine!Pause(r, now) \/ q \in Machine!Resume(r, now)
  BY <1>6 DEF Machine!Pause, Machine!Resume
<1>7. CASE q \in Machine!Retry(r, now)
  <2>1. /\ r.status = "failed"
        /\ q = [r EXCEPT !.status = "retrying", !.attempt = r.attempt + 1,
                         !.failureReason = NoReason, !.updatedAt = now]
    BY <1>7 DEF Machine!Retry
  <2>2. r.attempt + 1 \in Nat
    OBVIOUS
  <2> QED BY <2>1, <2>2
<1>8. CASE q \in Machine!Recover(r, now)
  BY <1>8 DEF Machine!Recover
<1>9. CASE q \in Machine!FailResults(r, now)
  <2>1. PICK reason \in Reasons : q \in Machine!Fail(r, reason, now)
    BY <1>9 DEF Machine!FailResults
  <2> QED BY <2>1 DEF Machine!Fail
<1>10. CASE q \in Machine!Cancel(r, now)
  BY <1>10 DEF Machine!Cancel
<1>11. CASE q \in Machine!Succeed(r, TRUE, now)
  BY <1>11 DEF Machine!Succeed
<1> HIDE DEF Runs, Phases, Statuses, IsTerminal, Machine!Returned, Machine!IsTerminal, Machine!Phases
<1> QED BY <1>1, <1>2, <1>3, <1>4, <1>5, <1>6, <1>7, <1>8, <1>9, <1>10, <1>11
        DEF Machine!MethodResults

\* The lines of the files are of their kinds.
LEMMA LinesTyped ==
  ASSUME TypeInv
  PROVE  /\ DOMAIN bindings = 1..Len(bindings) /\ DOMAIN journal = 1..Len(journal)
         /\ Len(bindings) \in Nat /\ Len(journal) \in Nat
         /\ \A n \in DOMAIN bindings : bindings[n] \in BindingLines /\ bindings[n].attempt \in Nat
         /\ \A n \in DOMAIN journal : journal[n] \in JournalEntries /\ journal[n].attempt \in Nat
<1>1. bindings \in Seq(BindingLines) /\ journal \in Seq(JournalEntries)
  BY DEF TypeInv
<1>2. /\ DOMAIN bindings = 1..Len(bindings) /\ DOMAIN journal = 1..Len(journal)
      /\ Len(bindings) \in Nat /\ Len(journal) \in Nat
  BY <1>1, LenProperties
<1>3. \A n \in DOMAIN bindings : bindings[n] \in BindingLines
  BY <1>1, <1>2, ElementOfSeq
<1>4. \A n \in DOMAIN journal : journal[n] \in JournalEntries
  BY <1>1, <1>2, ElementOfSeq
<1> QED BY <1>2, <1>3, <1>4 DEF BindingLines, JournalEntries

-----------------------------------------------------------------------------
(* What a step leaves alone *)

\* One call moves, to r, and with it at most the session y that it is about.
CallMoves(d, r, y) ==
  /\ driver' = [driver EXCEPT ![d] = r]
  /\ session' \in [Sessions -> SessionStatuses] /\ fate' \in [Sessions -> Fates]
  /\ \A x \in Sessions : x # y => session'[x] = session[x] /\ fate'[x] = fate[x]
  /\ \A e \in Drivers : e # d /\ InFlightCall(e) => driver[e].sessionId # y
  /\ InFlightCall(d) => driver[d].sessionId = y
  /\ r.pc \in InFlightPoints => r.sessionId = y
  /\ y \in Sessions =>
       /\ session'[y] = "absent" => fate'[y] = "none"
       /\ session'[y] \in {"live", "completed", "ended"} =>
            fate'[y] \in {"bound", "in_doubt", "leaked"} \/ r.pc \in InFlightPoints

LEMMA CallsStayFit ==
  ASSUME CallsFit, NoSilentLeak, UNCHANGED workflow, passes \subseteq passes',
         driver \in [Drivers -> CallRecords],
         NEW d \in Drivers, NEW r \in CallRecords, NEW y \in Sessions \union {NoSession},
         CallMoves(d, r, y), CallFits(r)'
  PROVE  CallsFit' /\ NoSilentLeak'
<1> USE DEF CallMoves
<1>1. /\ driver'[d] = r
      /\ \A e \in Drivers : e # d => driver'[e] = driver[e]
  OBVIOUS
<1>2. \A e \in Drivers : CallFits(driver[e])'
  <2> SUFFICES ASSUME NEW e \in Drivers PROVE CallFits(driver[e])'
    OBVIOUS
  <2>1. CASE e = d
    BY <1>1, <2>1 DEF CallFits
  <2>2. CASE e # d
    <3>1. driver'[e] = driver[e] /\ CallFits(driver[e])
      BY <1>1, <2>2 DEF CallsFit
    <3>2. InFlightCall(e) => driver[e].sessionId # y
      BY <2>2
    <3> QED BY <3>1, <3>2 DEF CallFits, InFlightCall
  <2> QED BY <2>1, <2>2
<1>3. \A e, f \in Drivers :
        InFlightCall(e)' /\ InFlightCall(f)' /\ driver'[e].sessionId = driver'[f].sessionId
          => e = f
  <2> SUFFICES ASSUME NEW e \in Drivers, NEW f \in Drivers, InFlightCall(e)', InFlightCall(f)',
                      driver'[e].sessionId = driver'[f].sessionId
               PROVE  e = f
    OBVIOUS
  <2>1. CASE e # d /\ f # d
    BY <1>1, <2>1 DEF InFlightCall, CallsFit
  <2>2. CASE e = d \/ f = d
    BY <1>1, <2>2 DEF InFlightCall
  <2> QED BY <2>1, <2>2
<1>4. \A x \in Sessions : session'[x] = "absent" => fate'[x] = "none"
  BY DEF CallsFit
<1>5. NoSilentLeak'
  <2> SUFFICES ASSUME NEW x \in Sessions, session'[x] \in {"live", "completed", "ended"},
                      fate'[x] \notin {"bound", "in_doubt", "leaked"}
               PROVE  \E e \in Drivers : InFlightCall(e)' /\ driver'[e].sessionId = x
    BY DEF NoSilentLeak, InFlight, InFlightCall, InFlightPoints
  <2>1. CASE x = y
    BY <1>1, <2>1 DEF InFlightCall
  <2>2. CASE x # y
    <3>1. PICK e \in Drivers : InFlightCall(e) /\ driver[e].sessionId = x
      BY <2>2 DEF NoSilentLeak, InFlight, InFlightCall, InFlightPoints
    <3>2. e # d
      BY <2>2, <3>1
    <3> QED BY <1>1, <3>1, <3>2 DEF InFlightCall
  <2> QED BY <2>1, <2>2
<1> QED BY <1>2, <1>3, <1>4, <1>5 DEF CallsFit

\* The lines of the journal and the record of the ledger are as true as they
\* were when none is added and no binding is lost.
LEMMA LinesStayTrue ==
  ASSUME JournalIsTrue, LedgerIsTrue, UNCHANGED << workflow, journal, ledger >>,
         "ledger" \in fenced' => "ledger" \in fenced, passes \subseteq passes',
         \A m \in DOMAIN bindings : m \in DOMAIN bindings' /\ bindings'[m] = bindings[m]
  PROVE  JournalIsTrue' /\ LedgerIsTrue'
<1>1. ASSUME NEW n \in DOMAIN journal PROVE EntryIsTrue(n)'
  <2>1. EntryIsTrue(n)
    BY DEF JournalIsTrue
  <2>2. Bound(journal[n].attempt, journal[n].sessionId) =>
          \E m \in DOMAIN bindings' : /\ bindings'[m].attempt = journal[n].attempt
                                      /\ bindings'[m].sessionId = journal[n].sessionId
    BY DEF Bound
  <2> QED BY <2>1, <2>2 DEF EntryIsTrue, Bound
<1>2. \A a, x : Bound(a, x) => Bound(a, x)'
  BY DEF Bound
<1>3. LedgerIsTrue'
  BY <1>2 DEF LedgerIsTrue, LedgerMatches
<1> QED BY <1>1, <1>3 DEF JournalIsTrue

LEMMA FilesKept ==
  ASSUME FencedHaveLines, BindingsProgress, JournalIsTrue, LedgerIsTrue,
         UNCHANGED << workflow, bindings, journal, ledger >>, fenced' \subseteq fenced,
         passes \subseteq passes'
  PROVE  FencedHaveLines' /\ BindingsProgress' /\ JournalIsTrue' /\ LedgerIsTrue'
<1>1. FencedHaveLines' /\ BindingsProgress'
  BY DEF FencedHaveLines, BindingsProgress
<1> QED BY <1>1, LinesStayTrue

\* A call moves, and no file changes.
LEMMA StoresKept ==
  ASSUME IntegrityInv, UNCHANGED << workflow, bindings, journal, ledger, fenced >>,
         passes \subseteq passes',
         session' \in [Sessions -> SessionStatuses], driver' \in [Drivers -> CallRecords],
         fate' \in [Sessions -> Fates],
         RunStarted, CallsFit', NoSilentLeak'
  PROVE  IntegrityInv'
<1>1. TypeInv'
  BY DEF IntegrityInv, TypeInv
<1>2. FencedHaveLines' /\ BindingsProgress' /\ JournalIsTrue' /\ LedgerIsTrue'
  BY FilesKept DEF IntegrityInv
<1>3. WorkIsOfARun'
  BY DEF IntegrityInv, WorkIsOfARun, RunStarted
<1> QED BY <1>1, <1>2, <1>3 DEF IntegrityInv

-----------------------------------------------------------------------------
(* The calls that leave the files alone *)

LEMMA CallsAreOfARun ==
  ASSUME IntegrityInv, NEW d \in Drivers, driver[d].pc # "idle"
  PROVE  RunStarted /\ CallFits(driver[d]) /\ driver[d] \in CallRecords
BY DEF IntegrityInv, TypeInv, WorkIsOfARun, CallsFit

\* A call moves and no session changes.
LEMMA OnlyTheCall ==
  ASSUME IntegrityInv, RunStarted,
         UNCHANGED << workflow, bindings, journal, ledger, fenced, session, fate >>,
         passes \subseteq passes', NEW d \in Drivers, NEW r \in CallRecords,
         driver' = [driver EXCEPT ![d] = r],
         r.pc \notin InFlightPoints, ~InFlightCall(d), CallFits(r)'
  PROVE  IntegrityInv'
<1>1. session' \in [Sessions -> SessionStatuses] /\ fate' \in [Sessions -> Fates]
  BY DEF IntegrityInv, TypeInv
<1>2. driver' \in [Drivers -> CallRecords]
  BY DEF IntegrityInv, TypeInv
<1>3. /\ CallsFit /\ NoSilentLeak /\ driver \in [Drivers -> CallRecords]
      /\ \A e \in Drivers : InFlightCall(e) => driver[e].sessionId # NoSession
  BY JournalAssumption DEF IntegrityInv, TypeInv, CallsFit, CallFits, InFlightCall
<1>4. CallMoves(d, r, NoSession)
  BY <1>1, <1>3, JournalAssumption DEF CallMoves
<1>5. CallsFit' /\ NoSilentLeak'
  BY <1>3, <1>4, CallsStayFit
<1> QED BY <1>1, <1>2, <1>5, StoresKept

LEMMA BeginCreateStep ==
  ASSUME IntegrityInv, NEW d \in Drivers, BeginCreate(d) PROVE IntegrityInv'
<1>0. PICK r : r = [Idle EXCEPT !.pc = "creating", !.attempt = workflow.attempt]
  OBVIOUS
<1>1. workflow \in Runs /\ workflow.attempt \in Nat /\ workflow.attempt >= 1 /\ RunStarted
  BY DEF IntegrityInv, TypeInv, BeginCreate, Executable, RunStarted, Runs
<1>2. /\ r \in CallRecords /\ r.pc = "creating" /\ r.attempt = workflow.attempt
      /\ r.sessionId = NoSession
  BY <1>0, <1>1 DEF Idle, CallRecords
<1>3. driver' = [driver EXCEPT ![d] = r] /\ driver[d].pc = "idle"
  BY <1>0 DEF BeginCreate
<1>4. ~InFlightCall(d) /\ r.pc \notin InFlightPoints
  BY <1>2, <1>3 DEF InFlightCall, InFlightPoints
<1>5. CallFits(r)'
  BY <1>1, <1>2 DEF CallFits, BeginCreate, InFlightPoints, ObservingPoints
<1> QED BY <1>1, <1>2, <1>3, <1>4, <1>5, OnlyTheCall DEF BeginCreate

LEMMA BeginReconcileStep ==
  ASSUME IntegrityInv, NEW d \in Drivers, BeginReconcile(d) PROVE IntegrityInv'
<1>1. workflow \in Runs /\ RunStarted
  BY ResumeIsForQueued DEF IntegrityInv, TypeInv, BeginReconcile, RunStarted
<1>2. PICK b \in BindingFor(workflow.attempt) :
        driver' = [driver EXCEPT ![d] =
                     [Idle EXCEPT !.pc = "probing", !.attempt = b.attempt, !.sessionId = b.sessionId]]
  BY DEF BeginReconcile
<1>3. b \in BindingLines /\ b.attempt = workflow.attempt
  <2>1. \A n \in DOMAIN BindingsSeen : BindingsSeen[n] \in BindingLines
    BY SeenIsPrefix DEF BindingsSeen, IntegrityInv, TypeInv, FencedHaveLines
  <2> QED BY <2>1 DEF BindingFor
<1>0. PICK r : r = [Idle EXCEPT !.pc = "probing", !.attempt = b.attempt, !.sessionId = b.sessionId]
  OBVIOUS
<1>8. b.attempt \in Nat /\ b.attempt >= 1 /\ b.sessionId \in Sessions
  BY <1>3 DEF BindingLines
<1>4. /\ r \in CallRecords /\ r.pc = "probing" /\ r.attempt = workflow.attempt
      /\ r.attempt >= 1 /\ r.sessionId \in Sessions
  BY <1>0, <1>3, <1>8 DEF Idle, CallRecords, ObservingPoints
<1>5. driver' = [driver EXCEPT ![d] = r] /\ driver[d].pc = "idle"
  BY <1>0, <1>2 DEF BeginReconcile
<1>6. ~InFlightCall(d) /\ r.pc \notin InFlightPoints
  BY <1>4, <1>5 DEF InFlightCall, InFlightPoints
<1>7. CallFits(r)'
  BY <1>1, <1>4 DEF CallFits, BeginReconcile, InFlightPoints, ObservingPoints, Runs
<1> QED BY <1>1, <1>4, <1>5, <1>6, <1>7, OnlyTheCall DEF BeginReconcile

LEMMA IdleFits ==
  /\ Idle \in CallRecords /\ CallFits(Idle) /\ CallFits(Idle)'
  /\ Idle.pc \notin InFlightPoints /\ Idle.pc = "idle" /\ Idle.sessionId = NoSession
BY DEF Idle, CallRecords, CallFits, InFlightPoints, ObservingPoints

LEMMA ObserveStep ==
  ASSUME IntegrityInv, NEW d \in Drivers, Observe(d) PROVE IntegrityInv'
<1>1. /\ driver[d].pc = "probing" /\ RunStarted /\ CallFits(driver[d]) /\ driver[d] \in CallRecords
      /\ ~InFlightCall(d)
  BY CallsAreOfARun DEF Observe, InFlightCall, InFlightPoints
<1>2. CASE driver' = [driver EXCEPT ![d] = Idle]
  BY <1>1, <1>2, IdleFits, OnlyTheCall DEF Observe
<1>3. CASE driver' = [driver EXCEPT ![d].pc = "verifying"]
  <2>0. PICK r : r = [driver[d] EXCEPT !.pc = "verifying"]
    OBVIOUS
  <2>1. driver' = [driver EXCEPT ![d] = r]
    BY <1>3, <2>0
  <2>2. /\ r \in CallRecords /\ r.pc = "verifying"
        /\ r.attempt = driver[d].attempt /\ r.sessionId = driver[d].sessionId
    BY <1>1, <2>0 DEF CallRecords, ObservingPoints
  <2>3. CallFits(r)'
    BY <1>1, <2>2 DEF CallFits, Observe, InFlightPoints, ObservingPoints
  <2>4. r.pc \notin InFlightPoints
    BY <2>2 DEF InFlightPoints
  <2> QED BY <1>1, <2>1, <2>2, <2>3, <2>4, OnlyTheCall DEF Observe
<1> QED BY <1>2, <1>3 DEF Observe

LEMMA VerifyStep ==
  ASSUME IntegrityInv, NEW d \in Drivers, Verify(d) PROVE IntegrityInv'
<1>1. /\ driver[d].pc = "verifying" /\ RunStarted /\ CallFits(driver[d]) /\ driver[d] \in CallRecords
      /\ ~InFlightCall(d)
  BY CallsAreOfARun DEF Verify, InFlightCall, InFlightPoints
<1>2. PICK passed \in BOOLEAN :
        /\ driver' = [driver EXCEPT ![d].pc = "verified", ![d].passed = passed]
        /\ passes' = passes \union {x \in {driver[d].sessionId} : passed}
  BY DEF Verify
<1>0. PICK r : r = [driver[d] EXCEPT !.pc = "verified", !.passed = passed]
  OBVIOUS
<1>3. driver' = [driver EXCEPT ![d] = r]
  BY <1>0, <1>1, <1>2 DEF IntegrityInv, TypeInv, CallRecords
<1>4. /\ r \in CallRecords /\ r.pc = "verified" /\ r.passed = passed
      /\ r.attempt = driver[d].attempt /\ r.sessionId = driver[d].sessionId
  BY <1>0, <1>1 DEF CallRecords, ObservingPoints
<1>5. CallFits(r)'
  <2>1. passed => r.sessionId \in passes'
    BY <1>2, <1>4
  <2> QED BY <1>1, <1>4, <2>1 DEF CallFits, Verify, InFlightPoints, ObservingPoints
<1>6. r.pc \notin InFlightPoints /\ passes \subseteq passes'
  BY <1>2, <1>4 DEF InFlightPoints
<1> QED BY <1>1, <1>3, <1>4, <1>5, <1>6, OnlyTheCall DEF Verify

LEMMA DropStep ==
  ASSUME IntegrityInv, NEW d \in Drivers, Drop(d) PROVE IntegrityInv'
<1>1. driver[d].pc = "verified" /\ RunStarted /\ ~InFlightCall(d)
  BY CallsAreOfARun DEF Drop, InFlightCall, InFlightPoints
<1> QED BY <1>1, IdleFits, OnlyTheCall DEF Drop

-----------------------------------------------------------------------------
(* The calls that move a session, and the sessions that move by themselves *)

\* The session of a call in flight is its own.
LEMMA OwnSession ==
  ASSUME IntegrityInv, NEW d \in Drivers, InFlightCall(d)
  PROVE  /\ driver[d].sessionId \in Sessions
         /\ session[driver[d].sessionId] \in SessionStatuses \ {"absent"}
         /\ \A e \in Drivers :
              e # d /\ InFlightCall(e) => driver[e].sessionId # driver[d].sessionId
BY DEF IntegrityInv, TypeInv, CallsFit, CallFits, InFlightCall

LEMMA CallAndItsSession ==
  ASSUME IntegrityInv, RunStarted, UNCHANGED << workflow, bindings, journal, ledger, fenced, passes >>,
         NEW d \in Drivers, NEW r \in CallRecords, NEW y \in Sessions \union {NoSession},
         CallMoves(d, r, y), CallFits(r)'
  PROVE  IntegrityInv'
<1>1. /\ driver' \in [Drivers -> CallRecords]
      /\ session' \in [Sessions -> SessionStatuses] /\ fate' \in [Sessions -> Fates]
  BY DEF IntegrityInv, TypeInv, CallMoves
<1>2. CallsFit /\ NoSilentLeak /\ driver \in [Drivers -> CallRecords]
  BY DEF IntegrityInv, TypeInv
<1>3. CallsFit' /\ NoSilentLeak'
  BY <1>2, CallsStayFit
<1> QED BY <1>1, <1>3, StoresKept

LEMMA ProviderCreatesStep ==
  ASSUME IntegrityInv, NEW d \in Drivers, NEW x \in Sessions, ProviderCreates(d, x)
  PROVE  IntegrityInv'
<1>1. /\ driver[d].pc = "creating" /\ RunStarted /\ CallFits(driver[d]) /\ driver[d] \in CallRecords
      /\ ~InFlightCall(d) /\ session[x] = "absent"
  BY CallsAreOfARun DEF ProviderCreates, InFlightCall, InFlightPoints
<1>2. PICK r : r = [driver[d] EXCEPT !.pc = "created", !.sessionId = x]
  OBVIOUS
<1>3. driver' = [driver EXCEPT ![d] = r]
  BY <1>2 DEF ProviderCreates, IntegrityInv, TypeInv, CallRecords
<1>4. r \in CallRecords /\ r.pc = "created" /\ r.sessionId = x /\ r.attempt = driver[d].attempt
  BY <1>1, <1>2 DEF CallRecords, InFlightPoints
<1>5. /\ session' \in [Sessions -> SessionStatuses] /\ fate' = fate
      /\ fate \in [Sessions -> Fates] /\ session'[x] = "live" /\ fate[x] = "none"
      /\ \A z \in Sessions : z # x => session'[z] = session[z]
  BY <1>1 DEF ProviderCreates, IntegrityInv, TypeInv, SessionStatuses, CallsFit
<1>6. \A e \in Drivers : e # d /\ InFlightCall(e) => driver[e].sessionId # x
  BY <1>1, OwnSession
<1>7. CallFits(r)'
  BY <1>1, <1>4, <1>5 DEF CallFits, ProviderCreates, InFlightPoints, ObservingPoints
<1>8. r.pc \in InFlightPoints
  BY <1>4 DEF InFlightPoints
<1>9. CallMoves(d, r, x)
  BY <1>1, <1>3, <1>4, <1>5, <1>6, <1>8 DEF CallMoves
<1> QED BY <1>1, <1>4, <1>7, <1>9, CallAndItsSession DEF ProviderCreates

LEMMA CreateFailsStep ==
  ASSUME IntegrityInv, NEW d \in Drivers, CreateFails(d) PROVE IntegrityInv'
<1>1. driver[d].pc \in {"creating", "created"} /\ RunStarted /\ CallFits(driver[d])
  BY CallsAreOfARun DEF CreateFails
<1>2. PICK y : y = driver[d].sessionId
  OBVIOUS
<1>3. y \in Sessions \union {NoSession}
  BY <1>1, <1>2 DEF CallFits, InFlightPoints
<1>4. /\ \A e \in Drivers : e # d /\ InFlightCall(e) => driver[e].sessionId # y
      /\ y \in Sessions => session[y] # "absent"
  <2>1. CASE driver[d].pc = "creating"
    <3>1. y = NoSession
      BY <1>1, <1>2, <2>1 DEF CallFits
    <3>2. \A e \in Drivers : InFlightCall(e) => driver[e].sessionId \in Sessions
      BY OwnSession
    <3> QED BY <3>1, <3>2, JournalAssumption
  <2>2. CASE driver[d].pc = "created"
    BY <1>2, <2>2, OwnSession DEF InFlightCall, InFlightPoints
  <2> QED BY <1>1, <2>1, <2>2
<1>5. /\ session' = session /\ session \in [Sessions -> SessionStatuses]
      /\ fate' \in [Sessions -> Fates]
      /\ \A x \in Sessions : fate'[x] = IF x = y THEN "leaked" ELSE fate[x]
  BY <1>2 DEF CreateFails, IntegrityInv, TypeInv, Fates
<1>6. CallMoves(d, Idle, y)
  BY <1>2, <1>4, <1>5, IdleFits DEF CallMoves, CreateFails
<1> QED BY <1>1, <1>3, <1>6, IdleFits, CallAndItsSession DEF CreateFails

LEMMA BindRefusedStep ==
  ASSUME IntegrityInv, NEW d \in Drivers, BindRefused(d) PROVE IntegrityInv'
<1>1. /\ driver[d].pc = "created" /\ RunStarted /\ CallFits(driver[d]) /\ driver[d] \in CallRecords
      /\ InFlightCall(d)
  BY CallsAreOfARun DEF BindRefused, InFlightCall, InFlightPoints
<1>2. PICK y : y = driver[d].sessionId
  OBVIOUS
<1>3. PICK r : r = [driver[d] EXCEPT !.pc = "aborting"]
  OBVIOUS
<1>4. driver' = [driver EXCEPT ![d] = r]
  BY <1>3 DEF BindRefused
<1>5. r \in CallRecords /\ r.pc = "aborting" /\ r.sessionId = y /\ r.attempt = driver[d].attempt
  BY <1>1, <1>2, <1>3 DEF CallRecords, InFlightPoints
<1>6. /\ session' = session /\ session \in [Sessions -> SessionStatuses]
      /\ fate' \in [Sessions -> Fates]
      /\ \A x \in Sessions : fate'[x] = IF x = y THEN "refused" ELSE fate[x]
  BY <1>2 DEF BindRefused, IntegrityInv, TypeInv, Fates
<1>7. /\ y \in Sessions /\ session[y] # "absent"
      /\ \A e \in Drivers : e # d /\ InFlightCall(e) => driver[e].sessionId # y
  BY <1>1, <1>2, OwnSession
<1>8. CallFits(r)'
  BY <1>1, <1>5, <1>6, <1>7 DEF CallFits, BindRefused, InFlightPoints, ObservingPoints
<1>9. r.pc \in InFlightPoints
  BY <1>5 DEF InFlightPoints
<1>10. CallMoves(d, r, y)
  BY <1>2, <1>4, <1>5, <1>6, <1>7, <1>9 DEF CallMoves
<1> QED BY <1>1, <1>5, <1>7, <1>8, <1>10, CallAndItsSession DEF BindRefused

LEMMA CleanupAbortStep ==
  ASSUME IntegrityInv, NEW d \in Drivers, CleanupAbort(d) PROVE IntegrityInv'
<1>1. /\ driver[d].pc = "aborting" /\ RunStarted /\ CallFits(driver[d]) /\ driver[d] \in CallRecords
      /\ InFlightCall(d)
  BY CallsAreOfARun DEF CleanupAbort, InFlightCall, InFlightPoints
<1>2. PICK y : y = driver[d].sessionId
  OBVIOUS
<1>3. PICK r : r = [driver[d] EXCEPT !.pc = "destroying"]
  OBVIOUS
<1>4. driver' = [driver EXCEPT ![d] = r]
  BY <1>3 DEF CleanupAbort
<1>5. r \in CallRecords /\ r.pc = "destroying" /\ r.sessionId = y /\ r.attempt = driver[d].attempt
  BY <1>1, <1>2, <1>3 DEF CallRecords, InFlightPoints
<1>6. /\ y \in Sessions /\ session[y] # "absent"
      /\ \A e \in Drivers : e # d /\ InFlightCall(e) => driver[e].sessionId # y
  BY <1>1, <1>2, OwnSession
<1>7. /\ session' \in [Sessions -> SessionStatuses] /\ session'[y] # "absent"
      /\ \A x \in Sessions : x # y => session'[x] = session[x]
      /\ fate' = fate /\ fate \in [Sessions -> Fates]
  BY <1>2, <1>6 DEF CleanupAbort, IntegrityInv, TypeInv, SessionStatuses
<1>8. CallFits(r)'
  BY <1>1, <1>2, <1>5, <1>6, <1>7 DEF CallFits, CleanupAbort, InFlightPoints, ObservingPoints
<1>9. r.pc \in InFlightPoints
  BY <1>5 DEF InFlightPoints
<1>10. CallMoves(d, r, y)
  BY <1>2, <1>4, <1>5, <1>6, <1>7, <1>9 DEF CallMoves
<1> QED BY <1>1, <1>5, <1>6, <1>8, <1>10, CallAndItsSession DEF CleanupAbort

LEMMA CleanupDestroyStep ==
  ASSUME IntegrityInv, NEW d \in Drivers, CleanupDestroy(d) PROVE IntegrityInv'
<1>1. /\ driver[d].pc = "destroying" /\ RunStarted /\ CallFits(driver[d]) /\ InFlightCall(d)
  BY CallsAreOfARun DEF CleanupDestroy, InFlightCall, InFlightPoints
<1>2. PICK y : y = driver[d].sessionId
  OBVIOUS
<1>3. /\ y \in Sessions /\ session[y] # "absent" /\ fate[y] \in {"refused", "in_doubt"}
      /\ \A e \in Drivers : e # d /\ InFlightCall(e) => driver[e].sessionId # y
  BY <1>1, <1>2, OwnSession DEF CallFits, InFlightPoints
<1>4. /\ session' \in [Sessions -> SessionStatuses] /\ fate' \in [Sessions -> Fates]
      /\ \A x \in Sessions : x # y => session'[x] = session[x] /\ fate'[x] = fate[x]
      /\ session'[y] # "absent"
      /\ session'[y] = "destroyed" \/ fate'[y] \in {"leaked", "in_doubt"}
  <2>1. CASE session' = [session EXCEPT ![y] = "destroyed"] /\ UNCHANGED fate
    BY <1>3, <2>1 DEF IntegrityInv, TypeInv, SessionStatuses
  <2>2. CASE /\ fate' = [fate EXCEPT ![y] = IF @ = "refused" THEN "leaked" ELSE @]
             /\ UNCHANGED session
    BY <1>3, <2>2 DEF IntegrityInv, TypeInv, Fates
  <2> QED BY <1>2, <2>1, <2>2 DEF CleanupDestroy
<1>5. CallMoves(d, Idle, y)
  BY <1>2, <1>3, <1>4, IdleFits DEF CallMoves, CleanupDestroy
<1> QED BY <1>1, <1>3, <1>5, IdleFits, CallAndItsSession DEF CleanupDestroy

LEMMA ProviderEndsStep ==
  ASSUME IntegrityInv, NEW x \in Sessions, ProviderEnds(x) PROVE IntegrityInv'
<1>1. /\ session \in [Sessions -> SessionStatuses] /\ session[x] = "live"
      /\ session' \in [Sessions -> SessionStatuses]
      /\ \A z \in Sessions : z # x => session'[z] = session[z]
      /\ session'[x] \in {"completed", "ended"}
  BY DEF ProviderEnds, IntegrityInv, TypeInv, SessionStatuses
<1>2. RunStarted /\ CallsFit /\ NoSilentLeak /\ TypeInv
  BY <1>1 DEF IntegrityInv, WorkIsOfARun
<1>3. UNCHANGED << workflow, bindings, journal, ledger, fenced, driver, fate, passes >>
  BY DEF ProviderEnds
<1>4. \A d \in Drivers : CallFits(driver[d])'
  <2> SUFFICES ASSUME NEW d \in Drivers PROVE CallFits(driver[d])'
    OBVIOUS
  <2>1. CallFits(driver[d])
    BY <1>2 DEF CallsFit
  <2> QED BY <1>1, <1>3, <2>1 DEF CallFits
<1>5. CallsFit'
  BY <1>1, <1>2, <1>3, <1>4 DEF CallsFit, InFlightCall
<1>6. NoSilentLeak'
  BY <1>1, <1>2, <1>3 DEF NoSilentLeak, InFlight
<1> QED BY <1>1, <1>2, <1>3, <1>5, <1>6, StoresKept DEF TypeInv

-----------------------------------------------------------------------------
(* Steps of the run, and the restart *)

\* Before a run is started there is nothing about it.
LEMMA NothingBeforeStart ==
  ASSUME IntegrityInv, ~RunStarted
  PROVE  /\ bindings = << >> /\ journal = << >> /\ ledger = NoRecord
         /\ \A x \in Sessions : session[x] = "absent"
         /\ \A d \in Drivers : driver[d].pc = "idle"
BY DEF IntegrityInv, WorkIsOfARun

LEMMA WorkflowStepKeeps ==
  ASSUME IntegrityInv, WorkflowStep PROVE IntegrityInv'
<1>1. UNCHANGED << bindings, journal, ledger, fenced, session, driver, fate, passes >>
  BY DEF WorkflowStep
<1>2. workflow' \in Runs /\ (workflow # NoRun => RunStarted')
  <2>1. ASSUME NEW risk \in RiskClasses, NEW now \in Times,
               workflow = NoRun, workflow' = Create(risk, now)
        PROVE  workflow' \in Runs
    <3>1. << >> \in Seq(ApprovalIds)
      OBVIOUS
    <3> QED BY <2>1, <3>1 DEF Create, Runs, Phases, Statuses
  <2>2. ASSUME NEW now \in Times, workflow # NoRun,
               workflow' \in Machine!MethodResults(workflow, now)
        PROVE  workflow' \in Runs /\ RunStarted'
    <3>1. workflow \in Runs
      BY <2>2 DEF IntegrityInv, TypeInv
    <3>2. workflow' \in Runs /\ workflow'.status # "queued"
      BY <2>2, <3>1, MethodEffect
    <3> QED BY <3>2, RunAssumption DEF RunStarted
  <2> QED BY <2>1, <2>2 DEF WorkflowStep
<1>3. TypeInv' /\ FencedHaveLines' /\ NoSilentLeak'
  BY <1>1, <1>2 DEF IntegrityInv, TypeInv, FencedHaveLines, NoSilentLeak, InFlight
<1>4. WorkIsOfARun'
  BY <1>1, <1>2 DEF IntegrityInv, WorkIsOfARun, RunStarted
<1>5. CASE ~RunStarted
  <2>1. /\ bindings' = << >> /\ journal' = << >> /\ ledger' = NoRecord
        /\ \A d \in Drivers : driver'[d].pc = "idle"
    BY <1>1, <1>5, NothingBeforeStart
  <2>2. DOMAIN bindings' = {} /\ DOMAIN journal' = {}
    BY <2>1
  <2>3. CallsFit'
    BY <1>1, <2>1 DEF IntegrityInv, CallsFit, CallFits, InFlightCall, InFlightPoints, ObservingPoints
  <2>4. BindingsProgress' /\ JournalIsTrue' /\ LedgerIsTrue'
    BY <2>1, <2>2 DEF BindingsProgress, JournalIsTrue, LedgerIsTrue
  <2> QED BY <1>3, <1>4, <2>3, <2>4 DEF IntegrityInv
<1>6. CASE RunStarted
  <2>1. workflow \in Runs /\ workflow # NoRun /\ workflow.status # "queued"
    BY <1>6 DEF RunStarted, IntegrityInv, TypeInv
  <2>2. PICK now \in Times : workflow' \in Machine!MethodResults(workflow, now)
    BY <2>1 DEF WorkflowStep
  <2>3. /\ workflow.attempt \in Nat /\ workflow'.attempt \in Nat
        /\ workflow'.attempt = workflow.attempt \/ workflow'.attempt = workflow.attempt + 1
        /\ IsTerminal(workflow) =>
             workflow.status = "failed" /\ workflow'.attempt = workflow.attempt + 1
    BY <1>2, <2>1, <2>2, MethodEffect DEF Runs
  <2>4. CallsFit'
    <3>1. ASSUME NEW d \in Drivers PROVE CallFits(driver[d])'
      <4>1. CallFits(driver[d]) /\ driver[d].attempt \in Nat
        BY DEF IntegrityInv, TypeInv, CallsFit, CallRecords
      <4> QED BY <1>1, <2>3, <4>1 DEF CallFits
    <3> QED BY <1>1, <3>1 DEF IntegrityInv, CallsFit, InFlightCall
  <2>5. \A n \in DOMAIN bindings : bindings[n].attempt \in Nat
    BY LinesTyped DEF IntegrityInv
  <2>6. BindingsProgress'
    BY <1>1, <2>3, <2>5 DEF IntegrityInv, BindingsProgress
  <2>7. \A a, x : Bound(a, x)' <=> Bound(a, x)
    BY <1>1 DEF Bound
  <2>8. ASSUME NEW n \in DOMAIN journal PROVE EntryIsTrue(n)'
    <3>1. EntryIsTrue(n) /\ journal[n].attempt \in Nat
      BY LinesTyped DEF IntegrityInv, JournalIsTrue
    <3>2. journal[n].attempt <= workflow'.attempt
      BY <2>3, <3>1 DEF EntryIsTrue
    <3>3. journal[n].stage = "workflow_terminal" => journal[n].attempt # workflow'.attempt
      BY <2>3, <3>1 DEF EntryIsTrue
    <3> QED BY <1>1, <2>7, <3>1, <3>2, <3>3 DEF EntryIsTrue
  <2>9. JournalIsTrue'
    BY <1>1, <2>8 DEF JournalIsTrue
  <2>10. LedgerIsTrue'
    <3> SUFFICES ASSUME ledger # NoRecord
                 PROVE  /\ ledger.attempt < workflow'.attempt
                        /\ ledger.outcome = "failed"
                        /\ ledger.outcome = "succeeded" => \E x \in passes : Bound(ledger.attempt, x)
      <4>1. ledger # NoRecord => ledger.attempt \in Nat
        BY DEF IntegrityInv, TypeInv, LedgerRecords
      <4> QED BY <1>1, <2>3, <4>1 DEF LedgerIsTrue
    <3>1. ledger.attempt \in Nat /\ LedgerIsTrue
      BY DEF IntegrityInv, TypeInv, LedgerRecords
    <3>2. CASE ledger.attempt = workflow.attempt
      BY <2>3, <3>1, <3>2 DEF LedgerIsTrue, LedgerMatches
    <3>3. CASE ledger.attempt < workflow.attempt
      BY <2>3, <3>1, <3>3 DEF LedgerIsTrue
    <3> QED BY <2>3, <3>1, <3>2, <3>3 DEF LedgerIsTrue
  <2> QED BY <1>3, <1>4, <2>4, <2>6, <2>9, <2>10 DEF IntegrityInv
<1> QED BY <1>5, <1>6

LEMMA RestartStep ==
  ASSUME IntegrityInv, Restart PROVE IntegrityInv'
<1>1. /\ UNCHANGED << workflow, bindings, journal, ledger, session, passes >>
      /\ fenced' = {} /\ driver' = [d \in Drivers |-> Idle]
      /\ fate' = [x \in Sessions |->
                    IF x \in InFlight /\ fate[x] \in {"none", "refused"} THEN "leaked" ELSE fate[x]]
  BY DEF Restart
<1>2. TypeInv'
  <2>1. driver' \in [Drivers -> CallRecords]
    BY <1>1, IdleFits
  <2>2. fate' \in [Sessions -> Fates]
    BY <1>1 DEF IntegrityInv, TypeInv, Fates
  <2> QED BY <1>1, <2>1, <2>2 DEF IntegrityInv, TypeInv
<1>3. FencedHaveLines' /\ BindingsProgress' /\ JournalIsTrue' /\ LedgerIsTrue'
  BY <1>1, FilesKept DEF IntegrityInv
<1>4. WorkIsOfARun'
  BY <1>1, IdleFits DEF IntegrityInv, WorkIsOfARun, RunStarted
<1>5. \A x \in InFlight : x \in Sessions /\ session[x] # "absent"
  BY OwnSession DEF InFlight, InFlightCall, InFlightPoints
<1>6. CallsFit'
  <2>1. \A d \in Drivers : CallFits(driver[d])'
    BY <1>1, IdleFits DEF CallFits, ObservingPoints
  <2>2. \A d \in Drivers : ~InFlightCall(d)'
    BY <1>1, IdleFits DEF InFlightCall
  <2>3. \A x \in Sessions : session'[x] = "absent" => fate'[x] = "none"
    BY <1>1, <1>5 DEF IntegrityInv, CallsFit
  <2> QED BY <2>1, <2>2, <2>3 DEF CallsFit
<1>7. NoSilentLeak'
  <2> SUFFICES ASSUME NEW x \in Sessions, session[x] \in {"live", "completed", "ended"}
               PROVE  fate'[x] \in {"bound", "in_doubt", "leaked"}
    BY <1>1 DEF NoSilentLeak
  <2>1. fate[x] \in Fates
    BY DEF IntegrityInv, TypeInv
  <2>2. fate[x] \in {"bound", "in_doubt", "leaked"} \/ x \in InFlight
    BY DEF IntegrityInv, NoSilentLeak
  <2> QED BY <1>1, <2>1, <2>2 DEF Fates
<1> QED BY <1>2, <1>3, <1>4, <1>6, <1>7 DEF IntegrityInv

-----------------------------------------------------------------------------
(* The steps that add a line *)

LEMMA BindStep ==
  ASSUME IntegrityInv, NEW d \in Drivers, Bind(d) PROVE IntegrityInv'
<1>1. /\ driver[d].pc = "created" /\ RunStarted /\ CallFits(driver[d]) /\ driver[d] \in CallRecords
      /\ InFlightCall(d)
  BY CallsAreOfARun DEF Bind, InFlightCall, InFlightPoints
<1>2. PICK b : b = [attempt |-> driver[d].attempt, sessionId |-> driver[d].sessionId]
  OBVIOUS
<1>3. /\ b \in BindingLines /\ b.attempt \in Nat /\ b.attempt <= workflow.attempt
      /\ b.attempt = driver[d].attempt /\ b.sessionId = driver[d].sessionId
      /\ b.sessionId \in Sessions /\ session[b.sessionId] # "absent"
      /\ \A e \in Drivers : e # d /\ InFlightCall(e) => driver[e].sessionId # b.sessionId
  <2>1. driver[d].attempt \in Nat /\ driver[d].attempt >= 1
    BY <1>1 DEF CallRecords, CallFits
  <2>2. driver[d].attempt \in Nat \ {0}
    BY <2>1
  <2> QED BY <1>1, <1>2, <2>2, OwnSession DEF BindingLines, CallFits
<1>4. /\ BindAccepts(b) /\ bindings' = Append(bindings, b)
      /\ "bindings" \notin fenced /\ fenced' \in {fenced, fenced \union {"bindings"}}
      /\ UNCHANGED << workflow, journal, ledger, session, passes >>
  BY <1>2 DEF Bind, AppendReturns, AppendThrows
<1>5. PICK r \in CallRecords :
        /\ driver' = [driver EXCEPT ![d] = r] /\ CallFits(r)'
        /\ CallMoves(d, r, b.sessionId)
  <2>1. \/ /\ driver' = [driver EXCEPT ![d] = Idle]
           /\ fate' = [fate EXCEPT ![b.sessionId] = "bound"]
        \/ /\ driver' = [driver EXCEPT ![d].pc = "aborting"]
           /\ fate' = [fate EXCEPT ![b.sessionId] = "in_doubt"]
    BY <1>2 DEF Bind
  <2>2. session \in [Sessions -> SessionStatuses] /\ fate \in [Sessions -> Fates]
    BY DEF IntegrityInv, TypeInv
  <2>3. CASE /\ driver' = [driver EXCEPT ![d] = Idle]
             /\ fate' = [fate EXCEPT ![b.sessionId] = "bound"]
    <3>1. CallMoves(d, Idle, b.sessionId)
      BY <1>3, <1>4, <2>2, <2>3, IdleFits DEF CallMoves, Fates
    <3> QED BY <2>3, <3>1, IdleFits
  <2>4. CASE /\ driver' = [driver EXCEPT ![d].pc = "aborting"]
             /\ fate' = [fate EXCEPT ![b.sessionId] = "in_doubt"]
    <3>1. PICK r : r = [driver[d] EXCEPT !.pc = "aborting"]
      OBVIOUS
    <3>2. /\ r \in CallRecords /\ r.pc = "aborting" /\ r.sessionId = b.sessionId
          /\ r.attempt = driver[d].attempt /\ r.pc \in InFlightPoints
      BY <1>1, <1>3, <3>1 DEF CallRecords, InFlightPoints
    <3>3. driver' = [driver EXCEPT ![d] = r]
      BY <2>4, <3>1
    <3>4. CallMoves(d, r, b.sessionId)
      BY <1>3, <1>4, <2>2, <2>4, <3>2, <3>3 DEF CallMoves, Fates
    <3>5. fate'[b.sessionId] = "in_doubt" /\ session'[b.sessionId] # "absent"
      BY <1>3, <1>4, <2>2, <2>4
    <3>6. CallFits(r)'
      BY <1>1, <1>3, <1>4, <3>2, <3>5 DEF CallFits, ObservingPoints, InFlightPoints
    <3> QED BY <3>2, <3>3, <3>4, <3>6
  <2> QED BY <2>1, <2>3, <2>4
<1>6. CallsFit' /\ NoSilentLeak'
  BY <1>3, <1>4, <1>5, CallsStayFit DEF IntegrityInv, TypeInv
<1>7. /\ bindings \in Seq(BindingLines) /\ Len(bindings) \in Nat
      /\ bindings' \in Seq(BindingLines) /\ bindings' # << >>
      /\ DOMAIN bindings = 1..Len(bindings) /\ DOMAIN bindings' = 1..(Len(bindings) + 1)
      /\ \A n \in 1..Len(bindings) : bindings'[n] = bindings[n]
      /\ bindings'[Len(bindings) + 1] = b
  BY <1>3, <1>4, AppendedLine DEF IntegrityInv, TypeInv
<1>8. TypeInv'
  <2>1. driver' \in [Drivers -> CallRecords]
    BY <1>5 DEF IntegrityInv, TypeInv
  <2>2. fate' \in [Sessions -> Fates] /\ session' \in [Sessions -> SessionStatuses]
    BY <1>5 DEF CallMoves
  <2>3. fenced' \subseteq Stores
    BY <1>4 DEF IntegrityInv, TypeInv, Stores
  <2> QED BY <1>4, <1>7, <2>1, <2>2, <2>3 DEF IntegrityInv, TypeInv
<1>9. FencedHaveLines'
  BY <1>4, <1>7 DEF IntegrityInv, FencedHaveLines
<1>10. WorkIsOfARun'
  BY <1>1, <1>4 DEF WorkIsOfARun, RunStarted
<1>11. BindingsProgress'
  <2>1. \A n \in 1..Len(bindings) : bindings[n].attempt < b.attempt
    BY <1>4, <1>7 DEF BindAccepts, BindingsSeen, Seen
  <2>2. BindingsProgress
    BY DEF IntegrityInv
  <2>3. \A n \in DOMAIN bindings' : bindings'[n].attempt <= workflow.attempt
    BY <1>3, <1>7, <2>2 DEF BindingsProgress
  <2>4. ASSUME NEW m \in DOMAIN bindings', NEW n \in DOMAIN bindings', m < n
        PROVE  bindings'[m].attempt < bindings'[n].attempt
    <3>1. m \in 1..Len(bindings)
      BY <1>7, <2>4
    <3>2. CASE n \in 1..Len(bindings)
      BY <1>7, <2>2, <2>4, <3>1, <3>2 DEF BindingsProgress
    <3>3. CASE n = Len(bindings) + 1
      BY <1>7, <2>1, <3>1, <3>3
    <3> QED BY <1>7, <3>2, <3>3
  <2> QED BY <1>4, <2>3, <2>4 DEF BindingsProgress
<1>12. JournalIsTrue' /\ LedgerIsTrue'
  <2>1. "ledger" \in fenced' => "ledger" \in fenced
    BY <1>4
  <2>2. \A m \in DOMAIN bindings : m \in DOMAIN bindings' /\ bindings'[m] = bindings[m]
    BY <1>7
  <2> QED BY <1>4, <2>1, <2>2, LinesStayTrue DEF IntegrityInv
<1> QED BY <1>6, <1>8, <1>9, <1>10, <1>11, <1>12 DEF IntegrityInv

\* The journal takes a true line.
LEMMA JournalGrows ==
  ASSUME IntegrityInv, RunStarted,
         UNCHANGED << workflow, bindings, ledger, session, driver, fate, passes >>,
         NEW e \in JournalEntries, AppendToJournal(e),
         e.attempt <= workflow.attempt,
         e.stage \in {"runtime_bound", "verification_recorded"} => Bound(e.attempt, e.sessionId),
         e.stage = "verification_recorded" /\ e.passed => e.sessionId \in passes,
         e.stage = "workflow_terminal" /\ e.attempt = workflow.attempt =>
           IsTerminal(workflow) /\ e.outcome = workflow.status,
         e.stage = "ledger_finalized" => ledger # NoRecord /\ "ledger" \notin fenced
  PROVE  IntegrityInv'
<1>1. /\ "journal" \notin fenced /\ fenced' \in {fenced, fenced \union {"journal"}}
      /\ JournalSeen = journal /\ journal' = Append(journal, e) /\ IntegrityProgression(journal, e)
  BY DEF AppendToJournal, AppendReturns, AppendThrows, JournalSeen, Seen
<1>2. /\ journal \in Seq(JournalEntries) /\ Len(journal) \in Nat
      /\ journal' \in Seq(JournalEntries) /\ journal' # << >>
      /\ DOMAIN journal = 1..Len(journal) /\ DOMAIN journal' = 1..(Len(journal) + 1)
      /\ Len(journal') = Len(journal) + 1
      /\ \A n \in 1..Len(journal) : journal'[n] = journal[n]
      /\ journal'[Len(journal) + 1] = e
  BY <1>1, AppendedLine DEF IntegrityInv, TypeInv
<1>3. TypeInv' /\ FencedHaveLines'
  <2>1. fenced' \subseteq Stores
    BY <1>1 DEF IntegrityInv, TypeInv, Stores
  <2> QED BY <1>1, <1>2, <2>1 DEF IntegrityInv, TypeInv, FencedHaveLines
<1>4. WorkIsOfARun'
  BY DEF WorkIsOfARun, RunStarted
<1>5. CallsFit' /\ NoSilentLeak'
  <2>1. \A d \in Drivers : CallFits(driver[d])'
    BY DEF IntegrityInv, CallsFit, CallFits
  <2> QED BY <2>1 DEF IntegrityInv, CallsFit, InFlightCall, NoSilentLeak, InFlight
<1>6. BindingsProgress' /\ LedgerIsTrue'
  <2>1. \A a, x : Bound(a, x)' <=> Bound(a, x)
    BY DEF Bound
  <2> QED BY <2>1 DEF IntegrityInv, BindingsProgress, LedgerIsTrue, LedgerMatches
<1>7. ASSUME NEW n \in 1..Len(journal) PROVE EntryIsTrue(n)'
  <2>1. EntryIsTrue(n) /\ journal'[n] = journal[n]
    BY <1>2 DEF IntegrityInv, JournalIsTrue
  <2>2. journal[n].stage # "ledger_finalized"
    BY <1>1, <1>2 DEF IntegrityProgression, Finalized
  <2>3. \E m \in 1..n : journal'[m].attempt = journal'[n].attempt /\ journal'[m].stage = "runtime_bound"
    <3>1. PICK m \in 1..n : journal[m].attempt = journal[n].attempt /\ journal[m].stage = "runtime_bound"
      BY <2>1 DEF EntryIsTrue
    <3>2. m \in 1..Len(journal)
      BY <1>2
    <3>3. journal'[m] = journal[m]
      BY <1>2, <3>2
    <3> QED BY <2>1, <3>1, <3>3
  <2> QED BY <2>1, <2>2, <2>3 DEF EntryIsTrue, Bound
<1>8. PICK k : k = Len(journal) + 1
  OBVIOUS
<1>10. EntryIsTrue(k)'
  <2>1. \E m \in 1..(Len(journal) + 1) :
          journal'[m].attempt = e.attempt /\ journal'[m].stage = "runtime_bound"
    <3>1. CASE e.stage = "runtime_bound"
      BY <1>2, <3>1
    <3>2. CASE e.stage # "runtime_bound"
      <4>1. PICK m \in DOMAIN journal :
              journal[m].stage = "runtime_bound" /\ journal[m].attempt = e.attempt
        BY <1>1, <3>2 DEF IntegrityProgression, HasStage, EntriesFor
      <4> QED BY <1>2, <4>1
    <3> QED BY <3>1, <3>2
  <2>2. /\ journal'[k] = e /\ k = Len(journal') /\ workflow' = workflow /\ passes' = passes
        /\ e.stage = "ledger_finalized" => ledger' # NoRecord /\ "ledger" \notin fenced'
    BY <1>1, <1>2, <1>8
  <2>3. e.stage \in {"runtime_bound", "verification_recorded"} => Bound(e.attempt, e.sessionId)'
    BY DEF Bound
  <2>4. \E m \in 1..k : journal'[m].attempt = e.attempt /\ journal'[m].stage = "runtime_bound"
    BY <1>8, <2>1
  <2>5. IsTerminal(workflow)' <=> IsTerminal(workflow)
    BY DEF IsTerminal
  <2>6. e.stage = "verification_recorded" /\ e.passed => e.sessionId \in passes'
    BY <2>2
  <2>7. e.stage = "ledger_finalized" =>
          \E m \in 1..k : journal'[m].attempt = e.attempt /\ journal'[m].stage = "workflow_terminal"
    <3> SUFFICES ASSUME e.stage = "ledger_finalized"
                 PROVE  \E m \in 1..k : /\ journal'[m].attempt = e.attempt
                                         /\ journal'[m].stage = "workflow_terminal"
      OBVIOUS
    <3>1. PICK m \in DOMAIN journal :
            journal[m].stage = "workflow_terminal" /\ journal[m].attempt = e.attempt
      BY <1>1 DEF IntegrityProgression, EntriesFor
    <3> QED BY <1>2, <1>8, <3>1
  <2> QED BY <2>2, <2>3, <2>4, <2>5, <2>6, <2>7 DEF EntryIsTrue
<1>9. JournalIsTrue'
  <2> SUFFICES ASSUME NEW n \in DOMAIN journal' PROVE EntryIsTrue(n)'
    BY DEF JournalIsTrue
  <2>1. n \in 1..Len(journal) \/ n = k
    BY <1>2, <1>8
  <2> QED BY <1>7, <1>10, <2>1
<1> QED BY <1>3, <1>4, <1>5, <1>6, <1>9 DEF IntegrityInv

\* One session for an attempt.
LEMMA BoundOnce ==
  ASSUME IntegrityInv, NEW a, NEW x, NEW y, Bound(a, x), Bound(a, y)
  PROVE  x = y
<1>1. PICK m \in DOMAIN bindings : bindings[m].attempt = a /\ bindings[m].sessionId = x
  BY DEF Bound
<1>2. PICK n \in DOMAIN bindings : bindings[n].attempt = a /\ bindings[n].sessionId = y
  BY DEF Bound
<1>3. /\ m \in Nat /\ n \in Nat /\ a \in Nat
      /\ m < n => bindings[m].attempt < bindings[n].attempt
      /\ n < m => bindings[n].attempt < bindings[m].attempt
  BY <1>1, LinesTyped DEF IntegrityInv, BindingsProgress
<1>4. m = n
  BY <1>1, <1>2, <1>3
<1> QED BY <1>1, <1>2, <1>4

\* The bindings that a store shows are bindings, and some run has begun.
LEMMA ShownBinding ==
  ASSUME IntegrityInv, NEW a, NEW b \in BindingFor(a)
  PROVE  /\ b \in BindingLines /\ b.attempt = a /\ b.attempt \in Nat /\ b.attempt >= 1
         /\ Bound(a, b.sessionId) /\ b.attempt <= workflow.attempt /\ RunStarted
<1>1. /\ DOMAIN BindingsSeen \subseteq DOMAIN bindings
      /\ \A n \in DOMAIN BindingsSeen : BindingsSeen[n] = bindings[n]
  BY SeenIsPrefix DEF IntegrityInv, TypeInv, FencedHaveLines, BindingsSeen
<1>2. PICK n \in DOMAIN bindings : b = bindings[n] /\ b.attempt = a
  BY <1>1 DEF BindingFor
<1>3. b \in BindingLines /\ b.attempt \in Nat
  BY <1>2, LinesTyped DEF IntegrityInv
<1>4. b.attempt >= 1
  BY <1>3 DEF BindingLines
<1>5. bindings # << >>
  BY <1>2
<1> QED BY <1>2, <1>3, <1>4, <1>5 DEF Bound, IntegrityInv, BindingsProgress, WorkIsOfARun

\* An entry that the journal shows is in the journal.
LEMMA ShownEntry ==
  ASSUME IntegrityInv, NEW stage, NEW a, NEW e \in EntriesFor(JournalSeen, stage, a)
  PROVE  /\ \E n \in DOMAIN JournalSeen : e = JournalSeen[n]
         /\ \E n \in DOMAIN journal : e = journal[n] /\ EntryIsTrue(n)
         /\ e \in JournalEntries /\ e.stage = stage /\ e.attempt = a
<1>1. /\ DOMAIN JournalSeen \subseteq DOMAIN journal
      /\ \A n \in DOMAIN JournalSeen : JournalSeen[n] = journal[n]
  BY SeenIsPrefix DEF IntegrityInv, TypeInv, FencedHaveLines, JournalSeen
<1>2. PICK n \in DOMAIN JournalSeen : /\ e = JournalSeen[n] /\ e.stage = stage /\ e.attempt = a
  BY DEF EntriesFor
<1>3. n \in DOMAIN journal /\ e = journal[n] /\ EntryIsTrue(n)
  BY <1>1, <1>2 DEF IntegrityInv, JournalIsTrue
<1>4. e \in JournalEntries
  BY <1>3, LinesTyped DEF IntegrityInv
<1> QED BY <1>2, <1>3, <1>4

LEMMA RecordRuntimeBoundStep ==
  ASSUME IntegrityInv, RecordRuntimeBound PROVE IntegrityInv'
<1>1. PICK b \in BindingFor(workflow.attempt) :
        AppendToJournal(RuntimeBound(b.attempt, b.sessionId))
  BY DEF RecordRuntimeBound, RuntimeBoundReady
<1>2. PICK e : e = RuntimeBound(b.attempt, b.sessionId)
  OBVIOUS
<1>3. /\ b.attempt \in Nat \ {0} /\ b.attempt <= workflow.attempt /\ RunStarted
      /\ b.sessionId \in Sessions /\ Bound(b.attempt, b.sessionId)
  <2>1. b \in BindingLines /\ b.attempt = workflow.attempt
    BY ShownBinding
  <2> QED BY <2>1, ShownBinding DEF BindingLines
<1>4. /\ e \in JournalEntries /\ e.stage = "runtime_bound"
      /\ e.attempt = b.attempt /\ e.sessionId = b.sessionId
  BY <1>2, <1>3 DEF RuntimeBound, JournalEntries, Stages
<1>5. /\ UNCHANGED << workflow, bindings, ledger, session, driver, fate, passes >>
      /\ AppendToJournal(e)
  BY <1>1, <1>2 DEF RecordRuntimeBound
<1> QED BY <1>3, <1>4, <1>5, JournalGrows

LEMMA RecordVerificationStep ==
  ASSUME IntegrityInv, NEW d \in Drivers, RecordVerification(d) PROVE IntegrityInv'
<1>1. /\ driver[d].pc = "verified" /\ RunStarted /\ CallFits(driver[d]) /\ driver[d] \in CallRecords
      /\ driver[d].attempt \in Nat \ {0} /\ driver[d].sessionId \in Sessions
  <2>1. driver[d].attempt \in Nat /\ driver[d].attempt >= 1
    BY CallsAreOfARun DEF RecordVerification, CallRecords, CallFits
  <2> QED BY <2>1, CallsAreOfARun DEF RecordVerification, CallFits, ObservingPoints
<1>2. PICK e : e = VerificationRecorded(driver[d].attempt, driver[d].sessionId, driver[d].passed)
  OBVIOUS
<1>3. PICK b : /\ b \in BindingFor(driver[d].attempt)
               /\ b = [attempt |-> driver[d].attempt, sessionId |-> driver[d].sessionId]
  BY DEF RecordVerification
<1>4. Bound(driver[d].attempt, driver[d].sessionId)
  BY <1>3, ShownBinding
<1>5. e \in JournalEntries
  BY <1>1, <1>2 DEF VerificationRecorded, JournalEntries, Stages, CallRecords
<1>6. /\ e.stage = "verification_recorded"
      /\ e.attempt = driver[d].attempt /\ e.sessionId = driver[d].sessionId
  BY <1>2 DEF VerificationRecorded
<1>7. e.passed = driver[d].passed
  BY <1>2 DEF VerificationRecorded
<1>8. e.passed => e.sessionId \in passes
  BY <1>1, <1>6, <1>7, Zenon DEF CallFits
<1>9. e.attempt <= workflow.attempt
  BY <1>1, <1>6 DEF CallFits
<1>10. /\ UNCHANGED << workflow, bindings, ledger, session, driver, fate, passes >>
       /\ AppendToJournal(e)
  BY <1>2 DEF RecordVerification
<1> QED BY <1>1, <1>4, <1>5, <1>6, <1>8, <1>9, <1>10, JournalGrows

LEMMA RecordWorkflowTerminalStep ==
  ASSUME IntegrityInv, RecordWorkflowTerminal PROVE IntegrityInv'
<1>1. PICK b : b \in BindingFor(workflow.attempt)
  BY DEF RecordWorkflowTerminal, WorkflowTerminalReady
<1>2. RunStarted /\ workflow.attempt \in Nat \ {0} /\ IsTerminal(workflow)
  <2>1. RunStarted /\ workflow.attempt \in Nat /\ workflow.attempt >= 1
    BY <1>1, ShownBinding
  <2> QED BY <2>1 DEF RecordWorkflowTerminal, WorkflowTerminalReady
<1>3. PICK e : e = WorkflowTerminal(workflow.attempt, workflow.status)
  OBVIOUS
<1>4. /\ e \in JournalEntries /\ e.stage = "workflow_terminal"
      /\ e.attempt = workflow.attempt /\ e.outcome = workflow.status
  BY <1>2, <1>3 DEF WorkflowTerminal, JournalEntries, Stages, Outcomes, IsTerminal
<1>5. /\ UNCHANGED << workflow, bindings, ledger, session, driver, fate, passes >>
      /\ AppendToJournal(e)
  BY <1>3 DEF RecordWorkflowTerminal
<1>6. e.attempt <= workflow.attempt
  BY <1>2, <1>4
<1> QED BY <1>2, <1>4, <1>5, <1>6, JournalGrows

LEMMA RecordLedgerFinalizedStep ==
  ASSUME IntegrityInv, RecordLedgerFinalized PROVE IntegrityInv'
<1>1. PICK b : b \in BindingFor(workflow.attempt)
  BY DEF RecordLedgerFinalized, LedgerFinalizedReady
<1>2. RunStarted /\ workflow.attempt \in Nat \ {0}
  <2>1. RunStarted /\ workflow.attempt \in Nat /\ workflow.attempt >= 1
    BY <1>1, ShownBinding
  <2> QED BY <2>1
<1>3. /\ ledger # NoRecord /\ "ledger" \notin fenced /\ LedgerSeen = ledger
      /\ ledger.outcome \in Outcomes
  BY DEF RecordLedgerFinalized, LedgerFinalizedReady, LedgerSeen, IntegrityInv, TypeInv, LedgerRecords
<1>4. PICK e : e = LedgerFinalized(workflow.attempt, ledger.outcome)
  OBVIOUS
<1>5. /\ e \in JournalEntries /\ e.stage = "ledger_finalized" /\ e.attempt = workflow.attempt
  BY <1>2, <1>3, <1>4 DEF LedgerFinalized, JournalEntries, Stages
<1>6. /\ UNCHANGED << workflow, bindings, ledger, session, driver, fate, passes >>
      /\ AppendToJournal(e)
  BY <1>3, <1>4 DEF RecordLedgerFinalized
<1>7. e.attempt <= workflow.attempt
  BY <1>2, <1>5
<1> QED BY <1>2, <1>3, <1>5, <1>6, <1>7, JournalGrows

LEMMA AppendTerminalStep ==
  ASSUME IntegrityInv, AppendTerminal PROVE IntegrityInv'
<1>1. PICK run \in Snapshots : Finalizable(run) /\ MayFinalize(run) /\ WriteLedger(run)
  BY DEF AppendTerminal
<1>2. PICK b \in BindingFor(run.attempt) :
        run.status = "succeeded" =>
          \E v \in Verifications(run.attempt) : v.passed /\ VerificationMatches(v, b)
  BY <1>1 DEF MayFinalize
<1>3. /\ RunStarted /\ run.attempt \in Nat /\ run.attempt >= 1
      /\ run.attempt <= workflow.attempt /\ Bound(run.attempt, b.sessionId)
  BY <1>2, ShownBinding
<1>4. workflow \in Runs
  BY <1>3 DEF RunStarted, IntegrityInv, TypeInv
<1>5. /\ run.riskClass \in RiskClasses /\ run.status \in Outcomes
      /\ run.failureReason \in Reasons \union {NoReason}
      /\ \/ run = workflow
         \/ run.attempt < workflow.attempt /\ run.status = "failed"
  <2>1. CASE run = workflow
    BY <1>1, <1>4, <2>1 DEF Runs, Finalizable, IsTerminal, Outcomes
  <2>2. ASSUME NEW a \in 1..(workflow.attempt - 1), NEW reason \in Reasons,
               run = [workflow EXCEPT !.status = "failed", !.attempt = a, !.failureReason = reason]
        PROVE  /\ run.riskClass \in RiskClasses /\ run.status = "failed"
               /\ run.failureReason \in Reasons /\ run.attempt < workflow.attempt
    <3>1. /\ run.riskClass = workflow.riskClass /\ run.status = "failed"
          /\ run.failureReason = reason /\ run.attempt = a
      BY <1>4, <2>2 DEF Runs
    <3> QED BY <1>4, <3>1 DEF Runs
  <2>3. \/ run = workflow
        \/ \E a \in 1..(workflow.attempt - 1), reason \in Reasons :
             run = [workflow EXCEPT !.status = "failed", !.attempt = a, !.failureReason = reason]
    BY DEF Snapshots
  <2>4. "failed" \in Outcomes
    BY DEF Outcomes
  <2> QED BY <2>1, <2>2, <2>3, <2>4, Zenon
<1>6. /\ ledger' = [riskClass |-> run.riskClass, outcome |-> run.status,
                    failureReason |-> run.failureReason, attempt |-> run.attempt]
      /\ "ledger" \notin fenced /\ fenced' \in {fenced, fenced \union {"ledger"}}
      /\ UNCHANGED << workflow, bindings, journal, session, driver, fate, passes >>
      /\ ledger = NoRecord
  BY <1>1 DEF WriteLedger, AppendReturns, AppendThrows, AppendTerminal, LedgerSeen
<1>7. TypeInv'
  <2>1. ledger' \in LedgerRecords
    BY <1>3, <1>5, <1>6 DEF LedgerRecords
  <2>2. fenced' \subseteq Stores
    BY <1>6 DEF IntegrityInv, TypeInv, Stores
  <2> QED BY <1>6, <2>1, <2>2 DEF IntegrityInv, TypeInv
<1>8. FencedHaveLines' /\ BindingsProgress'
  BY <1>6 DEF IntegrityInv, FencedHaveLines, BindingsProgress
<1>9. WorkIsOfARun'
  BY <1>3, <1>6 DEF WorkIsOfARun, RunStarted
<1>10. CallsFit' /\ NoSilentLeak'
  <2>1. \A d \in Drivers : CallFits(driver[d])'
    BY <1>6 DEF IntegrityInv, CallsFit, CallFits
  <2> QED BY <1>6, <2>1 DEF IntegrityInv, CallsFit, InFlightCall, NoSilentLeak, InFlight
<1>11. JournalIsTrue'
  <2>1. ASSUME NEW n \in DOMAIN journal PROVE EntryIsTrue(n)'
    <3>1. EntryIsTrue(n) /\ journal[n].stage # "ledger_finalized"
      BY <1>6 DEF IntegrityInv, JournalIsTrue, EntryIsTrue
    <3> QED BY <1>6, <3>1 DEF EntryIsTrue, Bound
  <2> QED BY <1>6, <2>1 DEF JournalIsTrue
<1>12. LedgerIsTrue'
  <2>1. /\ ledger'.attempt = run.attempt /\ ledger'.outcome = run.status
        /\ ledger'.riskClass = run.riskClass /\ ledger'.failureReason = run.failureReason
    BY <1>6
  <2>2. run.status = "succeeded" => b.sessionId \in passes
    <3> SUFFICES ASSUME run.status = "succeeded" PROVE b.sessionId \in passes
      OBVIOUS
    <3>1. PICK v \in Verifications(run.attempt) : v.passed /\ v.sessionId = b.sessionId
      BY <1>2 DEF VerificationMatches
    <3>2. ASSUME NEW e \in Drivers, driver[e].pc = "verified",
                 v = [sessionId |-> driver[e].sessionId, passed |-> driver[e].passed]
          PROVE  v.sessionId \in passes
      <4>1. v.sessionId = driver[e].sessionId
        BY <3>2
      <4>2. v.passed = driver[e].passed
        BY <3>2
      <4>3. driver[e].passed
        BY <3>1, <4>2
      <4>4. CallFits(driver[e])
        BY DEF IntegrityInv, CallsFit
      <4> QED BY <3>2, <4>1, <4>3, <4>4 DEF CallFits
    <3>3. ASSUME NEW e \in EntriesFor(JournalSeen, "verification_recorded", run.attempt),
                 v = [sessionId |-> e.sessionId, passed |-> e.passed]
          PROVE  v.sessionId \in passes
      <4>1. v.sessionId = e.sessionId
        BY <3>3
      <4>2. v.passed = e.passed
        BY <3>3
      <4>3. e.passed
        BY <3>1, <4>2
      <4>4. PICK n \in DOMAIN journal : e = journal[n] /\ EntryIsTrue(n)
        BY ShownEntry
      <4>5. e.stage = "verification_recorded"
        BY ShownEntry
      <4> QED BY <4>1, <4>3, <4>4, <4>5 DEF EntryIsTrue
    <3> QED BY <3>1, <3>2, <3>3 DEF Verifications
  <2>3. run.status = "succeeded" => \E x \in passes : Bound(run.attempt, x)'
    BY <1>3, <1>6, <2>2 DEF Bound
  <2>4. run = workflow => IsTerminal(workflow)' /\ LedgerMatches(ledger, workflow)'
    BY <1>1, <1>6, <2>1 DEF Finalizable, IsTerminal, LedgerMatches
  <2>5. run.attempt = workflow.attempt => run = workflow
    BY <1>3, <1>4, <1>5 DEF Runs
  <2>6. run.attempt < workflow.attempt => run.status = "failed"
    BY <1>3, <1>4, <1>5 DEF Runs
  <2>7. ledger'.outcome = "succeeded" => \E x \in passes' : Bound(ledger.attempt, x)'
    BY <1>6, <2>1, <2>3 DEF Bound
  <2> QED BY <1>3, <1>6, <2>1, <2>4, <2>5, <2>6, <2>7 DEF LedgerIsTrue
<1> QED BY <1>7, <1>8, <1>9, <1>10, <1>11, <1>12 DEF IntegrityInv

-----------------------------------------------------------------------------
(* The invariant *)

LEMMA InitIntegrity == Init => IntegrityInv
<1> SUFFICES ASSUME Init PROVE IntegrityInv
  OBVIOUS
<1>1. /\ workflow = NoRun /\ bindings = << >> /\ journal = << >> /\ ledger = NoRecord
      /\ fenced = {} /\ session = [x \in Sessions |-> "absent"]
      /\ driver = [d \in Drivers |-> Idle] /\ fate = [x \in Sessions |-> "none"] /\ passes = {}
  BY DEF Init
<1>2. TypeInv
  <2>1. driver \in [Drivers -> CallRecords]
    BY <1>1, IdleFits
  <2>2. << >> \in Seq(BindingLines) /\ << >> \in Seq(JournalEntries)
    OBVIOUS
  <2> QED BY <1>1, <2>1, <2>2 DEF TypeInv, SessionStatuses, Fates
<1>3. DOMAIN bindings = {} /\ DOMAIN journal = {}
  BY <1>1
<1>4. CallsFit
  BY <1>1, IdleFits DEF CallsFit, InFlightCall
<1> QED BY <1>1, <1>2, <1>3, <1>4, IdleFits
        DEF IntegrityInv, FencedHaveLines, WorkIsOfARun, NoSilentLeak, BindingsProgress,
            JournalIsTrue, LedgerIsTrue

LEMMA StutterKeeps ==
  ASSUME IntegrityInv, UNCHANGED vars PROVE IntegrityInv'
<1>1. UNCHANGED << workflow, bindings, journal, ledger, fenced, session, driver, fate, passes >>
  BY DEF vars
<1>2. FencedHaveLines' /\ BindingsProgress' /\ JournalIsTrue' /\ LedgerIsTrue'
  BY <1>1, FilesKept DEF IntegrityInv
<1>3. TypeInv' /\ WorkIsOfARun'
  BY <1>1 DEF IntegrityInv, TypeInv, WorkIsOfARun, RunStarted
<1>4. CallsFit' /\ NoSilentLeak'
  <2>1. \A d \in Drivers : CallFits(driver[d])'
    BY <1>1 DEF IntegrityInv, CallsFit, CallFits
  <2> QED BY <1>1, <2>1 DEF IntegrityInv, CallsFit, InFlightCall, NoSilentLeak, InFlight
<1> QED BY <1>2, <1>3, <1>4 DEF IntegrityInv

\* The stores say nothing that is not so, and what is under way fits what they
\* say, whatever the calls, the provider and the failures do.
THEOREM IntegrityInvariant == Spec => []IntegrityInv
<1>1. ASSUME IntegrityInv, Next PROVE IntegrityInv'
  <2>1. CASE WorkflowStep
    BY <1>1, <2>1, WorkflowStepKeeps
  <2>2. ASSUME NEW d \in Drivers,
               \/ BeginCreate(d) \/ (\E x \in Sessions : ProviderCreates(d, x))
               \/ CreateFails(d) \/ Bind(d) \/ BindRefused(d)
               \/ CleanupAbort(d) \/ CleanupDestroy(d)
               \/ BeginReconcile(d) \/ Observe(d)
               \/ Verify(d) \/ Drop(d) \/ RecordVerification(d)
        PROVE  IntegrityInv'
    BY <1>1, <2>2, BeginCreateStep, ProviderCreatesStep, CreateFailsStep, BindStep, BindRefusedStep,
       CleanupAbortStep, CleanupDestroyStep, BeginReconcileStep, ObserveStep, VerifyStep, DropStep,
       RecordVerificationStep
  <2>3. ASSUME NEW x \in Sessions, ProviderEnds(x) PROVE IntegrityInv'
    BY <1>1, <2>3, ProviderEndsStep
  <2>4. CASE RecordRuntimeBound \/ RecordWorkflowTerminal \/ RecordLedgerFinalized
    BY <1>1, <2>4, RecordRuntimeBoundStep, RecordWorkflowTerminalStep, RecordLedgerFinalizedStep
  <2>5. CASE AppendTerminal
    BY <1>1, <2>5, AppendTerminalStep
  <2>6. CASE Restart
    BY <1>1, <2>6, RestartStep
  <2> QED BY <1>1, <2>1, <2>2, <2>3, <2>4, <2>5, <2>6 DEF Next
<1> QED BY <1>1, InitIntegrity, StutterKeeps, PTL DEF Spec

\* A run that planWorkflowRecovery lets a restarted process start has no
\* session and no call that could make one.
THEOREM NoWorkBeforeStart == Spec => []AutomaticStartIsSafe
<1>1. IntegrityInv => AutomaticStartIsSafe
  <2> SUFFICES ASSUME IntegrityInv, workflow = NoRun \/ AutomaticResumeAllowed(workflow)
               PROVE  /\ \A x \in Sessions : session[x] = "absent"
                      /\ \A d \in Drivers : driver[d].pc = "idle"
    BY DEF AutomaticStartIsSafe
  <2>1. ~RunStarted
    BY ResumeIsForQueued DEF RunStarted, IntegrityInv, TypeInv
  <2> QED BY <2>1, NothingBeforeStart
<1> QED BY <1>1, IntegrityInvariant, PTL

\* No race between calls, retries and restarts loses a session that is not
\* reported or beyond the process's knowledge.
THEOREM SessionsAreAccountedFor == Spec => []NoSilentLeak
<1>1. IntegrityInv => NoSilentLeak
  BY DEF IntegrityInv
<1> QED BY <1>1, IntegrityInvariant, PTL

\* A recorded verdict is about the session that is bound for its attempt.
THEOREM VerdictsAreForBoundSessions == Spec => []VerdictIsForBoundSession
<1>1. IntegrityInv => VerdictIsForBoundSession
  <2> SUFFICES ASSUME IntegrityInv, NEW n \in DOMAIN journal,
                      journal[n].stage = "verification_recorded"
               PROVE  /\ journal[n].passed => journal[n].sessionId \in passes
                      /\ \E f \in EntriesFor(journal, "runtime_bound", journal[n].attempt) :
                           f.sessionId = journal[n].sessionId
                      /\ Bound(journal[n].attempt, journal[n].sessionId)
    BY DEF VerdictIsForBoundSession, Bound
  <2>1. EntryIsTrue(n)
    BY DEF IntegrityInv, JournalIsTrue
  <2>2. Bound(journal[n].attempt, journal[n].sessionId)
    BY <2>1 DEF EntryIsTrue
  <2>3. PICK m \in 1..n : /\ journal[m].attempt = journal[n].attempt
                          /\ journal[m].stage = "runtime_bound"
    BY <2>1 DEF EntryIsTrue
  <2>4. m \in DOMAIN journal
    BY LinesTyped DEF IntegrityInv
  <2>5. Bound(journal[m].attempt, journal[m].sessionId)
    BY <2>3, <2>4 DEF IntegrityInv, JournalIsTrue, EntryIsTrue
  <2>6. journal[m].sessionId = journal[n].sessionId
    BY <2>2, <2>3, <2>5, BoundOnce
  <2>7. journal[m] \in EntriesFor(journal, "runtime_bound", journal[n].attempt)
    BY <2>3, <2>4 DEF EntriesFor
  <2> QED BY <2>1, <2>2, <2>6, <2>7 DEF EntryIsTrue
<1> QED BY <1>1, IntegrityInvariant, PTL

\* A success in the ledger is of a run that succeeded, in an attempt whose
\* bound session a verifier passed.
THEOREM LedgerSuccessIsEarned == Spec => []SuccessWasVerified
<1>1. IntegrityInv => SuccessWasVerified
  <2> SUFFICES ASSUME IntegrityInv, ledger # NoRecord, ledger.outcome = "succeeded"
               PROVE  /\ workflow.status = "succeeded"
                      /\ \E n \in DOMAIN bindings : /\ bindings[n].attempt = workflow.attempt
                                                    /\ bindings[n].sessionId \in passes
    BY DEF SuccessWasVerified
  <2>1. ledger.attempt \in Nat /\ RunStarted /\ workflow.attempt \in Nat
    BY DEF IntegrityInv, TypeInv, LedgerRecords, WorkIsOfARun, RunStarted, Runs
  <2>2. ledger.attempt = workflow.attempt
    BY <2>1 DEF IntegrityInv, LedgerIsTrue
  <2>3. workflow.status = "succeeded"
    BY <2>2 DEF IntegrityInv, LedgerIsTrue, LedgerMatches
  <2>4. PICK x \in passes : Bound(ledger.attempt, x)
    BY DEF IntegrityInv, LedgerIsTrue
  <2> QED BY <2>2, <2>3, <2>4 DEF Bound
<1> QED BY <1>1, IntegrityInvariant, PTL

-----------------------------------------------------------------------------
(* What inspect says *)

\* What the journal shows about the present attempt.
LEMMA ShownJournal ==
  ASSUME IntegrityInv, workflow # NoRun
  PROVE  /\ workflow \in Runs /\ workflow.attempt \in Nat
         /\ \A n \in DOMAIN JournalSeen : /\ JournalSeen[n].attempt \in Nat
                                          /\ JournalSeen[n].attempt <= workflow.attempt
         /\ \A n \in DOMAIN JournalSeen :
              JournalSeen[n].attempt = workflow.attempt => Has("runtime_bound")
         /\ Has("workflow_terminal") =>
              \E e \in EntriesFor(JournalSeen, "workflow_terminal", workflow.attempt) :
                IsTerminal(workflow) /\ e.outcome = workflow.status
         /\ Has("ledger_finalized") =>
              /\ ledger # NoRecord /\ "ledger" \notin fenced /\ "journal" \notin fenced
              /\ Has("workflow_terminal")
         /\ \A n \in DOMAIN BindingsSeen : BindingsSeen[n].attempt <= workflow.attempt
<1>1. /\ journal \in Seq(JournalEntries) /\ bindings \in Seq(BindingLines)
      /\ "journal" \in fenced => journal # << >>
      /\ "bindings" \in fenced => bindings # << >>
  BY DEF IntegrityInv, TypeInv, FencedHaveLines
<1>2. /\ DOMAIN JournalSeen = 1..Len(JournalSeen) /\ DOMAIN journal = 1..Len(journal)
      /\ Len(journal) \in Nat
      /\ Len(JournalSeen) = IF "journal" \in fenced THEN Len(journal) - 1 ELSE Len(journal)
      /\ DOMAIN JournalSeen \subseteq DOMAIN journal
      /\ \A n \in DOMAIN JournalSeen : JournalSeen[n] = journal[n]
  BY <1>1, SeenIsPrefix DEF JournalSeen
<1>12. JournalSeen \in Seq(JournalEntries) /\ Len(JournalSeen) \in Nat
  BY <1>1, SeenIsPrefix, LenProperties DEF JournalSeen
<1>3. /\ DOMAIN BindingsSeen \subseteq DOMAIN bindings
      /\ \A n \in DOMAIN BindingsSeen : BindingsSeen[n] = bindings[n]
  BY <1>1, SeenIsPrefix DEF BindingsSeen
<1>4. workflow \in Runs /\ workflow.attempt \in Nat
  BY DEF IntegrityInv, TypeInv, Runs
<1>5. \A n \in DOMAIN JournalSeen :
        /\ n \in DOMAIN journal /\ EntryIsTrue(n) /\ JournalSeen[n] = journal[n]
        /\ journal[n].attempt \in Nat
  BY <1>2, LinesTyped DEF IntegrityInv, JournalIsTrue
<1>6. ASSUME NEW n \in DOMAIN JournalSeen, NEW m \in 1..n, NEW stage,
             journal[m].attempt = workflow.attempt, journal[m].stage = stage
      PROVE  Has(stage)
  <2>1. n \in 1..Len(JournalSeen)
    BY <1>2
  <2>2. m \in 1..Len(JournalSeen)
    BY <1>12, <2>1
  <2>3. m \in DOMAIN JournalSeen
    BY <1>2, <2>2
  <2> QED BY <1>2, <1>6, <2>3 DEF Has, HasStage, EntriesFor
<1>7. ASSUME NEW n \in DOMAIN JournalSeen
      PROVE  JournalSeen[n].attempt <= workflow.attempt
  BY <1>5 DEF EntryIsTrue
<1>8. ASSUME NEW n \in DOMAIN JournalSeen, JournalSeen[n].attempt = workflow.attempt
      PROVE  Has("runtime_bound")
  <2>1. PICK m \in 1..n : journal[m].attempt = workflow.attempt /\ journal[m].stage = "runtime_bound"
    BY <1>5, <1>8 DEF EntryIsTrue
  <2> QED BY <1>6, <2>1
<1>9. ASSUME Has("workflow_terminal")
      PROVE  \E e \in EntriesFor(JournalSeen, "workflow_terminal", workflow.attempt) :
               IsTerminal(workflow) /\ e.outcome = workflow.status
  <2>1. PICK e : e \in EntriesFor(JournalSeen, "workflow_terminal", workflow.attempt)
    BY <1>9 DEF Has, HasStage
  <2>2. PICK n \in DOMAIN journal : e = journal[n] /\ EntryIsTrue(n)
    BY <2>1, ShownEntry
  <2>3. e.stage = "workflow_terminal" /\ e.attempt = workflow.attempt
    BY <2>1, ShownEntry
  <2> QED BY <2>1, <2>2, <2>3 DEF EntryIsTrue
<1>10. ASSUME Has("ledger_finalized")
       PROVE  /\ ledger # NoRecord /\ "ledger" \notin fenced /\ "journal" \notin fenced
              /\ Has("workflow_terminal")
  <2>1. PICK n \in DOMAIN JournalSeen : /\ JournalSeen[n].stage = "ledger_finalized"
                                        /\ JournalSeen[n].attempt = workflow.attempt
    BY <1>10 DEF Has, HasStage, EntriesFor
  <2>2. /\ n = Len(journal) /\ ledger # NoRecord /\ "ledger" \notin fenced
        /\ \E m \in 1..n : /\ journal[m].attempt = workflow.attempt
                           /\ journal[m].stage = "workflow_terminal"
    BY <1>5, <2>1 DEF EntryIsTrue
  <2>3. n \in 1..Len(JournalSeen)
    BY <1>2
  <2>4. "journal" \notin fenced
    <3> SUFFICES ASSUME "journal" \in fenced PROVE FALSE
      OBVIOUS
    <3>1. Len(JournalSeen) = Len(journal) - 1
      BY <1>2
    <3> QED BY <1>2, <2>2, <2>3, <3>1
  <2> QED BY <1>6, <2>2, <2>4
<1>11. \A n \in DOMAIN BindingsSeen : BindingsSeen[n].attempt <= workflow.attempt
  BY <1>3 DEF IntegrityInv, BindingsProgress
<1> QED BY <1>4, <1>5, <1>7, <1>8, <1>9, <1>10, <1>11

\* Before the run exists the stores are empty, and inspect finds nothing.
LEMMA NothingIsFound ==
  ASSUME IntegrityInv, workflow = NoRun
  PROVE  Disposition = "not_found"
<1>1. ~RunStarted
  BY DEF RunStarted
<1>2. bindings = << >> /\ journal = << >> /\ ledger = NoRecord
  BY <1>1, NothingBeforeStart
<1>3. "bindings" \notin fenced /\ "journal" \notin fenced
  BY <1>2 DEF IntegrityInv, FencedHaveLines
<1> QED BY <1>2, <1>3 DEF Disposition, BindingsSeen, JournalSeen, LedgerSeen, Seen

\* A human is asked for only when work may have been done without a binding,
\* when success was claimed without a PASS, or after a retry behind the ledger.
THEOREM InterventionHasAReason == Spec => []InterventionIsExplained
<1>1. IntegrityInv => InterventionIsExplained
  <2> SUFFICES ASSUME IntegrityInv, Disposition = "manual_intervention", IsBound,
                      ~(workflow.status = "succeeded" /\ ~HasPassed(JournalSeen, workflow.attempt))
               PROVE  LedgerSeen # NoRecord /\ LedgerSeen.attempt < workflow.attempt
    BY DEF InterventionIsExplained
  <2>1. workflow # NoRun
    BY NothingIsFound
  <2>2. NextStep # "manual_intervention"
    BY DEF NextStep
  <2>3. Contradiction
    BY <2>1, <2>2 DEF Disposition
  <2>4. \A n \in DOMAIN BindingsSeen : ~(BindingsSeen[n].attempt > workflow.attempt)
    <3>1. \A n \in DOMAIN BindingsSeen : BindingsSeen[n].attempt \in Nat
      BY SeenIsPrefix, LinesTyped DEF BindingsSeen, IntegrityInv, TypeInv, FencedHaveLines
    <3> QED BY <2>1, <3>1, ShownJournal
  <2>5. ~(Has("workflow_terminal") /\ ~IsTerminal(workflow))
    BY <2>1, ShownJournal
  <2>6. ~(Has("ledger_finalized") /\ LedgerSeen = NoRecord)
    BY <2>1, ShownJournal DEF LedgerSeen
  <2>7. LedgerSeen # NoRecord /\ ~LedgerMatches(LedgerSeen, workflow)
    BY <2>3, <2>4, <2>5, <2>6 DEF Contradiction
  <2>8. /\ LedgerSeen = ledger /\ ledger.attempt \in Nat /\ workflow.attempt \in Nat
        /\ ledger.attempt <= workflow.attempt /\ ledger.attempt # workflow.attempt
    BY <2>1, <2>7, ShownJournal DEF LedgerSeen, IntegrityInv, TypeInv, LedgerRecords, LedgerIsTrue
  <2> QED BY <2>7, <2>8
<1> QED BY <1>1, IntegrityInvariant, PTL

\* The milestone that inspect names would be accepted by the journal.
THEOREM RepairsWork == Spec => []RepairsAreAccepted
<1>1. IntegrityInv => RepairsAreAccepted
  <2> SUFFICES ASSUME IntegrityInv, ~Finalized(JournalSeen) \/ Has("ledger_finalized")
               PROVE  RepairAccepted
    BY DEF RepairsAreAccepted
  <2>1. CASE workflow = NoRun
    BY <2>1, NothingIsFound DEF RepairAccepted
  <2>2. CASE workflow # NoRun /\ Contradiction
    BY <2>2 DEF Disposition, RepairAccepted
  <2>3. CASE workflow # NoRun /\ ~Contradiction
    <3>1. Disposition = NextStep
      BY <2>3 DEF Disposition
    <3>2. CASE IsBound /\ ~Has("runtime_bound")
      <4>1. Disposition = "record_runtime_binding_milestone"
        BY <3>1, <3>2 DEF NextStep
      <4>2. PICK b : b \in BindingFor(workflow.attempt)
        BY <3>2 DEF IsBound
      <4>3. PICK e : e = RuntimeBound(b.attempt, b.sessionId)
        OBVIOUS
      <4>4. e.stage = "runtime_bound" /\ e.attempt = workflow.attempt
        BY <4>2, <4>3 DEF RuntimeBound, BindingFor
      <4>5. \A n \in DOMAIN JournalSeen : /\ JournalSeen[n].attempt <= workflow.attempt
                                          /\ JournalSeen[n].attempt < workflow.attempt
        BY <2>3, <3>2, ShownJournal
      <4>6. ~Finalized(JournalSeen)
        <5>1. Has("ledger_finalized") => Has("runtime_bound")
          BY <2>3, ShownJournal DEF Has, HasStage, EntriesFor
        <5> QED BY <3>2, <5>1
      <4>7. ~HasStage(JournalSeen, e.stage, e.attempt)
        BY <3>2, <4>4 DEF Has
      <4>8. IntegrityProgression(JournalSeen, e)
        BY <4>4, <4>5, <4>6, <4>7 DEF IntegrityProgression
      <4> QED BY <4>1, <4>2, <4>3, <4>8 DEF RepairAccepted
    <3>3. CASE /\ IsBound /\ Has("runtime_bound") /\ IsTerminal(workflow)
               /\ ~Has("workflow_terminal")
      <4>1. Disposition = "record_terminal_milestone"
        BY <3>1, <3>3 DEF NextStep
      <4>2. PICK e : e = WorkflowTerminal(workflow.attempt, workflow.status)
        OBVIOUS
      <4>3. e.stage = "workflow_terminal" /\ e.attempt = workflow.attempt /\ e.outcome = workflow.status
        BY <4>2 DEF WorkflowTerminal
      <4>4. workflow.status = "succeeded" => HasPassed(JournalSeen, workflow.attempt)
        BY <2>3, <3>3 DEF Contradiction
      <4>5. WorkflowTerminalReady
        BY <2>3, <3>3, <4>4 DEF WorkflowTerminalReady, IsBound, Has
      <4>6. ~Finalized(JournalSeen)
        BY <2>3, <3>3, ShownJournal
      <4>7. \A n \in DOMAIN JournalSeen : JournalSeen[n].attempt <= workflow.attempt
        BY <2>3, ShownJournal
      <4>8. IntegrityProgression(JournalSeen, e)
        BY <3>3, <4>3, <4>4, <4>6, <4>7 DEF IntegrityProgression, Has
      <4> QED BY <4>1, <4>2, <4>5, <4>8 DEF RepairAccepted
    <3>4. CASE /\ IsBound /\ Has("runtime_bound") /\ IsTerminal(workflow)
               /\ Has("workflow_terminal") /\ LedgerSeen = NoRecord
      <4>1. Disposition = "finalize_run_ledger"
        BY <3>1, <3>4 DEF NextStep
      <4> QED BY <3>4, <4>1 DEF RepairAccepted
    <3>5. CASE /\ IsBound /\ Has("runtime_bound") /\ IsTerminal(workflow)
               /\ Has("workflow_terminal") /\ LedgerSeen # NoRecord /\ ~Has("ledger_finalized")
      <4>1. Disposition = "record_ledger_finalized_milestone"
        BY <3>1, <3>5 DEF NextStep
      <4>2. PICK e : e = LedgerFinalized(workflow.attempt, LedgerSeen.outcome)
        OBVIOUS
      <4>3. /\ e.stage = "ledger_finalized" /\ e.attempt = workflow.attempt
            /\ e.outcome = LedgerSeen.outcome
        BY <4>2 DEF LedgerFinalized
      <4>4. LedgerMatches(LedgerSeen, workflow)
        BY <2>3, <3>5 DEF Contradiction
      <4>5. LedgerFinalizedReady
        BY <2>3, <3>5, <4>4 DEF LedgerFinalizedReady, IsBound, Has
      <4>6. \A n \in DOMAIN JournalSeen : JournalSeen[n].attempt <= workflow.attempt
        BY <2>3, ShownJournal
      <4>7. \E f \in EntriesFor(JournalSeen, "workflow_terminal", workflow.attempt) :
              f.outcome = LedgerSeen.outcome
        BY <2>3, <3>5, <4>4, ShownJournal DEF LedgerMatches
      <4>8. IntegrityProgression(JournalSeen, e)
        BY <3>5, <4>3, <4>6, <4>7 DEF IntegrityProgression, Has
      <4> QED BY <4>1, <4>2, <4>5, <4>8 DEF RepairAccepted
    <3>6. CASE /\ ~(IsBound /\ ~Has("runtime_bound"))
               /\ ~(/\ IsBound /\ Has("runtime_bound") /\ IsTerminal(workflow)
                    /\ ~Has("ledger_finalized"))
      <4>1. CASE ~IsBound
        <5>1. Disposition = "consistent_pre_runtime"
          BY <3>1, <4>1 DEF NextStep
        <5> QED BY <5>1 DEF RepairAccepted
      <4>2. CASE IsBound /\ Has("runtime_bound") /\ ~IsTerminal(workflow)
        <5>1. Disposition = IF ~Has("verification_recorded") THEN "reconcile_runtime"
                            ELSE IF HasPassed(JournalSeen, workflow.attempt)
                                   THEN "verification_available" ELSE "verification_failed"
          BY <3>1, <4>2 DEF NextStep
        <5> QED BY <5>1 DEF RepairAccepted
      <4>3. CASE /\ IsBound /\ Has("runtime_bound") /\ IsTerminal(workflow)
                 /\ Has("ledger_finalized")
        <5>1. Has("workflow_terminal") /\ LedgerSeen # NoRecord
          BY <2>3, <4>3, ShownJournal DEF LedgerSeen
        <5>2. Disposition = "consistent_terminal"
          BY <3>1, <4>3, <5>1 DEF NextStep
        <5> QED BY <5>2 DEF RepairAccepted
      <4> QED BY <3>6, <4>1, <4>2, <4>3
    <3> QED BY <3>2, <3>3, <3>4, <3>5, <3>6
  <2> QED BY <2>1, <2>2, <2>3
<1> QED BY <1>1, IntegrityInvariant, PTL

-----------------------------------------------------------------------------
(* Agreement is final *)

\* All stores have what there is to have about a run that has ended.
Agreed ==
  /\ workflow # NoRun /\ IsBound /\ ~Contradiction
  /\ Has("runtime_bound") /\ IsTerminal(workflow) /\ Has("workflow_terminal")
  /\ LedgerSeen # NoRecord /\ Has("ledger_finalized")

LEMMA AgreedIsConsistent ==
  /\ Disposition = "consistent_terminal" <=> Agreed
  /\ (Disposition = "consistent_terminal" <=> Agreed)'
<1>1. Disposition = "consistent_terminal" <=> Agreed
  <2>1. CASE workflow = NoRun
    BY <2>1 DEF Disposition, Agreed
  <2>2. CASE workflow # NoRun /\ Contradiction
    BY <2>2 DEF Disposition, Agreed
  <2>3. CASE workflow # NoRun /\ ~Contradiction
    <3>1. Disposition = NextStep
      BY <2>3 DEF Disposition
    <3>2. NextStep = "consistent_terminal" <=>
            /\ IsBound /\ Has("runtime_bound") /\ IsTerminal(workflow) /\ Has("workflow_terminal")
            /\ LedgerSeen # NoRecord /\ Has("ledger_finalized")
      <4>1. CASE ~IsBound
        BY <4>1 DEF NextStep
      <4>2. CASE IsBound /\ ~Has("runtime_bound")
        BY <4>2 DEF NextStep
      <4>3. CASE IsBound /\ Has("runtime_bound") /\ ~IsTerminal(workflow)
        <5>1. NextStep = IF ~Has("verification_recorded") THEN "reconcile_runtime"
                         ELSE IF HasPassed(JournalSeen, workflow.attempt)
                                THEN "verification_available" ELSE "verification_failed"
          BY <4>3 DEF NextStep
        <5>2. NextStep # "consistent_terminal"
          BY <5>1
        <5> QED BY <4>3, <5>2
      <4>4. CASE IsBound /\ Has("runtime_bound") /\ IsTerminal(workflow)
        <5>1. NextStep = IF ~Has("workflow_terminal") THEN "record_terminal_milestone"
                         ELSE IF LedgerSeen = NoRecord THEN "finalize_run_ledger"
                         ELSE IF ~Has("ledger_finalized") THEN "record_ledger_finalized_milestone"
                         ELSE "consistent_terminal"
          BY <4>4 DEF NextStep
        <5> QED BY <4>4, <5>1
      <4> QED BY <4>1, <4>2, <4>3, <4>4
    <3> QED BY <2>3, <3>1, <3>2 DEF Agreed
  <2> QED BY <2>1, <2>2, <2>3
<1>2. (Disposition = "consistent_terminal" <=> Agreed)'
  BY <1>1, PTL
<1> QED BY <1>1, <1>2

\* Agreement outlives whatever leaves the lines of the files alone.
LEMMA AgreedStays ==
  ASSUME IntegrityInv, IntegrityInv', Agreed, UNCHANGED << workflow, bindings, journal, ledger >>,
         fenced' \in {fenced, {}}
  PROVE  Agreed'
<1>1. "journal" \notin fenced /\ "ledger" \notin fenced /\ workflow # NoRun
  BY ShownJournal DEF Agreed
<1>2. JournalSeen' = JournalSeen /\ LedgerSeen' = LedgerSeen
  BY <1>1 DEF JournalSeen, LedgerSeen, Seen
<1>3. \A stage : Has(stage)' <=> Has(stage)
  BY <1>2 DEF Has
<1>4. \A n \in DOMAIN BindingsSeen :
        n \in DOMAIN BindingsSeen' /\ BindingsSeen'[n] = BindingsSeen[n]
  <2>1. CASE fenced' = fenced
    BY <2>1 DEF BindingsSeen, Seen
  <2>2. CASE fenced' = {}
    <3>1. BindingsSeen' = bindings
      BY <2>2 DEF BindingsSeen, Seen
    <3> QED BY <3>1, SeenIsPrefix DEF BindingsSeen, IntegrityInv, TypeInv, FencedHaveLines
  <2> QED BY <2>1, <2>2
<1>5. IsBound'
  BY <1>4 DEF Agreed, IsBound, BindingFor
<1>6. \A n \in DOMAIN BindingsSeen' : ~(BindingsSeen'[n].attempt > workflow.attempt)
  <2>1. \A n \in DOMAIN BindingsSeen' :
          n \in DOMAIN bindings /\ BindingsSeen'[n] = bindings[n]
    <3>1. CASE fenced' = fenced
      <4>1. BindingsSeen' = BindingsSeen
        BY <3>1 DEF BindingsSeen, Seen
      <4> QED BY <4>1, SeenIsPrefix DEF BindingsSeen, IntegrityInv, TypeInv, FencedHaveLines
    <3>2. CASE fenced' = {}
      BY <3>2 DEF BindingsSeen, Seen
    <3> QED BY <3>1, <3>2
  <2>2. \A n \in DOMAIN bindings :
          bindings[n].attempt \in Nat /\ bindings[n].attempt <= workflow.attempt
    BY LinesTyped DEF IntegrityInv, BindingsProgress
  <2>3. workflow.attempt \in Nat
    BY <1>1, ShownJournal
  <2> QED BY <2>1, <2>2, <2>3
<1>7. /\ workflow' = workflow /\ IsTerminal(workflow) /\ IsTerminal(workflow)'
      /\ LedgerMatches(LedgerSeen, workflow)
  BY DEF Agreed, Contradiction, IsTerminal
<1>8. LedgerMatches(LedgerSeen, workflow)'
  BY <1>2, <1>7 DEF LedgerMatches
<1>9. workflow.status = "succeeded" => HasPassed(JournalSeen, workflow.attempt)
  BY DEF Agreed, Contradiction
<1>10. workflow'.status = "succeeded" => HasPassed(JournalSeen, workflow.attempt)'
  BY <1>2, <1>7, <1>9 DEF HasPassed
<1>11. Has("runtime_bound")' /\ Has("workflow_terminal")' /\ Has("ledger_finalized")'
  BY <1>3 DEF Agreed
<1>12. LedgerSeen' # NoRecord /\ workflow' # NoRun
  BY <1>1, <1>2, <1>7 DEF Agreed
<1>13. ~Contradiction'
  BY <1>5, <1>6, <1>7, <1>8, <1>10, <1>12 DEF Contradiction
<1> QED BY <1>5, <1>7, <1>11, <1>12, <1>13 DEF Agreed

\* When all stores agree on a run that was cancelled or succeeded, no late
\* call, no append that throws and no restart makes them disagree.
THEOREM AgreementStays == Spec => AgreementIsFinal
<1>1. ASSUME IntegrityInv, IntegrityInv', Next, Agreed, workflow.status # "failed"
      PROVE  UNCHANGED << workflow, bindings, journal, ledger >> /\ fenced' \in {fenced, {}}
  <2>1. /\ "journal" \notin fenced /\ "ledger" \notin fenced /\ LedgerSeen # NoRecord
        /\ workflow \in Runs /\ workflow # NoRun
    BY <1>1, ShownJournal DEF Agreed
  <2>2. IsTerminal(workflow) /\ Finalized(JournalSeen)
    BY <1>1 DEF Agreed, Has, HasStage, EntriesFor, Finalized
  <2>3. ~WorkflowStep
    <3> SUFFICES ASSUME WorkflowStep PROVE FALSE
      OBVIOUS
    <3>1. PICK now \in Times : workflow' \in Machine!MethodResults(workflow, now)
      BY <2>1 DEF WorkflowStep
    <3> QED BY <1>1, <2>1, <2>2, <3>1, MethodEffect
  <2>4. \A e : ~AppendToJournal(e)
    BY <2>2 DEF AppendToJournal, IntegrityProgression
  <2>5. ~AppendTerminal
    BY <2>1 DEF AppendTerminal
  <2>6. ASSUME NEW d \in Drivers, Bind(d) PROVE FALSE
    <3>1. PICK b : b \in BindingFor(workflow.attempt)
      BY <1>1 DEF Agreed, IsBound
    <3>2. PICK n \in DOMAIN BindingsSeen : BindingsSeen[n].attempt = workflow.attempt
      BY <3>1 DEF BindingFor
    <3>3. workflow.attempt < driver[d].attempt
      BY <2>6, <3>2 DEF Bind, BindAccepts
    <3>4. CallFits(driver[d]) /\ driver[d] \in CallRecords /\ driver[d].pc # "idle"
      BY <1>1, <2>6, CallsAreOfARun DEF Bind
    <3>5. driver[d].attempt <= workflow.attempt /\ driver[d].attempt \in Nat
      BY <3>4 DEF CallFits, CallRecords
    <3> QED BY <2>1, <3>3, <3>5 DEF Runs
  <2>7. ASSUME NEW d \in Drivers,
               \/ BeginCreate(d) \/ (\E x \in Sessions : ProviderCreates(d, x))
               \/ CreateFails(d) \/ BindRefused(d)
               \/ CleanupAbort(d) \/ CleanupDestroy(d)
               \/ BeginReconcile(d) \/ Observe(d) \/ Verify(d) \/ Drop(d)
        PROVE  UNCHANGED << workflow, bindings, journal, ledger, fenced >>
    BY <2>7 DEF BeginCreate, ProviderCreates, CreateFails, BindRefused, CleanupAbort, CleanupDestroy,
                BeginReconcile, Observe, Verify, Drop
  <2>8. ASSUME NEW x \in Sessions, ProviderEnds(x)
        PROVE  UNCHANGED << workflow, bindings, journal, ledger, fenced >>
    BY <2>8 DEF ProviderEnds
  <2>9. /\ ~RecordRuntimeBound /\ ~RecordWorkflowTerminal /\ ~RecordLedgerFinalized
        /\ \A d \in Drivers : ~RecordVerification(d)
    BY <2>4 DEF RecordRuntimeBound, RecordWorkflowTerminal, RecordLedgerFinalized, RecordVerification
  <2>10. Restart => UNCHANGED << workflow, bindings, journal, ledger >> /\ fenced' = {}
    BY DEF Restart
  <2> QED BY <1>1, <2>3, <2>5, <2>6, <2>7, <2>8, <2>9, <2>10 DEF Next
<1>2. ASSUME IntegrityInv, IntegrityInv', [Next]_vars,
             Disposition = "consistent_terminal", workflow.status # "failed"
      PROVE  Disposition' = "consistent_terminal"
  <2>1. Agreed
    BY <1>2, AgreedIsConsistent
  <2>2. UNCHANGED << workflow, bindings, journal, ledger >> /\ fenced' \in {fenced, {}}
    BY <1>1, <1>2, <2>1 DEF vars
  <2>3. Agreed'
    BY <1>2, <2>1, <2>2, AgreedStays
  <2> QED BY <2>3, AgreedIsConsistent
<1> QED BY <1>2, IntegrityInvariant, PTL DEF Spec, AgreementIsFinal
=============================================================================
