---------------------------- MODULE SideEffects -----------------------------
(***************************************************************************)
(* External side effects of bounded-live experiments: publications and     *)
(* reference restores, each reserved in a journal before the sink is asked *)
(* for it, and committed or put down as an error afterwards.  A crash, a   *)
(* timeout or a failing journal in between leaves an operation in doubt,   *)
(* which recovery classifies by comparing the journal with the sink, and   *)
(* nothing else may be reserved meanwhile.                                 *)
(*                                                                         *)
(* The two kinds of operation differ in what they carry, not in what       *)
(* happens to them.  An operation id determines its idempotency key.       *)
(* Every journal call awaits digests between its checks and its write,     *)
(* and the checks on the file's size come before.  Torn lines and power    *)
(* losses, which make the file unreadable or shorter, are in JsonlStore.   *)
(***************************************************************************)
EXTENDS Naturals, Sequences

CONSTANTS
  Operations,   \* operation ids
  NoOperation,  \* no operation
  NoJournal,    \* no journal object
  Callers,      \* concurrent calls of publish or restore
  Journals      \* journal objects, all on one file

ASSUME NullsAreNoValues == NoOperation \notin Operations /\ NoJournal \notin Journals

VARIABLES
  file,      \* the lines of the journal file
  opened,    \* journal objects that exist
  log,       \* the events each object has admitted
  caller,    \* where each call is waiting
  requests,  \* requests at the sink, with what became of them
  sink,      \* each operation's effect at the sink
  asked,     \* how many requests the sink was sent for each operation
  receipts,  \* operations whose call returned a receipt
  recovery   \* one call of reconcile, and its report

journal == <<file, opened, log>>
outside == <<requests, sink, asked>>
vars == <<journal, caller, outside, receipts, recovery>>

Types == {"reserved", "committed", "error"}
Lines == [sequence : Nat, operation : Operations, type : Types]
\* A call at rest; by is the journal object it uses, number that of its request.
Idle == [at |-> "idle", operation |-> NoOperation, by |-> NoJournal, number |-> 0]

\* event is the type latest() gave, observed what the probe saw; quiet is a
\* history variable: nothing was under way for the operation at the last await.
NoReport == [at |-> "none", operation |-> NoOperation, event |-> "none",
             observed |-> "none", classification |-> "none", quiet |-> FALSE]

Init ==
  /\ file = <<>>
  /\ opened = {}
  /\ log = [j \in Journals |-> <<>>]
  /\ caller = [c \in Callers |-> Idle]
  /\ requests = {}
  /\ sink = [o \in Operations |-> "absent"]
  /\ asked = [o \in Operations |-> 0]
  /\ receipts = {}
  /\ recovery = NoReport

-----------------------------------------------------------------------------
(* The journal *)

EventsOf(lines, o) == {n \in DOMAIN lines : lines[n].operation = o}

\* latestByOperation
Latest(lines, o) ==
  IF EventsOf(lines, o) = {} THEN "none"
  ELSE lines[CHOOSE n \in EventsOf(lines, o) :
               \A m \in EventsOf(lines, o) : m <= n].type

\* inspect().unresolvedOperationIds
Unresolved(lines) == {o \in Operations : Latest(lines, o) \in {"reserved", "error"}}

\* Fault: a reservation is not compared with those made since it was checked.
FollowsAnyReservation(lines, line) ==
  line.type = "reserved" \/ Latest(lines, line.operation) = "reserved"

\* Fault: a reservation looks at its own operation only.
FollowsOwnEvents(lines, line) ==
  Latest(lines, line.operation) = IF line.type = "reserved" THEN "none" ELSE "reserved"

\* assertTransition: line may follow lines.
Follows(lines, line) ==
  IF line.type = "reserved"
  THEN Latest(lines, line.operation) = "none" /\ Unresolved(lines) = {}
  ELSE Latest(lines, line.operation) = "reserved"

Loadable(lines) ==
  \A n \in DOMAIN lines :
    lines[n].sequence = n /\ Follows(SubSeq(lines, 1, n - 1), lines[n])

\* open(): nothing is opened if load() throws.
Open(j) ==
  /\ j \notin opened
  /\ Loadable(file)
  /\ opened' = opened \union {j}
  /\ log' = [log EXCEPT ![j] = file]
  /\ UNCHANGED <<file, caller, outside, receipts, recovery>>

\* assertStorageUnchanged: sizes count lines.
StorageUnchanged(j) == Len(file) = Len(log[j])

\* What append() writes: only assertTransition is repeated after the awaits,
\* on the events in memory.
NextLine(j, o, type) == [sequence |-> Len(log[j]) + 1, operation |-> o, type |-> type]

Appended(j, line) ==
  /\ Follows(log[j], line)
  /\ file' = Append(file, line)
  /\ log' = [log EXCEPT ![j] = Append(@, line)]
  /\ UNCHANGED opened

\* append() throws, perhaps after the line reached the file.
AppendThrows(j, line) ==
  /\ \/ UNCHANGED file
     \/ Follows(log[j], line) /\ file' = Append(file, line)
  /\ UNCHANGED <<opened, log>>

-----------------------------------------------------------------------------
(* publish and restore *)

Moves(c, at) == caller' = [caller EXCEPT ![c].at = at]
Ends(c) == caller' = [caller EXCEPT ![c] = Idle]

\* reserve() up to its first await.
Reserve(c, j, o) ==
  /\ caller[c].at = "idle"
  /\ j \in opened
  /\ StorageUnchanged(j)
  /\ Latest(log[j], o) = "none"
  /\ Unresolved(log[j]) = {}
  /\ caller' = [caller EXCEPT ![c] =
                  [at |-> "reserving", operation |-> o, by |-> j, number |-> 0]]
  /\ UNCHANGED <<journal, outside, receipts, recovery>>

Reserved(c) ==
  LET j == caller[c].by
      line == NextLine(j, caller[c].operation, "reserved")
  IN  /\ caller[c].at = "reserving"
      /\ \/ Appended(j, line) /\ Moves(c, "reserved")
         \/ AppendThrows(j, line) /\ Ends(c)
      /\ UNCHANGED <<outside, receipts, recovery>>

\* sink.publish or sink.restore is called.
Ask(c) ==
  LET o == caller[c].operation
      number == asked[o] + 1
  IN  /\ caller[c].at = "reserved"
      /\ asked' = [asked EXCEPT ![o] = number]
      /\ requests' = requests \union {[operation |-> o, number |-> number, at |-> "sent"]}
      /\ caller' = [caller EXCEPT ![c].at = "calling", ![c].number = number]
      /\ UNCHANGED <<journal, sink, receipts, recovery>>

\* recordCommit() or recordError() up to its first await; if a check throws,
\* so does the call.
Records(c, at) ==
  LET j == caller[c].by IN
    IF StorageUnchanged(j) /\ Latest(log[j], caller[c].operation) = "reserved"
    THEN Moves(c, at) ELSE Ends(c)

Answered(c) ==
  /\ caller[c].at = "calling"
  /\ [operation |-> caller[c].operation, number |-> caller[c].number,
      at |-> "answered"] \in requests
  /\ Records(c, "committing")
  /\ UNCHANGED <<journal, outside, receipts, recovery>>

\* Fault: an error is taken for an answer that got lost.
CallFailsCommitting(c) ==
  /\ caller[c].at = "calling"
  /\ Records(c, "committing")
  /\ UNCHANGED <<journal, outside, receipts, recovery>>

\* The sink refuses, the request times out or its connection breaks, or the
\* receipt is not the one expected; the request may still be on its way.
CallFails(c) ==
  /\ caller[c].at = "calling"
  /\ Records(c, "erring")
  /\ UNCHANGED <<journal, outside, receipts, recovery>>

Committed(c) ==
  LET j == caller[c].by
      line == NextLine(j, caller[c].operation, "committed")
  IN  /\ caller[c].at = "committing"
      /\ \/ Appended(j, line) /\ receipts' = receipts \union {caller[c].operation}
         \/ AppendThrows(j, line) /\ UNCHANGED receipts
      /\ Ends(c)
      /\ UNCHANGED <<outside, recovery>>

Erred(c) ==
  LET j == caller[c].by
      line == NextLine(j, caller[c].operation, "error")
  IN  /\ caller[c].at = "erring"
      /\ Appended(j, line) \/ AppendThrows(j, line)
      /\ Ends(c)
      /\ UNCHANGED <<outside, receipts, recovery>>

\* The process dies, with its journal objects and calls; what it sent does not.
Crash ==
  /\ opened # {}
  /\ opened' = {}
  /\ log' = [j \in Journals |-> <<>>]
  /\ caller' = [c \in Callers |-> Idle]
  /\ UNCHANGED <<file, outside, receipts, recovery>>

-----------------------------------------------------------------------------
(* The sink *)

Becomes(q, at) == requests' = (requests \ {q}) \union {[q EXCEPT !.at = at]}

\* The effect is in memory, where the probe sees it, and is saved later; a request whose key has been
\* seen is answered from memory.
Takes(q) ==
  /\ q.at = "sent"
  /\ IF sink[q.operation] = "absent"
     THEN Becomes(q, "saving") /\ sink' = [sink EXCEPT ![q.operation] = "unsaved"]
     ELSE Becomes(q, "answered") /\ UNCHANGED sink
  /\ UNCHANGED <<journal, caller, asked, receipts, recovery>>

\* persistState() writes the whole state.
Saves(q) ==
  /\ q.at = "saving"
  /\ Becomes(q, "answered")
  /\ sink' = [o \in Operations |-> IF sink[o] = "unsaved" THEN "saved" ELSE sink[o]]
  /\ UNCHANGED <<journal, caller, asked, receipts, recovery>>

\* The request is lost on the way, refused, or its save fails.
Drops(q) ==
  /\ q.at \in {"sent", "saving"}
  /\ requests' = requests \ {q}
  /\ UNCHANGED <<journal, caller, sink, asked, receipts, recovery>>

SinkRestarts ==
  /\ \E o \in Operations : sink[o] = "unsaved"
  /\ requests' = {q \in requests : q.at = "answered"}
  /\ sink' = [o \in Operations |-> IF sink[o] = "unsaved" THEN "absent" ELSE sink[o]]
  /\ UNCHANGED <<journal, caller, asked, receipts, recovery>>

-----------------------------------------------------------------------------
(* Recovery *)

\* No call works on o, and no request for it is on its way.
Quiet(o) ==
  /\ \A c \in Callers : caller[c].operation # o
  /\ \A q \in requests : q.operation = o => q.at = "answered"

Classification(event, observed) ==
  CASE event = "committed"                         -> "consistent_committed"
    [] event # "committed" /\ observed = "applied" -> "external_commit_observed"
    [] event = "reserved" /\ observed = "absent"   -> "explicit_retry_eligible"
    [] OTHER                                       -> "manual_reconciliation_required"

\* latest() of an object that is open, or of one opened for the purpose.
LatestRead(o) ==
  {Latest(log[j], o) : j \in opened} \union
  (IF Loadable(file) THEN {Latest(file, o)} ELSE {})

\* The probe's answer; it may fail, or find facts that drift.
Observations(o) ==
  {"unknown"} \union {IF sink[o] = "absent" THEN "absent" ELSE "applied"}

\* prepareReport: what it says, and of which reading.
Report(o, event, observed) ==
  [at |-> "done", operation |-> o, event |-> event, observed |-> observed,
   classification |-> Classification(event, observed), quiet |-> Quiet(o)]

\* Fault: reconcile probes before it reads the journal.
ReconcileProbingFirst(o) ==
  /\ \/ /\ recovery.at # "probing"
        /\ \E observed \in Observations(o) :
             recovery' = [at |-> "probing", operation |-> o, event |-> "none",
                          observed |-> observed, classification |-> "none",
                          quiet |-> Quiet(o)]
     \/ /\ recovery.at = "probing" /\ recovery.operation = o
        /\ \E event \in LatestRead(o) \ {"none"} :
             recovery' = [recovery EXCEPT !.at = "done", !.event = event,
                            !.classification = Classification(event, recovery.observed)]
  /\ UNCHANGED <<journal, caller, outside, receipts>>

\* reconcile() reads the journal, then awaits the probe unless the operation
\* is committed, and changes nothing.
Reconcile(o) ==
  /\ \/ /\ recovery.at # "probing"
        /\ \E event \in LatestRead(o) \ {"none"} :
             recovery' =
               IF event = "committed" THEN Report(o, event, "none")
               ELSE [NoReport EXCEPT !.at = "probing", !.operation = o, !.event = event]
     \/ /\ recovery.at = "probing" /\ recovery.operation = o
        /\ \E observed \in Observations(o) :
             recovery' = Report(o, recovery.event, observed)
  /\ UNCHANGED <<journal, caller, outside, receipts>>

Next ==
  \/ \E j \in Journals : Open(j)
  \/ \E c \in Callers :
       \/ \E j \in Journals, o \in Operations : Reserve(c, j, o)
       \/ Reserved(c) \/ Ask(c) \/ Answered(c) \/ CallFails(c)
       \/ Committed(c) \/ Erred(c)
  \/ Crash
  \/ \E q \in requests : Takes(q) \/ Saves(q) \/ Drops(q)
  \/ SinkRestarts
  \/ \E o \in Operations : Reconcile(o)

Spec == Init /\ [][Next]_vars

-----------------------------------------------------------------------------
(* Properties *)

InFile(o, type) == \E n \in DOMAIN file : file[n].operation = o /\ file[n].type = type

\* "Never repeat an uncertain external side effect automatically": with one
\* journal object at a time the sink is asked at most once for an operation,
\* over crashes, timeouts, failing appends and concurrent calls, so that
\* nothing rests on the sink's idempotency.
AskedOnce == \A o \in Operations : asked[o] <= 1

\* An operation in doubt stays alone: the sink is asked for a second one only
\* when the first is committed in the file.
DoubtIsAlone ==
  \A o, p \in Operations :
    o # p /\ asked[o] > 0 /\ asked[p] > 0 =>
      InFile(o, "committed") \/ InFile(p, "committed")

\* "Never infer success from process return state": a committed operation's
\* effect is saved at the sink, whose restarts cannot undo it, and a receipt is
\* only given for a committed operation.
CommitIsTrue ==
  \A o \in Operations :
    /\ InFile(o, "committed") => sink[o] = "saved"
    /\ o \in receipts => InFile(o, "committed")

\* What a report says of the sink stays true: a committed operation's effect
\* is there, and one that is eligible for a retry never comes about by itself,
\* unless its call or its request was still under way at the probe.
ReportsHold ==
  recovery.at = "done" =>
    /\ recovery.classification = "consistent_committed" =>
         sink[recovery.operation] = "saved"
    /\ recovery.classification = "explicit_retry_eligible" /\ recovery.quiet =>
         sink[recovery.operation] = "absent" /\ Quiet(recovery.operation)
=============================================================================
