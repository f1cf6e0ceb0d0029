--------------------------- MODULE RoutingMutation ----------------------------
(***************************************************************************)
(* The isolated routing mutation: an authorized change of the route in a   *)
(* JSON file, reserved in a journal before and committed after, and the    *)
(* reconciliation that finds out after a crash what became of it.          *)
(*                                                                         *)
(* A call of the coordinator runs up to its next await in one step.        *)
(* Between two steps another process may work on the same two files with a *)
(* journal object of its own, and so may another call of the same process  *)
(* with the same object.  An authorization is one operation; it was given  *)
(* for one state of the route and determines the state that follows, so    *)
(* that state is named after it.  The promotion authority is verified from *)
(* the caller's copies and cannot change: a call only gets to act on an    *)
(* authorization that allows it.  Torn journal lines and power losses are  *)
(* in JsonlStore.                                                          *)
(***************************************************************************)
EXTENDS Naturals, Sequences

CONSTANTS
  Authorizations,     \* allowed promotion authorizations
  Before(_),          \* the state of the route an authorization is for
  NoAuthorization,    \* no authorization
  Callers,            \* concurrent calls of the coordinators
  Journals,           \* journal objects, all on one file
  JournalOf(_)        \* the object a caller's coordinator has

VARIABLES
  target,    \* the route's state file
  file,      \* the lines of the journal file
  opened,    \* journal objects that exist
  log,       \* the events each object has admitted
  size,      \* the file size each object expects, in lines
  caller,    \* where each call is waiting
  writes,    \* how often the route was changed for each authorization
  report     \* the last report of reconcile, or receipt verified

journal == <<file, opened, log, size>>
vars == <<target, journal, caller, writes, report>>

\* "other" is a state nobody authorized, "torn" is no valid state.
States == {"initial", "other", "torn"} \union Authorizations
Readable(state) == state # "torn"

\* The revision an authorization leads to has the authorization's digest in
\* its name, and that covers the revision it is for.
ASSUME StatesAssumption ==
  /\ NoAuthorization \notin Authorizations
  /\ Authorizations \intersect {"initial", "other", "torn"} = {}
  /\ \A a \in Authorizations : Before(a) \in {"initial"} \union (Authorizations \ {a})

ASSUME ObjectsAssumption == \A c \in Callers : JournalOf(c) \in Journals

Types == {"reserved", "committed", "not_applied", "manual"}

\* A call at rest; event is what it is about to record, quiet a history
\* variable: no other call worked on the operation when the target was read.
Idle == [at |-> "idle", does |-> "none", authorization |-> NoAuthorization,
         event |-> "none", quiet |-> FALSE]
NoReport == [authorization |-> NoAuthorization, classification |-> "none", quiet |-> FALSE]

Init ==
  /\ target = "initial"
  /\ file = <<>>
  /\ opened = {}
  /\ log = [j \in Journals |-> <<>>]
  /\ size = [j \in Journals |-> 0]
  /\ caller = [c \in Callers |-> Idle]
  /\ writes = [a \in Authorizations |-> 0]
  /\ report = NoReport

-----------------------------------------------------------------------------
(* The journal *)

EventsOf(lines, a) == {n \in DOMAIN lines : lines[n].operation = a}

\* latestByOperation
Latest(lines, a) ==
  IF EventsOf(lines, a) = {} THEN "none"
  ELSE lines[CHOOSE n \in EventsOf(lines, a) :
               \A m \in EventsOf(lines, a) : m <= n].type

\* Fault: an operation in doubt does not stand in the way of another.
BlockingManual(lines) == {a \in Authorizations : Latest(lines, a) = "manual"}

\* inspect(): operations unresolved or in need of manual reconciliation.
Blocking(lines) == {a \in Authorizations : Latest(lines, a) \in {"reserved", "manual"}}

\* assertTransition
Follows(lines, line) ==
  LET previous == Latest(lines, line.operation) IN
    CASE line.type = "reserved" -> previous = "none" /\ Blocking(lines) = {}
      [] line.type = "manual"   -> previous \notin {"none", "manual"}
      [] OTHER                  -> previous = "reserved"

Loadable(lines) ==
  \A n \in DOMAIN lines :
    lines[n].sequence = n /\ Follows(SubSeq(lines, 1, n - 1), lines[n])

\* open(): nothing is opened if load() throws.
Open(j) ==
  /\ j \notin opened
  /\ Loadable(file)
  /\ opened' = opened \union {j}
  /\ log' = [log EXCEPT ![j] = file]
  /\ size' = [size EXCEPT ![j] = Len(file)]
  /\ UNCHANGED <<target, file, caller, writes, report>>

\* assertStorageUnchanged, and assertFreshRead: a file of that size has that
\* content, since lines are only ever added.
StorageUnchanged(j) == Len(file) = size[j]

\* The checks of reserve, recordCommit, recordNotApplied and recordManual.
Recordable(j, a, type) ==
  /\ StorageUnchanged(j)
  /\ CASE type = "reserved" -> Latest(log[j], a) = "none" /\ Blocking(log[j]) = {}
       [] type = "manual"   -> Latest(log[j], a) # "none"
       [] OTHER             -> Latest(log[j], a) = "reserved"

Moves(c, at) == caller' = [caller EXCEPT ![c].at = at]
Ends(c) == caller' = [caller EXCEPT ![c] = Idle]

\* A call goes on to record an event, unless a check throws.
Records(c, type) ==
  IF Recordable(JournalOf(c), caller[c].authorization, type)
  THEN caller' = [caller EXCEPT ![c].at = "appending", ![c].event = type]
  ELSE Ends(c)

Line(c) == [sequence |-> Len(log[JournalOf(c)]) + 1,
            operation |-> caller[c].authorization, type |-> caller[c].event]

\* appendPrepared() after its digests; it may throw with the line in the file.
Write(c) ==
  LET j == JournalOf(c) IN
  /\ caller[c].at = "appending"
  /\ \/ /\ Follows(log[j], Line(c))
        /\ file' = Append(file, Line(c))
        /\ size' = [size EXCEPT ![j] = @ + 1]
        /\ Moves(c, "rereading")
     \/ /\ Follows(log[j], Line(c))
        /\ file' = Append(file, Line(c))
        /\ Ends(c)
        /\ UNCHANGED size
     \/ /\ Ends(c)
        /\ UNCHANGED <<file, size>>
  /\ UNCHANGED <<target, opened, log, writes, report>>

\* Fault: the file is not read again after the write.
RereadNothing(c) ==
  /\ caller[c].at = "rereading"
  /\ Moves(c, "admitting")
  /\ UNCHANGED <<target, journal, writes, report>>

\* The file is read again at once: another process may have written too.
Reread(c) ==
  /\ caller[c].at = "rereading"
  /\ IF StorageUnchanged(JournalOf(c)) THEN Moves(c, "admitting") ELSE Ends(c)
  /\ UNCHANGED <<target, journal, writes, report>>

Reports(a, classification, quiet) ==
  report' = [authorization |-> a, classification |-> classification, quiet |-> quiet]

Classification(type) ==
  CASE type = "committed"   -> "COMMITTED"
    [] type = "not_applied" -> "NOT_APPLIED_SAFE"
    [] type = "manual"      -> "MANUAL_RECONCILIATION_REQUIRED"

\* The file's digest is awaited before the event is admitted.
Admit(c) ==
  /\ caller[c].at = "admitting"
  /\ log' = [log EXCEPT ![JournalOf(c)] = Append(@, Line(c))]
  /\ IF caller[c].event = "reserved" THEN Moves(c, "reserved") ELSE Ends(c)
  /\ IF caller[c].does = "reconcile"
     THEN Reports(caller[c].authorization, Classification(caller[c].event), caller[c].quiet) ELSE UNCHANGED report
  /\ UNCHANGED <<target, file, opened, size, writes>>

-----------------------------------------------------------------------------
(* apply *)

Starts(c, does, a) ==
  /\ caller[c].at = "idle"
  /\ JournalOf(c) \in opened
  /\ caller' = [caller EXCEPT ![c] =
                  [Idle EXCEPT !.at = does, !.does = does, !.authorization = a]]

\* apply(): the target is read and is the state the authorization is for.
Apply(c, a) ==
  /\ Starts(c, "apply", a)
  /\ target = Before(a)
  /\ UNCHANGED <<target, journal, writes, report>>

\* The after-state is prepared, and reserve() called.
Reserve(c) ==
  /\ caller[c].at = "apply"
  /\ Records(c, "reserved")
  /\ UNCHANGED <<target, journal, writes, report>>

\* applyExact() reads the target once more.
ApplyExact(c) ==
  /\ caller[c].at = "reserved"
  /\ IF target = Before(caller[c].authorization)
     THEN Moves(c, "applying") ELSE Ends(c)
  /\ UNCHANGED <<target, journal, writes, report>>

\* writeState(), which truncates the file before it writes; a failure leaves
\* a torn state.
WriteState(c) ==
  LET a == caller[c].authorization IN
  /\ caller[c].at = "applying"
  /\ \/ /\ target' = a
        /\ writes' = [writes EXCEPT ![a] = @ + 1]
        /\ Moves(c, "applied")
     \/ /\ target' \in {target, "torn"}
        /\ Ends(c)
        /\ UNCHANGED writes
  /\ UNCHANGED <<journal, report>>

\* The target is read back.
Confirm(c) ==
  /\ caller[c].at = "applied"
  /\ IF Readable(target)
     THEN caller' = [caller EXCEPT ![c].at = "judged", ![c].event =
            IF target = caller[c].authorization THEN "committed" ELSE "manual"]
     ELSE Ends(c)
  /\ UNCHANGED <<target, journal, writes, report>>

\* Another call may be at work on an operation.
Quiet(a, c) == \A d \in Callers \ {c} : caller[d].authorization # a

\* recordCommit, recordNotApplied or recordManual, up to its first await; an
\* operation that is manual already is left alone.
Record(c) ==
  LET a == caller[c].authorization
      type == caller[c].event
  IN
  /\ caller[c].at = "judged"
  /\ IF type = "manual" /\ StorageUnchanged(JournalOf(c))
        /\ Latest(log[JournalOf(c)], a) = "manual"
     THEN /\ Ends(c)
          /\ IF caller[c].does = "reconcile"
             THEN Reports(a, Classification(type), caller[c].quiet) ELSE UNCHANGED report
     ELSE Records(c, type) /\ UNCHANGED report
  /\ UNCHANGED <<target, journal, writes>>

-----------------------------------------------------------------------------
(* reconcile *)

\* Fault: whatever is not the after-state is taken for the before-state.
VerdictByAfterState(latest, seen, a) ==
  CASE latest = "manual" -> "manual"
    [] latest \in {"reserved", "committed"} /\ seen = a -> "committed"
    [] latest \in {"reserved", "not_applied"} /\ seen # a -> "not_applied"
    [] OTHER -> "manual"

\* What the journal and the target together say of an operation.
Verdict(latest, seen, a) ==
  CASE latest = "manual" -> "manual"
    [] latest \in {"reserved", "committed"} /\ seen = a -> "committed"
    [] latest \in {"reserved", "not_applied"} /\ seen = Before(a) -> "not_applied"
    [] OTHER -> "manual"

\* reconcile(): latest() and the reading of the target are one step.  A
\* verdict that is in the journal already is reported, another one recorded.
Reconcile(c, a) ==
  LET latest == Latest(log[JournalOf(c)], a)
      verdict == Verdict(latest, target, a)
      started == [Idle EXCEPT !.at = "judged", !.does = "reconcile",
                    !.authorization = a, !.event = verdict, !.quiet = Quiet(a, c)]
  IN
  /\ caller[c].at = "idle"
  /\ JournalOf(c) \in opened
  /\ latest # "none"
  /\ IF verdict = latest
     THEN Reports(a, Classification(verdict), Quiet(a, c)) /\ UNCHANGED caller
     ELSE caller' = [caller EXCEPT ![c] = started] /\ UNCHANGED report
  /\ UNCHANGED <<target, journal, writes>>

-----------------------------------------------------------------------------
(* Receipts *)

\* verifyIsolatedRoutingMutationReceipt(): the journal is fresh, the operation
\* committed and the target what the receipt says ...
Verify(c, a) ==
  /\ Starts(c, "verify", a)
  /\ StorageUnchanged(JournalOf(c))
  /\ Latest(log[JournalOf(c)], a) = "committed"
  /\ target = a
  /\ UNCHANGED <<target, journal, writes, report>>

\* Fault: the journal is not read a second time.
VerifiedAtOnce(c) ==
  /\ caller[c].at = "verify"
  /\ Reports(caller[c].authorization, "VERIFIED", TRUE)
  /\ Ends(c)
  /\ UNCHANGED <<target, journal, writes>>

\* ... and the journal is still fresh once the target is read.
Verified(c) ==
  /\ caller[c].at = "verify"
  /\ IF StorageUnchanged(JournalOf(c))
     THEN Reports(caller[c].authorization, "VERIFIED", TRUE)
     ELSE UNCHANGED report
  /\ Ends(c)
  /\ UNCHANGED <<target, journal, writes>>

-----------------------------------------------------------------------------
(* Failures *)

\* A process dies, with its journal object and calls; a state being written
\* may be torn.
Crash(j) ==
  /\ j \in opened
  /\ opened' = opened \ {j}
  /\ log' = [log EXCEPT ![j] = <<>>]
  /\ size' = [size EXCEPT ![j] = 0]
  /\ caller' = [c \in Callers |-> IF JournalOf(c) = j THEN Idle ELSE caller[c]]
  /\ target' \in {target} \union
       (IF \E c \in Callers : JournalOf(c) = j /\ caller[c].at = "applying"
        THEN {"torn"} ELSE {})
  /\ UNCHANGED <<file, writes, report>>

\* Something else changes the state file, though not back to a state it had.
Drift ==
  /\ target # "other"
  /\ target' = "other"
  /\ UNCHANGED <<journal, caller, writes, report>>

\* A process goes on with another call only after the file is read again.
Runs(c) == \A d \in Callers \ {c} :
             JournalOf(d) = JournalOf(c) => caller[d].at # "rereading"

Next ==
  \/ \E j \in Journals : Open(j) \/ Crash(j)
  \/ \E c \in Callers :
       /\ Runs(c)
       /\ \/ Write(c) \/ Reread(c) \/ Admit(c) \/ Reserve(c) \/ ApplyExact(c)
          \/ WriteState(c) \/ Confirm(c) \/ Record(c) \/ Verified(c)
          \/ \E a \in Authorizations : Apply(c, a) \/ Reconcile(c, a) \/ Verify(c, a)
  \/ Drift

Spec == Init /\ [][Next]_vars

-----------------------------------------------------------------------------
(* Properties *)

Said(a) == {file[n].type : n \in EventsOf(file, a)}

Stage ==
  [a \in Authorizations |->
     CASE writes[a] > 1 -> "written again"
       [] writes[a] = 1 -> "written"
       [] writes[a] = 0 /\ EventsOf(file, a) # {} -> "reserved"
       [] OTHER -> "unused"]
Claims ==
  [a \in Authorizations |->
     {IF type = "committed" THEN "applied" ELSE type : type \in Said(a) \ {"reserved"}}]

\* The documented promise: an authorization "cannot be used twice", the
\* reservation "is written before the router-state side effect", and a commit
\* is only recorded of a change that took place.
Promise == INSTANCE AuthorizedMutation WITH
  Operations <- Authorizations, stage <- Stage, claims <- Claims
KeepsPromise == Promise!Spec

\* "A manual-reconciliation operation blocks new mutation reservations", and so
\* does one in doubt: the route is only changed for an operation if all that
\* was recorded before its reservation is settled.
DoubtBlocks ==
  [][\A a \in Authorizations :
       writes'[a] # writes[a] =>
         \E n \in EventsOf(file, a) :
           \A b \in Authorizations :
             Latest(SubSeq(file, 1, n - 1), b) \notin {"reserved", "manual"}]_vars

\* What a report says stays true: a change reported as applied took place, and
\* one reported as not applied, with no other call at work on it, never does.
ReportsHold ==
  LET a == report.authorization IN
    /\ report.classification = "COMMITTED" => writes[a] = 1
    /\ report.classification = "NOT_APPLIED_SAFE" /\ report.quiet => writes[a] = 0

\* A receipt is only verified for an operation whose last word in the file is
\* that it was committed, whatever another process recorded meanwhile.
VerifiedIsCommitted ==
  [][report' # report /\ report'.classification = "VERIFIED" =>
       Latest(file, report'.authorization) = "committed"]_vars
=============================================================================
