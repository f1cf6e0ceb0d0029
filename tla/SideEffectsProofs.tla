-------------------------- MODULE SideEffectsProofs --------------------------
(***************************************************************************)
(* Proofs about SideEffects for any number of operations and of concurrent *)
(* calls, over any number of crashes: with one journal object at a time,   *)
(* as the store asks for, the sink is asked once for an operation, doubt   *)
(* is about one operation at most, and what the journal and the recovery   *)
(* reports say of the sink is true.  And about RoutingPromotion, whose     *)
(* steps are steps of SideEffects or leave it alone: a promotion rests on  *)
(* effects that were made, of all the samples its counters run through.    *)
(*                                                                         *)
(* AskedOnce is not inductive.  A call that has reserved an operation has  *)
(* yet to ask, and what keeps another call, or a later process, from       *)
(* asking too is that every journal object that is open knows of the       *)
(* reservation.  DoubtIsAlone needs the same of calls about to ask.        *)
(***************************************************************************)
EXTENDS RoutingPromotion, Integers, SequenceTheorems, WellFoundedInduction,
        FiniteSetTheorems, TLAPS

\* One journal object at a time.
SingleWriter == \A j, k \in opened : j = k

\* InFile, of any lines.
Has(lines, o, type) == \E n \in DOMAIN lines : lines[n].operation = o /\ lines[n].type = type

-----------------------------------------------------------------------------
(* The inductive invariant *)

Points == {"reserving", "reserved", "calling", "committing", "erring"}
CallRecords == [at : Points, operation : Operations, by : Journals, number : Nat]
RequestRecords ==
  [operation : Operations, number : Nat, at : {"sent", "saving", "answered"}]

TypeInv ==
  /\ file \in Seq(Lines)
  /\ opened \subseteq Journals
  /\ log \in [Journals -> Seq(Lines)]
  /\ caller \in [Callers -> {Idle} \union CallRecords]
  /\ requests \subseteq RequestRecords
  /\ sink \in [Operations -> {"absent", "unsaved", "saved"}]
  /\ asked \in [Operations -> Nat]
  /\ receipts \subseteq Operations

\* A call's journal object is open.
CallsAreOpen == \A c \in Callers : caller[c] # Idle => caller[c].by \in opened

\* An object that expects the file's size has its content, and what it has
\* admitted is in the file.
LogsFollowFile ==
  \A j \in opened :
    /\ Len(log[j]) <= Len(file)
    /\ Len(log[j]) = Len(file) => log[j] = file
    /\ \A o, type : Has(log[j], o, type) => Has(file, o, type)

\* The sink was asked for an operation, or will be next.
Engaged(o) ==
  asked[o] > 0 \/ \E c \in Callers : caller[c].at = "reserved" /\ caller[c].operation = o

\* Everybody who could reserve an engaged operation again knows of it.
EngagedIsKnown ==
  \A o \in Operations : Engaged(o) =>
    /\ EventsOf(file, o) # {}
    /\ \A j \in opened : EventsOf(log[j], o) # {}

\* A call about to ask is the first one to.
AsksFirst ==
  /\ AskedOnce
  /\ \A c \in Callers : caller[c].at = "reserved" => asked[caller[c].operation] = 0
  /\ \A c, d \in Callers :
       /\ caller[c].at = "reserved" /\ caller[d].at = "reserved"
       /\ caller[c].operation = caller[d].operation
       => c = d

\* DoubtIsAlone, of calls about to ask, too.
EngagedAlone ==
  \A o, p \in Operations :
    o # p /\ Engaged(o) /\ Engaged(p) =>
      Has(file, o, "committed") \/ Has(file, p, "committed")

\* There is one request for an operation, and the effect is where it says.
RequestsMatchSink ==
  /\ \A q, r \in requests : q.operation = r.operation => q = r
  /\ \A q \in requests :
       /\ asked[q.operation] > 0
       /\ q.at = "sent" => sink[q.operation] = "absent"
       /\ q.at = "saving" => sink[q.operation] # "absent"
       /\ q.at = "answered" => sink[q.operation] = "saved"
  /\ \A o \in Operations : sink[o] # "absent" => asked[o] > 0

\* A call that will record a commit has seen an answer.
CommitsFollowAnswers ==
  \A c \in Callers : caller[c].at = "committing" => sink[caller[c].operation] = "saved"

\* A report, also one being made, is about an operation in the file.
ReportIsFounded ==
  LET o == recovery.operation IN
    /\ recovery.at = "probing" =>
         o \in Operations /\ recovery.event # "committed" /\ EventsOf(file, o) # {}
    /\ recovery.at = "done" => o \in Operations /\ EventsOf(file, o) # {}

EffectsInv ==
  /\ TypeInv /\ CallsAreOpen /\ LogsFollowFile
  /\ EngagedIsKnown /\ AsksFirst /\ EngagedAlone
  /\ RequestsMatchSink /\ CommitsFollowAnswers /\ CommitIsTrue
  /\ ReportIsFounded /\ ReportsHold

-----------------------------------------------------------------------------
(* Facts about the operators *)

\* A set of naturals has a least element.
LEMMA LeastElement ==
  ASSUME NEW T \in SUBSET Nat, T # {}
  PROVE  \E x \in T : \A y \in T : x <= y
<1> DEFINE R == OpToRel(<, Nat)
<1>1. IsWellFoundedOn(R, Nat)
  BY NatLessThanWellFounded
<1> HIDE DEF R
<1>2. PICK x \in T : \A y \in T : <<y, x>> \notin R
  BY <1>1, WFMin
<1>3. \A y \in T : ~(y < x)
  BY <1>2 DEF R, OpToRel
<1> QED BY <1>3

\* And a bounded one a greatest element.
LEMMA GreatestElement ==
  ASSUME NEW n \in Nat, NEW T \in SUBSET (0..n), T # {}
  PROVE  \E x \in T : \A y \in T : y <= x
<1> DEFINE U == {n - x : x \in T}
<1>1. U \in SUBSET Nat /\ U # {}
  <2>1. \A x \in T : n - x \in Nat
    OBVIOUS
  <2> QED BY <2>1
<1>2. PICK u \in U : \A v \in U : u <= v
  BY <1>1, LeastElement
<1>3. PICK x \in T : u = n - x
  BY <1>2
<1>4. \A y \in T : n - x <= n - y
  BY <1>2, <1>3
<1> QED BY <1>3, <1>4

\* Latest is the type of one of the operation's events, if it has any.
LEMMA LatestIsAnEvent ==
  ASSUME NEW lines \in Seq(Lines), NEW o
  PROVE  /\ EventsOf(lines, o) = {} => Latest(lines, o) = "none"
         /\ EventsOf(lines, o) # {} =>
              \E n \in EventsOf(lines, o) : Latest(lines, o) = lines[n].type
<1>1. CASE EventsOf(lines, o) = {}
  BY <1>1 DEF Latest
<1>2. CASE EventsOf(lines, o) # {}
  <2>1. EventsOf(lines, o) \in SUBSET (0..Len(lines)) /\ Len(lines) \in Nat
    BY DEF EventsOf
  <2>2. \E n \in EventsOf(lines, o) : \A m \in EventsOf(lines, o) : m <= n
    BY <1>2, <2>1, GreatestElement
  <2> DEFINE last == CHOOSE n \in EventsOf(lines, o) : \A m \in EventsOf(lines, o) : m <= n
  <2>3. last \in EventsOf(lines, o)
    BY <2>2
  <2>4. Latest(lines, o) = lines[last].type
    BY <1>2 DEF Latest
  <2> HIDE DEF last
  <2> QED BY <1>2, <2>3, <2>4
<1> QED BY <1>1, <1>2

\* An operation without a latest event has none, and one that is not
\* unresolved has none or is committed.
LEMMA LatestTells ==
  ASSUME NEW lines \in Seq(Lines), NEW o \in Operations
  PROVE  /\ Latest(lines, o) = "none" => EventsOf(lines, o) = {}
         /\ EventsOf(lines, o) # {} /\ Unresolved(lines) = {} =>
              Has(lines, o, "committed")
         /\ Latest(lines, o) # "none" =>
              Has(lines, o, Latest(lines, o))
<1>1. \A n \in EventsOf(lines, o) :
        n \in DOMAIN lines /\ lines[n].operation = o /\ lines[n].type \in Types
  <2>1. \A n \in DOMAIN lines : lines[n] \in Lines
    OBVIOUS
  <2> QED BY <2>1 DEF EventsOf, Lines
<1>2. "none" \notin Types
  BY DEF Types
<1>3. CASE EventsOf(lines, o) = {}
  BY <1>3, LatestIsAnEvent
<1>4. CASE EventsOf(lines, o) # {}
  <2>1. PICK n \in EventsOf(lines, o) : Latest(lines, o) = lines[n].type
    BY <1>4, LatestIsAnEvent
  <2>2. Unresolved(lines) = {} => Latest(lines, o) \notin {"reserved", "error"}
    BY DEF Unresolved
  <2> QED BY <1>1, <1>2, <1>4, <2>1, <2>2 DEF Types, Has
<1> QED BY <1>3, <1>4

\* What appending a line does to the events.
LEMMA AppendedEvents ==
  ASSUME NEW lines \in Seq(Lines), NEW line \in Lines
  PROVE  /\ Append(lines, line) \in Seq(Lines)
         /\ Len(Append(lines, line)) = Len(lines) + 1
         /\ DOMAIN Append(lines, line) = 1..(Len(lines) + 1)
         /\ \A n \in DOMAIN lines : Append(lines, line)[n] = lines[n]
         /\ Append(lines, line)[Len(lines) + 1] = line
         /\ \A o : EventsOf(lines, o) \subseteq EventsOf(Append(lines, line), o)
         /\ EventsOf(Append(lines, line), line.operation) # {}
         /\ \A o, type : Has(Append(lines, line), o, type) <=>
              Has(lines, o, type) \/ (o = line.operation /\ type = line.type)
<1>1. /\ Append(lines, line) \in Seq(Lines)
      /\ Len(Append(lines, line)) = Len(lines) + 1
      /\ \A n \in 1..Len(lines) : Append(lines, line)[n] = lines[n]
      /\ Append(lines, line)[Len(lines) + 1] = line
  BY AppendProperties
<1>2. /\ Len(lines) \in Nat /\ DOMAIN lines = 1..Len(lines)
      /\ DOMAIN Append(lines, line) = 1..(Len(lines) + 1)
  BY <1>1, LenProperties
<1>3. \A o, type : Has(Append(lines, line), o, type) <=>
        Has(lines, o, type) \/ (o = line.operation /\ type = line.type)
  BY <1>1, <1>2 DEF Has
<1> QED BY <1>1, <1>2, <1>3 DEF EventsOf

-----------------------------------------------------------------------------
(* Steps *)

\* The next line of a call's object is a line.
LEMMA NextLineIsLine ==
  ASSUME TypeInv, NEW j \in Journals, NEW o \in Operations, NEW type \in Types
  PROVE  NextLine(j, o, type) \in Lines
<1>1. Len(log[j]) + 1 \in Nat
  BY LenProperties DEF TypeInv
<1> QED BY <1>1 DEF NextLine, Lines

\* A call is at rest or has a record; moving it leaves it one.
LEMMA MovedCall ==
  ASSUME TypeInv, NEW c \in Callers, caller[c].at # "idle", NEW at \in Points
  PROVE  /\ caller[c] \in CallRecords
         /\ caller[c].operation \in Operations /\ caller[c].by \in Journals
         /\ Moves(c, at) => caller' \in [Callers -> {Idle} \union CallRecords]
         /\ Ends(c) => caller' \in [Callers -> {Idle} \union CallRecords]
<1>1. caller[c] \in CallRecords
  BY DEF TypeInv, Idle
<1>2. caller[c].operation \in Operations /\ caller[c].by \in Journals
  BY <1>1 DEF CallRecords
<1>3. [caller[c] EXCEPT !.at = at] \in CallRecords
  BY <1>1 DEF CallRecords
<1> QED BY <1>1, <1>2, <1>3 DEF TypeInv, Moves, Ends

LEMMA TypeInit == Init => TypeInv
BY DEF Init, TypeInv

\* What a call's writing of a line does to the types.
LEMMA WritingKeepsTypes ==
  ASSUME TypeInv, NEW j \in Journals, NEW line \in Lines,
         Appended(j, line) \/ AppendThrows(j, line)
  PROVE  /\ file' \in Seq(Lines)
         /\ opened' = opened
         /\ log' \in [Journals -> Seq(Lines)]
<1>1. file \in Seq(Lines) /\ log[j] \in Seq(Lines)
  BY DEF TypeInv
<1>2. Append(file, line) \in Seq(Lines) /\ Append(log[j], line) \in Seq(Lines)
  BY <1>1, AppendedEvents
<1> QED BY <1>1, <1>2 DEF Appended, AppendThrows, TypeInv

\* Every step keeps the types.
LEMMA TypeStep == TypeInv /\ [Next]_vars => TypeInv'
<1> SUFFICES ASSUME TypeInv, [Next]_vars PROVE TypeInv'
  OBVIOUS
<1> USE DEF journal, outside
<1>1. ASSUME NEW j \in Journals, Open(j) PROVE TypeInv'
  BY <1>1 DEF Open, TypeInv
<1>2. ASSUME NEW c \in Callers, NEW j \in Journals, NEW o \in Operations, Reserve(c, j, o)
      PROVE  TypeInv'
  <2>1. [at |-> "reserving", operation |-> o, by |-> j, number |-> 0] \in CallRecords
    BY DEF CallRecords, Points
  <2> QED BY <1>2, <2>1 DEF Reserve, TypeInv
<1>3. ASSUME NEW c \in Callers, Reserved(c) PROVE TypeInv'
  <2>1. caller[c].at # "idle" /\ "reserved" \in Points
    BY <1>3 DEF Reserved, Points
  <2>2. NextLine(caller[c].by, caller[c].operation, "reserved") \in Lines
    BY <2>1, MovedCall, NextLineIsLine DEF Types
  <2>3. file' \in Seq(Lines) /\ opened' = opened /\ log' \in [Journals -> Seq(Lines)]
    BY <1>3, <2>1, <2>2, MovedCall, WritingKeepsTypes DEF Reserved
  <2>4. caller' \in [Callers -> {Idle} \union CallRecords]
    BY <1>3, <2>1, MovedCall DEF Reserved
  <2> QED BY <1>3, <2>3, <2>4 DEF Reserved, TypeInv
<1>4. ASSUME NEW c \in Callers, Ask(c) PROVE TypeInv'
  <2>1. /\ caller[c] \in CallRecords
        /\ caller[c].operation \in Operations /\ asked[caller[c].operation] + 1 \in Nat
    BY <1>4, MovedCall DEF Ask, Points, TypeInv
  <2>2. [caller[c] EXCEPT !.at = "calling", !.number = asked[caller[c].operation] + 1]
          \in CallRecords
    BY <2>1 DEF CallRecords, Points
  <2>3. caller' = [caller EXCEPT ![c] =
          [caller[c] EXCEPT !.at = "calling", !.number = asked[caller[c].operation] + 1]]
    BY <1>4, <2>1 DEF Ask, TypeInv
  <2>4. caller' \in [Callers -> {Idle} \union CallRecords]
    BY <2>2, <2>3 DEF TypeInv
  <2>5. requests' \subseteq RequestRecords /\ asked' \in [Operations -> Nat]
    BY <1>4, <2>1 DEF Ask, TypeInv, RequestRecords
  <2> QED BY <1>4, <2>4, <2>5 DEF Ask, TypeInv
<1>5. ASSUME NEW c \in Callers, Answered(c) \/ CallFails(c) PROVE TypeInv'
  <2>1. caller[c].at # "idle" /\ "committing" \in Points /\ "erring" \in Points
    BY <1>5 DEF Answered, CallFails, Points
  <2>2. caller' \in [Callers -> {Idle} \union CallRecords]
    BY <1>5, <2>1, MovedCall DEF Answered, CallFails, Records
  <2> QED BY <1>5, <2>2 DEF Answered, CallFails, TypeInv
<1>6. ASSUME NEW c \in Callers, Committed(c) PROVE TypeInv'
  <2>1. caller[c].at # "idle" /\ "committing" \in Points
    BY <1>6 DEF Committed, Points
  <2>2. NextLine(caller[c].by, caller[c].operation, "committed") \in Lines
    BY <2>1, MovedCall, NextLineIsLine DEF Types
  <2>3. file' \in Seq(Lines) /\ opened' = opened /\ log' \in [Journals -> Seq(Lines)]
    BY <1>6, <2>1, <2>2, MovedCall, WritingKeepsTypes DEF Committed
  <2>4. caller' \in [Callers -> {Idle} \union CallRecords] /\ receipts' \subseteq Operations
    BY <1>6, <2>1, MovedCall DEF Committed, TypeInv
  <2> QED BY <1>6, <2>3, <2>4 DEF Committed, TypeInv
<1>7. ASSUME NEW c \in Callers, Erred(c) PROVE TypeInv'
  <2>1. caller[c].at # "idle" /\ "erring" \in Points
    BY <1>7 DEF Erred, Points
  <2>2. NextLine(caller[c].by, caller[c].operation, "error") \in Lines
    BY <2>1, MovedCall, NextLineIsLine DEF Types
  <2>3. file' \in Seq(Lines) /\ opened' = opened /\ log' \in [Journals -> Seq(Lines)]
    BY <1>7, <2>1, <2>2, MovedCall, WritingKeepsTypes DEF Erred
  <2>4. caller' \in [Callers -> {Idle} \union CallRecords]
    BY <1>7, <2>1, MovedCall DEF Erred
  <2> QED BY <1>7, <2>3, <2>4 DEF Erred, TypeInv
<1>8. CASE Crash
  BY <1>8 DEF Crash, TypeInv
<1>9. ASSUME NEW q \in requests, Takes(q) \/ Saves(q) \/ Drops(q) PROVE TypeInv'
  <2>1. q \in RequestRecords
    BY DEF TypeInv
  <2>2. /\ q.operation \in Operations
        /\ [q EXCEPT !.at = "saving"] \in RequestRecords
        /\ [q EXCEPT !.at = "answered"] \in RequestRecords
    BY <2>1 DEF RequestRecords
  <2>3. requests' \subseteq RequestRecords
    BY <1>9, <2>2 DEF Takes, Saves, Drops, Becomes, TypeInv
  <2>4. sink' \in [Operations -> {"absent", "unsaved", "saved"}]
    BY <1>9, <2>2 DEF Takes, Saves, Drops, TypeInv
  <2> QED BY <1>9, <2>3, <2>4 DEF Takes, Saves, Drops, TypeInv
<1>10. CASE SinkRestarts
  BY <1>10 DEF SinkRestarts, TypeInv
<1>11. ASSUME NEW o \in Operations, Reconcile(o) PROVE TypeInv'
  BY <1>11 DEF Reconcile, TypeInv
<1>12. CASE UNCHANGED vars
  BY <1>12 DEF vars, TypeInv
<1> QED BY <1>1, <1>2, <1>3, <1>4, <1>5, <1>6, <1>7, <1>8, <1>9, <1>10, <1>11, <1>12
        DEF Next

\* All that can happen to the journal: nothing, an object is opened, all
\* objects go, or a call writes the line it prepared.
Opens(j) ==
  /\ j \notin opened
  /\ opened' = opened \union {j}
  /\ log' = [log EXCEPT ![j] = file]
  /\ file' = file

Writes(c, type) ==
  LET line == NextLine(caller[c].by, caller[c].operation, type) IN
    /\ caller[c] \in CallRecords /\ line \in Lines
    /\ caller[c].by \in opened /\ caller[c].operation \in Operations
    /\ Appended(caller[c].by, line) \/ AppendThrows(caller[c].by, line)

LEMMA JournalSteps ==
  ASSUME TypeInv, CallsAreOpen, [Next]_vars
  PROVE  \/ UNCHANGED journal
         \/ \E j \in Journals : Opens(j)
         \/ opened' = {} /\ file' = file
         \/ \E c \in Callers, type \in Types : Writes(c, type)
<1>1. ASSUME NEW c \in Callers, NEW at \in Points, NEW type \in Types,
             caller[c].at = at,
             LET line == NextLine(caller[c].by, caller[c].operation, type) IN
               Appended(caller[c].by, line) \/ AppendThrows(caller[c].by, line)
      PROVE  Writes(c, type)
  <2>1. caller[c].at # "idle"
    BY <1>1 DEF Points
  <2>2. /\ caller[c] \in CallRecords
        /\ caller[c].operation \in Operations /\ caller[c].by \in Journals
    BY <2>1, MovedCall
  <2>3. caller[c].by \in opened
    BY <2>1 DEF CallsAreOpen, Idle
  <2>4. NextLine(caller[c].by, caller[c].operation, type) \in Lines
    BY <2>2, NextLineIsLine
  <2> QED BY <1>1, <2>2, <2>3, <2>4 DEF Writes
<1>2. {"reserving", "committing", "erring"} \subseteq Points
  BY DEF Points
<1>3. ASSUME NEW c \in Callers, Reserved(c) PROVE Writes(c, "reserved")
  BY <1>1, <1>2, <1>3 DEF Reserved, Types
<1>4. ASSUME NEW c \in Callers, Committed(c) PROVE Writes(c, "committed")
  BY <1>1, <1>2, <1>4 DEF Committed, Types
<1>5. ASSUME NEW c \in Callers, Erred(c) PROVE Writes(c, "error")
  BY <1>1, <1>2, <1>5 DEF Erred, Types
<1>6. ASSUME NEW c \in Callers,
             \/ \E j \in Journals, o \in Operations : Reserve(c, j, o)
             \/ Ask(c) \/ Answered(c) \/ CallFails(c)
      PROVE  UNCHANGED journal
  BY <1>6 DEF Reserve, Ask, Answered, CallFails, journal
<1>7. ASSUME NEW j \in Journals, Open(j) PROVE Opens(j)
  BY <1>7 DEF Open, Opens
<1>8. CASE Crash
  BY <1>8 DEF Crash
<1>9. ASSUME NEW q \in requests, Takes(q) \/ Saves(q) \/ Drops(q) PROVE UNCHANGED journal
  BY <1>9 DEF Takes, Saves, Drops, journal
<1>10. CASE SinkRestarts
  BY <1>10 DEF SinkRestarts, journal
<1>11. ASSUME NEW o \in Operations, Reconcile(o) PROVE UNCHANGED journal
  BY <1>11 DEF Reconcile, journal
<1>12. CASE UNCHANGED vars
  BY <1>12 DEF vars, journal
<1>13. "reserved" \in Types /\ "committed" \in Types /\ "error" \in Types
  BY DEF Types
<1> QED BY <1>3, <1>4, <1>5, <1>6, <1>7, <1>8, <1>9, <1>10, <1>11, <1>12, <1>13 DEF Next

\* Nothing that is in the file ever leaves it.
LEMMA FileOnlyGrows ==
  ASSUME TypeInv, CallsAreOpen, [Next]_vars
  PROVE  /\ \A o : EventsOf(file, o) # {} => EventsOf(file', o) # {}
         /\ \A o, type : Has(file, o, type) => Has(file', o, type)
         /\ file' = file \/ Len(file') = Len(file) + 1
<1>1. file \in Seq(Lines)
  BY DEF TypeInv
<1>2. ASSUME NEW line \in Lines, file' = Append(file, line)
      PROVE  /\ \A o : EventsOf(file, o) # {} => EventsOf(file', o) # {}
             /\ \A o, type : Has(file, o, type) => Has(file', o, type)
             /\ Len(file') = Len(file) + 1
  BY <1>1, <1>2, AppendedEvents
<1>3. file' = file \/ \E line \in Lines : file' = Append(file, line)
  BY JournalSteps DEF journal, Opens, Writes, Appended, AppendThrows
<1> QED BY <1>2, <1>3

LEMMA CallsAreOpenStep ==
  ASSUME TypeInv, CallsAreOpen, [Next]_vars
  PROVE  CallsAreOpen'
<1>1. CASE Crash
  BY <1>1 DEF Crash, CallsAreOpen
<1>2. ASSUME NEW c \in Callers, NEW j \in Journals, NEW o \in Operations, Reserve(c, j, o)
      PROVE  CallsAreOpen'
  BY <1>2 DEF Reserve, CallsAreOpen, TypeInv, journal
<1>3. ASSUME NEW c \in Callers, NEW at \in Points, opened' = opened, caller[c].at # "idle",
             Moves(c, at) \/ Ends(c)
      PROVE  CallsAreOpen'
  <2>1. caller[c] # Idle
    BY <1>3 DEF Idle
  <2>2. caller'[c] = Idle \/ caller'[c].by = caller[c].by
    BY <1>3, MovedCall DEF Moves, Ends, TypeInv, CallRecords
  <2> QED BY <1>3, <2>1, <2>2 DEF CallsAreOpen, Moves, Ends, TypeInv
<1>4. ASSUME NEW c \in Callers, Ask(c) PROVE CallsAreOpen'
  <2>1. caller[c].at # "idle" /\ caller[c] # Idle
    BY <1>4 DEF Ask, Idle
  <2>2. caller'[c].by = caller[c].by
    BY <1>4, <2>1, MovedCall DEF Ask, TypeInv, CallRecords, Points
  <2> QED BY <1>4, <2>1, <2>2 DEF Ask, CallsAreOpen, TypeInv, journal
<1>5. ASSUME NEW c \in Callers,
             Reserved(c) \/ Answered(c) \/ CallFails(c) \/ Committed(c) \/ Erred(c)
      PROVE  CallsAreOpen'
  <2>1. \E at \in Points : Moves(c, at) \/ Ends(c)
    BY <1>5 DEF Reserved, Answered, CallFails, Committed, Erred, Records, Points
  <2>2. caller[c].at # "idle"
    BY <1>5 DEF Reserved, Answered, CallFails, Committed, Erred
  <2>3. opened' = opened
    BY <1>5 DEF Reserved, Answered, CallFails, Committed, Erred, Appended, AppendThrows,
                journal
  <2> QED BY <1>3, <2>1, <2>2, <2>3
<1>6. CASE \/ \E j \in Journals : Open(j)
           \/ \E q \in requests : Takes(q) \/ Saves(q) \/ Drops(q)
           \/ SinkRestarts
           \/ \E o \in Operations : Reconcile(o)
           \/ UNCHANGED vars
  BY <1>6 DEF Open, Takes, Saves, Drops, SinkRestarts, Reconcile, vars, journal, CallsAreOpen
<1> QED BY <1>1, <1>2, <1>4, <1>5, <1>6 DEF Next

LEMMA LogsStep ==
  ASSUME TypeInv, CallsAreOpen, LogsFollowFile, [Next]_vars
  PROVE  LogsFollowFile'
<1>0. /\ file \in Seq(Lines) /\ Len(file) \in Nat /\ opened \subseteq Journals
      /\ \A j \in Journals : log[j] \in Seq(Lines) /\ Len(log[j]) \in Nat
  BY DEF TypeInv
<1>1. \A o, type : Has(file, o, type) => Has(file', o, type)
  BY FileOnlyGrows
<1>2. CASE UNCHANGED journal
  BY <1>2 DEF journal, LogsFollowFile
<1>3. ASSUME NEW j \in Journals, Opens(j) PROVE LogsFollowFile'
  <2>1. log'[j] = file /\ \A k \in opened : log'[k] = log[k]
    BY <1>0, <1>3 DEF Opens, TypeInv
  <2> QED BY <1>0, <1>3, <2>1 DEF Opens, LogsFollowFile
<1>4. CASE opened' = {}
  BY <1>4 DEF LogsFollowFile
<1>5. ASSUME NEW c \in Callers, NEW type \in Types, Writes(c, type) PROVE LogsFollowFile'
  <2>1. PICK j \in opened, line \in Lines :
          opened' = opened /\ (Appended(j, line) \/ AppendThrows(j, line))
    BY <1>5 DEF Writes, Appended, AppendThrows
  <2>2. CASE Appended(j, line)
    <3>1. /\ file' = Append(file, line) /\ log'[j] = Append(log[j], line)
          /\ \A k \in opened : k # j => log'[k] = log[k]
      BY <1>0, <2>2 DEF Appended, TypeInv
    <3>2. Len(file') = Len(file) + 1 /\ Len(log'[j]) = Len(log[j]) + 1
      BY <1>0, <3>1, AppendedEvents
    <3>3. \A o, t : Has(log'[j], o, t) => Has(file', o, t)
      BY <1>0, <3>1, AppendedEvents DEF LogsFollowFile
    <3>4. /\ Len(log'[j]) <= Len(file')
          /\ Len(log'[j]) = Len(file') => log'[j] = file'
      BY <1>0, <3>1, <3>2 DEF LogsFollowFile
    <3>5. \A k \in opened : k # j =>
            /\ Len(log'[k]) <= Len(file') /\ Len(log'[k]) # Len(file')
            /\ \A o, t : Has(log'[k], o, t) => Has(file', o, t)
      BY <1>0, <1>1, <3>1, <3>2 DEF LogsFollowFile
    <3> QED BY <2>1, <3>3, <3>4, <3>5 DEF LogsFollowFile
  <2>3. CASE AppendThrows(j, line)
    <3>1. log' = log /\ (file' = file \/ Len(file') = Len(file) + 1)
      BY <2>3, FileOnlyGrows DEF AppendThrows
    <3> QED BY <1>0, <1>1, <2>1, <3>1 DEF LogsFollowFile
  <2> QED BY <2>1, <2>2, <2>3
<1> QED BY <1>2, <1>3, <1>4, <1>5, JournalSteps

\* Who knows of an operation goes on to.
LEMMA KnownStaysKnown ==
  ASSUME TypeInv, CallsAreOpen, [Next]_vars, NEW o \in Operations,
         EventsOf(file, o) # {}, \A j \in opened : EventsOf(log[j], o) # {}
  PROVE  EventsOf(file', o) # {} /\ \A j \in opened' : EventsOf(log'[j], o) # {}
<1>1. EventsOf(file', o) # {}
  BY FileOnlyGrows
<1>2. CASE UNCHANGED journal
  BY <1>1, <1>2 DEF journal
<1>3. ASSUME NEW j \in Journals, Opens(j) PROVE \A k \in opened' : EventsOf(log'[k], o) # {}
  BY <1>3 DEF Opens, TypeInv
<1>4. ASSUME NEW c \in Callers, NEW type \in Types, Writes(c, type)
      PROVE  \A k \in opened' : EventsOf(log'[k], o) # {}
  <2>1. PICK j \in opened, line \in Lines :
          opened' = opened /\ (Appended(j, line) \/ AppendThrows(j, line))
    BY <1>4 DEF Writes, Appended, AppendThrows
  <2>2. /\ log[j] \in Seq(Lines)
        /\ log' = log \/ log' = [log EXCEPT ![j] = Append(log[j], line)]
    BY <2>1 DEF Appended, AppendThrows, TypeInv
  <2>3. EventsOf(log[j], o) \subseteq EventsOf(Append(log[j], line), o)
    BY <2>2, AppendedEvents
  <2> QED BY <2>1, <2>2, <2>3 DEF TypeInv
<1> QED BY <1>1, <1>2, <1>3, <1>4, JournalSteps

-----------------------------------------------------------------------------
(* The sink is asked once, and for one operation in doubt *)

EngagedInv == EngagedIsKnown /\ AsksFirst /\ EngagedAlone

\* A step that asks nothing and reserves nothing keeps who is engaged.
LEMMA EngagedUnlessReserved ==
  ASSUME TypeInv, CallsAreOpen, EngagedInv, [Next]_vars,
         asked' = asked,
         \A c \in Callers : caller'[c].at = "reserved" => caller'[c] = caller[c]
  PROVE  EngagedInv'
<1>1. \A o : Engaged(o)' => Engaged(o)
  BY DEF Engaged
<1>2. EngagedIsKnown'
  BY <1>1, KnownStaysKnown DEF EngagedInv, EngagedIsKnown
<1>3. AsksFirst'
  BY DEF EngagedInv, AsksFirst, AskedOnce
<1>4. EngagedAlone'
  BY <1>1, FileOnlyGrows DEF EngagedInv, EngagedAlone
<1> QED BY <1>2, <1>3, <1>4 DEF EngagedInv

\* A reservation is only made of an operation nobody is engaged in, and when
\* all engaged ones are committed.
LEMMA EngagedByReservation ==
  ASSUME SingleWriter, TypeInv, CallsAreOpen, LogsFollowFile, EngagedInv, [Next]_vars,
         NEW c \in Callers, Reserved(c), caller'[c].at = "reserved"
  PROVE  EngagedInv'
<1>1. PICK o \in Operations, j \in opened :
        /\ caller[c].operation = o /\ caller[c].by = j
        /\ caller[c].at = "reserving"
        /\ Appended(j, NextLine(j, o, "reserved"))
        /\ Moves(c, "reserved")
        /\ asked' = asked
  <2>1. /\ caller[c].at = "reserving" /\ caller[c] # Idle /\ Idle.at = "idle"
        /\ "committing" \in Points
    BY DEF Reserved, Idle, Points
  <2>2. caller[c].operation \in Operations /\ caller[c].by \in opened
    BY <2>1, MovedCall DEF CallsAreOpen
  <2>3. ~Ends(c)
    BY <2>1 DEF Ends, TypeInv
  <2> QED BY <2>1, <2>2, <2>3 DEF Reserved, outside
<1>2. /\ j \in Journals /\ log[j] \in Seq(Lines) /\ NextLine(j, o, "reserved") \in Lines
      /\ NextLine(j, o, "reserved").operation = o /\ NextLine(j, o, "reserved").type = "reserved"
  BY <1>1, NextLineIsLine DEF TypeInv, NextLine, Types
<1>3. Latest(log[j], o) = "none" /\ Unresolved(log[j]) = {}
  BY <1>1, <1>2 DEF Appended, Follows
<1>4. ~Engaged(o) /\ asked[o] = 0
  <2>1. EventsOf(log[j], o) = {}
    BY <1>2, <1>3, LatestTells
  <2>2. ~Engaged(o)
    BY <1>1, <2>1 DEF EngagedInv, EngagedIsKnown
  <2> QED BY <2>2 DEF Engaged, TypeInv
<1>5. \A d \in Callers : d # c => caller'[d] = caller[d]
  BY <1>1 DEF Moves, TypeInv
<1>6. caller'[c].operation = o
  <2>1. caller[c].at # "idle" /\ "reserved" \in Points
    BY <1>1 DEF Points
  <2> QED BY <1>1, <2>1, MovedCall DEF Moves, TypeInv, CallRecords
<1>7. \A p \in Operations : Engaged(p)' => p = o \/ Engaged(p)
  BY <1>1, <1>5, <1>6 DEF Engaged
<1>8. EngagedIsKnown'
  <2>1. EventsOf(file', o) # {} /\ EventsOf(log'[j], o) # {} /\ opened' = opened
    BY <1>1, <1>2, AppendedEvents DEF Appended, TypeInv
  <2>2. \A k \in opened' : EventsOf(log'[k], o) # {}
    BY <1>1, <2>1 DEF SingleWriter
  <2>3. \A p \in Operations : Engaged(p) =>
          EventsOf(file', p) # {} /\ \A k \in opened' : EventsOf(log'[k], p) # {}
    BY KnownStaysKnown DEF EngagedInv, EngagedIsKnown
  <2> QED BY <1>7, <2>1, <2>2, <2>3 DEF EngagedIsKnown
<1>9. AsksFirst'
  <2>1. \A d \in Callers : caller[d].at = "reserved" => caller[d].operation # o
    BY <1>4 DEF Engaged
  <2> QED BY <1>1, <1>4, <1>5, <1>6, <2>1 DEF EngagedInv, AsksFirst, AskedOnce
<1>10. EngagedAlone'
  <2>1. ASSUME NEW p \in Operations, Engaged(p) PROVE Has(file', p, "committed")
    <3>1. EventsOf(log[j], p) # {}
      BY <1>1, <2>1 DEF EngagedInv, EngagedIsKnown
    <3>2. Has(log[j], p, "committed")
      BY <1>2, <1>3, <3>1, LatestTells
    <3> QED BY <1>1, <3>2, FileOnlyGrows DEF LogsFollowFile
  <2> QED BY <1>7, <2>1 DEF EngagedAlone
<1> QED BY <1>8, <1>9, <1>10 DEF EngagedInv

\* Asking makes nobody else engaged.
LEMMA EngagedByAsking ==
  ASSUME TypeInv, CallsAreOpen, EngagedInv, [Next]_vars, NEW c \in Callers, Ask(c)
  PROVE  EngagedInv'
<1>1. PICK o \in Operations :
        /\ caller[c].operation = o /\ caller[c].at = "reserved"
        /\ asked' = [asked EXCEPT ![o] = asked[o] + 1]
        /\ caller'[c].at = "calling"
        /\ \A d \in Callers : d # c => caller'[d] = caller[d]
  <2>1. caller[c].at # "idle" /\ "calling" \in Points
    BY DEF Ask, Points
  <2> QED BY <2>1, MovedCall DEF Ask, TypeInv, CallRecords
<1>2. asked[o] = 0 /\ asked'[o] = 1 /\ \A p \in Operations : p # o => asked'[p] = asked[p]
  BY <1>1 DEF EngagedInv, AsksFirst, TypeInv
<1>3. \A p \in Operations : Engaged(p)' => Engaged(p)
  BY <1>1, <1>2 DEF Engaged
<1>4. EngagedIsKnown'
  BY <1>3, KnownStaysKnown DEF EngagedInv, EngagedIsKnown
<1>5. AskedOnce'
  BY <1>2 DEF EngagedInv, AsksFirst, AskedOnce
<1>6. \A d \in Callers : caller'[d].at = "reserved" =>
        d # c /\ caller'[d] = caller[d] /\ caller[d].operation # o
  BY <1>1 DEF EngagedInv, AsksFirst
<1>7. \A d \in Callers : caller'[d].at = "reserved" => caller'[d].operation \in Operations
  <2>1. "calling" \in Points
    BY DEF Points
  <2> QED BY <1>6, <2>1, MovedCall
<1>8. AsksFirst'
  BY <1>2, <1>5, <1>6, <1>7 DEF EngagedInv, AsksFirst
<1>9. EngagedAlone'
  BY <1>3, FileOnlyGrows DEF EngagedInv, EngagedAlone
<1> QED BY <1>4, <1>8, <1>9 DEF EngagedInv

LEMMA EngagedStep ==
  ASSUME SingleWriter, TypeInv, CallsAreOpen, LogsFollowFile, EngagedInv, [Next]_vars
  PROVE  EngagedInv'
<1>1. ASSUME NEW c \in Callers, Reserved(c), caller'[c].at # "reserved" PROVE EngagedInv'
  <2>1. asked' = asked /\ \A d \in Callers : d # c => caller'[d] = caller[d]
    BY <1>1 DEF Reserved, outside, Moves, Ends, TypeInv
  <2> QED BY <1>1, <2>1, EngagedUnlessReserved
<1>2. ASSUME NEW c \in Callers,
             \/ \E j \in Journals, o \in Operations : Reserve(c, j, o)
             \/ Answered(c) \/ CallFails(c) \/ Committed(c) \/ Erred(c)
      PROVE  EngagedInv'
  <2>1. asked' = asked
    BY <1>2 DEF Reserve, Answered, CallFails, Committed, Erred, outside
  <2>2. \A d \in Callers : d # c => caller'[d] = caller[d]
    BY <1>2 DEF Reserve, Answered, CallFails, Committed, Erred, Records, Moves, Ends, TypeInv
  <2>3. caller'[c].at # "reserved"
    <3>1. CASE \E j \in Journals, o \in Operations : Reserve(c, j, o)
      BY <3>1 DEF Reserve, TypeInv
    <3>2. CASE Answered(c) \/ CallFails(c) \/ Committed(c) \/ Erred(c)
      <4>1. /\ caller[c].at # "idle" /\ "committing" \in Points
            /\ Moves(c, "committing") \/ Moves(c, "erring") \/ Ends(c)
        BY <3>2 DEF Answered, CallFails, Committed, Erred, Records, Points
      <4>2. caller[c] \in CallRecords
        BY <4>1, MovedCall
      <4> QED BY <4>1, <4>2 DEF Moves, Ends, TypeInv, CallRecords, Idle
    <3> QED BY <1>2, <3>1, <3>2
  <2> QED BY <2>1, <2>2, <2>3, EngagedUnlessReserved
<1>3. CASE Crash
  <2>1. asked' = asked /\ \A d \in Callers : caller'[d].at # "reserved"
    BY <1>3 DEF Crash, outside, Idle
  <2> QED BY <2>1, EngagedUnlessReserved
<1>4. CASE \/ \E j \in Journals : Open(j)
           \/ \E q \in requests : Takes(q) \/ Saves(q) \/ Drops(q)
           \/ SinkRestarts
           \/ \E o \in Operations : Reconcile(o)
           \/ UNCHANGED vars
  <2>1. asked' = asked /\ caller' = caller
    BY <1>4 DEF Open, Takes, Saves, Drops, SinkRestarts, Reconcile, vars, outside
  <2> QED BY <2>1, EngagedUnlessReserved
<1> QED BY <1>1, <1>2, <1>3, <1>4, EngagedByReservation, EngagedByAsking DEF Next

-----------------------------------------------------------------------------
(* The journal and the reports tell the truth *)

\* An operation that is asked for has no request yet.
LEMMA RequestsStep ==
  ASSUME TypeInv, EngagedInv, RequestsMatchSink, [Next]_vars
  PROVE  /\ RequestsMatchSink'
         /\ \A o \in Operations : sink[o] = "saved" => sink'[o] = "saved"
<1>0. \A q \in requests : q \in RequestRecords /\ q.operation \in Operations
  BY DEF TypeInv, RequestRecords
<1>1. ASSUME NEW c \in Callers, Ask(c)
      PROVE  RequestsMatchSink' /\ sink' = sink
  <2> DEFINE o == caller[c].operation
             asking == [operation |-> o, number |-> asked[o] + 1, at |-> "sent"]
  <2>1. /\ o \in Operations /\ asked[o] = 0 /\ sink' = sink
        /\ asked' = [asked EXCEPT ![o] = asked[o] + 1]
        /\ requests' = requests \union {asking}
    <3>1. caller[c].at # "idle" /\ "calling" \in Points
      BY <1>1 DEF Ask, Points
    <3> QED BY <1>1, <3>1, MovedCall DEF Ask, EngagedInv, AsksFirst
  <2>2. asking.operation = o /\ asking.at = "sent"
    OBVIOUS
  <2>3. \A q \in requests : q.operation # o
    BY <2>1 DEF RequestsMatchSink
  <2>4. sink[o] = "absent"
    BY <2>1 DEF RequestsMatchSink, TypeInv
  <2>5. \A p \in Operations : asked[p] > 0 => asked'[p] > 0
    BY <2>1 DEF TypeInv
  <2>6. asked'[o] > 0
    BY <2>1 DEF TypeInv
  <2> HIDE DEF o, asking
  <2> QED BY <1>0, <2>1, <2>2, <2>3, <2>4, <2>5, <2>6 DEF RequestsMatchSink
<1>2. ASSUME NEW q \in requests, Takes(q) \/ Saves(q) \/ Drops(q)
      PROVE  /\ RequestsMatchSink'
             /\ \A o \in Operations : sink[o] = "saved" => sink'[o] = "saved"
  <2>1. /\ q \in RequestRecords /\ q.operation \in Operations /\ asked' = asked
        /\ asked[q.operation] > 0
        /\ \A r \in requests : r.operation = q.operation => r = q
    BY <1>0, <1>2 DEF Takes, Saves, Drops, RequestsMatchSink
  <2>2. CASE Takes(q)
    <3>1. PICK r \in RequestRecords :
            /\ r.operation = q.operation /\ r.at = "saving"
            /\ requests' = (requests \ {q}) \union {r}
            /\ sink' = [sink EXCEPT ![q.operation] = "unsaved"]
            /\ sink[q.operation] = "absent"
      <4>1. sink[q.operation] = "absent"
        BY <2>2 DEF Takes, RequestsMatchSink
      <4>2. /\ [q EXCEPT !.at = "saving"] \in RequestRecords
            /\ [q EXCEPT !.at = "saving"].operation = q.operation
            /\ [q EXCEPT !.at = "saving"].at = "saving"
        BY <2>1 DEF RequestRecords
      <4> QED BY <2>2, <4>1, <4>2 DEF Takes, Becomes
    <3> QED BY <1>0, <2>1, <3>1 DEF RequestsMatchSink, TypeInv
  <2>3. CASE Saves(q)
    <3>1. PICK r \in RequestRecords :
            /\ r.operation = q.operation /\ r.at = "answered"
            /\ requests' = (requests \ {q}) \union {r}
      BY <2>1, <2>3 DEF Saves, Becomes, RequestRecords
    <3>2. \A o \in Operations :
            sink'[o] = IF sink[o] = "unsaved" THEN "saved" ELSE sink[o]
      BY <2>3 DEF Saves
    <3>3. sink'[q.operation] = "saved"
      BY <2>1, <2>3, <3>2 DEF Saves, RequestsMatchSink, TypeInv
    <3> QED BY <1>0, <2>1, <3>1, <3>2, <3>3 DEF RequestsMatchSink
  <2>4. CASE Drops(q)
    BY <2>1, <2>4 DEF Drops, RequestsMatchSink
  <2> QED BY <1>2, <2>2, <2>3, <2>4
<1>3. CASE SinkRestarts
  <2>1. /\ requests' \subseteq requests /\ \A q \in requests' : q.at = "answered"
        /\ asked' = asked
        /\ \A o \in Operations :
             sink'[o] = IF sink[o] = "unsaved" THEN "absent" ELSE sink[o]
    BY <1>3 DEF SinkRestarts
  <2> QED BY <1>0, <2>1 DEF RequestsMatchSink
<1>4. CASE UNCHANGED outside
  BY <1>4 DEF outside, RequestsMatchSink
<1>5. CASE \/ \E j \in Journals : Open(j)
           \/ \E c \in Callers :
                \/ \E j \in Journals, o \in Operations : Reserve(c, j, o)
                \/ Reserved(c) \/ Answered(c) \/ CallFails(c) \/ Committed(c) \/ Erred(c)
           \/ Crash
           \/ \E o \in Operations : Reconcile(o)
           \/ UNCHANGED vars
  BY <1>4, <1>5 DEF Open, Reserve, Reserved, Answered, CallFails, Committed, Erred,
                    Crash, Reconcile, vars, outside
<1> QED BY <1>1, <1>2, <1>3, <1>5 DEF Next

\* A call that will record a commit has an answer, which means a saved effect.
LEMMA CommitsStep ==
  ASSUME TypeInv, EngagedInv, RequestsMatchSink, CommitsFollowAnswers, [Next]_vars
  PROVE  CommitsFollowAnswers'
<1>1. \A o \in Operations : sink[o] = "saved" => sink'[o] = "saved"
  BY RequestsStep
<1>2. \A c \in Callers : caller[c].at = "committing" => caller[c].operation \in Operations
  <2>1. "committing" \in Points
    BY DEF Points
  <2> QED BY <2>1, MovedCall
<1>3. ASSUME \A c \in Callers : caller'[c].at = "committing" => caller'[c] = caller[c]
      PROVE  CommitsFollowAnswers'
  BY <1>1, <1>2, <1>3 DEF CommitsFollowAnswers
<1>4. ASSUME NEW c \in Callers, Answered(c) PROVE CommitsFollowAnswers'
  <2>1. /\ caller[c].at # "idle" /\ "committing" \in Points
        /\ Moves(c, "committing") \/ Ends(c)
        /\ \E q \in requests : q.operation = caller[c].operation /\ q.at = "answered"
    BY <1>4 DEF Answered, Records, Points
  <2>2. sink[caller[c].operation] = "saved" /\ caller[c].operation \in Operations
    BY <2>1, MovedCall DEF RequestsMatchSink
  <2>3. \A d \in Callers : d # c => caller'[d] = caller[d]
    BY <2>1 DEF Moves, Ends, TypeInv
  <2>4. caller'[c] = Idle \/ caller'[c].operation = caller[c].operation
    BY <2>1, MovedCall DEF Moves, Ends, TypeInv, CallRecords
  <2>5. Idle.at # "committing"
    BY DEF Idle
  <2> QED BY <1>1, <1>2, <2>2, <2>3, <2>4, <2>5 DEF CommitsFollowAnswers
<1>5. ASSUME NEW c \in Callers,
             Reserved(c) \/ CallFails(c) \/ Committed(c) \/ Erred(c)
      PROVE  CommitsFollowAnswers'
  <2>1. /\ caller[c].at # "idle" /\ "erring" \in Points
        /\ Moves(c, "reserved") \/ Moves(c, "erring") \/ Ends(c)
    BY <1>5 DEF Reserved, CallFails, Committed, Erred, Records, Points
  <2>2. caller'[c].at # "committing" /\ \A d \in Callers : d # c => caller'[d] = caller[d]
    BY <2>1, MovedCall DEF Moves, Ends, TypeInv, CallRecords, Idle
  <2> QED BY <1>3, <2>2
<1>6. ASSUME NEW c \in Callers, Ask(c) PROVE CommitsFollowAnswers'
  <2>1. caller[c].at # "idle" /\ "calling" \in Points
    BY <1>6 DEF Ask, Points
  <2>2. caller'[c].at # "committing" /\ \A d \in Callers : d # c => caller'[d] = caller[d]
    BY <1>6, <2>1, MovedCall DEF Ask, TypeInv, CallRecords
  <2> QED BY <1>3, <2>2
<1>7. ASSUME NEW c \in Callers, NEW j \in Journals, NEW o \in Operations, Reserve(c, j, o)
      PROVE  CommitsFollowAnswers'
  <2>1. caller'[c].at # "committing" /\ \A d \in Callers : d # c => caller'[d] = caller[d]
    BY <1>7 DEF Reserve, TypeInv
  <2> QED BY <1>3, <2>1
<1>8. CASE Crash
  BY <1>3, <1>8 DEF Crash, Idle
<1>9. CASE \/ \E j \in Journals : Open(j)
           \/ \E q \in requests : Takes(q) \/ Saves(q) \/ Drops(q)
           \/ SinkRestarts
           \/ \E o \in Operations : Reconcile(o)
           \/ UNCHANGED vars
  BY <1>3, <1>9 DEF Open, Takes, Saves, Drops, SinkRestarts, Reconcile, vars
<1> QED BY <1>4, <1>5, <1>6, <1>7, <1>8, <1>9 DEF Next

\* A commit is only recorded of a saved effect.
LEMMA CommitIsTrueStep ==
  ASSUME TypeInv, CallsAreOpen, EngagedInv, RequestsMatchSink, CommitsFollowAnswers,
         CommitIsTrue, [Next]_vars
  PROVE  CommitIsTrue'
<1>1. \A o \in Operations : sink[o] = "saved" => sink'[o] = "saved"
  BY RequestsStep
<1>2. \A o \in Operations : Has(file', o, "committed") =>
        \/ Has(file, o, "committed")
        \/ sink[o] = "saved"
  <2>1. CASE file' = file
    BY <2>1
  <2>2. ASSUME NEW c \in Callers, NEW type \in Types, caller[c].at # "idle",
               file' = Append(file, NextLine(caller[c].by, caller[c].operation, type)),
               type = "committed" => caller[c].at = "committing"
        PROVE  \A o \in Operations : Has(file', o, "committed") =>
                 Has(file, o, "committed") \/ sink[o] = "saved"
    <3>1. file \in Seq(Lines) /\ "erring" \in Points
      BY DEF TypeInv, Points
    <3>2. caller[c].operation \in Operations /\ caller[c].by \in Journals
      BY <2>2, <3>1, MovedCall
    <3>3. PICK line \in Lines :
            /\ line = NextLine(caller[c].by, caller[c].operation, type)
            /\ line.operation = caller[c].operation /\ line.type = type
      BY <3>2, NextLineIsLine DEF NextLine
    <3>4. \A o : Has(file', o, "committed") =>
            Has(file, o, "committed") \/ (o = line.operation /\ line.type = "committed")
      BY <2>2, <3>1, <3>3, AppendedEvents
    <3> QED BY <2>2, <3>3, <3>4 DEF CommitsFollowAnswers
  <2>3. ASSUME NEW c \in Callers, Reserved(c) \/ Committed(c) \/ Erred(c)
        PROVE  \A o \in Operations : Has(file', o, "committed") =>
                 Has(file, o, "committed") \/ sink[o] = "saved"
    BY <2>1, <2>2, <2>3 DEF Reserved, Committed, Erred, Appended, AppendThrows, Types
  <2>4. CASE \/ \E c \in Callers :
                  \/ \E j \in Journals, o \in Operations : Reserve(c, j, o)
                  \/ Ask(c) \/ Answered(c) \/ CallFails(c)
             \/ \E j \in Journals : Open(j)
             \/ \E q \in requests : Takes(q) \/ Saves(q) \/ Drops(q)
             \/ Crash \/ SinkRestarts
             \/ \E o \in Operations : Reconcile(o)
             \/ UNCHANGED vars
    BY <2>1, <2>4 DEF Reserve, Ask, Answered, CallFails, Open, Takes, Saves, Drops, Crash,
                      SinkRestarts, Reconcile, vars, journal
  <2> QED BY <2>3, <2>4 DEF Next
<1>3. \A o \in Operations : o \in receipts' => o \in receipts \/ Has(file', o, "committed")
  <2>1. ASSUME NEW c \in Callers, Committed(c)
        PROVE  receipts' = receipts \/
                 /\ receipts' = receipts \union {caller[c].operation}
                 /\ Has(file', caller[c].operation, "committed")
    <3>1. /\ caller[c].at # "idle" /\ "committing" \in Points
          /\ file \in Seq(Lines) /\ "committed" \in Types
      BY <2>1 DEF Committed, TypeInv, Points, Types
    <3>2. PICK line \in Lines :
            /\ line = NextLine(caller[c].by, caller[c].operation, "committed")
            /\ line.operation = caller[c].operation /\ line.type = "committed"
      BY <3>1, MovedCall, NextLineIsLine DEF NextLine
    <3>3. \/ receipts' = receipts
          \/ file' = Append(file, line) /\ receipts' = receipts \union {caller[c].operation}
      BY <2>1, <3>2 DEF Committed, Appended
    <3>4. Has(Append(file, line), line.operation, line.type)
      BY <3>1, AppendedEvents
    <3> QED BY <3>2, <3>3, <3>4
  <2>2. CASE \/ \E c \in Callers :
                  \/ \E j \in Journals, o \in Operations : Reserve(c, j, o)
                  \/ Reserved(c) \/ Ask(c) \/ Answered(c) \/ CallFails(c) \/ Erred(c)
             \/ \E j \in Journals : Open(j)
             \/ \E q \in requests : Takes(q) \/ Saves(q) \/ Drops(q)
             \/ Crash \/ SinkRestarts
             \/ \E o \in Operations : Reconcile(o)
             \/ UNCHANGED vars
    BY <2>2 DEF Reserve, Reserved, Ask, Answered, CallFails, Erred, Open, Takes, Saves,
                Drops, Crash, SinkRestarts, Reconcile, vars
  <2> QED BY <2>1, <2>2 DEF Next
<1>4. \A o : (InFile(o, "committed") <=> Has(file, o, "committed"))
  BY DEF InFile, Has
<1>5. \A o : (InFile(o, "committed")' <=> Has(file', o, "committed"))
  BY DEF InFile, Has
<1>6. \A o \in Operations : Has(file, o, "committed") => Has(file', o, "committed")
  BY FileOnlyGrows
<1> QED BY <1>1, <1>2, <1>3, <1>4, <1>5, <1>6 DEF CommitIsTrue

\* A reading of the journal is an event in the file.
LEMMA ReadingIsInFile ==
  ASSUME TypeInv, LogsFollowFile, NEW o \in Operations, NEW event \in LatestRead(o) \ {"none"}
  PROVE  Has(file, o, event) /\ EventsOf(file, o) # {}
<1>1. file \in Seq(Lines) /\ \A j \in opened : log[j] \in Seq(Lines)
  BY DEF TypeInv
<1>2. Has(file, o, event)
  <2>1. CASE \E j \in opened : event = Latest(log[j], o)
    BY <1>1, <2>1, LatestTells DEF LogsFollowFile
  <2>2. CASE event = Latest(file, o)
    BY <1>1, <2>2, LatestTells
  <2> QED BY <2>1, <2>2 DEF LatestRead
<1> QED BY <1>2 DEF Has, EventsOf

\* What a report says when it is made is so.
LEMMA NewReportHolds ==
  ASSUME TypeInv, LogsFollowFile, CommitIsTrue, ReportIsFounded, ReportsHold,
         NEW o \in Operations, Reconcile(o)
  PROVE  ReportIsFounded' /\ ReportsHold'
<1>1. /\ file' = file /\ sink' = sink /\ caller' = caller /\ requests' = requests
  BY DEF Reconcile, journal, outside
<1>2. ASSUME NEW event, NEW observed, recovery' = Report(o, event, observed),
             EventsOf(file, o) # {},
             event = "committed" => sink[o] = "saved",
             observed = "absent" => sink[o] = "absent"
      PROVE  ReportIsFounded' /\ ReportsHold'
  <2>1. /\ recovery'.at = "done" /\ recovery'.operation = o
        /\ recovery'.quiet = Quiet(o)
        /\ recovery'.classification = Classification(event, observed)
    BY <1>2 DEF Report
  <2>2. Classification(event, observed) = "consistent_committed" => event = "committed"
    BY DEF Classification
  <2>3. Classification(event, observed) = "explicit_retry_eligible" => observed = "absent"
    BY DEF Classification
  <2>4. Quiet(o)' <=> Quiet(o)
    BY <1>1 DEF Quiet
  <2>5. ReportIsFounded'
    BY <1>1, <1>2, <2>1 DEF ReportIsFounded
  <2>6. Quiet(recovery.operation)' <=> Quiet(o)
    BY <1>1, <2>1 DEF Quiet
  <2> QED BY <1>1, <1>2, <2>1, <2>2, <2>3, <2>5, <2>6 DEF ReportsHold
<1>3. ASSUME NEW event \in LatestRead(o) \ {"none"},
             recovery' = IF event = "committed" THEN Report(o, event, "none")
                         ELSE [NoReport EXCEPT !.at = "probing", !.operation = o,
                                               !.event = event]
      PROVE  ReportIsFounded' /\ ReportsHold'
  <2>1. Has(file, o, event) /\ EventsOf(file, o) # {}
    BY ReadingIsInFile
  <2>2. CASE event = "committed"
    <3>1. sink[o] = "saved"
      BY <2>1, <2>2 DEF CommitIsTrue, InFile, Has
    <3> QED BY <1>2, <1>3, <2>1, <2>2, <3>1
  <2>3. CASE event # "committed"
    <3>1. recovery'.at = "probing" /\ recovery'.operation = o /\ recovery'.event = event
      BY <1>3, <2>3 DEF NoReport
    <3> QED BY <1>1, <2>1, <2>3, <3>1 DEF ReportIsFounded, ReportsHold
  <2> QED BY <2>2, <2>3
<1>4. ASSUME recovery.at = "probing", recovery.operation = o,
             NEW observed \in Observations(o), recovery' = Report(o, recovery.event, observed)
      PROVE  ReportIsFounded' /\ ReportsHold'
  <2>1. recovery.event # "committed" /\ EventsOf(file, o) # {}
    BY <1>4 DEF ReportIsFounded
  <2>2. observed = "absent" => sink[o] = "absent"
    BY <1>4 DEF Observations
  <2> QED BY <1>2, <1>4, <2>1, <2>2
<1> QED BY <1>3, <1>4 DEF Reconcile

\* What was quiet and absent stays so: nobody reserves the operation again.
LEMMA QuietStaysQuiet ==
  ASSUME TypeInv, CallsAreOpen, LogsFollowFile, [Next]_vars,
         NEW o \in Operations, EventsOf(file, o) # {}, Quiet(o), sink[o] = "absent"
  PROVE  Quiet(o)' /\ sink'[o] = "absent"
<1>1. /\ \A c \in Callers : caller[c].operation # o
      /\ \A q \in requests : q.operation = o => q.at = "answered"
  BY DEF Quiet
<1>2. ASSUME UNCHANGED <<requests, sink>>,
             \A c \in Callers : caller'[c].operation \in {caller[c].operation, NoOperation}
      PROVE  Quiet(o)' /\ sink'[o] = "absent"
  BY <1>1, <1>2, NullsAreNoValues DEF Quiet
<1>3. ASSUME NEW c \in Callers, NEW j \in Journals, NEW p \in Operations, Reserve(c, j, p)
      PROVE  Quiet(o)' /\ sink'[o] = "absent"
  <2>1. log[j] = file /\ Latest(log[j], p) = "none" /\ file \in Seq(Lines)
    BY <1>3 DEF Reserve, StorageUnchanged, LogsFollowFile, TypeInv
  <2>2. p # o
    BY <2>1, LatestTells
  <2>3. \A d \in Callers : caller'[d].operation \in {caller[d].operation, p}
    BY <1>3 DEF Reserve, TypeInv
  <2> QED BY <1>1, <1>3, <2>2, <2>3 DEF Reserve, Quiet, outside
<1>4. ASSUME NEW c \in Callers,
             Reserved(c) \/ Answered(c) \/ CallFails(c) \/ Committed(c) \/ Erred(c)
      PROVE  Quiet(o)' /\ sink'[o] = "absent"
  <2>1. /\ UNCHANGED <<requests, sink>> /\ caller[c].at # "idle"
        /\ \E at \in Points : Moves(c, at) \/ Ends(c)
    BY <1>4 DEF Reserved, Answered, CallFails, Committed, Erred, Records, outside, Points
  <2>2. \A d \in Callers : caller'[d].operation \in {caller[d].operation, NoOperation}
    <3>1. PICK at \in Points : Moves(c, at) \/ Ends(c)
      BY <2>1
    <3>2. CASE Moves(c, at)
      <4>1. caller'[c].operation = caller[c].operation
        BY <2>1, <3>2, MovedCall DEF Moves
      <4>2. \A d \in Callers \ {c} : caller'[d] = caller[d]
        BY <3>2 DEF Moves, TypeInv
      <4> QED BY <4>1, <4>2
    <3>3. CASE Ends(c)
      <4>1. \A d \in Callers : caller'[d] = IF d = c THEN Idle ELSE caller[d]
        BY <3>3 DEF Ends, TypeInv
      <4> QED BY <4>1 DEF Idle
    <3> QED BY <3>1, <3>2, <3>3
  <2> QED BY <1>2, <2>1, <2>2
<1>5. ASSUME NEW c \in Callers, Ask(c) PROVE Quiet(o)' /\ sink'[o] = "absent"
  <2>1. caller[c].at # "idle" /\ "calling" \in Points
    BY <1>5 DEF Ask, Points
  <2>2. \A d \in Callers : caller'[d].operation = caller[d].operation
    BY <1>5, <2>1, MovedCall DEF Ask, TypeInv, CallRecords
  <2>3. sink' = sink /\ \A q \in requests' : q \in requests \/ q.operation = caller[c].operation
    BY <1>5 DEF Ask
  <2> QED BY <1>1, <2>2, <2>3 DEF Quiet
<1>6. ASSUME NEW q \in requests, Takes(q) \/ Saves(q) \/ Drops(q)
      PROVE  Quiet(o)' /\ sink'[o] = "absent"
  <2>1. q \in RequestRecords /\ caller' = caller /\ q.operation # o
    BY <1>1, <1>6 DEF Takes, Saves, Drops, TypeInv
  <2>2. \A r \in requests' : r \in requests \/ r.operation = q.operation
    BY <1>6, <2>1 DEF Takes, Saves, Drops, Becomes, RequestRecords
  <2>3. sink'[o] = sink[o]
    BY <1>6, <2>1 DEF Takes, Saves, Drops, TypeInv
  <2> QED BY <1>1, <2>1, <2>2, <2>3 DEF Quiet
<1>7. CASE SinkRestarts
  BY <1>1, <1>7 DEF SinkRestarts, Quiet
<1>8. CASE Crash
  BY <1>2, <1>8 DEF Crash, outside, Idle
<1>9. CASE \/ \E j \in Journals : Open(j)
           \/ \E p \in Operations : Reconcile(p)
           \/ UNCHANGED vars
  BY <1>2, <1>9 DEF Open, Reconcile, vars, outside
<1> QED BY <1>3, <1>4, <1>5, <1>6, <1>7, <1>8, <1>9 DEF Next

LEMMA ReportsStep ==
  ASSUME TypeInv, CallsAreOpen, LogsFollowFile, EngagedInv, RequestsMatchSink, CommitIsTrue,
         ReportIsFounded, ReportsHold, [Next]_vars
  PROVE  ReportIsFounded' /\ ReportsHold'
<1>1. CASE recovery' = recovery
  <2>1. ReportIsFounded'
    BY <1>1, FileOnlyGrows DEF ReportIsFounded
  <2>2. ASSUME recovery.at = "done"
        PROVE  /\ recovery.classification = "consistent_committed" =>
                    sink'[recovery.operation] = "saved"
               /\ recovery.classification = "explicit_retry_eligible" /\ recovery.quiet =>
                    sink'[recovery.operation] = "absent" /\ Quiet(recovery.operation)'
    <3>1. recovery.operation \in Operations /\ EventsOf(file, recovery.operation) # {}
      BY <2>2 DEF ReportIsFounded
    <3>2. PICK o \in Operations : o = recovery.operation /\ EventsOf(file, o) # {}
      BY <3>1
    <3>3. Quiet(recovery.operation)' <=> Quiet(o)'
      BY <1>1, <3>2 DEF Quiet
    <3> QED BY <2>2, <3>2, <3>3, RequestsStep, QuietStaysQuiet DEF ReportsHold
  <2> QED BY <1>1, <2>1, <2>2 DEF ReportsHold
<1>2. CASE recovery' # recovery
  <2>1. \E o \in Operations : Reconcile(o)
    BY <1>2 DEF Next, Open, Reserve, Reserved, Ask, Answered, CallFails, Committed, Erred,
                Crash, Takes, Saves, Drops, SinkRestarts, vars
  <2> QED BY <2>1, NewReportHolds
<1> QED BY <1>1, <1>2

-----------------------------------------------------------------------------
(* Theorems *)

\* The inductive invariant holds as long as one journal object is open at a
\* time.
THEOREM EffectsInvariant == Spec /\ []SingleWriter => []EffectsInv
<1>1. Init => EffectsInv
  <2> SUFFICES ASSUME Init PROVE EffectsInv
    OBVIOUS
  <2>1. \A c \in Callers : caller[c].at = "idle" /\ caller[c] = Idle
    BY DEF Init, Idle
  <2>2. \A o \in Operations : ~Engaged(o)
    <3>1. ASSUME NEW o \in Operations PROVE ~(asked[o] > 0)
      <4>1. asked[o] = 0
        BY DEF Init
      <4> QED BY <4>1
    <3>2. \A c \in Callers : caller[c].at # "reserved"
      BY <2>1
    <3> QED BY <3>1, <3>2 DEF Engaged
  <2>3. recovery.at = "none"
    BY DEF Init, NoReport
  <2> QED BY <2>1, <2>2, <2>3, TypeInit
          DEF Init, EffectsInv, CallsAreOpen, LogsFollowFile, EngagedIsKnown, AsksFirst,
              AskedOnce, EngagedAlone, RequestsMatchSink, CommitsFollowAnswers, CommitIsTrue,
              InFile, ReportIsFounded, ReportsHold
<1>2. SingleWriter /\ EffectsInv /\ [Next]_vars => EffectsInv'
  <2> SUFFICES ASSUME SingleWriter, EffectsInv, [Next]_vars PROVE EffectsInv'
    OBVIOUS
  <2>1. /\ TypeInv /\ CallsAreOpen /\ LogsFollowFile /\ EngagedInv
        /\ RequestsMatchSink /\ CommitsFollowAnswers /\ CommitIsTrue
        /\ ReportIsFounded /\ ReportsHold
    BY DEF EffectsInv, EngagedInv
  <2>2. TypeInv' /\ CallsAreOpen' /\ LogsFollowFile' /\ EngagedInv'
    BY <2>1, TypeStep, CallsAreOpenStep, LogsStep, EngagedStep
  <2>3. RequestsMatchSink' /\ CommitsFollowAnswers' /\ CommitIsTrue'
    BY <2>1, RequestsStep, CommitsStep, CommitIsTrueStep
  <2>4. ReportIsFounded' /\ ReportsHold'
    BY <2>1, ReportsStep
  <2> QED BY <2>2, <2>3, <2>4 DEF EffectsInv, EngagedInv
<1> QED BY <1>1, <1>2, PTL DEF Spec

\* The sink is asked at most once for an operation, over crashes, timeouts,
\* failing appends and concurrent calls.
THEOREM AskedOnceHolds == Spec /\ []SingleWriter => []AskedOnce
<1>1. EffectsInv => AskedOnce
  BY DEF EffectsInv, AsksFirst
<1> QED BY <1>1, EffectsInvariant, PTL

\* Of two operations the sink was asked for, one is committed in the file.
THEOREM DoubtIsAloneHolds == Spec /\ []SingleWriter => []DoubtIsAlone
<1>1. EffectsInv => DoubtIsAlone
  BY DEF EffectsInv, EngagedAlone, Engaged, DoubtIsAlone, InFile, Has
<1> QED BY <1>1, EffectsInvariant, PTL

\* What the journal says is committed, and what was receipted, is saved at the
\* sink for good.
THEOREM CommitIsTrueHolds == Spec /\ []SingleWriter => []CommitIsTrue
<1>1. EffectsInv => CommitIsTrue
  BY DEF EffectsInv
<1> QED BY <1>1, EffectsInvariant, PTL

\* Recovery reports stay true after they are made.
THEOREM ReportsHoldAlways == Spec /\ []SingleWriter => []ReportsHold
<1>1. EffectsInv => ReportsHold
  BY DEF EffectsInv
<1> QED BY <1>1, EffectsInvariant, PTL

-----------------------------------------------------------------------------
(* Promotions *)

\* An operation of the evidence has an event in the file, so there are finitely
\* many of them.
LEMMA EvidenceIsFinite ==
  ASSUME TypeInv, NEW evidence, \A o \in evidence : EventsOf(file, o) # {}
  PROVE  IsFiniteSet(evidence)
<1> DEFINE lines == 1..Len(file)
           line == [o \in evidence |-> CHOOSE n \in EventsOf(file, o) : TRUE]
<1>1. Len(file) \in Nat /\ DOMAIN file = lines
  BY DEF TypeInv
<1>2. \A o \in evidence : line[o] \in EventsOf(file, o)
  OBVIOUS
<1>3. \A o \in evidence : line[o] \in lines /\ file[line[o]].operation = o
  BY <1>1, <1>2 DEF EventsOf
<1>4. line \in Injection(evidence, lines)
  <2> HIDE DEF lines
  <2> QED BY <1>3 DEF Injection, IsInjective
<1>5. IsFiniteSet(lines)
  BY <1>1, FS_Interval
<1> HIDE DEF lines, line
<1> QED BY <1>4, <1>5, FS_Injection

\* Pigeonhole: distinct counters, each the number of smaller ones, are all the
\* numbers below their own.
LEMMA CountersRun ==
  ASSUME NEW evidence \in SUBSET Publishing, IsFiniteSet(evidence),
         \A o, p \in evidence : Reading(o).live = Reading(p).live => o = p,
         \A o \in evidence :
           Reading(o).live = Cardinality({p \in evidence : Reading(p).live < Reading(o).live})
  PROVE  {Reading(o).live : o \in evidence} = 0..(Cardinality(evidence) - 1)
<1> DEFINE total == Cardinality(evidence)
           numbers == 0..(total - 1)
           counter == [o \in evidence |-> Reading(o).live]
<1>1. total \in Nat
  BY FS_CardinalityType
<1>2. ASSUME NEW o \in evidence PROVE Reading(o).live \in numbers
  <2>1. PICK before : before = {p \in evidence : Reading(p).live < Reading(o).live}
    OBVIOUS
  <2>2. before \in SUBSET evidence
    BY <2>1
  <2>3. /\ IsFiniteSet(before) /\ Cardinality(before) <= total
        /\ Cardinality(before) = total => before = evidence
    BY <2>2, FS_Subset
  <2>4. Cardinality(before) \in Nat
    BY <2>3, FS_CardinalityType
  <2>5. Reading(o).live = Cardinality(before)
    BY <2>1
  <2>6. o \notin before
    BY <2>1, <2>4, <2>5
  <2> HIDE DEF total
  <2> QED BY <1>1, <2>3, <2>4, <2>5, <2>6
<1>3. IsFiniteSet(numbers) /\ Cardinality(numbers) = total
  <2> HIDE DEF total
  <2> QED BY <1>1, FS_Interval
<1>4. counter \in Injection(evidence, numbers)
  <2> HIDE DEF numbers
  <2> QED BY <1>2 DEF Injection, IsInjective
<1>5. counter \in Surjection(evidence, numbers)
  <2> HIDE DEF numbers, counter
  <2> QED BY <1>3, <1>4, FS_Injection
<1>6. \A n \in numbers : \E o \in evidence : Reading(o).live = n
  <2> HIDE DEF numbers
  <2> QED BY <1>5 DEF Surjection
<1> QED BY <1>2, <1>6

\* Every output the promotion rests on is committed; what is not of the file is
\* as PromotionIsEarned says.
Earned(evidence) ==
  /\ \A o \in evidence : o \in Operations /\ Has(file, o, "committed")
  /\ SamplesDiffer(evidence)
  /\ Candidates(evidence) # {}
  /\ {Reading(o).live : o \in evidence} = 0..(Cardinality(evidence) - 1)

PromotionInv ==
  /\ promotion.at = "proposed" => promotion.context \in Contexts
  /\ promotion.at = "allow" => Earned(promotion.context.evidence)

\* An eligible proposal that verifies was earned.
LEMMA EligibleIsEarned ==
  ASSUME TypeInv, NEW context \in Contexts, Proves(context),
         Classify(context) = "PROMOTION_ELIGIBLE"
  PROVE  Earned(context.evidence)
<1>1. PICK evidence \in SUBSET Publishing : evidence = context.evidence
  BY DEF Contexts
<1>2. Unresolved(file) = {} /\ Candidates(evidence) # {}
  <2>1. Unresolved(file) # {} => Classify(context) = "MANUAL_RECONCILIATION_REQUIRED"
    BY DEF Classify
  <2>2. Unresolved(file) = {} /\ Candidates(evidence) = {} =>
          Classify(context) = "PROMOTION_NOT_ELIGIBLE"
    BY <1>1 DEF Classify
  <2> QED BY <2>1, <2>2
<1>3. /\ \A o \in evidence : EventsOf(file, o) # {}
      /\ CoversLiveSamples(context)
  BY <1>1 DEF Proves
<1>4. \A o \in evidence : o \in Operations /\ Has(file, o, "committed")
  <2>1. file \in Seq(Lines) /\ \A o \in evidence : o \in Operations
    BY DEF TypeInv, Publishing
  <2> QED BY <1>2, <1>3, <2>1, LatestTells
<1>5. /\ SamplesDiffer(evidence)
      /\ \A o, p \in evidence : Reading(o).live = Reading(p).live => o = p
      /\ \A o \in evidence :
           Reading(o).live = Cardinality({p \in evidence : Reading(p).live < Reading(o).live})
  BY <1>1, <1>3 DEF CoversLiveSamples
<1>6. IsFiniteSet(evidence)
  BY <1>3, EvidenceIsFinite
<1>7. {Reading(o).live : o \in evidence} = 0..(Cardinality(evidence) - 1)
  BY <1>5, <1>6, CountersRun
<1> QED BY <1>1, <1>2, <1>4, <1>5, <1>7 DEF Earned

\* A step of the promotion is one of the side effects, or leaves them alone.
LEMMA StepsAreEffects ==
  /\ PromotionInit => Init
  /\ [PromotionNext]_allVars => [Next]_vars
<1>1. PromotionInit => Init
  BY DEF PromotionInit
<1>2. [PromotionNext]_allVars => [Next]_vars
  BY DEF PromotionNext, EffectsNext, Propose, Decide, allVars
<1> QED BY <1>1, <1>2

LEMMA PromotionStep ==
  TypeInv /\ CallsAreOpen /\ PromotionInv /\ [PromotionNext]_allVars => PromotionInv'
<1> SUFFICES ASSUME TypeInv, CallsAreOpen, PromotionInv, [PromotionNext]_allVars
             PROVE  PromotionInv'
  OBVIOUS
<1>1. CASE UNCHANGED promotion
  <2>1. ASSUME NEW evidence, Earned(evidence) PROVE Earned(evidence)'
    <3>1. \A o : Has(file, o, "committed") => Has(file', o, "committed")
      BY StepsAreEffects, FileOnlyGrows
    <3> QED BY <2>1, <3>1 DEF Earned, SamplesDiffer, Candidates, Reading, Role
  <2> QED BY <1>1, <2>1 DEF PromotionInv, Contexts, Publishing, Role
<1>2. CASE Propose
  <2>1. PICK context \in Contexts :
          promotion' = [at |-> "proposed", context |-> context, class |-> Classify(context)]
    BY <1>2 DEF Propose
  <2>2. promotion'.at = "proposed" /\ promotion'.context = context
    BY <2>1
  <2> QED BY <2>2 DEF PromotionInv, Contexts, Publishing, Role
<1>3. CASE Decide
  <2>1. PICK context : context = promotion.context
    OBVIOUS
  <2>2. /\ context \in Contexts /\ Proves(context)
        /\ Classify(context) = promotion.class /\ UNCHANGED vars
    BY <1>3, <2>1 DEF Decide, ProposalVerifies, PromotionInv
  <2>3. CASE promotion' = [at |-> "deny"]
    BY <2>3 DEF PromotionInv
  <2>4. CASE /\ promotion.class = "PROMOTION_ELIGIBLE"
             /\ promotion' = [at |-> "allow", context |-> promotion.context]
    <3>1. Earned(context.evidence)
      BY <2>2, <2>4, EligibleIsEarned
    <3>2. Earned(context.evidence)'
      BY <2>2, <3>1 DEF vars, journal, Earned, SamplesDiffer, Candidates, Reading, Role
    <3>3. promotion'.at = "allow" /\ promotion'.context = context
      BY <2>1, <2>4
    <3> QED BY <3>2, <3>3 DEF PromotionInv
  <2> QED BY <1>3, <2>3, <2>4 DEF Decide
<1> QED BY <1>1, <1>2, <1>3 DEF PromotionNext, EffectsNext, allVars

\* Over any operations, authorizations, crashes and lost answers, an allowed
\* promotion rests on effects committed and saved, of different samples, one of
\* them the candidate's, with no number missing up to the last live sample shown
\* (PromotionIsEarned).
THEOREM PromotionsAreEarned ==
  PromotionSpec /\ []SingleWriter => []PromotionIsEarned
<1>1. PromotionSpec => Spec
  BY StepsAreEffects, PTL DEF PromotionSpec, Spec
<1>2. PromotionInit => PromotionInv
  BY DEF PromotionInit, NoPromotion, PromotionInv
<1>3. EffectsInv /\ PromotionInv /\ [PromotionNext]_allVars => PromotionInv'
  BY PromotionStep DEF EffectsInv
<1>4. EffectsInv /\ PromotionInv => PromotionIsEarned
  <2> SUFFICES ASSUME EffectsInv, PromotionInv, promotion.at = "allow",
                      NEW evidence, evidence = promotion.context.evidence
               PROVE  /\ \A o \in evidence : InFile(o, "committed") /\ sink[o] = "saved"
                      /\ SamplesDiffer(evidence)
                      /\ Candidates(evidence) # {}
                      /\ {Reading(o).live : o \in evidence} = 0..(Cardinality(evidence) - 1)
    BY DEF PromotionIsEarned
  <2>1. Earned(evidence)
    BY DEF PromotionInv
  <2>2. \A o \in evidence : InFile(o, "committed") /\ sink[o] = "saved"
    BY <2>1 DEF Earned, EffectsInv, CommitIsTrue, Has, InFile
  <2> QED BY <2>1, <2>2 DEF Earned
<1> QED BY <1>1, <1>2, <1>3, <1>4, EffectsInvariant, PTL DEF PromotionSpec
=============================================================================
