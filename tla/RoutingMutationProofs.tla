------------------------- MODULE RoutingMutationProofs -------------------------
(***************************************************************************)
(* Proofs about RoutingMutation for any number of authorizations and of    *)
(* callers, each with a process and a journal object of its own, over      *)
(* crashes, drift and failing writes: the promise of AuthorizedMutation is *)
(* kept, doubt blocks, and reports and receipts stay true.                 *)
(*                                                                         *)
(* What keeps a second process from changing the route for an              *)
(* authorization again is not in any one object: an object that has not    *)
(* seen the reservation finds the file longer than it expects, be it       *)
(* before it writes or when it reads its own line back.  Of several that   *)
(* wrote, only the last can be satisfied, and only if it was the first to  *)
(* write since it looked.                                                  *)
(***************************************************************************)
EXTENDS RoutingMutation, Integers, SequenceTheorems, WellFoundedInduction, TLAPS

\* A caller's journal object is its own.
OwnObjects == \A c, d \in Callers : JournalOf(c) = JournalOf(d) => c = d

-----------------------------------------------------------------------------
(* The inductive invariant *)

Points == {"apply", "appending", "rereading", "admitting", "reserved", "applying",
           "applied", "judged", "verify"}
Lines == [sequence : Nat, operation : Authorizations, type : Types]
CallRecords == [at : Points, does : {"apply", "reconcile", "verify"},
                authorization : Authorizations, event : Types \union {"none"},
                quiet : BOOLEAN]

TypeInv ==
  /\ target \in States
  /\ file \in Seq(Lines)
  /\ opened \subseteq Journals
  /\ log \in [Journals -> Seq(Lines)]
  /\ size \in [Journals -> Nat]
  /\ caller \in [Callers -> {Idle} \union CallRecords]
  /\ writes \in [Authorizations -> Nat]

\* A call's object is open, and a call has an event to write when it comes to
\* that; the reservation is the one of apply().
CallsAreFit ==
  \A c \in Callers : caller[c] # Idle =>
    /\ JournalOf(c) \in opened
    /\ caller[c].at \in {"appending", "rereading", "admitting", "judged"} =>
         caller[c].event \in Types
    /\ caller[c].does = "reconcile" \/ caller[c].at = "judged" =>
         caller[c].event \in Types \ {"reserved"}
    /\ caller[c].at = "apply" => caller[c].does = "apply"

\* The call has written a line it has not admitted yet.
Admitting(c) == caller[c].at \in {"rereading", "admitting"}

\* An object that expects the file's size has its content, but for the line it
\* is about to admit; it knows of no operation the file does not have.
LogsFollowFile ==
  /\ \A j \in opened :
       /\ size[j] <= Len(file)
       /\ \A a \in Authorizations : EventsOf(log[j], a) # {} => EventsOf(file, a) # {}
       /\ StorageUnchanged(j) /\ (\A c \in Callers : JournalOf(c) = j => ~Admitting(c)) =>
            log[j] = file
  /\ \A c \in Callers : Admitting(c) =>
       /\ EventsOf(file, caller[c].authorization) # {}
       /\ StorageUnchanged(JournalOf(c)) => file = Append(log[JournalOf(c)], Line(c))

\* The reservation of a was recorded when nothing was in doubt.
Clear(lines, a) ==
  \E n \in EventsOf(lines, a) :
    \A b \in Authorizations : Latest(SubSeq(lines, 1, n - 1), b) \notin {"reserved", "manual"}

\* The call has a reservation that counts, and has yet to change the route.
Engages(c, a) ==
  /\ caller[c].authorization = a
  /\ caller[c].event = "reserved"
  /\ caller[c].at \in {"admitting", "reserved", "applying"}

\* The call has just written a reservation, and nobody has written since.
Reserves(c, a) ==
  /\ caller[c].authorization = a
  /\ caller[c].event = "reserved"
  /\ caller[c].at = "rereading" /\ StorageUnchanged(JournalOf(c))

\* One reservation counts, and leads to one change of the route.
ReservedOnce ==
  \A c \in Callers, a \in Authorizations :
    /\ Engages(c, a) \/ Reserves(c, a) => writes[a] = 0 /\ Clear(file, a)
    /\ \A d \in Callers : (Engages(c, a) \/ Reserves(c, a)) /\ (Engages(d, a) \/ Reserves(d, a)) => c = d

\* The last to write is alone to go on.
LastWriterAlone ==
  \A c, d \in Callers :
    /\ caller[c].at = "rereading" /\ StorageUnchanged(JournalOf(c))
    /\ caller[d].at = "rereading" /\ StorageUnchanged(JournalOf(d))
    => c = d

\* A call in these states holds a reservation.
ApplyingIsReserved ==
  \A c \in Callers : caller[c].at \in {"reserved", "applying"} => caller[c].event = "reserved"

\* What was written was reserved, and is where the route came by.
WritesAreKnown ==
  /\ \A a \in Authorizations :
       /\ writes[a] <= 1
       /\ writes[a] = 1 =>
            /\ EventsOf(file, a) # {}
            /\ target # Before(a)
            /\ Before(a) \in Authorizations => writes[Before(a)] = 1
  /\ target \in Authorizations => writes[target] = 1
  /\ \A c \in Callers :
       /\ caller[c].event = "committed" => writes[caller[c].authorization] = 1
       /\ caller[c].at = "applying" /\ Before(caller[c].authorization) \in Authorizations =>
            writes[Before(caller[c].authorization)] = 1

\* Nobody will ever change the route for a.
Dead(a) ==
  /\ EventsOf(file, a) # {} /\ writes[a] = 0
  /\ \A c \in Callers : ~Engages(c, a) /\ ~Reserves(c, a)

\* An operation a call found not to be applied, with nobody else at work on it,
\* never will be.
CallVerdicts ==
  \A c \in Callers :
    caller[c].event = "not_applied" /\ caller[c].quiet => Dead(caller[c].authorization)

\* The same of a report, and one that says it was applied is right.
ReportVerdicts ==
  LET a == report.authorization IN
    /\ report.classification = "COMMITTED" => a \in Authorizations /\ writes[a] = 1
    /\ report.classification = "NOT_APPLIED_SAFE" /\ report.quiet =>
         a \in Authorizations /\ Dead(a)

\* While a receipt is verified, and nothing was written, the operation is
\* committed.
VerifyingIsCommitted ==
  \A c \in Callers : caller[c].at = "verify" /\ StorageUnchanged(JournalOf(c)) =>
    Latest(file, caller[c].authorization) = "committed"

\* A dead operation stays dead.
DeadStays == \A a \in Authorizations : Dead(a) => Dead(a)'

CallsInv ==
  /\ TypeInv /\ CallsAreFit /\ LogsFollowFile /\ ReservedOnce /\ LastWriterAlone
  /\ ApplyingIsReserved /\ WritesAreKnown /\ CallVerdicts /\ VerifyingIsCommitted

MutationInv == CallsInv /\ ReportVerdicts

-----------------------------------------------------------------------------
(* Facts about the operators *)

\* A set of naturals has a least element.
LEMMA LeastElement ==
  ASSUME NEW T \in SUBSET Nat, T # {}
  PROVE  \E x \in T : \A y \in T : x <= y
<1> DEFINE R == OpToRel(<, Nat)
<1>1. IsWellFoundedOn(R, Nat)
  BY NatLessThanWellFounded
<1> HIDE DEF R
<1>2. PICK x \in T : \A y \in T : <<y, x>> \notin R
  BY <1>1, WFMin
<1>3. \A y \in T : ~(y < x)
  BY <1>2 DEF R, OpToRel
<1> QED BY <1>3

\* And a bounded one a greatest element.
LEMMA GreatestElement ==
  ASSUME NEW n \in Nat, NEW T \in SUBSET (0..n), T # {}
  PROVE  \E x \in T : \A y \in T : y <= x
<1> DEFINE U == {n - x : x \in T}
<1>1. U \in SUBSET Nat /\ U # {}
  <2>1. \A x \in T : n - x \in Nat
    OBVIOUS
  <2> QED BY <2>1
<1>2. PICK u \in U : \A v \in U : u <= v
  BY <1>1, LeastElement
<1>3. PICK x \in T : u = n - x
  BY <1>2
<1>4. \A y \in T : n - x <= n - y
  BY <1>2, <1>3
<1> QED BY <1>3, <1>4

\* An operation without a latest event has no event.
LEMMA LatestTells ==
  ASSUME NEW lines \in Seq(Lines), NEW a
  PROVE  EventsOf(lines, a) = {} <=> Latest(lines, a) = "none"
<1>1. CASE EventsOf(lines, a) = {}
  BY <1>1 DEF Latest
<1>2. CASE EventsOf(lines, a) # {}
  <2>1. EventsOf(lines, a) \in SUBSET (0..Len(lines)) /\ Len(lines) \in Nat
    BY DEF EventsOf
  <2>2. \E n \in EventsOf(lines, a) : \A m \in EventsOf(lines, a) : m <= n
    BY <1>2, <2>1, GreatestElement
  <2> DEFINE last == CHOOSE n \in EventsOf(lines, a) : \A m \in EventsOf(lines, a) : m <= n
  <2>3. last \in EventsOf(lines, a)
    BY <2>2
  <2>4. Latest(lines, a) = lines[last].type
    BY <1>2 DEF Latest
  <2> HIDE DEF last
  <2>5. lines[last] \in Lines
    BY <2>3 DEF EventsOf
  <2> QED BY <1>2, <2>4, <2>5 DEF Lines, Types
<1> QED BY <1>1, <1>2

\* What appending a line does to the events.
LEMMA AppendedEvents ==
  ASSUME NEW lines \in Seq(Lines), NEW line \in Lines
  PROVE  /\ Append(lines, line) \in Seq(Lines)
         /\ Len(Append(lines, line)) = Len(lines) + 1 /\ Len(lines) \in Nat
         /\ \A n \in 1..Len(lines) : Append(lines, line)[n] = lines[n]
         /\ Append(lines, line)[Len(lines) + 1] = line
         /\ \A a : EventsOf(lines, a) \subseteq EventsOf(Append(lines, line), a)
         /\ \A a : a # line.operation => EventsOf(Append(lines, line), a) = EventsOf(lines, a)
         /\ EventsOf(Append(lines, line), line.operation) =
              EventsOf(lines, line.operation) \union {Len(lines) + 1}
<1>1. /\ Append(lines, line) \in Seq(Lines)
      /\ Len(Append(lines, line)) = Len(lines) + 1
      /\ \A n \in 1..Len(lines) : Append(lines, line)[n] = lines[n]
      /\ Append(lines, line)[Len(lines) + 1] = line
  BY AppendProperties
<1>2. /\ Len(lines) \in Nat /\ DOMAIN lines = 1..Len(lines)
      /\ DOMAIN Append(lines, line) = 1..(Len(lines) + 1)
  BY <1>1, LenProperties
<1> QED BY <1>1, <1>2 DEF EventsOf

\* The beginnings of a file stay what they were.
LEMMA PrefixOfAppend ==
  ASSUME NEW lines \in Seq(Lines), NEW line \in Lines, NEW n \in 0..Len(lines)
  PROVE  SubSeq(Append(lines, line), 1, n) = SubSeq(lines, 1, n)
<1>1. /\ Append(lines, line) \in Seq(Lines)
      /\ Len(Append(lines, line)) = Len(lines) + 1 /\ Len(lines) \in Nat
      /\ \A i \in 1..Len(lines) : Append(lines, line)[i] = lines[i]
  BY AppendedEvents
<1>2. \A i \in 1..n : lines[i] \in Lines /\ Append(lines, line)[i] \in Lines
  BY <1>1, ElementOfSeq
<1>3. /\ SubSeq(lines, 1, n) \in Seq(Lines) /\ Len(SubSeq(lines, 1, n)) = n
      /\ \A i \in 1..n : SubSeq(lines, 1, n)[i] = lines[i]
  BY <1>1, <1>2, SubSeqProperties
<1>4. /\ SubSeq(Append(lines, line), 1, n) \in Seq(Lines)
      /\ Len(SubSeq(Append(lines, line), 1, n)) = n
      /\ \A i \in 1..n : SubSeq(Append(lines, line), 1, n)[i] = Append(lines, line)[i]
  BY <1>1, <1>2, SubSeqProperties
<1> QED BY <1>1, <1>3, <1>4, SeqEqual

\* A reservation that was clear stays clear; one after lines with nothing in
\* doubt is.
LEMMA ClearGrows ==
  ASSUME NEW lines \in Seq(Lines), NEW line \in Lines, NEW a
  PROVE  /\ Clear(lines, a) => Clear(Append(lines, line), a)
         /\ Blocking(lines) = {} => Clear(Append(lines, line), line.operation)
<1>1. \A n \in EventsOf(lines, a) :
        n \in EventsOf(Append(lines, line), a) /\ n - 1 \in 0..Len(lines)
  BY AppendedEvents, LenProperties DEF EventsOf
<1>2. Clear(lines, a) => Clear(Append(lines, line), a)
  BY <1>1, PrefixOfAppend DEF Clear
<1>3. ASSUME Blocking(lines) = {} PROVE Clear(Append(lines, line), line.operation)
  <2>1. Len(lines) + 1 \in EventsOf(Append(lines, line), line.operation) /\ Len(lines) \in Nat
    BY AppendedEvents
  <2>2. SubSeq(Append(lines, line), 1, (Len(lines) + 1) - 1) = lines
    BY <2>1, PrefixOfAppend, SubSeqFull
  <2>3. \A b \in Authorizations : Latest(lines, b) \notin {"reserved", "manual"}
    BY <1>3 DEF Blocking
  <2> QED BY <2>1, <2>2, <2>3 DEF Clear
<1> QED BY <1>2, <1>3

\* A call at work: its record, its object and its next line.
LEMMA AtWork ==
  ASSUME TypeInv, CallsAreFit, NEW c \in Callers, caller[c].at # "idle"
  PROVE  /\ caller[c] \in CallRecords /\ caller[c] # Idle
         /\ caller[c].authorization \in Authorizations
         /\ JournalOf(c) \in opened /\ JournalOf(c) \in Journals
         /\ caller[c].event \in Types => Line(c) \in Lines
         /\ Line(c).operation = caller[c].authorization /\ Line(c).type = caller[c].event
<1>1. caller[c] \in CallRecords /\ caller[c] # Idle
  BY DEF TypeInv, Idle
<1>2. caller[c].authorization \in Authorizations
  BY <1>1 DEF CallRecords
<1>3. JournalOf(c) \in opened /\ JournalOf(c) \in Journals
  BY <1>1 DEF CallsAreFit, TypeInv
<1>4. Len(log[JournalOf(c)]) + 1 \in Nat
  BY <1>3, LenProperties DEF TypeInv
<1> QED BY <1>1, <1>2, <1>3, <1>4 DEF Line, Lines

-----------------------------------------------------------------------------
(* A call moves, and nothing else does *)

\* What a call may become without a word to the files or to its object.
MayBecome(c, r) ==
  /\ r # Idle => JournalOf(c) \in opened
  /\ r.at \in {"appending", "rereading", "admitting", "judged"} => r.event \in Types
  /\ r.does = "reconcile" \/ r.at = "judged" => r.event \in Types \ {"reserved"}
  /\ r.at = "apply" => r.does = "apply"
  /\ r.at # "rereading"
  /\ r.at = "admitting" =>
       /\ caller[c].at = "rereading" /\ StorageUnchanged(JournalOf(c))
       /\ r.authorization = caller[c].authorization /\ r.event = caller[c].event
  /\ r.at # "admitting" /\ Admitting(c) => ~StorageUnchanged(JournalOf(c))
  /\ r.at \in {"admitting", "reserved", "applying"} /\ r.event = "reserved" =>
       Engages(c, r.authorization) \/ Reserves(c, r.authorization)
  /\ r.at \in {"reserved", "applying"} => r.event = "reserved"
  /\ r.event = "committed" => writes[r.authorization] = 1
  /\ r.at = "applying" /\ Before(r.authorization) \in Authorizations =>
       writes[Before(r.authorization)] = 1
  /\ r.event = "not_applied" /\ r.quiet => Dead(r.authorization)
  /\ r.at = "verify" /\ StorageUnchanged(JournalOf(c)) =>
       Latest(file, r.authorization) = "committed"

LEMMA CallBecomes ==
  ASSUME CallsInv, OwnObjects, NEW c \in Callers, NEW r \in {Idle} \union CallRecords,
         MayBecome(c, r), caller' = [caller EXCEPT ![c] = r],
         UNCHANGED <<target, journal, writes>>
  PROVE  CallsInv' /\ DeadStays
<1> USE DEF CallsInv
<1>1. /\ caller' \in [Callers -> {Idle} \union CallRecords]
      /\ caller'[c] = r
      /\ \A d \in Callers \ {c} : caller'[d] = caller[d]
  BY DEF TypeInv
<1>2. UNCHANGED target /\ UNCHANGED file /\ UNCHANGED opened /\ UNCHANGED log
      /\ UNCHANGED size /\ UNCHANGED writes
  BY DEF journal
<1>3. /\ \A j : StorageUnchanged(j)' <=> StorageUnchanged(j)
      /\ \A d \in Callers \ {c} : (Admitting(d)' <=> Admitting(d)) /\ Line(d)' = Line(d)
  BY <1>1, <1>2 DEF StorageUnchanged, Admitting, Line
<1>4. TypeInv'
  BY <1>1, <1>2 DEF TypeInv
<1>5. CallsAreFit'
  BY <1>1, <1>2 DEF CallsAreFit, MayBecome
<1>6. LogsFollowFile'
  <2>1. Admitting(c)' => /\ Admitting(c) /\ StorageUnchanged(JournalOf(c))
                         /\ Line(c)' = Line(c) /\ r.authorization = caller[c].authorization
    BY <1>1, <1>2 DEF MayBecome, Admitting, Line
  <2>2. ASSUME NEW j \in opened
        PROVE  /\ size[j] <= Len(file)
               /\ \A a \in Authorizations : EventsOf(log[j], a) # {} => EventsOf(file, a) # {}
    BY DEF LogsFollowFile
  <2>3. ASSUME NEW j \in opened, StorageUnchanged(j),
               \A d \in Callers : JournalOf(d) = j => ~Admitting(d)'
        PROVE  log[j] = file
    <3>1. ASSUME NEW d \in Callers, JournalOf(d) = j PROVE ~Admitting(d)
      <4>1. CASE d = c
        BY <4>1, <2>3, <3>1, <1>1 DEF MayBecome, Admitting
      <4>2. CASE d # c
        BY <4>2, <2>3, <3>1, <1>3
      <4> QED BY <4>1, <4>2
    <3> QED BY <3>1, <2>3 DEF LogsFollowFile
  <2>4. ASSUME NEW d \in Callers, Admitting(d)'
        PROVE  /\ EventsOf(file, caller'[d].authorization) # {}
               /\ StorageUnchanged(JournalOf(d)) => file = Append(log[JournalOf(d)], Line(d)')
    <3>1. Admitting(d) /\ Line(d)' = Line(d) /\ caller'[d].authorization = caller[d].authorization
      BY <2>4, <2>1, <1>1, <1>3
    <3> QED BY <3>1 DEF LogsFollowFile
  <2> QED BY <2>2, <2>3, <2>4, <1>2, <1>3 DEF LogsFollowFile
<1>7. \A d \in Callers : \A a :
        Engages(d, a)' \/ Reserves(d, a)' => Engages(d, a) \/ Reserves(d, a)
  <2>1. \A d \in Callers \ {c} : \A a :
          (Engages(d, a)' <=> Engages(d, a)) /\ (Reserves(d, a)' <=> Reserves(d, a))
    BY <1>1, <1>3 DEF Engages, Reserves
  <2>2. \A a : Engages(c, a)' \/ Reserves(c, a)' => Engages(c, a) \/ Reserves(c, a)
    BY <1>1, <1>3 DEF Engages, Reserves, MayBecome
  <2> QED BY <2>1, <2>2
<1>8. DeadStays
  BY <1>2, <1>7 DEF Dead, DeadStays
<1>9. ReservedOnce'
  BY <1>2, <1>7 DEF ReservedOnce, Clear
<1>10. LastWriterAlone'
  BY <1>1, <1>3 DEF LastWriterAlone, MayBecome
<1>11. ApplyingIsReserved'
  BY <1>1 DEF ApplyingIsReserved, MayBecome
<1>12. WritesAreKnown'
  BY <1>1, <1>2 DEF WritesAreKnown, MayBecome
<1>13. CallVerdicts'
  <2>1. \A d \in Callers : caller[d].event = "not_applied" =>
          caller[d].authorization \in Authorizations
    BY DEF TypeInv, Idle, CallRecords
  <2>2. r.event = "not_applied" => r.authorization \in Authorizations
    BY DEF Idle, CallRecords
  <2> QED BY <1>1, <1>8, <2>1, <2>2 DEF CallVerdicts, MayBecome, DeadStays
<1>14. VerifyingIsCommitted'
  BY <1>1, <1>2, <1>3 DEF VerifyingIsCommitted, MayBecome
<1> QED BY <1>4, <1>5, <1>6, <1>8, <1>9, <1>10, <1>11, <1>12, <1>13, <1>14

\* A call may end if it has no line of its own left to admit.
LEMMA EndsWell ==
  ASSUME CallsInv, OwnObjects, NEW c \in Callers,
         Admitting(c) => ~StorageUnchanged(JournalOf(c)),
         Ends(c), UNCHANGED <<target, journal, writes>>
  PROVE  CallsInv' /\ DeadStays
<1>1. MayBecome(c, Idle)
  BY DEF MayBecome, Idle
<1>2. caller' = [caller EXCEPT ![c] = Idle]
  BY DEF Ends
<1> QED BY <1>1, <1>2, CallBecomes

\* And it may go on to a state that holds no reservation and vouches for
\* nothing.
LEMMA RereadKeepsInv ==
  ASSUME CallsInv, OwnObjects, NEW c \in Callers, Reread(c)
  PROVE  CallsInv' /\ DeadStays
<1>1. caller[c] \in CallRecords /\ caller[c] # Idle /\ caller[c].authorization \in Authorizations
  BY AtWork DEF CallsInv, Reread
<1>2. UNCHANGED <<target, journal, writes>>
  BY DEF Reread
<1>3. CASE StorageUnchanged(JournalOf(c))
  <2> DEFINE r == [caller[c] EXCEPT !.at = "admitting"]
  <2>1. caller' = [caller EXCEPT ![c] = r]
    BY <1>3 DEF Reread, Moves
  <2>2. /\ r \in CallRecords /\ r # Idle /\ r.at = "admitting" /\ r.does = caller[c].does
        /\ r.authorization = caller[c].authorization /\ r.event = caller[c].event
        /\ r.quiet = caller[c].quiet
    BY <1>1 DEF CallRecords, Points, Idle
  <2> HIDE DEF r
  <2>3. MayBecome(c, r)
    BY <1>1, <1>3, <2>2 DEF MayBecome, CallsInv, CallsAreFit, Reread, Reserves, WritesAreKnown, CallVerdicts
  <2> QED BY <1>2, <2>1, <2>2, <2>3, CallBecomes
<1>4. CASE ~StorageUnchanged(JournalOf(c))
  BY <1>2, <1>4, EndsWell DEF Reread
<1> QED BY <1>3, <1>4

\* A call goes on to record an event it can answer for.
LEMMA RecordsWell ==
  ASSUME CallsInv, OwnObjects, NEW c \in Callers, NEW type \in Types,
         caller[c].at \in {"apply", "judged"},
         type # "reserved" \/ caller[c].does # "reconcile",
         type = "committed" => writes[caller[c].authorization] = 1,
         type = "not_applied" /\ caller[c].quiet => Dead(caller[c].authorization),
         Records(c, type), UNCHANGED <<target, journal, writes>>
  PROVE  CallsInv' /\ DeadStays
<1>1. caller[c] \in CallRecords /\ JournalOf(c) \in opened
  BY AtWork DEF CallsInv
<1>2. CASE caller' = [caller EXCEPT ![c].at = "appending", ![c].event = type]
  <2> DEFINE r == [caller[c] EXCEPT !.at = "appending", !.event = type]
  <2>1. caller' = [caller EXCEPT ![c] = r]
    BY <1>2
  <2>2. /\ r \in CallRecords /\ r # Idle /\ r.at = "appending" /\ r.does = caller[c].does
        /\ r.authorization = caller[c].authorization /\ r.event = type
        /\ r.quiet = caller[c].quiet
    BY <1>1 DEF CallRecords, Points, Idle
  <2> HIDE DEF r
  <2>3. MayBecome(c, r)
    BY <1>1, <2>2 DEF MayBecome, Admitting
  <2> QED BY <2>1, <2>2, <2>3, CallBecomes
<1>3. CASE Ends(c)
  BY <1>3, EndsWell DEF Admitting
<1> QED BY <1>2, <1>3 DEF Records

LEMMA ReserveKeepsInv ==
  ASSUME CallsInv, OwnObjects, NEW c \in Callers, Reserve(c)
  PROVE  CallsInv' /\ DeadStays
<1>1. caller[c].does = "apply"
  BY AtWork DEF CallsInv, CallsAreFit, Reserve
<1> QED BY <1>1, RecordsWell DEF Reserve, Types

LEMMA RecordKeepsInv ==
  ASSUME CallsInv, OwnObjects, NEW c \in Callers, Record(c)
  PROVE  CallsInv' /\ DeadStays
<1>1. caller[c] # Idle /\ caller[c].at = "judged" /\ UNCHANGED <<target, journal, writes>>
  BY DEF Record, Idle
<1>2. /\ caller[c].event \in Types \ {"reserved"}
      /\ caller[c].event = "committed" => writes[caller[c].authorization] = 1
      /\ caller[c].event = "not_applied" /\ caller[c].quiet => Dead(caller[c].authorization)
  BY <1>1 DEF CallsInv, CallsAreFit, WritesAreKnown, CallVerdicts
<1>3. CASE Ends(c)
  BY <1>1, <1>3, EndsWell DEF Admitting
<1>4. CASE Records(c, caller[c].event)
  BY <1>1, <1>2, <1>4, RecordsWell
<1> QED BY <1>3, <1>4 DEF Record

LEMMA ApplyExactKeepsInv ==
  ASSUME CallsInv, OwnObjects, NEW c \in Callers, ApplyExact(c)
  PROVE  CallsInv' /\ DeadStays
<1>1. /\ caller[c] \in CallRecords /\ caller[c].authorization \in Authorizations
      /\ caller[c].at = "reserved" /\ caller[c].event = "reserved" /\ caller[c].does # "reconcile"
      /\ JournalOf(c) \in opened
  BY AtWork DEF CallsInv, CallsAreFit, ApplyingIsReserved, ApplyExact
<1>2. UNCHANGED <<target, journal, writes>>
  BY DEF ApplyExact
<1>3. CASE target = Before(caller[c].authorization)
  <2> DEFINE r == [caller[c] EXCEPT !.at = "applying"]
  <2>1. caller' = [caller EXCEPT ![c] = r]
    BY <1>3 DEF ApplyExact, Moves
  <2>2. /\ r \in CallRecords /\ r # Idle /\ r.at = "applying" /\ r.does = caller[c].does
        /\ r.authorization = caller[c].authorization /\ r.event = caller[c].event
        /\ r.quiet = caller[c].quiet
    BY <1>1 DEF CallRecords, Points, Idle
  <2> HIDE DEF r
  <2>3. Engages(c, r.authorization)
    BY <1>1, <2>2 DEF Engages
  <2>4. Before(r.authorization) \in Authorizations => writes[Before(r.authorization)] = 1
    BY <1>3, <2>2 DEF CallsInv, WritesAreKnown
  <2>5. MayBecome(c, r)
    BY <1>1, <2>2, <2>3, <2>4 DEF MayBecome, Admitting
  <2> QED BY <1>2, <2>1, <2>2, <2>5, CallBecomes
<1>4. CASE target # Before(caller[c].authorization)
  BY <1>1, <1>2, <1>4, EndsWell DEF ApplyExact, Admitting
<1> QED BY <1>3, <1>4

LEMMA ConfirmKeepsInv ==
  ASSUME CallsInv, OwnObjects, NEW c \in Callers, Confirm(c)
  PROVE  CallsInv' /\ DeadStays
<1>1. /\ caller[c] \in CallRecords /\ caller[c].authorization \in Authorizations
      /\ caller[c].at = "applied" /\ JournalOf(c) \in opened
  BY AtWork DEF CallsInv, Confirm
<1>2. UNCHANGED <<target, journal, writes>>
  BY DEF Confirm
<1>3. CASE Readable(target)
  <2> DEFINE type == IF target = caller[c].authorization THEN "committed" ELSE "manual"
             r == [caller[c] EXCEPT !.at = "judged", !.event = type]
  <2>1. caller' = [caller EXCEPT ![c] = r]
    BY <1>3 DEF Confirm
  <2>2. type \in Types \ {"reserved", "not_applied"}
    BY DEF Types
  <2>3. type = "committed" => writes[caller[c].authorization] = 1
    BY <1>1 DEF CallsInv, WritesAreKnown
  <2> HIDE DEF type
  <2>4. /\ r \in CallRecords /\ r # Idle /\ r.at = "judged" /\ r.does = caller[c].does
        /\ r.authorization = caller[c].authorization /\ r.event = type
        /\ r.quiet = caller[c].quiet
    BY <1>1, <2>2 DEF CallRecords, Points, Idle
  <2> HIDE DEF r
  <2>5. MayBecome(c, r)
    BY <1>1, <2>2, <2>3, <2>4 DEF MayBecome, Admitting
  <2> QED BY <1>2, <2>1, <2>4, <2>5, CallBecomes
<1>4. CASE ~Readable(target)
  BY <1>1, <1>2, <1>4, EndsWell DEF Confirm, Admitting
<1> QED BY <1>3, <1>4

\* A call starts.
LEMMA ApplyKeepsInv ==
  ASSUME CallsInv, OwnObjects, NEW c \in Callers, NEW a \in Authorizations, Apply(c, a)
  PROVE  CallsInv' /\ DeadStays
<1> DEFINE r == [Idle EXCEPT !.at = "apply", !.does = "apply", !.authorization = a]
<1>1. caller' = [caller EXCEPT ![c] = r] /\ caller[c].at = "idle" /\ JournalOf(c) \in opened
  BY DEF Apply, Starts
<1>2. /\ r \in CallRecords /\ r # Idle /\ r.at = "apply" /\ r.does = "apply"
      /\ r.event = "none"
  BY DEF CallRecords, Points, Idle
<1> HIDE DEF r
<1>3. MayBecome(c, r)
  BY <1>1, <1>2 DEF MayBecome, Admitting
<1> QED BY <1>1, <1>2, <1>3, CallBecomes DEF Apply

LEMMA VerifyKeepsInv ==
  ASSUME CallsInv, OwnObjects, NEW c \in Callers, NEW a \in Authorizations, Verify(c, a)
  PROVE  CallsInv' /\ DeadStays
<1> DEFINE r == [Idle EXCEPT !.at = "verify", !.does = "verify", !.authorization = a]
<1>1. /\ caller' = [caller EXCEPT ![c] = r] /\ caller[c].at = "idle" /\ JournalOf(c) \in opened
      /\ StorageUnchanged(JournalOf(c)) /\ Latest(log[JournalOf(c)], a) = "committed"
  BY DEF Verify, Starts
<1>2. /\ r \in CallRecords /\ r # Idle /\ r.at = "verify" /\ r.does = "verify"
      /\ r.event = "none" /\ r.authorization = a
  BY DEF CallRecords, Points, Idle
<1> HIDE DEF r
<1>3. \A d \in Callers : JournalOf(d) = JournalOf(c) => ~Admitting(d)
  BY <1>1 DEF OwnObjects, Admitting
<1>4. log[JournalOf(c)] = file
  BY <1>1, <1>3 DEF CallsInv, LogsFollowFile
<1>5. MayBecome(c, r)
  BY <1>1, <1>2, <1>4 DEF MayBecome, Admitting
<1> QED BY <1>1, <1>2, <1>5, CallBecomes DEF Verify

LEMMA VerifiedKeepsInv ==
  ASSUME CallsInv, OwnObjects, NEW c \in Callers, Verified(c)
  PROVE  CallsInv' /\ DeadStays
BY EndsWell DEF Verified, Admitting

\* What reconcile() says of an operation is true, and if nobody else works on
\* the operation it stays true.
LEMMA VerdictIsTrue ==
  ASSUME CallsInv, NEW c \in Callers, NEW a \in Authorizations,
         caller[c].at = "idle", JournalOf(c) \in opened,
         Latest(log[JournalOf(c)], a) # "none",
         NEW verdict, verdict = Verdict(Latest(log[JournalOf(c)], a), target, a)
  PROVE  /\ verdict \in Types \ {"reserved"}
         /\ verdict = "committed" => writes[a] = 1
         /\ verdict = "not_applied" /\ Quiet(a, c) => Dead(a)
<1>1. verdict \in Types \ {"reserved"}
  BY DEF Verdict, Types
<1>2. verdict = "committed" => writes[a] = 1
  BY DEF Verdict, CallsInv, WritesAreKnown
<1>3. ASSUME verdict = "not_applied", Quiet(a, c) PROVE Dead(a)
  <2>1. writes[a] = 0
    <3>1. target = Before(a)
      BY <1>3 DEF Verdict
    <3>2. writes[a] \in Nat /\ writes[a] <= 1 /\ writes[a] # 1
      BY <3>1 DEF CallsInv, WritesAreKnown, TypeInv
    <3> QED BY <3>2
  <2>2. EventsOf(file, a) # {}
    <3>1. log[JournalOf(c)] \in Seq(Lines)
      BY DEF CallsInv, TypeInv
    <3>2. EventsOf(log[JournalOf(c)], a) # {}
      BY <3>1, LatestTells
    <3> QED BY <3>2 DEF CallsInv, LogsFollowFile
  <2>3. \A d \in Callers : ~Engages(d, a) /\ ~Reserves(d, a)
    BY <1>3 DEF Quiet, Engages, Reserves
  <2> QED BY <2>1, <2>2, <2>3 DEF Dead
<1> QED BY <1>1, <1>2, <1>3

LEMMA ReconcileKeepsInv ==
  ASSUME CallsInv, OwnObjects, NEW c \in Callers, NEW a \in Authorizations, Reconcile(c, a)
  PROVE  CallsInv' /\ DeadStays
<1> DEFINE verdict == Verdict(Latest(log[JournalOf(c)], a), target, a)
           r == [Idle EXCEPT !.at = "judged", !.does = "reconcile", !.authorization = a,
                   !.event = verdict, !.quiet = Quiet(a, c)]
<1>1. /\ caller' = caller \/ caller' = [caller EXCEPT ![c] = r]
      /\ caller[c].at = "idle" /\ JournalOf(c) \in opened
      /\ Latest(log[JournalOf(c)], a) # "none"
      /\ UNCHANGED <<target, journal, writes>>
  BY DEF Reconcile
<1>2. /\ verdict \in Types \ {"reserved"}
      /\ verdict = "committed" => writes[a] = 1
      /\ verdict = "not_applied" /\ Quiet(a, c) => Dead(a)
  BY <1>1, VerdictIsTrue
<1>3. Quiet(a, c) \in BOOLEAN
  BY DEF Quiet
<1>4. CASE caller' = caller
  <2>1. caller[c] \in {Idle} \union CallRecords /\ caller' = [caller EXCEPT ![c] = Idle]
    BY <1>1, <1>4 DEF CallsInv, TypeInv, CallRecords, Points
  <2> QED BY <1>1, <2>1, EndsWell DEF Ends, Admitting
<1>5. CASE caller' = [caller EXCEPT ![c] = r]
  <2> HIDE DEF verdict
  <2>1. /\ r \in CallRecords /\ r # Idle /\ r.at = "judged" /\ r.does = "reconcile"
        /\ r.event = verdict /\ r.authorization = a /\ r.quiet = Quiet(a, c)
    BY <1>2, <1>3 DEF CallRecords, Points, Idle
  <2> HIDE DEF r
  <2>2. MayBecome(c, r)
    BY <1>1, <1>2, <2>1 DEF MayBecome, Admitting
  <2> QED BY <1>1, <1>5, <2>1, <2>2, CallBecomes
<1> QED BY <1>1, <1>4, <1>5

-----------------------------------------------------------------------------
(* The steps that touch the files and the objects *)

\* Objects are opened or lost, calls end, and the route drifts: what is left
\* of the calls is as true as before.
LEMMA FewerAtWork ==
  ASSUME CallsInv, TypeInv', UNCHANGED <<file, writes>>,
         target' \in {target, "other", "torn"},
         \A d \in Callers :
           \/ caller'[d] = Idle
           \/ /\ caller'[d] = caller[d] /\ JournalOf(d) \in opened'
              /\ log'[JournalOf(d)] = log[JournalOf(d)]
              /\ size'[JournalOf(d)] = size[JournalOf(d)],
         \A k \in opened' :
           \/ log'[k] = file /\ size'[k] = Len(file)
           \/ /\ k \in opened /\ log'[k] = log[k] /\ size'[k] = size[k]
              /\ \A d \in Callers : JournalOf(d) = k /\ Admitting(d) => caller'[d] = caller[d]
  PROVE  CallsInv' /\ DeadStays
<1> USE DEF CallsInv
<1>1. UNCHANGED file /\ UNCHANGED writes
  OBVIOUS
<1>2. \A d \in Callers : caller'[d] = Idle \/
        /\ caller'[d] = caller[d] /\ JournalOf(d) \in opened'
        /\ (StorageUnchanged(JournalOf(d))' <=> StorageUnchanged(JournalOf(d)))
        /\ Line(d)' = Line(d)
  BY <1>1 DEF StorageUnchanged, Line
<1>3. CallsAreFit'
  BY <1>2 DEF CallsAreFit
<1>4. LogsFollowFile'
  <2>1. ASSUME NEW k \in opened'
        PROVE  /\ size'[k] <= Len(file)
               /\ \A a \in Authorizations : EventsOf(log'[k], a) # {} => EventsOf(file, a) # {}
               /\ StorageUnchanged(k)' /\ (\A d \in Callers : JournalOf(d) = k => ~Admitting(d)') =>
                    log'[k] = file
    <3>1. CASE log'[k] = file /\ size'[k] = Len(file)
      BY <3>1, LenProperties DEF TypeInv
    <3>2. CASE /\ k \in opened /\ log'[k] = log[k] /\ size'[k] = size[k]
               /\ \A d \in Callers : JournalOf(d) = k /\ Admitting(d) => caller'[d] = caller[d]
      <4>1. \A d \in Callers : JournalOf(d) = k /\ Admitting(d) => Admitting(d)'
        BY <3>2 DEF Admitting
      <4>2. StorageUnchanged(k)' => StorageUnchanged(k)
        BY <1>1, <3>2 DEF StorageUnchanged
      <4> QED BY <3>2, <4>1, <4>2 DEF LogsFollowFile
    <3> QED BY <2>1, <3>1, <3>2
  <2>2. ASSUME NEW d \in Callers, Admitting(d)'
        PROVE  /\ EventsOf(file, caller'[d].authorization) # {}
               /\ StorageUnchanged(JournalOf(d))' => file = Append(log'[JournalOf(d)], Line(d)')
    <3>1. caller'[d] # Idle
      BY <2>2 DEF Admitting, Idle
    <3>2. Admitting(d) /\ caller'[d] = caller[d] /\ log'[JournalOf(d)] = log[JournalOf(d)]
      BY <2>2, <3>1 DEF Admitting
    <3> QED BY <1>2, <3>1, <3>2 DEF LogsFollowFile
  <2> QED BY <1>1, <2>1, <2>2 DEF LogsFollowFile
<1>5. \A d \in Callers : \A a :
        (Engages(d, a)' => Engages(d, a)) /\ (Reserves(d, a)' => Reserves(d, a))
  BY <1>2 DEF Engages, Reserves, Idle
<1>6. ReservedOnce'
  BY <1>1, <1>5 DEF ReservedOnce, Clear
<1>7. LastWriterAlone'
  BY <1>2 DEF LastWriterAlone, Idle
<1>8. ApplyingIsReserved'
  BY <1>2 DEF ApplyingIsReserved, Idle
<1>9. WritesAreKnown'
  <2>1. ASSUME NEW a \in Authorizations, writes[a] = 1 PROVE target' # Before(a)
    BY <2>1, StatesAssumption DEF WritesAreKnown
  <2>2. target' \in Authorizations => writes[target'] = 1
    BY StatesAssumption DEF WritesAreKnown
  <2>3. \A d \in Callers :
          /\ caller'[d].event = "committed" => writes[caller'[d].authorization] = 1
          /\ caller'[d].at = "applying" /\ Before(caller'[d].authorization) \in Authorizations =>
               writes[Before(caller'[d].authorization)] = 1
    BY <1>2 DEF WritesAreKnown, Idle
  <2> QED BY <1>1, <2>1, <2>2, <2>3 DEF WritesAreKnown
<1>10. DeadStays
  BY <1>1, <1>5 DEF Dead, DeadStays
<1>11. CallVerdicts'
  <2>1. \A d \in Callers : caller[d].event = "not_applied" =>
          caller[d].authorization \in Authorizations
    BY DEF TypeInv, Idle, CallRecords
  <2> QED BY <1>2, <1>10, <2>1 DEF CallVerdicts, DeadStays, Idle
<1>12. VerifyingIsCommitted'
  BY <1>1, <1>2 DEF VerifyingIsCommitted, Idle
<1> QED BY <1>3, <1>4, <1>6, <1>7, <1>8, <1>9, <1>10, <1>11, <1>12

LEMMA OpenKeepsInv ==
  ASSUME CallsInv, NEW j \in Journals, Open(j)
  PROVE  CallsInv' /\ DeadStays
<1>1. \A d \in Callers : JournalOf(d) = j => caller[d] = Idle
  BY DEF CallsInv, CallsAreFit, Open
<1>2. Len(file) \in Nat
  BY LenProperties DEF CallsInv, TypeInv
<1>3. TypeInv'
  BY <1>2 DEF Open, CallsInv, TypeInv
<1>4. \A k \in opened' :
        \/ log'[k] = file /\ size'[k] = Len(file)
        \/ k \in opened /\ log'[k] = log[k] /\ size'[k] = size[k]
  BY DEF Open, CallsInv, TypeInv
<1>5. \A d \in Callers : caller'[d] = caller[d] /\ (caller[d] = Idle \/
        /\ JournalOf(d) \in opened' /\ log'[JournalOf(d)] = log[JournalOf(d)]
        /\ size'[JournalOf(d)] = size[JournalOf(d)])
  BY <1>1 DEF Open, CallsInv, CallsAreFit, TypeInv
<1> QED BY <1>3, <1>4, <1>5, FewerAtWork DEF Open

LEMMA CrashKeepsInv ==
  ASSUME CallsInv, NEW j \in Journals, Crash(j)
  PROVE  CallsInv' /\ DeadStays
<1>1. TypeInv'
  <2>1. caller' \in [Callers -> {Idle} \union CallRecords]
    BY DEF Crash, CallsInv, TypeInv
  <2>2. target' \in States
    BY DEF Crash, CallsInv, TypeInv, States
  <2>3. log' \in [Journals -> Seq(Lines)]
    <3>1. <<>> \in Seq(Lines)
      OBVIOUS
    <3> QED BY <3>1 DEF Crash, CallsInv, TypeInv
  <2> QED BY <2>1, <2>2, <2>3 DEF Crash, CallsInv, TypeInv
<1>2. \A k \in opened' : /\ k \in opened /\ log'[k] = log[k] /\ size'[k] = size[k]
                         /\ \A d \in Callers : JournalOf(d) = k => caller'[d] = caller[d]
  BY DEF Crash, CallsInv, TypeInv
<1>3. \A d \in Callers : caller'[d] = Idle \/
        /\ caller'[d] = caller[d] /\ JournalOf(d) \in opened'
        /\ log'[JournalOf(d)] = log[JournalOf(d)] /\ size'[JournalOf(d)] = size[JournalOf(d)]
  <2>1. \A d \in Callers : caller[d] # Idle /\ JournalOf(d) # j => JournalOf(d) \in opened'
    BY DEF Crash, CallsInv, CallsAreFit
  <2> QED BY <1>2, <2>1 DEF Crash
<1>4. target' \in {target, "other", "torn"}
  BY DEF Crash
<1> QED BY <1>1, <1>2, <1>3, <1>4, FewerAtWork DEF Crash

LEMMA DriftKeepsInv ==
  ASSUME CallsInv, Drift
  PROVE  CallsInv' /\ DeadStays
<1>1. TypeInv'
  BY DEF Drift, journal, CallsInv, TypeInv, States
<1>2. \A d \in Callers : caller[d] = Idle \/ JournalOf(d) \in opened
  BY DEF CallsInv, CallsAreFit
<1> QED BY <1>1, <1>2, FewerAtWork DEF Drift, journal

\* The route is changed for an operation, if the write succeeds.
LEMMA WriteStateKeepsInv ==
  ASSUME CallsInv, OwnObjects, NEW c \in Callers, WriteState(c)
  PROVE  CallsInv' /\ DeadStays
<1> DEFINE a == caller[c].authorization
<1>1. /\ caller[c] \in CallRecords /\ a \in Authorizations /\ JournalOf(c) \in opened
      /\ caller[c].at = "applying" /\ caller[c].event = "reserved" /\ caller[c].does # "reconcile"
  BY AtWork DEF CallsInv, CallsAreFit, ApplyingIsReserved, WriteState
<1>2. Engages(c, a)
  BY <1>1 DEF Engages
<1>3. /\ UNCHANGED file /\ UNCHANGED opened /\ UNCHANGED log /\ UNCHANGED size
  BY DEF WriteState, journal
<1>4. CASE target' \in {target, "torn"} /\ Ends(c) /\ UNCHANGED writes
  <2>1. caller' = [caller EXCEPT ![c] = Idle]
    BY <1>4 DEF Ends
  <2>2. TypeInv'
    BY <1>3, <1>4, <2>1 DEF CallsInv, TypeInv, States
  <2>3. \A d \in Callers : caller'[d] = Idle \/ (caller'[d] = caller[d] /\ JournalOf(d) \in opened)
    BY <2>1 DEF CallsInv, CallsAreFit, TypeInv
  <2>4. \A d \in Callers : Admitting(d) => caller'[d] = caller[d]
    BY <1>1, <2>1 DEF Admitting, CallsInv, TypeInv
  <2> QED BY <1>3, <1>4, <2>2, <2>3, <2>4, FewerAtWork
<1>5. CASE target' = a /\ writes' = [writes EXCEPT ![a] = @ + 1] /\ Moves(c, "applied")
  <2> DEFINE r == [caller[c] EXCEPT !.at = "applied"]
  <2> USE DEF CallsInv
  <2>1. /\ r \in CallRecords /\ r # Idle /\ r.at = "applied" /\ r.does = caller[c].does
        /\ r.authorization = caller[c].authorization /\ r.event = "reserved"
    BY <1>1 DEF CallRecords, Points, Idle
  <2>2. caller' = [caller EXCEPT ![c] = r]
    BY <1>5 DEF Moves
  <2> HIDE DEF r
  <2>3. /\ caller' \in [Callers -> {Idle} \union CallRecords] /\ caller'[c] = r
        /\ \A d \in Callers \ {c} : caller'[d] = caller[d]
    BY <2>1, <2>2 DEF TypeInv
  <2>4. writes[a] = 0
    BY <1>1, <1>2 DEF ReservedOnce
  <2>5. /\ writes' \in [Authorizations -> Nat] /\ writes'[a] = 1
        /\ \A b \in Authorizations \ {a} : writes'[b] = writes[b]
    BY <1>1, <1>5, <2>4 DEF TypeInv
  <2>6. TypeInv'
    BY <1>1, <1>3, <1>5, <2>3, <2>5 DEF TypeInv, States
  <2>7. CallsAreFit'
    BY <1>1, <1>3, <2>1, <2>3 DEF CallsAreFit
  <2>8. \A j : StorageUnchanged(j)' <=> StorageUnchanged(j)
    BY <1>3 DEF StorageUnchanged
  <2>9. \A d \in Callers :
          /\ Admitting(d)' <=> Admitting(d)
          /\ Admitting(d) => Line(d)' = Line(d) /\ caller'[d] = caller[d]
    BY <1>1, <1>3, <2>1, <2>3 DEF Admitting, Line
  <2>10. LogsFollowFile'
    BY <1>3, <2>8, <2>9 DEF LogsFollowFile
  <2>11. \A d \in Callers, b \in Authorizations : Engages(d, b)' \/ Reserves(d, b)' =>
           d # c /\ (Engages(d, b) \/ Reserves(d, b)) /\ b # a
    <3>1. \A b \in Authorizations : ~Engages(c, b)' /\ ~Reserves(c, b)'
      BY <2>1, <2>3 DEF Engages, Reserves
    <3>2. \A d \in Callers \ {c}, b \in Authorizations :
            (Engages(d, b)' <=> Engages(d, b)) /\ (Reserves(d, b)' <=> Reserves(d, b))
      BY <2>3, <2>8 DEF Engages, Reserves
    <3>3. \A d \in Callers \ {c} : ~Engages(d, a) /\ ~Reserves(d, a)
      BY <1>1, <1>2 DEF ReservedOnce
    <3> HIDE DEF a
    <3> QED BY <3>1, <3>2, <3>3
  <2>12. ReservedOnce'
    BY <1>3, <2>5, <2>11 DEF ReservedOnce, Clear
  <2>13. LastWriterAlone'
    BY <2>1, <2>3, <2>8 DEF LastWriterAlone
  <2>14. ApplyingIsReserved'
    BY <2>1, <2>3 DEF ApplyingIsReserved
  <2>15. Clear(file, a)
    BY <1>1, <1>2 DEF ReservedOnce
  <2>16. WritesAreKnown'
    <3>1. ASSUME NEW b \in Authorizations
          PROVE  /\ writes'[b] <= 1
                 /\ writes'[b] = 1 =>
                      /\ EventsOf(file, b) # {}
                      /\ a # Before(b)
                      /\ Before(b) \in Authorizations => writes'[Before(b)] = 1
      <4>1. CASE b = a
        <5>1. EventsOf(file, a) # {}
          BY <2>15 DEF Clear
        <5>2. a # Before(a)
          BY <1>1, StatesAssumption
        <5>3. Before(a) \in Authorizations => writes[Before(a)] = 1
          BY <1>1 DEF WritesAreKnown
        <5> HIDE DEF a
        <5> QED BY <4>1, <5>1, <5>2, <5>3, <2>5
      <4>2. CASE b # a
        <5>1. writes'[b] = writes[b]
          BY <4>2, <2>5
        <5>2. writes[b] = 1 => Before(b) # a
          BY <1>1, <2>4 DEF WritesAreKnown
        <5> HIDE DEF a
        <5> QED BY <5>1, <5>2, <2>5 DEF WritesAreKnown
      <4> QED BY <4>1, <4>2
    <3>2. ASSUME NEW d \in Callers
          PROVE  /\ caller'[d].event = "committed" => writes'[caller'[d].authorization] = 1
                 /\ caller'[d].at = "applying" /\ Before(caller'[d].authorization) \in Authorizations =>
                      writes'[Before(caller'[d].authorization)] = 1
      <4>1. CASE d = c
        BY <4>1, <2>1, <2>3
      <4>2. CASE d # c
        <5>1. /\ caller'[d] = caller[d]
              /\ caller[d].event = "committed" => writes[caller[d].authorization] = 1
              /\ caller[d].at = "applying" /\ Before(caller[d].authorization) \in Authorizations =>
                   writes[Before(caller[d].authorization)] = 1
          BY <4>2, <2>3 DEF WritesAreKnown
        <5>2. caller[d].event = "committed" => caller[d].authorization \in Authorizations
          BY DEF TypeInv, Idle, CallRecords
        <5> HIDE DEF a
        <5> QED BY <5>1, <5>2, <2>5
      <4> QED BY <4>1, <4>2
    <3> QED BY <1>1, <1>3, <1>5, <2>5, <3>1, <3>2 DEF WritesAreKnown
  <2>17. DeadStays
    <3>1. ~Dead(a)
      BY <1>2 DEF Dead
    <3> HIDE DEF a
    <3> QED BY <3>1, <1>3, <2>5, <2>11 DEF Dead, DeadStays
  <2>18. CallVerdicts'
    <3>1. \A d \in Callers : caller[d].event = "not_applied" =>
            caller[d].authorization \in Authorizations
      BY DEF TypeInv, Idle, CallRecords
    <3> QED BY <3>1, <2>1, <2>3, <2>17 DEF CallVerdicts, DeadStays
  <2>19. VerifyingIsCommitted'
    BY <1>3, <2>1, <2>3, <2>8 DEF VerifyingIsCommitted
  <2> QED BY <2>6, <2>7, <2>10, <2>12, <2>13, <2>14, <2>16, <2>17, <2>18, <2>19
<1> QED BY <1>4, <1>5 DEF WriteState

\* A line is added: every object but the writer's is behind, and a new
\* reservation is the first of its operation and made when nothing is in doubt,
\* unless the writer's object was behind too.
LEMMA WriteKeepsInv ==
  ASSUME CallsInv, OwnObjects, NEW c \in Callers, Write(c)
  PROVE  CallsInv' /\ DeadStays
<1> DEFINE a == caller[c].authorization
           j == JournalOf(c)
           line == Line(c)
           r == [caller[c] EXCEPT !.at = "rereading"]
<1> USE DEF CallsInv
<1>1. /\ caller[c] \in CallRecords /\ caller[c].at = "appending" /\ caller[c].event \in Types
      /\ a \in Authorizations /\ j \in opened /\ j \in Journals
      /\ line \in Lines /\ line.operation = a /\ line.type = caller[c].event
  BY AtWork DEF CallsAreFit, Write
<1>2. /\ UNCHANGED target /\ UNCHANGED opened /\ UNCHANGED log /\ UNCHANGED writes
  BY DEF Write
<1>3. CASE Ends(c) /\ UNCHANGED <<file, size>>
  BY <1>1, <1>2, <1>3, EndsWell DEF Admitting, journal
<1>4. ASSUME Follows(log[j], line), file' = Append(file, line), NEW went \in BOOLEAN,
             \/ went /\ caller' = [caller EXCEPT ![c] = r] /\ size' = [size EXCEPT ![j] = @ + 1]
             \/ ~went /\ caller' = [caller EXCEPT ![c] = Idle] /\ UNCHANGED size
      PROVE  CallsInv' /\ DeadStays
  <2>1. /\ r \in CallRecords /\ r # Idle /\ r.at = "rereading" /\ r.does = caller[c].does
        /\ r.authorization = a /\ r.event = caller[c].event /\ r.quiet = caller[c].quiet
    BY <1>1 DEF CallRecords, Points, Idle
  <2> HIDE DEF r
  <2>2. /\ caller' \in [Callers -> {Idle} \union CallRecords]
        /\ caller'[c] = IF went THEN r ELSE Idle
        /\ \A d \in Callers \ {c} : caller'[d] = caller[d]
    BY <1>4, <2>1 DEF TypeInv
  <2> HIDE DEF a, j, line
  <2>3. /\ size' \in [Journals -> Nat]
        /\ size'[j] = IF went THEN size[j] + 1 ELSE size[j]
        /\ \A k \in Journals \ {j} : size'[k] = size[k]
    <3>1. size \in [Journals -> Nat] /\ size[j] + 1 \in Nat
      BY <1>1 DEF TypeInv
    <3>2. CASE went /\ size' = [size EXCEPT ![j] = size[j] + 1]
      BY <1>1, <3>1, <3>2
    <3>3. CASE ~went /\ size' = size
      BY <3>1, <3>3
    <3> QED BY <1>4, <3>2, <3>3
  <2>4. /\ file \in Seq(Lines) /\ file' \in Seq(Lines) /\ Len(file) \in Nat
        /\ Len(file') = Len(file) + 1
        /\ \A b \in Authorizations : EventsOf(file, b) \subseteq EventsOf(file', b)
        /\ EventsOf(file', a) = EventsOf(file, a) \union {Len(file) + 1}
    <3>1. file \in Seq(Lines) /\ line \in Lines /\ line.operation = a /\ file' = Append(file, line)
      BY <1>1, <1>4 DEF TypeInv
    <3> QED BY <3>1, AppendedEvents
  <2>5. \A b \in Authorizations : Clear(file, b) => Clear(file', b)
    BY <1>1, <1>4, ClearGrows DEF TypeInv
  <2>6. \A k \in opened : StorageUnchanged(k)' => k = j /\ went /\ StorageUnchanged(j)
    <3>1. ASSUME NEW k \in opened PROVE k \in Journals /\ size[k] \in Nat /\ size[k] <= Len(file)
      BY DEF TypeInv, LogsFollowFile
    <3> QED BY <1>1, <2>3, <2>4, <3>1 DEF StorageUnchanged
  <2>7. \A d \in Callers :
          /\ caller'[d] # Idle => JournalOf(d) \in opened /\ JournalOf(d) \in Journals
          /\ caller'[d] # Idle /\ d # c => ~StorageUnchanged(JournalOf(d))'
    <3>1. \A d \in Callers : caller'[d] # Idle => JournalOf(d) \in opened /\ JournalOf(d) \in Journals
      BY <1>1, <2>2 DEF j, CallsAreFit, TypeInv
    <3>2. \A d \in Callers : d # c => JournalOf(d) # j
      BY DEF j, OwnObjects
    <3> QED BY <2>6, <3>1, <3>2
  <2>8. StorageUnchanged(j)' /\ went => log[j] = file
    <3>1. StorageUnchanged(j)' => StorageUnchanged(j)
      BY <1>1, <2>6
    <3>2. \A d \in Callers : JournalOf(d) = j => ~Admitting(d)
      BY <1>1 DEF j, OwnObjects, Admitting
    <3> QED BY <1>1, <3>1, <3>2 DEF LogsFollowFile
  <2>9. TypeInv'
    BY <1>2, <2>2, <2>3, <2>4 DEF TypeInv
  <2>10. CallsAreFit'
    BY <1>1, <1>2, <2>1, <2>2 DEF CallsAreFit, j, Idle
  <2>11. LogsFollowFile'
    <3>1. ASSUME NEW k \in opened
          PROVE  /\ size'[k] <= Len(file')
                 /\ \A b \in Authorizations : EventsOf(log[k], b) # {} => EventsOf(file', b) # {}
                 /\ StorageUnchanged(k)' => k = j /\ Admitting(c)'
      <4>1. /\ k \in Journals /\ size[k] \in Nat /\ size[k] <= Len(file)
            /\ \A b \in Authorizations : EventsOf(log[k], b) # {} => EventsOf(file, b) # {}
        BY DEF TypeInv, LogsFollowFile
      <4>2. size'[k] <= Len(file')
        BY <2>3, <2>4, <4>1
      <4>3. StorageUnchanged(k)' => k = j /\ Admitting(c)'
        BY <2>1, <2>2, <2>6 DEF Admitting
      <4> QED BY <2>4, <4>1, <4>2, <4>3
    <3>2. ASSUME NEW d \in Callers, Admitting(d)'
          PROVE  /\ EventsOf(file', caller'[d].authorization) # {}
                 /\ StorageUnchanged(JournalOf(d))' => file' = Append(log[JournalOf(d)], Line(d)')
      <4>1. CASE d = c
        <5>1. went /\ caller'[c] = r
          BY <3>2, <4>1, <2>2 DEF Admitting, Idle
        <5>2. Line(c)' = line
          BY <1>2, <2>1, <5>1 DEF Line, line, a
        <5> QED BY <1>4, <2>1, <2>4, <2>8, <4>1, <5>1, <5>2 DEF j
      <4>2. CASE d # c
        <5>1. caller'[d] = caller[d] /\ Admitting(d) /\ caller'[d] # Idle
          BY <3>2, <4>2, <2>2 DEF Admitting, Idle
        <5>2. EventsOf(file, caller[d].authorization) # {} /\ caller[d].authorization \in Authorizations
          BY <5>1, AtWork DEF LogsFollowFile, Admitting
        <5> QED BY <2>4, <2>7, <4>2, <5>1, <5>2
      <4> QED BY <4>1, <4>2
    <3>3. \A d \in Callers : JournalOf(d) = j => d = c
      BY DEF j, OwnObjects
    <3> QED BY <1>2, <3>1, <3>2, <3>3 DEF LogsFollowFile, j
  <2>12. \A d \in Callers, b \in Authorizations : Engages(d, b)' => Engages(d, b)
    BY <2>1, <2>2 DEF Engages, Idle
  <2>13. \A d \in Callers, b \in Authorizations : Reserves(d, b)' =>
           d = c /\ b = a /\ EventsOf(file, a) = {} /\ Clear(file', a)
    <3>1. ASSUME NEW d \in Callers, NEW b \in Authorizations, Reserves(d, b)'
          PROVE  d = c /\ b = a /\ EventsOf(file, a) = {} /\ Clear(file', a)
      <4>1. caller'[d] # Idle /\ StorageUnchanged(JournalOf(d))'
        BY <3>1 DEF Reserves, Idle
      <4>2. d = c
        BY <2>7, <4>1
      <4>3. went /\ caller'[c] = r
        BY <2>2, <4>1, <4>2
      <4>4. b = a /\ line.type = "reserved"
        BY <1>1, <2>1, <3>1, <4>2, <4>3 DEF Reserves
      <4>5. log[j] = file
        BY <2>8, <4>1, <4>2, <4>3 DEF j
      <4>6. Latest(file, a) = "none" /\ Blocking(file) = {}
        BY <1>1, <1>4, <4>4, <4>5 DEF Follows
      <4>7. EventsOf(file, a) = {}
        BY <2>4, <4>6, LatestTells
      <4>8. Clear(file', a)
        BY <1>1, <1>4, <2>4, <4>6, ClearGrows
      <4> QED BY <4>2, <4>4, <4>7, <4>8
    <3> QED BY <3>1
  <2>14. EventsOf(file, a) = {} => /\ writes[a] = 0
                                   /\ \A d \in Callers : ~Engages(d, a) /\ ~Reserves(d, a)
    <3>1. writes[a] \in Nat /\ writes[a] <= 1 /\ (writes[a] = 1 => EventsOf(file, a) # {})
      BY <1>1 DEF TypeInv, WritesAreKnown
    <3>2. \A d \in Callers : Engages(d, a) \/ Reserves(d, a) => EventsOf(file, a) # {}
      BY <1>1 DEF ReservedOnce, Clear
    <3> QED BY <3>1, <3>2
  <2>15. ReservedOnce'
    <3>1. ASSUME NEW d \in Callers, NEW b \in Authorizations, Engages(d, b)' \/ Reserves(d, b)'
          PROVE  /\ writes[b] = 0 /\ Clear(file', b)
                 /\ \A e \in Callers : Engages(e, b)' \/ Reserves(e, b)' => e = d
      <4>1. CASE b = a /\ EventsOf(file, a) = {}
        BY <4>1, <3>1, <2>12, <2>13, <2>14
      <4>2. CASE ~(b = a /\ EventsOf(file, a) = {})
        <5>1. \A e \in Callers : Engages(e, b)' \/ Reserves(e, b)' => Engages(e, b)
          BY <4>2, <2>12, <2>13
        <5> QED BY <5>1, <3>1, <2>5 DEF ReservedOnce
      <4> QED BY <4>1, <4>2
    <3> HIDE DEF a
    <3>2. \A d \in Callers, b \in Authorizations : Engages(d, b)' \/ Reserves(d, b)' =>
            /\ writes[b] = 0 /\ Clear(file', b)
            /\ \A e \in Callers : Engages(e, b)' \/ Reserves(e, b)' => e = d
      BY <3>1
    <3> QED BY <1>2, <3>2 DEF ReservedOnce, Clear
  <2>16. LastWriterAlone'
    BY <2>7 DEF LastWriterAlone, Idle
  <2>17. ApplyingIsReserved'
    BY <2>1, <2>2 DEF ApplyingIsReserved, Idle
  <2>18. WritesAreKnown'
    <3>1. \A d \in Callers :
            /\ caller'[d].event = "committed" => writes[caller'[d].authorization] = 1
            /\ caller'[d].at = "applying" /\ Before(caller'[d].authorization) \in Authorizations =>
                 writes[Before(caller'[d].authorization)] = 1
      BY <2>1, <2>2 DEF WritesAreKnown, Idle, a
    <3>2. \A b \in Authorizations : EventsOf(file, b) # {} => EventsOf(file', b) # {}
      BY <2>4
    <3> QED BY <1>2, <3>1, <3>2 DEF WritesAreKnown
  <2>19. DeadStays
    <3>1. \A b \in Authorizations : Dead(b) => EventsOf(file', b) # {} /\ writes[b] = 0
      BY <2>4 DEF Dead
    <3>2. \A b \in Authorizations, d \in Callers : Dead(b) => ~Engages(d, b)' /\ ~Reserves(d, b)'
      BY <2>12, <2>13 DEF Dead
    <3> QED BY <1>2, <3>1, <3>2 DEF Dead, DeadStays
  <2>20. CallVerdicts'
    <3>1. \A d \in Callers : caller[d].event = "not_applied" =>
            caller[d].authorization \in Authorizations
      BY DEF TypeInv, Idle, CallRecords
    <3> QED BY <2>1, <2>2, <2>19, <3>1 DEF CallVerdicts, DeadStays, Idle, a
  <2>21. VerifyingIsCommitted'
    BY <2>1, <2>2, <2>7 DEF VerifyingIsCommitted, Idle
  <2> QED BY <2>9, <2>10, <2>11, <2>15, <2>16, <2>17, <2>18, <2>19, <2>20, <2>21
<1>5. CASE Follows(log[j], line) /\ file' = Append(file, line) /\ Ends(c) /\ UNCHANGED size
  BY <1>4, <1>5 DEF Ends
<1>6. CASE /\ Follows(log[j], line) /\ file' = Append(file, line) /\ Moves(c, "rereading")
           /\ size' = [size EXCEPT ![j] = @ + 1]
  <2>1. caller' = [caller EXCEPT ![c] = r]
    BY <1>6 DEF Moves
  <2> HIDE DEF r
  <2> QED BY <1>4, <1>6, <2>1
<1> QED BY <1>3, <1>5, <1>6 DEF Write

\* The event is admitted to the object.
LEMMA AdmitKeepsInv ==
  ASSUME CallsInv, OwnObjects, NEW c \in Callers, Admit(c)
  PROVE  CallsInv' /\ DeadStays
<1> DEFINE a == caller[c].authorization
           j == JournalOf(c)
           line == Line(c)
           r == IF caller[c].event = "reserved" THEN [caller[c] EXCEPT !.at = "reserved"] ELSE Idle
<1> USE DEF CallsInv
<1>1. /\ caller[c] \in CallRecords /\ caller[c].at = "admitting" /\ caller[c].event \in Types
      /\ a \in Authorizations /\ j \in opened /\ j \in Journals
      /\ line \in Lines /\ line.operation = a
  BY AtWork DEF CallsAreFit, Admit
<1>2. /\ UNCHANGED target /\ UNCHANGED file /\ UNCHANGED opened /\ UNCHANGED size
      /\ UNCHANGED writes
  BY DEF Admit
<1>3. \/ r = Idle
      \/ /\ r \in CallRecords /\ r # Idle /\ r.at = "reserved" /\ r.does = caller[c].does
         /\ r.authorization = a /\ r.event = "reserved" /\ caller[c].event = "reserved"
  BY <1>1 DEF CallRecords, Points, Idle
<1>4. caller' = [caller EXCEPT ![c] = r]
  BY DEF Admit, Moves, Ends
<1> HIDE DEF r
<1>5. /\ caller' \in [Callers -> {Idle} \union CallRecords] /\ caller'[c] = r
      /\ \A d \in Callers \ {c} : caller'[d] = caller[d]
  BY <1>3, <1>4 DEF TypeInv
<1>6. /\ log' \in [Journals -> Seq(Lines)] /\ log'[j] = Append(log[j], line)
      /\ \A k \in Journals \ {j} : log'[k] = log[k]
  <2>1. log' = [log EXCEPT ![j] = Append(log[j], line)]
    BY DEF Admit
  <2>2. Append(log[j], line) \in Seq(Lines)
    BY <1>1, AppendedEvents DEF TypeInv
  <2> HIDE DEF j, line
  <2> QED BY <1>1, <2>1, <2>2 DEF TypeInv
<1>7. \A d \in Callers \ {c} : JournalOf(d) # j
  BY DEF OwnObjects
<1>8. \A k : StorageUnchanged(k)' <=> StorageUnchanged(k)
  BY <1>2 DEF StorageUnchanged
<1>9. TypeInv'
  BY <1>2, <1>5, <1>6 DEF TypeInv
<1>10. CallsAreFit'
  <2>1. caller[c] # Idle
    BY <1>1 DEF Idle
  <2> HIDE DEF a, j
  <2> QED BY <1>2, <1>3, <1>5, <2>1 DEF CallsAreFit
<1>11. LogsFollowFile'
  <2>1. EventsOf(file, a) # {} /\ (StorageUnchanged(j) => file = Append(log[j], line))
    BY <1>1 DEF LogsFollowFile, Admitting
  <2>2. \A b \in Authorizations : EventsOf(log'[j], b) # {} => b = a \/ EventsOf(log[j], b) # {}
    <3>1. \A b \in Authorizations : b # a => EventsOf(Append(log[j], line), b) = EventsOf(log[j], b)
      BY <1>1, AppendedEvents DEF TypeInv
    <3> QED BY <1>6, <3>1
  <2> HIDE DEF a, j, line
  <2>3. ASSUME NEW k \in opened
        PROVE  /\ size[k] <= Len(file)
               /\ \A b \in Authorizations : EventsOf(log'[k], b) # {} => EventsOf(file, b) # {}
               /\ StorageUnchanged(k) /\ (\A d \in Callers : JournalOf(d) = k => ~Admitting(d)') =>
                    log'[k] = file
    <3>1. CASE k = j
      BY <1>6, <2>1, <2>2, <3>1 DEF LogsFollowFile
    <3>2. CASE k # j
      <4>1. log'[k] = log[k]
        BY <1>6, <3>2 DEF TypeInv
      <4>2. \A d \in Callers : JournalOf(d) = k => (Admitting(d)' <=> Admitting(d))
        BY <1>5, <3>2 DEF Admitting, j
      <4> QED BY <4>1, <4>2 DEF LogsFollowFile
    <3> QED BY <3>1, <3>2
  <2>4. ASSUME NEW d \in Callers, Admitting(d)'
        PROVE  /\ EventsOf(file, caller'[d].authorization) # {}
               /\ StorageUnchanged(JournalOf(d)) => file = Append(log'[JournalOf(d)], Line(d)')
    <3>1. d # c
      BY <2>4, <1>3, <1>5 DEF Admitting, Idle
    <3>2. caller'[d] = caller[d] /\ Admitting(d) /\ caller[d] # Idle
      BY <2>4, <3>1, <1>5 DEF Admitting, Idle
    <3>3. log'[JournalOf(d)] = log[JournalOf(d)]
      BY <1>6, <1>7, <3>1, ObjectsAssumption
    <3>4. Line(d)' = Line(d)
      BY <3>2, <3>3 DEF Line
    <3> QED BY <3>2, <3>3, <3>4 DEF LogsFollowFile
  <2> QED BY <1>2, <1>8, <2>3, <2>4 DEF LogsFollowFile
<1>12. \A d \in Callers, b \in Authorizations :
         (Engages(d, b)' => Engages(d, b)) /\ (Reserves(d, b)' => Reserves(d, b))
  <2>1. \A d \in Callers \ {c}, b \in Authorizations :
          (Engages(d, b)' <=> Engages(d, b)) /\ (Reserves(d, b)' <=> Reserves(d, b))
    BY <1>5, <1>8 DEF Engages, Reserves
  <2>2. \A b \in Authorizations : (Engages(c, b)' => Engages(c, b)) /\ ~Reserves(c, b)'
    BY <1>1, <1>3, <1>5 DEF Engages, Reserves, Idle
  <2> QED BY <2>1, <2>2
<1>13. ReservedOnce'
  BY <1>2, <1>12 DEF ReservedOnce, Clear
<1>14. LastWriterAlone'
  BY <1>3, <1>5, <1>8 DEF LastWriterAlone, Idle
<1>15. ApplyingIsReserved'
  BY <1>3, <1>5 DEF ApplyingIsReserved, Idle
<1>16. WritesAreKnown'
  <2>1. \A d \in Callers :
          /\ caller'[d].event = "committed" => writes[caller'[d].authorization] = 1
          /\ caller'[d].at = "applying" /\ Before(caller'[d].authorization) \in Authorizations =>
               writes[Before(caller'[d].authorization)] = 1
    BY <1>3, <1>5 DEF WritesAreKnown, Idle
  <2> QED BY <1>2, <2>1 DEF WritesAreKnown
<1>17. DeadStays
  BY <1>2, <1>12 DEF Dead, DeadStays
<1>18. CallVerdicts'
  <2>1. \A d \in Callers : caller[d].event = "not_applied" =>
          caller[d].authorization \in Authorizations
    BY DEF TypeInv, Idle, CallRecords
  <2> QED BY <1>3, <1>5, <1>17, <2>1 DEF CallVerdicts, DeadStays, Idle
<1>19. VerifyingIsCommitted'
  BY <1>2, <1>3, <1>5, <1>8 DEF VerifyingIsCommitted, Idle
<1> QED BY <1>9, <1>10, <1>11, <1>13, <1>14, <1>15, <1>16, <1>17, <1>18, <1>19

-----------------------------------------------------------------------------
(* The theorems *)

LEMMA StepKeepsCalls ==
  ASSUME CallsInv, OwnObjects, [Next]_vars
  PROVE  CallsInv' /\ DeadStays
<1>1. CASE UNCHANGED vars
  <2>1. /\ UNCHANGED target /\ UNCHANGED file /\ UNCHANGED opened /\ UNCHANGED log
        /\ UNCHANGED size /\ UNCHANGED caller /\ UNCHANGED writes
    BY <1>1 DEF vars, journal
  <2>2. TypeInv'
    BY <2>1 DEF CallsInv, TypeInv
  <2>3. \A d \in Callers : caller[d] = Idle \/ JournalOf(d) \in opened
    BY DEF CallsInv, CallsAreFit
  <2> QED BY <2>1, <2>2, <2>3, FewerAtWork
<1>2. ASSUME NEW j \in Journals, Open(j) \/ Crash(j) PROVE CallsInv' /\ DeadStays
  BY <1>2, OpenKeepsInv, CrashKeepsInv
<1>3. CASE Drift
  BY <1>3, DriftKeepsInv
<1>4. ASSUME NEW c \in Callers,
             \/ Write(c) \/ Reread(c) \/ Admit(c) \/ Reserve(c) \/ ApplyExact(c)
             \/ WriteState(c) \/ Confirm(c) \/ Record(c) \/ Verified(c)
      PROVE  CallsInv' /\ DeadStays
  BY <1>4, WriteKeepsInv, RereadKeepsInv, AdmitKeepsInv, ReserveKeepsInv, ApplyExactKeepsInv,
     WriteStateKeepsInv, ConfirmKeepsInv, RecordKeepsInv, VerifiedKeepsInv
<1>5. ASSUME NEW c \in Callers, NEW a \in Authorizations,
             Apply(c, a) \/ Reconcile(c, a) \/ Verify(c, a)
      PROVE  CallsInv' /\ DeadStays
  BY <1>5, ApplyKeepsInv, ReconcileKeepsInv, VerifyKeepsInv
<1> QED BY <1>1, <1>2, <1>3, <1>4, <1>5 DEF Next

\* A change of the route is counted once.
LEMMA WritesChange ==
  ASSUME CallsInv, [Next]_vars, NEW a \in Authorizations, writes'[a] # writes[a]
  PROVE  /\ \E c \in Callers : WriteState(c) /\ Engages(c, a)
         /\ writes[a] = 0 /\ writes' = [writes EXCEPT ![a] = 1] /\ UNCHANGED file
<1>1. PICK c \in Callers : WriteState(c)
  BY DEF Next, vars, journal, Open, Crash, Drift, Write, Reread, Admit, Reserve, ApplyExact,
         Confirm, Record, Verified, Apply, Reconcile, Verify
<1>2. /\ caller[c].authorization \in Authorizations /\ caller[c].at = "applying"
      /\ caller[c].event = "reserved" /\ UNCHANGED file
  BY <1>1, AtWork DEF CallsInv, ApplyingIsReserved, WriteState, journal
<1>3. writes' = [writes EXCEPT ![caller[c].authorization] = @ + 1]
  BY <1>1 DEF WriteState
<1>4. caller[c].authorization = a
  BY <1>2, <1>3 DEF CallsInv, TypeInv
<1>5. Engages(c, a)
  BY <1>2, <1>4 DEF Engages
<1>6. writes[a] = 0
  BY <1>5 DEF CallsInv, ReservedOnce
<1> QED BY <1>1, <1>2, <1>3, <1>4, <1>5, <1>6

\* A report made by reconcile() is right when it is made.
LEMMA RightWhenMade ==
  ASSUME NEW a \in Authorizations, NEW type \in Types \ {"reserved"}, NEW quiet,
         Reports(a, Classification(type), quiet),
         type = "committed" => writes'[a] = 1,
         type = "not_applied" /\ quiet => Dead(a)'
  PROVE  ReportVerdicts' /\ report'.classification # "VERIFIED"
<1>1. /\ report'.authorization = a /\ report'.classification = Classification(type)
      /\ report'.quiet = quiet
  BY DEF Reports
<1>2. CASE type = "committed"
  BY <1>1, <1>2 DEF ReportVerdicts, Classification
<1>3. CASE type = "not_applied"
  BY <1>1, <1>3 DEF ReportVerdicts, Classification
<1>4. CASE type = "manual"
  BY <1>1, <1>4 DEF ReportVerdicts, Classification
<1> QED BY <1>2, <1>3, <1>4 DEF Types

\* A step that reports says what is true; a receipt is only verified if the
\* operation is committed.
LEMMA ReportMade ==
  ASSUME CallsInv, OwnObjects, Next, report' # report
  PROVE  /\ ReportVerdicts'
         /\ report'.classification = "VERIFIED" => Latest(file, report'.authorization) = "committed"
<1> USE DEF CallsInv
<1>1. DeadStays
  BY StepKeepsCalls DEF vars
<1>2. PICK c \in Callers :
        \/ Admit(c) \/ Record(c) \/ Verified(c)
        \/ \E a \in Authorizations : Reconcile(c, a)
  BY DEF Next, Open, Crash, Drift, Write, Reread, Reserve, ApplyExact, WriteState, Confirm,
         Apply, Verify
<1>3. CASE Admit(c)
  <2>1. /\ caller[c] \in CallRecords /\ caller[c] # Idle /\ caller[c].authorization \in Authorizations
        /\ caller[c].at = "admitting"
    BY <1>3, AtWork DEF Admit
  <2>2. /\ caller[c].does = "reconcile" /\ UNCHANGED writes
        /\ Reports(caller[c].authorization, Classification(caller[c].event), caller[c].quiet)
    BY <1>3 DEF Admit
  <2>3. caller[c].event \in Types \ {"reserved"}
    BY <2>1, <2>2 DEF CallsAreFit
  <2>4. /\ caller[c].event = "committed" => writes'[caller[c].authorization] = 1
        /\ caller[c].event = "not_applied" /\ caller[c].quiet => Dead(caller[c].authorization)
    BY <2>2 DEF WritesAreKnown, CallVerdicts
  <2>5. PICK a \in Authorizations : a = caller[c].authorization
    BY <2>1
  <2>6. Dead(a) => Dead(a)'
    BY <1>1 DEF DeadStays
  <2> QED BY <2>2, <2>3, <2>4, <2>5, <2>6, RightWhenMade
<1>4. CASE Record(c)
  <2>1. /\ caller[c].authorization \in Authorizations /\ caller[c].event = "manual"
        /\ Reports(caller[c].authorization, Classification(caller[c].event), caller[c].quiet)
    BY <1>4, AtWork DEF Record
  <2> QED BY <2>1, RightWhenMade DEF Types
<1>5. CASE Verified(c)
  <2>1. /\ caller[c].at = "verify" /\ StorageUnchanged(JournalOf(c))
        /\ Reports(caller[c].authorization, "VERIFIED", TRUE)
    BY <1>5 DEF Verified
  <2>2. Latest(file, caller[c].authorization) = "committed"
    BY <2>1 DEF VerifyingIsCommitted
  <2> QED BY <2>1, <2>2 DEF Reports, ReportVerdicts
<1>6. ASSUME NEW a \in Authorizations, Reconcile(c, a)
      PROVE  ReportVerdicts' /\ report'.classification # "VERIFIED"
  <2> DEFINE verdict == Verdict(Latest(log[JournalOf(c)], a), target, a)
  <2>1. /\ caller[c].at = "idle" /\ JournalOf(c) \in opened
        /\ Latest(log[JournalOf(c)], a) # "none" /\ UNCHANGED writes
        /\ Reports(a, Classification(verdict), Quiet(a, c))
    BY <1>6 DEF Reconcile
  <2>2. /\ verdict \in Types \ {"reserved"}
        /\ verdict = "committed" => writes[a] = 1
        /\ verdict = "not_applied" /\ Quiet(a, c) => Dead(a)
    BY <2>1, VerdictIsTrue
  <2> HIDE DEF verdict
  <2>3. Dead(a) => Dead(a)'
    BY <1>1 DEF DeadStays
  <2> QED BY <2>1, <2>2, <2>3, RightWhenMade
<1> QED BY <1>2, <1>3, <1>4, <1>5, <1>6

\* A report stays true.
LEMMA ReportsStay ==
  ASSUME MutationInv, OwnObjects, [Next]_vars
  PROVE  ReportVerdicts'
<1>1. CASE report' # report
  BY <1>1, ReportMade DEF MutationInv, vars
<1>2. CASE report' = report
  <2>1. DeadStays
    BY StepKeepsCalls DEF MutationInv
  <2>2. \A a \in Authorizations : writes[a] = 1 => writes'[a] = 1
    BY WritesChange DEF MutationInv
  <2>3. CASE report.classification = "COMMITTED"
    BY <1>2, <2>2, <2>3 DEF MutationInv, ReportVerdicts
  <2>4. CASE report.classification = "NOT_APPLIED_SAFE" /\ report.quiet
    <3>1. PICK a \in Authorizations : a = report.authorization /\ Dead(a)
      BY <2>4 DEF MutationInv, ReportVerdicts
    <3>2. Dead(a)' /\ report'.authorization = a
      BY <1>2, <2>1, <3>1 DEF DeadStays
    <3> QED BY <1>2, <2>4, <3>2 DEF ReportVerdicts
  <2> QED BY <1>2, <2>3, <2>4 DEF ReportVerdicts
<1> QED BY <1>1, <1>2

\* In every reachable state, what is said of the calls, the files and the
\* objects above is true.
THEOREM MutationInvariant ==
  ASSUME OwnObjects PROVE Spec => []MutationInv
<1>1. Init => MutationInv
  <2> SUFFICES ASSUME Init PROVE MutationInv
    OBVIOUS
  <2>1. TypeInv
    BY DEF Init, TypeInv, States
  <2>2. \A c \in Callers : caller[c] = Idle
    BY DEF Init
  <2>3. CallsAreFit /\ LogsFollowFile
    BY <2>2 DEF Init, CallsAreFit, LogsFollowFile, Admitting, Idle
  <2>4. ReservedOnce /\ LastWriterAlone /\ ApplyingIsReserved
    BY <2>2 DEF ReservedOnce, LastWriterAlone, ApplyingIsReserved, Engages, Reserves, Idle
  <2>5. WritesAreKnown
    BY <2>2, StatesAssumption DEF Init, WritesAreKnown, Idle
  <2>6. CallVerdicts /\ VerifyingIsCommitted
    BY <2>2 DEF CallVerdicts, VerifyingIsCommitted, Idle
  <2>7. ReportVerdicts
    BY DEF Init, NoReport, ReportVerdicts
  <2> QED BY <2>1, <2>3, <2>4, <2>5, <2>6, <2>7 DEF MutationInv, CallsInv
<1>2. MutationInv /\ [Next]_vars => MutationInv'
  BY StepKeepsCalls, ReportsStay DEF MutationInv
<1> QED BY <1>1, <1>2, PTL DEF Spec

\* What a report says stays true: a change reported as applied took place, and
\* one reported as not applied, with no other call at work on it, never does.
THEOREM ReportsStayTrue ==
  ASSUME OwnObjects PROVE Spec => []ReportsHold
<1>1. MutationInv => ReportsHold
  BY DEF MutationInv, ReportVerdicts, ReportsHold, Dead
<1> QED BY <1>1, MutationInvariant, PTL

\* The route is only changed for an operation if all that was recorded before
\* its reservation is settled.
THEOREM OnlyClearReservationsWrite ==
  ASSUME OwnObjects PROVE Spec => DoubtBlocks
<1> DEFINE Clears ==
      \A a \in Authorizations :
        writes'[a] # writes[a] =>
          \E n \in EventsOf(file, a) :
            \A b \in Authorizations :
              Latest(SubSeq(file, 1, n - 1), b) \notin {"reserved", "manual"}
<1>1. MutationInv /\ [Next]_vars => [Clears]_vars
  <2> SUFFICES ASSUME MutationInv, [Next]_vars, NEW a \in Authorizations, writes'[a] # writes[a]
               PROVE  Clear(file, a)
    BY DEF Clear
  <2>1. PICK c \in Callers : Engages(c, a)
    BY WritesChange DEF MutationInv
  <2> QED BY <2>1 DEF MutationInv, CallsInv, ReservedOnce
<1> QED BY <1>1, MutationInvariant, PTL DEF Spec, DoubtBlocks

\* A receipt is only verified for an operation whose last word in the file is
\* that it was committed, whatever another process recorded meanwhile.
THEOREM ReceiptsAreCommitted ==
  ASSUME OwnObjects PROVE Spec => VerifiedIsCommitted
<1> DEFINE Committed ==
      report' # report /\ report'.classification = "VERIFIED" =>
        Latest(file, report'.authorization) = "committed"
<1>1. MutationInv /\ [Next]_vars => [Committed]_vars
  BY ReportMade DEF MutationInv, vars
<1> QED BY <1>1, MutationInvariant, PTL DEF Spec, VerifiedIsCommitted

-----------------------------------------------------------------------------
(* Refinement of AuthorizedMutation *)

\* What a line adds to what is said of the operations.
LEMMA SaidGrows ==
  ASSUME TypeInv, NEW line \in Lines, file' = Append(file, line)
  PROVE  /\ \A a \in Authorizations \ {line.operation} : Said(a)' = Said(a)
         /\ Said(line.operation)' = Said(line.operation) \union {line.type}
<1>1. /\ file \in Seq(Lines) /\ Len(file) \in Nat
      /\ \A n \in 1..Len(file) : file'[n] = file[n]
      /\ file'[Len(file) + 1] = line
      /\ \A a : a # line.operation => EventsOf(file', a) = EventsOf(file, a)
      /\ EventsOf(file', line.operation) = EventsOf(file, line.operation) \union {Len(file) + 1}
  <2>1. file \in Seq(Lines)
    BY DEF TypeInv
  <2> QED BY <2>1, AppendedEvents
<1>2. \A a : EventsOf(file, a) \subseteq 1..Len(file)
  BY <1>1 DEF EventsOf
<1>3. \A a \in Authorizations \ {line.operation} : Said(a)' = Said(a)
  BY <1>1, <1>2 DEF Said
<1>4. Said(line.operation)' = Said(line.operation) \union {line.type}
  BY <1>1, <1>2 DEF Said
<1> QED BY <1>3, <1>4

\* The stage of an operation, before a step and after it.
LEMMA StageTells ==
  /\ CallsInv => \A a \in Authorizations :
       Stage[a] = IF writes[a] = 1 THEN "written"
                  ELSE IF EventsOf(file, a) # {} THEN "reserved" ELSE "unused"
  /\ CallsInv' => \A a \in Authorizations :
       Stage'[a] = IF writes'[a] = 1 THEN "written"
                   ELSE IF EventsOf(file', a) # {} THEN "reserved" ELSE "unused"
<1> DEFINE S(n, e) ==
             CASE n > 1 -> "written again"
               [] n = 1 -> "written"
               [] n = 0 /\ e # {} -> "reserved"
               [] OTHER -> "unused"
<1>1. \A e : S(0, e) = IF e # {} THEN "reserved" ELSE "unused"
  OBVIOUS
<1>2. \A e : S(1, e) = "written"
  OBVIOUS
<1>3. \A a \in Authorizations : /\ Stage[a] = S(writes[a], EventsOf(file, a))
                                /\ Stage'[a] = S(writes'[a], EventsOf(file', a))
  BY DEF Stage
<1>4. /\ CallsInv => \A a \in Authorizations : writes[a] = 0 \/ writes[a] = 1
      /\ CallsInv' => \A a \in Authorizations : writes'[a] = 0 \/ writes'[a] = 1
  BY DEF CallsInv, TypeInv, WritesAreKnown
<1> HIDE DEF S
<1> QED BY <1>1, <1>2, <1>3, <1>4

\* Both are functions of the operations, before a step and after it.
LEMMA StageAndClaimsAreFunctions ==
  /\ Stage = [a \in Authorizations |-> Stage[a]]
  /\ Claims = [a \in Authorizations |-> Claims[a]]
  /\ Stage' = [a \in Authorizations |-> Stage'[a]]
  /\ Claims' = [a \in Authorizations |-> Claims'[a]]
<1> DEFINE S(w, f, a) ==
             CASE w[a] > 1 -> "written again"
               [] w[a] = 1 -> "written"
               [] w[a] = 0 /\ EventsOf(f, a) # {} -> "reserved"
               [] OTHER -> "unused"
           C(a) == {IF type = "committed" THEN "applied" ELSE type :
                      type \in Said(a) \ {"reserved"}}
<1>1. /\ Stage = [a \in Authorizations |-> S(writes, file, a)]
      /\ Stage' = [a \in Authorizations |-> S(writes', file', a)]
  BY DEF Stage
<1>2. Claims = [a \in Authorizations |-> C(a)] /\ Claims' = [a \in Authorizations |-> C(a)']
  BY DEF Claims
<1> HIDE DEF S, C
<1> QED BY <1>1, <1>2

\* A line in the file is the reservation, or a verdict on what was reserved, or
\* nothing new.
LEMMA WritePromised ==
  ASSUME CallsInv, CallsInv', OwnObjects, NEW c \in Callers, Write(c)
  PROVE  Promise!Next \/ UNCHANGED <<Stage, Claims>>
<1> USE DEF CallsInv
<1>1. PICK a \in Authorizations, line \in Lines :
        /\ a = caller[c].authorization /\ line = Line(c)
        /\ line.operation = a /\ line.type = caller[c].event
        /\ caller[c].at = "appending" /\ JournalOf(c) \in opened
  BY AtWork DEF CallsAreFit, Write
<1>2. UNCHANGED writes
  BY DEF Write
<1>3. CASE UNCHANGED file
  BY <1>2, <1>3 DEF Stage, Claims, Said
<1>4. CASE Follows(log[JournalOf(c)], line) /\ file' = Append(file, line)
  <2>1. /\ \A b \in Authorizations \ {a} : Said(b)' = Said(b)
        /\ Said(a)' = Said(a) \union {line.type}
    BY <1>1, <1>4, SaidGrows
  <2>2. /\ EventsOf(file', a) # {}
        /\ \A b \in Authorizations \ {a} : EventsOf(file', b) = EventsOf(file, b)
    <3>1. file \in Seq(Lines)
      BY DEF TypeInv
    <3>2. /\ EventsOf(Append(file, line), a) = EventsOf(file, a) \union {Len(file) + 1}
          /\ \A b : b # a => EventsOf(Append(file, line), b) = EventsOf(file, b)
      BY <1>1, <3>1, AppendedEvents
    <3> QED BY <1>4, <3>2
  <2>3. /\ \A b \in Authorizations \ {a} : Stage'[b] = Stage[b] /\ Claims'[b] = Claims[b]
        /\ Stage'[a] = IF writes[a] = 1 THEN "written" ELSE "reserved"
        /\ Claims'[a] = {IF type = "committed" THEN "applied" ELSE type :
                           type \in (Said(a) \union {line.type}) \ {"reserved"}}
    <3>1. \A b \in Authorizations \ {a} : Stage'[b] = Stage[b] /\ Claims'[b] = Claims[b]
      BY <1>2, <2>1, <2>2 DEF Stage, Claims
    <3>2. Stage'[a] = IF writes[a] = 1 THEN "written" ELSE "reserved"
      BY <1>2, <2>2, StageTells
    <3>3. Claims'[a] = {IF type = "committed" THEN "applied" ELSE type :
                          type \in (Said(a) \union {line.type}) \ {"reserved"}}
      BY <2>1 DEF Claims
    <3> QED BY <3>1, <3>2, <3>3
  <2>4. CASE EventsOf(file, a) = {}
    <3>1. line.type = "reserved"
      <4>1. EventsOf(log[JournalOf(c)], a) = {} /\ log[JournalOf(c)] \in Seq(Lines)
        BY <1>1, <2>4 DEF LogsFollowFile, TypeInv
      <4>2. Latest(log[JournalOf(c)], a) = "none"
        BY <4>1, LatestTells
      <4> QED BY <1>1, <1>4, <4>2 DEF Follows
    <3>2. Stage[a] = "unused" /\ Stage'[a] = "reserved"
      <4>1. writes[a] # 1
        BY <2>4 DEF WritesAreKnown
      <4> QED BY <2>3, <2>4, <4>1, StageTells
    <3>3. Claims'[a] = Claims[a]
      BY <2>3, <3>1 DEF Claims
    <3>4. Stage' = [Stage EXCEPT ![a] = "reserved"] /\ Claims' = Claims
      BY <2>3, <3>2, <3>3, StageAndClaimsAreFunctions
    <3> QED BY <3>2, <3>4 DEF Promise!Next, Promise!Reserve
  <2>5. CASE EventsOf(file, a) # {}
    <3>1. Stage'[a] = Stage[a] /\ Stage[a] # "unused"
      BY <2>3, <2>5, StageTells
    <3>2. Stage' = Stage
      BY <2>3, <3>1, StageAndClaimsAreFunctions
    <3>3. CASE line.type = "reserved"
      <4>1. Claims'[a] = Claims[a]
        BY <2>3, <3>3 DEF Claims
      <4>2. Claims' = Claims
        BY <2>3, <4>1, StageAndClaimsAreFunctions
      <4> QED BY <3>2, <4>2
    <3>4. CASE line.type # "reserved"
      <4> DEFINE v == IF line.type = "committed" THEN "applied" ELSE line.type
      <4>1. v \in Promise!Verdicts
        BY <3>4 DEF Lines, Types, Promise!Verdicts
      <4>2. Claims'[a] = Claims[a] \union {v}
        BY <2>3, <3>4 DEF Claims
      <4>3. v = "applied" => Stage[a] = "written"
        <5>1. v = "applied" => line.type = "committed"
          BY DEF Lines, Types
        <5>2. line.type = "committed" => writes[a] = 1
          BY <1>1 DEF WritesAreKnown
        <5> QED BY <5>1, <5>2, StageTells
      <4> HIDE DEF v
      <4>4. Claims' = [Claims EXCEPT ![a] = Claims[a] \union {v}]
        BY <2>3, <4>2, StageAndClaimsAreFunctions
      <4>5. Promise!Claim(a, v)
        BY <3>1, <3>2, <4>3, <4>4 DEF Promise!Claim
      <4> QED BY <4>1, <4>5 DEF Promise!Next
    <3> QED BY <3>3, <3>4
  <2> QED BY <2>4, <2>5
<1> QED BY <1>1, <1>3, <1>4 DEF Write

\* The route is changed once it is reserved.
LEMMA ChangePromised ==
  ASSUME CallsInv, CallsInv', [Next]_vars, writes' # writes
  PROVE  Promise!Next
<1> USE DEF CallsInv
<1>1. PICK a \in Authorizations : writes'[a] # writes[a]
  BY DEF TypeInv
<1>2. PICK c \in Callers : Engages(c, a)
  BY <1>1, WritesChange
<1>3. writes[a] = 0 /\ writes' = [writes EXCEPT ![a] = 1] /\ UNCHANGED file
  BY <1>1, WritesChange
<1>4. EventsOf(file, a) # {}
  BY <1>2 DEF ReservedOnce, Clear
<1>5. Claims' = Claims
  BY <1>3 DEF Claims, Said
<1>6. /\ writes'[a] = 1
      /\ \A b \in Authorizations \ {a} : writes'[b] = writes[b]
  BY <1>3 DEF TypeInv
<1>7. /\ Stage[a] = "reserved" /\ Stage'[a] = "written"
      /\ \A b \in Authorizations \ {a} : Stage'[b] = Stage[b]
  BY <1>3, <1>4, <1>6 DEF Stage
<1>8. Stage' = [Stage EXCEPT ![a] = "written"]
  BY <1>7, StageAndClaimsAreFunctions
<1> QED BY <1>5, <1>7, <1>8 DEF Promise!Next, Promise!Write

\* An authorization is used at most once and only after it is reserved, and
\* the journal only says of a change that it was applied when it was.
THEOREM MutationKeepsPromise ==
  ASSUME OwnObjects PROVE Spec => KeepsPromise
<1>1. Init => Promise!Init
  BY DEF Init, Promise!Init, Stage, Claims, Said, EventsOf
<1>2. MutationInv /\ MutationInv' /\ [Next]_vars => [Promise!Next]_<<Stage, Claims>>
  <2> SUFFICES ASSUME MutationInv, MutationInv', [Next]_vars
               PROVE  [Promise!Next]_<<Stage, Claims>>
    OBVIOUS
  <2>1. ASSUME NEW c \in Callers, Write(c) PROVE Promise!Next \/ UNCHANGED <<Stage, Claims>>
    BY <2>1, WritePromised DEF MutationInv
  <2>2. CASE writes' # writes
    BY <2>2, ChangePromised DEF MutationInv
  <2>3. CASE UNCHANGED <<file, writes>>
    BY <2>3 DEF Stage, Claims, Said
  <2>4. writes' # writes \/ UNCHANGED <<file, writes>> \/ \E c \in Callers : Write(c)
    BY DEF Next, vars, journal, Open, Crash, Drift, Reread, Admit, Reserve, ApplyExact,
           WriteState, Confirm, Record, Verified, Apply, Reconcile, Verify
  <2> QED BY <2>1, <2>2, <2>3, <2>4
<1> QED BY <1>1, <1>2, MutationInvariant, PTL DEF Spec, KeepsPromise, Promise!Spec
=============================================================================
