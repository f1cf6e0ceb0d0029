------------------------ MODULE LocalProductionProofs -------------------------
(***************************************************************************)
(* Proofs about LocalProduction for any number of calls of the apply       *)
(* coordinator, over crashes, drift and restored backups: the promise of   *)
(* AuthorizedMutation is kept for the rehearsal's two operations and for   *)
(* the apply, production is only written on proof, and receipts stay true. *)
(*                                                                         *)
(* The reservation does not keep two calls apart: both may have found the  *)
(* journal empty before either wrote to it.  What does is the temporary    *)
(* file, of which there is one, together with the look at production that  *)
(* is taken while it is held: once a call has renamed it, no other that    *)
(* was under way meets the reference again, for a backup is only restored  *)
(* when no call is.                                                        *)
(***************************************************************************)
EXTENDS LocalProduction, Integers, SequenceTheorems, WellFoundedInduction, TLAPS

-----------------------------------------------------------------------------
(* The inductive invariant *)

RehearsalEvents == {"reserved", "committed", "manual"}
ApplyEvents == {"reserved", "committed", "safe", "manual"}
HistoryLines == [phase : Phases, event : RehearsalEvents]
FileLines == [sequence : Nat, event : ApplyEvents]

RehearsalPoints == {"idle", "rehearse", "recording", "reserved", "changing", "changed",
                    "reconcile", "recheck", "finalize"}
ApplyPoints == {"idle", "recording", "appending", "reserved", "staging", "staged",
                "renaming", "renamed", "failed", "recovering", "answering"}

Rehearsals == [at : RehearsalPoints, does : {"none", "rehearse", "reconcile", "finalize"},
               phase : Phases, seen : Routes \union {"none"},
               event : RehearsalEvents \union {"none"}]
Applies == [at : ApplyPoints, does : {"none", "execute", "recover"},
            event : ApplyEvents \union {"none"}, sequence : Nat, fallback : BOOLEAN,
            quiet : BOOLEAN]

\* What the journal objects hold is of no account unless it is what the files
\* hold; they have no type.
TypeInv ==
  /\ production \in {"reference", "candidate", "other"}
  /\ done \in [Operations -> Nat]
  /\ clone \in Routes
  /\ history \in Seq(HistoryLines)
  /\ rehearsing \in Rehearsals
  /\ backup \in {"none", "whole", "torn"}
  /\ file \in Seq(FileLines)
  /\ staged \in BOOLEAN
  /\ written \in BOOLEAN
  /\ call \in [Appliers -> Applies]
  /\ receipt \in [class : {"none"} \union {Classes[e] : e \in ApplyEvents}, quiet : BOOLEAN]

\* A rehearsal operation was reserved before it was carried out, and carried
\* out before it was committed; the restoration follows the candidate.
RehearsalJournal ==
  /\ \A p \in Phases :
       /\ done[p] <= 1
       /\ done[p] = 1 => "reserved" \in EventsOf(p)
       /\ "committed" \in EventsOf(p) => done[p] = 1
  /\ EventsOf("restore") # {} => "committed" \in EventsOf("candidate")

\* The clone, and the clone a call has seen, is where an operation brought it.
CloneIsKnown ==
  \A p \in Phases : CloneAfter(p) \in {clone, rehearsing.seen} => done[p] = 1

\* What a call of the rehearsal's coordinator that is record r relies on.
RehearsalRelies(r) ==
  /\ r.at \in {"reserved", "changing"} => done[r.phase] = 0 /\ "reserved" \in EventsOf(r.phase)
  /\ r.at \in {"changed", "recheck"} => done[r.phase] = 1
  /\ r.at = "recording" =>
       /\ r.event \in RehearsalEvents
       /\ r.event = "committed" => done[r.phase] = 1

\* The same of the apply; and a backup is not restored over a change nobody
\* has accounted for.
ApplyJournal ==
  /\ done["apply"] <= 1
  /\ done["apply"] = 1 => "reserved" \in Events(file)
  /\ "committed" \in Events(file) => done["apply"] = 1
  /\ Events(file) # {} => "reserved" \in Events(file)
  /\ production = "candidate" => done["apply"] = 1
  /\ done["apply"] = 1 /\ production = "reference" => Events(file) # {"reserved"}

\* A call that is about to reserve the operation, or has a reservation and may
\* still rename.
MayWrite(r) ==
  \/ r.at = "appending" /\ r.event = "reserved"
  \/ r.at \in {"reserved", "staging", "staged", "renaming"}

\* A call on the way from the reservation to the verdict.
Executing(r) ==
  \/ r.at \in {"recording", "appending"} /\ r.event = "reserved"
  \/ r.at \in {"reserved", "staging", "staged", "renaming", "renamed", "failed"}

\* The operation will never be carried out.
Dead ==
  /\ done["apply"] = 0
  /\ "reserved" \in Events(file)
  /\ \A c \in Appliers : ~MayWrite(call[c])

\* A call that found the operation neither carried out nor committed, and was
\* under way ever since, will not take the reference for its own doing.
NotYetSeen(r) ==
  \/ MayWrite(r)
  \/ r.at = "failed"
  \/ r.at = "recovering" /\ r.event = "reserved"

\* What a call that is record r relies on.
CallRelies(r) ==
  /\ r.at \in {"recording", "appending"} => r.event \in ApplyEvents
  /\ r.at = "answering" => r.event \in ApplyEvents \ {"reserved"}
  /\ r.at = "recovering" => r.event \in ApplyEvents /\ "reserved" \in Events(file)
  /\ r.at = "appending" /\ r.event # "reserved" => "reserved" \in Events(file)
  /\ Executing(r) => r.does = "execute"
  /\ r.at \in {"reserved", "staging", "staged", "renaming", "renamed", "failed"} =>
       "reserved" \in Events(file)
  /\ NotYetSeen(r) => done["apply"] = 0 \/ production # "reference"
  /\ r.at = "renaming" => done["apply"] = 0
  /\ r.at = "renamed" => done["apply"] = 1
  /\ r.event = "committed" => done["apply"] = 1
  /\ r.event = "safe" /\ r.quiet => Dead

\* A call that has created the temporary file.
Staging(r) == r.at \in {"staged", "renaming"}

\* There is one temporary file, and it is one call's.
OneTemporaryFile ==
  \A c \in Appliers : Staging(call[c]) =>
    staged /\ \A d \in Appliers : Staging(call[d]) => c = d

ApplyCalls == OneTemporaryFile /\ \A c \in Appliers : CallRelies(call[c])

\* All that has to be there before production is changed, once it was.
Proven ==
  /\ backup = "whole"
  /\ readiness = [class |-> "READY", decision |-> "allow"]
  /\ "committed" \in EventsOf("restore")
  /\ done["candidate"] = 1 /\ done["restore"] = 1

ExecutesOnProof == \A c \in Appliers : call[c].does = "execute" => Proven

ReceiptTells ==
  /\ receipt.class = "APPLIED_VERIFIED" => done["apply"] = 1
  /\ receipt.class = "NOT_APPLIED_SAFE" /\ receipt.quiet => Dead

RehearsalInv == RehearsalJournal /\ CloneIsKnown /\ RehearsalRelies(rehearsing)
ApplyInv == ApplyJournal /\ ApplyCalls /\ ReceiptTells
ProductionInv == TypeInv /\ RehearsalInv /\ ApplyInv /\ ExecutesOnProof

-----------------------------------------------------------------------------
(* Facts about the operators *)

\* A set of naturals has a least element.
LEMMA LeastElement ==
  ASSUME NEW T \in SUBSET Nat, T # {}
  PROVE  \E x \in T : \A y \in T : x <= y
<1> DEFINE R == OpToRel(<, Nat)
<1>1. IsWellFoundedOn(R, Nat)
  BY NatLessThanWellFounded
<1> HIDE DEF R
<1>2. PICK x \in T : \A y \in T : <<y, x>> \notin R
  BY <1>1, WFMin
<1>3. \A y \in T : ~(y < x)
  BY <1>2 DEF R, OpToRel
<1> QED BY <1>3

\* And a bounded one a greatest element.
LEMMA GreatestElement ==
  ASSUME NEW n \in Nat, NEW T \in SUBSET (0..n), T # {}
  PROVE  \E x \in T : \A y \in T : y <= x
<1> DEFINE U == {n - x : x \in T}
<1>1. U \in SUBSET Nat /\ U # {}
  <2>1. \A x \in T : n - x \in Nat
    OBVIOUS
  <2> QED BY <2>1
<1>2. PICK u \in U : \A v \in U : u <= v
  BY <1>1, LeastElement
<1>3. PICK x \in T : u = n - x
  BY <1>2
<1>4. \A y \in T : n - x <= n - y
  BY <1>2, <1>3
<1> QED BY <1>3, <1>4

\* The stage of a phase is an event of it, or there is none.
LEMMA StageTells ==
  ASSUME TypeInv, NEW p \in Phases
  PROVE  /\ Stage(history, p) = "none" <=> EventsOf(p) = {}
         /\ Stage(history, p) # "none" => Stage(history, p) \in EventsOf(p)
         /\ EventsOf(p) \subseteq RehearsalEvents
<1> DEFINE own == LinesOf(history, p)
<1>1. /\ history \in Seq(HistoryLines) /\ Len(history) \in Nat
      /\ DOMAIN history = 1..Len(history)
  BY LenProperties DEF TypeInv
<1>2. own \in SUBSET (0..Len(history)) /\ \A n \in own : history[n] \in HistoryLines
  BY <1>1, ElementOfSeq DEF LinesOf
<1>3. EventsOf(p) = {history[n].event : n \in own} /\ EventsOf(p) \subseteq RehearsalEvents
  BY <1>2 DEF EventsOf, Phases, HistoryLines
<1>4. CASE own = {}
  BY <1>3, <1>4 DEF Stage
<1>5. CASE own # {}
  <2> DEFINE last == CHOOSE n \in own : \A m \in own : m <= n
  <2>1. \E n \in own : \A m \in own : m <= n
    BY <1>1, <1>2, <1>5, GreatestElement
  <2>2. last \in own
    BY <2>1
  <2>3. Stage(history, p) = history[last].event
    BY <1>5 DEF Stage
  <2> HIDE DEF last, own
  <2>4. Stage(history, p) \in EventsOf(p)
    BY <1>3, <2>2, <2>3
  <2> QED BY <1>3, <2>4 DEF RehearsalEvents
<1> QED BY <1>4, <1>5

\* A line more in the journal of the rehearsal.
LEMMA HistoryGrows ==
  ASSUME TypeInv, NEW line \in HistoryLines, history' = Append(history, line), UNCHANGED file
  PROVE  /\ history' \in Seq(HistoryLines)
         /\ EventsOf(line.phase)' = EventsOf(line.phase) \union {line.event}
         /\ \A o \in Operations \ {line.phase} : EventsOf(o)' = EventsOf(o)
         /\ Events(file)' = Events(file)
<1>1. /\ history \in Seq(HistoryLines) /\ Len(history) \in Nat
      /\ DOMAIN history = 1..Len(history)
      /\ history' \in Seq(HistoryLines)
      /\ DOMAIN history' = 1..(Len(history) + 1)
      /\ \A n \in 1..Len(history) : history'[n] = history[n]
      /\ history'[Len(history) + 1] = line
  BY AppendProperties, LenProperties DEF TypeInv
<1>2. Events(file)' = Events(file)
  BY DEF Events
<1>3. line.phase \in Phases
  BY DEF HistoryLines
<1>4. /\ LinesOf(history', line.phase) = LinesOf(history, line.phase) \union {Len(history) + 1}
      /\ \A o \in Phases \ {line.phase} : LinesOf(history', o) = LinesOf(history, o)
      /\ \A o : LinesOf(history, o) \subseteq 1..Len(history)
  BY <1>1 DEF LinesOf
<1>5. EventsOf(line.phase)' = EventsOf(line.phase) \union {line.event}
  BY <1>1, <1>3, <1>4 DEF EventsOf, Phases
<1>6. \A o \in Phases \ {line.phase} : EventsOf(o)' = EventsOf(o)
  BY <1>1, <1>4 DEF EventsOf, Phases
<1>7. EventsOf("apply")' = EventsOf("apply")
  BY <1>2 DEF EventsOf
<1> QED BY <1>1, <1>2, <1>5, <1>6, <1>7 DEF Operations

\* A line more in the journal of the apply.
LEMMA FileGrows ==
  ASSUME TypeInv, NEW line \in FileLines, file' = Append(file, line), UNCHANGED history
  PROVE  /\ file' \in Seq(FileLines)
         /\ Events(file)' = Events(file) \union {line.event}
         /\ EventsOf("apply")' = EventsOf("apply") \union {line.event}
         /\ \A p \in Phases : EventsOf(p)' = EventsOf(p)
<1>1. /\ file \in Seq(FileLines) /\ Len(file) \in Nat
      /\ DOMAIN file = 1..Len(file)
      /\ file' \in Seq(FileLines)
      /\ DOMAIN file' = 1..(Len(file) + 1)
      /\ \A n \in 1..Len(file) : file'[n] = file[n]
      /\ file'[Len(file) + 1] = line
  BY AppendProperties, LenProperties DEF TypeInv
<1>2. Events(file)' = Events(file) \union {line.event}
  BY <1>1 DEF Events
<1>3. \A p \in Phases : EventsOf(p)' = EventsOf(p)
  BY DEF EventsOf, Phases
<1> QED BY <1>1, <1>2, <1>3 DEF EventsOf

\* No line at all.
LEMMA JournalsStay ==
  ASSUME UNCHANGED <<history, file>>
  PROVE  Events(file)' = Events(file) /\ \A o : EventsOf(o)' = EventsOf(o)
BY DEF EventsOf, Events

LEMMA EventsTyped ==
  ASSUME TypeInv
  PROVE  /\ Events(file) \subseteq ApplyEvents
         /\ EventsOf("apply") = Events(file)
         /\ \A o \in Operations : EventsOf(o) \subseteq ApplyEvents
<1>1. \A n \in DOMAIN file : file[n] \in FileLines
  BY ElementOfSeq, LenProperties DEF TypeInv
<1>2. Events(file) \subseteq ApplyEvents
  BY <1>1 DEF Events, FileLines
<1>3. \A p \in Phases : EventsOf(p) \subseteq ApplyEvents
  BY StageTells DEF RehearsalEvents, ApplyEvents
<1>4. EventsOf("apply") = Events(file)
  BY DEF EventsOf
<1> QED BY <1>2, <1>3, <1>4 DEF Operations

-----------------------------------------------------------------------------
(* Steps of the rehearsal *)

RehearsalTypes == clone \in Routes /\ history \in Seq(HistoryLines) /\ rehearsing \in Rehearsals

LEMMA RehearsalStays ==
  ASSUME TypeInv, RehearsalInv, UNCHANGED <<clone, history, file>>, rehearsing' \in {rehearsing, Resting},
         \A p \in Phases : done'[p] = done[p]
  PROVE  RehearsalInv'
<1>1. \A p : EventsOf(p)' = EventsOf(p)
  BY JournalsStay
<1>2. RehearsalJournal'
  BY <1>1 DEF RehearsalInv, RehearsalJournal
<1>3. \A p \in Phases : CloneAfter(p)' = CloneAfter(p) /\ CloneAfter(p) # "none"
  BY DEF CloneAfter
<1>4. CloneIsKnown'
  BY <1>3 DEF RehearsalInv, CloneIsKnown, Resting
<1>5. CASE rehearsing' = Resting
  BY <1>2, <1>4, <1>5 DEF RehearsalInv, RehearsalRelies, Resting
<1>6. CASE rehearsing' = rehearsing
  <2>1. rehearsing.phase \in Phases
    BY DEF TypeInv, Rehearsals
  <2>2. RehearsalRelies(rehearsing)'
    BY <1>1, <1>6, <2>1 DEF RehearsalInv, RehearsalRelies
  <2> QED BY <1>2, <1>4, <2>2 DEF RehearsalInv
<1> QED BY <1>5, <1>6

\* The call of the coordinator goes on, and that is all.
LEMMA RehearsalBecomes ==
  ASSUME TypeInv, RehearsalInv, UNCHANGED <<production, clone, history, file, done>>,
         NEW r \in Rehearsals, rehearsing' = r,
         r.seen \in {rehearsing.seen, clone, "none"}, RehearsalRelies(r)
  PROVE  RehearsalInv' /\ RehearsalTypes'
<1>1. \A p : EventsOf(p)' = EventsOf(p)
  BY JournalsStay
<1>2. RehearsalJournal'
  BY <1>1 DEF RehearsalInv, RehearsalJournal
<1>3. \A p \in Phases : CloneAfter(p)' = CloneAfter(p) /\ CloneAfter(p) # "none"
  BY DEF CloneAfter
<1>4. CloneIsKnown'
  BY <1>3 DEF RehearsalInv, CloneIsKnown
<1>5. RehearsalRelies(r)'
  BY <1>1 DEF RehearsalRelies
<1>6. RehearsalRelies(rehearsing)'
  BY <1>5 DEF RehearsalRelies
<1> QED BY <1>2, <1>4, <1>6 DEF RehearsalInv, RehearsalTypes, TypeInv

LEMMA CallRests ==
  ASSUME TypeInv, RehearsalInv, UNCHANGED <<production, clone, history, file, done>>,
         rehearsing' = Resting
  PROVE  RehearsalInv' /\ RehearsalTypes'
<1>1. Resting \in Rehearsals /\ Resting.seen = "none" /\ RehearsalRelies(Resting)
  BY DEF Resting, Rehearsals, RehearsalPoints, Phases, RehearsalRelies
<1> QED BY <1>1, RehearsalBecomes

LEMMA CallWillRecord ==
  ASSUME TypeInv, RehearsalInv, UNCHANGED <<production, clone, history, file, done>>,
         NEW event \in RehearsalEvents, WillRecord(event),
         event = "committed" => done[rehearsing.phase] = 1
  PROVE  RehearsalInv' /\ RehearsalTypes'
<1> DEFINE r == [rehearsing EXCEPT !.at = "recording", !.event = event]
<1>1. r \in Rehearsals
  BY DEF TypeInv, Rehearsals, RehearsalPoints
<1>2. /\ rehearsing' = r /\ r.seen = rehearsing.seen /\ r.at = "recording"
      /\ r.event = event /\ r.phase = rehearsing.phase
  BY DEF TypeInv, Rehearsals, WillRecord
<1> HIDE DEF r
<1>3. RehearsalRelies(r)
  BY <1>2 DEF RehearsalRelies
<1> QED BY <1>1, <1>2, <1>3, RehearsalBecomes

LEMMA CallGoesTo ==
  ASSUME TypeInv, RehearsalInv, UNCHANGED <<production, clone, history, file, done>>,
         NEW at \in RehearsalPoints \ {"recording"}, rehearsing' = [rehearsing EXCEPT !.at = at],
         at \in {"reserved", "changing"} =>
           done[rehearsing.phase] = 0 /\ "reserved" \in EventsOf(rehearsing.phase),
         at \in {"changed", "recheck"} => done[rehearsing.phase] = 1
  PROVE  RehearsalInv' /\ RehearsalTypes'
<1> DEFINE r == [rehearsing EXCEPT !.at = at]
<1>1. r \in Rehearsals
  BY DEF TypeInv, Rehearsals
<1>2. /\ rehearsing' = r /\ r.seen = rehearsing.seen /\ r.at = at
      /\ r.phase = rehearsing.phase
  BY DEF TypeInv, Rehearsals
<1> HIDE DEF r
<1>3. RehearsalRelies(r)
  BY <1>2 DEF RehearsalRelies
<1> QED BY <1>1, <1>2, <1>3, RehearsalBecomes

LEMMA ReadsKeeps ==
  ASSUME TypeInv, RehearsalInv, UNCHANGED file, NEW p \in Phases,
         NEW does \in {"rehearse", "reconcile", "finalize"}, Reads(does, p)
  PROVE  RehearsalInv' /\ RehearsalTypes'
<1> DEFINE r == [Resting EXCEPT !.at = does, !.does = does, !.phase = p, !.seen = clone]
<1>1. r \in Rehearsals
  BY DEF TypeInv, Rehearsals, RehearsalPoints, Resting
<1>2. rehearsing' = r /\ r.seen = clone /\ r.at = does
  BY DEF Reads, Resting
<1>3. UNCHANGED <<production, clone, history, done>>
  BY DEF Reads
<1> HIDE DEF r
<1>4. RehearsalRelies(r)
  BY <1>2 DEF RehearsalRelies
<1> QED BY <1>1, <1>2, <1>3, <1>4, RehearsalBecomes

\* A line that continues the journal does not contradict it.
LEMMA LineKeeps ==
  ASSUME TypeInv, RehearsalInv, UNCHANGED <<production, clone, file, done>>,
         NEW line \in HistoryLines, history' = Append(history, line),
         line.event = "committed" => done[line.phase] = 1,
         line.phase = "restore" => "committed" \in EventsOf("candidate"),
         NEW r \in Rehearsals, rehearsing' = r, r.seen \in {rehearsing.seen, "none"},
         r.at = "reserved" => done[r.phase] = 0 /\ r.phase = line.phase /\ line.event = "reserved",
         r.at \in {"idle", "reserved"}
  PROVE  RehearsalInv' /\ RehearsalTypes'
<1>1. /\ history' \in Seq(HistoryLines)
      /\ EventsOf(line.phase)' = EventsOf(line.phase) \union {line.event}
      /\ \A o \in Operations \ {line.phase} : EventsOf(o)' = EventsOf(o)
  BY HistoryGrows
<1>2. \A p \in Phases : EventsOf(p)' = IF p = line.phase THEN EventsOf(p) \union {line.event}
                                       ELSE EventsOf(p)
  BY <1>1 DEF Operations
<1>3. "restore" \in Phases /\ "candidate" \in Phases /\ line.phase \in Phases
  BY DEF Phases, HistoryLines
<1>4. RehearsalJournal'
  <2>1. ASSUME NEW p \in Phases
        PROVE  /\ done'[p] <= 1
               /\ done'[p] = 1 => "reserved" \in EventsOf(p)'
               /\ "committed" \in EventsOf(p)' => done'[p] = 1
    BY <1>2 DEF RehearsalInv, RehearsalJournal
  <2>2. EventsOf("restore")' # {} => "committed" \in EventsOf("candidate")'
    BY <1>2, <1>3 DEF RehearsalInv, RehearsalJournal
  <2> QED BY <2>1, <2>2 DEF RehearsalJournal
<1>5. CloneIsKnown'
  <2>1. \A p \in Phases : CloneAfter(p)' = CloneAfter(p) /\ CloneAfter(p) # "none"
    BY DEF CloneAfter
  <2> QED BY <2>1 DEF RehearsalInv, CloneIsKnown
<1>6. RehearsalRelies(rehearsing)'
  BY <1>2, <1>3 DEF RehearsalRelies
<1> QED BY <1>1, <1>4, <1>5, <1>6 DEF RehearsalInv, RehearsalTypes, TypeInv

\* The events a stage stands for.
LEMMA StageIsSaid ==
  ASSUME TypeInv, NEW p \in Phases
  PROVE  /\ Stage(history, p) = "none" => EventsOf(p) = {}
         /\ Stage(history, p) = "reserved" => "reserved" \in EventsOf(p)
         /\ Stage(history, p) = "committed" => "committed" \in EventsOf(p)
BY StageTells

\* append(): an event the journal admits, at the end of the journal.
LEMMA RecordKeeps ==
  ASSUME TypeInv, RehearsalInv, UNCHANGED file, Record
  PROVE  RehearsalInv' /\ RehearsalTypes'
<1> DEFINE line == Line(rehearsing.phase, rehearsing.event)
<1>1. /\ rehearsing \in Rehearsals /\ rehearsing.phase \in Phases
      /\ rehearsing.at = "recording" /\ rehearsing.event \in RehearsalEvents
      /\ rehearsing.event = "committed" => done[rehearsing.phase] = 1
  BY DEF TypeInv, Rehearsals, Record, RehearsalInv, RehearsalRelies
<1>2. /\ line \in HistoryLines /\ line.phase = rehearsing.phase
      /\ line.event = rehearsing.event
  BY <1>1 DEF Line, HistoryLines
<1>3. UNCHANGED <<production, clone, done>>
  BY DEF Record
<1>4. ASSUME Fresh, Continues(entries, line)
      PROVE  /\ line.phase = "restore" => "committed" \in EventsOf("candidate")
             /\ line.event = "reserved" => EventsOf(line.phase) = {}
  <2>1. /\ line.phase = "restore" => Stage(history, "candidate") = "committed"
        /\ line.event = "reserved" => Stage(history, line.phase) = "none"
    BY <1>4 DEF Fresh, Continues
  <2>2. "candidate" \in Phases /\ line.phase \in Phases
    BY <1>1, <1>2 DEF Phases
  <2> HIDE DEF line
  <2> QED BY <2>1, <2>2, StageIsSaid
<1>5. Resting \in Rehearsals /\ Resting.at = "idle" /\ Resting.seen = "none"
  BY DEF Resting, Rehearsals, RehearsalPoints, Phases
<1>6. CASE /\ Fresh /\ Continues(entries, line)
           /\ history' = Append(history, line)
           /\ IF rehearsing.event = "reserved"
              THEN rehearsing' = [rehearsing EXCEPT !.at = "reserved"] ELSE Rests
  <2> DEFINE r == [rehearsing EXCEPT !.at = "reserved"]
  <2>1. CASE rehearsing.event = "reserved"
    <3>1. /\ r \in Rehearsals /\ r.at = "reserved" /\ r.phase = rehearsing.phase
          /\ r.seen = rehearsing.seen /\ rehearsing' = r
      BY <1>1, <1>6, <2>1 DEF Rehearsals, RehearsalPoints
    <3>2. done[line.phase] = 0
      <4>1. done[line.phase] <= 1 /\ done[line.phase] # 1 /\ done[line.phase] \in Nat
        BY <1>1, <1>2, <1>4, <1>6, <2>1 DEF RehearsalInv, RehearsalJournal, TypeInv, Operations
      <4> QED BY <4>1
    <3> HIDE DEF line, r
    <3> QED BY <1>1, <1>2, <1>3, <1>4, <1>6, <2>1, <3>1, <3>2, LineKeeps
  <2>2. CASE rehearsing.event # "reserved"
    <3>1. rehearsing' = Resting
      BY <1>6, <2>2 DEF Rests
    <3> HIDE DEF line
    <3> QED BY <1>1, <1>2, <1>3, <1>4, <1>5, <1>6, <3>1, LineKeeps
  <2> QED BY <2>1, <2>2
<1>7. CASE Fresh /\ Continues(entries, line) /\ history' = Append(history, line) /\ Rests
  <2>1. rehearsing' = Resting
    BY <1>7 DEF Rests
  <2> HIDE DEF line
  <2> QED BY <1>1, <1>2, <1>3, <1>4, <1>5, <1>7, <2>1, LineKeeps
<1>8. CASE Rests /\ UNCHANGED <<history, entries>>
  BY <1>3, <1>8, CallRests DEF Rests
<1> QED BY <1>6, <1>7, <1>8 DEF Record

\* open(): the journal is read, or manual work is put down for its last phase.
LEMMA OpenHistoryKeeps ==
  ASSUME TypeInv, RehearsalInv, UNCHANGED file, OpenHistory
  PROVE  RehearsalInv' /\ RehearsalTypes'
<1>1. UNCHANGED <<production, clone, rehearsing, done>> /\ rehearsing.at = "idle"
  BY DEF OpenHistory
<1>2. CASE UNCHANGED history
  BY <1>1, <1>2, RehearsalBecomes DEF TypeInv, RehearsalInv
<1>3. CASE /\ history # <<>>
           /\ history' = Append(history, Line(history[Len(history)].phase, "manual"))
  <2>1. /\ history \in Seq(HistoryLines) /\ Len(history) \in DOMAIN history
        /\ history[Len(history)] \in HistoryLines
    BY <1>3, ElementOfSeq, LenProperties, EmptySeq DEF TypeInv
  <2> DEFINE last == history[Len(history)]
             line == Line(last.phase, "manual")
  <2>2. /\ line \in HistoryLines /\ line.event = "manual" /\ line.phase = last.phase
    BY <2>1 DEF Line, HistoryLines, RehearsalEvents
  <2>3. last.phase \in Phases /\ last.event \in EventsOf(last.phase)
    BY <2>1 DEF HistoryLines, EventsOf, LinesOf, Phases
  <2>4. line.phase = "restore" => "committed" \in EventsOf("candidate")
    BY <2>2, <2>3 DEF RehearsalInv, RehearsalJournal
  <2>5. rehearsing \in Rehearsals
    BY DEF TypeInv
  <2>6. history' = Append(history, line)
    BY <1>3
  <2> HIDE DEF line, last
  <2> QED BY <1>1, <2>2, <2>4, <2>5, <2>6, LineKeeps
<1> QED BY <1>2, <1>3 DEF OpenHistory

\* writeCandidate or restore.
LEMMA ChangeCloneKeeps ==
  ASSUME TypeInv, RehearsalInv, UNCHANGED file, ChangeClone
  PROVE  /\ RehearsalInv' /\ RehearsalTypes' /\ UNCHANGED <<production, history>>
         /\ done' \in [Operations -> Nat] /\ done'["apply"] = done["apply"]
         /\ \/ UNCHANGED done
            \/ /\ done[rehearsing.phase] = 0 /\ "reserved" \in EventsOf(rehearsing.phase)
               /\ done' = [done EXCEPT ![rehearsing.phase] = 1]
<1> DEFINE p == rehearsing.phase
<1>1. /\ rehearsing \in Rehearsals /\ p \in Phases /\ p \in Operations
      /\ done[p] = 0 /\ "reserved" \in EventsOf(p)
      /\ UNCHANGED <<production, history>>
  BY DEF TypeInv, Rehearsals, ChangeClone, RehearsalInv, RehearsalRelies, Operations
<1>2. \A o : EventsOf(o)' = EventsOf(o)
  BY <1>1, JournalsStay
<1>3. \A q \in Phases : CloneAfter(q)' = CloneAfter(q) /\ CloneAfter(q) \in Routes \ {"torn"}
  BY DEF CloneAfter, Routes
<1>4. CASE /\ clone' = CloneAfter(p)
           /\ done' = [done EXCEPT ![p] = @ + 1]
           /\ rehearsing' = [rehearsing EXCEPT !.at = "changed"]
  <2>1. done' = [done EXCEPT ![p] = 1] /\ done'[p] = 1
        /\ \A q \in Operations \ {p} : done'[q] = done[q]
    BY <1>1, <1>4 DEF TypeInv
  <2>2. done' \in [Operations -> Nat] /\ done'["apply"] = done["apply"]
    BY <1>1, <2>1 DEF TypeInv, Operations, Phases
  <2>3. RehearsalJournal'
    <3>1. ASSUME NEW q \in Phases
          PROVE  /\ done'[q] <= 1
                 /\ done'[q] = 1 => "reserved" \in EventsOf(q)'
                 /\ "committed" \in EventsOf(q)' => done'[q] = 1
      BY <1>1, <1>2, <2>1 DEF RehearsalInv, RehearsalJournal, Operations
    <3> QED BY <1>2, <3>1 DEF RehearsalInv, RehearsalJournal
  <2>4. /\ rehearsing' \in Rehearsals /\ rehearsing'.phase = p
        /\ rehearsing'.seen = rehearsing.seen /\ rehearsing'.at = "changed"
    BY <1>1, <1>4 DEF Rehearsals, RehearsalPoints
  <2>5. CloneIsKnown'
    <3>1. ASSUME NEW q \in Phases, CloneAfter(q) \in {clone', rehearsing'.seen}
          PROVE  done'[q] = 1
      <4>1. CASE q = p
        BY <2>1, <4>1
      <4>2. CASE q # p
        <5>1. CloneAfter(q) # CloneAfter(p)
          BY <1>1, <4>2 DEF CloneAfter, Phases
        <5>2. CloneAfter(q) = rehearsing.seen
          BY <1>4, <2>4, <3>1, <5>1
        <5> QED BY <2>1, <4>2, <5>2 DEF RehearsalInv, CloneIsKnown, Operations
      <4> QED BY <4>1, <4>2
    <3> QED BY <1>3, <3>1 DEF CloneIsKnown
  <2>6. RehearsalRelies(rehearsing)'
    BY <2>1, <2>4 DEF RehearsalRelies
  <2>7. clone' \in Routes
    BY <1>1, <1>3, <1>4
  <2> QED BY <1>1, <2>1, <2>2, <2>3, <2>4, <2>5, <2>6, <2>7 DEF RehearsalInv, RehearsalTypes, TypeInv
<1>5. CASE /\ clone' \in {clone, "torn"}
           /\ Rests /\ UNCHANGED done
  <2>1. /\ rehearsing' = Resting /\ Resting \in Rehearsals
        /\ Resting.at = "idle" /\ Resting.seen = "none"
    BY <1>5 DEF Rests, Resting, Rehearsals, RehearsalPoints, Phases
  <2>2. RehearsalJournal'
    BY <1>2, <1>5 DEF RehearsalInv, RehearsalJournal
  <2>3. CloneIsKnown'
    <3>1. ASSUME NEW q \in Phases, CloneAfter(q) \in {clone', rehearsing'.seen}
          PROVE  done'[q] = 1
      <4>1. CloneAfter(q) # "none" /\ CloneAfter(q) # "torn"
        BY DEF CloneAfter
      <4>2. CloneAfter(q) = clone
        BY <1>5, <2>1, <3>1, <4>1
      <4> QED BY <1>5, <4>2 DEF RehearsalInv, CloneIsKnown
    <3> QED BY <1>3, <3>1 DEF CloneIsKnown
  <2>4. RehearsalRelies(rehearsing)'
    BY <2>1 DEF RehearsalRelies
  <2>5. clone' \in Routes
    BY <1>5 DEF TypeInv, Routes
  <2>6. done' \in [Operations -> Nat] /\ done'["apply"] = done["apply"]
    BY <1>5 DEF TypeInv
  <2> QED BY <1>1, <1>5, <2>1, <2>2, <2>3, <2>4, <2>5, <2>6
          DEF RehearsalInv, RehearsalTypes, TypeInv
<1> QED BY <1>4, <1>5 DEF ChangeClone

\* assertProductionStable and the steps that read production.
LEMMA ReadingKeeps ==
  ASSUME TypeInv, RehearsalInv, UNCHANGED file,
         CheckProduction \/ Judge \/ Recheck \/ Finalized
  PROVE  RehearsalInv' /\ RehearsalTypes'
<1>1. /\ rehearsing \in Rehearsals /\ rehearsing.phase \in Phases
      /\ UNCHANGED <<production, clone, history, done>>
  BY DEF TypeInv, Rehearsals, CheckProduction, Judge, Recheck, Finalized
<1>2. {"reserved", "committed", "manual"} = RehearsalEvents
  BY DEF RehearsalEvents
<1>3. /\ rehearsing.at \in {"reserved", "changing"} =>
           done[rehearsing.phase] = 0 /\ "reserved" \in EventsOf(rehearsing.phase)
      /\ rehearsing.at \in {"changed", "recheck"} => done[rehearsing.phase] = 1
      /\ rehearsing.seen = CloneAfter(rehearsing.phase) => done[rehearsing.phase] = 1
  BY <1>1 DEF RehearsalInv, RehearsalRelies, CloneIsKnown
<1>4. CASE CheckProduction
  <2>1. CASE rehearsing.at = "rehearse"
    <3>1. WillRecord("reserved") \/ WillRecord("manual")
      BY <1>4, <2>1 DEF CheckProduction
    <3> QED BY <1>1, <1>2, <3>1, CallWillRecord
  <2>2. CASE rehearsing.at = "reserved"
    <3>1. WillRecord("manual") \/ rehearsing' = [rehearsing EXCEPT !.at = "changing"]
      BY <1>4, <2>2 DEF CheckProduction
    <3>2. "changing" \in RehearsalPoints \ {"recording"}
      BY DEF RehearsalPoints
    <3> QED BY <1>1, <1>2, <1>3, <2>2, <3>1, <3>2, CallWillRecord, CallGoesTo
  <2>3. CASE rehearsing.at = "changed"
    <3>1. WillRecord("committed") \/ WillRecord("manual")
      BY <1>4, <2>3 DEF CheckProduction
    <3> QED BY <1>1, <1>2, <1>3, <2>3, <3>1, CallWillRecord
  <2> QED BY <1>4, <2>1, <2>2, <2>3 DEF CheckProduction
<1>5. CASE Judge
  <2>1. \/ WillRecord("manual")
        \/ /\ rehearsing.seen = CloneAfter(rehearsing.phase)
           /\ rehearsing' = [rehearsing EXCEPT !.at = "recheck"]
        \/ rehearsing' = Resting
    BY <1>5 DEF Judge, Rests
  <2>2. "recheck" \in RehearsalPoints \ {"recording"}
    BY DEF RehearsalPoints
  <2> QED BY <1>1, <1>2, <1>3, <2>1, <2>2, CallWillRecord, CallGoesTo, CallRests
<1>6. CASE Recheck
  <2>1. /\ rehearsing.at = "recheck"
        /\ WillRecord("committed") \/ rehearsing' = Resting
    BY <1>6 DEF Recheck, Rests
  <2> QED BY <1>1, <1>2, <1>3, <2>1, CallWillRecord, CallRests
<1>7. CASE Finalized
  <2>1. WillRecord("manual") \/ rehearsing' = Resting
    BY <1>7 DEF Finalized, Rests
  <2> QED BY <1>1, <1>2, <2>1, CallWillRecord, CallRests
<1> QED BY <1>4, <1>5, <1>6, <1>7

\* A step of the rehearsal does not touch production, and changes the clone
\* for an operation at most once, after its reservation.
LEMMA RehearsalKeeps ==
  ASSUME TypeInv, RehearsalInv, UNCHANGED <<readinessVars, applyVars>>, RehearsalNext
  PROVE  /\ RehearsalInv' /\ RehearsalTypes' /\ UNCHANGED production
         /\ done' \in [Operations -> Nat] /\ done'["apply"] = done["apply"]
         /\ \/ UNCHANGED done
            \/ /\ UNCHANGED history
               /\ \E p \in Phases : /\ done[p] = 0 /\ "reserved" \in EventsOf(p)
                                    /\ done' = [done EXCEPT ![p] = 1]
<1>1. UNCHANGED file
  BY DEF applyVars
<1>2. CASE ChangeClone
  <2>1. rehearsing.phase \in Phases
    BY DEF TypeInv, Rehearsals
  <2> QED BY <1>1, <1>2, <2>1, ChangeCloneKeeps
<1>3. CASE OpenHistory
  <2>1. UNCHANGED <<production, done>>
    BY <1>3 DEF OpenHistory
  <2> QED BY <1>1, <1>3, <2>1, OpenHistoryKeeps DEF TypeInv
<1>4. CASE Record
  <2>1. UNCHANGED <<production, done>>
    BY <1>4 DEF Record
  <2> QED BY <1>1, <1>4, <2>1, RecordKeeps DEF TypeInv
<1>5. CASE CheckProduction \/ Judge \/ Recheck \/ Finalized
  <2>1. UNCHANGED <<production, done>>
    BY <1>5 DEF CheckProduction, Judge, Recheck, Finalized
  <2> QED BY <1>1, <1>5, <2>1, ReadingKeeps DEF TypeInv
<1>6. ASSUME NEW p \in Phases, NEW does \in {"rehearse", "reconcile", "finalize"}, Reads(does, p)
      PROVE  /\ RehearsalInv' /\ RehearsalTypes' /\ UNCHANGED production
             /\ done' \in [Operations -> Nat] /\ UNCHANGED done
  <2>1. UNCHANGED <<production, done>>
    BY <1>6 DEF Reads
  <2> QED BY <1>1, <1>6, <2>1, ReadsKeeps DEF TypeInv
<1>7. CASE Finalize \/ \E p \in Phases : Rehearse(p) \/ Reconcile(p)
  <2>1. \E p \in Phases, does \in {"rehearse", "reconcile", "finalize"} : Reads(does, p)
    BY <1>7 DEF Finalize, Rehearse, Reconcile, Phases
  <2> QED BY <1>6, <2>1
<1> QED BY <1>2, <1>3, <1>4, <1>5, <1>7 DEF RehearsalNext

-----------------------------------------------------------------------------
(* Steps of the apply *)

ApplyTypes ==
  /\ production \in {"reference", "candidate", "other"}
  /\ backup \in {"none", "whole", "torn"}
  /\ file \in Seq(FileLines)
  /\ staged \in BOOLEAN
  /\ written \in BOOLEAN
  /\ call \in [Appliers -> Applies]
  /\ receipt \in [class : {"none"} \union {Classes[e] : e \in ApplyEvents}, quiet : BOOLEAN]

\* The calls and their journal stay, while production stays or drifts.
LEMMA ApplyStays ==
  ASSUME TypeInv, ApplyInv, UNCHANGED <<file, staged, call, receipt>>,
         done'["apply"] = done["apply"], production' \in {production, "other"}
  PROVE  ApplyInv'
<1>1. Events(file)' = Events(file)
  BY DEF Events
<1>2. Dead' <=> Dead
  BY <1>1 DEF Dead, MayWrite
<1>3. ApplyJournal'
  BY <1>1 DEF ApplyInv, ApplyJournal
<1>4. ASSUME NEW c \in Appliers PROVE CallRelies(call[c])'
  <2>1. CallRelies(call[c])
    BY DEF ApplyInv, ApplyCalls
  <2>2. NotYetSeen(call[c])' <=> NotYetSeen(call[c])
    BY DEF NotYetSeen, MayWrite
  <2>3. Executing(call[c])' <=> Executing(call[c])
    BY DEF Executing
  <2> QED BY <1>1, <1>2, <2>1, <2>2, <2>3 DEF CallRelies
<1>5. OneTemporaryFile'
  BY DEF ApplyInv, ApplyCalls, OneTemporaryFile, Staging
<1>6. ReceiptTells'
  BY <1>2 DEF ApplyInv, ReceiptTells
<1> QED BY <1>3, <1>4, <1>5, <1>6 DEF ApplyInv, ApplyCalls

\* What a call may become while production and the journals stay: no call
\* begins to write once there is a reservation, or stages while another does.
MayBecome(c, r) ==
  /\ r \in Applies
  /\ CallRelies(r)
  /\ MayWrite(r) => MayWrite(call[c]) \/ Events(file) = {}
  /\ Staging(r) => staged' /\ (Staging(call[c]) \/ ~staged)
  /\ \/ staged' = staged
     \/ staged' = TRUE
     \/ staged' = FALSE /\ Staging(call[c]) /\ ~Staging(r)
  /\ r.does = "execute" => call[c].does = "execute" \/ Proven

LEMMA CallBecomes ==
  ASSUME TypeInv, ApplyInv, ExecutesOnProof, NEW c \in Appliers, NEW r, MayBecome(c, r),
         call' = [call EXCEPT ![c] = r], staged' \in BOOLEAN,
         UNCHANGED <<readiness, production, done, backup, history, file>>
  PROVE  /\ call' \in [Appliers -> Applies]
         /\ ApplyJournal' /\ ApplyCalls' /\ ExecutesOnProof' /\ (Dead => Dead')
<1>1. /\ call' \in [Appliers -> Applies] /\ call'[c] = r
      /\ \A d \in Appliers \ {c} : call'[d] = call[d]
  BY DEF TypeInv, MayBecome
<1>2. Events(file)' = Events(file) /\ \A o : EventsOf(o)' = EventsOf(o)
  BY JournalsStay
<1>3. ApplyJournal'
  BY <1>2 DEF ApplyInv, ApplyJournal
<1>4. Dead => Dead'
  <2> SUFFICES ASSUME Dead PROVE Dead'
    OBVIOUS
  <2>1. ~MayWrite(r)
    BY DEF Dead, MayBecome
  <2>2. \A d \in Appliers : ~MayWrite(call'[d])
    BY <1>1, <2>1 DEF Dead
  <2>3. \A d \in Appliers : ~MayWrite(call[d])'
    BY <2>2 DEF MayWrite
  <2> QED BY <1>2, <2>3 DEF Dead
<1>5. ASSUME NEW x \in Applies, CallRelies(x) PROVE CallRelies(x)'
  <2>1. (NotYetSeen(x)' <=> NotYetSeen(x)) /\ (Executing(x)' <=> Executing(x))
    BY DEF NotYetSeen, MayWrite, Executing
  <2> QED BY <1>2, <1>4, <1>5, <2>1 DEF CallRelies
<1>6. ASSUME NEW d \in Appliers PROVE CallRelies(call[d])'
  <2>1. PICK x \in Applies : x = call'[d]
    BY <1>1
  <2>2. CallRelies(x)
    BY <1>1, <2>1 DEF MayBecome, ApplyInv, ApplyCalls
  <2>3. CallRelies(x)'
    BY <1>5, <2>2
  <2>4. CallRelies(x)' => CallRelies(call[d])'
    BY <2>1 DEF CallRelies, NotYetSeen, MayWrite, Executing
  <2> QED BY <2>3, <2>4
<1>7. OneTemporaryFile'
  <2>1. ASSUME NEW d \in Appliers, Staging(call'[d])
        PROVE  staged' /\ \A e \in Appliers : Staging(call'[e]) => d = e
    <3>1. CASE Staging(call[c])
      BY <1>1, <2>1, <3>1 DEF ApplyInv, ApplyCalls, OneTemporaryFile, MayBecome
    <3>2. CASE ~Staging(call[c])
      BY <1>1, <2>1, <3>2 DEF ApplyInv, ApplyCalls, OneTemporaryFile, MayBecome
    <3> QED BY <3>1, <3>2
  <2> QED BY <2>1 DEF OneTemporaryFile, Staging
<1>8. ExecutesOnProof'
  <2>1. Proven' <=> Proven
    BY <1>2 DEF Proven
  <2> QED BY <1>1, <2>1 DEF ExecutesOnProof, MayBecome
<1> QED BY <1>1, <1>3, <1>4, <1>6, <1>7, <1>8 DEF ApplyCalls

\* A call that stops, or records, or goes on.
LEMMA CallStops ==
  ASSUME TypeInv, NEW c \in Appliers, Stops(c)
  PROVE  \E r \in Applies : /\ call' = [call EXCEPT ![c] = r]
                            /\ r.at = "idle" /\ r.does = "none" /\ r.event = "none"
<1>1. Unused \in Applies /\ Unused.at = "idle" /\ Unused.does = "none" /\ Unused.event = "none"
  BY DEF Unused, Applies, ApplyPoints
<1> QED BY <1>1 DEF Stops

LEMMA CallGoes ==
  ASSUME TypeInv, NEW c \in Appliers, NEW at \in ApplyPoints, Goes(c, at)
  PROVE  \E r \in Applies : /\ call' = [call EXCEPT ![c] = r] /\ r.at = at
                            /\ r.does = call[c].does /\ r.event = call[c].event
                            /\ r.quiet <=> call[c].quiet
<1> DEFINE r == [call[c] EXCEPT !.at = at]
<1>1. call[c] \in Applies /\ call' = [call EXCEPT ![c] = r]
  BY DEF TypeInv, Goes
<1>2. /\ r \in Applies /\ r.at = at
      /\ r.does = call[c].does /\ r.event = call[c].event
      /\ r.quiet = call[c].quiet
  BY <1>1 DEF Applies
<1> HIDE DEF r
<1> QED BY <1>1, <1>2

LEMMA CallGoesRecording ==
  ASSUME TypeInv, NEW c \in Appliers, NEW event \in ApplyEvents, GoesRecording(c, event)
  PROVE  \E r \in Applies : /\ call' = [call EXCEPT ![c] = r] /\ r.at = "recording"
                            /\ r.does = call[c].does /\ r.event = event
                            /\ r.quiet <=> call[c].quiet
<1> DEFINE r == [call[c] EXCEPT !.at = "recording", !.event = event]
<1>1. call[c] \in Applies /\ call' = [call EXCEPT ![c] = r]
  BY DEF TypeInv, GoesRecording
<1>2. /\ r \in Applies /\ r.at = "recording"
      /\ r.does = call[c].does /\ r.event = event
      /\ r.quiet = call[c].quiet
  BY <1>1 DEF Applies, ApplyPoints
<1> HIDE DEF r
<1> QED BY <1>1, <1>2

LEMMA CallFallsBack ==
  ASSUME TypeInv, NEW c \in Appliers, StopsOrFallsBack(c)
  PROVE  \E r \in Applies :
           /\ call' = [call EXCEPT ![c] = r]
           /\ \/ r.at = "idle" /\ r.does = "none" /\ r.event = "none"
              \/ r.at = "recording" /\ r.does = call[c].does /\ r.event = "manual"
<1>1. CASE ~call[c].fallback
  BY <1>1, CallStops DEF StopsOrFallsBack
<1>2. CASE call[c].fallback
  <2> DEFINE r == [call[c] EXCEPT !.at = "recording", !.event = "manual", !.fallback = FALSE]
  <2>1. call[c] \in Applies /\ call' = [call EXCEPT ![c] = r]
    BY <1>2 DEF TypeInv, StopsOrFallsBack
  <2>2. r \in Applies /\ r.at = "recording" /\ r.does = call[c].does /\ r.event = "manual"
    BY <2>1 DEF Applies, ApplyPoints, ApplyEvents
  <2> HIDE DEF r
  <2> QED BY <2>1, <2>2
<1> QED BY <1>1, <1>2

ApplySafe == ApplyTypes /\ ApplyInv /\ ExecutesOnProof

\* The call goes on; what was written and said stays.
LEMMA CallMoves ==
  ASSUME TypeInv, ApplyInv, ExecutesOnProof, NEW c \in Appliers, NEW r, MayBecome(c, r),
         call' = [call EXCEPT ![c] = r], staged' \in BOOLEAN, UNCHANGED readiness,
         UNCHANGED <<production, done, backup, history, file, written, receipt>>
  PROVE  ApplySafe'
<1>1. /\ call' \in [Appliers -> Applies]
      /\ ApplyJournal' /\ ApplyCalls' /\ ExecutesOnProof' /\ (Dead => Dead')
  BY CallBecomes
<1>2. ReceiptTells'
  BY <1>1 DEF ApplyInv, ReceiptTells
<1> QED BY <1>1, <1>2 DEF ApplySafe, ApplyInv, ApplyTypes, TypeInv

\* What a call at work relies on.
LEMMA CallAt ==
  ASSUME TypeInv, ApplyInv, NEW c \in Appliers
  PROVE  call[c] \in Applies /\ CallRelies(call[c])
BY DEF TypeInv, ApplyInv, ApplyCalls

\* A call that stops, or puts manual work down instead, does no harm.
LEMMA StopMayBecome ==
  ASSUME TypeInv, ApplyInv, NEW c \in Appliers, UNCHANGED staged,
         NEW r \in Applies,
         \/ r.at = "idle" /\ r.does = "none" /\ r.event = "none"
         \/ r.at = "recording" /\ r.does = call[c].does /\ r.event = "manual"
  PROVE  MayBecome(c, r)
BY DEF MayBecome, CallRelies, Executing, NotYetSeen, MayWrite, Staging, ApplyEvents

\* append() before its digest is awaited.
LEMMA PrepareLineKeeps ==
  ASSUME TypeInv, ApplyInv, ExecutesOnProof, UNCHANGED readiness,
         NEW c \in Appliers, PrepareLine(c)
  PROVE  ApplySafe'
<1>1. /\ UNCHANGED <<production, done, backup, history, file, written, receipt>>
      /\ UNCHANGED staged /\ staged' \in BOOLEAN
      /\ call[c].at = "recording"
  BY DEF PrepareLine, Unchanged, rehearsalVars, TypeInv
<1>2. call[c] \in Applies /\ CallRelies(call[c])
  BY CallAt
<1>3. CASE StopsOrFallsBack(c)
  BY <1>1, <1>3, CallFallsBack, StopMayBecome, CallMoves
<1>4. CASE /\ MayFollow(file, call[c].event)
           /\ call' = [call EXCEPT ![c].at = "appending", ![c].sequence = Len(file) + 1]
  <2> DEFINE r == [call[c] EXCEPT !.at = "appending", !.sequence = Len(file) + 1]
  <2>1. call' = [call EXCEPT ![c] = r]
    BY <1>4 DEF TypeInv
  <2>2. /\ r \in Applies /\ r.at = "appending" /\ r.does = call[c].does
        /\ r.event = call[c].event /\ r.quiet = call[c].quiet
    <3>1. Len(file) + 1 \in Nat
      BY LenProperties DEF TypeInv
    <3> QED BY <1>2, <3>1 DEF Applies, ApplyPoints
  <2>3. r.quiet <=> call[c].quiet
    BY <2>2
  <2> HIDE DEF r
  <2>4. /\ call[c].event = "reserved" => Events(file) = {}
        /\ call[c].event # "reserved" => "reserved" \in Events(file)
    BY <1>4 DEF MayFollow, Events
  <2>5. call[c].event = "reserved" => done["apply"] = 0
    <3>1. done["apply"] \in Nat
      BY DEF TypeInv, Operations
    <3> QED BY <2>4, <3>1 DEF ApplyInv, ApplyJournal
  <2>6. CallRelies(r)
    BY <1>1, <1>2, <2>2, <2>3, <2>4, <2>5 DEF CallRelies, Executing, NotYetSeen, MayWrite
  <2>7. MayBecome(c, r)
    BY <1>1, <2>2, <2>4, <2>6 DEF MayBecome, MayWrite, Staging
  <2> QED BY <1>1, <2>1, <2>7, CallMoves
<1> QED BY <1>3, <1>4 DEF PrepareLine

\* execute() begins once everything was verified.
LEMMA ExecuteKeeps ==
  ASSUME TypeInv, RehearsalInv, ApplyInv, ExecutesOnProof, UNCHANGED readiness,
         NEW c \in Appliers, Execute(c)
  PROVE  ApplySafe'
<1> DEFINE r == [Unused EXCEPT !.at = "recording", !.does = "execute", !.event = "reserved"]
<1>1. /\ UNCHANGED <<production, done, backup, history, file, written, receipt>>
      /\ UNCHANGED staged /\ staged' \in BOOLEAN
      /\ call' = [call EXCEPT ![c] = r]
  BY DEF Execute, Unchanged, rehearsalVars, TypeInv
<1>2. r \in Applies /\ r.at = "recording" /\ r.event = "reserved"
  BY DEF Unused, Applies, ApplyPoints, ApplyEvents
<1>3. Proven
  <2>1. /\ backup = "whole" /\ readiness = [class |-> "READY", decision |-> "allow"]
        /\ Stage(history, "restore") = "committed"
    BY DEF Execute, LiveContext, ReceiptVerifies, Authority, Fresh, Complete
  <2>2. "committed" \in EventsOf("restore")
    BY <2>1, StageIsSaid DEF Phases
  <2>3. "committed" \in EventsOf("candidate")
    BY <2>2 DEF RehearsalInv, RehearsalJournal
  <2> QED BY <2>1, <2>2, <2>3 DEF Proven, RehearsalInv, RehearsalJournal, Phases
<1>4. CallRelies(r)
  <2>1. r.does = "execute"
    BY DEF Unused
  <2> HIDE DEF r
  <2> QED BY <1>2, <2>1 DEF CallRelies, Executing, NotYetSeen, MayWrite, ApplyEvents
<1> HIDE DEF r
<1>5. MayBecome(c, r)
  BY <1>1, <1>2, <1>3, <1>4 DEF MayBecome, MayWrite, Staging
<1> QED BY <1>1, <1>5, CallMoves

\* The steps of writeOnce() before the rename.
LEMMA WriterKeeps ==
  ASSUME TypeInv, ApplyInv, ExecutesOnProof, UNCHANGED readiness,
         NEW c \in Appliers, BeginWrite(c) \/ StageState(c) \/ LookAgain(c)
  PROVE  ApplySafe'
<1>1. /\ UNCHANGED <<production, done, backup, history, file, written, receipt>>
      /\ staged' \in BOOLEAN
  BY DEF BeginWrite, StageState, LookAgain, Unchanged, rehearsalVars, TypeInv
<1>2. /\ call[c] \in Applies /\ CallRelies(call[c])
      /\ call[c].at \in {"reserved", "staging", "staged"}
  BY CallAt DEF BeginWrite, StageState, LookAgain
<1>3. ASSUME NEW at \in {"staging", "staged", "renaming", "failed"}, Goes(c, at),
             at \in {"staged", "renaming"} => staged' /\ (Staging(call[c]) \/ ~staged),
             at = "renaming" => production = "reference",
             \/ staged' = staged
             \/ staged' = TRUE
             \/ staged' = FALSE /\ Staging(call[c]) /\ at = "failed"
      PROVE  ApplySafe'
  <2>1. at \in ApplyPoints
    BY DEF ApplyPoints
  <2>2. PICK r \in Applies : /\ call' = [call EXCEPT ![c] = r] /\ r.at = at
                             /\ r.does = call[c].does /\ r.event = call[c].event
                             /\ r.quiet <=> call[c].quiet
    BY <1>3, <2>1, CallGoes
  <2>3. CallRelies(r)
    BY <1>2, <1>3, <2>2 DEF CallRelies, Executing, NotYetSeen, MayWrite
  <2>4. MayBecome(c, r)
    BY <1>2, <1>3, <2>2, <2>3 DEF MayBecome, MayWrite, Staging
  <2> QED BY <1>1, <2>2, <2>4, CallMoves
<1>4. CASE BeginWrite(c)
  <2>1. (Goes(c, "staging") \/ Goes(c, "failed")) /\ UNCHANGED staged
    BY <1>4 DEF BeginWrite, Unchanged
  <2> QED BY <1>3, <2>1
<1>5. CASE StageState(c)
  <2>1. \/ ~staged /\ staged' = TRUE /\ Goes(c, "staged")
        \/ Goes(c, "failed") /\ UNCHANGED staged
    BY <1>5 DEF StageState
  <2> QED BY <1>3, <2>1
<1>6. CASE LookAgain(c)
  <2>1. call[c].at = "staged" /\ Staging(call[c])
    BY <1>6 DEF LookAgain, Staging
  <2>2. \/ production = "reference" /\ Goes(c, "renaming") /\ UNCHANGED staged
        \/ Goes(c, "failed") /\ staged' = FALSE
    BY <1>6 DEF LookAgain
  <2>3. staged
    BY <2>1 DEF ApplyInv, ApplyCalls, OneTemporaryFile
  <2> QED BY <1>3, <2>1, <2>2, <2>3
<1> QED BY <1>4, <1>5, <1>6

\* Production is read back: the verdict of a call that is alone holds for good.
LEMMA ReadBackKeeps ==
  ASSUME TypeInv, ApplyInv, ExecutesOnProof, UNCHANGED readiness,
         NEW c \in Appliers, ReadBack(c)
  PROVE  ApplySafe'
<1>1. /\ UNCHANGED <<production, done, backup, history, file, written, receipt>>
      /\ UNCHANGED staged /\ staged' \in BOOLEAN
  BY DEF ReadBack, Unchanged, rehearsalVars, TypeInv
<1>2. call[c] \in Applies /\ CallRelies(call[c])
  BY CallAt
<1>3. CASE call[c].at = "renamed"
  <2>1. PICK event \in {"committed", "manual"} : GoesRecording(c, event)
    BY <1>3 DEF ReadBack
  <2>2. PICK r \in Applies : /\ call' = [call EXCEPT ![c] = r] /\ r.at = "recording"
                             /\ r.does = call[c].does /\ r.event = event
    BY <2>1, CallGoesRecording DEF ApplyEvents
  <2>3. CallRelies(r)
    BY <1>2, <1>3, <2>2 DEF CallRelies, Executing, NotYetSeen, MayWrite, ApplyEvents
  <2>4. MayBecome(c, r)
    BY <1>1, <2>2, <2>3 DEF MayBecome, MayWrite, Staging
  <2> QED BY <1>1, <2>2, <2>4, CallMoves
<1>4. CASE call[c].at = "failed"
  <2> DEFINE event == IF production = "reference" THEN "safe" ELSE "manual"
             alone == \A d \in Appliers \ {c} : call[d].at = "idle"
             r == [call[c] EXCEPT !.at = "recording", !.event = event, !.quiet = alone]
  <2>1. call' = [call EXCEPT ![c] = r]
    BY <1>4 DEF ReadBack, TypeInv
  <2>2. alone \in BOOLEAN
    OBVIOUS
  <2>3. /\ r \in Applies /\ r.at = "recording" /\ r.does = call[c].does
        /\ r.event = event /\ r.quiet = alone
    BY <1>2, <2>2 DEF Applies, ApplyPoints, ApplyEvents
  <2>4. r.event = "safe" /\ r.quiet => Dead
    <3> SUFFICES ASSUME r.event = "safe", r.quiet PROVE Dead
      OBVIOUS
    <3>1. production = "reference" /\ \A d \in Appliers \ {c} : call[d].at = "idle"
      BY <2>3
    <3>2. done["apply"] = 0 /\ "reserved" \in Events(file)
      BY <1>2, <1>4, <3>1 DEF CallRelies, NotYetSeen
    <3>3. \A d \in Appliers : ~MayWrite(call[d])
      BY <1>4, <3>1 DEF MayWrite
    <3> QED BY <3>2, <3>3 DEF Dead
  <2>5. event \in {"safe", "manual"}
    OBVIOUS
  <2> HIDE DEF r, event, alone
  <2>6. CallRelies(r)
    BY <1>2, <1>4, <2>3, <2>4, <2>5 DEF CallRelies, Executing, NotYetSeen, MayWrite, ApplyEvents
  <2>7. MayBecome(c, r)
    BY <1>1, <2>3, <2>6 DEF MayBecome, MayWrite, Staging
  <2> QED BY <1>1, <2>1, <2>7, CallMoves
<1> QED BY <1>3, <1>4 DEF ReadBack

\* What the progression of a journal says of its events.
LEMMA ProgressionTells ==
  ASSUME NEW lines, Progression(lines) # "invalid"
  PROVE  /\ Progression(lines) \in Events(lines) /\ "reserved" \in Events(lines)
         /\ Progression(lines) \in ApplyEvents
         /\ Progression(lines) = "reserved" => Events(lines) \intersect ApplyEvents = {"reserved"}
BY DEF Progression, ApplyEvents

\* recover() begins with what the journal says.
LEMMA RecoverKeeps ==
  ASSUME TypeInv, ApplyInv, ExecutesOnProof, UNCHANGED readiness,
         NEW c \in Appliers, Recover(c)
  PROVE  ApplySafe'
<1> DEFINE found == Progression(file)
           r == [Unused EXCEPT !.at = "recovering", !.does = "recover", !.event = found]
<1>1. /\ UNCHANGED <<production, done, backup, history, file, written, receipt>>
      /\ UNCHANGED staged /\ staged' \in BOOLEAN
      /\ found # "invalid" /\ call' = [call EXCEPT ![c] = r]
  BY DEF Recover, Unchanged, rehearsalVars, TypeInv
<1>2. /\ found \in Events(file) /\ "reserved" \in Events(file) /\ found \in ApplyEvents
      /\ found = "reserved" => Events(file) = {"reserved"}
  BY <1>1, ProgressionTells, EventsTyped
<1> HIDE DEF found
<1>3. /\ r \in Applies /\ r.at = "recovering" /\ r.event = found /\ r.does = "recover"
      /\ ~r.quiet
  BY <1>2 DEF Unused, Applies, ApplyPoints
<1> HIDE DEF r
<1>4. found = "reserved" => done["apply"] = 0 \/ production # "reference"
  <2>1. done["apply"] \in Nat
    BY DEF TypeInv, Operations
  <2> QED BY <1>2, <2>1 DEF ApplyInv, ApplyJournal
<1>5. CallRelies(r)
  BY <1>2, <1>3, <1>4 DEF CallRelies, Executing, NotYetSeen, MayWrite, ApplyInv, ApplyJournal
<1>6. MayBecome(c, r)
  BY <1>1, <1>3, <1>5 DEF MayBecome, MayWrite, Staging
<1> QED BY <1>1, <1>6, CallMoves

\* Production decides about an operation that is not settled.
LEMMA DecideKeeps ==
  ASSUME TypeInv, ApplyInv, ExecutesOnProof, UNCHANGED readiness,
         NEW c \in Appliers, Decide(c)
  PROVE  ApplySafe'
<1> DEFINE found == call[c].event
           alone == \A d \in Appliers \ {c} : call[d].at = "idle"
           event == CASE production = "candidate" -> "committed"
                      [] production = "reference" /\ found = "reserved" -> "safe"
                      [] OTHER -> "manual"
<1>1. /\ UNCHANGED <<production, done, backup, history, file, written, receipt>>
      /\ UNCHANGED staged /\ staged' \in BOOLEAN
      /\ call[c].at = "recovering"
  BY DEF Decide, Unchanged, rehearsalVars, TypeInv
<1>2. /\ call[c] \in Applies /\ CallRelies(call[c])
      /\ found \in ApplyEvents /\ "reserved" \in Events(file)
  BY <1>1, CallAt DEF CallRelies
<1>3. /\ event \in {"committed", "safe", "manual"}
      /\ event = "committed" => production = "candidate"
      /\ event = "safe" => production = "reference" /\ found = "reserved"
  OBVIOUS
<1>4. CASE Goes(c, "answering") /\ (found \in {"manual", "safe"} \/ found = event)
  <2>1. PICK r \in Applies : /\ call' = [call EXCEPT ![c] = r] /\ r.at = "answering"
                             /\ r.does = call[c].does /\ r.event = found
                             /\ r.quiet <=> call[c].quiet
    BY <1>4, CallGoes DEF ApplyPoints
  <2>2. CallRelies(r)
    BY <1>2, <1>3, <1>4, <2>1 DEF CallRelies, Executing, NotYetSeen, MayWrite, ApplyEvents
  <2>3. MayBecome(c, r)
    BY <1>1, <2>1, <2>2 DEF MayBecome, MayWrite, Staging
  <2> QED BY <1>1, <2>1, <2>3, CallMoves
<1>5. CASE call' = [call EXCEPT ![c].at = "recording", ![c].event = event,
                      ![c].fallback = (event = "committed"), ![c].quiet = alone]
  <2> DEFINE back == event = "committed"
             r == [call[c] EXCEPT !.at = "recording", !.event = event,
                                  !.fallback = back, !.quiet = alone]
  <2>1. call' = [call EXCEPT ![c] = r]
    BY <1>5 DEF TypeInv
  <2>2. alone \in BOOLEAN /\ back \in BOOLEAN /\ event \in ApplyEvents
    BY <1>3 DEF ApplyEvents
  <2> HIDE DEF event, back, alone
  <2>3. /\ r \in Applies /\ r.at = "recording" /\ r.does = call[c].does
        /\ r.event = event /\ r.quiet = alone
    BY <1>2, <2>2 DEF Applies, ApplyPoints
  <2>4. r.event = "safe" /\ r.quiet => Dead
    <3> SUFFICES ASSUME r.event = "safe", r.quiet PROVE Dead
      OBVIOUS
    <3>1. \A d \in Appliers \ {c} : call[d].at = "idle"
      BY <2>3 DEF alone
    <3>2. production = "reference" /\ found = "reserved"
      BY <1>3, <2>3
    <3>3. done["apply"] = 0 /\ "reserved" \in Events(file)
      BY <1>1, <1>2, <3>2 DEF CallRelies, NotYetSeen
    <3>4. \A d \in Appliers : ~MayWrite(call[d])
      BY <1>1, <3>1 DEF MayWrite
    <3> QED BY <3>3, <3>4 DEF Dead
  <2> HIDE DEF r
  <2>5. event = "committed" => done["apply"] = 1
    BY <1>3 DEF ApplyInv, ApplyJournal
  <2>6. CallRelies(r)
    BY <1>2, <1>3, <2>2, <2>3, <2>4, <2>5 DEF CallRelies, Executing, NotYetSeen, MayWrite
  <2>7. MayBecome(c, r)
    BY <1>1, <1>2, <2>3, <2>6 DEF MayBecome, MayWrite, Staging
  <2> QED BY <1>1, <2>1, <2>7, CallMoves
<1> QED BY <1>4, <1>5 DEF Decide

\* prepareReceipt: what is answered is what the call relies on.
LEMMA AnswerKeeps ==
  ASSUME TypeInv, ApplyInv, ExecutesOnProof, UNCHANGED readiness,
         NEW c \in Appliers, Answer(c)
  PROVE  ApplySafe'
<1>1. /\ UNCHANGED <<production, done, backup, history, file, written>>
      /\ UNCHANGED staged /\ staged' \in BOOLEAN
      /\ call[c].at = "answering"
  BY DEF Answer, Unchanged, rehearsalVars, TypeInv
<1>2. /\ call[c] \in Applies /\ CallRelies(call[c])
      /\ call[c].event \in ApplyEvents \ {"reserved"}
  BY <1>1, CallAt DEF CallRelies
<1>3. CASE UNCHANGED receipt /\ StopsOrFallsBack(c)
  BY <1>1, <1>3, CallFallsBack, StopMayBecome, CallMoves
<1>4. CASE receipt' = [class |-> Classes[call[c].event], quiet |-> call[c].quiet] /\ Stops(c)
  <2>1. PICK r \in Applies : /\ call' = [call EXCEPT ![c] = r]
                             /\ r.at = "idle" /\ r.does = "none" /\ r.event = "none"
    BY <1>4, CallStops
  <2>2. MayBecome(c, r)
    BY <1>1, <2>1, StopMayBecome
  <2>3. /\ call' \in [Appliers -> Applies]
        /\ ApplyJournal' /\ ApplyCalls' /\ ExecutesOnProof' /\ (Dead => Dead')
    BY <1>1, <2>1, <2>2, CallBecomes
  <2>4. call[c].quiet \in BOOLEAN
    BY <1>2 DEF Applies
  <2>5. /\ receipt'.class = Classes[call[c].event]
        /\ receipt'.quiet = call[c].quiet
    BY <1>4
  <2>6. receipt'.class = "APPLIED_VERIFIED" => call[c].event = "committed"
    BY <1>2, <2>5 DEF Classes, ApplyEvents
  <2>7. receipt'.class = "NOT_APPLIED_SAFE" => call[c].event = "safe"
    BY <1>2, <2>5 DEF Classes, ApplyEvents
  <2>8. ReceiptTells'
    <3>1. receipt'.quiet <=> call[c].quiet
      BY <2>5
    <3> QED BY <1>1, <1>2, <2>3, <2>6, <2>7, <3>1 DEF CallRelies, ReceiptTells
  <2>9. receipt' \in [class : {"none"} \union {Classes[e] : e \in ApplyEvents}, quiet : BOOLEAN]
    BY <1>2, <1>4, <2>4
  <2> QED BY <1>1, <2>3, <2>8, <2>9 DEF ApplySafe, ApplyInv, ApplyTypes, TypeInv
<1> QED BY <1>3, <1>4 DEF Answer

\* The call's line is in the file, whether append() returns or throws.
LEMMA LineIsAppended ==
  ASSUME TypeInv, ApplyInv, ExecutesOnProof, NEW c \in Appliers, call[c].at = "appending",
         file' = Append(file, JournalLine(call[c].sequence, call[c].event)),
         NEW r \in Applies, call' = [call EXCEPT ![c] = r],
         \/ r.at = "idle" /\ r.does = "none" /\ r.event = "none"
         \/ r.at = "recording" /\ r.does = call[c].does /\ r.event = "manual"
         \/ /\ r.at = IF call[c].event = "reserved" THEN "reserved" ELSE "answering"
            /\ r.does = call[c].does /\ r.event = call[c].event
            /\ r.quiet <=> call[c].quiet,
         UNCHANGED <<readiness, production, done, backup, history, staged, written, receipt>>
  PROVE  ApplySafe'
<1> DEFINE line == JournalLine(call[c].sequence, call[c].event)
<1>1. call[c] \in Applies /\ CallRelies(call[c]) /\ call[c].event \in ApplyEvents
  BY CallAt DEF CallRelies
<1>2. line \in FileLines /\ line.event = call[c].event
  BY <1>1 DEF FileLines, JournalLine, Applies
<1> HIDE DEF line
<1>3. /\ file' \in Seq(FileLines)
      /\ Events(file)' = Events(file) \union {call[c].event}
      /\ \A p \in Phases : EventsOf(p)' = EventsOf(p)
  BY <1>2, FileGrows DEF line
<1>4. /\ call' \in [Appliers -> Applies] /\ call'[c] = r
      /\ \A d \in Appliers \ {c} : call'[d] = call[d]
  BY DEF TypeInv
<1>5. ApplyJournal'
  <2>1. call[c].event = "reserved" \/ "reserved" \in Events(file)
    BY <1>1 DEF CallRelies
  <2>2. call[c].event = "committed" => done["apply"] = 1
    BY <1>1 DEF CallRelies
  <2> QED BY <1>3, <2>1, <2>2 DEF ApplyInv, ApplyJournal
<1>6. Dead => Dead'
  <2> SUFFICES ASSUME Dead PROVE Dead'
    OBVIOUS
  <2>1. call[c].event # "reserved"
    BY DEF Dead, MayWrite
  <2>2. ~MayWrite(r)
    BY <2>1 DEF MayWrite
  <2>3. \A d \in Appliers : ~MayWrite(call[d])'
    BY <1>4, <2>2 DEF Dead, MayWrite
  <2> QED BY <1>3, <2>3 DEF Dead
<1>7. ASSUME NEW d \in Appliers PROVE CallRelies(call[d])'
  <2>1. CASE d = c
    <3>1. /\ MayWrite(r) => MayWrite(call[c])
          /\ NotYetSeen(r) => NotYetSeen(call[c])
          /\ Executing(r) => Executing(call[c])
      BY DEF MayWrite, NotYetSeen, Executing
    <3>2. r.event = "safe" /\ r.quiet => Dead'
      BY <1>1, <1>6 DEF CallRelies
    <3>3. CallRelies(r)'
      <4>1. /\ r.at \notin {"appending", "recovering", "staged", "staging", "renaming",
                            "renamed", "failed"}
            /\ r.at = "recording" => r.event = "manual"
            /\ r.at = "reserved" => call[c].event = "reserved"
            /\ r.at = "answering" => r.event \in ApplyEvents \ {"reserved"}
        BY <1>1
      <4>2. NotYetSeen(r)' => done["apply"] = 0 \/ production # "reference"
        BY <1>1, <3>1 DEF CallRelies, NotYetSeen, MayWrite
      <4>3. Executing(r)' => r.does = "execute"
        BY <1>1, <4>1 DEF CallRelies, Executing
      <4>4. r.event = "committed" => done["apply"] = 1
        BY <1>1 DEF CallRelies
      <4> QED BY <1>3, <3>2, <4>1, <4>2, <4>3, <4>4 DEF CallRelies, ApplyEvents
    <3> QED BY <1>4, <2>1, <3>3 DEF CallRelies, NotYetSeen, MayWrite, Executing
  <2>2. CASE d # c
    <3>1. PICK x \in Applies : x = call[d] /\ x = call'[d]
      BY <1>4, <2>2 DEF TypeInv
    <3>2. CallRelies(x)
      BY <3>1 DEF ApplyInv, ApplyCalls
    <3>3. (NotYetSeen(x)' <=> NotYetSeen(x)) /\ (Executing(x)' <=> Executing(x))
      BY DEF NotYetSeen, MayWrite, Executing
    <3>4. CallRelies(x)'
      BY <1>3, <1>6, <3>2, <3>3 DEF CallRelies
    <3> QED BY <3>1, <3>4 DEF CallRelies, NotYetSeen, MayWrite, Executing
  <2> QED BY <2>1, <2>2
<1>8. OneTemporaryFile'
  <2>1. ~Staging(r)
    BY DEF Staging
  <2>2. \A d \in Appliers : Staging(call'[d]) => d # c /\ Staging(call[d])
    BY <1>4, <2>1
  <2>3. \A d \in Appliers : Staging(call[d])' <=> Staging(call'[d])
    BY DEF Staging
  <2> QED BY <2>2, <2>3 DEF ApplyInv, ApplyCalls, OneTemporaryFile
<1>9. ExecutesOnProof'
  <2>1. Proven' <=> Proven
    BY <1>3 DEF Proven, Phases
  <2> QED BY <1>4, <2>1 DEF ExecutesOnProof
<1>10. ReceiptTells'
  BY <1>6 DEF ApplyInv, ReceiptTells
<1> QED BY <1>3, <1>4, <1>5, <1>7, <1>8, <1>9, <1>10
        DEF ApplySafe, ApplyInv, ApplyCalls, ApplyTypes, TypeInv

LEMMA AppendLineKeeps ==
  ASSUME TypeInv, ApplyInv, ExecutesOnProof, UNCHANGED readiness,
         NEW c \in Appliers, AppendLine(c)
  PROVE  ApplySafe'
<1> DEFINE line == JournalLine(call[c].sequence, call[c].event)
           next == IF call[c].event = "reserved" THEN "reserved" ELSE "answering"
<1>1. /\ UNCHANGED <<readiness, production, done, backup, history, staged, written, receipt>>
      /\ staged' \in BOOLEAN /\ call[c].at = "appending"
  BY DEF AppendLine, Unchanged, rehearsalVars, TypeInv
<1>2. CASE file' = Append(file, line) /\ Goes(c, next)
  <2>1. next \in ApplyPoints
    BY DEF ApplyPoints
  <2>2. PICK r \in Applies : /\ call' = [call EXCEPT ![c] = r] /\ r.at = next
                             /\ r.does = call[c].does /\ r.event = call[c].event
                             /\ r.quiet <=> call[c].quiet
    BY <1>2, <2>1, CallGoes
  <2> QED BY <1>1, <1>2, <2>2, LineIsAppended
<1>3. CASE file' \in {file, Append(file, line)} /\ StopsOrFallsBack(c)
  <2>1. PICK r \in Applies :
          /\ call' = [call EXCEPT ![c] = r]
          /\ \/ r.at = "idle" /\ r.does = "none" /\ r.event = "none"
             \/ r.at = "recording" /\ r.does = call[c].does /\ r.event = "manual"
    BY <1>3, CallFallsBack
  <2>2. CASE file' = Append(file, line)
    BY <1>1, <2>1, <2>2, LineIsAppended
  <2>3. CASE file' = file
    <3>1. MayBecome(c, r)
      BY <1>1, <2>1, StopMayBecome
    <3> QED BY <1>1, <2>1, <2>3, <3>1, CallMoves
  <2> QED BY <1>3, <2>2, <2>3
<1> QED BY <1>2, <1>3 DEF AppendLine

\* The change: the call that holds the temporary file finds it untouched, and
\* the operation has not been carried out.
LEMMA RenameKeeps ==
  ASSUME TypeInv, ApplyInv, ExecutesOnProof, UNCHANGED readiness,
         NEW c \in Appliers, Rename(c)
  PROVE  /\ ApplySafe' /\ done' \in [Operations -> Nat]
         /\ Proven
         /\ \/ UNCHANGED done
            \/ /\ UNCHANGED file
               /\ done["apply"] = 0 /\ "reserved" \in Events(file)
               /\ done' = [done EXCEPT !["apply"] = 1]
<1>1. /\ UNCHANGED <<backup, history, file, receipt>>
      /\ staged' = FALSE /\ call[c].at = "renaming"
  BY DEF Rename, rehearsalVars
<1>2. /\ call[c] \in Applies /\ CallRelies(call[c]) /\ Staging(call[c])
      /\ MayWrite(call[c]) /\ call[c].does = "execute" /\ Proven
      /\ done["apply"] = 0 /\ "reserved" \in Events(file)
  BY <1>1, CallAt DEF CallRelies, Executing, Staging, MayWrite, ExecutesOnProof
<1>3. CASE Goes(c, "failed") /\ UNCHANGED <<production, done, written>>
  <2>1. PICK r \in Applies : /\ call' = [call EXCEPT ![c] = r] /\ r.at = "failed"
                             /\ r.does = call[c].does /\ r.event = call[c].event
                             /\ r.quiet <=> call[c].quiet
    BY <1>3, CallGoes DEF ApplyPoints
  <2>2. CallRelies(r)
    BY <1>1, <1>2, <2>1 DEF CallRelies, Executing, NotYetSeen, MayWrite
  <2>3. MayBecome(c, r)
    BY <1>1, <1>2, <2>1, <2>2 DEF MayBecome, MayWrite, Staging
  <2>4. ApplySafe'
    BY <1>1, <1>3, <2>1, <2>3, CallMoves
  <2> QED BY <1>2, <1>3, <2>4 DEF TypeInv
<1>4. CASE /\ production' = "candidate"
           /\ done' = [done EXCEPT !["apply"] = @ + 1]
           /\ written' = TRUE
           /\ Goes(c, "renamed")
  <2>1. /\ done' = [done EXCEPT !["apply"] = 1] /\ done'["apply"] = 1
        /\ done' \in [Operations -> Nat]
        /\ \A p \in Phases : done'[p] = done[p]
    BY <1>2, <1>4 DEF TypeInv, Operations, Phases
  <2>2. Events(file)' = Events(file) /\ \A o : EventsOf(o)' = EventsOf(o)
    BY <1>1, JournalsStay
  <2>3. PICK r \in Applies : /\ call' = [call EXCEPT ![c] = r] /\ r.at = "renamed"
                             /\ r.does = call[c].does /\ r.event = call[c].event
                             /\ r.quiet <=> call[c].quiet
    BY <1>4, CallGoes DEF ApplyPoints
  <2>4. /\ call' \in [Appliers -> Applies] /\ call'[c] = r
        /\ \A d \in Appliers \ {c} : call'[d] = call[d]
    BY <2>3 DEF TypeInv
  <2>5. ~Dead
    BY <1>2 DEF Dead
  <2>6. ApplyJournal'
    BY <1>2, <1>4, <2>1, <2>2 DEF ApplyInv, ApplyJournal
  <2>7. ASSUME NEW d \in Appliers PROVE CallRelies(call[d])'
    <3>1. PICK x \in Applies : x = call'[d]
      BY <2>4
    <3>2. /\ x.at # "renaming"
          /\ x.event = "safe" => ~x.quiet
          /\ Executing(x) => x.does = "execute"
          /\ x.at \in {"recording", "appending"} => x.event \in ApplyEvents
          /\ x.at = "answering" => x.event \in ApplyEvents \ {"reserved"}
          /\ x.at = "recovering" => x.event \in ApplyEvents
      <4>1. CASE d = c
        BY <1>2, <2>3, <2>4, <2>5, <3>1, <4>1 DEF CallRelies, Executing
      <4>2. CASE d # c
        <5>1. x = call[d] /\ CallRelies(x)
          BY <2>4, <3>1, <4>2 DEF ApplyInv, ApplyCalls
        <5>2. ~Staging(x)
          BY <1>2, <4>2, <5>1 DEF ApplyInv, ApplyCalls, OneTemporaryFile
        <5> QED BY <2>5, <5>1, <5>2 DEF CallRelies, Staging, Executing
      <4> QED BY <4>1, <4>2
    <3>3. CallRelies(x)'
      <4>1. Executing(x)' <=> Executing(x)
        BY DEF Executing
      <4>2. production' # "reference"
        BY <1>4
      <4>3. "reserved" \in Events(file)' /\ done'["apply"] = 1
        BY <1>2, <2>1, <2>2
      <4>4. x.event = "safe" /\ x.quiet => Dead'
        BY <3>2
      <4> QED BY <3>2, <4>1, <4>2, <4>3, <4>4 DEF CallRelies
    <3> QED BY <3>1, <3>3 DEF CallRelies, NotYetSeen, MayWrite, Executing
  <2>8. OneTemporaryFile'
    <3>1. \A d \in Appliers : ~Staging(call'[d])
      BY <1>2, <2>3, <2>4 DEF ApplyInv, ApplyCalls, OneTemporaryFile, Staging
    <3> QED BY <3>1 DEF OneTemporaryFile, Staging
  <2>9. ExecutesOnProof'
    <3>1. Proven'
      BY <1>1, <1>2, <2>1, <2>2 DEF Proven, Phases
    <3> QED BY <3>1 DEF ExecutesOnProof
  <2>10. ReceiptTells'
    BY <1>1, <2>1, <2>5 DEF ApplyInv, ReceiptTells
  <2> QED BY <1>1, <1>2, <1>4, <2>1, <2>4, <2>6, <2>7, <2>8, <2>9, <2>10
          DEF ApplySafe, ApplyInv, ApplyCalls, ApplyTypes, TypeInv
<1> QED BY <1>3, <1>4 DEF Rename

\* Backup, documents and the opening of the journal; drift.
LEMMA PreparationKeeps ==
  ASSUME TypeInv, ApplyInv, ExecutesOnProof, UNCHANGED readiness,
         Capture \/ Prepare \/ OpenJournal
  PROVE  ApplySafe'
<1>1. /\ UNCHANGED <<production, done, history, file, staged, written, call, receipt>>
      /\ backup' \in {"none", "whole", "torn"}
      /\ backup # "none" => backup' = backup
  BY DEF Capture, Prepare, OpenJournal, rehearsalVars, TypeInv
<1>2. ApplyInv'
  BY <1>1, ApplyStays
<1>3. ExecutesOnProof'
  <2>1. \A o : EventsOf(o)' = EventsOf(o)
    BY <1>1, JournalsStay
  <2> QED BY <1>1, <2>1 DEF ExecutesOnProof, Proven
<1> QED BY <1>1, <1>2, <1>3 DEF ApplySafe, ApplyTypes, TypeInv

LEMMA ApplyKeeps ==
  ASSUME ProductionInv, UNCHANGED readiness, ApplyNext
  PROVE  /\ ApplySafe' /\ done' \in [Operations -> Nat]
         /\ production' = "candidate" /\ production # "candidate" => Proven
         /\ UNCHANGED rehearsalVars
         /\ \/ UNCHANGED done
            \/ /\ UNCHANGED file
               /\ done["apply"] = 0 /\ "reserved" \in Events(file)
               /\ done' = [done EXCEPT !["apply"] = 1]
<1> USE DEF ProductionInv
<1>1. CASE Capture \/ Prepare \/ OpenJournal
  <2>1. ApplySafe'
    BY <1>1, PreparationKeeps
  <2>2. UNCHANGED <<production, done, rehearsalVars>>
    BY <1>1 DEF Capture, Prepare, OpenJournal
  <2> QED BY <2>1, <2>2 DEF TypeInv
<1>2. ASSUME NEW c \in Appliers, Rename(c)
      PROVE  /\ ApplySafe' /\ done' \in [Operations -> Nat]
             /\ Proven /\ UNCHANGED rehearsalVars
             /\ \/ UNCHANGED done
                \/ /\ UNCHANGED file
                   /\ done["apply"] = 0 /\ "reserved" \in Events(file)
                   /\ done' = [done EXCEPT !["apply"] = 1]
  <2>1. UNCHANGED rehearsalVars
    BY <1>2 DEF Rename
  <2> QED BY <1>2, <2>1, RenameKeeps
<1>3. ASSUME NEW c \in Appliers,
             \/ Execute(c) \/ Recover(c) \/ Decide(c)
             \/ PrepareLine(c) \/ AppendLine(c)
             \/ BeginWrite(c) \/ StageState(c) \/ LookAgain(c)
             \/ ReadBack(c) \/ Answer(c)
      PROVE  ApplySafe' /\ UNCHANGED <<production, done, rehearsalVars>>
  <2>1. UNCHANGED <<production, done, rehearsalVars>>
    BY <1>3 DEF Execute, Recover, Decide, PrepareLine, AppendLine, BeginWrite, StageState,
                LookAgain, ReadBack, Answer, Unchanged
  <2>2. ApplySafe'
    BY <1>3, ExecuteKeeps, RecoverKeeps, DecideKeeps, PrepareLineKeeps, AppendLineKeeps,
       WriterKeeps, ReadBackKeeps, AnswerKeeps
  <2> QED BY <2>1, <2>2
<1>4. \/ Capture \/ Prepare \/ OpenJournal
      \/ \E c \in Appliers :
           \/ Rename(c)
           \/ Execute(c) \/ Recover(c) \/ Decide(c)
           \/ PrepareLine(c) \/ AppendLine(c)
           \/ BeginWrite(c) \/ StageState(c) \/ LookAgain(c)
           \/ ReadBack(c) \/ Answer(c)
  BY DEF ApplyNext
<1>5. UNCHANGED done => done' \in [Operations -> Nat]
  BY DEF TypeInv
<1> QED BY <1>1, <1>2, <1>3, <1>4, <1>5

-----------------------------------------------------------------------------
(* The other steps *)

LEMMA DecisionKeeps ==
  ASSUME ProductionInv, ReadinessNext, UNCHANGED <<production, done, rehearsalVars, applyVars>>
  PROVE  ProductionInv'
<1> USE DEF ProductionInv
<1>1. UNCHANGED <<clone, history, file, rehearsing, staged, written, call, receipt, backup>>
  BY DEF rehearsalVars, applyVars
<1>2. TypeInv'
  BY <1>1 DEF TypeInv
<1>3. RehearsalInv' /\ ApplyInv'
  BY <1>1, RehearsalStays, ApplyStays
<1>4. readiness = [class |-> "READY", decision |-> "allow"] => UNCHANGED readiness
  BY DEF ReadinessNext, ProposeReadiness, AuthorizeReadiness, IsolatedChanges
<1>5. \A o : EventsOf(o)' = EventsOf(o)
  BY <1>1, JournalsStay
<1>6. ExecutesOnProof'
  BY <1>1, <1>4, <1>5 DEF ExecutesOnProof, Proven
<1> QED BY <1>2, <1>3, <1>6

LEMMA DriftKeeps ==
  ASSUME ProductionInv, Drift \/ RestoreBackup, UNCHANGED readinessVars
  PROVE  ProductionInv' /\ production' \in {production, "other", "reference"}
<1> USE DEF ProductionInv
<1>1. UNCHANGED <<readiness, done, history, file, rehearsing, staged, written, call, receipt, backup>>
  BY DEF Drift, RestoreBackup, rehearsalVars, applyVars, readinessVars
<1>2. clone' \in {clone, "other"} /\ production' \in {production, "other", "reference"}
  BY DEF Drift, RestoreBackup, rehearsalVars
<1>3. TypeInv'
  BY <1>1, <1>2 DEF TypeInv, Routes
<1>4. \A o : EventsOf(o)' = EventsOf(o)
  BY <1>1, JournalsStay
<1>5. RehearsalInv'
  <2>1. RehearsalJournal' /\ RehearsalRelies(rehearsing)'
    BY <1>1, <1>4 DEF RehearsalInv, RehearsalJournal, RehearsalRelies
  <2>2. \A p : CloneAfter(p) # "other"
    BY DEF CloneAfter
  <2>3. CloneIsKnown'
    BY <1>1, <1>2, <2>2 DEF RehearsalInv, CloneIsKnown, CloneAfter
  <2> QED BY <2>1, <2>3 DEF RehearsalInv
<1>6. ExecutesOnProof'
  BY <1>1, <1>4 DEF ExecutesOnProof, Proven
<1>7. ApplyInv'
  <2>1. CASE production' \in {production, "other"}
    BY <1>1, <2>1, ApplyStays
  <2>2. CASE RestoreBackup
    <3>1. /\ \A c \in Appliers : call[c].at = "idle"
          /\ Events(file) # {"reserved"} /\ production' = "reference"
      BY <2>2 DEF RestoreBackup
    <3>2. Events(file)' = Events(file)
      BY <1>1 DEF Events
    <3>3. Dead' <=> Dead
      BY <1>1, <3>2 DEF Dead, MayWrite
    <3>4. ApplyJournal'
      BY <1>1, <3>1, <3>2 DEF ApplyInv, ApplyJournal
    <3>5. ASSUME NEW c \in Appliers PROVE CallRelies(call[c])'
      <4>1. call[c].at = "idle" /\ CallRelies(call[c])
        BY <3>1, CallAt
      <4> QED BY <1>1, <3>3, <4>1 DEF CallRelies, Executing, NotYetSeen, MayWrite
    <3>6. OneTemporaryFile' /\ ReceiptTells'
      BY <1>1, <3>3 DEF ApplyInv, ApplyCalls, OneTemporaryFile, Staging, ReceiptTells
    <3> QED BY <3>4, <3>5, <3>6 DEF ApplyInv, ApplyCalls
  <2>3. Drift => production' \in {production, "other"}
    BY DEF Drift
  <2> QED BY <2>1, <2>2, <2>3
<1> QED BY <1>2, <1>3, <1>5, <1>6, <1>7

LEMMA CrashKeeps ==
  ASSUME ProductionInv, Crash, UNCHANGED readinessVars
  PROVE  ProductionInv' /\ UNCHANGED <<production, done, history, file>>
<1> USE DEF ProductionInv
<1>1. /\ UNCHANGED <<readiness, production, done, history, file, staged, receipt, backup>>
      /\ rehearsing' = Resting /\ call' = [c \in Appliers |-> Unused] /\ written' = FALSE
      /\ clone' \in {clone, "torn"}
  BY DEF Crash, readinessVars
<1>2. /\ Unused \in Applies /\ Unused.at = "idle" /\ Unused.does = "none"
      /\ Unused.event = "none"
  BY DEF Unused, Applies, ApplyPoints
<1>3. /\ Resting \in Rehearsals /\ Resting.at = "idle" /\ Resting.seen = "none"
  BY DEF Resting, Rehearsals, RehearsalPoints, Phases
<1>4. TypeInv'
  BY <1>1, <1>2, <1>3 DEF TypeInv, Routes
<1>5. Events(file)' = Events(file) /\ \A o : EventsOf(o)' = EventsOf(o)
  BY <1>1, JournalsStay
<1>6. RehearsalInv'
  <2>1. RehearsalJournal'
    BY <1>1, <1>5 DEF RehearsalInv, RehearsalJournal
  <2>2. \A p : CloneAfter(p) # "torn" /\ CloneAfter(p) # "none" /\ CloneAfter(p)' = CloneAfter(p)
    BY DEF CloneAfter
  <2>3. CloneIsKnown'
    BY <1>1, <1>3, <2>2 DEF RehearsalInv, CloneIsKnown
  <2>4. RehearsalRelies(rehearsing)'
    BY <1>1, <1>3 DEF RehearsalRelies
  <2> QED BY <2>1, <2>3, <2>4 DEF RehearsalInv
<1>7. \A c \in Appliers : call'[c] = Unused
  BY <1>1
<1>8. Dead => Dead'
  BY <1>1, <1>2, <1>5, <1>7 DEF Dead, MayWrite
<1>9. ApplyJournal'
  BY <1>1, <1>5 DEF ApplyInv, ApplyJournal
<1>10. ApplyCalls' /\ ExecutesOnProof'
  BY <1>2, <1>7 DEF ApplyCalls, OneTemporaryFile, Staging, CallRelies, Executing, NotYetSeen,
                    MayWrite, ExecutesOnProof
<1>11. ReceiptTells'
  BY <1>1, <1>8 DEF ApplyInv, ReceiptTells
<1> QED BY <1>1, <1>4, <1>6, <1>9, <1>10, <1>11 DEF ApplyInv

-----------------------------------------------------------------------------
(* Theorems *)

\* What a step of the rehearsal writes to its journal.
LEMMA HistoryStep ==
  ASSUME TypeInv, RehearsalInv, RehearsalNext
  PROVE  \/ UNCHANGED history
         \/ /\ UNCHANGED done
            /\ \E line \in HistoryLines :
                 /\ history' = Append(history, line)
                 /\ line.event = "reserved" => EventsOf(line.phase) = {}
<1>1. CASE OpenHistory
  <2>1. CASE UNCHANGED history
    BY <2>1
  <2>2. CASE /\ history # <<>>
             /\ history' = Append(history, Line(history[Len(history)].phase, "manual"))
    <3>1. history[Len(history)] \in HistoryLines
      BY <2>2, ElementOfSeq, LenProperties, EmptySeq DEF TypeInv
    <3>2. /\ Line(history[Len(history)].phase, "manual") \in HistoryLines
          /\ Line(history[Len(history)].phase, "manual").event = "manual"
      BY <3>1 DEF Line, HistoryLines, RehearsalEvents
    <3>3. UNCHANGED done
      BY <1>1 DEF OpenHistory
    <3> QED BY <2>2, <3>2, <3>3
  <2> QED BY <1>1, <2>1, <2>2 DEF OpenHistory
<1>2. CASE Record
  <2> DEFINE line == Line(rehearsing.phase, rehearsing.event)
  <2>1. /\ rehearsing.phase \in Phases /\ rehearsing.event \in RehearsalEvents
        /\ UNCHANGED done
    BY <1>2 DEF TypeInv, Rehearsals, Record, RehearsalInv, RehearsalRelies
  <2>2. line \in HistoryLines /\ line.phase \in Phases
    BY <2>1 DEF Line, HistoryLines
  <2>3. \/ UNCHANGED history
        \/ Fresh /\ Continues(entries, line) /\ history' = Append(history, line)
    BY <1>2 DEF Record
  <2>4. ASSUME Fresh, Continues(entries, line), line.event = "reserved"
        PROVE  EventsOf(line.phase) = {}
    <3>1. Stage(history, line.phase) = "none"
      BY <2>4 DEF Fresh, Continues
    <3> HIDE DEF line
    <3> QED BY <2>2, <3>1, StageIsSaid
  <2> HIDE DEF line
  <2> QED BY <2>1, <2>2, <2>3, <2>4
<1>3. CASE ~OpenHistory /\ ~Record
  BY <1>3 DEF RehearsalNext, Rehearse, Reconcile, Reads, CheckProduction, ChangeClone, Judge,
              Recheck, Finalize, Finalized
<1> QED BY <1>1, <1>2, <1>3

\* What a step of the apply writes to its journal.
LEMMA FileStep ==
  ASSUME TypeInv, ApplyInv, ApplyNext
  PROVE  \/ UNCHANGED file
         \/ UNCHANGED done /\ \E line \in FileLines : file' = Append(file, line)
<1>1. ASSUME NEW c \in Appliers, AppendLine(c)
      PROVE  \/ UNCHANGED file
             \/ UNCHANGED done /\ \E line \in FileLines : file' = Append(file, line)
  <2>1. call[c] \in Applies /\ CallRelies(call[c]) /\ call[c].at = "appending"
    BY <1>1, CallAt DEF AppendLine
  <2>2. JournalLine(call[c].sequence, call[c].event) \in FileLines
    BY <2>1 DEF CallRelies, JournalLine, FileLines, Applies
  <2> QED BY <1>1, <2>2 DEF AppendLine, Unchanged
<1>2. ASSUME NEW c \in Appliers,
             \/ Execute(c) \/ Recover(c) \/ Decide(c) \/ PrepareLine(c)
             \/ BeginWrite(c) \/ StageState(c) \/ LookAgain(c) \/ Rename(c)
             \/ ReadBack(c) \/ Answer(c)
      PROVE  UNCHANGED file
  BY <1>2 DEF Execute, Recover, Decide, PrepareLine, BeginWrite, StageState, LookAgain, Rename,
              ReadBack, Answer, Unchanged
<1>3. Capture \/ Prepare \/ OpenJournal => UNCHANGED file
  BY DEF Capture, Prepare, OpenJournal
<1> QED BY <1>1, <1>2, <1>3 DEF ApplyNext

LEMMA InitKeeps == Init => ProductionInv
<1> SUFFICES ASSUME Init PROVE ProductionInv
  OBVIOUS
<1> USE DEF Init, ReadinessInit, RehearsalInit, ApplyInit
<1>1. /\ Unused \in Applies /\ Unused.at = "idle" /\ Unused.does = "none"
      /\ Unused.event = "none"
  BY DEF Unused, Applies, ApplyPoints
<1>2. /\ Resting \in Rehearsals /\ Resting.at = "idle" /\ Resting.seen = "none"
  BY DEF Resting, Rehearsals, RehearsalPoints, Phases
<1>3. <<>> \in Seq(HistoryLines) /\ <<>> \in Seq(FileLines) /\ DOMAIN <<>> = {}
  OBVIOUS
<1>4. /\ receipt \in [class : {"none"} \union {Classes[e] : e \in ApplyEvents}, quiet : BOOLEAN]
      /\ receipt.class = "none"
  BY DEF NoReceipt
<1>5. TypeInv
  BY <1>1, <1>2, <1>3, <1>4 DEF TypeInv, Routes, Operations
<1>6. Events(file) = {} /\ \A o : EventsOf(o) = {}
  BY <1>3 DEF EventsOf, Events, LinesOf
<1>7. \A c \in Appliers : call[c] = Unused
  OBVIOUS
<1>8. RehearsalInv
  <2>1. \A p : CloneAfter(p) # "reference" /\ CloneAfter(p) # "none"
    BY DEF CloneAfter
  <2> QED BY <1>2, <1>6, <2>1 DEF RehearsalInv, RehearsalJournal, CloneIsKnown, RehearsalRelies,
                                  Operations
<1>9. ApplyCalls /\ ExecutesOnProof
  BY <1>1, <1>7 DEF ApplyCalls, OneTemporaryFile, Staging, CallRelies, Executing, NotYetSeen,
                    MayWrite, ExecutesOnProof
<1>10. ApplyJournal /\ ReceiptTells
  BY <1>4, <1>6 DEF ApplyJournal, ReceiptTells, Operations
<1> QED BY <1>5, <1>8, <1>9, <1>10 DEF ProductionInv, ApplyInv

LEMMA RehearsalStepKeeps ==
  ASSUME ProductionInv, RehearsalNext, UNCHANGED <<readinessVars, applyVars>>
  PROVE  ProductionInv'
<1> USE DEF ProductionInv
<1>1. /\ UNCHANGED <<readiness, file, staged, call, receipt, backup, written>>
      /\ UNCHANGED <<readinessVars, applyVars>>
  BY DEF readinessVars, applyVars
<1>2. /\ RehearsalInv' /\ RehearsalTypes' /\ UNCHANGED production
      /\ done' \in [Operations -> Nat] /\ done'["apply"] = done["apply"]
      /\ \/ UNCHANGED done
         \/ /\ UNCHANGED history
            /\ \E p \in Phases : /\ done[p] = 0 /\ "reserved" \in EventsOf(p)
                                 /\ done' = [done EXCEPT ![p] = 1]
  BY <1>1, RehearsalKeeps
<1>3. TypeInv'
  BY <1>1, <1>2 DEF TypeInv, RehearsalTypes
<1>4. ApplyInv'
  BY <1>1, <1>2, ApplyStays
<1>5. ExecutesOnProof'
  <2>1. Proven => Proven'
    <3> SUFFICES ASSUME Proven PROVE Proven'
      OBVIOUS
    <3>1. done'["candidate"] = 1 /\ done'["restore"] = 1
      BY <1>2 DEF Proven, TypeInv, Operations, Phases
    <3>2. "committed" \in EventsOf("restore")'
      <4>1. CASE UNCHANGED history
        BY <1>1, <4>1, JournalsStay DEF Proven
      <4>2. ASSUME NEW line \in HistoryLines, history' = Append(history, line)
            PROVE  "committed" \in EventsOf("restore")'
        BY <1>1, <4>2, HistoryGrows DEF Proven, Operations, Phases
      <4> QED BY <4>1, <4>2, HistoryStep
    <3> QED BY <1>1, <3>1, <3>2 DEF Proven
  <2> QED BY <1>1, <2>1 DEF ExecutesOnProof
<1> QED BY <1>2, <1>3, <1>4, <1>5

LEMMA ApplyStepKeeps ==
  ASSUME ProductionInv, ApplyNext, UNCHANGED readinessVars
  PROVE  ProductionInv'
<1> USE DEF ProductionInv
<1>1. UNCHANGED readiness
  BY DEF readinessVars
<1>2. /\ ApplySafe' /\ done' \in [Operations -> Nat]
      /\ UNCHANGED rehearsalVars
      /\ UNCHANGED done \/ done' = [done EXCEPT !["apply"] = 1]
  BY <1>1, ApplyKeeps
<1>3. UNCHANGED <<clone, history, rehearsing>>
  BY <1>2 DEF rehearsalVars
<1>4. \A p \in Phases : done'[p] = done[p]
  BY <1>2 DEF TypeInv, Phases, Operations
<1>5. \A p \in Phases : EventsOf(p)' = EventsOf(p)
  BY <1>3 DEF EventsOf, Phases
<1>6. RehearsalInv'
  <2>1. "candidate" \in Phases /\ "restore" \in Phases /\ rehearsing.phase \in Phases
    BY DEF Phases, TypeInv, Rehearsals
  <2>2. RehearsalJournal'
    BY <1>4, <1>5, <2>1 DEF RehearsalInv, RehearsalJournal
  <2>3. CloneIsKnown'
    BY <1>3, <1>4 DEF RehearsalInv, CloneIsKnown, CloneAfter
  <2>4. RehearsalRelies(rehearsing)'
    BY <1>3, <1>4, <1>5, <2>1 DEF RehearsalInv, RehearsalRelies
  <2> QED BY <2>2, <2>3, <2>4 DEF RehearsalInv
<1>7. TypeInv'
  BY <1>2, <1>3 DEF TypeInv, ApplySafe, ApplyTypes
<1> QED BY <1>2, <1>6, <1>7 DEF ApplySafe

\* Every step keeps the invariant.
LEMMA NextKeeps ==
  ASSUME ProductionInv, [Next]_vars
  PROVE  ProductionInv'
<1>1. CASE ReadinessNext /\ UNCHANGED <<production, done, rehearsalVars, applyVars>>
  BY <1>1, DecisionKeeps
<1>2. CASE RehearsalNext /\ UNCHANGED <<readinessVars, applyVars>>
  BY <1>2, RehearsalStepKeeps
<1>3. CASE ApplyNext /\ UNCHANGED readinessVars
  BY <1>3, ApplyStepKeeps
<1>4. CASE (Drift \/ RestoreBackup \/ Crash) /\ UNCHANGED readinessVars
  BY <1>4, DriftKeeps, CrashKeeps
<1>5. CASE UNCHANGED vars
  <2>1. UNCHANGED <<readiness, production, done, clone, history, rehearsing>>
    BY <1>5 DEF vars, readinessVars, rehearsalVars
  <2>2. UNCHANGED <<backup, file, staged, written, call, receipt>>
    BY <1>5 DEF vars, applyVars
  <2>3. TypeInv'
    BY <2>1, <2>2 DEF ProductionInv, TypeInv
  <2>4. RehearsalInv' /\ ApplyInv'
    BY <2>1, <2>2, RehearsalStays, ApplyStays DEF ProductionInv
  <2>5. ExecutesOnProof'
    BY <2>1, <2>2, JournalsStay DEF ProductionInv, ExecutesOnProof, Proven
  <2> QED BY <2>3, <2>4, <2>5 DEF ProductionInv
<1> QED BY <1>1, <1>2, <1>3, <1>4, <1>5 DEF Next

\* The rehearsal, the apply and all that happens around them keep the
\* invariant.
THEOREM ProductionInvariant == Spec => []ProductionInv
<1> QED BY InitKeeps, NextKeeps, PTL DEF Spec

\* A receipt stays true, whatever other calls and processes do later.
THEOREM ReceiptsStayTrue == Spec => []ReceiptsHold
<1>1. ProductionInv => ReceiptsHold
  BY DEF ProductionInv, ApplyInv, ReceiptTells, ReceiptsHold, Dead
<1> QED BY <1>1, ProductionInvariant, PTL

\* Production is only changed with the reference backed up, after an allowed
\* decision and a rehearsal carried out in full.
THEOREM ChangesAreProven == Spec => WritesOnProof
<1> DEFINE Change ==
      production' = "candidate" /\ production # "candidate" =>
        /\ backup = "whole"
        /\ readiness = [class |-> "READY", decision |-> "allow"]
        /\ "committed" \in EventsOf("restore")
        /\ done["candidate"] = 1 /\ done["restore"] = 1
<1>1. ProductionInv /\ [Next]_vars => [Change]_vars
  <2> SUFFICES ASSUME ProductionInv, [Next]_vars,
                      production' = "candidate", production # "candidate"
               PROVE  Proven
    BY DEF Proven
  <2>1. CASE ApplyNext /\ UNCHANGED readinessVars
    BY <2>1, ApplyKeeps DEF readinessVars
  <2>2. CASE RehearsalNext /\ UNCHANGED <<readinessVars, applyVars>>
    BY <2>2, RehearsalKeeps DEF ProductionInv
  <2>3. CASE (Drift \/ RestoreBackup \/ Crash) /\ UNCHANGED readinessVars
    BY <2>3, DriftKeeps, CrashKeeps
  <2>4. CASE UNCHANGED production
    BY <2>4
  <2> QED BY <2>1, <2>2, <2>3, <2>4 DEF Next, vars
<1> QED BY <1>1, ProductionInvariant, PTL DEF Spec, WritesOnProof

-----------------------------------------------------------------------------
(* The promise *)

\* What an operation's change and its journal have to do with each other.
LEMMA OperationsStand ==
  ASSUME ProductionInv, NEW o \in Operations
  PROVE  /\ done[o] = 0 \/ done[o] = 1
         /\ done[o] = 1 => "reserved" \in EventsOf(o)
         /\ "committed" \in EventsOf(o) => done[o] = 1
         /\ EventsOf(o) \subseteq ApplyEvents
<1>1. done[o] \in Nat /\ EventsOf(o) \subseteq ApplyEvents
  BY EventsTyped DEF ProductionInv, TypeInv
<1>2. CASE o \in Phases
  BY <1>1, <1>2 DEF ProductionInv, RehearsalInv, RehearsalJournal
<1>3. CASE o = "apply"
  <2>1. EventsOf("apply") = Events(file)
    BY EventsTyped DEF ProductionInv
  <2> QED BY <1>1, <1>3, <2>1 DEF ProductionInv, ApplyInv, ApplyJournal
<1> QED BY <1>2, <1>3 DEF Operations

\* How far an operation got.
LEMMA ReachedTells ==
  ASSUME ProductionInv, NEW o \in Operations
  PROVE  Reached[o] = IF done[o] = 1 THEN "written"
                      ELSE IF "reserved" \in EventsOf(o) THEN "reserved" ELSE "unused"
<1> DEFINE R(n, e) == CASE n > 1 -> "written again"
                        [] n = 1 -> "written"
                        [] n = 0 /\ "reserved" \in e -> "reserved"
                        [] OTHER -> "unused"
<1>1. \A e : R(0, e) = IF "reserved" \in e THEN "reserved" ELSE "unused"
  OBVIOUS
<1>2. \A e : R(1, e) = "written"
  OBVIOUS
<1>3. Reached[o] = R(done[o], EventsOf(o))
  BY DEF Reached
<1>4. done[o] = 0 \/ done[o] = 1
  BY OperationsStand
<1> HIDE DEF R
<1> QED BY <1>1, <1>2, <1>3, <1>4

\* The verdict an event stands for.
VerdictOf(e) == CASE e = "committed" -> "applied"
                  [] e = "safe"      -> "not_applied"
                  [] OTHER           -> e

LEMMA ClaimedTells ==
  ASSUME NEW o \in Operations
  PROVE  Claimed[o] = IF "reserved" \in EventsOf(o)
                      THEN {VerdictOf(e) : e \in EventsOf(o) \ {"reserved"}} ELSE {}
BY DEF Claimed, VerdictOf

\* Both are functions of the operations.
LEMMA ReachedAndClaimedAreFunctions ==
  /\ Reached = [o \in Operations |-> Reached[o]]
  /\ Claimed = [o \in Operations |-> Claimed[o]]
<1> DEFINE R(o) == CASE done[o] > 1 -> "written again"
                     [] done[o] = 1 -> "written"
                     [] done[o] = 0 /\ "reserved" \in EventsOf(o) -> "reserved"
                     [] OTHER -> "unused"
           C(o) == IF "reserved" \in EventsOf(o)
                   THEN {CASE e = "committed" -> "applied"
                           [] e = "safe"      -> "not_applied"
                           [] OTHER           -> e : e \in EventsOf(o) \ {"reserved"}}
                   ELSE {}
<1>1. Reached = [o \in Operations |-> R(o)] /\ Claimed = [o \in Operations |-> C(o)]
  BY DEF Reached, Claimed
<1> HIDE DEF R, C
<1> QED BY <1>1

\* What all operations are, before a step and after it.
Standing(o) ==
  /\ Reached[o] = IF done[o] = 1 THEN "written"
                  ELSE IF "reserved" \in EventsOf(o) THEN "reserved" ELSE "unused"
  /\ Claimed[o] = IF "reserved" \in EventsOf(o)
                  THEN {VerdictOf(e) : e \in EventsOf(o) \ {"reserved"}} ELSE {}
  /\ "committed" \in EventsOf(o) => done[o] = 1

LEMMA AllStand ==
  /\ ProductionInv => \A o \in Operations : Standing(o)
  /\ Reached = [o \in Operations |-> Reached[o]]
  /\ Claimed = [o \in Operations |-> Claimed[o]]
BY ReachedTells, ClaimedTells, OperationsStand, ReachedAndClaimedAreFunctions DEF Standing

LEMMA AfterStep ==
  ASSUME ProductionInv'
  PROVE  /\ \A o \in Operations : Standing(o)'
         /\ Reached' = [o \in Operations |-> Reached'[o]]
         /\ Claimed' = [o \in Operations |-> Claimed'[o]]
<1>1. ( /\ ProductionInv => \A o \in Operations : Standing(o)
        /\ Reached = [o \in Operations |-> Reached[o]]
        /\ Claimed = [o \in Operations |-> Claimed[o]] )'
  BY AllStand, PTL
<1> QED BY <1>1 DEF Operations, Phases

\* An event more in an operation's journal: its reservation, a verdict on what
\* was reserved, or nothing new.
LEMMA LinePromised ==
  ASSUME ProductionInv, ProductionInv', NEW o \in Operations, NEW e \in ApplyEvents,
         EventsOf(o)' = EventsOf(o) \union {e},
         \A q \in Operations \ {o} : EventsOf(q)' = EventsOf(q), UNCHANGED done,
         e = "reserved" => EventsOf(o) = {} \/ "reserved" \in EventsOf(o)
  PROVE  [Promise!Next]_<<Reached, Claimed>>
<1>1. /\ \A q \in Operations : Standing(q) /\ Standing(q)'
      /\ Reached = [q \in Operations |-> Reached[q]]
      /\ Claimed = [q \in Operations |-> Claimed[q]]
      /\ Reached' = [q \in Operations |-> Reached'[q]]
      /\ Claimed' = [q \in Operations |-> Claimed'[q]]
  BY AllStand, AfterStep
<1>2. \A q \in Operations \ {o} : Reached'[q] = Reached[q] /\ Claimed'[q] = Claimed[q]
  BY <1>1 DEF Standing
<1>3. CASE Reached'[o] = Reached[o] /\ Claimed'[o] = Claimed[o]
  BY <1>1, <1>2, <1>3
<1>4. CASE e = "reserved" /\ "reserved" \notin EventsOf(o)
  <2>1. EventsOf(o) = {} /\ EventsOf(o)' = {"reserved"}
    BY <1>4
  <2>2. done[o] # 1
    BY <2>1, OperationsStand
  <2>3. Reached[o] = "unused" /\ Reached'[o] = "reserved"
    BY <1>1, <2>1, <2>2 DEF Standing
  <2>4. Claimed[o] = {} /\ Claimed'[o] = {}
    BY <1>1, <2>1 DEF Standing
  <2>5. Reached' = [Reached EXCEPT ![o] = "reserved"] /\ Claimed' = Claimed
    BY <1>1, <1>2, <2>3, <2>4
  <2> QED BY <2>3, <2>5 DEF Promise!Next, Promise!Reserve
<1>5. CASE e # "reserved" /\ "reserved" \in EventsOf(o)
  <2>1. /\ "reserved" \in EventsOf(o)'
        /\ EventsOf(o)' \ {"reserved"} = (EventsOf(o) \ {"reserved"}) \union {e}
    BY <1>5
  <2>2. Reached'[o] = Reached[o] /\ Reached[o] # "unused"
    BY <1>1, <1>5, <2>1 DEF Standing
  <2>3. Claimed'[o] = Claimed[o] \union {VerdictOf(e)}
    BY <1>1, <1>5, <2>1 DEF Standing
  <2>4. VerdictOf(e) \in Promise!Verdicts /\ (VerdictOf(e) = "applied" => e = "committed")
    BY <1>5 DEF VerdictOf, Promise!Verdicts, ApplyEvents
  <2>5. e = "committed" => Reached[o] = "written"
    BY <1>1 DEF Standing
  <2>6. Reached' = Reached /\ Claimed' = [Claimed EXCEPT ![o] = Claimed[o] \union {VerdictOf(e)}]
    BY <1>1, <1>2, <2>2, <2>3
  <2>7. Promise!Claim(o, VerdictOf(e))
    BY <2>2, <2>4, <2>5, <2>6 DEF Promise!Claim
  <2> QED BY <2>4, <2>7 DEF Promise!Next
<1>6. CASE \/ e = "reserved" /\ "reserved" \in EventsOf(o)
           \/ e # "reserved" /\ "reserved" \notin EventsOf(o)
  <2>1. Reached'[o] = Reached[o] /\ Claimed'[o] = Claimed[o]
    <3>1. CASE e = "reserved" /\ "reserved" \in EventsOf(o)
      BY <1>1, <3>1 DEF Standing
    <3>2. CASE e # "reserved" /\ "reserved" \notin EventsOf(o)
      BY <1>1, <3>2 DEF Standing
    <3> QED BY <1>6, <3>1, <3>2
  <2> QED BY <1>3, <2>1
<1> QED BY <1>4, <1>5, <1>6

\* A reserved operation is carried out.
LEMMA ChangePromised ==
  ASSUME ProductionInv, ProductionInv', NEW o \in Operations,
         done[o] = 0, "reserved" \in EventsOf(o), done' = [done EXCEPT ![o] = 1],
         \A q \in Operations : EventsOf(q)' = EventsOf(q)
  PROVE  Promise!Next
<1>1. /\ \A q \in Operations : Standing(q) /\ Standing(q)'
      /\ Reached = [q \in Operations |-> Reached[q]]
      /\ Claimed = [q \in Operations |-> Claimed[q]]
      /\ Reached' = [q \in Operations |-> Reached'[q]]
      /\ Claimed' = [q \in Operations |-> Claimed'[q]]
  BY AllStand, AfterStep
<1>2. done'[o] = 1 /\ \A q \in Operations \ {o} : done'[q] = done[q]
  BY DEF ProductionInv, TypeInv
<1>3. /\ Reached[o] = "reserved" /\ Reached'[o] = "written"
      /\ \A q \in Operations \ {o} : Reached'[q] = Reached[q]
      /\ \A q \in Operations : Claimed'[q] = Claimed[q]
  <2>1. Reached[o] = "reserved" /\ Reached'[o] = "written"
    BY <1>1, <1>2 DEF Standing
  <2>2. \A q \in Operations \ {o} : Reached'[q] = Reached[q]
    BY <1>1, <1>2 DEF Standing
  <2>3. \A q \in Operations : Claimed'[q] = Claimed[q]
    BY <1>1 DEF Standing
  <2> QED BY <2>1, <2>2, <2>3
<1>4. Reached' = [Reached EXCEPT ![o] = "written"] /\ Claimed' = Claimed
  BY <1>1, <1>3
<1> QED BY <1>3, <1>4 DEF Promise!Next, Promise!Write

\* Nothing that the promise is about.
LEMMA NothingPromised ==
  ASSUME UNCHANGED <<done, history, file>>
  PROVE  UNCHANGED <<Reached, Claimed>>
<1>1. \A o : EventsOf(o)' = EventsOf(o)
  BY JournalsStay
<1> QED BY <1>1 DEF Reached, Claimed

\* The rehearsal's operations and the apply are reserved before they are carried
\* out, carried out at most once, and only claimed to be applied when they were.
THEOREM ProductionKeepsPromise == Spec => KeepsPromise
<1>1. Init => Promise!Init
  <2> SUFFICES ASSUME Init PROVE Promise!Init
    OBVIOUS
  <2>1. \A o \in Operations : EventsOf(o) = {} /\ done[o] = 0
    BY DEF Init, ApplyInit, RehearsalInit, EventsOf, Events, LinesOf
  <2>2. \A o \in Operations : Standing(o)
    BY InitKeeps, AllStand
  <2>3. \A o \in Operations : Reached[o] = "unused" /\ Claimed[o] = {}
    BY <2>1, <2>2 DEF Standing
  <2> QED BY <2>3, AllStand DEF Promise!Init
<1>2. ProductionInv /\ ProductionInv' /\ [Next]_vars => [Promise!Next]_<<Reached, Claimed>>
  <2> SUFFICES ASSUME ProductionInv, ProductionInv', [Next]_vars
               PROVE  [Promise!Next]_<<Reached, Claimed>>
    OBVIOUS
  <2>1. CASE RehearsalNext /\ UNCHANGED <<readinessVars, applyVars>>
    <3>1. UNCHANGED file /\ TypeInv /\ RehearsalInv
      BY <2>1 DEF applyVars, ProductionInv
    <3>2. ASSUME NEW p \in Phases, done[p] = 0, "reserved" \in EventsOf(p), UNCHANGED history,
                 done' = [done EXCEPT ![p] = 1]
          PROVE  Promise!Next
      BY <3>1, <3>2, ChangePromised, JournalsStay DEF Operations
    <3>3. ASSUME NEW line \in HistoryLines, history' = Append(history, line), UNCHANGED done,
                 line.event = "reserved" => EventsOf(line.phase) = {}
          PROVE  [Promise!Next]_<<Reached, Claimed>>
      <4>1. line.phase \in Operations /\ line.event \in ApplyEvents
        BY DEF HistoryLines, RehearsalEvents, ApplyEvents, Operations
      <4>2. /\ EventsOf(line.phase)' = EventsOf(line.phase) \union {line.event}
            /\ \A o \in Operations \ {line.phase} : EventsOf(o)' = EventsOf(o)
        BY <3>1, <3>3, HistoryGrows
      <4> QED BY <3>3, <4>1, <4>2, LinePromised
    <3>4. CASE UNCHANGED <<done, history>>
      BY <3>1, <3>4, NothingPromised
    <3>5. \/ UNCHANGED done
          \/ /\ UNCHANGED history
             /\ \E p \in Phases : /\ done[p] = 0 /\ "reserved" \in EventsOf(p)
                                  /\ done' = [done EXCEPT ![p] = 1]
      BY <2>1, <3>1, RehearsalKeeps
    <3>6. \/ UNCHANGED history
          \/ /\ UNCHANGED done
             /\ \E line \in HistoryLines :
                  /\ history' = Append(history, line)
                  /\ line.event = "reserved" => EventsOf(line.phase) = {}
      BY <2>1, <3>1, HistoryStep
    <3> QED BY <3>2, <3>3, <3>4, <3>5, <3>6
  <2>2. CASE ApplyNext /\ UNCHANGED readinessVars
    <3>1. TypeInv /\ ApplyInv /\ ApplyJournal /\ UNCHANGED history
      BY <2>2, ApplyKeeps DEF ProductionInv, ApplyInv, readinessVars, rehearsalVars
    <3>2. EventsOf("apply") = Events(file) /\ "apply" \in Operations
      BY <3>1, EventsTyped DEF Operations
    <3>3. ASSUME UNCHANGED file, done["apply"] = 0, "reserved" \in Events(file),
                 done' = [done EXCEPT !["apply"] = 1]
          PROVE  Promise!Next
      BY <3>1, <3>2, <3>3, ChangePromised, JournalsStay
    <3>4. ASSUME UNCHANGED done, NEW line \in FileLines, file' = Append(file, line)
          PROVE  [Promise!Next]_<<Reached, Claimed>>
      <4>1. /\ line.event \in ApplyEvents
            /\ EventsOf("apply")' = EventsOf("apply") \union {line.event}
            /\ \A p \in Phases : EventsOf(p)' = EventsOf(p)
        BY <3>1, <3>4, FileGrows DEF FileLines
      <4>2. EventsOf("apply") = {} \/ "reserved" \in EventsOf("apply")
        BY <3>1, <3>2 DEF ApplyJournal
      <4> QED BY <3>2, <3>4, <4>1, <4>2, LinePromised DEF Operations
    <3>5. CASE UNCHANGED <<done, file>>
      BY <3>1, <3>5, NothingPromised
    <3>6. \/ UNCHANGED done
          \/ /\ UNCHANGED file
             /\ done["apply"] = 0 /\ "reserved" \in Events(file)
             /\ done' = [done EXCEPT !["apply"] = 1]
      BY <2>2, ApplyKeeps DEF readinessVars
    <3>7. UNCHANGED file \/ (UNCHANGED done /\ \E line \in FileLines : file' = Append(file, line))
      BY <2>2, <3>1, FileStep
    <3> QED BY <3>3, <3>4, <3>5, <3>6, <3>7
  <2>3. CASE UNCHANGED <<done, history, file>>
    BY <2>3, NothingPromised
  <2>4. \/ ReadinessNext /\ UNCHANGED <<production, done, rehearsalVars, applyVars>>
        \/ (Drift \/ RestoreBackup \/ Crash) /\ UNCHANGED readinessVars
        \/ UNCHANGED vars
        => UNCHANGED <<done, history, file>>
    BY DEF Drift, RestoreBackup, Crash, vars, rehearsalVars, applyVars
  <2> QED BY <2>1, <2>2, <2>3, <2>4 DEF Next
<1> QED BY <1>1, <1>2, ProductionInvariant, PTL DEF Spec, KeepsPromise, Promise!Spec
=============================================================================
