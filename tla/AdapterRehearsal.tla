--------------------------- MODULE AdapterRehearsal ---------------------------
(***************************************************************************)
(* The rehearsal of a production adapter: the candidate route is put into  *)
(* a clone of the production state, and then the reference is restored,    *)
(* each reserved in a journal before and committed after, while production *)
(* must stay what it was.  The readiness decision, verified on every call  *)
(* and for every line of the journal, allows one candidate and one restore *)
(* operation.                                                              *)
(*                                                                         *)
(* The coordinator is called once at a time; a call reads production,      *)
(* clone and journal at different moments, and others may change           *)
(* production in between.  A digest stands for the content it was taken    *)
(* of, and an unreadable production state for any other that is not the    *)
(* reference.  Torn journal lines and power losses are in JsonlStore.      *)
(***************************************************************************)
EXTENDS RoutingReadiness, Naturals, Sequences, FiniteSets

CONSTANT Closed   \* no journal object

VARIABLES
  production,  \* the production state file
  clone,       \* the rehearsal clone's state file
  history,     \* the lines of the rehearsal journal's file
  entries,     \* the lines its object has, or Closed
  rehearsing,  \* the call of the coordinator
  done,        \* how often each operation changed its route
  passed       \* a rehearsal receipt was given

rehearsalVars == <<clone, history, entries, rehearsing, passed>>

Phases == {"candidate", "restore"}
\* The states of a route; a restored clone has a higher mutation count.
Routes == {"reference", "candidate", "restored", "other", "torn"}

\* A call at rest.  seen is the clone it read, event what it will record.
Resting == [at |-> "idle", does |-> "none", phase |-> "candidate", seen |-> "none",
            event |-> "none"]

RehearsalInit ==
  /\ clone = "reference"
  /\ history = <<>>
  /\ entries = Closed
  /\ rehearsing = Resting
  /\ passed = FALSE

-----------------------------------------------------------------------------
(* The journal *)

Line(phase, event) == [phase |-> phase, event |-> event]
LinesOf(lines, phase) == {n \in DOMAIN lines : lines[n].phase = phase}

\* The stage a phase has reached: the event of its last line.
Stage(lines, phase) ==
  LET own == LinesOf(lines, phase)
  IN IF own = {} THEN "none" ELSE lines[CHOOSE n \in own : \A m \in own : m <= n].event

HasManual(lines) == \E n \in DOMAIN lines : lines[n].event = "manual"

\* verifyCanonicalJournalProgression, for one more line.
Continues(lines, line) ==
  /\ Authority
  /\ ~HasManual(lines)
  /\ line.phase = "candidate" => LinesOf(lines, "restore") = {}
  /\ line.phase = "restore" => Stage(lines, "candidate") = "committed"
  /\ line.event = "reserved" => Stage(lines, line.phase) = "none"
  /\ line.event = "committed" => Stage(lines, line.phase) = "reserved"

\* assertFreshRead
Fresh == entries = history
Complete(lines) == Stage(lines, "restore") = "committed"

Rests == rehearsing' = Resting

\* append() of the line a call is about to record; it may throw with the line
\* in the file.  A reservation is followed by the change, any other event ends
\* the call.
Record ==
  LET line == Line(rehearsing.phase, rehearsing.event) IN
  /\ rehearsing.at = "recording"
  /\ \/ /\ Fresh /\ Continues(entries, line)
        /\ history' = Append(history, line)
        /\ entries' = Append(entries, line)
        /\ IF rehearsing.event = "reserved"
           THEN rehearsing' = [rehearsing EXCEPT !.at = "reserved"] ELSE Rests
     \/ /\ Fresh /\ Continues(entries, line)
        /\ history' = Append(history, line)
        /\ Rests /\ UNCHANGED entries
     \/ Rests /\ UNCHANGED <<history, entries>>
  /\ UNCHANGED <<production, clone, done, passed>>

\* open(): a journal with lines is only opened while production is the
\* reference; if it is not, that is put down for manual reconciliation.
OpenHistory ==
  /\ rehearsing.at = "idle"
  /\ history # <<>> => Authority
  /\ IF history = <<>> \/ production = "reference"
     THEN entries' = history /\ UNCHANGED history
     ELSE /\ entries' = Closed
          /\ history' = IF HasManual(history) THEN history
                        ELSE Append(history, Line(history[Len(history)].phase, "manual"))
  /\ UNCHANGED <<production, clone, rehearsing, done, passed>>

-----------------------------------------------------------------------------
(* applyCandidate and restoreReference *)

CloneBefore(phase) == IF phase = "candidate" THEN "reference" ELSE "candidate"
CloneAfter(phase) == IF phase = "candidate" THEN "candidate" ELSE "restored"

Reads(does, phase) ==
  /\ rehearsing.at = "idle"
  /\ Authority
  /\ entries # Closed /\ Fresh
  /\ clone # "torn"
  /\ rehearsing' = [Resting EXCEPT !.at = does, !.does = does, !.phase = phase, !.seen = clone]
  /\ UNCHANGED <<production, clone, history, entries, done, passed>>

\* A call begins: the operation is unused, and a candidate needs a clone that
\* is still the reference.
Rehearse(phase) ==
  /\ Reads("rehearse", phase)
  /\ ~HasManual(entries)
  /\ Stage(entries, phase) = "none"
  /\ phase = "candidate" => clone = "reference"
  /\ phase = "restore" => Stage(entries, "candidate") = "committed"

WillRecord(event) == rehearsing' = [rehearsing EXCEPT !.at = "recording", !.event = event]

\* assertProductionStable, before the reservation, the change and the commit.
CheckProduction ==
  LET stable == production = "reference" IN
  /\ \/ /\ rehearsing.at = "rehearse"
        /\ WillRecord(IF stable /\ rehearsing.seen = CloneBefore(rehearsing.phase)
                      THEN "reserved" ELSE "manual")
     \/ /\ rehearsing.at = "reserved"
        /\ IF stable THEN rehearsing' = [rehearsing EXCEPT !.at = "changing"]
                     ELSE WillRecord("manual")
     \/ /\ rehearsing.at = "changed"
        /\ WillRecord(IF stable THEN "committed" ELSE "manual")
  /\ UNCHANGED <<production, clone, history, entries, done, passed>>

\* writeCandidate or restore: the clone is compared once more and written,
\* perhaps in part.
ChangeClone ==
  LET phase == rehearsing.phase IN
  /\ rehearsing.at = "changing"
  /\ \/ /\ clone = CloneBefore(phase)
        /\ clone' = CloneAfter(phase)
        /\ done' = [done EXCEPT ![phase] = @ + 1]
        /\ rehearsing' = [rehearsing EXCEPT !.at = "changed"]
     \/ /\ clone = CloneBefore(phase)
        /\ clone' = "torn"
        /\ Rests /\ UNCHANGED done
     \/ Rests /\ UNCHANGED <<clone, done>>
  /\ UNCHANGED <<production, history, entries, passed>>

-----------------------------------------------------------------------------
(* reconcile and finalize *)

Reconcile(phase) == Reads("reconcile", phase)

\* Production drifted: what reconcile puts down for manual work.
ManualForCurrent ==
  LET phase == rehearsing.phase IN
    CASE Stage(entries, phase) \in {"reserved", "committed"} -> TRUE
      [] Stage(entries, phase) = "none" /\ phase = "candidate" -> rehearsing.seen = "reference"
      [] Stage(entries, phase) = "none" /\ phase = "restore" ->
           Stage(entries, "candidate") = "committed"
      [] OTHER -> FALSE

\* reconcile(), once production is read: the clone decides about a reserved
\* operation; one that is not applied stays reserved.
Judge ==
  LET phase == rehearsing.phase
      stage == Stage(entries, phase)
      seen == rehearsing.seen
  IN
  /\ rehearsing.at = "reconcile"
  /\ CASE production # "reference" /\ ManualForCurrent -> WillRecord("manual")
       [] production = "reference" /\ stage = "committed" /\ seen # CloneAfter(phase) ->
            WillRecord("manual")
       [] production = "reference" /\ stage = "reserved" /\ seen = CloneAfter(phase) ->
            rehearsing' = [rehearsing EXCEPT !.at = "recheck"]
       [] production = "reference" /\ stage = "reserved"
          /\ seen \notin {CloneBefore(phase), CloneAfter(phase)} -> WillRecord("manual")
       [] OTHER -> Rests
  /\ UNCHANGED <<production, clone, history, entries, done, passed>>

\* Production is read again before a commit is recovered.
Recheck ==
  /\ rehearsing.at = "recheck"
  /\ IF production = "reference" THEN WillRecord("committed") ELSE Rests
  /\ UNCHANGED <<production, clone, history, entries, done, passed>>

Finalize ==
  /\ Reads("finalize", "restore")
  /\ Complete(entries)
  /\ clone = "restored"

\* finalize(), once production is read.
Finalized ==
  /\ rehearsing.at = "finalize"
  /\ IF production = "reference"
     THEN passed' = TRUE /\ Rests
     ELSE WillRecord("manual") /\ UNCHANGED passed
  /\ UNCHANGED <<production, clone, history, entries, done>>

\* What verifyLocalProductionAdapterRehearsalReceipt asks of the journal and
\* the clone; production is asked for besides.
ReceiptVerifies ==
  /\ Authority
  /\ passed
  /\ entries # Closed /\ Fresh /\ Complete(entries)
  /\ clone = "restored"

RehearsalNext ==
  \/ OpenHistory
  \/ \E phase \in Phases : Rehearse(phase) \/ Reconcile(phase)
  \/ CheckProduction \/ Record \/ ChangeClone
  \/ Judge \/ Recheck
  \/ Finalize \/ Finalized
=============================================================================
