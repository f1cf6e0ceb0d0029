---------------------------- MODULE LocalProduction ---------------------------
(***************************************************************************)
(* The production file with everything that works on it: the decision that *)
(* it may be rehearsed, the rehearsal, which only reads it, the one        *)
(* authorized change, and others who change it at any moment; and the      *)
(* death of the process in between.                                        *)
(***************************************************************************)
EXTENDS RoutingApply

Operations == Phases \union {"apply"}

vars == <<readinessVars, production, done, rehearsalVars, applyVars>>

Init ==
  /\ production = "reference"
  /\ done = [o \in Operations |-> 0]
  /\ ReadinessInit
  /\ RehearsalInit
  /\ ApplyInit

\* Somebody else changes production, or the clone.
Drift ==
  /\ \/ production # "other" /\ production' = "other" /\ UNCHANGED clone
     \/ clone # "other" /\ clone' = "other" /\ UNCHANGED production
  /\ UNCHANGED <<history, entries, rehearsing, passed, done, applyVars>>

\* An operator restores the reference from the backup, while nothing runs and
\* no operation waits for a verdict.
RestoreBackup ==
  /\ backup = "whole"
  /\ production # "reference"
  /\ rehearsing.at = "idle" /\ \A c \in Appliers : call[c].at = "idle"
  /\ Events(file) # {"reserved"}
  /\ production' = "reference"
  /\ UNCHANGED <<rehearsalVars, done, applyVars>>

\* The process dies; the files stay as they are, except that a clone being
\* written is torn.
Crash ==
  /\ entries # Closed \/ log # Closed
  /\ entries' = Closed
  /\ log' = Closed
  /\ rehearsing' = Resting
  /\ call' = [c \in Appliers |-> Unused]
  /\ written' = FALSE
  /\ clone' \in {clone} \union (IF rehearsing.at = "changing" THEN {"torn"} ELSE {})
  /\ UNCHANGED <<production, history, passed, done, backup, chain, file, staged, receipt>>

Next ==
  \/ ReadinessNext /\ UNCHANGED <<production, done, rehearsalVars, applyVars>>
  \/ RehearsalNext /\ UNCHANGED <<readinessVars, applyVars>>
  \/ ApplyNext /\ UNCHANGED readinessVars
  \/ (Drift \/ RestoreBackup \/ Crash) /\ UNCHANGED readinessVars

Spec == Init /\ [][Next]_vars

-----------------------------------------------------------------------------
(* Properties *)

\* What the journals say of an operation.
EventsOf(o) == IF o = "apply" THEN Events(file)
               ELSE {history[n].event : n \in LinesOf(history, o)}

\* How far each operation got, and what was claimed of those that are reserved.
Reached == [o \in Operations |->
  CASE done[o] > 1 -> "written again"
    [] done[o] = 1 -> "written"
    [] done[o] = 0 /\ "reserved" \in EventsOf(o) -> "reserved"
    [] OTHER -> "unused"]
Claimed == [o \in Operations |->
  IF "reserved" \in EventsOf(o)
  THEN {CASE e = "committed" -> "applied"
          [] e = "safe"      -> "not_applied"
          [] OTHER           -> e : e \in EventsOf(o) \ {"reserved"}}
  ELSE {}]

\* The two rehearsal operations and the apply are authorized mutations: each
\* is reserved before it is carried out, carried out at most once over crashes
\* and recoveries, and committed only if it was carried out.
Promise == INSTANCE AuthorizedMutation WITH stage <- Reached, claims <- Claimed
KeepsPromise == Promise!Spec

\* Production is only changed with the reference backed up, after an allowed
\* readiness decision and a rehearsal carried out in full under it, though all
\* of this was looked at long before.
WritesOnProof ==
  [][production' = "candidate" /\ production # "candidate" =>
       /\ backup = "whole"
       /\ readiness = [class |-> "READY", decision |-> "allow"]
       /\ "committed" \in EventsOf("restore")
       /\ done["candidate"] = 1 /\ done["restore"] = 1]_vars

\* A receipt stays true: what it says was applied was, and what it says was
\* not, with no other call at work, never is.
ReceiptsHold ==
  /\ receipt.class = "APPLIED_VERIFIED" => done["apply"] = 1
  /\ receipt.class = "NOT_APPLIED_SAFE" /\ receipt.quiet => done["apply"] = 0

\* "Recovery verifies historical rehearsal provenance without requiring the
\* current production bytes to still equal the pre-apply bytes": a process that
\* starts again does not take the authorized change for drift.
RestartKeepsHistory ==
  [][entries = Closed /\ history' # history => production # "candidate"]_vars
=============================================================================
