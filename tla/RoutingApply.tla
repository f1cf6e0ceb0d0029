----------------------------- MODULE RoutingApply -----------------------------
(***************************************************************************)
(* The one authorized change of the production route.  A chain of          *)
(* documents leads to it, each prepared only while the rehearsal's receipt *)
(* verifies and production is the reference; the last, the prewrite seal,  *)
(* is verified again when the change is executed.  The change is reserved  *)
(* in a journal, staged in a temporary file, renamed into place and read   *)
(* back; recovery compares journal and production and never writes the     *)
(* route.                                                                  *)
(*                                                                         *)
(* Calls of one process share its journal object and its writer, and may   *)
(* overlap; one call is one record, which says where it waits.  The model  *)
(* has one operation: operations do not look at each other's events.       *)
(***************************************************************************)
EXTENDS AdapterRehearsal

CONSTANTS Appliers  \* calls of the apply coordinator

VARIABLES
  backup,   \* the backup store's object for the reference
  chain,    \* the last document prepared
  file,     \* the lines of the apply journal's file
  log,      \* the lines its object has, or Closed
  staged,   \* the temporary file is there
  written,  \* the writer of this process has written
  call,     \* where each call is waiting
  receipt   \* the last receipt given, and if it was quiet

applyVars == <<backup, chain, file, log, staged, written, call, receipt>>

Documents == <<"none", "proposal", "authorization", "approval", "seal">>
Classes == [reserved |-> "PENDING", committed |-> "APPLIED_VERIFIED",
            safe |-> "NOT_APPLIED_SAFE", manual |-> "MANUAL_RECONCILIATION_REQUIRED"]

\* What a caller knows before a receipt is given; quiet (a history variable)
\* says that no other call could make the verdict untrue.
NoReceipt == [class |-> "none", quiet |-> FALSE]

\* A call at rest.  event is what it will record, as line number sequence;
\* fallback goes with a recovered commit, quiet with the verdict.
Unused == [at |-> "idle", does |-> "none", event |-> "none", sequence |-> 0,
           fallback |-> FALSE, quiet |-> FALSE]

ApplyInit ==
  /\ backup = "none"
  /\ chain = "none"
  /\ file = <<>>
  /\ log = Closed
  /\ staged = FALSE
  /\ written = FALSE
  /\ call = [c \in Appliers |-> Unused]
  /\ receipt = NoReceipt

-----------------------------------------------------------------------------
(* Backup and documents *)

\* capture(): the object is only written if there is none, then compared.
Capture ==
  /\ production = "reference"
  /\ backup = "none"
  /\ backup' \in {"whole", "torn"}
  /\ UNCHANGED <<production, rehearsalVars, done, chain, file, log, staged, written, call, receipt>>

\* Fault: a backup object that is there is not compared.
LiveContextByExistence ==
  /\ ReceiptVerifies
  /\ backup # "none"
  /\ production = "reference"

\* verifyApplyContext with the pre-state live.
LiveContext ==
  /\ ReceiptVerifies
  /\ backup = "whole"
  /\ production = "reference"

\* verifyApplyContext for a recovery: only the rehearsal's history counts.
StaticContext == ReceiptVerifies /\ backup = "whole"

\* The proposal, the authorization that allows it, the approval to apply now
\* and the prewrite seal are prepared in this order; a denial ends the chain.
Prepare ==
  /\ LiveContext
  /\ \E n \in 1..(Len(Documents) - 1) :
       chain = Documents[n] /\ chain' \in {Documents[n + 1]} \union
         (IF Documents[n + 1] = "authorization" THEN {"denied"} ELSE {})
  /\ UNCHANGED <<production, rehearsalVars, done, backup, file, log, staged, written, call, receipt>>

-----------------------------------------------------------------------------
(* The journal *)

Events(lines) == {lines[n].event : n \in DOMAIN lines}

\* A line of the file: the event with its place, which the hash chain fixes.
JournalLine(sequence, event) == [sequence |-> sequence, event |-> event]

\* Fault: an operation found not to be applied may be tried again.
MayFollowRetry(lines, event) ==
  LET last == IF lines = <<>> THEN "none" ELSE lines[Len(lines)].event IN
    IF event = "reserved" THEN last \in {"none", "safe"} ELSE last = "reserved"

\* assertAppendProgression
MayFollow(lines, event) ==
  CASE event = "reserved" -> lines = <<>>
    [] OTHER -> /\ "reserved" \in Events(lines)
                /\ Events(lines) \intersect {"safe", "manual"} = {}
                /\ \/ Len(lines) = 1
                   \/ event = "manual" /\ Len(lines) = 2 /\ "committed" \in Events(lines)

\* open(): the sequence, the hash chain and the progression are verified.
OpenJournal ==
  /\ \A c \in Appliers : call[c].at = "idle"
  /\ \A n \in DOMAIN file :
       file[n].sequence = n /\ MayFollow(SubSeq(file, 1, n - 1), file[n].event)
  /\ log' = file
  /\ UNCHANGED <<production, rehearsalVars, done, backup, chain, file, staged, written, call, receipt>>

Unchanged(vs) == UNCHANGED <<production, rehearsalVars, done, backup, chain, vs>>
Goes(c, at) == call' = [call EXCEPT ![c].at = at]
Stops(c) == call' = [call EXCEPT ![c] = Unused]
GoesRecording(c, event) == call' = [call EXCEPT ![c].at = "recording", ![c].event = event]

\* A commit that cannot be recovered is put down for manual work instead.
StopsOrFallsBack(c) ==
  IF call[c].fallback
  THEN call' = [call EXCEPT ![c].at = "recording", ![c].event = "manual", ![c].fallback = FALSE]
  ELSE Stops(c)

\* append(): the file is what the object read and the event may follow.
PrepareLine(c) ==
  /\ call[c].at = "recording"
  /\ IF log = file /\ MayFollow(log, call[c].event)
     THEN call' = [call EXCEPT ![c].at = "appending", ![c].sequence = Len(log) + 1]
     ELSE StopsOrFallsBack(c)
  /\ Unchanged(<<file, log, staged, written, receipt>>)

\* The entry's digest has been awaited; nothing is compared again.
AppendLine(c) ==
  LET line == JournalLine(call[c].sequence, call[c].event) IN
  /\ call[c].at = "appending"
  /\ \/ /\ file' = Append(file, line)
        /\ log' = Append(log, line)
        /\ Goes(c, IF call[c].event = "reserved" THEN "reserved" ELSE "answering")
     \/ /\ file' \in {file, Append(file, line)}
        /\ StopsOrFallsBack(c)
        /\ UNCHANGED log
  /\ Unchanged(<<staged, written, receipt>>)

-----------------------------------------------------------------------------
(* execute *)

\* The seal is verified, and with it everything before; the journal is asked
\* for earlier events when the reservation is recorded.
Execute(c) ==
  /\ call[c].at = "idle"
  /\ log # Closed
  /\ chain = "seal"
  /\ LiveContext
  /\ call' = [call EXCEPT ![c] = [Unused EXCEPT !.at = "recording", !.does = "execute",
                                    !.event = "reserved"]]
  /\ Unchanged(<<file, log, staged, written, receipt>>)

\* writeOnce() up to its first look at production.
BeginWrite(c) ==
  /\ call[c].at = "reserved"
  /\ IF ~written /\ production = "reference" THEN Goes(c, "staging") ELSE Goes(c, "failed")
  /\ Unchanged(<<file, log, staged, written, receipt>>)

\* The temporary file is created and verified; it is removed after a failure.
StageState(c) ==
  /\ call[c].at = "staging"
  /\ \/ ~staged /\ staged' = TRUE /\ Goes(c, "staged")
     \/ Goes(c, "failed") /\ UNCHANGED staged
  /\ Unchanged(<<file, log, written, receipt>>)

\* The last look at production before the rename.
LookAgain(c) ==
  /\ call[c].at = "staged"
  /\ IF production = "reference" THEN Goes(c, "renaming") /\ UNCHANGED staged
                                 ELSE Goes(c, "failed") /\ staged' = FALSE
  /\ Unchanged(<<file, log, written, receipt>>)

Rename(c) ==
  /\ call[c].at = "renaming"
  /\ staged' = FALSE
  /\ \/ /\ staged
        /\ production' = "candidate"
        /\ done' = [done EXCEPT !["apply"] = @ + 1]
        /\ written' = TRUE
        /\ Goes(c, "renamed")
     \/ /\ Goes(c, "failed")
        /\ UNCHANGED <<production, done, written>>
  /\ UNCHANGED <<rehearsalVars, backup, chain, file, log, receipt>>

\* Production is read back, twice after a rename, and after a failure.
ReadBack(c) ==
  /\ \/ /\ call[c].at = "renamed"
        /\ GoesRecording(c, IF production = "candidate" THEN "committed" ELSE "manual")
     \/ /\ call[c].at = "failed"
        /\ call' = [call EXCEPT ![c].at = "recording",
             ![c].event = IF production = "reference" THEN "safe" ELSE "manual",
             ![c].quiet = \A d \in Appliers \ {c} : call[d].at = "idle"]
  /\ Unchanged(<<file, log, staged, written, receipt>>)

\* prepareReceipt: the verdict must fit what production is now, and the
\* provenance is verified once more.
Answer(c) ==
  LET event == call[c].event
      fits == CASE event = "committed" -> production = "candidate"
                [] event = "safe"      -> production = "reference"
                [] OTHER               -> TRUE
  IN
  /\ call[c].at = "answering"
  /\ IF StaticContext /\ log = file /\ fits
     THEN /\ receipt' = [class |-> Classes[event], quiet |-> call[c].quiet]
          /\ Stops(c)
     ELSE StopsOrFallsBack(c) /\ UNCHANGED receipt
  /\ Unchanged(<<file, log, staged, written>>)

-----------------------------------------------------------------------------
(* recover *)

\* classifyProgression, of the operation's events.
Progression(lines) ==
  LET events == Events(lines) IN
    IF \/ Len(lines) # Cardinality(events)
       \/ "reserved" \notin events
       \/ "safe" \in events /\ events \intersect {"committed", "manual"} # {}
    THEN "invalid"
    ELSE CASE "manual" \in events    -> "manual"
           [] "safe" \in events      -> "safe"
           [] "committed" \in events -> "committed"
           [] OTHER                  -> "reserved"

\* recover(): the authority's provenance and the journal are verified ...
Recover(c) ==
  /\ call[c].at = "idle"
  /\ log # Closed
  /\ chain = "seal"
  /\ StaticContext
  /\ log = file
  /\ Progression(log) # "invalid"
  /\ call' = [call EXCEPT ![c] = [Unused EXCEPT !.at = "recovering", !.does = "recover",
                                    !.event = Progression(log)]]
  /\ Unchanged(<<file, log, staged, written, receipt>>)

\* Fault: whatever is not the reference is the candidate.
DecideByReference(c) ==
  LET found == call[c].event IN
  /\ call[c].at = "recovering"
  /\ CASE found # "reserved" -> Goes(c, "answering")
       [] found = "reserved" /\ production = "reference" -> GoesRecording(c, "safe")
       [] found = "reserved" /\ production # "reference" -> GoesRecording(c, "committed")
  /\ Unchanged(<<file, log, staged, written, receipt>>)

\* ... and then production decides about an operation that is not settled.
Decide(c) ==
  LET found == call[c].event
      quiet == \A d \in Appliers \ {c} : call[d].at = "idle"
      event == CASE production = "candidate" -> "committed"
                 [] production = "reference" /\ found = "reserved" -> "safe"
                 [] OTHER -> "manual"
  IN
  /\ call[c].at = "recovering"
  /\ IF found \in {"manual", "safe"} \/ found = event
     THEN Goes(c, "answering")
     ELSE call' = [call EXCEPT ![c].at = "recording", ![c].event = event,
                     ![c].fallback = (event = "committed"), ![c].quiet = quiet]
  /\ Unchanged(<<file, log, staged, written, receipt>>)

ApplyNext ==
  \/ Capture \/ Prepare \/ OpenJournal
  \/ \E c \in Appliers :
       \/ Execute(c) \/ Recover(c) \/ Decide(c)
       \/ PrepareLine(c) \/ AppendLine(c)
       \/ BeginWrite(c) \/ StageState(c) \/ LookAgain(c) \/ Rename(c)
       \/ ReadBack(c) \/ Answer(c)
=============================================================================
