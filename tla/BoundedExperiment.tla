--------------------------- MODULE BoundedExperiment ---------------------------
(***************************************************************************)
(* A controlled experiment: samples run the same task on a reference and a *)
(* candidate, first in the shadow and then, sample by sample with an       *)
(* authorization of its own, live.  The journal reserves a sample before   *)
(* it is used and allows one unresolved sample.                            *)
(*                                                                         *)
(* The shadow executor goes through a sample's steps in one call.  The     *)
(* live steps are five functions that nothing in the repository calls in   *)
(* an order: a reservation, a dispatch, a publication, the record of it    *)
(* and the completion each check what they are given, and here each is     *)
(* made whenever its own checks allow, any number of times.                *)
(*                                                                         *)
(* One process works on the journal; calls of it overlap at every await,   *)
(* and it may die.  A call is a record that says where it waits.  The      *)
(* experiment, its authorization and the admission decision are verified   *)
(* on every call from the caller's unchanging copies.  Reading the file at *)
(* its end gives each sample's last event, so file and memory are          *)
(* functions of the sample.  What can happen to a publication between its  *)
(* reservation and its commit is in SideEffects.                           *)
(***************************************************************************)
EXTENDS ExperimentGuardrails, FiniteSets

CONSTANTS
  Callers, Closed,
  ReferenceRuns, CandidateRuns,  \* workflow runs a live sample may be given
  Verifications,                 \* times at which a run is verified
  MaxPublications                \* bound of the model

Events == {"none", "reserved", "dispatched", "error", "completed"}

ASSUME ClosedAssumption == Closed \notin [Samples -> Events]

VARIABLES
  file,       \* the last event of each sample in the journal's file
  broken,     \* the file has a torn line or a sequence number twice
  mem,        \* the journal object's view of the file, or Closed
  kind,       \* what each reserved sample is: shadow, reference or candidate
  breached,   \* the numbers of completed samples at which a stop condition holds
  bound,      \* the shadow bindings of each sample: none, reference, both
  sent,       \* the shadow tasks sent for each sample
  ran,        \* the workflow runs with a binding that were sent a live sample's task
  operations, \* the publications ever reserved in the side-effect journal
  publishing, \* those whose call is under way, one at most
  pending,    \* those in doubt, as that journal says
  receipts,   \* those whose call returned a receipt
  call        \* where each call is waiting

journal == <<file, broken, mem, kind, breached>>
shadow == <<bound, sent>>
publications == <<operations, publishing, pending, receipts>>
live == <<ran, publications>>
vars == <<journal, shadow, live, call, admissionVars>>

NoCall == [at |-> "idle"]

Init ==
  /\ AdmissionInit
  /\ file = [s \in Samples |-> "none"]
  /\ broken = FALSE
  /\ mem = Closed
  /\ kind = [s \in Samples |-> "none"]
  /\ breached = {}
  /\ bound = [s \in Samples |-> 0]
  /\ sent = [s \in Samples |-> 0]
  /\ ran = {}
  /\ operations = {}
  /\ publishing = {}
  /\ pending = {}
  /\ receipts = {}
  /\ call = [c \in Callers |-> NoCall]

-----------------------------------------------------------------------------
(* What the journal says: inspect() *)

Reserved(view, kinds) == {s \in Samples : view[s] # "none" /\ kind[s] \in kinds}
Completed(view, kinds) == {s \in Samples : view[s] = "completed" /\ kind[s] \in kinds}
Unresolved(view) == {s \in Samples : view[s] \notin {"none", "completed"}}

Count(view, kinds) == Cardinality(Completed(view, kinds))

\* How much of the journal a call has seen; every event raises it.
Weight == [none |-> 0, reserved |-> 1, dispatched |-> 2, error |-> 2, completed |-> 3]
Seen(view) == {<<s, Weight[view[s]]>> : s \in Samples}

\* The progress the guardrails judge: what the journal says is completed.
Reading(view) ==
  [shadow |-> Count(view, {"shadow"}), live |-> Count(view, Live),
   candidates |-> Count(view, {"candidate"}), stops |-> Count(view, Kinds) \in breached]

-----------------------------------------------------------------------------
(* The journal's appends *)

Open ==
  /\ mem = Closed
  /\ ~broken
  /\ mem' = file
  /\ UNCHANGED <<file, broken, kind, breached, shadow, live, call, admissionVars>>

\* assertStorageUnchanged, by size
Unchanged == mem = file /\ ~broken

\* Fault: another sample may be unresolved.
FollowsOwn(view, s, event) ==
  CASE event = "reserved"  -> view[s] = "none"
    [] event = "completed" -> view[s] = "dispatched"
    [] OTHER               -> view[s] = "reserved"

\* assertTransition
Follows(view, s, event) ==
  CASE event = "reserved"  -> view[s] = "none" /\ Unresolved(view) = {}
    [] event = "completed" -> view[s] = "dispatched"
    [] OTHER               -> view[s] = "reserved"

Stops(c) == call' = [call EXCEPT ![c] = NoCall]
Goes(c, at) == call' = [call EXCEPT ![c].at = at]

\* The event is prepared: its payload is checked and its digest awaited.  It
\* says which sample, and of which kind.
Prepared(s, what, event, seen) ==
  [at |-> "appending", sample |-> s, kind |-> what, event |-> event, seen |-> seen]

\* One of the journal's record functions, up to its first await.
Records(c, s, what, event) ==
  /\ mem # Closed /\ Unchanged /\ Follows(mem, s, event)
  /\ call' = [call EXCEPT ![c] = Prepared(s, what, event, Seen(mem))]

\* The event is written, or the write throws, the line in the file or half
\* of it.  The size is not looked at again, so that a line another call's
\* write left behind gives two lines one number.
Append(c) ==
  LET s == call[c].sample
      event == call[c].event
  IN
  /\ call[c].at = "appending"
  /\ \/ /\ ~Follows(mem, s, event)
        /\ Stops(c)
        /\ UNCHANGED journal
     \/ /\ Follows(mem, s, event)
        /\ file' = [file EXCEPT ![s] = event]
        /\ kind' = [kind EXCEPT ![s] = call[c].kind]
        /\ breached' \in {breached} \union
             (IF event = "completed" THEN {breached \union {Count(file, Kinds) + 1}} ELSE {})
        /\ \/ /\ mem' = [mem EXCEPT ![s] = event]
              /\ broken' = (broken \/ mem # file)
              /\ IF event = "reserved" /\ call[c].kind = "shadow"
                 THEN Goes(c, "reserved") ELSE Stops(c)
           \/ broken' = (broken \/ mem # file) /\ Stops(c) /\ UNCHANGED mem
     \/ /\ Follows(mem, s, event)
        /\ broken' = TRUE
        /\ Stops(c)
        /\ UNCHANGED <<file, mem, kind, breached>>
     \/ Stops(c) /\ UNCHANGED journal
  /\ UNCHANGED <<shadow, live, admissionVars>>

-----------------------------------------------------------------------------
(* A shadow sample: dispatchSample *)

\* The journal is read and the guardrails are evaluated over what it says;
\* before the first completed sample there is nothing to evaluate.
Inspect(c, s) ==
  /\ call[c].at = "idle"
  /\ ExperimentAllowed
  /\ mem # Closed
  /\ Unresolved(mem) = {}
  /\ call' = [call EXCEPT ![c] =
       [at |-> "judging", sample |-> s, seen |-> Seen(mem),
        reserved |-> Cardinality(Reserved(mem, Kinds)),
        live |-> Cardinality(Reserved(mem, Live)),
        verdict |-> IF Count(mem, Kinds) = 0 THEN "none" ELSE Verdict(Reading(mem))]]
  /\ UNCHANGED <<journal, shadow, live, admissionVars>>

\* assertDispatchAllowed, on what was read before the evaluation
DispatchAllowed(reading) ==
  /\ reading.reserved + 1 <= MaxTotalSamples
  /\ reading.verdict \notin {"STOP_REQUIRED", "ROLLBACK_REQUIRED", "COMPLETE"}
  /\ reading.live = 0

\* The journal compares its file again, and its own state, not the reading.
ReserveShadow(c) ==
  /\ call[c].at = "judging"
  /\ \/ /\ DispatchAllowed(call[c])
        /\ Unchanged /\ Follows(mem, call[c].sample, "reserved")
        /\ call' = [call EXCEPT ![c] =
             Prepared(call[c].sample, "shadow", "reserved", call[c].seen)]
     \/ /\ ~(DispatchAllowed(call[c]) /\ Unchanged /\ Follows(mem, call[c].sample, "reserved"))
        /\ Stops(c)
  /\ UNCHANGED <<journal, shadow, live, admissionVars>>

-----------------------------------------------------------------------------
(* A live sample's reservation: the deferred executor *)

\* Fault: only the live counters are compared.
MatchesLiveCounters(a) ==
  /\ Count(mem, Live) = a.reading.live
  /\ Count(mem, {"candidate"}) = a.reading.candidates

\* The counters of the authorization are those of the journal.  If the samples
\* meet a stop condition is not asked again.
MatchesCounters(a) ==
  /\ Count(mem, {"shadow"}) = a.reading.shadow
  /\ Count(mem, Live) = a.reading.live
  /\ Count(mem, {"candidate"}) = a.reading.candidates

\* reserve(), for an authorization that need not be the latest.
ReserveLive(c, a) ==
  /\ call[c].at = "idle"
  /\ pending = {}
  /\ mem # Closed
  /\ MatchesCounters(a)
  /\ Reserved(mem, Live) = Completed(mem, Live)
  /\ Reserved(mem, {"candidate"}) = Completed(mem, {"candidate"})
  /\ Records(c, a.sample, a.role, "reserved")
  /\ UNCHANGED <<journal, shadow, live, admissionVars>>

-----------------------------------------------------------------------------
(* The shadow adapter *)

\* Both targets are looked up and must have no binding; then a session is
\* created and bound for each, and each is sent the task.  Any of the four may
\* fail; nothing is undone or tried again.
Run(c) ==
  LET s == call[c].sample IN
  /\ call[c].at = "reserved"
  /\ \E k \in 0..4 :
       /\ bound' = [bound EXCEPT ![s] = @ + (IF k <= 2 THEN k ELSE 2)]
       /\ sent' = [sent EXCEPT ![s] = @ + (IF k <= 2 THEN 0 ELSE k - 2)]
       /\ Goes(c, IF k = 4 THEN "ran" ELSE "failed")
  /\ UNCHANGED <<journal, live, admissionVars>>

\* The outcome is recorded: recordDispatch, recordDispatchError.
RecordOutcome(c) ==
  LET s == call[c].sample
      event == IF call[c].at = "failed" THEN "error" ELSE "dispatched"
  IN
  /\ call[c].at \in {"failed", "ran"}
  /\ \/ Records(c, s, "shadow", event)
     \/ ~(Unchanged /\ Follows(mem, s, event)) /\ Stops(c)
  /\ UNCHANGED <<journal, shadow, live, admissionVars>>

-----------------------------------------------------------------------------
(* Live runs: RuntimeBackedDeferredBoundedLiveExecutionCoordinator *)

\* dispatch() asks for an authorization, not for a reservation: two runs without
\* a binding are each bound to a session, and then sent the task, reference
\* first.  Any of it may fail, and a run that was bound only is lost.  Other runs
\* may be dispatched for the same authorization.
Dispatch(r, k) ==
  /\ Authorizations # {}
  /\ {r, k} \intersect ran = {}
  /\ ran' \in {ran \union {r}, ran \union {r, k}}
  /\ UNCHANGED <<journal, shadow, publications, call, admissionVars>>

\* A run bound and sent its task by another part of the system, in a shadow
\* sample for one: what verifies runs takes any that has a binding.
RunElsewhere(r) ==
  /\ r \notin ran
  /\ ran' = ran \union {r}
  /\ UNCHANGED <<journal, shadow, publications, call, admissionVars>>

-----------------------------------------------------------------------------
(* Publications: BoundedLivePublicationCoordinator.publish *)

RunsOf(role) == IF role = "reference" THEN ReferenceRuns ELSE CandidateRuns

\* The result of one succeeded run, verified at some time, published by an
\* authorization; the operation's id is made of the two.
Publications ==
  [by : Drafts, run : ReferenceRuns \union CandidateRuns, verified : Verifications]

\* publish() up to its reservation in the side-effect journal.  Neither the
\* sample's reservation nor the other run is looked at, and another result
\* of the same authorization is another operation.
BeginPublish(o) ==
  /\ Cardinality(operations) < MaxPublications
  /\ pending = {} /\ publishing = {} /\ o \notin operations
  /\ o.run \in RunsOf(o.by.role) \intersect ran
  /\ o.by \in Authorizations
  /\ operations' = operations \union {o}
  /\ publishing' = {o} /\ pending' = {o}
  /\ UNCHANGED <<journal, shadow, ran, receipts, call, admissionVars>>

\* The sink is asked and its answer committed, and the caller has a receipt; or
\* the call throws, with the commit in the journal or without.
Publish(o) ==
  /\ publishing' = {}
  /\ \/ pending' = {} /\ receipts' = receipts \union {o}
     \/ pending' \in {{}, pending} /\ UNCHANGED receipts
  /\ UNCHANGED <<journal, shadow, ran, operations, call, admissionVars>>

-----------------------------------------------------------------------------
(* The record of a live sample: the deferred executor *)

\* prepareVerifiedBoundedLivePairedExecution, with the published run as the
\* selected member: both sides' runs have succeeded.
PairVerifies(o) ==
  \E r \in ReferenceRuns \intersect ran, k \in CandidateRuns \intersect ran :
    r # k /\ o.run = IF o.by.role = "reference" THEN r ELSE k

\* Fault: the visibility is not compared with the reservation.
RecordPublishedAnyRole(c, o) ==
  LET s == o.by.sample IN
  /\ call[c].at = "idle"
  /\ PairVerifies(o)
  /\ Records(c, s, kind[s], "dispatched")
  /\ UNCHANGED <<journal, shadow, live, admissionVars>>

\* recordPublishedDispatch: a receipt backed by a commit, of an authorization
\* for a sample that is reserved.  Of the reservation only the sample is
\* compared, and if the candidate's output may be visible.
RecordPublished(c, o) ==
  LET s == o.by.sample IN
  /\ call[c].at = "idle"
  /\ PairVerifies(o)
  /\ (kind[s] = "candidate") = (o.by.role = "candidate")
  /\ Records(c, s, kind[s], "dispatched")
  /\ UNCHANGED <<journal, shadow, live, admissionVars>>

\* recordCompletion of either executor, with observations not used before.
Complete(c, s) ==
  /\ call[c].at = "idle"
  /\ Records(c, s, kind[s], "completed")
  /\ UNCHANGED <<journal, shadow, live, admissionVars>>

-----------------------------------------------------------------------------
(* The process dies, perhaps in the middle of a line. *)

Crash ==
  /\ mem # Closed \/ publishing # {}
  /\ mem' = Closed
  /\ publishing' = {}
  /\ call' = [c \in Callers |-> NoCall]
  /\ broken' \in {broken, broken \/ \E c \in Callers : call[c].at = "appending"}
  /\ UNCHANGED <<file, kind, breached, shadow, ran, operations, pending, receipts,
                 admissionVars>>

Next ==
  \/ AdmissionNext /\ UNCHANGED <<journal, shadow, live, call>>
  \/ Open \/ Crash
  \/ \E r \in ReferenceRuns, k \in CandidateRuns : Dispatch(r, k)
  \/ \E r \in ReferenceRuns \union CandidateRuns : RunElsewhere(r)
  \/ \E o \in Publications : BeginPublish(o)
  \/ \E o \in publishing : Publish(o)
  \/ \E c \in Callers :
       \/ \E s \in Samples : Inspect(c, s) \/ Complete(c, s)
       \/ \E a \in Authorizations : ReserveLive(c, a)
       \/ \E o \in receipts : RecordPublished(c, o)
       \/ ReserveShadow(c) \/ Append(c) \/ Run(c) \/ RecordOutcome(c)

Spec == Init /\ [][Next]_vars

-----------------------------------------------------------------------------
(* Properties *)

\* A live sample recorded as dispatched by operation o.
Backs(o, s) ==
  /\ o.by.sample = s
  /\ (kind[s] = "candidate") = (o.by.role = "candidate")
  /\ PairVerifies(o)

\* "Reservation is persisted before adapter dispatch": over crashes and failed
\* writes, a shadow task runs at most once for each side of a sample, and never
\* before the sample's reservation is in the file.  And a sample the file says
\* is dispatched has been: both its shadow tasks were sent, or an authorization
\* for this very sample published, under the role the sample is reserved for,
\* one run of a pair that both ran.  Live runs and publications themselves may
\* be repeated, or made without any reservation.
DispatchesAreBacked ==
  \A s \in Samples :
    /\ sent[s] <= 2
    /\ bound[s] > 0 => file[s] # "none" /\ kind[s] = "shadow"
    /\ file[s] \in {"dispatched", "completed"} =>
         \/ kind[s] = "shadow" /\ sent[s] = 2
         \/ \E o \in receipts : Backs(o, s)

\* "v1 permits only one in-flight sample": of the shadow samples that run or
\* ran, one at most is not completed, and a file that can be read has one
\* unresolved sample at most, whatever calls overlapped.
OneInFlight ==
  /\ Cardinality({s \in Samples : bound[s] > 0 /\ file[s] # "completed"}) <= 1
  /\ ~broken => Cardinality(Unresolved(file)) <= 1

\* A sample is reserved on the evidence there is, when no other event came
\* between the reading and the reservation: a shadow sample only before the
\* first live one and while the completed samples meet no stop condition; a
\* live sample, with an authorization prepared long before, too, only while
\* nothing is unresolved and the budget has room for one more of its kind.  If
\* the completed samples meet a stop condition of the summaries is asked when
\* its authorization is prepared, of the reading the caller brings.
EvidenceIsHeeded ==
  [][\A s \in Samples :
       file[s] = "none" /\ file'[s] = "reserved"
       /\ (\E c \in Callers : call[c].at = "appending" /\ call[c].sample = s
             /\ call'[c] # call[c] /\ call[c].seen = Seen(file)) =>
         /\ kind'[s] = "shadow" => ~Breach(Reading(file)) /\ Reserved(file, Live) = {}
         /\ kind'[s] \in Live =>
              Unresolved(file) = {} /\ ~OverBudget(After(Reading(file), kind'[s]))]_vars
=============================================================================
