--------------------------- MODULE ExperimentProofs ---------------------------
(***************************************************************************)
(* Proofs about BoundedExperiment for any number of samples, calls, drafts *)
(* and runs and any budget: over every overlap of calls, torn write and    *)
(* restart a shadow sample runs once, what the journal says is dispatched  *)
(* was, one sample is in flight, and reservations heed the evidence they   *)
(* were made on.                                                           *)
(*                                                                         *)
(* None of the three is inductive.  The file may be one event ahead of the *)
(* journal object for a sample, and what keeps a sample from being         *)
(* reserved twice is that only a sample nothing was run for can be behind  *)
(* by a reservation (JournalInv).  A call on its way knows its sample, and *)
(* the one that may run it is alone and the first (CallsInv); a call that  *)
(* judges holds a reading that is exact as long as no event was written    *)
(* since (EvidenceFits).                                                   *)
(***************************************************************************)
EXTENDS BoundedExperiment, Integers, FiniteSetTheorems, TLAPS

-----------------------------------------------------------------------------
(* The inductive invariant *)

Points == {"appending", "reserved", "ran", "failed"}
PreparedCalls ==
  [at : Points, sample : Samples, kind : Kinds, event : Events \ {"none"},
   seen : SUBSET (Samples \X Nat)]

Judges(r) ==
  /\ r.at = "judging"
  /\ r.sample \in Samples
  /\ r.seen \in SUBSET (Samples \X Nat)

TypeInv ==
  /\ file \in [Samples -> Events]
  /\ broken \in BOOLEAN
  /\ mem = Closed \/ mem \in [Samples -> Events]
  /\ kind \in [Samples -> Kinds \union {"none"}]
  /\ breached \subseteq Nat \ {0}
  /\ bound \in [Samples -> 0..2]
  /\ sent \in [Samples -> Nat]
  /\ publishing \subseteq Publications
  /\ receipts \subseteq Publications
  /\ call = [c \in Callers |-> call[c]]
  /\ \A c \in Callers : call[c] = NoCall \/ Judges(call[c]) \/ call[c] \in PreparedCalls

\* What the file may say of a sample of which the journal object says m.
Ahead(m, f) ==
  \/ m = "none" /\ f \in {"none", "reserved"}
  \/ m = "reserved" /\ f \in {"reserved", "dispatched", "error"}
  \/ m = "dispatched" /\ f \in {"dispatched", "completed"}
  \/ m = "error" /\ f = "error"
  \/ m = "completed" /\ f = "completed"

Settled == {"none", "completed"}

JournalInv ==
  /\ mem # Closed => \A s \in Samples : Ahead(mem[s], file[s])
  /\ \A s \in Samples : bound[s] > 0 => file[s] # "none" /\ kind[s] = "shadow"
  /\ mem # Closed => \A s \in Samples : bound[s] > 0 => mem[s] # "none"
  /\ \A s \in Samples : file[s] # "none" => kind[s] \in Kinds
  /\ mem # Closed =>
       \A s, t \in Samples : mem[s] \notin Settled /\ mem[t] \notin Settled => s = t
  /\ ~broken => \A s, t \in Samples : file[s] \notin Settled /\ file[t] \notin Settled => s = t
  /\ \A s, t \in Samples :
       bound[s] > 0 /\ file[s] # "completed" /\ bound[t] > 0 /\ file[t] # "completed" => s = t

FiniteInv == IsFiniteSet(Reserved(file, Kinds))

EffectsInv ==
  \A s \in Samples : sent[s] <= 2 /\ (bound[s] = 0 => sent[s] = 0)

\* What a dispatch recorded for the sample rests on.
Backed(s) ==
  \/ kind[s] = "shadow" /\ sent[s] = 2
  \/ \E o \in receipts : Backs(o, s)

BackedInv == \A s \in Samples : file[s] \in {"dispatched", "completed"} => Backed(s)

\* A call on its way: past its reservation, or about to write a later event.
Reserving(r) == r.at = "appending" /\ r.event = "reserved"
OnItsWay(r) == r.at \in Points /\ ~Reserving(r)

\* It knows its sample, and what it may do for it was not done.
CallFits(r) ==
  /\ OnItsWay(r) => mem[r.sample] # "none" /\ kind[r.sample] = r.kind
  /\ r.at \in {"reserved", "ran", "failed"} => r.kind = "shadow"
  /\ r.at = "reserved" => bound[r.sample] = 0
  /\ r.at = "ran" => sent[r.sample] = 2
  /\ r.at = "appending" /\ r.event = "dispatched" => Backed(r.sample)

CallsInv ==
  /\ mem = Closed => \A c \in Callers : call[c] = NoCall
  /\ \A c \in Callers : CallFits(call[c])
  /\ \A c, d \in Callers :
       call[c].at = "reserved" /\ call[d].at = "reserved" /\ call[c].sample = call[d].sample
       => c = d

\* A reading that is exact unless an event was written since.
EvidenceFits(r) ==
  /\ r.at = "judging" \/ Reserving(r) =>
       \A e \in r.seen : e[2] \in {0, 3} /\ (e[2] = 3 => mem[e[1]] = "completed")
  /\ r.at = "judging" /\ r.seen = Seen(file) =>
       /\ r.live = Cardinality(Reserved(file, Live))
       /\ r.verdict = IF Count(file, Kinds) = 0 THEN "none" ELSE Verdict(Reading(file))
  /\ Reserving(r) /\ r.seen = Seen(file) =>
       /\ r.kind = "shadow" => ~Breach(Reading(file)) /\ Reserved(file, Live) = {}
       /\ r.kind \in Live => ~OverBudget(After(Reading(file), r.kind))

EvidenceInv == \A c \in Callers : EvidenceFits(call[c])

ExperimentInv ==
  /\ TypeInv /\ JournalInv /\ FiniteInv /\ EffectsInv /\ BackedInv
  /\ CallsInv /\ EvidenceInv

-----------------------------------------------------------------------------
(* What the journal's operators say *)

\* assertTransition, event by event.
LEMMA FollowsSays ==
  ASSUME NEW view, NEW s
  PROVE  /\ Follows(view, s, "reserved") <=> view[s] = "none" /\ Unresolved(view) = {}
         /\ Follows(view, s, "completed") <=> view[s] = "dispatched"
         /\ Follows(view, s, "dispatched") <=> view[s] = "reserved"
         /\ Follows(view, s, "error") <=> view[s] = "reserved"
  BY DEF Follows

\* The sets the counters are taken of are finite.
LEMMA FinitelyMany ==
  ASSUME FiniteInv, NEW kinds \in SUBSET Kinds
  PROVE  /\ IsFiniteSet(Reserved(file, kinds))
         /\ IsFiniteSet(Completed(file, kinds))
  <1>1. /\ Reserved(file, kinds) \in SUBSET Reserved(file, Kinds)
        /\ Completed(file, kinds) \in SUBSET Reserved(file, Kinds)
    BY DEF Reserved, Completed
  <1>2. IsFiniteSet(Reserved(file, Kinds))
    BY DEF FiniteInv
  <1>3. IsFiniteSet(Reserved(file, kinds))
    BY <1>1, <1>2, FS_Subset
  <1>4. IsFiniteSet(Completed(file, kinds))
    BY <1>1, <1>2, FS_Subset
  <1>5. QED
    BY <1>3, <1>4

\* The completed samples are the shadow and the live ones.
LEMMA CountsAdd ==
  ASSUME NEW view, IsFiniteSet(Completed(view, Kinds))
  PROVE  /\ Count(view, {"shadow"}) \in Nat
         /\ Count(view, Live) \in Nat
         /\ Count(view, {"candidate"}) \in Nat
         /\ Count(view, Kinds) = Count(view, {"shadow"}) + Count(view, Live)
         /\ Count(view, {"candidate"}) <= Count(view, Live)
  <1>1. /\ Completed(view, {"shadow"}) \in SUBSET Completed(view, Kinds)
        /\ Completed(view, Live) \in SUBSET Completed(view, Kinds)
        /\ Completed(view, {"candidate"}) \in SUBSET Completed(view, Live)
        /\ Completed(view, Kinds) = Completed(view, {"shadow"}) \union Completed(view, Live)
        /\ Completed(view, {"shadow"}) \cap Completed(view, Live) = {}
    BY DEF Completed, Kinds, Live
  <1>2. IsFiniteSet(Completed(view, {"shadow"})) /\ IsFiniteSet(Completed(view, Live))
    BY <1>1, FS_Subset
  <1>3. IsFiniteSet(Completed(view, {"candidate"}))
        /\ Cardinality(Completed(view, {"candidate"})) <= Cardinality(Completed(view, Live))
    BY <1>1, <1>2, FS_Subset
  <1>4. /\ Cardinality(Completed(view, {"shadow"})) \in Nat
        /\ Cardinality(Completed(view, Live)) \in Nat
        /\ Cardinality(Completed(view, {"candidate"})) \in Nat
    BY <1>2, <1>3, FS_CardinalityType
  <1>5. Cardinality(Completed(view, Kinds)) =
          Cardinality(Completed(view, {"shadow"})) + Cardinality(Completed(view, Live)) - 0
    BY <1>1, <1>2, FS_Union, FS_EmptySet
  <1>6. QED
    BY <1>3, <1>4, <1>5 DEF Count

\* Weights tell a settled sample from one that is not.
LEMMA Weights ==
  ASSUME NEW e \in Events
  PROVE  /\ Weight[e] \in Nat
         /\ Weight[e] = 0 <=> e = "none"
         /\ Weight[e] = 3 <=> e = "completed"
  BY DEF Weight, Events

LEMMA SeenSays ==
  ASSUME NEW view, NEW s \in Samples, view[s] \in Events
  PROVE  <<s, Weight[view[s]]>> \in Seen(view)
  BY DEF Seen

\* A reading of nothing unresolved that is the file's: nothing is unresolved there.
LEMMA SettledReading ==
  ASSUME TypeInv, NEW seen, \A e \in seen : e[2] \in {0, 3}, seen = Seen(file)
  PROVE  \A s \in Samples : file[s] \in Settled
  <1> SUFFICES ASSUME NEW s \in Samples PROVE file[s] \in Settled
    OBVIOUS
  <1>1. file[s] \in Events
    BY DEF TypeInv
  <1>2. <<s, Weight[file[s]]>> \in seen
    BY <1>1, SeenSays
  <1>3. Weight[file[s]] \in {0, 3}
    BY <1>2
  <1>4. QED
    BY <1>1, <1>3, Weights DEF Settled

\* Before anything is completed there is nothing to stop for.
LEMMA NothingBreached ==
  ASSUME TypeInv, FiniteInv, Count(file, Kinds) = 0
  PROVE  ~Breach(Reading(file))
  <1>1. IsFiniteSet(Completed(file, Kinds))
    BY FinitelyMany
  <1>2. /\ Count(file, {"shadow"}) = 0
        /\ Count(file, Live) = 0
        /\ Count(file, {"candidate"}) = 0
    BY <1>1, CountsAdd
  <1>3. /\ Reading(file).shadow = 0
        /\ Reading(file).live = 0
        /\ Reading(file).candidates = 0
    BY <1>2 DEF Reading
  <1>4. Reading(file).stops = (Count(file, Kinds) \in breached)
    BY Zenon DEF Reading
  <1>5. ~Reading(file).stops
    BY <1>4 DEF TypeInv
  <1>6. /\ MaxTotalSamples \in Nat /\ MaxLiveSamples \in Nat
        /\ MaxCandidateLiveSamples \in Nat /\ MaxCandidateTraffic \in Nat
    BY BudgetAssumption DEF ValidBudget
  <1>7. WithinTraffic(0, 0)
    BY <1>6 DEF WithinTraffic
  <1>8. QED
    BY <1>3, <1>5, <1>6, <1>7 DEF Breach, OverBudget

\* A verdict that does not end the experiment is of a reading without a breach.
LEMMA VerdictSays ==
  ASSUME NEW r, Breach(r)
  PROVE  Verdict(r) \in {"STOP_REQUIRED", "ROLLBACK_REQUIRED"}
  <1>1. Verdict(r) = IF r.live > 0 THEN "ROLLBACK_REQUIRED" ELSE "STOP_REQUIRED"
    BY DEF Verdict
  <1>2. QED
    BY <1>1

\* An authorization whose counters are the file's leaves room for its sample.
LEMMA AuthorizedNow ==
  ASSUME NEW a \in Authorizations,
         Count(file, {"shadow"}) = a.reading.shadow,
         Count(file, Live) = a.reading.live,
         Count(file, {"candidate"}) = a.reading.candidates
  PROVE  ~OverBudget(After(Reading(file), a.role))
  <1>1. a \in Drafts /\ ~OverBudget(After(a.reading, a.role))
    BY DEF Authorizations, Authorizable
  <1>2. a.reading \in Readings
    BY <1>1, DraftsAssumption DEF ValidDrafts
  <1>3. PICK more : more = IF a.role = "candidate" THEN 1 ELSE 0
    OBVIOUS
  <1>4. PICK x, y : x = After(a.reading, a.role) /\ y = After(Reading(file), a.role)
    OBVIOUS
  <1>5. /\ x.shadow = a.reading.shadow /\ x.live = a.reading.live + 1
        /\ x.candidates = a.reading.candidates + more
    BY <1>2, <1>3, <1>4 DEF After, Readings
  <1>6. /\ y.shadow = a.reading.shadow /\ y.live = a.reading.live + 1
        /\ y.candidates = a.reading.candidates + more
    BY <1>3, <1>4 DEF After, Reading
  <1>7. ~OverBudget(y)
    BY <1>1, <1>4, <1>5, <1>6 DEF OverBudget
  <1>8. QED
    BY <1>4, <1>7

-----------------------------------------------------------------------------
(* Steps that change one call, or none *)

\* All the invariant is about, but for the calls and what only grows.
world == <<file, mem, kind, breached, bound, sent>>

\* None of it changes, but that the file may be torn.
Steady ==
  /\ UNCHANGED world
  /\ broken' \in {broken, TRUE}
  /\ ran \subseteq ran'
  /\ receipts \subseteq receipts'
  /\ receipts' \subseteq Publications /\ publishing' \subseteq Publications

\* What backs a sample whose kind is settled goes on backing it.
LEMMA BackedStays ==
  ASSUME NEW s, Backed(s), kind'[s] = kind[s], sent' = sent,
         ran \subseteq ran', receipts \subseteq receipts'
  PROVE  Backed(s)'
  <1>1. ASSUME NEW o \in receipts, Backs(o, s) PROVE o \in receipts' /\ Backs(o, s)'
    BY <1>1 DEF Backs, PairVerifies
  <1>2. QED
    BY <1>1 DEF Backed

\* What the journal and the runtime say.
LEMMA WorldStays ==
  ASSUME ExperimentInv, Steady
  PROVE  JournalInv' /\ FiniteInv' /\ EffectsInv' /\ BackedInv'
  <1>1. UNCHANGED <<file, mem, kind, bound, sent>>
    BY DEF Steady, world
  <1>2. broken => broken'
    BY Zenon DEF Steady, ExperimentInv, TypeInv
  <1>3. JournalInv'
    BY <1>1, <1>2 DEF ExperimentInv, JournalInv
  <1>4. FiniteInv'
    <2>1. Reserved(file, Kinds)' = Reserved(file, Kinds)
      BY <1>1 DEF Reserved
    <2>2. QED
      BY <2>1 DEF ExperimentInv, FiniteInv
  <1>5. EffectsInv'
    BY <1>1 DEF ExperimentInv, EffectsInv
  <1>6. BackedInv'
    <2>1. ASSUME NEW s \in Samples, file'[s] \in {"dispatched", "completed"}
          PROVE  Backed(s)'
      <3>1. Backed(s)
        BY <1>1, <2>1 DEF ExperimentInv, BackedInv
      <3>2. QED
        BY <1>1, <3>1, BackedStays DEF Steady
    <2>2. QED
      BY <2>1 DEF BackedInv
  <1>7. QED
    BY <1>3, <1>4, <1>5, <1>6

\* What a call relies on stays, too.
LEMMA CallStays ==
  ASSUME Steady, NEW r
  PROVE  /\ CallFits(r) => CallFits(r)'
         /\ EvidenceFits(r) => EvidenceFits(r)'
  <1> USE DEF Steady, world
  <1>1. CallFits(r) => CallFits(r)'
    <2>1. Backed(r.sample) => Backed(r.sample)'
      BY BackedStays
    <2>2. QED
      BY <2>1 DEF CallFits
  <1>2. EvidenceFits(r) => EvidenceFits(r)'
    <2>1. UNCHANGED <<file, kind, breached>>
      OBVIOUS
    <2>2. /\ Reserved(file, Live)' = Reserved(file, Live)
          /\ Count(file, Kinds)' = Count(file, Kinds)
          /\ Reading(file)' = Reading(file)
          /\ Seen(file)' = Seen(file)
      BY <2>1 DEF Reading, Count, Completed, Reserved, Seen
    <2>3. QED
      BY <2>1, <2>2 DEF EvidenceFits
  <1>3. QED
    BY <1>1, <1>2

\* Nothing the invariant is about changes.
LEMMA Untouched ==
  ASSUME ExperimentInv, Steady, UNCHANGED call
  PROVE  ExperimentInv'
  <1>1. Steady
    OBVIOUS
  <1>2. TypeInv'
    BY DEF ExperimentInv, TypeInv, Steady, world
  <1>3. CallsInv' /\ EvidenceInv'
    <2>1. ASSUME NEW c \in Callers PROVE CallFits(call[c])' /\ EvidenceFits(call[c])'
      <3>1. PICK r : r = call[c]
        OBVIOUS
      <3>2. CallFits(r) /\ EvidenceFits(r)
        BY <3>1 DEF ExperimentInv, CallsInv, EvidenceInv
      <3>3. CallFits(r)' /\ EvidenceFits(r)'
        BY <1>1, <3>2, CallStays
      <3>4. QED
        BY <3>1, <3>3
    <2>2. QED
      BY <2>1 DEF ExperimentInv, CallsInv, EvidenceInv, Steady, world
  <1>4. QED
    BY <1>1, <1>2, <1>3, WorldStays DEF ExperimentInv

\* A step of a call that leaves everything else alone.
LEMMA Still ==
  ASSUME ExperimentInv, UNCHANGED <<journal, shadow, live>>
  PROVE  Steady
  BY DEF ExperimentInv, TypeInv, Steady, world, journal, shadow, live, publications

\* What a call may become.
Becomes(r) ==
  \/ r = NoCall
  \/ /\ mem # Closed
     /\ Judges(r) \/ r \in PreparedCalls
     /\ CallFits(r) /\ EvidenceFits(r)
     /\ r.at # "reserved"

LEMMA OneCallMoves ==
  ASSUME ExperimentInv, Steady, NEW c \in Callers, NEW r, Becomes(r),
         call' = [call EXCEPT ![c] = r]
  PROVE  ExperimentInv'
  <1>1. call = [d \in Callers |-> call[d]]
    BY DEF ExperimentInv, TypeInv
  <1>2. call'[c] = r /\ \A d \in Callers : d # c => call'[d] = call[d]
    BY <1>1
  <1>3. mem' = mem
    BY DEF Steady, world
  <1>4. NoCall.at = "idle"
    BY DEF NoCall
  <1>5. TypeInv'
    <2>1. call' = [d \in Callers |-> call'[d]]
      BY <1>1
    <2>2. \A d \in Callers :
            call'[d] = NoCall \/ Judges(call'[d]) \/ call'[d] \in PreparedCalls
      BY <1>2 DEF ExperimentInv, TypeInv, Becomes
    <2>3. QED
      BY <2>1, <2>2 DEF ExperimentInv, TypeInv, Steady, world
  <1>6. CallFits(r)' /\ EvidenceFits(r)'
    <2>1. CASE r = NoCall
      BY <2>1, <1>4 DEF CallFits, EvidenceFits, OnItsWay, Reserving, Points
    <2>2. CASE r # NoCall
      <3>1. CallFits(r) /\ EvidenceFits(r)
        BY <2>2 DEF Becomes
      <3>2. QED
        BY <3>1, CallStays
    <2>3. QED
      BY <2>1, <2>2
  <1>7. ASSUME NEW d \in Callers PROVE CallFits(call[d])' /\ EvidenceFits(call[d])'
    <2>1. CASE d = c
      BY <2>1, <1>2, <1>6
    <2>2. CASE d # c
      <3>1. PICK q : q = call[d]
        OBVIOUS
      <3>2. CallFits(q) /\ EvidenceFits(q)
        BY <3>1 DEF ExperimentInv, CallsInv, EvidenceInv
      <3>3. CallFits(q)' /\ EvidenceFits(q)'
        BY <3>2, CallStays
      <3>4. call'[d] = q
        BY <2>2, <3>1, <1>2
      <3>5. QED
        BY <3>3, <3>4
    <2>3. QED
      BY <2>1, <2>2
  <1>8. mem = Closed => \A d \in Callers : call'[d] = NoCall
    BY <1>2 DEF ExperimentInv, CallsInv, Becomes
  <1>9. \A d \in Callers : call'[d].at = "reserved" => call'[d] = call[d]
    BY <1>2, <1>4 DEF Becomes
  <1>10. CallsInv'
    BY <1>3, <1>7, <1>8, <1>9 DEF ExperimentInv, CallsInv
  <1>11. EvidenceInv'
    BY <1>7 DEF EvidenceInv
  <1>12. QED
    BY <1>5, <1>10, <1>11, WorldStays DEF ExperimentInv

\* A call that ends, or goes on where its own record says.
LEMMA CallStops ==
  ASSUME ExperimentInv, Steady, NEW c \in Callers, Stops(c)
  PROVE  ExperimentInv'
  <1>1. Becomes(NoCall)
    BY DEF Becomes
  <1>2. QED
    BY <1>1, OneCallMoves DEF Stops

\* The fields of a call that waits in the middle of something.
LEMMA CallRecord ==
  ASSUME ExperimentInv, NEW c \in Callers, call[c].at \in Points
  PROVE  call[c] \in PreparedCalls /\ mem # Closed
  <1>1. NoCall.at \notin Points /\ "judging" \notin Points
    BY DEF NoCall, Points
  <1>2. QED
    BY <1>1 DEF ExperimentInv, TypeInv, CallsInv, Judges

\* An event of a call that has no evidence to heed.
LEMMA NothingToHeed ==
  ASSUME NEW r, r.at # "judging", ~Reserving(r)
  PROVE  EvidenceFits(r)
  BY DEF EvidenceFits

-----------------------------------------------------------------------------
(* Reading the journal and preparing its events *)

LEMMA ReadingOfSettled ==
  ASSUME mem \in [Samples -> Events]
  PROVE  /\ Seen(mem) \in SUBSET (Samples \X Nat)
         /\ Unresolved(mem) = {} =>
              \A e \in Seen(mem) : e[2] \in {0, 3} /\ (e[2] = 3 => mem[e[1]] = "completed")
  <1>1. ASSUME NEW e \in Seen(mem)
        PROVE  /\ e \in Samples \X Nat
               /\ Unresolved(mem) = {} => e[2] \in {0, 3} /\ (e[2] = 3 => mem[e[1]] = "completed")
    <2>1. PICK s \in Samples : e = <<s, Weight[mem[s]]>>
      BY DEF Seen
    <2>2. mem[s] \in Events
      OBVIOUS
    <2>3. /\ Weight[mem[s]] \in Nat
          /\ Weight[mem[s]] = 0 <=> mem[s] = "none"
          /\ Weight[mem[s]] = 3 <=> mem[s] = "completed"
      BY <2>2, Weights
    <2>4. Unresolved(mem) = {} => mem[s] \in {"none", "completed"}
      BY DEF Unresolved
    <2>5. QED
      BY <2>1, <2>3, <2>4
  <1>2. QED
    BY <1>1

\* A settled view that weighs what the file weighs is the file.
LEMMA SettledViewIsFile ==
  ASSUME TypeInv, mem # Closed, Unresolved(mem) = {}, Seen(mem) = Seen(file)
  PROVE  mem = file
  <1>1. mem \in [Samples -> Events] /\ file \in [Samples -> Events]
    BY DEF TypeInv
  <1>2. ASSUME NEW s \in Samples PROVE mem[s] = file[s]
    <2>1. mem[s] \in Events /\ file[s] \in Events
      BY <1>1
    <2>2. <<s, Weight[file[s]]>> \in Seen(mem)
      BY <2>1, SeenSays
    <2>3. PICK t \in Samples : <<s, Weight[file[s]]>> = <<t, Weight[mem[t]]>>
      BY <2>2 DEF Seen
    <2>4. Weight[file[s]] = Weight[mem[s]]
      BY <2>3
    <2>5. mem[s] \in {"none", "completed"}
      BY DEF Unresolved
    <2>6. QED
      BY <2>1, <2>4, <2>5, Weights
  <1>3. QED
    BY <1>1, <1>2

LEMMA InspectKeeps ==
  ASSUME ExperimentInv, NEW c \in Callers, NEW s \in Samples, Inspect(c, s)
  PROVE  ExperimentInv'
  <1>1. PICK r :
          r = [at |-> "judging", sample |-> s, seen |-> Seen(mem),
               reserved |-> Cardinality(Reserved(mem, Kinds)),
               live |-> Cardinality(Reserved(mem, Live)),
               verdict |-> IF Count(mem, Kinds) = 0 THEN "none" ELSE Verdict(Reading(mem))]
    OBVIOUS
  <1>2. call' = [call EXCEPT ![c] = r]
    BY <1>1 DEF Inspect
  <1>3. /\ r.at = "judging" /\ r.sample = s /\ r.seen = Seen(mem)
        /\ r.live = Cardinality(Reserved(mem, Live))
        /\ r.verdict = IF Count(mem, Kinds) = 0 THEN "none" ELSE Verdict(Reading(mem))
    BY <1>1
  <1>4. mem # Closed /\ mem \in [Samples -> Events] /\ Unresolved(mem) = {}
    BY DEF Inspect, ExperimentInv, TypeInv
  <1>5. Judges(r)
    BY <1>3, <1>4, ReadingOfSettled DEF Judges
  <1>6. CallFits(r)
    BY <1>3 DEF CallFits, OnItsWay, Points
  <1>7. EvidenceFits(r)
    <2>1. \A e \in r.seen : e[2] \in {0, 3} /\ (e[2] = 3 => mem[e[1]] = "completed")
      BY <1>3, <1>4, ReadingOfSettled
    <2>2. ASSUME r.seen = Seen(file)
          PROVE  /\ r.live = Cardinality(Reserved(file, Live))
                 /\ r.verdict = IF Count(file, Kinds) = 0 THEN "none" ELSE Verdict(Reading(file))
      <3>1. mem = file
        BY <2>2, <1>3, <1>4, SettledViewIsFile DEF ExperimentInv
      <3>2. QED
        BY <3>1, <1>3
    <2>3. ~Reserving(r)
      BY <1>3 DEF Reserving
    <2>4. QED
      BY <2>1, <2>2, <2>3 DEF EvidenceFits
  <1>8. Becomes(r)
    BY <1>3, <1>4, <1>5, <1>6, <1>7 DEF Becomes
  <1>9. Steady
    BY Still DEF Inspect
  <1>10. QED
    BY <1>2, <1>8, <1>9, OneCallMoves

\* An event prepared for a reservation, and one for what follows it.
LEMMA PreparedFits ==
  ASSUME ExperimentInv, mem # Closed, NEW s \in Samples, NEW what \in Kinds,
         NEW event \in Events \ {"none"}, NEW seen \in SUBSET (Samples \X Nat),
         NEW r, r = Prepared(s, what, event, seen),
         IF event = "reserved"
         THEN EvidenceFits(r)
         ELSE mem[s] # "none" /\ kind[s] = what /\ (event = "dispatched" => Backed(s))
  PROVE  Becomes(r)
  <1>1. /\ r.at = "appending" /\ r.sample = s /\ r.kind = what
        /\ r.event = event /\ r.seen = seen
    BY DEF Prepared
  <1>2. r \in PreparedCalls
    BY DEF Prepared, PreparedCalls, Points
  <1>3. CallFits(r)
    BY <1>1 DEF CallFits, OnItsWay, Reserving
  <1>4. EvidenceFits(r)
    BY <1>1, NothingToHeed DEF Reserving
  <1>5. QED
    BY <1>1, <1>2, <1>3, <1>4 DEF Becomes

LEMMA ReserveShadowKeeps ==
  ASSUME ExperimentInv, NEW c \in Callers, ReserveShadow(c)
  PROVE  ExperimentInv'
  <1>1. Steady
    BY Still DEF ReserveShadow
  <1>2. CASE Stops(c)
    BY <1>1, <1>2, CallStops
  <1>3. CASE /\ DispatchAllowed(call[c])
             /\ Unchanged /\ Follows(mem, call[c].sample, "reserved")
             /\ call' = [call EXCEPT ![c] =
                  Prepared(call[c].sample, "shadow", "reserved", call[c].seen)]
    <2>1. PICK q : q = call[c]
      OBVIOUS
    <2>2. PICK r : r = Prepared(q.sample, "shadow", "reserved", q.seen)
      OBVIOUS
    <2>3. q.at = "judging"
      BY <2>1 DEF ReserveShadow
    <2>4. Judges(q) /\ mem # Closed
      <3>1. q \notin PreparedCalls /\ q # NoCall
        BY <2>3 DEF PreparedCalls, Points, NoCall
      <3>2. QED
        BY <2>1, <3>1 DEF ExperimentInv, TypeInv, CallsInv
    <2>5. EvidenceFits(q)
      BY <2>1 DEF ExperimentInv, EvidenceInv
    <2>6. /\ r.at = "appending" /\ r.event = "reserved" /\ r.kind = "shadow"
          /\ r.seen = q.seen
      BY <2>2 DEF Prepared
    <2>7. ASSUME r.seen = Seen(file)
          PROVE  ~Breach(Reading(file)) /\ Reserved(file, Live) = {}
      <3>1. q.live = 0 /\ q.verdict \notin {"STOP_REQUIRED", "ROLLBACK_REQUIRED"}
        BY <1>3, <2>1 DEF DispatchAllowed
      <3>2. /\ Cardinality(Reserved(file, Live)) = 0
            /\ q.verdict = IF Count(file, Kinds) = 0 THEN "none" ELSE Verdict(Reading(file))
        BY <2>3, <2>5, <2>6, <2>7, <3>1 DEF EvidenceFits
      <3>3. IsFiniteSet(Reserved(file, Live))
        BY FinitelyMany DEF ExperimentInv, Kinds, Live
      <3>4. Reserved(file, Live) = {}
        BY <3>2, <3>3, FS_EmptySet
      <3>5. CASE Count(file, Kinds) = 0
        BY <3>4, <3>5, NothingBreached DEF ExperimentInv
      <3>6. CASE Count(file, Kinds) # 0
        <4>1. Verdict(Reading(file)) \notin {"STOP_REQUIRED", "ROLLBACK_REQUIRED"}
          BY <3>1, <3>2, <3>6
        <4>2. QED
          BY <3>4, <4>1, VerdictSays
      <3>7. QED
        BY <3>5, <3>6
    <2>8. EvidenceFits(r)
      <3>1. \A e \in r.seen : e[2] \in {0, 3} /\ (e[2] = 3 => mem[e[1]] = "completed")
        BY <2>3, <2>5, <2>6 DEF EvidenceFits
      <3>2. QED
        BY <2>6, <2>7, <3>1 DEF EvidenceFits, Live
    <2>9. Becomes(r)
      BY <2>2, <2>4, <2>8, PreparedFits DEF Judges, Kinds, Live, Events
    <2>10. QED
      BY <1>1, <1>3, <2>1, <2>2, <2>9, OneCallMoves
  <1>4. QED
    BY <1>2, <1>3 DEF ReserveShadow

LEMMA ReserveLiveKeeps ==
  ASSUME ExperimentInv, NEW c \in Callers, NEW a \in Authorizations, ReserveLive(c, a)
  PROVE  ExperimentInv'
  <1>1. PICK r : r = Prepared(a.sample, a.role, "reserved", Seen(mem))
    OBVIOUS
  <1>2. /\ mem # Closed /\ mem = file /\ MatchesCounters(a)
        /\ Follows(mem, a.sample, "reserved")
        /\ call' = [call EXCEPT ![c] = r]
    BY <1>1 DEF ReserveLive, Records, Unchanged
  <1>3. mem \in [Samples -> Events] /\ a \in Drafts
    BY <1>2 DEF ExperimentInv, TypeInv, Authorizations, Authorizable
  <1>4. a.sample \in Samples /\ a.role \in Live /\ a.role # "shadow"
    BY <1>3, DraftsAssumption DEF ValidDrafts, Live
  <1>5. Unresolved(mem) = {}
    BY <1>2, FollowsSays
  <1>6. /\ r.at = "appending" /\ r.event = "reserved" /\ r.kind = a.role
        /\ r.seen = Seen(mem)
    BY <1>1 DEF Prepared
  <1>7. EvidenceFits(r)
    <2>1. \A e \in r.seen : e[2] \in {0, 3} /\ (e[2] = 3 => mem[e[1]] = "completed")
      BY <1>3, <1>5, <1>6, ReadingOfSettled
    <2>2. /\ Count(file, {"shadow"}) = a.reading.shadow
          /\ Count(file, Live) = a.reading.live
          /\ Count(file, {"candidate"}) = a.reading.candidates
      BY <1>2 DEF MatchesCounters
    <2>3. ~OverBudget(After(Reading(file), a.role))
      BY <2>2, AuthorizedNow
    <2>4. QED
      BY <1>4, <1>6, <2>1, <2>3 DEF EvidenceFits
  <1>8. Seen(mem) \in SUBSET (Samples \X Nat)
    BY <1>3, ReadingOfSettled
  <1>9. Becomes(r)
    BY <1>1, <1>2, <1>4, <1>7, <1>8, PreparedFits DEF Kinds, Live, Events
  <1>10. Steady
    BY Still DEF ReserveLive
  <1>11. QED
    BY <1>2, <1>9, <1>10, OneCallMoves

\* A later event of a sample, prepared by whoever knows what the sample is.
LEMMA LaterEventKeeps ==
  ASSUME ExperimentInv, Steady, NEW c \in Callers, NEW s \in Samples,
         NEW event \in {"dispatched", "error", "completed"},
         Records(c, s, kind[s], event),
         event = "dispatched" => Backed(s)
  PROVE  ExperimentInv'
  <1>1. PICK r : r = Prepared(s, kind[s], event, Seen(mem))
    OBVIOUS
  <1>2. mem # Closed /\ Follows(mem, s, event) /\ call' = [call EXCEPT ![c] = r]
    BY <1>1 DEF Records
  <1>3. mem \in [Samples -> Events] /\ Ahead(mem[s], file[s])
    BY <1>2 DEF ExperimentInv, TypeInv, JournalInv
  <1>4. mem[s] # "none"
    BY <1>2, FollowsSays
  <1>5. file[s] # "none"
    BY <1>3, <1>4 DEF Ahead
  <1>6. kind[s] \in Kinds
    BY <1>5 DEF ExperimentInv, JournalInv
  <1>7. Seen(mem) \in SUBSET (Samples \X Nat)
    BY <1>3, ReadingOfSettled
  <1>8. Becomes(r)
    BY <1>1, <1>2, <1>4, <1>6, <1>7, PreparedFits DEF Events
  <1>9. QED
    BY <1>2, <1>8, OneCallMoves

LEMMA CompleteKeeps ==
  ASSUME ExperimentInv, NEW c \in Callers, NEW s \in Samples, Complete(c, s)
  PROVE  ExperimentInv'
  <1>1. Steady
    BY Still DEF Complete
  <1>2. Records(c, s, kind[s], "completed")
    BY DEF Complete
  <1>3. QED
    BY <1>1, <1>2, LaterEventKeeps

LEMMA RecordPublishedKeeps ==
  ASSUME ExperimentInv, NEW c \in Callers, NEW o \in receipts, RecordPublished(c, o)
  PROVE  ExperimentInv'
  <1>1. Steady
    BY Still DEF RecordPublished
  <1>2. o.by.sample \in Samples
    <2>1. o.by \in Drafts
      BY DEF ExperimentInv, TypeInv, Publications
    <2>2. QED
      BY <2>1, DraftsAssumption DEF ValidDrafts
  <1>3. Backed(o.by.sample)
    BY DEF RecordPublished, Backed, Backs
  <1>4. Records(c, o.by.sample, kind[o.by.sample], "dispatched")
    BY DEF RecordPublished
  <1>5. QED
    BY <1>1, <1>2, <1>3, <1>4, LaterEventKeeps

LEMMA RecordOutcomeKeeps ==
  ASSUME ExperimentInv, NEW c \in Callers, RecordOutcome(c)
  PROVE  ExperimentInv'
  <1>1. Steady
    BY Still DEF RecordOutcome
  <1>2. CASE Stops(c)
    BY <1>1, <1>2, CallStops
  <1>3. ASSUME NEW event \in {"error", "dispatched"},
               event = IF call[c].at = "failed" THEN "error" ELSE "dispatched",
               Records(c, call[c].sample, "shadow", event)
        PROVE  ExperimentInv'
    <2>1. PICK q : q = call[c]
      OBVIOUS
    <2>2. q.at \in {"failed", "ran"}
      BY <2>1 DEF RecordOutcome
    <2>3. q \in PreparedCalls
      BY <2>1, <2>2, CallRecord DEF Points
    <2>4. CallFits(q) /\ OnItsWay(q)
      BY <2>1, <2>2 DEF ExperimentInv, CallsInv, OnItsWay, Reserving, Points
    <2>5. /\ kind[q.sample] = "shadow" /\ q.sample \in Samples
          /\ event = "dispatched" => sent[q.sample] = 2
      BY <1>3, <2>1, <2>2, <2>3, <2>4 DEF CallFits, PreparedCalls
    <2>6. Records(c, q.sample, kind[q.sample], event)
      BY <1>3, <2>1, <2>5
    <2>7. event = "dispatched" => Backed(q.sample)
      BY <2>5 DEF Backed
    <2>8. QED
      BY <1>1, <2>5, <2>6, <2>7, LaterEventKeeps
  <1>4. QED
    BY <1>2, <1>3 DEF RecordOutcome

-----------------------------------------------------------------------------
(* Live runs and publications, and what is decided elsewhere *)

LEMMA LiveStepKeeps ==
  ASSUME ExperimentInv, UNCHANGED <<journal, shadow, call>>,
         ran \subseteq ran', receipts \subseteq receipts',
         receipts' \subseteq Publications, publishing' \subseteq Publications
  PROVE  ExperimentInv'
  <1>1. Steady
    BY DEF Steady, world, journal, shadow
  <1>2. QED
    BY <1>1, Untouched

LEMMA ElsewhereKeeps ==
  ASSUME ExperimentInv, UNCHANGED <<journal, shadow, live, call>>
  PROVE  ExperimentInv'
  BY Still, Untouched

LEMMA DispatchKeeps ==
  ASSUME ExperimentInv,
         \/ \E r \in ReferenceRuns, k \in CandidateRuns : Dispatch(r, k)
         \/ \E r \in ReferenceRuns \union CandidateRuns : RunElsewhere(r)
  PROVE  ExperimentInv'
  <1>1. /\ ran \subseteq ran'
        /\ UNCHANGED <<journal, shadow, publications, call>>
    BY DEF Dispatch, RunElsewhere
  <1>2. QED
    BY <1>1, LiveStepKeeps DEF publications, ExperimentInv, TypeInv

LEMMA BeginPublishKeeps ==
  ASSUME ExperimentInv, NEW o \in Publications, BeginPublish(o)
  PROVE  ExperimentInv'
  <1>1. publishing' = {o} /\ UNCHANGED <<journal, shadow, ran, receipts, call>>
    BY DEF BeginPublish
  <1>2. QED
    BY <1>1, LiveStepKeeps DEF ExperimentInv, TypeInv

LEMMA PublishKeeps ==
  ASSUME ExperimentInv, NEW o \in publishing, Publish(o)
  PROVE  ExperimentInv'
  <1>1. /\ publishing' = {}
        /\ receipts' \in {receipts, receipts \union {o}}
        /\ UNCHANGED <<journal, shadow, ran, call>>
    BY DEF Publish
  <1>2. o \in Publications /\ receipts \subseteq Publications
    BY DEF ExperimentInv, TypeInv
  <1>3. QED
    BY <1>1, <1>2, LiveStepKeeps

-----------------------------------------------------------------------------
(* The journal is opened, the process dies *)

LEMMA OpenKeeps ==
  ASSUME ExperimentInv, Open
  PROVE  ExperimentInv'
  <1>1. /\ mem = Closed /\ ~broken /\ mem' = file
        /\ UNCHANGED <<file, broken, kind, breached, bound, sent, ran, receipts, publishing, call>>
    BY DEF Open, shadow, live, publications
  <1>2. \A c \in Callers : call[c] = NoCall
    BY <1>1 DEF ExperimentInv, CallsInv
  <1>3. TypeInv'
    BY <1>1 DEF ExperimentInv, TypeInv
  <1>4. JournalInv'
    <2>1. \A s \in Samples : Ahead(file[s], file[s])
      BY DEF Ahead, ExperimentInv, TypeInv, Events
    <2>2. QED
      BY <1>1, <2>1 DEF ExperimentInv, JournalInv
  <1>5. FiniteInv'
    BY <1>1 DEF ExperimentInv, FiniteInv, Reserved
  <1>6. EffectsInv'
    BY <1>1 DEF ExperimentInv, EffectsInv
  <1>7. BackedInv'
    BY <1>1, BackedStays DEF ExperimentInv, BackedInv
  <1>8. NoCall.at = "idle"
    BY DEF NoCall
  <1>9. CallsInv'
    BY <1>1, <1>2, <1>8 DEF CallsInv, CallFits, OnItsWay, Points
  <1>10. EvidenceInv'
    BY <1>1, <1>2, <1>8 DEF EvidenceInv, EvidenceFits, Reserving
  <1>11. QED
    BY <1>3, <1>4, <1>5, <1>6, <1>7, <1>9, <1>10 DEF ExperimentInv

LEMMA CrashKeeps ==
  ASSUME ExperimentInv, Crash
  PROVE  ExperimentInv'
  <1>1. /\ mem' = Closed /\ publishing' = {} /\ call' = [c \in Callers |-> NoCall]
        /\ UNCHANGED <<file, kind, breached, bound, sent, ran, receipts>>
    BY DEF Crash, shadow
  <1>2. broken' \in BOOLEAN /\ (broken => broken')
    BY Zenon DEF Crash, ExperimentInv, TypeInv
  <1>3. TypeInv'
    BY <1>1, <1>2 DEF ExperimentInv, TypeInv
  <1>4. JournalInv'
    BY <1>1, <1>2 DEF ExperimentInv, JournalInv
  <1>5. FiniteInv'
    BY <1>1 DEF ExperimentInv, FiniteInv, Reserved
  <1>6. EffectsInv'
    BY <1>1 DEF ExperimentInv, EffectsInv
  <1>7. BackedInv'
    BY <1>1, BackedStays DEF ExperimentInv, BackedInv
  <1>8. NoCall.at = "idle" /\ \A c \in Callers : call'[c] = NoCall
    BY <1>1 DEF NoCall
  <1>9. CallsInv'
    BY <1>8 DEF CallsInv, CallFits, OnItsWay, Points
  <1>10. EvidenceInv'
    BY <1>8 DEF EvidenceInv, EvidenceFits, Reserving
  <1>11. QED
    BY <1>3, <1>4, <1>5, <1>6, <1>7, <1>9, <1>10 DEF ExperimentInv

-----------------------------------------------------------------------------
(* A shadow sample is run *)

LEMMA RunKeeps ==
  ASSUME ExperimentInv, NEW c \in Callers, Run(c)
  PROVE  ExperimentInv'
  <1>1. PICK q : q = call[c]
    OBVIOUS
  <1>2. q.at = "reserved"
    BY <1>1 DEF Run
  <1>3. q \in PreparedCalls /\ mem # Closed
    BY <1>1, <1>2, CallRecord DEF Points
  <1>4. PICK s \in Samples : s = q.sample
    BY <1>3 DEF PreparedCalls
  <1>5. PICK k \in 0..4 :
          /\ bound' = [bound EXCEPT ![s] = @ + (IF k <= 2 THEN k ELSE 2)]
          /\ sent' = [sent EXCEPT ![s] = @ + (IF k <= 2 THEN 0 ELSE k - 2)]
          /\ Goes(c, IF k = 4 THEN "ran" ELSE "failed")
    BY <1>1, <1>4 DEF Run
  <1>6. UNCHANGED <<file, broken, mem, kind, breached, ran, receipts, publishing>>
    BY DEF Run, journal, live, publications
  <1>7. PICK r : r = [q EXCEPT !.at = IF k = 4 THEN "ran" ELSE "failed"]
    OBVIOUS
  <1>8. call' = [call EXCEPT ![c] = r]
    BY <1>1, <1>5, <1>7 DEF Goes
  <1>9. /\ file \in [Samples -> Events] /\ mem \in [Samples -> Events]
        /\ bound \in [Samples -> 0..2] /\ sent \in [Samples -> Nat]
        /\ call = [d \in Callers |-> call[d]]
    BY <1>3 DEF ExperimentInv, TypeInv
  <1>10. /\ mem[s] # "none" /\ kind[s] = "shadow" /\ q.kind = "shadow"
         /\ bound[s] = 0 /\ sent[s] = 0
    <2>1. CallFits(q) /\ OnItsWay(q)
      BY <1>1, <1>2 DEF ExperimentInv, CallsInv, OnItsWay, Reserving, Points
    <2>2. QED
      BY <1>2, <1>4, <2>1 DEF CallFits, ExperimentInv, EffectsInv
  <1>11. Ahead(mem[s], file[s]) /\ file[s] # "none"
    BY <1>3, <1>10 DEF ExperimentInv, JournalInv, Ahead
  <1>12. /\ bound'[s] \in 0..2 /\ bound' \in [Samples -> 0..2]
         /\ \A t \in Samples : t # s => bound'[t] = bound[t]
    BY <1>5, <1>9, <1>10
  <1>13. /\ sent'[s] \in 0..2 /\ (bound'[s] = 0 => sent'[s] = 0) /\ sent' \in [Samples -> Nat]
         /\ k = 4 => sent'[s] = 2
         /\ \A t \in Samples : t # s => sent'[t] = sent[t]
    BY <1>5, <1>9, <1>10
  <1>14. call'[c] = r /\ \A d \in Callers : d # c => call'[d] = call[d]
    BY <1>8, <1>9
  <1>15. /\ r \in PreparedCalls /\ r.at \in {"ran", "failed"}
         /\ r.sample = s /\ r.kind = "shadow" /\ (r.at = "ran" => k = 4)
    BY <1>3, <1>4, <1>7, <1>10 DEF PreparedCalls, Points
  <1>16. TypeInv'
    <2>1. call' = [d \in Callers |-> call'[d]]
      BY <1>8, <1>9
    <2>2. \A d \in Callers :
            call'[d] = NoCall \/ Judges(call'[d]) \/ call'[d] \in PreparedCalls
      BY <1>14, <1>15 DEF ExperimentInv, TypeInv
    <2>3. QED
      BY <1>6, <1>12, <1>13, <2>1, <2>2 DEF ExperimentInv, TypeInv
  <1>17. JournalInv'
    <2>1. \A t \in Samples :
            bound'[t] > 0 => file[t] # "none" /\ kind[t] = "shadow" /\ mem[t] # "none"
      BY <1>3, <1>10, <1>11, <1>12 DEF ExperimentInv, JournalInv
    <2>2. ASSUME NEW t \in Samples, bound'[t] > 0, file[t] # "completed"
          PROVE  mem[t] \notin Settled
      <3>1. mem[t] # "none" /\ Ahead(mem[t], file[t])
        BY <1>3, <2>1, <2>2 DEF ExperimentInv, JournalInv
      <3>2. QED
        BY <2>2, <3>1 DEF Ahead, Settled
    <2>3. \A t, u \in Samples :
            bound'[t] > 0 /\ file[t] # "completed" /\ bound'[u] > 0 /\ file[u] # "completed"
            => t = u
      BY <1>3, <2>2 DEF ExperimentInv, JournalInv
    <2>4. QED
      BY <1>6, <2>1, <2>3 DEF ExperimentInv, JournalInv
  <1>18. FiniteInv'
    <2>1. Reserved(file, Kinds)' = Reserved(file, Kinds)
      BY <1>6 DEF Reserved
    <2>2. QED
      BY <2>1 DEF ExperimentInv, FiniteInv
  <1>19. EffectsInv'
    BY <1>12, <1>13 DEF ExperimentInv, EffectsInv
  <1>20. ASSUME NEW t, Backed(t), t \in Samples PROVE Backed(t)'
    <2>1. CASE kind[t] = "shadow" /\ sent[t] = 2
      BY <1>6, <1>10, <1>13, <1>20, <2>1 DEF Backed
    <2>2. CASE \E o \in receipts : Backs(o, t)
      BY <1>6, <2>2 DEF Backed, Backs, PairVerifies
    <2>3. QED
      BY <1>20, <2>1, <2>2 DEF Backed
  <1>21. BackedInv'
    BY <1>6, <1>20 DEF ExperimentInv, BackedInv
  <1>22. CallFits(r)'
    BY <1>6, <1>10, <1>13, <1>15 DEF CallFits
  <1>23. EvidenceFits(r)'
    BY <1>15 DEF EvidenceFits, Reserving
  <1>24. ASSUME NEW d \in Callers, d # c PROVE CallFits(call[d])' /\ EvidenceFits(call[d])'
    <2>1. PICK p : p = call[d]
      OBVIOUS
    <2>2. CallFits(p) /\ EvidenceFits(p) /\ call'[d] = p
      BY <1>14, <1>24, <2>1 DEF ExperimentInv, CallsInv, EvidenceInv
    <2>3. p.at \in Points => p.sample \in Samples
      BY <2>1, CallRecord DEF PreparedCalls
    <2>4. p.at = "reserved" => p.sample # s
      BY <1>1, <1>2, <1>4, <1>24, <2>1 DEF ExperimentInv, CallsInv
    <2>5. p.at = "reserved" => bound'[p.sample] = 0
      BY <1>12, <2>2, <2>3, <2>4 DEF CallFits, Points
    <2>6. p.at = "ran" => sent'[p.sample] = 2
      BY <1>10, <1>13, <2>2, <2>3 DEF CallFits, Points
    <2>7. p.at = "appending" /\ p.event = "dispatched" => Backed(p.sample)'
      BY <1>20, <2>2, <2>3 DEF CallFits, Points
    <2>8. CallFits(p)'
      BY <1>6, <2>2, <2>5, <2>6, <2>7 DEF CallFits
    <2>9. EvidenceFits(p)'
      <3>1. /\ Reserved(file, Live)' = Reserved(file, Live)
            /\ Count(file, Kinds)' = Count(file, Kinds)
            /\ Reading(file)' = Reading(file)
            /\ Seen(file)' = Seen(file)
        BY <1>6 DEF Reading, Count, Completed, Reserved, Seen
      <3>2. QED
        BY <1>6, <2>2, <3>1 DEF EvidenceFits
    <2>10. QED
      BY <2>2, <2>8, <2>9
  <1>25. CallsInv'
    <2>1. \A d \in Callers : CallFits(call[d])'
      BY <1>14, <1>22, <1>24
    <2>2. \A d \in Callers : call'[d].at = "reserved" => call'[d] = call[d]
      BY <1>14, <1>15
    <2>3. QED
      BY <1>3, <1>6, <2>1, <2>2 DEF ExperimentInv, CallsInv
  <1>26. EvidenceInv'
    BY <1>14, <1>23, <1>24 DEF EvidenceInv
  <1>27. QED
    BY <1>16, <1>17, <1>18, <1>19, <1>21, <1>25, <1>26 DEF ExperimentInv

-----------------------------------------------------------------------------
(* An event is written *)

\* What Append does when the event gets into the file.
Written(c, q, r) ==
  /\ file' = [file EXCEPT ![q.sample] = q.event]
  /\ kind' = [kind EXCEPT ![q.sample] = q.kind]
  /\ \/ breached' = breached
     \/ q.event = "completed" /\ breached' = breached \union {Count(file, Kinds) + 1}
  /\ \/ mem' = [mem EXCEPT ![q.sample] = q.event]
     \/ mem' = mem /\ r = NoCall
  /\ \/ q.event = "reserved" /\ q.kind = "shadow" /\ r = [q EXCEPT !.at = "reserved"]
     \/ r = NoCall
  /\ broken' = (broken \/ mem # file)
  /\ call' = [call EXCEPT ![c] = r]
  /\ UNCHANGED <<shadow, live>>

\* Whoever writes knows what the sample is, except the one who reserves it.
LEMMA WrittenFacts ==
  ASSUME ExperimentInv, NEW c \in Callers, NEW q, q = call[c], q.at = "appending",
         Follows(mem, q.sample, q.event), NEW r, Written(c, q, r)
  PROVE  /\ q \in PreparedCalls /\ mem # Closed /\ q.sample \in Samples
         /\ file \in [Samples -> Events] /\ mem \in [Samples -> Events]
         /\ kind \in [Samples -> Kinds \union {"none"}]
         /\ \A t \in Samples : /\ file'[t] = IF t = q.sample THEN q.event ELSE file[t]
                               /\ kind'[t] = IF t = q.sample THEN q.kind ELSE kind[t]
         /\ \/ mem' = mem
            \/ \A t \in Samples : mem'[t] = IF t = q.sample THEN q.event ELSE mem[t]
         /\ file' \in [Samples -> Events] /\ mem' \in [Samples -> Events]
         /\ kind' \in [Samples -> Kinds \union {"none"}]
         /\ q.event \in {"reserved", "dispatched", "error", "completed"} /\ q.kind \in Kinds
         /\ q.event = "reserved" => mem[q.sample] = "none" /\ Unresolved(mem) = {}
         /\ q.event = "completed" => mem[q.sample] = "dispatched"
         /\ q.event \in {"dispatched", "error"} => mem[q.sample] = "reserved"
         /\ mem[q.sample] # "none" => kind[q.sample] = q.kind
  <1>1. q \in PreparedCalls /\ mem # Closed
    BY CallRecord DEF Points
  <1>2. /\ q.sample \in Samples /\ q.kind \in Kinds
        /\ q.event \in {"reserved", "dispatched", "error", "completed"}
    BY <1>1 DEF PreparedCalls, Events
  <1>3. /\ file \in [Samples -> Events] /\ mem \in [Samples -> Events]
        /\ kind \in [Samples -> Kinds \union {"none"}]
    BY <1>1 DEF ExperimentInv, TypeInv
  <1>4. /\ q.event = "reserved" => mem[q.sample] = "none" /\ Unresolved(mem) = {}
        /\ q.event = "completed" => mem[q.sample] = "dispatched"
        /\ q.event \in {"dispatched", "error"} => mem[q.sample] = "reserved"
    BY FollowsSays
  <1>5. CallFits(q)
    BY DEF ExperimentInv, CallsInv
  <1>6. mem[q.sample] # "none" => kind[q.sample] = q.kind
    BY <1>4, <1>5 DEF CallFits, OnItsWay, Reserving, Points
  <1>7. q.event \in Events
    BY <1>2 DEF Events
  <1>8. /\ file' = [file EXCEPT ![q.sample] = q.event]
        /\ kind' = [kind EXCEPT ![q.sample] = q.kind]
        /\ mem' = mem \/ mem' = [mem EXCEPT ![q.sample] = q.event]
    BY DEF Written
  <1>9. \A t \in Samples : /\ file'[t] = IF t = q.sample THEN q.event ELSE file[t]
                           /\ kind'[t] = IF t = q.sample THEN q.kind ELSE kind[t]
    BY <1>2, <1>3, <1>8
  <1>10. \/ mem' = mem
         \/ \A t \in Samples : mem'[t] = IF t = q.sample THEN q.event ELSE mem[t]
    BY <1>2, <1>3, <1>8
  <1>11. /\ file' \in [Samples -> Events] /\ mem' \in [Samples -> Events]
         /\ kind' \in [Samples -> Kinds \union {"none"}]
    BY <1>2, <1>3, <1>7, <1>8
  <1>12. QED
    BY <1>1, <1>2, <1>3, <1>4, <1>6, <1>9, <1>10, <1>11

\* A sample somebody knows of keeps its kind, and what is known is not forgotten.
LEMMA WrittenKeepsKinds ==
  ASSUME ExperimentInv, NEW c \in Callers, NEW q, q = call[c], q.at = "appending",
         Follows(mem, q.sample, q.event), NEW r, Written(c, q, r)
  PROVE  /\ \A t \in Samples : mem[t] # "none" => kind'[t] = kind[t] /\ mem'[t] # "none"
         /\ \A t \in Samples : mem[t] = "completed" => mem'[t] = "completed"
         /\ \A t \in Samples : bound[t] > 0 => mem[t] # "none"
         /\ \A t \in Samples : file[t] = "completed" =>
              file'[t] = "completed" /\ kind'[t] = kind[t]
  <1>1. /\ mem # Closed /\ q.sample \in Samples
        /\ \A t \in Samples : /\ file'[t] = IF t = q.sample THEN q.event ELSE file[t]
                              /\ kind'[t] = IF t = q.sample THEN q.kind ELSE kind[t]
        /\ \/ mem' = mem
           \/ \A t \in Samples : mem'[t] = IF t = q.sample THEN q.event ELSE mem[t]
        /\ q.event \in {"reserved", "dispatched", "error", "completed"}
        /\ q.event = "reserved" => mem[q.sample] = "none"
        /\ q.event = "completed" => mem[q.sample] = "dispatched"
        /\ q.event \in {"dispatched", "error"} => mem[q.sample] = "reserved"
        /\ mem[q.sample] # "none" => kind[q.sample] = q.kind
    BY WrittenFacts
  <1>2. \A t \in Samples : mem[t] # "none" => kind'[t] = kind[t] /\ mem'[t] # "none"
    BY <1>1
  <1>3. \A t \in Samples : mem[t] = "completed" => mem'[t] = "completed"
    BY <1>1
  <1>4. \A t \in Samples : bound[t] > 0 => mem[t] # "none"
    BY <1>1 DEF ExperimentInv, JournalInv
  <1>5. ASSUME NEW t \in Samples, file[t] = "completed"
        PROVE  file'[t] = "completed" /\ kind'[t] = kind[t]
    <2>1. mem[t] \in {"dispatched", "completed"}
      BY <1>1, <1>5 DEF ExperimentInv, JournalInv, Ahead
    <2>2. QED
      BY <1>1, <1>2, <1>5, <2>1
  <1>6. QED
    BY <1>2, <1>3, <1>4, <1>5

LEMMA WrittenKeepsJournal ==
  ASSUME ExperimentInv, NEW c \in Callers, NEW q, q = call[c], q.at = "appending",
         Follows(mem, q.sample, q.event), NEW r, Written(c, q, r)
  PROVE  JournalInv'
  <1>1. /\ mem # Closed /\ q.sample \in Samples /\ q.kind \in Kinds
        /\ \A t \in Samples : /\ file'[t] = IF t = q.sample THEN q.event ELSE file[t]
                              /\ kind'[t] = IF t = q.sample THEN q.kind ELSE kind[t]
        /\ \/ mem' = mem
           \/ \A t \in Samples : mem'[t] = IF t = q.sample THEN q.event ELSE mem[t]
        /\ q.event \in {"reserved", "dispatched", "error", "completed"}
        /\ q.event = "reserved" => mem[q.sample] = "none" /\ Unresolved(mem) = {}
        /\ q.event = "completed" => mem[q.sample] = "dispatched"
        /\ q.event \in {"dispatched", "error"} => mem[q.sample] = "reserved"
    BY WrittenFacts
  <1>2. /\ \A t \in Samples : Ahead(mem[t], file[t])
        /\ \A t \in Samples : bound[t] > 0 =>
             file[t] # "none" /\ mem[t] # "none" /\ kind[t] = "shadow"
        /\ \A t, u \in Samples : mem[t] \notin Settled /\ mem[u] \notin Settled => t = u
        /\ \A t, u \in Samples :
             bound[t] > 0 /\ file[t] # "completed" /\ bound[u] > 0 /\ file[u] # "completed"
             => t = u
    BY <1>1 DEF ExperimentInv, JournalInv
  <1>3. bound' = bound
    BY DEF Written, shadow
  <1>4. \A t \in Samples : Ahead(mem'[t], file'[t])
    <2>1. Ahead(mem[q.sample], q.event) /\ Ahead(q.event, q.event)
      BY <1>1 DEF Ahead
    <2>2. QED
      BY <1>1, <1>2, <2>1
  <1>5. \A t \in Samples : bound[t] > 0 =>
          file'[t] # "none" /\ mem'[t] # "none" /\ kind'[t] = "shadow"
    BY <1>1, <1>2, WrittenKeepsKinds
  <1>6. \A t \in Samples : file'[t] # "none" => kind'[t] \in Kinds
    BY <1>1 DEF ExperimentInv, JournalInv
  <1>7. q.event = "reserved" => \A t \in Samples : mem[t] \in Settled
    BY <1>1 DEF Unresolved, Settled
  <1>8. \A t, u \in Samples : mem'[t] \notin Settled /\ mem'[u] \notin Settled => t = u
    <2>1. CASE mem' = mem
      BY <1>2, <2>1
    <2>2. CASE \A t \in Samples : mem'[t] = IF t = q.sample THEN q.event ELSE mem[t]
      BY <1>1, <1>2, <1>7, <2>2 DEF Settled
    <2>3. QED
      BY <1>1, <2>1, <2>2
  <1>9. ASSUME ~broken'
        PROVE  \A t, u \in Samples : file'[t] \notin Settled /\ file'[u] \notin Settled => t = u
    <2>1. broken' = (broken \/ mem # file)
      BY DEF Written
    <2>2. mem = file
      BY <1>9, <2>1
    <2>3. QED
      BY <1>1, <1>2, <1>7, <2>2 DEF Settled
  <1>10. \A t \in Samples : bound[t] > 0 /\ file'[t] # "completed" => file[t] # "completed"
    BY <1>1, <1>2 DEF Ahead
  <1>11. QED
    BY <1>2, <1>3, <1>4, <1>5, <1>6, <1>8, <1>9, <1>10 DEF JournalInv


LEMMA WrittenKeepsCounters ==
  ASSUME ExperimentInv, NEW c \in Callers, NEW q, q = call[c], q.at = "appending",
         Follows(mem, q.sample, q.event), NEW r, Written(c, q, r)
  PROVE  FiniteInv'
  <1>1. /\ q.sample \in Samples
        /\ \A t \in Samples : /\ file'[t] = IF t = q.sample THEN q.event ELSE file[t]
                              /\ kind'[t] = IF t = q.sample THEN q.kind ELSE kind[t]
    BY WrittenFacts
  <1>2. Reserved(file, Kinds)' \in SUBSET (Reserved(file, Kinds) \union {q.sample})
    BY <1>1 DEF Reserved
  <1>3. IsFiniteSet(Reserved(file, Kinds) \union {q.sample})
    BY FS_AddElement DEF ExperimentInv, FiniteInv
  <1>4. IsFiniteSet(Reserved(file, Kinds)')
    BY <1>2, <1>3, FS_Subset
  <1>5. QED
    BY <1>4 DEF FiniteInv

\* What backs a known sample goes on backing it, and only what is backed is
\* written as dispatched or completed.
LEMMA WrittenKeepsBacked ==
  ASSUME ExperimentInv, NEW c \in Callers, NEW q, q = call[c], q.at = "appending",
         Follows(mem, q.sample, q.event), NEW r, Written(c, q, r)
  PROVE  /\ \A t \in Samples : mem[t] # "none" /\ Backed(t) => Backed(t)'
         /\ BackedInv'
  <1>1. UNCHANGED <<sent, ran, receipts>>
    BY DEF Written, shadow, live, publications
  <1>2. ASSUME NEW t \in Samples, mem[t] # "none", Backed(t) PROVE Backed(t)'
    <2>1. kind'[t] = kind[t]
      BY <1>2, WrittenKeepsKinds
    <2>2. QED
      BY <1>1, <1>2, <2>1, BackedStays
  <1>3. /\ mem # Closed /\ q.sample \in Samples
        /\ \A t \in Samples : file'[t] = IF t = q.sample THEN q.event ELSE file[t]
        /\ q.event = "completed" => mem[q.sample] = "dispatched"
        /\ q.event \in {"dispatched", "error"} => mem[q.sample] = "reserved"
    BY WrittenFacts
  <1>4. \A t \in Samples : Ahead(mem[t], file[t])
    BY <1>3 DEF ExperimentInv, JournalInv
  <1>5. ASSUME NEW t \in Samples, file'[t] \in {"dispatched", "completed"}
        PROVE  mem[t] # "none" /\ Backed(t)
    <2>1. CASE t = q.sample /\ q.event = "dispatched"
      <3>1. CallFits(q)
        BY DEF ExperimentInv, CallsInv
      <3>2. QED
        BY <1>3, <2>1, <3>1 DEF CallFits
    <2>2. CASE t = q.sample /\ q.event = "completed"
      <3>1. file[t] \in {"dispatched", "completed"} /\ mem[t] # "none"
        BY <1>3, <1>4, <2>2 DEF Ahead
      <3>2. QED
        BY <3>1 DEF ExperimentInv, BackedInv
    <2>3. CASE t # q.sample
      <3>1. file[t] \in {"dispatched", "completed"} /\ mem[t] # "none"
        BY <1>3, <1>4, <1>5, <2>3 DEF Ahead
      <3>2. QED
        BY <3>1 DEF ExperimentInv, BackedInv
    <2>4. QED
      BY <1>3, <1>5, <2>1, <2>2, <2>3
  <1>6. BackedInv'
    BY <1>2, <1>5 DEF BackedInv
  <1>7. QED
    BY <1>2, <1>6

\* A reading of nothing unresolved is not that of the file with the event.
LEMMA WrittenOutdates ==
  ASSUME ExperimentInv, NEW c \in Callers, NEW q, q = call[c], q.at = "appending",
         Follows(mem, q.sample, q.event), NEW r, Written(c, q, r),
         NEW seen,
         \A e \in seen : e[2] \in {0, 3} /\ (e[2] = 3 => mem[e[1]] = "completed")
  PROVE  seen # Seen(file)'
  <1>1. /\ q.sample \in Samples /\ file'[q.sample] = q.event
        /\ q.event \in {"reserved", "dispatched", "error", "completed"}
        /\ q.event = "completed" => mem[q.sample] = "dispatched"
    BY WrittenFacts
  <1>2. q.event \in Events
    BY <1>1 DEF Events
  <1>3. <<q.sample, Weight[q.event]>> \in Seen(file)'
    BY <1>1 DEF Seen
  <1>4. ASSUME seen = Seen(file)' PROVE FALSE
    <2>1. PICK w : w = Weight[q.event]
      OBVIOUS
    <2>2. <<q.sample, w>> \in seen
      BY <1>3, <1>4, <2>1
    <2>3. w \in {0, 3} /\ (w = 3 => mem[q.sample] = "completed")
      BY <2>2
    <2>4. w # 0 /\ (w = 3 <=> q.event = "completed")
      BY <1>1, <1>2, <2>1, Weights
    <2>5. QED
      BY <1>1, <2>3, <2>4
  <1>5. QED
    BY <1>4

LEMMA WrittenKeepsCalls ==
  ASSUME ExperimentInv, NEW c \in Callers, NEW q, q = call[c], q.at = "appending",
         Follows(mem, q.sample, q.event), NEW r, Written(c, q, r)
  PROVE  TypeInv' /\ CallsInv' /\ EvidenceInv'
  <1>1. /\ q \in PreparedCalls /\ mem # Closed /\ q.sample \in Samples
        /\ mem \in [Samples -> Events]
        /\ file' \in [Samples -> Events] /\ mem' \in [Samples -> Events]
        /\ kind' \in [Samples -> Kinds \union {"none"}]
        /\ \A t \in Samples : kind'[t] = IF t = q.sample THEN q.kind ELSE kind[t]
        /\ q.event = "reserved" => mem[q.sample] = "none"
    BY WrittenFacts
  <1>2. /\ UNCHANGED <<bound, sent, ran, receipts, publishing>>
        /\ call' = [call EXCEPT ![c] = r]
        /\ \/ q.event = "reserved" /\ q.kind = "shadow" /\ r = [q EXCEPT !.at = "reserved"]
           \/ r = NoCall
        /\ \/ mem' = [mem EXCEPT ![q.sample] = q.event]
           \/ mem' = mem /\ r = NoCall
    BY DEF Written, shadow, live, publications
  <1>3. call = [d \in Callers |-> call[d]]
    BY DEF ExperimentInv, TypeInv
  <1>4. call'[c] = r /\ \A d \in Callers : d # c => call'[d] = call[d]
    BY <1>2, <1>3
  <1>5. NoCall.at = "idle"
    BY DEF NoCall
  <1>6. r # NoCall =>
          /\ r \in PreparedCalls /\ r.at = "reserved"
          /\ r.sample = q.sample /\ r.kind = "shadow" /\ q.kind = "shadow"
          /\ q.event = "reserved" /\ mem'[q.sample] = "reserved"
    BY <1>1, <1>2 DEF PreparedCalls, Points
  <1>7. Closed \notin [Samples -> Events]
    BY ClosedAssumption
  <1>8. TypeInv'
    <2>1. call' = [d \in Callers |-> call'[d]]
      BY <1>2, <1>3
    <2>2. \A d \in Callers :
            call'[d] = NoCall \/ Judges(call'[d]) \/ call'[d] \in PreparedCalls
      BY <1>4, <1>6 DEF ExperimentInv, TypeInv
    <2>3. broken' \in BOOLEAN
      BY Zenon DEF Written
    <2>4. breached' \subseteq Nat \ {0}
      <3>1. Count(file, Kinds) \in Nat
        BY FinitelyMany, FS_CardinalityType DEF ExperimentInv, Count
      <3>2. breached' = breached \/ breached' = breached \union {Count(file, Kinds) + 1}
        BY DEF Written
      <3>3. QED
        BY <3>1, <3>2 DEF ExperimentInv, TypeInv
    <2>5. QED
      BY <1>1, <1>2, <2>1, <2>2, <2>3, <2>4 DEF ExperimentInv, TypeInv
  <1>9. /\ \A t \in Samples : mem[t] # "none" => kind'[t] = kind[t] /\ mem'[t] # "none"
        /\ \A t \in Samples : mem[t] = "completed" => mem'[t] = "completed"
        /\ \A t \in Samples : mem[t] # "none" /\ Backed(t) => Backed(t)'
    BY WrittenKeepsKinds, WrittenKeepsBacked
  <1>10. CallFits(r)'
    <2>1. CASE r = NoCall
      BY <1>5, <2>1 DEF CallFits, OnItsWay, Points
    <2>2. CASE r # NoCall
      <3>1. mem'[r.sample] # "none" /\ kind'[r.sample] = r.kind
        BY <1>1, <1>6, <2>2
      <3>2. bound[r.sample] = 0
        <4>1. mem[r.sample] = "none" /\ r.sample \in Samples
          BY <1>1, <1>6, <2>2
        <4>2. QED
          BY <1>1, <4>1 DEF ExperimentInv, JournalInv, TypeInv
      <3>3. QED
        BY <1>2, <1>6, <2>2, <3>1, <3>2 DEF CallFits
    <2>3. QED
      BY <2>1, <2>2
  <1>11. EvidenceFits(r)'
    BY <1>5, <1>6 DEF EvidenceFits, Reserving
  <1>12. ASSUME NEW d \in Callers, d # c PROVE CallFits(call[d])' /\ EvidenceFits(call[d])'
    <2>1. PICK p : p = call[d]
      OBVIOUS
    <2>2. CallFits(p) /\ EvidenceFits(p) /\ call'[d] = p
      BY <1>4, <1>12, <2>1 DEF ExperimentInv, CallsInv, EvidenceInv
    <2>3. OnItsWay(p) => p.sample \in Samples
      BY <2>1, CallRecord DEF OnItsWay, PreparedCalls
    <2>4. CallFits(p)'
      <3>1. p.at = "appending" /\ p.event = "dispatched" => OnItsWay(p)
        BY DEF OnItsWay, Reserving, Points
      <3>2. p.at = "appending" /\ p.event = "dispatched" => Backed(p.sample)'
        BY <1>9, <2>2, <2>3, <3>1 DEF CallFits
      <3>3. OnItsWay(p) => mem'[p.sample] # "none" /\ kind'[p.sample] = p.kind
        BY <1>9, <2>2, <2>3 DEF CallFits
      <3>4. QED
        BY <1>2, <2>2, <3>2, <3>3 DEF CallFits, OnItsWay, Reserving
    <2>5. EvidenceFits(p)'
      <3>1. CASE p.at = "judging" \/ Reserving(p)
        <4>1. \A e \in p.seen : e[2] \in {0, 3} /\ (e[2] = 3 => mem[e[1]] = "completed")
          BY <2>2, <3>1 DEF EvidenceFits
        <4>2. p.seen # Seen(file)'
          BY <4>1, WrittenOutdates
        <4>3. p.seen \in SUBSET (Samples \X Nat)
          <5>1. p = NoCall \/ Judges(p) \/ p \in PreparedCalls
            BY <2>1 DEF ExperimentInv, TypeInv
          <5>2. p # NoCall
            BY <3>1, <1>5 DEF Reserving
          <5>3. QED
            BY <5>1, <5>2 DEF Judges, PreparedCalls
        <4>4. \A e \in p.seen : e[2] = 3 => mem'[e[1]] = "completed"
          <5>1. \A e \in p.seen : e[1] \in Samples
            BY <4>3
          <5>2. QED
            BY <1>9, <4>1, <5>1
        <4>5. QED
          BY <4>1, <4>2, <4>4 DEF EvidenceFits
      <3>2. CASE ~(p.at = "judging" \/ Reserving(p))
        BY <3>2 DEF EvidenceFits, Reserving
      <3>3. QED
        BY <3>1, <3>2
    <2>6. QED
      BY <2>2, <2>4, <2>5
  <1>13. ASSUME NEW d \in Callers, d # c, r # NoCall, call[d].at = "reserved",
                call[d].sample = r.sample
         PROVE  FALSE
    <2>1. CallFits(call[d]) /\ OnItsWay(call[d])
      BY <1>13 DEF ExperimentInv, CallsInv, OnItsWay, Reserving, Points
    <2>2. mem[r.sample] # "none"
      BY <1>13, <2>1 DEF CallFits
    <2>3. QED
      BY <1>1, <1>6, <1>13, <2>2
  <1>14. CallsInv'
    <2>1. \A d \in Callers : CallFits(call[d])'
      BY <1>4, <1>10, <1>12
    <2>2. ASSUME NEW d \in Callers, NEW e \in Callers,
                 call'[d].at = "reserved", call'[e].at = "reserved",
                 call'[d].sample = call'[e].sample
          PROVE  d = e
      BY <1>4, <1>5, <1>13, <2>2 DEF ExperimentInv, CallsInv
    <2>3. mem' # Closed
      BY <1>1, <1>7
    <2>4. QED
      BY <2>1, <2>2, <2>3 DEF CallsInv
  <1>15. EvidenceInv'
    BY <1>4, <1>11, <1>12 DEF EvidenceInv
  <1>16. QED
    BY <1>8, <1>14, <1>15

LEMMA AppendKeeps ==
  ASSUME ExperimentInv, NEW c \in Callers, Append(c)
  PROVE  ExperimentInv'
  <1>1. PICK q : q = call[c]
    OBVIOUS
  <1>2. q.at = "appending"
    BY <1>1 DEF Append
  <1>3. UNCHANGED <<shadow, live>>
    BY DEF Append
  <1>4. CASE Stops(c) /\ UNCHANGED journal
    BY <1>3, <1>4, Still, CallStops
  <1>5. CASE broken' = TRUE /\ Stops(c) /\ UNCHANGED <<file, mem, kind, breached>>
    <2>1. Steady
      BY <1>3, <1>5 DEF ExperimentInv, TypeInv, Steady, world, shadow, live, publications
    <2>2. QED
      BY <1>5, <2>1, CallStops
  <1>6. ASSUME Follows(mem, q.sample, q.event), NEW r, Written(c, q, r)
        PROVE  ExperimentInv'
    <2>1. EffectsInv'
      BY <1>6 DEF Written, shadow, ExperimentInv, EffectsInv
    <2>2. QED
      BY <1>1, <1>2, <1>6, <2>1, WrittenKeepsJournal, WrittenKeepsCounters,
         WrittenKeepsBacked, WrittenKeepsCalls DEF ExperimentInv
  <1>7. CASE /\ Follows(mem, q.sample, q.event)
             /\ file' = [file EXCEPT ![q.sample] = q.event]
             /\ kind' = [kind EXCEPT ![q.sample] = q.kind]
             /\ breached' \in {breached} \union
                  (IF q.event = "completed"
                   THEN {breached \union {Count(file, Kinds) + 1}} ELSE {})
             /\ \/ /\ mem' = [mem EXCEPT ![q.sample] = q.event]
                   /\ broken' = (broken \/ mem # file)
                   /\ IF q.event = "reserved" /\ q.kind = "shadow"
                      THEN Goes(c, "reserved") ELSE Stops(c)
                \/ broken' = (broken \/ mem # file) /\ Stops(c) /\ UNCHANGED mem
    <2>1. \/ breached' = breached
          \/ q.event = "completed" /\ breached' = breached \union {Count(file, Kinds) + 1}
      BY <1>7
    <2>2. broken' = (broken \/ mem # file)
      BY <1>7, Zenon
    <2>3. CASE Stops(c)
      <3>1. call' = [call EXCEPT ![c] = NoCall]
        BY <2>3 DEF Stops
      <3>2. mem' = [mem EXCEPT ![q.sample] = q.event] \/ mem' = mem
        BY <1>7
      <3>3. Written(c, q, NoCall)
        BY <1>3, <1>7, <2>1, <2>2, <3>1, <3>2, Zenon DEF Written
      <3>4. QED
        BY <1>6, <1>7, <3>3
    <2>4. CASE /\ q.event = "reserved" /\ q.kind = "shadow" /\ Goes(c, "reserved")
               /\ mem' = [mem EXCEPT ![q.sample] = q.event]
      <3>1. PICK r : r = [q EXCEPT !.at = "reserved"]
        OBVIOUS
      <3>2. call' = [call EXCEPT ![c] = r]
        BY <1>1, <2>4, <3>1 DEF Goes
      <3>3. Written(c, q, r)
        BY <1>3, <1>7, <2>1, <2>2, <2>4, <3>1, <3>2, Zenon DEF Written
      <3>4. QED
        BY <1>6, <1>7, <3>3
    <2>5. QED
      BY <1>7, <2>3, <2>4
  <1>8. QED
    BY <1>1, <1>4, <1>5, <1>7 DEF Append

-----------------------------------------------------------------------------
(* The invariant *)

LEMMA InvInit ==
  Init => ExperimentInv
  <1> SUFFICES ASSUME Init PROVE ExperimentInv
    OBVIOUS
  <1> USE DEF Init
  <1>1. /\ mem = Closed /\ receipts = {} /\ publishing = {} /\ breached = {} /\ broken = FALSE
        /\ file = [s \in Samples |-> "none"] /\ kind = [s \in Samples |-> "none"]
        /\ bound = [s \in Samples |-> 0] /\ sent = [s \in Samples |-> 0]
        /\ call = [c \in Callers |-> NoCall]
    OBVIOUS
  <1>2. NoCall.at = "idle" /\ \A c \in Callers : call[c] = NoCall
    BY DEF NoCall
  <1>3. TypeInv
    <2>1. file \in [Samples -> Events] /\ kind \in [Samples -> Kinds \union {"none"}]
      BY <1>1 DEF Events
    <2>2. bound \in [Samples -> 0..2] /\ sent \in [Samples -> Nat]
      BY <1>1
    <2>3. call = [c \in Callers |-> call[c]]
      BY <1>1
    <2>4. broken \in BOOLEAN
      BY <1>1
    <2>5. QED
      BY <1>1, <1>2, <2>1, <2>2, <2>3, <2>4 DEF TypeInv
  <1>4. JournalInv
    BY <1>1 DEF JournalInv, Settled
  <1>5. FiniteInv
    <2>1. Reserved(file, Kinds) = {}
      BY <1>1 DEF Reserved
    <2>2. QED
      BY <2>1, FS_EmptySet DEF FiniteInv
  <1>6. EffectsInv /\ BackedInv
    BY <1>1 DEF EffectsInv, BackedInv
  <1>7. CallsInv
    BY <1>2 DEF CallsInv, CallFits, OnItsWay, Points
  <1>8. EvidenceInv
    BY <1>2 DEF EvidenceInv, EvidenceFits, Reserving
  <1>9. QED
    BY <1>3, <1>4, <1>5, <1>6, <1>7, <1>8 DEF ExperimentInv

LEMMA ExperimentStep ==
  ExperimentInv /\ [Next]_vars => ExperimentInv'
  <1> SUFFICES ASSUME ExperimentInv, [Next]_vars PROVE ExperimentInv'
    OBVIOUS
  <1>1. CASE AdmissionNext /\ UNCHANGED <<journal, shadow, live, call>>
    BY <1>1, ElsewhereKeeps
  <1>2. CASE UNCHANGED vars
    BY <1>2, ElsewhereKeeps DEF vars
  <1>3. CASE Open
    BY <1>3, OpenKeeps
  <1>4. CASE Crash
    BY <1>4, CrashKeeps
  <1>5. CASE \/ \E r \in ReferenceRuns, k \in CandidateRuns : Dispatch(r, k)
             \/ \E r \in ReferenceRuns \union CandidateRuns : RunElsewhere(r)
    BY <1>5, DispatchKeeps
  <1>6. ASSUME NEW o \in Publications, BeginPublish(o) PROVE ExperimentInv'
    BY <1>6, BeginPublishKeeps
  <1>7. ASSUME NEW o \in publishing, Publish(o) PROVE ExperimentInv'
    BY <1>7, PublishKeeps
  <1>8. ASSUME NEW c \in Callers, NEW s \in Samples, Inspect(c, s) PROVE ExperimentInv'
    BY <1>8, InspectKeeps
  <1>9. ASSUME NEW c \in Callers, NEW s \in Samples, Complete(c, s) PROVE ExperimentInv'
    BY <1>9, CompleteKeeps
  <1>10. ASSUME NEW c \in Callers, NEW a \in Authorizations, ReserveLive(c, a)
         PROVE  ExperimentInv'
    BY <1>10, ReserveLiveKeeps
  <1>11. ASSUME NEW c \in Callers, NEW o \in receipts, RecordPublished(c, o)
         PROVE  ExperimentInv'
    BY <1>11, RecordPublishedKeeps
  <1>12. ASSUME NEW c \in Callers, ReserveShadow(c) PROVE ExperimentInv'
    BY <1>12, ReserveShadowKeeps
  <1>13. ASSUME NEW c \in Callers, Append(c) PROVE ExperimentInv'
    BY <1>13, AppendKeeps
  <1>14. ASSUME NEW c \in Callers, Run(c) PROVE ExperimentInv'
    BY <1>14, RunKeeps
  <1>15. ASSUME NEW c \in Callers, RecordOutcome(c) PROVE ExperimentInv'
    BY <1>15, RecordOutcomeKeeps
  <1>16. QED
    BY <1>1, <1>2, <1>3, <1>4, <1>5, <1>6, <1>7, <1>8, <1>9, <1>10, <1>11, <1>12, <1>13,
       <1>14, <1>15 DEF Next

-----------------------------------------------------------------------------
(* Theorems *)

\* What is proved rests on this: whatever overlaps, fails or restarts, the file,
\* the journal object, the calls and the receipts fit together.
THEOREM ExperimentInvariant ==
  Spec => []ExperimentInv
  <1>1. QED
    BY InvInit, ExperimentStep, PTL DEF Spec

\* A shadow task runs at most once for each side of a sample, after the sample is
\* reserved in the file; and what the file says is dispatched was sent its two
\* shadow tasks, or published under a receipt for this sample of one run of a
\* pair (DispatchesAreBacked).
THEOREM SamplesAreBacked ==
  Spec => []DispatchesAreBacked
  <1>1. ExperimentInv => DispatchesAreBacked
    BY DEF ExperimentInv, EffectsInv, JournalInv, BackedInv, Backed, DispatchesAreBacked
  <1>2. QED
    BY <1>1, ExperimentInvariant, PTL

LEMMA AtMostOne ==
  ASSUME NEW S, \A x, y \in S : x = y
  PROVE  Cardinality(S) <= 1
  <1>1. CASE S = {}
    BY <1>1, FS_EmptySet
  <1>2. CASE S # {}
    <2>1. PICK x : S = {x}
      BY <1>2
    <2>2. QED
      BY <2>1, FS_Singleton
  <1>3. QED
    BY <1>1, <1>2

\* One shadow sample at most is in flight, and a file that can be read has one
\* unresolved sample at most (OneInFlight).
THEOREM SamplesRunAlone ==
  Spec => []OneInFlight
  <1>1. ExperimentInv => OneInFlight
    <2> SUFFICES ASSUME ExperimentInv PROVE OneInFlight
      OBVIOUS
    <2>1. Cardinality({s \in Samples : bound[s] > 0 /\ file[s] # "completed"}) <= 1
      BY AtMostOne DEF ExperimentInv, JournalInv
    <2>2. ASSUME ~broken PROVE Cardinality(Unresolved(file)) <= 1
      <3>1. \A s, t \in Unresolved(file) : s = t
        BY <2>2 DEF ExperimentInv, JournalInv, Unresolved, Settled
      <3>2. QED
        BY <3>1, AtMostOne
    <2>3. QED
      BY <2>1, <2>2 DEF OneInFlight
  <1>2. QED
    BY <1>1, ExperimentInvariant, PTL

\* Only an append changes the file, and it changes nobody else's call.
LEMMA ReservationIsAppended ==
  ASSUME ExperimentInv, [Next]_vars,
         NEW s \in Samples, file[s] = "none", file'[s] = "reserved",
         NEW c \in Callers, call'[c] # call[c]
  PROVE  /\ call[c].at = "appending" /\ call[c].sample = s
         /\ call[c].event = "reserved" /\ kind'[s] = call[c].kind
  <1>1. PICK d \in Callers : Append(d)
    BY DEF vars, journal, Next, Open, Crash, Dispatch, RunElsewhere, BeginPublish, Publish,
       Inspect, Complete, ReserveLive, RecordPublished, ReserveShadow, Run, RecordOutcome
  <1>2. file' # file
    OBVIOUS
  <1>3. /\ call[d].at = "appending"
        /\ file' = [file EXCEPT ![call[d].sample] = call[d].event]
        /\ kind' = [kind EXCEPT ![call[d].sample] = call[d].kind]
        /\ Goes(d, "reserved") \/ Stops(d)
    BY <1>1, <1>2 DEF Append, journal
  <1>4. d = c
    <2>1. call = [x \in Callers |-> call[x]]
      BY DEF ExperimentInv, TypeInv
    <2>2. d # c => call'[c] = call[c]
      BY <1>3, <2>1 DEF Goes, Stops
    <2>3. QED
      BY <2>2
  <1>5. file \in [Samples -> Events] /\ kind \in [Samples -> Kinds \union {"none"}]
    BY DEF ExperimentInv, TypeInv
  <1>6. QED
    BY <1>3, <1>4, <1>5

\* A sample is reserved only while the evidence allows it, if no event came
\* between the reading and the reservation (EvidenceIsHeeded).
THEOREM EvidenceDecides ==
  Spec => EvidenceIsHeeded
  <1> DEFINE Heeded ==
        \A s \in Samples :
          file[s] = "none" /\ file'[s] = "reserved"
          /\ (\E c \in Callers : call[c].at = "appending" /\ call[c].sample = s
                /\ call'[c] # call[c] /\ call[c].seen = Seen(file)) =>
            /\ kind'[s] = "shadow" => ~Breach(Reading(file)) /\ Reserved(file, Live) = {}
            /\ kind'[s] \in Live =>
                 Unresolved(file) = {} /\ ~OverBudget(After(Reading(file), kind'[s]))
  <1>1. ExperimentInv /\ [Next]_vars => Heeded
    <2> SUFFICES ASSUME ExperimentInv, [Next]_vars,
                        NEW s \in Samples, file[s] = "none", file'[s] = "reserved",
                        NEW c \in Callers, call'[c] # call[c], call[c].seen = Seen(file)
                 PROVE  /\ kind'[s] = "shadow" =>
                             ~Breach(Reading(file)) /\ Reserved(file, Live) = {}
                        /\ kind'[s] \in Live =>
                             /\ Unresolved(file) = {}
                             /\ ~OverBudget(After(Reading(file), kind'[s]))
      OBVIOUS
    <2>1. Reserving(call[c]) /\ kind'[s] = call[c].kind
      BY ReservationIsAppended DEF Reserving
    <2>2. EvidenceFits(call[c])
      BY DEF ExperimentInv, EvidenceInv
    <2>3. \A e \in call[c].seen : e[2] \in {0, 3}
      BY <2>1, <2>2 DEF EvidenceFits
    <2>4. \A t \in Samples : file[t] \in Settled
      BY <2>3, SettledReading DEF ExperimentInv
    <2>5. Unresolved(file) = {}
      BY <2>4 DEF Unresolved, Settled
    <2>6. QED
      BY <2>1, <2>2, <2>5 DEF EvidenceFits
  <1>2. ExperimentInv /\ [Next]_vars => [Heeded]_vars
    BY <1>1
  <1>3. Spec => [][Heeded]_vars
    BY <1>2, ExperimentInvariant, PTL DEF Spec
  <1>4. QED
    BY <1>3 DEF EvidenceIsHeeded
=============================================================================
