-------------------------- MODULE ExperimentGuardrails -------------------------
(***************************************************************************)
(* The budget of a controlled experiment, the guardrails that judge its    *)
(* progress, and the authorizations prepared from their decisions.         *)
(*                                                                         *)
(* A guardrail decision and a live sample's authorization are documents:   *)
(* preparing one changes nothing, and nothing binds the progress it        *)
(* carries to a journal.  The decision is the caller's, checked by digest. *)
(* So a draft is whatever a caller may ask an authorization for, with a    *)
(* reading of any age; it is an authorization if the code prepares it.     *)
(***************************************************************************)
EXTENDS ExperimentAdmission

CONSTANTS
  Samples,
  MaxTotalSamples, MinimumShadowSamples, MaxLiveSamples, MaxCandidateLiveSamples,
  MaxCandidateTraffic,   \* percent of the live samples
  Drafts                 \* of live sample authorizations

\* normalizeBudget, of an experiment that may go live
ValidBudget ==
  /\ {MaxTotalSamples, MinimumShadowSamples, MaxLiveSamples, MaxCandidateLiveSamples}
       \subseteq Nat \ {0}
  /\ MaxCandidateTraffic \in 1..100
  /\ MaxCandidateLiveSamples <= MaxLiveSamples
  /\ MinimumShadowSamples + MaxLiveSamples <= MaxTotalSamples

\* Completed samples, and if the deltas of the summaries meet a stop condition.
Readings == [shadow : Nat, live : Nat, candidates : Nat, stops : BOOLEAN]
Live == {"reference", "candidate"}
Kinds == {"shadow"} \union Live

\* Two drafts may differ in other fields, or in nothing but their approvals.
ValidDrafts ==
  \A d \in Drafts : d.sample \in Samples /\ d.role \in Live /\ d.reading \in Readings

ASSUME BudgetAssumption == ValidBudget
ASSUME DraftsAssumption == ValidDrafts

-----------------------------------------------------------------------------
(* evaluateControlledExperimentGuardrails *)

WithinTraffic(candidates, live) == candidates * 100 <= MaxCandidateTraffic * live

\* collectGuardrailReasons, of the counters ...
OverBudget(r) ==
  \/ r.shadow + r.live > MaxTotalSamples
  \/ r.live > MaxLiveSamples
  \/ r.candidates > MaxCandidateLiveSamples
  \/ ~WithinTraffic(r.candidates, r.live)
  \/ r.live > 0 /\ r.shadow < MinimumShadowSamples

\* ... and of the summaries.
Breach(r) == r.stops \/ OverBudget(r)

\* chooseClassification, of an experiment that may go live.
Verdict(r) ==
  CASE Breach(r) -> IF r.live > 0 THEN "ROLLBACK_REQUIRED" ELSE "STOP_REQUIRED"
    [] ~Breach(r) /\ r.shadow + r.live >= MaxTotalSamples -> "COMPLETE"
    [] ~Breach(r) /\ r.shadow + r.live < MaxTotalSamples /\ r.live = 0 ->
         IF r.shadow < MinimumShadowSamples THEN "CONTINUE_SHADOW"
                                            ELSE "ELIGIBLE_FOR_BOUNDED_LIVE"
    [] OTHER -> IF r.live >= MaxLiveSamples \/ r.candidates >= MaxCandidateLiveSamples
                THEN "COMPLETE" ELSE "CONTINUE_BOUNDED_LIVE"

-----------------------------------------------------------------------------
(* prepareBoundedLiveSampleAuthorization *)

\* assertExperimentAuthority, with both workflows as they should be.
MayGoLive(r) ==
  /\ Verdict(r) = IF r.live = 0 THEN "ELIGIBLE_FOR_BOUNDED_LIVE" ELSE "CONTINUE_BOUNDED_LIVE"
  /\ r.shadow >= MinimumShadowSamples

\* nextCounters: the counters once one more sample has run.
After(r, role) ==
  [r EXCEPT !.live = @ + 1, !.candidates = @ + (IF role = "candidate" THEN 1 ELSE 0)]

Authorizable == {d \in Drafts : MayGoLive(d.reading) /\ ~OverBudget(After(d.reading, d.role))}

\* The live sample authorizations a caller may hold.
Authorizations == {d \in Authorizable : ExperimentAllowed}
=============================================================================
