--------------------------- MODULE RoutingPromotion ----------------------------
(***************************************************************************)
(* The side effects of an experiment, each made by an authority the        *)
(* guardrails gave, and the promotion of the candidate that rests on them. *)
(*                                                                         *)
(* A publication is made by a live sample's authorization, a restore of    *)
(* the reference by a rollback's.  What becomes of them is in SideEffects. *)
(*                                                                         *)
(* A proposal is derived from what the caller brings: the final progress   *)
(* and, for every live sample of it, the sample's authorization with its   *)
(* recovery report and receipt.  The experiment's own journal is not read; *)
(* the side-effect journal is, before the proof and again after it.  So a  *)
(* promotion says nothing of samples that were published twice, or without *)
(* a reservation: one operation of each sample is enough.                  *)
(*                                                                         *)
(* The Eval and execution summaries of the final progress must be those of *)
(* the admission decision, so that its samples are that many.  A proposal  *)
(* changes nothing, and neither does the authorization a separately        *)
(* approved workflow gives it.  The snapshot of the route is a document of *)
(* the caller's too and must be the same one throughout; the route itself  *)
(* is compared when it is changed (RoutingMutation).                       *)
(***************************************************************************)
EXTENDS ExperimentGuardrails, SideEffects, FiniteSets

CONSTANTS
  Authority,      \* what each operation is made by
  AdmissionStops  \* the admission's summaries meet a stop condition of the experiment

\* A rollback's guardrail decision, of any age.
Rollbacks == [role : {"rollback"}, reading : Readings]

ValidAuthority == Authority \in [Operations -> Drafts \union Rollbacks]

ASSUME AuthorityAssumption == ValidAuthority
ASSUME StopsAssumption == AdmissionStops \in BOOLEAN

VARIABLES
  promotion  \* the proposal and its authorization

allVars == <<vars, admissionVars, promotion>>

NoPromotion == [at |-> "none"]

PromotionInit ==
  /\ Init
  /\ AdmissionInit
  /\ promotion = NoPromotion

-----------------------------------------------------------------------------
(* Publications and restores *)

Role(o) == Authority[o].role
Reading(o) == Authority[o].reading

\* publish() verifies a live sample's authorization; restore() verifies a
\* rollback's, which prepareBoundedLiveRollbackAuthorization gives.
Authorized(o) ==
  /\ ExperimentAllowed
  /\ IF Role(o) \in Live THEN Authority[o] \in Authorizable
                         ELSE Verdict(Reading(o)) = "ROLLBACK_REQUIRED"

\* Any step of SideEffects; a call begins with its authority.
EffectsNext ==
  /\ Next
  /\ \A c \in Callers :
       caller[c].at = "idle" /\ caller'[c].at # "idle" => Authorized(caller'[c].operation)
  /\ UNCHANGED <<admissionVars, promotion>>

-----------------------------------------------------------------------------
(* What the caller brings: RoutingPromotionContext *)

Candidates(evidence) == {o \in evidence : Role(o) = "candidate"}

FinalProgress(context) ==
  [shadow |-> admission.samples - Cardinality(context.evidence),
   live |-> Cardinality(context.evidence),
   candidates |-> Cardinality(Candidates(context.evidence)),
   stops |-> AdmissionStops]

\* No sample twice, whatever its operation.
SamplesDiffer(evidence) ==
  \A o, p \in evidence : Authority[o].sample = Authority[p].sample => o = p

\* Fault: the samples need not be those the counters run through.
CoversAnySamples(context) ==
  /\ SamplesDiffer(context.evidence)
  /\ \A o \in context.evidence : Reading(o).shadow <= FinalProgress(context).shadow

\* "Counters form the exact final progress path": one authorization for each
\* live sample, in the order of their counters, none of them twice.
CoversLiveSamples(context) ==
  LET evidence == context.evidence
      before(o) == {p \in evidence : Reading(p).live < Reading(o).live}
  IN
  /\ SamplesDiffer(evidence)
  /\ \A o, p \in evidence : Reading(o).live = Reading(p).live => o = p
  /\ \A o \in evidence :
       /\ Reading(o).live = Cardinality(before(o))
       /\ Reading(o).candidates = Cardinality(Candidates(before(o)))
       /\ Reading(o).shadow <= FinalProgress(context).shadow
       /\ \A p \in before(o) : Reading(p).shadow <= Reading(o).shadow

\* The journal is read through an object whose events are the file's.  Every
\* authorization has an operation in it with a report of its latest event, and
\* a receipt if it is committed; restores are only shown if there were any.
Proves(context) ==
  /\ \E j \in opened : log[j] = file
  /\ \A o \in context.evidence :
       /\ EventsOf(file, o) # {}
       /\ Latest(file, o) = "committed" => o \in receipts
  /\ context.restores \subseteq receipts
  /\ Cardinality(context.evidence) <= admission.samples
  /\ CoversLiveSamples(context)

Publishing == {o \in Operations : Role(o) \in Live}
Contexts == [evidence : SUBSET Publishing, restores : SUBSET (Operations \ Publishing)]

\* classifyPromotion
Classify(context) ==
  CASE Unresolved(file) # {} -> "MANUAL_RECONCILIATION_REQUIRED"
    [] Unresolved(file) = {} /\ ( \/ Verdict(FinalProgress(context)) # "COMPLETE"
                                  \/ context.restores # {}
                                  \/ Candidates(context.evidence) = {}) ->
         "PROMOTION_NOT_ELIGIBLE"
    [] OTHER -> "PROMOTION_ELIGIBLE"

-----------------------------------------------------------------------------
(* Proposal and authorization.  A proof pass waits for many digests, but it *)
(* reads the side-effect journal first and compares it last, and the        *)
(* journal only grows: a pass that succeeds is one step.                    *)

Propose ==
  /\ promotion.at = "none"
  /\ ExperimentAllowed
  /\ \E context \in Contexts :
       /\ Proves(context)
       /\ promotion' = [at |-> "proposed", context |-> context, class |-> Classify(context)]
  /\ UNCHANGED <<vars, admissionVars>>

\* The proof is made again, from the journal as it is now, and must come to
\* what the proposal says.
ProposalVerifies ==
  /\ ExperimentAllowed
  /\ Proves(promotion.context)
  /\ Classify(promotion.context) = promotion.class

\* The promotion is allowed or denied with the approvals of a workflow of its
\* own in the publish phase; it is allowed only if the proposal is eligible.
Decide ==
  /\ promotion.at = "proposed"
  /\ ProposalVerifies
  /\ \/ promotion' = [at |-> "deny"]
     \/ /\ promotion.class = "PROMOTION_ELIGIBLE"
        /\ promotion' = [at |-> "allow", context |-> promotion.context]
  /\ UNCHANGED <<vars, admissionVars>>

-----------------------------------------------------------------------------

PromotionNext ==
  \/ AdmissionNext /\ UNCHANGED <<vars, promotion>>
  \/ EffectsNext
  \/ Propose
  \/ Decide

PromotionSpec == PromotionInit /\ [][PromotionNext]_allVars

-----------------------------------------------------------------------------
(* Property *)

\* "Missing, duplicated, or contradictory live-sample coverage is rejected":
\* whatever documents a caller picks, and whatever crashes, sink restarts and
\* lost answers there were, every output an allowed promotion rests on is
\* committed in the journal and saved at the sink; they are of different
\* samples, one of them the candidate's, and none is left out: their counters
\* are all the numbers from the first live sample to the last one shown.
PromotionIsEarned ==
  promotion.at = "allow" =>
    LET evidence == promotion.context.evidence IN
    /\ \A o \in evidence : InFile(o, "committed") /\ sink[o] = "saved"
    /\ SamplesDiffer(evidence)
    /\ Candidates(evidence) # {}
    /\ {Reading(o).live : o \in evidence} = 0..(Cardinality(evidence) - 1)
=============================================================================
