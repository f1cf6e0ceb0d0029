---------------------------- MODULE ToolSelection ----------------------------
(***************************************************************************)
(* ToolBroker.select (tools/tool-broker.ts) as operators: which tools a    *)
(* request r is granted, given the tools found when it is made.  A tool is *)
(* a descriptor; ids are numbers, in the order localeCompare gives them.   *)
(* Permissions and capabilities are strings, trimmed and free of           *)
(* duplicates as unique() leaves them.  Reasons and details are left out.  *)
(***************************************************************************)
EXTENDS Naturals, Sequences, FiniteSets, SequencesExt

CONSTANTS
  Catalogue,      \* descriptors the registered sources offer
  Requests        \* the selection requests considered

RiskClasses == 0..4     \* RISK_RANK
Wildcard == "*"     \* the permission that stands for all

IsTool(tool) ==
  tool \in [id : Nat, source : STRING, capabilities : SUBSET STRING, write : BOOLEAN,
            sideEffects : {"none", "reversible", "destructive"},
            riskCeiling : RiskClasses, permissions : SUBSET STRING,
            idempotency : {"safe", "conditional", "unsafe"}]

IsRequest(r) ==
  /\ r.risk \in RiskClasses
  /\ r.required \subseteq STRING /\ IsFiniteSet(r.required)
  /\ r.permissions \subseteq STRING
  /\ r.requested \in Seq(Nat) /\ IsInjective(r.requested)
  /\ r.allowMutations \in BOOLEAN /\ r.approved \in BOOLEAN
  /\ r.maxTools \in Nat \ {0}

ASSUME CatalogueIsTyped == \A tool \in Catalogue : IsTool(tool)
ASSUME RequestsAreTyped == \A r \in Requests : IsRequest(r)

Sources == {tool.source : tool \in Catalogue}

-----------------------------------------------------------------------------
(* Eligibility *)

\* discoverSource: an unavailable source, or one whose discovery throws, has
\* no tools in its snapshot.
Discovered(available) == {tool \in Catalogue : tool.source \in available}

Relevant(r, tool) ==
  \/ \E i \in DOMAIN r.requested : r.requested[i] = tool.id
  \/ r.required \cap tool.capabilities # {}

Duplicate(found, tool) == \E other \in found : other # tool /\ other.id = tool.id

Mutates(tool) == tool.write \/ tool.sideEffects # "none"

MutationAllowed(r, tool) ==
  Mutates(tool) =>
    /\ r.risk # 0 /\ r.allowMutations
    /\ r.risk >= 3 => r.approved

\* The filters of the loop, each of which rejects a relevant tool.
Admitted(r, found, tool) ==
  /\ ~Duplicate(found, tool)
  /\ r.risk <= tool.riskCeiling
  /\ MutationAllowed(r, tool)
  /\ tool.sideEffects = "destructive" => r.approved
  /\ Wildcard \in r.permissions \/ tool.permissions \subseteq r.permissions

Eligible(r, found) == {tool \in found : Relevant(r, tool) /\ Admitted(r, found, tool)}

-----------------------------------------------------------------------------
(* Choice among the eligible tools *)

\* The tools asked for by id, in the order asked, as many as fit.
Requested(r, eligible) ==
  LET ids == SelectSeq(r.requested, LAMBDA id : \E tool \in eligible : tool.id = id)
  IN  {tool \in eligible :
         \E i \in 1..r.maxTools : i \in DOMAIN ids /\ ids[i] = tool.id}

Covered(tools) == UNION {tool.capabilities : tool \in tools}

Gain(r, chosen, tool) ==
  Cardinality((r.required \ Covered(chosen)) \cap tool.capabilities)

\* The sort of the candidates: more new capabilities first, then tools without
\* side effects, then the smaller id.
Precedes(r, chosen, a, b) ==
  LET gain(t) == Gain(r, chosen, t)
      effect(t) == IF t.sideEffects = "none" THEN 0 ELSE 1
  IN  \/ gain(a) > gain(b)
      \/ gain(a) = gain(b) /\ effect(a) < effect(b)
      \/ gain(a) = gain(b) /\ effect(a) = effect(b) /\ a.id <= b.id

\* Fault: tools with side effects are only taken when asked for by id.
WithBestPure(r, eligible, chosen) ==
  LET useful == {tool \in eligible \ chosen :
                   Gain(r, chosen, tool) > 0 /\ tool.sideEffects = "none"}
  IN  IF useful = {} THEN chosen
      ELSE chosen \cup {CHOOSE best \in useful :
                          \A tool \in useful : Precedes(r, chosen, best, tool)}

\* One iteration of the loop; it stops when nothing new can be covered.
WithBest(r, eligible, chosen) ==
  LET useful == {tool \in eligible \ chosen : Gain(r, chosen, tool) > 0}
  IN  IF useful = {} THEN chosen
      ELSE chosen \cup {CHOOSE best \in useful :
                          \A tool \in useful : Precedes(r, chosen, best, tool)}

Selection(r, found) ==
  LET eligible == Eligible(r, found)
      first == Requested(r, eligible)
      fill[n \in 0..r.maxTools] ==
        IF n = 0 THEN first ELSE WithBest(r, eligible, fill[n - 1])
  IN  fill[r.maxTools - Cardinality(first)]
=============================================================================
