---------------------------- MODULE MCToolBroker -----------------------------
(***************************************************************************)
(* A catalogue of two sources for TLC: overlapping capabilities, tools     *)
(* with and without side effects, tools that may and may not be repeated,  *)
(* and one id both sources offer.                                          *)
(***************************************************************************)
EXTENDS ToolBroker

Tool(id, source, capabilities, write, sideEffects, permissions, idempotency) ==
  [id |-> id, source |-> source, capabilities |-> capabilities, write |-> write,
   sideEffects |-> sideEffects, riskCeiling |-> IF id = 1 THEN 1 ELSE 4,
   permissions |-> permissions, idempotency |-> idempotency]

MCCatalogue ==
  { Tool(1, "near", {"b", "c"}, FALSE, "none", {}, "safe"),
    Tool(2, "near", {"a", "b"}, FALSE, "none", {"w"}, "safe"),
    Tool(3, "far", {"c", "d"}, FALSE, "reversible", {}, "conditional"),
    Tool(4, "far", {"d"}, TRUE, "destructive", {"w"}, "safe"),
    Tool(5, "near", {"a"}, FALSE, "none", {}, "unsafe"),
    Tool(5, "far", {"a", "d"}, TRUE, "none", {}, "safe") }

\* Capabilities one tool covers, that need several, or that compete; a request
\* by id for a tool with side effects, or for the id offered twice.
MCRequests ==
  [risk : {0, 2, 3}, required : {{}, {"d"}, {"a", "d"}, {"a", "b", "c", "d"}},
   requested : {<<>>, <<3>>, <<5, 2>>}, permissions : {{}, {Wildcard}},
   allowMutations : BOOLEAN, approved : BOOLEAN, maxTools : 1..3]
=============================================================================
