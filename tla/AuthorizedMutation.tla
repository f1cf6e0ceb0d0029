-------------------------- MODULE AuthorizedMutation --------------------------
(***************************************************************************)
(* What an authorized route change promises, however it is carried out:    *)
(* it is reserved in a journal before it takes place, it takes place at    *)
(* most once, and the journal never says it took place when it did not.    *)
(* The routing mutation, the production rehearsal and the production       *)
(* apply each implement this promise, over crashes and retries.            *)
(***************************************************************************)
CONSTANT Operations

VARIABLES
  stage,   \* how far each operation got
  claims   \* what the journal says of each operation

Stages == {"unused", "reserved", "written"}
Verdicts == {"applied", "not_applied", "manual"}

TypeOK ==
  /\ stage \in [Operations -> Stages]
  /\ claims \in [Operations -> SUBSET Verdicts]

Init ==
  /\ stage = [o \in Operations |-> "unused"]
  /\ claims = [o \in Operations |-> {}]

\* The reservation is durable.
Reserve(o) ==
  /\ stage[o] = "unused"
  /\ stage' = [stage EXCEPT ![o] = "reserved"]
  /\ UNCHANGED claims

\* The route is changed.
Write(o) ==
  /\ stage[o] = "reserved"
  /\ stage' = [stage EXCEPT ![o] = "written"]
  /\ UNCHANGED claims

\* A verdict on an operation that was reserved.  One that was found not to be
\* applied may have been under way all the same, in another process.
Claim(o, verdict) ==
  /\ stage[o] # "unused"
  /\ verdict = "applied" => stage[o] = "written"
  /\ claims' = [claims EXCEPT ![o] = @ \union {verdict}]
  /\ UNCHANGED stage

Next ==
  \E o \in Operations :
    Reserve(o) \/ Write(o) \/ \E verdict \in Verdicts : Claim(o, verdict)

Spec == Init /\ [][Next]_<<stage, claims>>

\* An operation takes place at most once, and never before it is reserved.
WrittenOnce ==
  [][\A o \in Operations :
       stage'[o] # stage[o] =>
         \/ stage[o] = "unused" /\ stage'[o] = "reserved"
         \/ stage[o] = "reserved" /\ stage'[o] = "written"]_<<stage, claims>>
=============================================================================
