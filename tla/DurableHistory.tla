--------------------------- MODULE DurableHistory ---------------------------
(***************************************************************************)
(* What the local append-only stores promise their callers, whatever the   *)
(* file underneath goes through: one history of entries that grows only by *)
(* admissible entries, of which a committed prefix is never lost, changed  *)
(* or reordered.  JsonlStore is shown to implement this specification as   *)
(* long as one process at a time uses the file.                            *)
(***************************************************************************)
EXTENDS Naturals, Sequences

CONSTANTS
  Entries,            \* what callers may append
  Admissible(_, _)    \* Admissible(history, e): e may follow history

VARIABLES
  history,      \* the entries a reader would find
  committed     \* how many of them can no longer be lost

vars == << history, committed >>

Init == history = << >> /\ committed = 0

Extend ==
  \E e \in Entries :
    /\ Admissible(history, e)
    /\ history' = Append(history, e)
    /\ UNCHANGED committed

Commit ==
  /\ committed' \in committed..Len(history)
  /\ UNCHANGED history

LoseTail ==
  \E n \in committed..Len(history) :
    /\ history' = SubSeq(history, 1, n)
    /\ committed' \in committed..n

Next == Extend \/ Commit \/ LoseTail

Spec == Init /\ [][Next]_vars
=============================================================================
