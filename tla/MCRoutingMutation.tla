--------------------------- MODULE MCRoutingMutation --------------------------
\* Two authorizations, the second for the state the first leads to.
EXTENDS RoutingMutation, TLC
CONSTANTS a1, a2, c1, c2, j1, j2

MCBefore(a) == IF a = a1 THEN "initial" ELSE a1
\* A process of its own for each caller.
OwnJournal(c) == IF c = c1 THEN j1 ELSE j2

\* The two processes, each a caller with its journal, are interchangeable.
Processes ==
  {p \in Permutations(Callers \union Journals) :
     \A c \in Callers : p[c] \in Callers /\ p[JournalOf(c)] = JournalOf(p[c])}
=============================================================================
