--------------------------- MODULE RevisionGraph ---------------------------
(***************************************************************************)
(* The graph of Drive revisions, as inspectGraph reads it.  A graph maps   *)
(* every listed revision to the set of its parents; a parent need not be   *)
(* listed.  Revisions are numbered in the order of their identifiers.      *)
(***************************************************************************)
EXTENDS Integers, FiniteSets

NoRevision == 0

(* A revision and everything its ancestry names, listed or not. *)
Ancestors(g, r) ==
  LET up[n \in 0 .. Cardinality(DOMAIN g)] ==
        IF n = 0 THEN {r}
        ELSE LET known == up[n - 1]
             IN  known \cup UNION {g[x] : x \in known \cap DOMAIN g}
  IN  up[Cardinality(DOMAIN g)]

Without(g, bad) == [r \in DOMAIN g \ bad |-> g[r]]

Heads(g) == {r \in DOMAIN g : \A x \in DOMAIN g : r \notin g[x]}

(* Mutant of Complete: a missing parent is taken for the end of the history. *)
CompleteAnyway(g, hs) == TRUE

Complete(g, hs) == \A h \in hs : Ancestors(g, h) \subseteq DOMAIN g

Shared(g, hs) ==
  LET histories == {Ancestors(g, h) : h \in hs}
  IN  {r \in DOMAIN g : \A past \in histories : r \in past}

Closest(g, rs) == {r \in rs : \A x \in rs : r \notin g[x]}

(* The merge base of a head and the heads before it: none for the first
   head, where an ancestry is incomplete, and where no shared ancestor is
   the closest. *)
Common(g, h) ==
  LET hs == {x \in Heads(g) : x <= h}
      closest == Closest(g, Shared(g, hs))
  IN  IF /\ Cardinality(hs) > 1
         /\ Complete(g, hs)
         /\ Cardinality(closest) = 1
      THEN CHOOSE c \in closest : TRUE
      ELSE NoRevision

=============================================================================
