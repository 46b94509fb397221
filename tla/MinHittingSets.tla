--------------------------- MODULE MinHittingSets ---------------------------
(***************************************************************************)
(* What HittingSet::calcMinCardHittingSet promises for a system zs of      *)
(* sets: a smallest set that meets each of them.  If one of them is empty, *)
(* nothing meets it, and the code returns the union of all.                *)
(***************************************************************************)
EXTENDS Integers, FiniteSets

Hits(h, zs) == \A z \in zs : h \cap z # {}

MinHittingSets(zs) ==
  IF {} \in zs THEN {UNION zs}
  ELSE {h \in SUBSET UNION zs :
          /\ Hits(h, zs)
          /\ \A g \in SUBSET UNION zs : Hits(g, zs) => Cardinality(h) <= Cardinality(g)}
=============================================================================
