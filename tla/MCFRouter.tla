------------------------------ MODULE MCFRouter ------------------------------
(* "/{val}" of one controller matches what "/about" and "/links" of the other  *)
(* match; these two have the same priority.                                    *)
EXTENDS FRouter, TLC

CONSTANTS val, about, links,     \* patterns
          A, B,                  \* controllers
          aboutPath, linksPath   \* paths

MCOwner == [pat \in Patterns |-> IF pat = val THEN B ELSE A]

MCShape == [pat \in Patterns |->
  [len |-> 6, undecided |-> 0, wildCards |-> 0,
   variables |-> IF pat = val THEN 1 ELSE 0]]

MCMatches == [pat \in Patterns |->
  CASE pat = val   -> Paths
    [] pat = about -> {aboutPath}
    [] pat = links -> {linksPath} \cap Paths]

Symmetry == Permutations(Routers)
=============================================================================
