---------------------------- MODULE MCUCTSearch ----------------------------
(* Small instances of UCTSearch for TLC: a root with two moves, one of     *)
(* which is the second pass; the other has a superko reply, and a pass     *)
(* which may be followed by another.                                       *)
EXTENDS UCTSearch, TLC

MCNodes == {"r", "over", "m", "ko", "p", "pp"}

MCParent == [n \in MCNodes \ {"r"} |->
               CASE n \in {"over", "m"} -> "r"
                 [] n \in {"ko", "p"} -> "m"
                 [] n = "pp" -> "p"]

\* What the network says of a position: one level for all moves; or, under
\* some symmetries, the superko reply near 0, under others not, so that a
\* node trimmed by the one is completed by the other, without that reply.
Stable == {[n \in MCNodes |-> 2]}
Trimmed == [n \in MCNodes |-> IF n = "ko" THEN 0 ELSE 2]
Varying == Stable \cup {Trimmed}
Symmetry == Permutations(Threads)
=============================================================================
