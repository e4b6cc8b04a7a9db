----------------------------- MODULE MCNetwork -----------------------------
EXTENDS Network

\* A board of two by two whose eight turned images differ, one of those
\* images, and an empty board past the opening.
Turned == [v \in Points |-> IF v = <<0, 0>> THEN "b" ELSE IF v = <<1, 0>> THEN "w" ELSE "e"]
PosA == [stones |-> Turned, ko |-> <<0, 1>>, tomove |-> "b"]
PosB == SymmetryHash(PosA, 5)
PosC == [stones |-> [v \in Points |-> "e"], ko |-> NoVertex, tomove |-> "w"]
Positions3 == {PosA, PosB, PosC}
AllResults == UNION {Evaluations(p) : p \in Positions3}
Opening2 == {PosA, PosB}
============================================================================
