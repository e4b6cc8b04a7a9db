------------------------------ MODULE GoRules ------------------------------
(***************************************************************************)
(* The rule of capture, stated on the stones alone: a move puts a stone on *)
(* an empty point, takes off the opponent's strings without liberties and  *)
(* then the player's own string if it has none.                            *)
(***************************************************************************)
EXTENDS Integers, FiniteSets

CONSTANTS Points, BLACK, WHITE, EMPTY,
          Adjacent              \* point -> the points next to it

VARIABLES stones, prisoners, turn

Rival(c) == IF c = BLACK THEN WHITE ELSE BLACK

\* The string of v: every set of its colour that contains v and what touches
\* it contains the string.
Group(s, v) ==
    LET same == {w \in Points : s[w] = s[v]}
        closed == {S \in SUBSET same :
                      v \in S /\ \A u \in S : Adjacent[u] \cap same \subseteq S}
    IN  {w \in same : \A S \in closed : w \in S}

Liberties(s, S) == {w \in UNION {Adjacent[u] : u \in S} : s[w] = EMPTY}

\* The stones of colour c in strings without liberties: sets of stones none
\* of which is next to an empty point, and with all of that colour next to them.
Dead(s, c) ==
    LET shut == {w \in Points : s[w] = c /\ \A u \in Adjacent[w] : s[u] # EMPTY}
    IN  UNION {S \in SUBSET shut :
                  \A v \in S : \A w \in Adjacent[v] : s[w] = c => w \in S}

TakeOff(s, S) == [w \in Points |-> IF w \in S THEN EMPTY ELSE s[w]]

Play(c, v) ==
    LET placed == [stones EXCEPT ![v] = c]
        captured == Dead(placed, Rival(c))
        left == TakeOff(placed, captured)
    IN  /\ stones[v] = EMPTY
        /\ turn' = Rival(c)
        /\ \A w \in Points \ {v} : stones'[w] \in {stones[w], EMPTY}
        /\ stones' = TakeOff(left, Dead(left, c))
        /\ prisoners' = [prisoners EXCEPT ![c] = @ + Cardinality(captured)]

\* Also: the colour to move is set.
Pass(c) ==
    /\ turn' = c
    /\ UNCHANGED <<stones, prisoners>>

NewGame ==
    /\ turn' = BLACK
    /\ stones' = [w \in Points |-> EMPTY]
    /\ prisoners' = [c \in {BLACK, WHITE} |-> 0]

Init ==
    /\ turn = BLACK
    /\ stones = [w \in Points |-> EMPTY]
    /\ prisoners = [c \in {BLACK, WHITE} |-> 0]

Next ==
    \/ \E c \in {BLACK, WHITE}, v \in Points : Play(c, v)
    \/ \E c \in {BLACK, WHITE} : Pass(c)
    \/ NewGame

Spec == Init /\ [][Next]_<<stones, prisoners, turn>>
============================================================================
