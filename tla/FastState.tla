----------------------------- MODULE FastState -----------------------------
(***************************************************************************)
(* A position and the moves made on it (FastState.cpp): any colour may     *)
(* play on any empty point, as GTP "play" allows, suicide and retaken kos  *)
(* included.                                                               *)
(***************************************************************************)
EXTENDS FullBoard

CONSTANTS
    MaxStones,              \* bound: stones on the board
    MaxPrisoners,           \* bound: prisoners of one colour
    MaxPasses,              \* bound: passes in a row
    PassStones              \* bound: stones on the board when one passes

ASSUME BoundsAssumption == MaxStones \in Nat /\ MaxPrisoners \in Nat /\ MaxPasses \in Nat /\ PassStones \in Nat

VARIABLE state              \* [board, m_komove, m_passes]

Stones(b) == {v \in Points : b.m_state[v] # EMPTY}

Init == state = init_game

\* set_to_move(), then play_move(): what play_textmove() and genmove do.
Move(c, v) ==
    state' = play_move([state EXCEPT !.board = set_to_move(@, c)], c, v)

WithinBounds(s) ==
    /\ Cardinality(Stones(s.board)) <= MaxStones
    /\ \A c \in Colors : s.board.m_prisoners[c] <= MaxPrisoners

Play(c, v) ==
    /\ state.board.m_state[v] = EMPTY
    /\ Move(c, v)
    /\ WithinBounds(state')

Pass(c) ==
    /\ state.m_passes < MaxPasses
    /\ Cardinality(Stones(state.board)) <= PassStones
    /\ Move(c, PASS)

reset_game == state' = init_game

Next ==
    \/ \E c \in Colors, v \in Points : Play(c, v)
    \/ \E c \in Colors : Pass(c)
    \/ reset_game

Spec == Init /\ [][Next]_state

(***************************************************************************)
(* Properties                                                              *)
(***************************************************************************)
Rules == INSTANCE GoRules WITH
    stones <- state.board.m_state,
    prisoners <- state.board.m_prisoners,
    turn <- state.board.m_tomove

(* The incremental board plays Go: whatever order strings were joined and  *)
(* captured in, the stones and prisoners after a move are those of the     *)
(* rule of capture (update_board(), merge_strings(), remove_string()).     *)
ImplementsRules == Rules!Spec

(* m_parent, m_next, m_stones and m_libs describe the strings that a flood *)
(* fill finds: one root, one ring through all the stones, their number and *)
(* the number of points that are their liberties; m_neighbours counts what *)
(* surrounds each point.                                                   *)
StringsExact ==
    LET b == state.board
    IN  /\ \A v \in Stones(b) :
              LET group == Rules!Group(b.m_state, v)
                  root == b.m_parent[v]
              IN  /\ root \in group
                  /\ {w \in Points : b.m_parent[w] = root} = group
                  /\ StringOf(b, v) = group
                  /\ b.m_stones[root] = Cardinality(group)
                  /\ b.m_libs[root] = Cardinality(Rules!Liberties(b.m_state, group))
        /\ \A v \in Points, c \in Colors \cup {EMPTY} :
              b.m_neighbours[v][c] =
                  Cardinality({a \in Around(v) : b.m_state[a] = c})
                  + (IF c = EMPTY THEN 0 ELSE 4 - Cardinality(Around(v)))

(* is_suicide(), which counts liberties only, is true exactly of the moves *)
(* whose stone would be taken off by the rules.                            *)
SuicideExact ==
    \A c \in Colors, v \in Points :
        state.board.m_state[v] = EMPTY =>
            (is_suicide(state.board, v, c) <=>
                 update_board(state.board, c, v).board.m_state[v] = EMPTY)

(* The hashes maintained move by move are those of the position computed   *)
(* from nothing, with the number of passes xored in when there are any:    *)
(* the keys of the evaluation cache and of the superko test name the       *)
(* position however it was reached (m_hash and m_ko_hash against           *)
(* calc_hash() and calc_ko_hash()).                                        *)
HashExact ==
    LET b == state.board
        passes == IF state.m_passes = 0 THEN {} ELSE {PassKey(0), PassKey(state.m_passes)}
    IN  /\ b.m_hash = Xor(calc_hash(b, state.m_komove), passes)
        /\ b.m_ko_hash = calc_ko_hash(b)

(* After a move (a step that is no pass and no new game) the opponent may  *)
(* play exactly the moves that are no suicide and do not bring back the    *)
(* position before the move, and a ko forbids a move he could otherwise    *)
(* make (update_board(): eyeplay and one stone captured, and its closing   *)
(* assertion; is_move_legal()).                                            *)
KoStep ==
    state' # init_game /\ state'.m_passes = 0 =>
        LET s == state'
            c == s.board.m_tomove
            open == {w \in Points : s.board.m_state[w] = EMPTY /\ ~is_suicide(s.board, w, c)}
        IN  /\ s.m_komove \in open \cup {NO_VERTEX}
            /\ \A w \in Points :
                   is_move_legal(s, c, w) <=>
                       /\ w \in open
                       /\ play_move(s, c, w).board.m_state # state.board.m_state

KoExact == [][KoStep]_state
============================================================================
