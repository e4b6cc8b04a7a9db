----------------------------- MODULE FullBoard -----------------------------
(***************************************************************************)
(* The Go board (FastBoard.cpp, FullBoard.cpp) and the move that           *)
(* FastState::play_move() makes on it, as operators on a record whose      *)
(* fields carry the program's names.  Strings of stones are kept           *)
(* incrementally: every stone points at the root of its string (m_parent)  *)
(* and at the next stone of it (m_next, a ring); the root holds the number *)
(* of stones and of liberties.                                             *)
(*                                                                         *)
(* Abstractions.  A vertex is a pair; the border is what is not a point.   *)
(* Entries of m_next, m_libs and m_stones that the program leaves behind,  *)
(* for empty points and for stones that are no longer a root, are None.    *)
(* A Zobrist hash is the set of keys that were xored into it, so that two  *)
(* hashes are equal when the same keys are left.  m_empty, which nothing   *)
(* outside the board reads, is left out.                                   *)
(***************************************************************************)
EXTENDS Integers, FiniteSets, Sequences

CONSTANT BOARD_SIZE, None

BLACK == "black"
WHITE == "white"
EMPTY == "empty"
INVAL == "inval"
Colors == {BLACK, WHITE}
Other(c) == IF c = BLACK THEN WHITE ELSE BLACK

Points == (1 .. BOARD_SIZE) \X (1 .. BOARD_SIZE)
ASSUME BoardAssumption ==
    BOARD_SIZE \in Nat \ {0} /\ None \notin Points /\ None \notin Nat
NO_VERTEX == <<0, 0>>

\* The neighbour in direction k, in the order of m_dirs.
Neighbour(v, k) ==
    CASE k = 1 -> <<v[1], v[2] - 1>>
      [] k = 2 -> <<v[1] + 1, v[2]>>
      [] k = 3 -> <<v[1], v[2] + 1>>
      [] k = 4 -> <<v[1] - 1, v[2]>>

Adjacent == [v \in Points |-> {Neighbour(v, k) : k \in 1 .. 4} \cap Points]
Around(v) == Adjacent[v]

StateAt(b, v) == IF v \in Points THEN b.m_state[v] ELSE INVAL

(***************************************************************************)
(* Hashes                                                                  *)
(***************************************************************************)
Xor(h, keys) == (h \ keys) \cup (keys \ h)

StoneKey(c, v) == <<"zobrist", c, v>>
PrisonersKey(c, n) == <<"pris", c, n>>
KoKey(v) == <<"ko", v>>
PassKey(n) == <<"pass", n>>
BlackToMoveKey == <<"blacktomove">>

calc_ko_hash(b) == {StoneKey(b.m_state[v], v) : v \in Points}

calc_hash(b, komove) ==
    calc_ko_hash(b) \cup {PrisonersKey(c, b.m_prisoners[c]) : c \in Colors}
                    \cup {KoKey(komove)}
                    \cup (IF b.m_tomove = BLACK THEN {BlackToMoveKey} ELSE {})

reset_board ==
    LET b == [m_state |-> [v \in Points |-> EMPTY],
              m_parent |-> [v \in Points |-> None],
              m_next |-> [v \in Points |-> None],
              m_libs |-> [v \in Points |-> None],
              m_stones |-> [v \in Points |-> None],
              m_neighbours |-> [v \in Points |->
                  [c \in Colors \cup {EMPTY} |->
                      IF c = EMPTY THEN Cardinality(Around(v))
                      ELSE 4 - Cardinality(Around(v))]],
              m_prisoners |-> [c \in Colors |-> 0],
              m_tomove |-> BLACK,
              m_hash |-> {}, m_ko_hash |-> {}]
    IN  [b EXCEPT !.m_hash = calc_hash(b, NO_VERTEX), !.m_ko_hash = calc_ko_hash(b)]

\* Put content c at the points of S, in both hashes.
SetState(b, S, c) ==
    LET keys == {StoneKey(b.m_state[v], v) : v \in S} \cup {StoneKey(c, v) : v \in S}
    IN  [b EXCEPT !.m_state = [v \in Points |-> IF v \in S THEN c ELSE @[v]],
                  !.m_hash = Xor(@, keys),
                  !.m_ko_hash = Xor(@, keys)]

(***************************************************************************)
(* Strings                                                                 *)
(***************************************************************************)
\* The stones that m_next leads to from i, i included.
Ring(next, i) ==
    LET stones == {v \in Points : next[v] # None}
        closed == {S \in SUBSET stones : i \in S /\ \A v \in S : next[v] \in S}
    IN  {v \in stones : \A S \in closed : v \in S}

StringOf(b, i) == Ring(b.m_next, i)

\* The roots of the strings next to v.
Roots(b, v) == {b.m_parent[a] : a \in Around(v)} \ {None}

count_pliberties(b, v) == b.m_neighbours[v][EMPTY]

\* A stone of colour c has come to v: each string next to it loses one
\* liberty, however many of its stones are next to v.
add_neighbour(b, v, c) ==
    LET counts(a) == [b.m_neighbours[a] EXCEPT ![c] = @ + 1, ![EMPTY] = @ - 1]
    IN  [b EXCEPT
            !.m_neighbours = [a \in Points |-> IF a \in Around(v) THEN counts(a) ELSE @[a]],
            !.m_libs = [r \in Points |-> IF r \in Roots(b, v) THEN @[r] - 1 ELSE @[r]]]

\* The stones of S, a string of that colour, come off.  For each of them every
\* other string next to it gains one liberty (remove_neighbour()).
TakeOff(b, S, color) ==
    LET gain(r) == Cardinality({v \in S : r \in Roots(b, v)})
        near(a) == Cardinality(Around(a) \cap S)
        counts(a) == [b.m_neighbours[a] EXCEPT ![color] = @ - near(a), ![EMPTY] = @ + near(a)]
    IN  [SetState(b, S, EMPTY) EXCEPT
            !.m_parent = [v \in Points |-> IF v \in S THEN None ELSE @[v]],
            !.m_next = [v \in Points |-> IF v \in S THEN None ELSE @[v]],
            !.m_stones = [v \in Points |-> IF v \in S THEN None ELSE @[v]],
            !.m_libs = [v \in Points |->
                           IF v \in S \/ @[v] = None THEN None ELSE @[v] + gain(v)],
            !.m_neighbours = [a \in Points |-> counts(a)]]

remove_string(b, i) == TakeOff(b, StringOf(b, i), b.m_state[i])

\* Fault: a liberty of both strings is counted twice.
FreshLiberties_Shared(b, own, joining) ==
    {e \in UNION {Around(v) : v \in joining} : b.m_state[e] = EMPTY}

\* Liberties of the stones of joining that are none of those of own.
FreshLiberties(b, own, joining) ==
    {e \in UNION {Around(v) : v \in joining} :
        b.m_state[e] = EMPTY /\ Around(e) \cap own = {}}

\* Append the string of root aip to that of root ip: liberties of the one
\* that are no liberties of the other are added, the rings are joined.
JoinRings(b, ip, own, aip, joining) ==
    [b EXCEPT
        !.m_stones[ip] = @ + b.m_stones[aip],
        !.m_stones[aip] = None,
        !.m_libs[ip] = @ + Cardinality(FreshLiberties(b, own, joining)),
        !.m_libs[aip] = None,
        !.m_parent = [v \in Points |-> IF v \in joining THEN ip ELSE @[v]],
        !.m_next = [@ EXCEPT ![ip] = b.m_next[aip], ![aip] = b.m_next[ip]]]

merge_strings(b, ip, aip) == JoinRings(b, ip, StringOf(b, ip), aip, StringOf(b, aip))

\* The smaller string is appended to the larger one.
Join(b, ip, aip) ==
    LET appends == b.m_stones[ip] >= b.m_stones[aip]
    IN  merge_strings(b, IF appends THEN ip ELSE aip, IF appends THEN aip ELSE ip)

\* Fault: a string in atari is counted as one that can be joined.
is_suicide_AtariJoined(b, i, c) ==
    /\ count_pliberties(b, i) = 0
    /\ \A a \in Around(i) :
           LET libs == b.m_libs[b.m_parent[a]]
           IN  IF b.m_state[a] = c THEN libs < 1 ELSE libs > 1

\* Would a stone of colour c at the empty point i leave itself no liberty?
is_suicide(b, i, c) ==
    /\ count_pliberties(b, i) = 0
    /\ \A a \in Around(i) :
           LET libs == b.m_libs[b.m_parent[a]]
           IN  IF b.m_state[a] = c THEN libs <= 1 ELSE libs > 1

(***************************************************************************)
(* Moves                                                                   *)
(***************************************************************************)
\* Fault: a string in atari is captured.
HasNoLiberty_Atari(b, root) == b.m_libs[root] <= 1

HasNoLiberty(b, root) == b.m_libs[root] <= 0

\* One of the four directions of update_board(): capture what has no liberty
\* there, or join what is of the same colour.  acc is the board, the number
\* of stones captured and the last point where a string was captured.
Direction(acc, color, i, ai) ==
    LET b == acc.board
    IN  CASE StateAt(b, ai) = Other(color) ->
                 IF HasNoLiberty(b, b.m_parent[ai])
                 THEN [board |-> remove_string(b, ai),
                       captured |-> acc.captured + Cardinality(StringOf(b, ai)),
                       vertex |-> ai]
                 ELSE acc
          [] StateAt(b, ai) = color ->
                 IF b.m_parent[i] = b.m_parent[ai] THEN acc
                 ELSE [acc EXCEPT !.board = Join(b, b.m_parent[i], b.m_parent[ai])]
          [] OTHER -> acc

\* Fault: a capture of one stone is a ko wherever it happens.
KoPoint_NoEye(captured, vertex, eyeplay) == IF captured = 1 THEN vertex ELSE NO_VERTEX

\* One stone captured by a stone in an eye of the opponent's.
KoPoint(captured, vertex, eyeplay) ==
    IF captured = 1 /\ eyeplay THEN vertex ELSE NO_VERTEX

\* A string of its own, with the empty points around it for liberties.
NewString(b, i) ==
    [b EXCEPT !.m_next[i] = i, !.m_parent[i] = i, !.m_stones[i] = 1,
              !.m_libs[i] = count_pliberties(b, i)]

PutStone(b, color, i) == add_neighbour(NewString(SetState(b, {i}, color), i), i, color)

Directions(b, color, i) ==
    LET Turn(acc, k) == Direction(acc, color, i, Neighbour(i, k))
        start == [board |-> b, captured |-> 0, vertex |-> NO_VERTEX]
    IN  Turn(Turn(Turn(Turn(start, 1), 2), 3), 4)

CountPrisoners(b, color, captured) ==
    [b EXCEPT !.m_hash = Xor(Xor(@, {PrisonersKey(color, b.m_prisoners[color])}),
                             {PrisonersKey(color, b.m_prisoners[color] + captured)}),
              !.m_prisoners[color] = @ + captured]

\* Suicide: the string of i has no liberty left.
StillAlive(b, i) == IF HasNoLiberty(b, b.m_parent[i]) THEN remove_string(b, i) ELSE b

\* The new board, and the point where a ko forbids to retake.
Outcome(acc, color, i, eyeplay) ==
    [board |-> StillAlive(CountPrisoners(acc.board, color, acc.captured), i),
     komove |-> KoPoint(acc.captured, acc.vertex, eyeplay)]

update_board(b, color, i) ==
    Outcome(Directions(PutStone(b, color, i), color, i), color, i,
            b.m_neighbours[i][Other(color)] = 4)

\* Fault: FastBoard's set_to_move(), which knows no hash.
set_to_move_NoHash(b, c) == [b EXCEPT !.m_tomove = c]

set_to_move(b, c) ==
    [b EXCEPT !.m_hash = IF b.m_tomove # c THEN Xor(@, {BlackToMoveKey}) ELSE @,
              !.m_tomove = c]

(***************************************************************************)
(* FastState: a board, the ko point and the number of passes               *)
(***************************************************************************)
PASS == <<-1, -1>>

init_game == [board |-> reset_board, m_komove |-> NO_VERTEX, m_passes |-> 0]

\* But for resigning, and for the moves an analysis was told to avoid.
is_move_legal(s, c, v) ==
    \/ v = PASS
    \/ /\ v # s.m_komove
       /\ s.board.m_state[v] = EMPTY
       /\ ~is_suicide(s.board, v, c)

increment_passes(n) == IF n >= 4 THEN 4 ELSE n + 1

\* The opponent is to move, after a number of passes; the hash follows.
NextTurn(s, moved, color, passes) ==
    [s EXCEPT !.board = [set_to_move(moved.board, Other(color)) EXCEPT
                            !.m_hash = Xor(Xor(Xor(Xor(@, {KoKey(s.m_komove)}),
                                                   {KoKey(moved.komove)}),
                                               {PassKey(s.m_passes)}),
                                           {PassKey(passes)})],
              !.m_komove = moved.komove,
              !.m_passes = passes]

\* FastState::play_move(color, vertex)
play_move(s, color, v) ==
    NextTurn(s,
             IF v = PASS THEN [board |-> s.board, komove |-> NO_VERTEX]
             ELSE update_board(s.board, color, v),
             color,
             IF v = PASS THEN increment_passes(s.m_passes) ELSE 0)
============================================================================
