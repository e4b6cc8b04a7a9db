-------------------------- MODULE GameStateProofs --------------------------
(***************************************************************************)
(* Proofs about GameState, for any size of the board and any bounds.  What *)
(* a move does to a position is proved in FastStateProofs, whose variable  *)
(* state no definition here reads.                                         *)
(***************************************************************************)
EXTENDS GameState, FastStateProofs, SequenceTheorems

-----------------------------------------------------------------------------
(* Sequences.                                                              *)

IsSeq(h) == \E S : h \in Seq(S)

LEMMA SeqIs ==
    ASSUME NEW h, IsSeq(h)
    PROVE  Len(h) \in Nat /\ DOMAIN h = 1 .. Len(h)
BY DEF IsSeq

LEMMA AppendIs ==
    ASSUME NEW h, IsSeq(h), NEW s
    PROVE  LET r == Append(h, s)
           IN  /\ IsSeq(r) /\ Len(r) = Len(h) + 1 /\ r[Len(h) + 1] = s
               /\ \A k \in 1 .. Len(h) : r[k] = h[k]
<1>1. PICK S : h \in Seq(S)
  BY DEF IsSeq
<1>2. h \in Seq(S \cup {s}) /\ s \in S \cup {s}
  BY <1>1, SeqMonotonic
<1>3. QED
  BY <1>2, AppendProperties DEF IsSeq

\* The first n entries of h, and s.
Then(h, n, s) == Append(SubSeq(h, 1, n), s)

LEMMA ThenIs ==
    ASSUME NEW h, IsSeq(h), NEW n \in 0 .. Len(h), NEW s
    PROVE  /\ IsSeq(Then(h, n, s)) /\ Len(Then(h, n, s)) = n + 1
           /\ Then(h, n, s)[n + 1] = s
           /\ \A k \in 1 .. n : Then(h, n, s)[k] = h[k]
<1>1. PICK S : h \in Seq(S)
  BY DEF IsSeq
<1>2. Len(h) \in Nat /\ n \in Int /\ 1 \in Int
  BY <1>1, LenProperties
<1>3. \A k \in 1 .. n : h[k] \in S
  BY <1>1, <1>2, ElementOfSeq
<1>4. PICK r : r = SubSeq(h, 1, n)
  OBVIOUS
<1>5. /\ r \in Seq(S) /\ Len(r) = IF 1 <= n THEN n - 1 + 1 ELSE 0
      /\ \A k \in 1 .. n - 1 + 1 : r[k] = h[1 + k - 1]
  BY <1>2, <1>3, <1>4, SubSeqProperties
<1>6. IsSeq(r) /\ Len(r) = n /\ \A k \in 1 .. n : r[k] = h[k]
  BY <1>2, <1>5 DEF IsSeq
<1>7. QED
  BY <1>2, <1>4, <1>6, AppendIs DEF Then

-----------------------------------------------------------------------------
(* Entries of a record.                                                    *)

EntryFields == {"board", "m_komove", "m_passes", "m_lastmove", "m_movenum",
                "m_ko_hash_history"}

\* The FastState part of a KoState.
Position(e) == [board |-> e.board, m_komove |-> e.m_komove, m_passes |-> e.m_passes]

Entry(e) ==
    /\ DOMAIN e = EntryFields
    /\ StateInv(Position(e)) /\ SoundState(Position(e))
    /\ IsSeq(e.m_ko_hash_history) /\ Len(e.m_ko_hash_history) > 0

LEMMA PositionIs ==
    ASSUME NEW e
    PROVE  /\ DOMAIN Position(e) = {"board", "m_komove", "m_passes"}
           /\ Position(e).board = e.board /\ Position(e).m_komove = e.m_komove
           /\ Position(e).m_passes = e.m_passes
BY DEF Position

LEMMA KoPlayMoveIs ==
    ASSUME NEW e, DOMAIN e = EntryFields, NEW c, NEW v,
           NEW p, p = play_move(Position(e), c, v), NEW f, f = KoPlayMove(e, c, v)
    PROVE  /\ DOMAIN f = EntryFields
           /\ f.board = p.board /\ f.m_komove = p.m_komove /\ f.m_passes = p.m_passes
           /\ f.m_lastmove = v /\ f.m_movenum = e.m_movenum + 1
           /\ f.m_ko_hash_history = Append(e.m_ko_hash_history, p.board.m_ko_hash)
<1>1. PICK moved : moved = IF v = PASS THEN [board |-> e.board, komove |-> NO_VERTEX]
                           ELSE update_board(e.board, c, v)
  OBVIOUS
<1>2. PICK passes : passes = IF v = PASS THEN increment_passes(e.m_passes) ELSE 0
  OBVIOUS
<1>3. PICK q : q = play_move(e, c, v)
  OBVIOUS
<1>4. q = NextTurn(e, moved, c, passes) /\ p = NextTurn(Position(e), moved, c, passes)
  BY <1>1, <1>2, <1>3, PositionIs DEF play_move
<1>5. /\ DOMAIN q = EntryFields
      /\ q.board = p.board /\ q.m_komove = p.m_komove /\ q.m_passes = p.m_passes
      /\ q.m_movenum = e.m_movenum /\ q.m_ko_hash_history = e.m_ko_hash_history
  BY <1>4, PositionIs DEF NextTurn, EntryFields
<1>6. f = Numbered(q, v)
  BY <1>3 DEF KoPlayMove
<1>7. QED
  BY <1>5, <1>6 DEF Numbered, EntryFields

(* A legal move or a pass makes an entry of an entry.                      *)
LEMMA MoveMade ==
    ASSUME NEW e, Entry(e), NEW c \in Colors, NEW v \in Points \cup {PASS},
           v \in Points => ~Stone(e.board, v), NEW f, f = KoPlayMove(e, c, v)
    PROVE  /\ Entry(f) /\ f.m_lastmove = v /\ f.m_movenum = e.m_movenum + 1
           /\ f.m_ko_hash_history = Append(e.m_ko_hash_history, f.board.m_ko_hash)
<1>1. PICK p : p = play_move(Position(e), c, v)
  OBVIOUS
<1>2. /\ DOMAIN f = EntryFields
      /\ f.board = p.board /\ f.m_komove = p.m_komove /\ f.m_passes = p.m_passes
      /\ f.m_lastmove = v /\ f.m_movenum = e.m_movenum + 1
      /\ f.m_ko_hash_history = Append(e.m_ko_hash_history, p.board.m_ko_hash)
  BY <1>1, KoPlayMoveIs DEF Entry
<1>3. StateInv(Position(e)) /\ SoundState(Position(e))
      /\ (v \in Points => ~Stone(Position(e).board, v))
  BY PositionIs DEF Entry
<1>4. StateInv(p)
  BY <1>1, <1>3, PlayMoveIs
<1>5. SoundState(p)
  <2>1. CASE v \in Points
    BY <1>1, <1>3, <2>1, PlayMoveSound
  <2>2. CASE v = PASS
    BY <1>1, <1>3, <2>2, PlayPassSound
  <2>3. QED
    BY <2>1, <2>2
<1>6. StateInv(Position(f)) /\ SoundState(Position(f))
  BY <1>2, <1>4, <1>5, PositionIs DEF StateInv, SoundState
<1>7. IsSeq(f.m_ko_hash_history) /\ Len(f.m_ko_hash_history) > 0
  <2>1. IsSeq(e.m_ko_hash_history) /\ Len(e.m_ko_hash_history) > 0
    BY DEF Entry
  <2>2. Len(e.m_ko_hash_history) \in Nat
    BY <2>1, SeqIs
  <2>3. QED
    BY <1>2, <2>1, <2>2, AppendIs
<1>8. QED
  BY <1>2, <1>6, <1>7 DEF Entry


-----------------------------------------------------------------------------
(* The same position, perhaps with the other colour to move.               *)

SamePosition(g, e) ==
    /\ SameStrings(g.board, e.board)
    /\ g.m_komove = e.m_komove
    /\ g.board.m_ko_hash = e.board.m_ko_hash
    /\ g.m_ko_hash_history = e.m_ko_hash_history
    /\ g.m_movenum = e.m_movenum
    /\ g.m_lastmove = e.m_lastmove

LEMMA ToMoveIs ==
    ASSUME NEW e, Entry(e), NEW c \in Colors, NEW f, f = ToMove(e, c)
    PROVE  Entry(f) /\ SamePosition(f, e)
<1>1. PICK b : b = set_to_move(e.board, c)
  OBVIOUS
<1>2. /\ DOMAIN f = EntryFields
      /\ f.board = b /\ f.m_komove = e.m_komove /\ f.m_passes = e.m_passes
      /\ f.m_lastmove = e.m_lastmove /\ f.m_movenum = e.m_movenum
      /\ f.m_ko_hash_history = e.m_ko_hash_history
  BY <1>1 DEF ToMove, Entry, EntryFields
<1>3. /\ RingsInv(e.board) /\ Sound(e.board) /\ e.m_passes \in Nat
      /\ HashesInv(e.board, Rest(e.board.m_prisoners, e.board.m_tomove,
                                 e.m_komove, e.m_passes))
  BY PositionIs DEF Entry, StateInv, SoundState
<1>4. /\ RingsInv(b) /\ b.m_tomove = c /\ b.m_prisoners = e.board.m_prisoners
      /\ HashesInv(b, Rest(b.m_prisoners, c, e.m_komove, e.m_passes))
  <2>1. /\ RingsInv(b) /\ b.m_tomove = c /\ b.m_prisoners = e.board.m_prisoners
        /\ \A k, m : HashesInv(e.board, Rest(e.board.m_prisoners, e.board.m_tomove, k, m))
                        => HashesInv(b, Rest(e.board.m_prisoners, c, k, m))
    BY <1>1, <1>3, SetToMoveIs
  <2>2. QED
    BY <1>3, <2>1
<1>5. Sound(b) /\ SameStrings(b, e.board)
  BY <1>1, <1>3, SetToMoveSound
<1>6. StateInv(Position(f)) /\ SoundState(Position(f))
  BY <1>2, <1>3, <1>4, <1>5, PositionIs DEF StateInv, SoundState
<1>7. b.m_ko_hash = e.board.m_ko_hash
  BY <1>3, <1>4, <1>5 DEF HashesInv, calc_ko_hash, SameStrings
<1>8. QED
  BY <1>2, <1>5, <1>6, <1>7 DEF Entry, SamePosition

LEMMA SameReads ==
    ASSUME NEW a, NEW b, Sound(a), Sound(b), SameStrings(a, b),
           NEW c, NEW i
    PROVE  /\ Final(a, c, i) = Final(b, c, i)
           /\ Caught(a, c, i) = Caught(b, c, i)
           /\ Eye(a, c, i) <=> Eye(b, c, i)
<1>1. a.m_state = b.m_state
  BY DEF SameStrings
<1>2. Final(a, c, i) = Final(b, c, i)
  BY <1>1 DEF Final, Left, Lost
<1>3. /\ \A v : Members(a, v) = Members(b, v)
      /\ \A S : Libs(a, S) = Libs(b, S)
  BY DEF Members, Libs, SameStrings
<1>4. Caught(a, c, i) = Caught(b, c, i)
  BY <1>1, <1>3 DEF Caught
<1>5. Eye(a, c, i) <=> Eye(b, c, i)
  BY <1>1 DEF Eye
<1>6. QED
  BY <1>2, <1>4, <1>5

(* What a move to an empty point does to the stones and the ko.            *)
LEMMA StoneMoves ==
    ASSUME NEW s, SoundState(s), NEW c \in Colors, NEW v \in Points, ~Stone(s.board, v),
           NEW p, p = play_move(s, c, v)
    PROVE  p.board.m_state = Final(s.board, c, v) /\ KoIs(s.board, p.m_komove, c, v)
<1>1. PICK moved : moved = update_board(s.board, c, v)
  OBVIOUS
<1>2. PICK n : n = moved.board
  OBVIOUS
<1>3. PICK d : d = Directions(PutStone(s.board, c, v), c, v).board
  OBVIOUS
<1>4. SoundState(p) /\ SameStrings(p.board, n) /\ p.m_komove = moved.komove
  BY <1>1, <1>2, PlayMoveSound
<1>5. Sound(s.board) /\ n = update_board(s.board, c, v).board
  BY <1>1, <1>2 DEF SoundState
<1>6. n.m_state = Final(s.board, c, v)
  BY <1>3, <1>5, UpdateBoardSound
<1>7. p.board.m_state = n.m_state /\ Shape(p.board)
  BY <1>4 DEF SoundState, Sound, RingsInv, SameStrings
<1>8. KoIs(s.board, moved.komove, c, v)
  BY <1>1, <1>2, <1>4, <1>5, <1>7, AfterMove
<1>9. QED
  BY <1>4, <1>6, <1>7, <1>8

(* Played from the same position, a move leads to the same stones, ko and  *)
(* hashes.                                                                 *)
LEMMA MoveAgain ==
    ASSUME NEW g, Entry(g), NEW e, Entry(e), SamePosition(g, e),
           NEW c \in Colors, NEW v \in Points \cup {PASS},
           v \in Points => ~Stone(g.board, v)
    PROVE  Agrees(KoPlayMove(e, c, v), KoPlayMove(g, c, v))
<1>1. PICK p : p = play_move(Position(g), c, v)
  OBVIOUS
<1>2. PICK q : q = play_move(Position(e), c, v)
  OBVIOUS
<1>3. PICK f : f = KoPlayMove(g, c, v)
  OBVIOUS
<1>4. PICK r : r = KoPlayMove(e, c, v)
  OBVIOUS
<1>5. /\ f.board = p.board /\ f.m_komove = p.m_komove
      /\ f.m_ko_hash_history = Append(g.m_ko_hash_history, p.board.m_ko_hash)
  BY <1>1, <1>3, KoPlayMoveIs DEF Entry
<1>6. /\ r.board = q.board /\ r.m_komove = q.m_komove
      /\ r.m_ko_hash_history = Append(e.m_ko_hash_history, q.board.m_ko_hash)
  BY <1>2, <1>4, KoPlayMoveIs DEF Entry
<1>7. /\ StateInv(Position(g)) /\ SoundState(Position(g))
      /\ StateInv(Position(e)) /\ SoundState(Position(e))
      /\ Sound(g.board) /\ Sound(e.board)
  BY PositionIs DEF Entry, SoundState
<1>8. /\ SameStrings(g.board, e.board)
      /\ v \in Points => ~Stone(Position(g).board, v) /\ ~Stone(Position(e).board, v)
  BY PositionIs DEF SamePosition, SameStrings, Stone
<1>9. StateInv(p) /\ StateInv(q)
  <2>1. StateInv(p)
    BY <1>1, <1>7, <1>8, PlayMoveIs
  <2>2. StateInv(q)
    BY <1>2, <1>7, <1>8, PlayMoveIs
  <2>3. QED
    BY <2>1, <2>2
<1>10. p.board.m_state = q.board.m_state /\ p.m_komove = q.m_komove
  <2>1. CASE v \in Points
    <3>1. p.board.m_state = Final(g.board, c, v) /\ KoIs(g.board, p.m_komove, c, v)
      BY <1>1, <1>7, <1>8, <2>1, PositionIs, StoneMoves
    <3>2. q.board.m_state = Final(e.board, c, v) /\ KoIs(e.board, q.m_komove, c, v)
      BY <1>2, <1>7, <1>8, <2>1, PositionIs, StoneMoves
    <3>3. /\ Final(g.board, c, v) = Final(e.board, c, v)
          /\ Caught(g.board, c, v) = Caught(e.board, c, v)
          /\ Eye(g.board, c, v) <=> Eye(e.board, c, v)
      BY <1>7, <1>8, SameReads
    <3>4. p.m_komove = q.m_komove
      BY <3>1, <3>2, <3>3 DEF KoIs
    <3>5. QED
      BY <3>1, <3>2, <3>3, <3>4
  <2>2. CASE v = PASS
    <3>1. SameStrings(p.board, g.board) /\ SameStrings(q.board, e.board)
      <4>1. SameStrings(p.board, Position(g).board)
        BY <1>1, <1>7, <2>2, PlayPassSound
      <4>2. SameStrings(q.board, Position(e).board)
        BY <1>2, <1>7, <2>2, PlayPassSound
      <4>3. QED
        BY <4>1, <4>2, PositionIs
    <3>2. \A s : DOMAIN s = {"board", "m_komove", "m_passes"}
                    => play_move(s, c, PASS).m_komove = NO_VERTEX
      BY DEF play_move, NextTurn
    <3>3. QED
      BY <1>1, <1>2, <1>8, <2>2, <3>1, <3>2, PositionIs DEF SameStrings
  <2>3. QED
    BY <2>1, <2>2
<1>11. p.board.m_ko_hash = q.board.m_ko_hash
  BY <1>9, <1>10 DEF StateInv, HashesInv, calc_ko_hash
<1>12. QED
  BY <1>3, <1>4, <1>5, <1>6, <1>10, <1>11 DEF Agrees, StonesOf, SamePosition


-----------------------------------------------------------------------------
(* The record.                                                             *)

Base(h) == Len(h[1].m_ko_hash_history)

\* Entry n carries the hashes of all entries up to it, behind those that
\* entry 1 brought along.
Remembers(h, n) ==
    /\ Len(h[n].m_ko_hash_history) = Base(h) + n - 1
    /\ \A k \in 1 .. n :
          h[n].m_ko_hash_history[Base(h) + k - 1] = h[k].board.m_ko_hash

\* Entry f follows from entry e by the move that f names.
FollowsFrom(e, f) == \E c \in Colors : Agrees(KoPlayMove(e, c, f.m_lastmove), f)

History(h) ==
    /\ IsSeq(h) /\ Len(h) > 0
    /\ \A n \in 1 .. Len(h) : Entry(h[n]) /\ h[n].m_movenum = n - 1 /\ Remembers(h, n)
    /\ \A n \in 2 .. Len(h) : FollowsFrom(h[n - 1], h[n])

GameInv(g, h) ==
    /\ History(h)
    /\ Entry(g) /\ g.m_movenum \in 0 .. Len(h) - 1
    /\ SamePosition(g, h[g.m_movenum + 1])

LEMMA NewHistory ==
    ASSUME NEW f, Entry(f), f.m_movenum = 0,
           f.m_ko_hash_history[Len(f.m_ko_hash_history)] = f.board.m_ko_hash
    PROVE  GameInv(f, <<f>>)
<1>1. PICK h : h = <<f>>
  OBVIOUS
<1>2. IsSeq(h) /\ Len(h) = 1 /\ h[1] = f
  <2>1. <<f>> \in Seq({f})
    OBVIOUS
  <2>2. QED
    BY <1>1, <2>1 DEF IsSeq
<1>3. Len(f.m_ko_hash_history) \in Nat
  BY SeqIs DEF Entry
<1>4. Remembers(h, 1)
  BY <1>2, <1>3 DEF Remembers, Base
<1>5. History(h)
  BY <1>2, <1>4 DEF History
<1>6. SamePosition(f, f)
  BY DEF SamePosition, SameStrings
<1>7. QED
  BY <1>1, <1>2, <1>5, <1>6 DEF GameInv

(* A move recorded behind entry n cuts off what was behind it.             *)
LEMMA MoveRecorded ==
    ASSUME NEW h, History(h), NEW n \in 1 .. Len(h),
           NEW f, Entry(f), FollowsFrom(h[n], f), f.m_movenum = n,
           f.m_ko_hash_history = Append(h[n].m_ko_hash_history, f.board.m_ko_hash)
    PROVE  GameInv(f, Then(h, n, f))
<1>1. PICK r : r = Then(h, n, f)
  OBVIOUS
<1>2. Len(h) \in Nat /\ n \in Nat /\ n > 0 /\ n <= Len(h)
  BY SeqIs DEF History
<1>3. /\ IsSeq(r) /\ Len(r) = n + 1 /\ r[n + 1] = f
      /\ \A k \in 1 .. n : r[k] = h[k]
  BY <1>1, <1>2, ThenIs DEF History
<1>4. Base(r) = Base(h) /\ Base(h) \in Nat
  BY <1>2, <1>3, SeqIs DEF Base, History, Entry
<1>5. ASSUME NEW k \in 1 .. n
      PROVE  Entry(r[k]) /\ r[k].m_movenum = k - 1 /\ Remembers(r, k)
  <2>1. k \in 1 .. Len(h)
    BY <1>2
  <2>2. Entry(h[k]) /\ h[k].m_movenum = k - 1 /\ Remembers(h, k)
    BY <2>1 DEF History
  <2>3. \A l \in 1 .. k : r[l] = h[l]
    BY <1>2, <1>3
  <2>4. QED
    BY <1>3, <1>4, <2>2, <2>3 DEF Remembers
<1>6. Remembers(r, n + 1)
  <2> DEFINE old == h[n].m_ko_hash_history
             new == f.m_ko_hash_history
  <2>1. /\ IsSeq(old) /\ Len(old) = Base(h) + n - 1
        /\ \A k \in 1 .. n : old[Base(h) + k - 1] = h[k].board.m_ko_hash
    BY DEF History, Entry, Remembers
  <2>2. /\ Len(new) = Len(old) + 1 /\ new[Len(old) + 1] = f.board.m_ko_hash
        /\ \A k \in 1 .. Len(old) : new[k] = old[k]
    BY <2>1, AppendIs
  <2>3. Base(h) > 0
    BY <1>2 DEF Base, History, Entry
  <2> HIDE DEF old, new
  <2>4. Len(new) = Base(h) + (n + 1) - 1
    BY <1>2, <1>4, <2>1, <2>2
  <2>5. ASSUME NEW k \in 1 .. n + 1
        PROVE  new[Base(h) + k - 1] = r[k].board.m_ko_hash
    <3>1. CASE k = n + 1
      BY <1>2, <1>3, <1>4, <2>1, <2>2, <3>1
    <3>2. CASE k \in 1 .. n
      <4>1. Base(h) + k - 1 \in 1 .. Len(old)
        BY <1>2, <1>4, <2>1, <2>3, <3>2
      <4>2. QED
        BY <1>3, <2>1, <2>2, <3>2, <4>1
    <3>3. QED
      BY <1>2, <3>1, <3>2
  <2>6. QED
    BY <1>3, <1>4, <2>4, <2>5 DEF Remembers, new
<1>7. \A k \in 1 .. n + 1 : Entry(r[k]) /\ r[k].m_movenum = k - 1 /\ Remembers(r, k)
  BY <1>2, <1>3, <1>5, <1>6
<1>8. ASSUME NEW k \in 2 .. n + 1
      PROVE  FollowsFrom(r[k - 1], r[k])
  <2>1. CASE k = n + 1
    BY <1>2, <1>3, <2>1
  <2>2. CASE k <= n
    <3>1. k \in 2 .. Len(h) /\ k \in 1 .. n /\ k - 1 \in 1 .. n
      BY <1>2, <2>2
    <3>2. FollowsFrom(h[k - 1], h[k])
      BY <3>1 DEF History
    <3>3. QED
      BY <1>3, <3>1, <3>2
  <2>3. QED
    BY <1>2, <2>1, <2>2
<1>9. History(r)
  BY <1>2, <1>3, <1>7, <1>8 DEF History
<1>10. SamePosition(f, f)
  BY DEF SamePosition, SameStrings
<1>11. QED
  BY <1>1, <1>2, <1>3, <1>9, <1>10 DEF GameInv

(* A resignation records the present position once more, in place of the   *)
(* entry it came from, and cuts off what was behind it.                    *)
LEMMA PositionRecorded ==
    ASSUME NEW h, History(h), NEW n \in 1 .. Len(h),
           NEW f, Entry(f), SamePosition(f, h[n])
    PROVE  GameInv(f, Then(h, n - 1, f))
<1>1. PICK r : r = Then(h, n - 1, f)
  OBVIOUS
<1>2. Len(h) \in Nat /\ n \in Nat /\ n > 0 /\ n <= Len(h) /\ n - 1 \in 0 .. Len(h)
  BY SeqIs DEF History
<1>3. /\ IsSeq(r) /\ Len(r) = n /\ r[n] = f
      /\ \A k \in 1 .. n - 1 : r[k] = h[k]
  BY <1>1, <1>2, ThenIs DEF History
<1>4. \A k \in 1 .. n : SamePosition(r[k], h[k]) /\ Entry(r[k]) /\ r[k].m_movenum = k - 1
  <2>1. ASSUME NEW k \in 1 .. n - 1
        PROVE  SamePosition(r[k], h[k]) /\ Entry(r[k]) /\ r[k].m_movenum = k - 1
    BY <1>2, <1>3 DEF SamePosition, SameStrings, History
  <2>2. f.m_movenum = n - 1
    BY DEF SamePosition, History
  <2>3. QED
    BY <1>2, <1>3, <2>1, <2>2
<1>5. Base(r) = Base(h)
  BY <1>2, <1>4 DEF Base, SamePosition
<1>6. ASSUME NEW k \in 1 .. n
      PROVE  Remembers(r, k)
  <2>1. Remembers(h, k)
    BY <1>2 DEF History
  <2>2. \A l \in 1 .. k : r[l].board.m_ko_hash = h[l].board.m_ko_hash
    BY <1>2, <1>4 DEF SamePosition
  <2>3. r[k].m_ko_hash_history = h[k].m_ko_hash_history
    BY <1>4 DEF SamePosition
  <2>4. QED
    BY <1>5, <2>1, <2>2, <2>3 DEF Remembers
<1>7. ASSUME NEW k \in 2 .. n
      PROVE  FollowsFrom(r[k - 1], r[k])
  <2>1. FollowsFrom(h[k - 1], h[k]) /\ r[k - 1] = h[k - 1]
    <3>1. k \in 2 .. Len(h) /\ k - 1 \in 1 .. n - 1
      BY <1>2
    <3>2. QED
      BY <1>3, <3>1 DEF History
  <2>2. SamePosition(r[k], h[k])
    BY <1>2, <1>4
  <2>3. QED
    BY <2>1, <2>2 DEF FollowsFrom, Agrees, StonesOf, SamePosition, SameStrings
<1>8. History(r)
  BY <1>2, <1>3, <1>4, <1>6, <1>7 DEF History
<1>9. f.m_movenum = n - 1 /\ SamePosition(f, f)
  BY <1>2, <1>3, <1>4 DEF SamePosition, SameStrings
<1>10. QED
  BY <1>1, <1>2, <1>3, <1>8, <1>9 DEF GameInv


-----------------------------------------------------------------------------
(* The invariant.                                                          *)

LEMMA NewGameIs ==
    /\ Entry(NewGame) /\ NewGame.m_movenum = 0
    /\ NewGame.m_ko_hash_history[Len(NewGame.m_ko_hash_history)]
         = NewGame.board.m_ko_hash
<1>1. PICK e : e = NewGame
  OBVIOUS
<1>2. PICK hashes : hashes = e.m_ko_hash_history
  OBVIOUS
<1>3. Position(e) = init_game
  BY <1>1 DEF Position, NewGame, init_game
<1>4. /\ DOMAIN e = EntryFields /\ e.m_movenum = 0 /\ e.board = reset_board
      /\ hashes = <<reset_board.m_ko_hash>>
  BY <1>1, <1>2 DEF NewGame, EntryFields
<1>5. IsSeq(hashes) /\ Len(hashes) = 1 /\ hashes[1] = e.board.m_ko_hash
  <2>1. <<reset_board.m_ko_hash>> \in Seq({reset_board.m_ko_hash})
    OBVIOUS
  <2>2. QED
    BY <1>4, <2>1 DEF IsSeq
<1>6. StateInv(Position(e)) /\ SoundState(Position(e))
  BY <1>3, InitialPosition, InitialSound
<1>7. Entry(e)
  BY <1>2, <1>4, <1>5, <1>6 DEF Entry
<1>8. QED
  BY <1>1, <1>2, <1>4, <1>5, <1>7

LEMMA SameTransitive ==
    ASSUME NEW f, NEW g, NEW e, SamePosition(f, g), SamePosition(g, e)
    PROVE  SamePosition(f, e)
BY DEF SamePosition, SameStrings

LEMMA TextMoveStep ==
    ASSUME NEW g, NEW h, GameInv(g, h), NEW c \in Colors,
           NEW v \in Points \cup {PASS, RESIGN},
           v \in Points => StonesOf(g)[v] = EMPTY,
           NEW f, f = IF v = RESIGN THEN ToMove(g, c) ELSE KoPlayMove(ToMove(g, c), c, v)
    PROVE  GameInv(f, Recorded(h, f))
<1>1. PICK p : p = ToMove(g, c)
  OBVIOUS
<1>2. PICK n : n = g.m_movenum + 1
  OBVIOUS
<1>3. /\ History(h) /\ Entry(g) /\ SamePosition(g, h[n]) /\ n \in 1 .. Len(h)
      /\ g.m_movenum = n - 1 /\ n \in Nat
  BY <1>2, SeqIs DEF GameInv, History
<1>4. Entry(p) /\ SamePosition(p, g)
  BY <1>1, <1>3, ToMoveIs
<1>5. SamePosition(p, h[n]) /\ p.m_movenum = n - 1
  BY <1>3, <1>4, SameTransitive DEF SamePosition
<1>6. CASE v = RESIGN
  <2>1. f = p /\ Recorded(h, f) = Then(h, n - 1, f)
    BY <1>1, <1>5, <1>6 DEF Recorded, CutOff, Then
  <2>2. QED
    BY <1>3, <1>4, <1>5, <2>1, PositionRecorded
<1>7. CASE v # RESIGN
  <2>1. f = KoPlayMove(p, c, v) /\ v \in Points \cup {PASS}
    BY <1>1, <1>7
  <2>2. v \in Points => ~Stone(p.board, v)
    BY <1>4 DEF SamePosition, SameStrings, Stone, StonesOf
  <2>3. /\ Entry(f) /\ f.m_lastmove = v /\ f.m_movenum = p.m_movenum + 1
        /\ f.m_ko_hash_history = Append(p.m_ko_hash_history, f.board.m_ko_hash)
    BY <1>4, <2>1, <2>2, MoveMade
  <2>4. Entry(h[n])
    BY <1>3 DEF History
  <2>5. Agrees(KoPlayMove(h[n], c, v), f)
    BY <1>4, <1>5, <2>1, <2>2, <2>4, MoveAgain
  <2>6. FollowsFrom(h[n], f)
    BY <2>3, <2>5 DEF FollowsFrom
  <2>7. f.m_movenum = n
    BY <1>3, <1>5, <2>3
  <2>8. f.m_ko_hash_history = Append(h[n].m_ko_hash_history, f.board.m_ko_hash)
    BY <1>5, <2>3 DEF SamePosition
  <2>9. Recorded(h, f) = Then(h, n, f)
    BY <2>7 DEF Recorded, CutOff, Then
  <2>10. QED
    BY <1>3, <2>3, <2>6, <2>7, <2>8, <2>9, MoveRecorded
<1>8. QED
  BY <1>6, <1>7

LEMMA HandicapStep ==
    ASSUME NEW g, NEW h, GameInv(g, h), NEW c \in Colors,
           NEW f, f = ToMove([g EXCEPT !.m_movenum = 0], c)
    PROVE  GameInv(f, <<f>>)
<1>1. PICK e : e = [g EXCEPT !.m_movenum = 0]
  OBVIOUS
<1>2. PICK n : n = g.m_movenum + 1
  OBVIOUS
<1>3. /\ History(h) /\ Entry(g) /\ SamePosition(g, h[n]) /\ n \in 1 .. Len(h)
      /\ n \in Nat
  BY <1>2, SeqIs DEF GameInv, History
<1>4. /\ DOMAIN e = EntryFields /\ e.board = g.board /\ e.m_komove = g.m_komove
      /\ e.m_passes = g.m_passes /\ e.m_movenum = 0
      /\ e.m_ko_hash_history = g.m_ko_hash_history
  BY <1>1, <1>3 DEF Entry, EntryFields
<1>5. Entry(e)
  BY <1>3, <1>4 DEF Entry, Position
<1>6. Entry(f) /\ SamePosition(f, e)
  BY <1>1, <1>5, ToMoveIs
<1>7. g.m_ko_hash_history[Len(g.m_ko_hash_history)] = g.board.m_ko_hash
  <2>1. Remembers(h, n)
    BY <1>3 DEF History
  <2>2. n \in 1 .. n
    BY <1>3
  <2>3. QED
    BY <1>3, <2>1, <2>2 DEF Remembers, SamePosition
<1>8. /\ f.m_movenum = 0
      /\ f.m_ko_hash_history[Len(f.m_ko_hash_history)] = f.board.m_ko_hash
  BY <1>4, <1>6, <1>7 DEF SamePosition
<1>9. QED
  BY <1>6, <1>8, NewHistory

LEMMA GoToStep ==
    ASSUME NEW h, History(h), NEW n \in 0 .. Len(h) - 1
    PROVE  GameInv(h[n + 1], h)
<1>1. n + 1 \in 1 .. Len(h) /\ n + 1 - 1 = n
  BY SeqIs DEF History
<1>2. Entry(h[n + 1]) /\ h[n + 1].m_movenum = n
  BY <1>1 DEF History
<1>3. QED
  BY <1>2 DEF GameInv, SamePosition, SameStrings

LEMMA GameInvariant == GameSpec => []GameInv(game, m_game_history)
<1>1. GameInit => GameInv(game, m_game_history)
  BY NewGameIs, NewHistory DEF GameInit
<1>2. GameInv(game, m_game_history) /\ [GameNext]_vars => GameInv(game, m_game_history)'
  <2> SUFFICES ASSUME GameInv(game, m_game_history), [GameNext]_vars
               PROVE  GameInv(game', m_game_history')
    BY DEF GameInv, History, Entry, SamePosition, IsSeq, Remembers, Base, FollowsFrom
  <2>1. CASE UNCHANGED vars
    BY <2>1 DEF vars
  <2>2. ASSUME NEW c \in Colors, NEW v \in Points \cup {PASS, RESIGN}, PlayTextMove(c, v)
        PROVE  GameInv(game', m_game_history')
    <3>1. /\ game' = IF v = RESIGN THEN ToMove(game, c)
                     ELSE KoPlayMove(ToMove(game, c), c, v)
          /\ m_game_history' = Recorded(m_game_history, game')
          /\ v \in Points => StonesOf(game)[v] = EMPTY
      BY <2>2 DEF PlayTextMove, PlayMove, Record
    <3>2. QED
      BY <3>1, TextMoveStep
  <2>3. ASSUME NEW c \in Colors, Analyze(c)
        PROVE  GameInv(game', m_game_history')
    <3>1. game' = ToMove(game, c) /\ m_game_history' = m_game_history
      BY <2>3 DEF Analyze
    <3>2. Entry(game') /\ SamePosition(game', game)
      BY <3>1, ToMoveIs DEF GameInv
    <3>3. game'.m_movenum = game.m_movenum
      BY <3>2 DEF SamePosition
    <3>4. QED
      BY <3>1, <3>2, <3>3, SameTransitive DEF GameInv
  <2>4. ASSUME NEW stones \in 0 .. 1, PlaceFreeHandicap(stones)
        PROVE  GameInv(game', m_game_history')
    <3>1. PICK c : c = IF stones > 0 THEN WHITE ELSE BLACK
      OBVIOUS
    <3>2. /\ c \in Colors /\ game' = ToMove([game EXCEPT !.m_movenum = 0], c)
          /\ m_game_history' = <<game'>>
      BY <2>4, <3>1 DEF PlaceFreeHandicap, Colors
    <3>3. QED
      BY <3>2, HandicapStep
  <2>5. ASSUME NEW n \in 0 .. Len(m_game_history) - 1, GoTo(n)
        PROVE  GameInv(game', m_game_history')
    BY <2>5, GoToStep DEF GoTo, GameInv
  <2>6. /\ Len(m_game_history) \in Nat /\ Len(m_game_history) > 0
        /\ game.m_movenum \in 0 .. Len(m_game_history) - 1
    BY SeqIs DEF GameInv, History
  <2>7. CASE undo_move
    <3>1. game.m_movenum - 1 \in 0 .. Len(m_game_history) - 1 /\ GoTo(game.m_movenum - 1)
      BY <2>6, <2>7 DEF undo_move
    <3>2. QED
      BY <2>5, <3>1
  <2>8. CASE forward_move
    <3>1. game.m_movenum + 1 \in 0 .. Len(m_game_history) - 1 /\ GoTo(game.m_movenum + 1)
      BY <2>6, <2>8 DEF forward_move
    <3>2. QED
      BY <2>5, <3>1
  <2>9. CASE rewind
    BY <2>5, <2>6, <2>9 DEF rewind
  <2>10. CASE clear_board
    BY <2>10, NewGameIs, NewHistory DEF clear_board
  <2>11. QED
    BY <2>1, <2>2, <2>3, <2>4, <2>7, <2>8, <2>9, <2>10 DEF GameNext
<1>3. QED
  BY <1>1, <1>2, PTL DEF GameSpec

(* However moves were played, taken back, played forward again or replaced *)
(* by others, every entry of the record follows from the one before by the *)
(* move that it names, and the entry m_movenum is the present position     *)
(* (GameState::play_move(), undo_move(), forward_move(), rewind()).        *)
THEOREM RecordReplays == GameSpec => []HistoryReplays
<1>1. GameInv(game, m_game_history) => HistoryReplays
  <2> SUFFICES ASSUME GameInv(game, m_game_history)
               PROVE  HistoryReplays
    OBVIOUS
  <2>1. game.m_movenum < Len(m_game_history)
    BY SeqIs DEF GameInv, History
  <2>2. StonesOf(m_game_history[game.m_movenum + 1]) = StonesOf(game)
    BY DEF GameInv, SamePosition, SameStrings, StonesOf
  <2>3. \A n \in 1 .. Len(m_game_history) : m_game_history[n].m_movenum = n - 1
    BY DEF GameInv, History
  <2>4. \A n \in 2 .. Len(m_game_history) :
            FollowsFrom(m_game_history[n - 1], m_game_history[n])
    BY DEF GameInv, History
  <2>5. QED
    BY <2>1, <2>2, <2>3, <2>4 DEF HistoryReplays, FollowsFrom
<1>2. QED
  BY <1>1, GameInvariant, PTL

(* superko() compares hashes that each position carries along; it finds    *)
(* every earlier position of the game, whichever way through taken back    *)
(* moves led here, and where no handicap moved the beginning of the record *)
(* it finds no other (KoState::superko()).                                 *)
THEOREM SuperkoIsExact == GameSpec => []SuperkoExact
<1>1. GameInv(game, m_game_history) => SuperkoExact
  <2> SUFFICES ASSUME GameInv(game, m_game_history)
               PROVE  SuperkoExact
    OBVIOUS
  <2>1. PICK h : h = m_game_history
    OBVIOUS
  <2>2. PICK m : m = game.m_movenum
    OBVIOUS
  <2>3. PICK hashes : hashes = game.m_ko_hash_history
    OBVIOUS
  <2>4. /\ History(h) /\ m \in 0 .. Len(h) - 1 /\ Len(h) \in Nat /\ m \in Nat
        /\ m + 1 \in 1 .. Len(h) /\ SamePosition(game, h[m + 1])
    BY <2>1, <2>2, SeqIs DEF GameInv, History
  <2>5. /\ Entry(h[1]) /\ Remembers(h, m + 1)
    BY <2>4 DEF History
  <2>6. /\ Base(h) \in Nat /\ Base(h) > 0 /\ Len(hashes) = Base(h) + m
        /\ \A k \in 1 .. m + 1 : hashes[Base(h) + k - 1] = h[k].board.m_ko_hash
    <3>1. Base(h) \in Nat /\ Base(h) > 0
      BY <2>5, SeqIs DEF Base, Entry
    <3>2. hashes = h[m + 1].m_ko_hash_history
      BY <2>3, <2>4 DEF SamePosition
    <3>3. /\ Len(hashes) = Base(h) + (m + 1) - 1
          /\ \A k \in 1 .. m + 1 : hashes[Base(h) + k - 1] = h[k].board.m_ko_hash
      BY <2>5, <3>2 DEF Remembers
    <3>4. QED
      BY <2>4, <3>1, <3>3
  <2>7. ASSUME NEW e, NEW g, Entry(e), Entry(g)
        PROVE  StonesOf(e) = StonesOf(g) <=> e.board.m_ko_hash = g.board.m_ko_hash
    <3>1. /\ e.board.m_ko_hash = calc_ko_hash(e.board) /\ e.board.m_state \in [Points -> Contents]
          /\ g.board.m_ko_hash = calc_ko_hash(g.board) /\ g.board.m_state \in [Points -> Contents]
      BY <2>7, PositionIs DEF Entry, StateInv, HashesInv, RingsInv, Shape
    <3>2. ASSUME calc_ko_hash(e.board) = calc_ko_hash(g.board), NEW v \in Points
          PROVE  e.board.m_state[v] = g.board.m_state[v]
      <4>1. StoneKey(e.board.m_state[v], v) \in calc_ko_hash(g.board)
        BY <3>2 DEF calc_ko_hash
      <4>2. QED
        BY <4>1, StoneKeys DEF calc_ko_hash
    <3>3. QED
      BY <3>1, <3>2 DEF StonesOf, calc_ko_hash
  <2>8. Entry(game) /\ \A n \in 1 .. m : Entry(h[n])
    BY <2>4 DEF GameInv, History
  <2>9. ASSUME NEW n \in 1 .. m, StonesOf(game) = StonesOf(h[n])
        PROVE  superko(game)
    <3>1. hashes[Base(h) + n - 1] = game.board.m_ko_hash
      BY <2>4, <2>6, <2>7, <2>8, <2>9
    <3>2. Base(h) + n - 1 \in 1 .. Len(hashes) - 1
      BY <2>4, <2>6
    <3>3. QED
      BY <2>3, <3>1, <3>2 DEF superko
  <2>10. ASSUME Base(h) = 1, superko(game)
         PROVE  \E n \in 1 .. m : StonesOf(game) = StonesOf(h[n])
    <3>1. PICK n \in 1 .. Len(hashes) - 1 : hashes[n] = game.board.m_ko_hash
      BY <2>3, <2>10 DEF superko
    <3>2. n \in 1 .. m /\ hashes[n] = h[n].board.m_ko_hash
      BY <2>4, <2>6, <2>10
    <3>3. QED
      BY <2>7, <2>8, <3>1, <3>2
  <2>11. QED
    BY <2>1, <2>2, <2>9, <2>10 DEF SuperkoExact, Base
<1>2. QED
  BY <1>1, GameInvariant, PTL

============================================================================
