----------------------------- MODULE GameState -----------------------------
(***************************************************************************)
(* A game and its history (KoState.cpp, GameState.cpp), as the GTP         *)
(* commands, the SGF reader and the search use it.  m_game_history[n + 1]  *)
(* is the position after n moves, entries past m_movenum are moves that    *)
(* were taken back and may be played forward again.  Each position carries *)
(* the hashes of the positions before it, for the superko test.            *)
(*                                                                         *)
(* Left out: komi, handicap, clocks and the colour that resigned, values   *)
(* no move reads; fixed handicap points, which need a board of seven or    *)
(* more; set_passes(0) of "kgs-genmove_cleanup".                           *)
(***************************************************************************)
EXTENDS FullBoard

CONSTANTS
    MaxMoves,               \* bound: moves since the board was cleared
    MaxOutOfTurn            \* bound: out of turn are only moves among the first

ASSUME SmallBoard == BOARD_SIZE <= 4 /\ MaxMoves \in Nat /\ MaxOutOfTurn \in Nat

RESIGN == <<-2, -2>>

VARIABLES
    game,                   \* KoState: [board, m_komove, m_passes, m_lastmove,
                            \*           m_movenum, m_ko_hash_history]
    m_game_history          \* the positions of the record

vars == <<game, m_game_history>>

StonesOf(s) == s.board.m_state

\* What KoState::play_move() adds to a position after move v.
Numbered(p, v) ==
    [p EXCEPT !.m_lastmove = v,
              !.m_movenum = @ + 1,
              !.m_ko_hash_history = Append(@, p.board.m_ko_hash)]

KoPlayMove(s, c, v) == Numbered(play_move(s, c, v), v)

ToMove(s, c) == [s EXCEPT !.board = set_to_move(@, c)]

\* superko(): the position is one of those before it.
superko(s) ==
    \E i \in 1 .. Len(s.m_ko_hash_history) - 1 :
        s.m_ko_hash_history[i] = s.board.m_ko_hash

\* reset_game() and init_game() of KoState.
NewGame ==
    [board |-> reset_board, m_komove |-> NO_VERTEX, m_passes |-> 0,
     m_lastmove |-> NO_VERTEX, m_movenum |-> 0,
     m_ko_hash_history |-> <<reset_board.m_ko_hash>>]

\* resize(m_movenum): moves that were taken back are cut off.
CutOff(h, n) == SubSeq(h, 1, n)

\* Fault: moves that were taken back stay behind the new one.
Recorded_KeepsTail(h, s) ==
    IF Len(h) > s.m_movenum THEN [h EXCEPT ![s.m_movenum + 1] = s] ELSE Append(h, s)

\* The history with s as its last entry.
Recorded(h, s) == Append(CutOff(h, s.m_movenum), s)

GameInit ==
    /\ game = NewGame
    /\ m_game_history = <<NewGame>>

(***************************************************************************)
(* Moves                                                                   *)
(***************************************************************************)
OutOfTurn(c) == c = game.board.m_tomove \/ game.m_movenum < MaxOutOfTurn

Record(p) ==
    /\ game' = p
    /\ m_game_history' = Recorded(m_game_history, p)

\* GameState::play_move(color, vertex) on position s.
PlayMove(s, c, v) == Record(IF v = RESIGN THEN s ELSE KoPlayMove(s, c, v))

\* "play": play_textmove() refuses occupied points only.  "genmove" and
\* "set_free_handicap" do the same with one of these moves.
PlayTextMove(c, v) ==
    /\ Len(game.m_ko_hash_history) <= MaxMoves
    /\ v \in Points => StonesOf(game)[v] = EMPTY
    /\ OutOfTurn(c)
    /\ PlayMove(ToMove(game, c), c, v)

\* "lz-analyze": the colour to move changes, and no move is recorded.
Analyze(c) ==
    /\ OutOfTurn(c)
    /\ game' = ToMove(game, c)
    /\ UNCHANGED m_game_history

\* "place_free_handicap".  On a board of at most four no handicap is valid,
\* and min(9, stones) of the stones, which is all, count as placed anyway.
\* The present position, whatever was played before, begins the history.
PlaceFreeHandicap(stones) ==
    LET p == ToMove([game EXCEPT !.m_movenum = 0], IF stones > 0 THEN WHITE ELSE BLACK)
    IN  /\ game' = p
        /\ m_game_history' = <<p>>

(***************************************************************************)
(* Navigation                                                              *)
(***************************************************************************)
\* Fault: the hashes for the superko test stay those of the later position.
GoTo_KoHashesKept(n) ==
    /\ game' = [m_game_history[n + 1] EXCEPT !.m_ko_hash_history = game.m_ko_hash_history]
    /\ UNCHANGED m_game_history

GoTo(n) ==
    /\ game' = m_game_history[n + 1]
    /\ UNCHANGED m_game_history

undo_move ==
    /\ game.m_movenum > 0
    /\ GoTo(game.m_movenum - 1)

forward_move ==
    /\ Len(m_game_history) > game.m_movenum + 1
    /\ GoTo(game.m_movenum + 1)

rewind == GoTo(0)

\* "clear_board" and "boardsize"
clear_board ==
    /\ game' = NewGame
    /\ m_game_history' = <<NewGame>>

GameNext ==
    \/ \E c \in Colors, v \in Points \cup {PASS, RESIGN} : PlayTextMove(c, v)
    \/ \E c \in Colors : Analyze(c)
    \/ \E stones \in 0 .. 1 : PlaceFreeHandicap(stones)
    \/ undo_move
    \/ forward_move
    \/ rewind
    \/ clear_board

GameSpec == GameInit /\ [][GameNext]_vars

(***************************************************************************)
(* Properties                                                              *)
(***************************************************************************)
Agrees(p, entry) ==
    /\ StonesOf(p) = StonesOf(entry)
    /\ p.m_komove = entry.m_komove
    /\ p.m_ko_hash_history = entry.m_ko_hash_history

(* The history is a game: each entry follows from the one before by the    *)
(* move it names, its number is its place, and the position that is played *)
(* on is the entry m_movenum.  get_past_board(), from which the planes of  *)
(* the network's input are taken, and "move_history" read the entries and  *)
(* never the position itself (GameState::play_move(), undo_move()).        *)
HistoryReplays ==
    /\ game.m_movenum < Len(m_game_history)
    /\ StonesOf(m_game_history[game.m_movenum + 1]) = StonesOf(game)
    /\ \A n \in 1 .. Len(m_game_history) : m_game_history[n].m_movenum = n - 1
    /\ \A n \in 2 .. Len(m_game_history) :
           LET after == m_game_history[n]
           IN  \E c \in Colors :
                   Agrees(KoPlayMove(m_game_history[n - 1], c, after.m_lastmove), after)

(* superko() sees every earlier position of the game however one came to   *)
(* the present one, through moves taken back and played again too; and     *)
(* when no handicap moved its beginning it sees no other                   *)
(* (KoState::superko()).                                                   *)
SuperkoExact ==
    LET earlier == {StonesOf(m_game_history[n]) : n \in 1 .. game.m_movenum}
    IN  /\ StonesOf(game) \in earlier => superko(game)
        /\ Len(m_game_history[1].m_ko_hash_history) = 1 /\ superko(game) =>
               StonesOf(game) \in earlier
============================================================================
