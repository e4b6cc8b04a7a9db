------------------------------ MODULE Network ------------------------------
(***************************************************************************)
(* Evaluations of positions (Network.cpp): search threads ask for          *)
(* get_output(), which looks in the cache, in the opening under each of    *)
(* the eight symmetries of the board, or else turns the position by a      *)
(* random symmetry, runs the network, turns the answer back and caches it. *)
(*                                                                         *)
(* A network's output at a point is the term <<features, point>>: it tells *)
(* for which input and for which point of that input it was computed.  A   *)
(* result is a policy, from each point to the terms it averages; winrate   *)
(* and pass, that no symmetry changes, and the planes of earlier positions *)
(* are left out.  A hash is the position itself: no collisions.            *)
(***************************************************************************)
EXTENDS NNCache

CONSTANTS
    Threads,                \* search threads
    Positions,              \* [stones, ko, tomove] the searches reach
    Opening,                \* those early enough for symmetric lookups
    BOARD_SIZE,
    TriedSymmetries,        \* the symmetries chosen at random or asked for
    Playouts,               \* playouts per move the program is started with
    CacheSizes,             \* the sizes a memory limit gives the cache
    None

NUM_SYMMETRIES == 8
IDENTITY_SYMMETRY == 0
Symmetries == 0 .. NUM_SYMMETRIES - 1

Coordinates == 0 .. BOARD_SIZE - 1
Points == Coordinates \X Coordinates
NoVertex == <<-1, -1>>

(***************************************************************************)
(* Symmetries: bit 4 swaps the axes, bit 2 mirrors x, bit 1 mirrors y.     *)
(***************************************************************************)
Swaps(s) == s \in 4 .. 7
FlipsX(s) == s \in {2, 3, 6, 7}
FlipsY(s) == s \in {1, 3, 5, 7}

get_symmetry(v, s) ==
    LET x == IF Swaps(s) THEN v[2] ELSE v[1]
        y == IF Swaps(s) THEN v[1] ELSE v[2]
    IN  <<IF FlipsX(s) THEN BOARD_SIZE - x - 1 ELSE x,
          IF FlipsY(s) THEN BOARD_SIZE - y - 1 ELSE y>>

\* The point that symmetry s takes to v.
Preimage(v, s) == CHOOSE p \in Points : get_symmetry(p, s) = v

\* The position whose hash get_symmetry_hash(s) computes: the stone at v is
\* hashed at the image of v, and so is the ko point.
SymmetryHash(p, s) ==
    [stones |-> [v \in Points |-> p.stones[Preimage(v, s)]],
     ko     |-> IF p.ko = NoVertex THEN NoVertex ELSE get_symmetry(p.ko, s),
     tomove |-> p.tomove]

\* gather_features(): the planes of the position seen under symmetry s.
Features(p, s) ==
    <<[v \in Points |-> p.stones[get_symmetry(v, s)]], p.tomove>>

\* get_output_internal(): outputs[v] goes to the image of v.
Direct(p, s) ==
    [v \in Points |-> {<<Features(p, s), Preimage(v, s)>>}]

\* Ensemble AVERAGE: each symmetry with an equal share.
Average(p) == [v \in Points |-> UNION {Direct(p, s)[v] : s \in Symmetries}]

\* Fault: the table is read the other way round.
Corrected_Inverse(policy, s) == [v \in Points |-> policy[Preimage(v, s)]]

\* A result found for the position turned by s, turned back.
Corrected(policy, s) == [v \in Points |-> policy[get_symmetry(v, s)]]

Evaluations(p) == {Direct(p, s) : s \in Symmetries} \cup {Average(p)}

ASSUME NetworkAssumption ==
    /\ BOARD_SIZE \in Nat \ {0}
    /\ TriedSymmetries \subseteq Symmetries
    /\ Playouts \in Nat
    /\ CacheSizes \subseteq Nat
    /\ Opening \subseteq Positions
    /\ None \notin Positions
    /\ Positions \subseteq Keys
    /\ \A p \in Positions : Evaluations(p) \subseteq Netresults

(***************************************************************************)
(* State                                                                   *)
(***************************************************************************)
VARIABLES
    state,          \* thread -> the position it evaluates, None when it has none
    sym,            \* thread -> the next symmetry to look up, when it probes;
                    \*   NUM_SYMMETRIES when it found nothing
    picked,         \* thread -> the symmetry it evaluates under, None before
    answer          \* <<position, result>> that get_output() last returned, or None

threadvars == <<state, sym, picked, answer>>
vars == <<m_cache, m_order, m_size, state, sym, picked, answer>>

TypeOK ==
    /\ CacheTypeOK
    /\ state \in [Threads -> Positions \cup {None}]
    /\ sym \in [Threads -> 0 .. NUM_SYMMETRIES]
    /\ picked \in [Threads -> Symmetries \cup {None}]
    /\ answer # None => answer[1] \in Positions

\* Network::initialize(): a first guess at the size of the cache.
Init ==
    /\ CacheInit(SizeFromPlayouts(Playouts))
    /\ state = [t \in Threads |-> None]
    /\ sym = [t \in Threads |-> 0]
    /\ picked = [t \in Threads |-> None]
    /\ answer = None

(***************************************************************************)
(* get_output(), called by a search thread                                 *)
(***************************************************************************)
GetOutput(t, p) ==
    /\ state[t] = None
    /\ state' = [state EXCEPT ![t] = p]
    /\ sym' = [sym EXCEPT ![t] = IDENTITY_SYMMETRY]
    /\ picked' = [picked EXCEPT ![t] = None]
    /\ UNCHANGED <<cachevars, answer>>

Return(t, r) ==
    /\ answer' = <<state[t], r>>
    /\ state' = [state EXCEPT ![t] = None]
    /\ sym' = [sym EXCEPT ![t] = 0]
    /\ picked' = [picked EXCEPT ![t] = None]

\* Fault: the loop over the symmetries goes on by one.
Probing_OneMore(t) == state[t] # None /\ sym[t] <= NUM_SYMMETRIES

Probing(t) == state[t] # None /\ sym[t] < NUM_SYMMETRIES

\* probe_cache(): one lookup under the cache's mutex.  Without symmetric
\* lookups the first miss is the last.
Probe(t) ==
    /\ Probing(t)
    /\ LET s == sym[t]
           key == IF s = IDENTITY_SYMMETRY THEN state[t] ELSE SymmetryHash(state[t], s)
       IN  IF Hit(key)
           THEN Return(t, IF s = IDENTITY_SYMMETRY THEN m_cache[key]
                          ELSE Corrected(m_cache[key], s))
           ELSE /\ sym' = [sym EXCEPT ![t] = IF state[t] \in Opening THEN s + 1
                                             ELSE NUM_SYMMETRIES]
                /\ UNCHANGED <<state, picked, answer>>
    /\ UNCHANGED cachevars

Forward(t) ==
    /\ state[t] # None
    /\ sym[t] = NUM_SYMMETRIES
    /\ picked[t] = None
    /\ \E s \in TriedSymmetries : picked' = [picked EXCEPT ![t] = s]
    /\ UNCHANGED <<cachevars, state, sym, answer>>

\* The network has answered: put the result in the cache and return it.
Evaluated(t) ==
    /\ picked[t] # None
    /\ Insert(state[t], Direct(state[t], picked[t]))
    /\ Return(t, Direct(state[t], picked[t]))

\* The search stops: forward() throws NetworkHaltException.
Halted(t) ==
    /\ picked[t] # None
    /\ state' = [state EXCEPT ![t] = None]
    /\ sym' = [sym EXCEPT ![t] = 0]
    /\ picked' = [picked EXCEPT ![t] = None]
    /\ UNCHANGED <<cachevars, answer>>

(***************************************************************************)
(* The main thread, between searches                                       *)
(***************************************************************************)
Quiet == \A t \in Threads : state[t] = None

\* "heatmap average" and "heatmap <symmetry>" read no cache but write it.
Heatmap(p) ==
    /\ Quiet
    /\ \/ \E s \in TriedSymmetries : Insert(p, Direct(p, s))
       \/ Insert(p, Average(p))
    /\ UNCHANGED threadvars

\* "clear_cache"
ClearCache ==
    /\ Quiet
    /\ Clear
    /\ UNCHANGED threadvars

\* set_max_memory(): a count below the minimum is refused.
SetMaxMemory(size) ==
    /\ Quiet
    /\ size >= MIN_CACHE_COUNT
    /\ Resize(size)
    /\ UNCHANGED threadvars

Next ==
    \/ \E t \in Threads, p \in Positions : GetOutput(t, p)
    \/ \E t \in Threads : Probe(t)
    \/ \E t \in Threads : Forward(t)
    \/ \E t \in Threads : Evaluated(t)
    \/ \E t \in Threads : Halted(t)
    \/ \E p \in Positions : Heatmap(p)
    \/ ClearCache
    \/ \E size \in CacheSizes : SetMaxMemory(size)

Spec == Init /\ [][Next]_vars

(***************************************************************************)
(* Properties                                                              *)
(***************************************************************************)

(* Whatever was turned, cached under another orientation, found again and  *)
(* turned back, a thread is given the evaluation of the very position it   *)
(* asked for under one of the symmetries, or their average: at every point *)
(* the network's output for that point.  The same holds of every entry of  *)
(* the cache (probe_cache(), get_output_internal(), get_symmetry_hash()).  *)
PolicyOriented ==
    /\ \A k \in DOMAIN m_cache : m_cache[k] \in Evaluations(k)
    /\ answer # None => answer[2] \in Evaluations(answer[1])
============================================================================
