------------------------------ MODULE NNCache ------------------------------
(***************************************************************************)
(* The evaluation cache (NNCache.cpp): a map from the hash of a position   *)
(* to its network result, and a queue with the keys in order of insertion, *)
(* out of which the oldest entry is dropped.  Each operation is one step:  *)
(* lookup() and insert() hold m_mutex, resize() and clear() hold nothing   *)
(* and are called when no thread evaluates (see Network).                  *)
(***************************************************************************)
EXTENDS Integers, Sequences, FiniteSets

CONSTANTS
    Keys,                   \* position hashes
    Netresults,             \* what the network can answer
    MAX_CACHE_COUNT,
    MIN_CACHE_COUNT,
    UNLIMITED_PLAYOUTS

ASSUME CacheAssumption ==
    /\ MIN_CACHE_COUNT \in Nat \ {0}
    /\ MAX_CACHE_COUNT \in Nat
    /\ MIN_CACHE_COUNT <= MAX_CACHE_COUNT
    /\ UNLIMITED_PLAYOUTS \in Nat

VARIABLES
    m_cache,                \* key -> result
    m_order,                \* the keys, oldest first
    m_size                  \* the most entries allowed

cachevars == <<m_cache, m_order, m_size>>

CacheTypeOK ==
    /\ DOMAIN m_cache \subseteq Keys
    /\ \A k \in DOMAIN m_cache : m_cache[k] \in Netresults
    /\ m_order \in Seq(Keys)
    /\ m_size \in Nat

Minimum(a, b) == IF a <= b THEN a ELSE b
Maximum(a, b) == IF a <= b THEN b ELSE a

\* The size for a number of playouts per move: entries for three moves.
SizeFromPlayouts(max_playouts) ==
    LET moves == 3
        perMove == Minimum(max_playouts, UNLIMITED_PLAYOUTS \div moves)
    IN  Minimum(MAX_CACHE_COUNT, Maximum(MIN_CACHE_COUNT, moves * perMove))

CacheInit(size) ==
    /\ m_cache = <<>>
    /\ m_order = <<>>
    /\ m_size = size

Hit(k) == k \in DOMAIN m_cache

KeysOf(q) == {q[i] : i \in 1 .. Len(q)}

\* A new entry goes to the end of the queue; one entry too many drops the
\* oldest one, which is the new one itself when m_size is 0.
Put(k, r) ==
    LET order == Append(m_order, k)
        cache == [x \in DOMAIN m_cache \cup {k} |-> IF x = k THEN r ELSE m_cache[x]]
    IN  /\ IF Len(order) > m_size
           THEN /\ m_order' = Tail(order)
                /\ m_cache' = [x \in DOMAIN cache \ {Head(order)} |-> cache[x]]
           ELSE m_order' = order /\ m_cache' = cache
        /\ UNCHANGED m_size

\* Fault: a key that is there is queued a second time.
Insert_Requeued(k, r) == Put(k, r)

\* insert(): a key that is there keeps its result.
Insert(k, r) ==
    \/ Hit(k) /\ UNCHANGED cachevars
    \/ ~Hit(k) /\ Put(k, r)

\* resize(): drop the oldest entries until the rest fits.
Resize(size) ==
    LET dropped == Maximum(0, Len(m_order) - size)
        oldest == {m_order[i] : i \in 1 .. dropped}
    IN  /\ m_size' = size
        /\ m_order' = SubSeq(m_order, dropped + 1, Len(m_order))
        /\ m_cache' = [k \in DOMAIN m_cache \ oldest |-> m_cache[k]]

Clear ==
    /\ m_cache' = <<>>
    /\ m_order' = <<>>
    /\ UNCHANGED m_size

(* The map and the queue hold the same keys, each of them once, and no     *)
(* more than m_size of them: insert() pops one entry at most, so that a    *)
(* key queued twice, or a queue left longer by resize(), would let the     *)
(* cache grow for ever or erase an entry under a thread that still counts  *)
(* on it to be the newest.                                                 *)
CacheOrdered ==
    /\ DOMAIN m_cache = KeysOf(m_order)
    /\ \A i, j \in 1 .. Len(m_order) : m_order[i] = m_order[j] => i = j
    /\ Len(m_order) <= m_size
============================================================================
