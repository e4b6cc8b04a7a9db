--------------------------- MODULE NetworkProofs ---------------------------
(***************************************************************************)
(* For every board size, cache size and number of threads: the cache's map *)
(* and queue agree, and every answer is an evaluation of the position that *)
(* was asked for.  The second rests on the eight symmetries being a group. *)
(***************************************************************************)
EXTENDS Network, TLAPS

(***************************************************************************)
(* The symmetries of the board                                             *)
(***************************************************************************)

\* A symmetry maps the board into itself.
LEMMA SymmetryOnBoard ==
    ASSUME NEW v \in Points, NEW s \in Symmetries
    PROVE  get_symmetry(v, s) \in Points
  <1>1. PICK x \in Coordinates, y \in Coordinates : v = <<x, y>>
    BY DEF Points
  <1>2. BOARD_SIZE - x - 1 \in Coordinates /\ BOARD_SIZE - y - 1 \in Coordinates
    BY NetworkAssumption DEF Coordinates
  <1> QED BY <1>1, <1>2 DEF get_symmetry, Points

\* Every choice of the three bits is a symmetry.
LEMMA EveryBits ==
    ASSUME NEW a \in BOOLEAN, NEW b \in BOOLEAN, NEW c \in BOOLEAN
    PROVE  \E u \in Symmetries : (Swaps(u) <=> a) /\ (FlipsX(u) <=> b) /\ (FlipsY(u) <=> c)
  <1> DEFINE bits(u) == /\ Swaps(u) <=> u \in {4, 5, 6, 7}
                        /\ FlipsX(u) <=> u \in {2, 3, 6, 7}
                        /\ FlipsY(u) <=> u \in {1, 3, 5, 7}
  <1>1. \A u \in Symmetries : bits(u)
    BY DEF Swaps, FlipsX, FlipsY, Symmetries, NUM_SYMMETRIES
  <1>2. 0 \in Symmetries /\ 1 \in Symmetries /\ 2 \in Symmetries /\ 3 \in Symmetries
    BY DEF Symmetries, NUM_SYMMETRIES
  <1>3. 4 \in Symmetries /\ 5 \in Symmetries /\ 6 \in Symmetries /\ 7 \in Symmetries
    BY DEF Symmetries, NUM_SYMMETRIES
  <1>4. CASE a /\ b
    <2>1. CASE c  BY <1>1, <1>3, <1>4, <2>1
    <2>2. CASE ~c  BY <1>1, <1>3, <1>4, <2>2
    <2> QED BY <2>1, <2>2
  <1>5. CASE a /\ ~b
    <2>1. CASE c  BY <1>1, <1>3, <1>5, <2>1
    <2>2. CASE ~c  BY <1>1, <1>3, <1>5, <2>2
    <2> QED BY <2>1, <2>2
  <1>6. CASE ~a /\ b
    <2>1. CASE c  BY <1>1, <1>2, <1>6, <2>1
    <2>2. CASE ~c  BY <1>1, <1>2, <1>6, <2>2
    <2> QED BY <2>1, <2>2
  <1>7. CASE ~a /\ ~b
    <2>1. CASE c  BY <1>1, <1>2, <1>7, <2>1
    <2>2. CASE ~c  BY <1>1, <1>2, <1>7, <2>2
    <2> QED BY <2>1, <2>2
  <1> QED BY <1>4, <1>5, <1>6, <1>7

\* One symmetry after another is a symmetry.
LEMMA Composition ==
    ASSUME NEW s \in Symmetries, NEW t \in Symmetries
    PROVE  \E u \in Symmetries : \A v \in Points :
               get_symmetry(get_symmetry(v, s), t) = get_symmetry(v, u)
  <1> DEFINE a == ~(Swaps(s) <=> Swaps(t))
             b == ~(FlipsX(t) <=> (IF Swaps(t) THEN FlipsY(s) ELSE FlipsX(s)))
             c == ~(FlipsY(t) <=> (IF Swaps(t) THEN FlipsX(s) ELSE FlipsY(s)))
  <1>1. PICK u \in Symmetries : (Swaps(u) <=> a) /\ (FlipsX(u) <=> b) /\ (FlipsY(u) <=> c)
    <2>1. a \in BOOLEAN /\ b \in BOOLEAN /\ c \in BOOLEAN
      BY DEF Swaps, FlipsX, FlipsY
    <2> HIDE DEF a, b, c
    <2> QED BY <2>1, EveryBits
  <1>2. ASSUME NEW v \in Points
        PROVE  get_symmetry(get_symmetry(v, s), t) = get_symmetry(v, u)
    <2>1. PICK x \in Coordinates, y \in Coordinates : v = <<x, y>>
      BY DEF Points
    <2>2. BOARD_SIZE \in Int /\ x \in Int /\ y \in Int
      BY NetworkAssumption DEF Coordinates
    <2>3. CASE Swaps(t)
      BY <1>1, <2>1, <2>2, <2>3 DEF get_symmetry
    <2>4. CASE ~Swaps(t)
      BY <1>1, <2>1, <2>2, <2>4 DEF get_symmetry
    <2> QED BY <2>3, <2>4
  <1> QED BY <1>2

\* Every symmetry has an inverse, which is one of them.
LEMMA InverseSymmetry ==
    ASSUME NEW s \in Symmetries
    PROVE  \E u \in Symmetries : \A v \in Points :
               /\ get_symmetry(get_symmetry(v, s), u) = v
               /\ get_symmetry(get_symmetry(v, u), s) = v
  <1> DEFINE b == (Swaps(s) /\ FlipsY(s)) \/ (~Swaps(s) /\ FlipsX(s))
             c == (Swaps(s) /\ FlipsX(s)) \/ (~Swaps(s) /\ FlipsY(s))
  <1>1. PICK u \in Symmetries :
            (Swaps(u) <=> Swaps(s)) /\ (FlipsX(u) <=> b) /\ (FlipsY(u) <=> c)
    <2>1. Swaps(s) \in BOOLEAN /\ b \in BOOLEAN /\ c \in BOOLEAN
      BY DEF Swaps, FlipsX, FlipsY
    <2> HIDE DEF b, c
    <2> QED BY <2>1, EveryBits
  <1>2. ASSUME NEW v \in Points
        PROVE  /\ get_symmetry(get_symmetry(v, s), u) = v
               /\ get_symmetry(get_symmetry(v, u), s) = v
    <2>1. PICK x \in Coordinates, y \in Coordinates : v = <<x, y>>
      BY DEF Points
    <2>2. BOARD_SIZE \in Int /\ x \in Int /\ y \in Int
      BY NetworkAssumption DEF Coordinates
    <2>3. CASE Swaps(s)
      BY <1>1, <2>1, <2>2, <2>3 DEF get_symmetry
    <2>4. CASE ~Swaps(s)
      BY <1>1, <2>1, <2>2, <2>4 DEF get_symmetry
    <2> QED BY <2>3, <2>4
  <1> QED BY <1>2

\* The preimage is a point, and the only one.
LEMMA PreimageIs ==
    ASSUME NEW v \in Points, NEW s \in Symmetries
    PROVE  /\ Preimage(v, s) \in Points
           /\ get_symmetry(Preimage(v, s), s) = v
           /\ \A p \in Points : get_symmetry(p, s) = v => Preimage(v, s) = p
  <1>1. PICK u \in Symmetries : \A p \in Points :
            /\ get_symmetry(get_symmetry(p, s), u) = p
            /\ get_symmetry(get_symmetry(p, u), s) = p
    BY InverseSymmetry
  <1>2. get_symmetry(v, u) \in Points /\ get_symmetry(get_symmetry(v, u), s) = v
    BY <1>1, SymmetryOnBoard
  <1>3. Preimage(v, s) \in Points /\ get_symmetry(Preimage(v, s), s) = v
    BY <1>2 DEF Preimage
  <1>4. ASSUME NEW p \in Points, get_symmetry(p, s) = v
        PROVE  Preimage(v, s) = p
    BY <1>1, <1>3, <1>4
  <1> QED BY <1>3, <1>4

\* Seen under t, the position turned by s is the position seen under u.
LEMMA FeaturesTurned ==
    ASSUME NEW p, NEW s \in Symmetries, NEW t \in Symmetries, NEW u \in Symmetries,
           \A v \in Points : get_symmetry(get_symmetry(v, u), s) = get_symmetry(v, t)
    PROVE  Features(SymmetryHash(p, s), t) = Features(p, u)
  <1>1. ASSUME NEW v \in Points
        PROVE  SymmetryHash(p, s).stones[get_symmetry(v, t)] = p.stones[get_symmetry(v, u)]
    <2>1. get_symmetry(v, t) \in Points /\ get_symmetry(v, u) \in Points
      BY SymmetryOnBoard
    <2>2. Preimage(get_symmetry(v, t), s) = get_symmetry(v, u)
      BY <2>1, PreimageIs
    <2>3. SymmetryHash(p, s).stones[get_symmetry(v, t)]
              = p.stones[Preimage(get_symmetry(v, t), s)]
      BY <2>1 DEF SymmetryHash
    <2> QED BY <2>2, <2>3
  <1>2. SymmetryHash(p, s).tomove = p.tomove
    BY DEF SymmetryHash
  <1>3. [v \in Points |-> SymmetryHash(p, s).stones[get_symmetry(v, t)]]
            = [v \in Points |-> p.stones[get_symmetry(v, u)]]
    BY <1>1
  <1> QED BY <1>2, <1>3 DEF Features

\* Its evaluation under t, turned back, is that of the position under u.
LEMMA DirectTurnedBack ==
    ASSUME NEW p, NEW s \in Symmetries, NEW t \in Symmetries, NEW u \in Symmetries,
           \A v \in Points : get_symmetry(get_symmetry(v, u), s) = get_symmetry(v, t)
    PROVE  \A v \in Points : Direct(SymmetryHash(p, s), t)[get_symmetry(v, s)] = Direct(p, u)[v]
  <1> TAKE v \in Points
  <1>1. get_symmetry(v, s) \in Points
    BY SymmetryOnBoard
  <1>2. Preimage(get_symmetry(v, s), t) = Preimage(v, u)
    <2>1. Preimage(v, u) \in Points /\ get_symmetry(Preimage(v, u), u) = v
      BY PreimageIs
    <2>2. get_symmetry(Preimage(v, u), t) = get_symmetry(v, s)
      BY <2>1
    <2> QED BY <1>1, <2>1, <2>2, PreimageIs
  <1>3. Features(SymmetryHash(p, s), t) = Features(p, u)
    BY FeaturesTurned
  <1>4. Direct(SymmetryHash(p, s), t)[get_symmetry(v, s)]
            = {<<Features(SymmetryHash(p, s), t), Preimage(get_symmetry(v, s), t)>>}
    BY <1>1 DEF Direct
  <1>5. Direct(p, u)[v] = {<<Features(p, u), Preimage(v, u)>>}
    BY DEF Direct
  <1> QED BY <1>2, <1>3, <1>4, <1>5

\* For every t there is such a u, and for every u such a t.
LEMMA Partner ==
    ASSUME NEW s \in Symmetries
    PROVE  /\ \A u \in Symmetries : \E t \in Symmetries : \A v \in Points :
                 get_symmetry(get_symmetry(v, u), s) = get_symmetry(v, t)
           /\ \A t \in Symmetries : \E u \in Symmetries : \A v \in Points :
                 get_symmetry(get_symmetry(v, u), s) = get_symmetry(v, t)
  <1>1. \A u \in Symmetries : \E t \in Symmetries : \A v \in Points :
            get_symmetry(get_symmetry(v, u), s) = get_symmetry(v, t)
    BY Composition
  <1>2. ASSUME NEW t \in Symmetries
        PROVE  \E u \in Symmetries : \A v \in Points :
                   get_symmetry(get_symmetry(v, u), s) = get_symmetry(v, t)
    <2>1. PICK i \in Symmetries : \A v \in Points :
              /\ get_symmetry(get_symmetry(v, s), i) = v
              /\ get_symmetry(get_symmetry(v, i), s) = v
      BY InverseSymmetry
    <2>2. PICK u \in Symmetries : \A v \in Points :
              get_symmetry(get_symmetry(v, t), i) = get_symmetry(v, u)
      BY Composition
    <2>3. \A v \in Points : get_symmetry(get_symmetry(v, u), s) = get_symmetry(v, t)
      BY <2>1, <2>2, SymmetryOnBoard
    <2> QED BY <2>3
  <1> QED BY <1>1, <1>2

\* What a symmetric lookup returns is an evaluation of the position itself
\* (probe_cache()).
THEOREM TurnedBack ==
    ASSUME NEW p, NEW s \in Symmetries, NEW r \in Evaluations(SymmetryHash(p, s))
    PROVE  Corrected(r, s) \in Evaluations(p)
  <1> DEFINE q == SymmetryHash(p, s)
  <1> HIDE DEF q
  <1>1. CASE \E t \in Symmetries : r = Direct(q, t)
    <2>1. PICK t \in Symmetries : r = Direct(q, t)
      BY <1>1
    <2>2. PICK u \in Symmetries : \A v \in Points :
              get_symmetry(get_symmetry(v, u), s) = get_symmetry(v, t)
      BY Partner
    <2>3. \A v \in Points : Direct(q, t)[get_symmetry(v, s)] = Direct(p, u)[v]
      BY <2>2, DirectTurnedBack DEF q
    <2>4. Corrected(r, s) = [v \in Points |-> Direct(p, u)[v]]
      BY <2>1, <2>3 DEF Corrected
    <2>5. Direct(p, u) = [v \in Points |-> Direct(p, u)[v]]
      BY DEF Direct
    <2> QED BY <2>4, <2>5 DEF Evaluations
  <1>2. CASE r = Average(q)
    <2>1. ASSUME NEW v \in Points
          PROVE  Average(q)[get_symmetry(v, s)] = Average(p)[v]
      <3>1. get_symmetry(v, s) \in Points
        BY SymmetryOnBoard
      <3>2. Average(q)[get_symmetry(v, s)]
                = UNION {Direct(q, t)[get_symmetry(v, s)] : t \in Symmetries}
        BY <3>1 DEF Average
      <3>3. Average(p)[v] = UNION {Direct(p, u)[v] : u \in Symmetries}
        BY DEF Average
      <3> DEFINE turned == {Direct(q, t)[get_symmetry(v, s)] : t \in Symmetries}
                 own == {Direct(p, u)[v] : u \in Symmetries}
      <3>4. ASSUME NEW t \in Symmetries
            PROVE  Direct(q, t)[get_symmetry(v, s)] \in own
        <4>1. PICK u \in Symmetries : \A w \in Points :
                  get_symmetry(get_symmetry(w, u), s) = get_symmetry(w, t)
          BY Partner
        <4>2. Direct(q, t)[get_symmetry(v, s)] = Direct(p, u)[v]
          BY <4>1, DirectTurnedBack DEF q
        <4> QED BY <4>2
      <3>5. ASSUME NEW u \in Symmetries
            PROVE  Direct(p, u)[v] \in turned
        <4>1. PICK t \in Symmetries : \A w \in Points :
                  get_symmetry(get_symmetry(w, u), s) = get_symmetry(w, t)
          BY Partner
        <4>2. Direct(q, t)[get_symmetry(v, s)] = Direct(p, u)[v]
          BY <4>1, DirectTurnedBack DEF q
        <4> QED BY <4>2
      <3>6. turned = own
        BY <3>4, <3>5
      <3> QED BY <3>2, <3>3, <3>6
    <2>2. Corrected(r, s) = Average(p)
      BY <1>2, <2>1 DEF Corrected, Average
    <2> QED BY <2>2 DEF Evaluations
  <1> QED BY <1>1, <1>2 DEF Evaluations, q

(***************************************************************************)
(* The cache                                                               *)
(***************************************************************************)

\* A size guessed from the playouts is within the limits of the cache.
LEMMA GuessedSize ==
    ASSUME NEW n \in Nat
    PROVE  /\ SizeFromPlayouts(n) \in Nat
           /\ MIN_CACHE_COUNT <= SizeFromPlayouts(n)
           /\ SizeFromPlayouts(n) <= MAX_CACHE_COUNT
  <1>1. UNLIMITED_PLAYOUTS \div 3 \in Nat
    BY CacheAssumption
  <1>2. Minimum(n, UNLIMITED_PLAYOUTS \div 3) \in Nat
    BY <1>1 DEF Minimum
  <1> QED BY <1>2, CacheAssumption DEF SizeFromPlayouts, Minimum, Maximum

CacheInv ==
    /\ m_order \in Seq(Keys)
    /\ m_size \in Nat
    /\ CacheOrdered

\* Each operation keeps the map and the queue alike, whatever the result.
LEMMA InsertOrdered ==
    ASSUME CacheInv, NEW k \in Keys, NEW r, Insert(k, r)
    PROVE  CacheInv'
  <1> USE DEF CacheInv, CacheOrdered
  <1>1. CASE Hit(k)
    BY <1>1 DEF Insert, KeysOf, cachevars
  <1>2. CASE ~Hit(k)
    <2> DEFINE order == Append(m_order, k)
               cache == [x \in DOMAIN m_cache \cup {k} |-> IF x = k THEN r ELSE m_cache[x]]
    <2>1. /\ order \in Seq(Keys)
          /\ Len(order) = Len(m_order) + 1
          /\ \A i \in 1 .. Len(m_order) : order[i] = m_order[i]
          /\ order[Len(order)] = k
      OBVIOUS
    <2>2. \A i, j \in 1 .. Len(order) : order[i] = order[j] => i = j
      <3>1. \A i \in 1 .. Len(m_order) : m_order[i] # k
        BY <1>2 DEF Hit, KeysOf
      <3> QED BY <2>1, <3>1
    <2>3. KeysOf(order) = DOMAIN m_cache \cup {k}
      <3>1. KeysOf(order) \subseteq DOMAIN m_cache \cup {k}
        BY <2>1 DEF KeysOf
      <3>2. DOMAIN m_cache \cup {k} \subseteq KeysOf(order)
        BY <2>1 DEF KeysOf
      <3> QED BY <3>1, <3>2
    <2> HIDE DEF order
    <2>4. m_size' = m_size
      BY <1>2 DEF Insert, Put
    <2>5. CASE Len(order) > m_size
      <3>1. m_order' = Tail(order) /\ DOMAIN m_cache' = (DOMAIN m_cache \cup {k}) \ {Head(order)}
        BY <1>2, <2>5 DEF Insert, Put, order
      <3>2. /\ Head(order) = order[1]
            /\ Len(m_order') = Len(order) - 1
            /\ m_order' \in Seq(Keys)
            /\ \A i \in 1 .. Len(m_order') : m_order'[i] = order[i + 1]
        BY <2>1, <3>1
      <3>3. \A i, j \in 1 .. Len(m_order') : m_order'[i] = m_order'[j] => i = j
        BY <2>1, <2>2, <3>2
      <3>4. KeysOf(m_order') = KeysOf(order) \ {order[1]}
        <4>1. ASSUME NEW x \in KeysOf(m_order')
              PROVE  x \in KeysOf(order) \ {order[1]}
          <5>1. PICK i \in 1 .. Len(m_order') : x = m_order'[i]
            BY <4>1 DEF KeysOf
          <5>2. i + 1 \in 1 .. Len(order) /\ x = order[i + 1] /\ i + 1 # 1
            BY <2>1, <3>2, <5>1
          <5> QED BY <2>1, <2>2, <5>2 DEF KeysOf
        <4>2. ASSUME NEW x \in KeysOf(order) \ {order[1]}
              PROVE  x \in KeysOf(m_order')
          <5>1. PICK i \in 1 .. Len(order) : x = order[i]
            BY DEF KeysOf
          <5>2. i # 1 /\ i - 1 \in 1 .. Len(m_order') /\ m_order'[i - 1] = x
            BY <2>1, <3>2, <4>2, <5>1
          <5> QED BY <5>2 DEF KeysOf
        <4> QED BY <4>1, <4>2
      <3>5. DOMAIN m_cache' = KeysOf(m_order')
        BY <2>3, <3>1, <3>2, <3>4
      <3>6. Len(m_order') <= m_size'
        BY <2>1, <2>4, <3>2
      <3> QED BY <2>4, <3>2, <3>3, <3>5, <3>6
    <2>6. CASE ~(Len(order) > m_size)
      <3>1. m_order' = order /\ DOMAIN m_cache' = DOMAIN m_cache \cup {k}
        BY <1>2, <2>6 DEF Insert, Put, order
      <3> QED BY <2>1, <2>2, <2>3, <2>4, <2>6, <3>1
    <2> QED BY <2>5, <2>6
  <1> QED BY <1>1, <1>2

LEMMA ResizeOrdered ==
    ASSUME CacheInv, NEW size \in Nat, Resize(size)
    PROVE  CacheInv'
  <1> USE DEF CacheInv, CacheOrdered
  <1> DEFINE d == Maximum(0, Len(m_order) - size)
             oldest == {m_order[i] : i \in 1 .. d}
  <1>1. d \in Nat /\ d <= Len(m_order) /\ Len(m_order) - d <= size
    BY DEF Maximum
  <1>2. /\ m_size' = size
        /\ m_order' = SubSeq(m_order, d + 1, Len(m_order))
        /\ DOMAIN m_cache' = DOMAIN m_cache \ oldest
    BY DEF Resize
  <1> HIDE DEF d
  <1>3. /\ m_order' \in Seq(Keys)
        /\ Len(m_order') = Len(m_order) - d
        /\ \A i \in 1 .. Len(m_order') : m_order'[i] = m_order[i + d]
    BY <1>1, <1>2
  <1>4. \A i, j \in 1 .. Len(m_order') : m_order'[i] = m_order'[j] => i = j
    BY <1>1, <1>3
  <1>5. ASSUME NEW x
        PROVE  x \in KeysOf(m_order') <=> x \in KeysOf(m_order) /\ x \notin oldest
    <2>1. ASSUME x \in KeysOf(m_order')
          PROVE  x \in KeysOf(m_order) /\ x \notin oldest
      <3>1. PICK i \in 1 .. Len(m_order') : x = m_order'[i]
        BY <2>1 DEF KeysOf
      <3>2. i + d \in 1 .. Len(m_order) /\ x = m_order[i + d]
        BY <1>1, <1>3, <3>1
      <3>3. \A j \in 1 .. d : m_order[j] # x
        BY <1>1, <3>1, <3>2
      <3> QED BY <3>2, <3>3 DEF KeysOf
    <2>2. ASSUME x \in KeysOf(m_order), x \notin oldest
          PROVE  x \in KeysOf(m_order')
      <3>1. PICK j \in 1 .. Len(m_order) : x = m_order[j]
        BY <2>2 DEF KeysOf
      <3>2. j > d
        BY <1>1, <2>2, <3>1
      <3>3. j - d \in 1 .. Len(m_order') /\ m_order'[j - d] = x
        BY <1>1, <1>3, <3>1, <3>2
      <3> QED BY <3>3 DEF KeysOf
    <2> QED BY <2>1, <2>2
  <1>6. DOMAIN m_cache' = KeysOf(m_order')
    BY <1>2, <1>5
  <1> QED BY <1>1, <1>2, <1>3, <1>4, <1>6

LEMMA ClearOrdered ==
    ASSUME CacheInv, Clear
    PROVE  CacheInv'
  BY DEF CacheInv, CacheOrdered, Clear, KeysOf

\* Each operation leaves results only under the positions they are of.
EntriesOriented == \A k \in DOMAIN m_cache : m_cache[k] \in Evaluations(k)

LEMMA InsertOriented ==
    ASSUME EntriesOriented, NEW k, NEW r \in Evaluations(k), Insert(k, r)
    PROVE  EntriesOriented' /\ DOMAIN m_cache' \subseteq DOMAIN m_cache \cup {k}
  <1> DEFINE cache == [x \in DOMAIN m_cache \cup {k} |-> IF x = k THEN r ELSE m_cache[x]]
  <1>1. \A x \in DOMAIN cache : cache[x] \in Evaluations(x)
    BY DEF EntriesOriented
  <1>2. DOMAIN cache = DOMAIN m_cache \cup {k}
    OBVIOUS
  <1>3. \/ m_cache' = m_cache
        \/ m_cache' = cache
        \/ m_cache' = [x \in DOMAIN cache \ {Head(Append(m_order, k))} |-> cache[x]]
    BY DEF Insert, Put, cachevars
  <1> HIDE DEF cache
  <1> QED BY <1>1, <1>2, <1>3 DEF EntriesOriented

LEMMA RestOriented ==
    ASSUME EntriesOriented, Clear \/ \E size \in CacheSizes : Resize(size)
    PROVE  EntriesOriented' /\ DOMAIN m_cache' \subseteq DOMAIN m_cache
  <1>1. CASE Clear
    BY <1>1 DEF Clear, EntriesOriented
  <1>2. ASSUME NEW size \in CacheSizes, Resize(size)
        PROVE  EntriesOriented' /\ DOMAIN m_cache' \subseteq DOMAIN m_cache
    <2>1. PICK oldest : m_cache' = [k \in DOMAIN m_cache \ oldest |-> m_cache[k]]
      BY <1>2 DEF Resize
    <2> QED BY <2>1 DEF EntriesOriented
  <1> QED BY <1>1, <1>2

(***************************************************************************)
(* The network front end                                                   *)
(***************************************************************************)

ThreadsOK ==
    /\ state \in [Threads -> Positions \cup {None}]
    /\ sym \in [Threads -> 0 .. NUM_SYMMETRIES]
    /\ picked \in [Threads -> Symmetries \cup {None}]
    /\ \A t \in Threads : picked[t] # None => state[t] # None

AnswerOK == answer # None => answer[1] \in Positions /\ answer[2] \in Evaluations(answer[1])

IInv ==
    /\ CacheInv
    /\ EntriesOriented
    /\ DOMAIN m_cache \subseteq Positions
    /\ ThreadsOK
    /\ AnswerOK

LEMMA InitIInv == Init => IInv
  <1> SUFFICES ASSUME Init PROVE IInv
    OBVIOUS
  <1>1. m_cache = <<>> /\ m_order = <<>> /\ m_size \in Nat
    BY GuessedSize, NetworkAssumption DEF Init, CacheInit
  <1>2. CacheInv
    BY <1>1 DEF CacheInv, CacheOrdered, KeysOf
  <1>3. EntriesOriented /\ DOMAIN m_cache \subseteq Positions
    BY <1>1 DEF EntriesOriented
  <1>4. ThreadsOK
    BY DEF Init, ThreadsOK, NUM_SYMMETRIES
  <1>5. AnswerOK
    BY DEF Init, AnswerOK
  <1> QED BY <1>2, <1>3, <1>4, <1>5 DEF IInv

\* What get_output() hands to its caller.
LEMMA ReturnOK ==
    ASSUME ThreadsOK, NEW t \in Threads, state[t] # None,
           NEW r \in Evaluations(state[t]), Return(t, r)
    PROVE  ThreadsOK' /\ AnswerOK'
  BY DEF ThreadsOK, AnswerOK, Return, NUM_SYMMETRIES

\* The invariant is inductive.
LEMMA StepIInv == IInv /\ [Next]_vars => IInv'
  <1> SUFFICES ASSUME IInv, [Next]_vars PROVE IInv'
    OBVIOUS
  <1>0. /\ CacheInv /\ EntriesOriented /\ DOMAIN m_cache \subseteq Positions
        /\ ThreadsOK /\ AnswerOK
    BY DEF IInv
  <1>c. ASSUME UNCHANGED cachevars
        PROVE  CacheInv' /\ EntriesOriented' /\ (DOMAIN m_cache \subseteq Positions)'
    BY <1>0, <1>c DEF cachevars, CacheInv, CacheOrdered, KeysOf, EntriesOriented
  <1>t. ASSUME UNCHANGED threadvars
        PROVE  ThreadsOK' /\ AnswerOK'
    BY <1>0, <1>t DEF threadvars, ThreadsOK, AnswerOK
  <1>1. ASSUME NEW t \in Threads, NEW p \in Positions, GetOutput(t, p)
        PROVE  IInv'
    <2>1. ThreadsOK' /\ AnswerOK'
      BY <1>0, <1>1 DEF GetOutput, ThreadsOK, AnswerOK, NUM_SYMMETRIES, IDENTITY_SYMMETRY
    <2> QED BY <1>1, <1>c, <2>1 DEF GetOutput, IInv
  <1>2. ASSUME NEW t \in Threads, Probe(t)
        PROVE  IInv'
    <2> DEFINE s == sym[t]
               key == IF s = IDENTITY_SYMMETRY THEN state[t] ELSE SymmetryHash(state[t], s)
               r == IF s = IDENTITY_SYMMETRY THEN m_cache[key] ELSE Corrected(m_cache[key], s)
    <2>1. state[t] # None /\ s \in Symmetries /\ UNCHANGED cachevars
      BY <1>0, <1>2 DEF Probe, Probing, ThreadsOK, Symmetries, NUM_SYMMETRIES
    <2>2. CASE Hit(key)
      <3>1. m_cache[key] \in Evaluations(key)
        BY <1>0, <2>2 DEF Hit, EntriesOriented
      <3>2. r \in Evaluations(state[t])
        BY <2>1, <3>1, TurnedBack
      <3>3. Return(t, r)
        BY <1>2, <2>2 DEF Probe
      <3>4. ThreadsOK' /\ AnswerOK'
        BY <1>0, <2>1, <3>2, <3>3, ReturnOK
      <3> QED BY <1>c, <2>1, <3>4 DEF IInv
    <2>3. CASE ~Hit(key)
      <3>1. /\ sym' = [sym EXCEPT ![t] = IF state[t] \in Opening THEN s + 1 ELSE NUM_SYMMETRIES]
            /\ UNCHANGED <<state, picked, answer>>
        BY <1>2, <2>3 DEF Probe
      <3>2. ThreadsOK' /\ AnswerOK'
        BY <1>0, <2>1, <3>1 DEF ThreadsOK, AnswerOK, Symmetries, NUM_SYMMETRIES
      <3> QED BY <1>c, <2>1, <3>2 DEF IInv
    <2> QED BY <2>2, <2>3
  <1>3. ASSUME NEW t \in Threads, Forward(t)
        PROVE  IInv'
    <2>1. PICK s \in Symmetries : picked' = [picked EXCEPT ![t] = s]
      BY <1>3, NetworkAssumption DEF Forward
    <2>2. ThreadsOK' /\ AnswerOK'
      BY <1>0, <1>3, <2>1 DEF Forward, ThreadsOK, AnswerOK
    <2> QED BY <1>3, <1>c, <2>2 DEF Forward, IInv
  <1>4. ASSUME NEW t \in Threads, Evaluated(t)
        PROVE  IInv'
    <2> DEFINE r == Direct(state[t], picked[t])
    <2>1. state[t] # None /\ state[t] \in Positions /\ picked[t] \in Symmetries
      BY <1>0, <1>4 DEF Evaluated, ThreadsOK
    <2>2. r \in Evaluations(state[t])
      BY <2>1 DEF Evaluations
    <2>3. Insert(state[t], r) /\ Return(t, r)
      BY <1>4 DEF Evaluated
    <2> HIDE DEF r
    <2>4. CacheInv'
      BY <1>0, <2>1, <2>3, InsertOrdered, NetworkAssumption
    <2>5. EntriesOriented' /\ DOMAIN m_cache' \subseteq DOMAIN m_cache \cup {state[t]}
      BY <1>0, <2>2, <2>3, InsertOriented
    <2>6. ThreadsOK' /\ AnswerOK'
      BY <1>0, <2>1, <2>2, <2>3, ReturnOK
    <2> QED BY <1>0, <2>1, <2>4, <2>5, <2>6 DEF IInv
  <1>5. ASSUME NEW t \in Threads, Halted(t)
        PROVE  IInv'
    <2>1. ThreadsOK' /\ AnswerOK'
      BY <1>0, <1>5 DEF Halted, ThreadsOK, AnswerOK, NUM_SYMMETRIES
    <2> QED BY <1>5, <1>c, <2>1 DEF Halted, IInv
  <1>6. ASSUME NEW p \in Positions, Heatmap(p)
        PROVE  IInv'
    <2>1. PICK r \in Evaluations(p) : Insert(p, r)
      BY <1>6, NetworkAssumption DEF Heatmap, Evaluations
    <2>2. CacheInv'
      BY <1>0, <2>1, InsertOrdered, NetworkAssumption
    <2>3. EntriesOriented' /\ DOMAIN m_cache' \subseteq DOMAIN m_cache \cup {p}
      BY <1>0, <2>1, InsertOriented
    <2> QED BY <1>0, <1>6, <1>t, <2>2, <2>3 DEF Heatmap, IInv
  <1>7. ASSUME ClearCache
        PROVE  IInv'
    <2>1. CacheInv' /\ EntriesOriented' /\ DOMAIN m_cache' \subseteq DOMAIN m_cache
      BY <1>0, <1>7, ClearOrdered, RestOriented DEF ClearCache
    <2> QED BY <1>0, <1>7, <1>t, <2>1 DEF ClearCache, IInv
  <1>8. ASSUME NEW size \in CacheSizes, SetMaxMemory(size)
        PROVE  IInv'
    <2>1. size \in Nat /\ Resize(size)
      BY <1>8, NetworkAssumption DEF SetMaxMemory
    <2>2. CacheInv' /\ EntriesOriented' /\ DOMAIN m_cache' \subseteq DOMAIN m_cache
      BY <1>0, <2>1, ResizeOrdered, RestOriented
    <2> QED BY <1>0, <1>8, <1>t, <2>2 DEF SetMaxMemory, IInv
  <1>9. ASSUME UNCHANGED vars
        PROVE  IInv'
    BY <1>0, <1>9, <1>c, <1>t DEF vars, cachevars, threadvars, IInv
  <1> QED BY <1>1, <1>2, <1>3, <1>4, <1>5, <1>6, <1>7, <1>8, <1>9 DEF Next

LEMMA SpecIInv == Spec => []IInv
  BY InitIInv, StepIInv, PTL DEF Spec

\* Type correctness of the cache and of the threads that use it.
THEOREM TypeCorrect == Spec => []TypeOK
  <1>1. IInv => TypeOK
    BY NetworkAssumption
       DEF IInv, CacheInv, EntriesOriented, ThreadsOK, AnswerOK, TypeOK, CacheTypeOK
  <1> QED BY <1>1, SpecIInv, PTL

\* The cache's map and queue hold the same keys, once each, and no more than
\* m_size of them (insert(), resize(), clear()).
THEOREM CacheStaysOrdered == Spec => []CacheOrdered
  <1>1. IInv => CacheOrdered
    BY DEF IInv, CacheInv
  <1> QED BY <1>1, SpecIInv, PTL

\* On a board of any size, every answer of get_output() and every entry of
\* the cache is an evaluation of its own position.
THEOREM AnswersOriented == Spec => []PolicyOriented
  <1>1. IInv => PolicyOriented
    BY DEF IInv, EntriesOriented, AnswerOK, PolicyOriented
  <1> QED BY <1>1, SpecIInv, PTL
============================================================================
