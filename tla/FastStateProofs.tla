-------------------------- MODULE FastStateProofs --------------------------
(***************************************************************************)
(* Proofs about FullBoard and FastState, for any size of the board and any *)
(* bounds.                                                                 *)
(***************************************************************************)
EXTENDS FastState, FiniteSetTheorems, TLAPS

Contents == Colors \cup {EMPTY}
Fields == {"m_state", "m_parent", "m_next", "m_libs", "m_stones",
           "m_neighbours", "m_prisoners", "m_tomove", "m_hash", "m_ko_hash"}

Stone(b, v) == b.m_state[v] # EMPTY

\* The stones with v's root.
Members(b, v) == {w \in Points : b.m_parent[w] = b.m_parent[v]}

Shape(b) ==
    /\ DOMAIN b = Fields
    /\ b.m_state \in [Points -> Contents]
    /\ b.m_parent \in [Points -> Points \cup {None}]
    /\ b.m_next \in [Points -> Points \cup {None}]
    /\ DOMAIN b.m_prisoners = Colors
    /\ b.m_tomove \in Colors

\* What a stone's m_parent and m_next are.
Linked(b, v) ==
    /\ ~Stone(b, v) => b.m_parent[v] = None /\ b.m_next[v] = None
    /\ Stone(b, v) =>
          /\ b.m_parent[v] \in Points /\ b.m_next[v] \in Points
          /\ b.m_parent[b.m_parent[v]] = b.m_parent[v]
          /\ b.m_parent[b.m_next[v]] = b.m_parent[v]

\* m_next leads from each stone to every other with the same root.
LeadsAround(b) ==
    \A T \in SUBSET Points : (\A u \in T : Stone(b, u) /\ b.m_next[u] \in T) =>
        \A v \in T : Members(b, v) \subseteq T

OneColour(b) ==
    \A v, w \in Points : Stone(b, v) /\ b.m_parent[w] = b.m_parent[v]
                            => b.m_state[w] = b.m_state[v]

RingsInv(b) ==
    /\ Shape(b)
    /\ \A v \in Points : Linked(b, v)
    /\ LeadsAround(b)
    /\ OneColour(b)

(* A stone's ring is the set of stones with its root.                      *)
LEMMA RingIs ==
    ASSUME NEW b, RingsInv(b), NEW i \in Points, Stone(b, i)
    PROVE  StringOf(b, i) = Members(b, i)
<1> DEFINE stones == {v \in Points : b.m_next[v] # None}
           closed == {S \in SUBSET stones : i \in S /\ \A v \in S : b.m_next[v] \in S}
<1>1. StringOf(b, i) = {v \in stones : \A S \in closed : v \in S}
  BY DEF StringOf, Ring
<1>2. \A v \in Points : Stone(b, v) <=> v \in stones
  BY BoardAssumption DEF RingsInv, Linked
<1>3. Members(b, i) \in closed
  BY <1>2, BoardAssumption DEF RingsInv, Linked, Members
<1>4. ASSUME NEW S \in closed
      PROVE  Members(b, i) \subseteq S
  BY <1>2, <1>4 DEF RingsInv, LeadsAround
<1>5. QED
  BY <1>1, <1>3, <1>4

-----------------------------------------------------------------------------
(* The hashes.                                                             *)

\* The hash is that of the stones and of R.
HashesInv(b, R) ==
    /\ b.m_ko_hash = calc_ko_hash(b)
    /\ b.m_hash = Xor(b.m_ko_hash, R)

LEMMA XorIs ==
    ASSUME NEW h, NEW keys, NEW x
    PROVE  x \in Xor(h, keys) <=> ~(x \in h <=> x \in keys)
BY DEF Xor

LEMMA XorTwice ==
    ASSUME NEW h, NEW k, NEW l
    PROVE  /\ Xor(Xor(h, k), l) = Xor(Xor(h, l), k)
           /\ Xor(Xor(h, k), l) = Xor(h, Xor(k, l))
           /\ Xor(Xor(h, k), k) = h
BY DEF Xor

LEMMA XorMoves ==
    ASSUME NEW h, NEW j, NEW k, NEW l, NEW m, NEW n
    PROVE  Xor(Xor(h, k), Xor(l, n))
             = Xor(Xor(Xor(Xor(Xor(Xor(h, j), Xor(l, m)), j), k), m), n)
<1>1. ASSUME NEW x
      PROVE  x \in Xor(Xor(h, k), Xor(l, n)) <=>
             x \in Xor(Xor(Xor(Xor(Xor(Xor(h, j), Xor(l, m)), j), k), m), n)
  BY XorIs
<1>2. QED
  BY <1>1

LEMMA StoneKeys ==
    ASSUME NEW c, NEW d, NEW v, NEW w
    PROVE  StoneKey(c, v) = StoneKey(d, w) <=> c = d /\ v = w
BY DEF StoneKey

LEMMA SetStateIs ==
    ASSUME NEW b, Shape(b), NEW S \in SUBSET Points, NEW c \in Contents,
           NEW n, n = SetState(b, S, c)
    PROVE  /\ DOMAIN n = Fields
           /\ n.m_state = [v \in Points |-> IF v \in S THEN c ELSE b.m_state[v]]
           /\ n.m_state \in [Points -> Contents]
           /\ n.m_parent = b.m_parent /\ n.m_next = b.m_next
           /\ n.m_libs = b.m_libs /\ n.m_stones = b.m_stones
           /\ n.m_neighbours = b.m_neighbours
           /\ n.m_prisoners = b.m_prisoners /\ n.m_tomove = b.m_tomove
           /\ (\A v \in S : b.m_state[v] # c) =>
                 \A R : HashesInv(b, R) => HashesInv(n, R)
<1> DEFINE keys == {StoneKey(b.m_state[v], v) : v \in S} \cup {StoneKey(c, v) : v \in S}
<1>1. /\ DOMAIN n = Fields
      /\ n.m_state = [v \in Points |-> IF v \in S THEN c ELSE b.m_state[v]]
      /\ n.m_parent = b.m_parent /\ n.m_next = b.m_next
      /\ n.m_libs = b.m_libs /\ n.m_stones = b.m_stones
      /\ n.m_neighbours = b.m_neighbours
      /\ n.m_prisoners = b.m_prisoners /\ n.m_tomove = b.m_tomove
      /\ n.m_hash = Xor(b.m_hash, keys)
      /\ n.m_ko_hash = Xor(b.m_ko_hash, keys)
  BY DEF Shape, Fields, SetState
<1>2. n.m_state \in [Points -> Contents]
  BY <1>1 DEF Shape
<1>3. ASSUME \A v \in S : b.m_state[v] # c
      PROVE  calc_ko_hash(n) = Xor(calc_ko_hash(b), keys)
  BY <1>1, <1>3, StoneKeys, XorIs DEF calc_ko_hash
<1>4. ASSUME \A v \in S : b.m_state[v] # c, NEW R, HashesInv(b, R)
      PROVE  HashesInv(n, R)
  BY <1>1, <1>3, <1>4, XorTwice DEF HashesInv
<1>5. QED
  BY <1>1, <1>2, <1>4

-----------------------------------------------------------------------------
(* What the operations on strings do to the rings.                         *)

\* What no operation on strings changes.
SameGame(n, b) ==
    /\ n.m_prisoners = b.m_prisoners /\ n.m_tomove = b.m_tomove
    /\ \A R : HashesInv(b, R) => HashesInv(n, R)

LEMMA TakeOffIs ==
    ASSUME NEW b, RingsInv(b), NEW S \in SUBSET Points, NEW color,
           \A v \in S : Stone(b, v) /\ Members(b, v) \subseteq S,
           NEW n, n = TakeOff(b, S, color)
    PROVE  /\ RingsInv(n)
           /\ \A v \in Points :
                 /\ n.m_state[v] = IF v \in S THEN EMPTY ELSE b.m_state[v]
                 /\ n.m_parent[v] = IF v \in S THEN None ELSE b.m_parent[v]
           /\ SameGame(n, b)
<1>1. PICK m : m = SetState(b, S, EMPTY)
  OBVIOUS
<1>2. /\ DOMAIN m = Fields
      /\ m.m_state = [v \in Points |-> IF v \in S THEN EMPTY ELSE b.m_state[v]]
      /\ m.m_state \in [Points -> Contents]
      /\ m.m_parent = b.m_parent /\ m.m_next = b.m_next
      /\ m.m_prisoners = b.m_prisoners /\ m.m_tomove = b.m_tomove
      /\ \A R : HashesInv(b, R) => HashesInv(m, R)
  <2>1. Shape(b) /\ EMPTY \in Contents /\ \A v \in S : b.m_state[v] # EMPTY
    BY DEF RingsInv, Stone, Contents
  <2>2. QED
    BY <1>1, <2>1, SetStateIs
<1>3. /\ DOMAIN n = Fields
      /\ n.m_state = m.m_state
      /\ n.m_parent = [v \in Points |-> IF v \in S THEN None ELSE b.m_parent[v]]
      /\ n.m_next = [v \in Points |-> IF v \in S THEN None ELSE b.m_next[v]]
      /\ n.m_prisoners = b.m_prisoners /\ n.m_tomove = b.m_tomove
      /\ n.m_hash = m.m_hash /\ n.m_ko_hash = m.m_ko_hash
  BY <1>1, <1>2 DEF TakeOff, Fields
<1>4. \A R : HashesInv(b, R) => HashesInv(n, R)
  BY <1>2, <1>3 DEF HashesInv, calc_ko_hash
<1>5. Shape(n)
  BY <1>2, <1>3 DEF RingsInv, Shape
<1>6. \A v \in Points : Stone(n, v) <=> v \notin S /\ Stone(b, v)
  BY <1>2, <1>3 DEF Stone
<1>7. \A v \in Points : Stone(b, v) /\ v \notin S =>
         \A w \in Points : b.m_parent[w] = b.m_parent[v] => w \notin S
  BY DEF Members
<1>8. \A v \in Points : Linked(n, v)
  <2> SUFFICES ASSUME NEW v \in Points
               PROVE  Linked(n, v)
    OBVIOUS
  <2>1. CASE v \in S
    BY <1>3, <1>6, <2>1 DEF Linked
  <2>2. CASE v \notin S
    BY <1>3, <1>6, <1>7, <2>2 DEF RingsInv, Linked
  <2>3. QED
    BY <2>1, <2>2
<1>9. LeadsAround(n)
  <2> SUFFICES ASSUME NEW T \in SUBSET Points,
                      \A u \in T : Stone(n, u) /\ n.m_next[u] \in T,
                      NEW v \in T, NEW w \in Members(n, v)
               PROVE  w \in T
    BY DEF LeadsAround
  <2>1. \A u \in T : Stone(b, u) /\ b.m_next[u] \in T
    BY <1>3, <1>6
  <2>2. w \in Members(b, v)
    BY <1>3, <1>5, <1>6, <1>8, BoardAssumption DEF Members, Linked, Shape
  <2>3. QED
    BY <2>1, <2>2 DEF RingsInv, LeadsAround
<1>10. OneColour(n)
  <2> SUFFICES ASSUME NEW v \in Points, NEW w \in Points, Stone(n, v),
                      n.m_parent[w] = n.m_parent[v]
               PROVE  n.m_state[w] = n.m_state[v]
    BY DEF OneColour
  <2>1. v \notin S /\ w \notin S
    BY <1>3, <1>6, <1>8, BoardAssumption DEF Linked
  <2>2. QED
    BY <1>2, <1>3, <1>6, <2>1 DEF RingsInv, OneColour
<1>11. QED
  BY <1>2, <1>3, <1>4, <1>5, <1>8, <1>9, <1>10 DEF RingsInv, SameGame

LEMMA MergeIs ==
    ASSUME NEW b, RingsInv(b), NEW ip \in Points, NEW aip \in Points, ip # aip,
           Stone(b, ip), b.m_parent[ip] = ip, b.m_parent[aip] = aip,
           b.m_state[aip] = b.m_state[ip],
           NEW n, n = merge_strings(b, ip, aip)
    PROVE  /\ RingsInv(n)
           /\ n.m_state = b.m_state
           /\ \A v \in Points :
                 n.m_parent[v] = IF b.m_parent[v] = aip THEN ip ELSE b.m_parent[v]
           /\ SameGame(n, b)
<1>1. Stone(b, aip) /\ StringOf(b, aip) = {v \in Points : b.m_parent[v] = aip}
  BY RingIs DEF Stone, Members
<1>2. /\ DOMAIN n = Fields
      /\ n.m_state = b.m_state
      /\ n.m_parent = [v \in Points |-> IF b.m_parent[v] = aip THEN ip
                                        ELSE b.m_parent[v]]
      /\ n.m_next = [b.m_next EXCEPT ![ip] = b.m_next[aip], ![aip] = b.m_next[ip]]
      /\ n.m_prisoners = b.m_prisoners /\ n.m_tomove = b.m_tomove
      /\ n.m_hash = b.m_hash /\ n.m_ko_hash = b.m_ko_hash
  BY <1>1 DEF merge_strings, JoinRings, RingsInv, Shape, Fields
<1>3. \A R : HashesInv(b, R) => HashesInv(n, R)
  BY <1>2 DEF HashesInv, calc_ko_hash
<1>4. \A v \in Points :
         n.m_next[v] = IF v = ip THEN b.m_next[aip]
                       ELSE IF v = aip THEN b.m_next[ip] ELSE b.m_next[v]
  BY <1>2 DEF RingsInv, Shape
<1>5. \A v \in Points : Stone(n, v) <=> Stone(b, v)
  BY <1>2 DEF Stone
<1>6. \A v \in Points : Linked(b, v)
  BY DEF RingsInv
<1>7. Shape(n)
  <2>1. b.m_next[ip] \in Points /\ b.m_next[aip] \in Points
    BY <1>1, <1>6 DEF Linked
  <2>2. QED
    BY <1>2, <2>1 DEF RingsInv, Shape
<1>8. \A v \in Points : Linked(n, v)
  BY <1>1, <1>2, <1>4, <1>5, <1>6, BoardAssumption DEF Linked
<1>9. LeadsAround(n)
  <2> SUFFICES ASSUME NEW T \in SUBSET Points,
                      \A u \in T : Stone(n, u) /\ n.m_next[u] \in T,
                      NEW v \in T, NEW w \in Members(n, v)
               PROVE  w \in T
    BY DEF LeadsAround
  <2> DEFINE In(r) == {u \in T : b.m_parent[u] = r}
  <2>1. \A u \in T : Stone(b, u)
    BY <1>5
  (* Of each of the strings T has all stones or none, but for a way out.   *)
  <2>2. ASSUME NEW r \in Points, NEW u \in In(r),
               \A x \in In(r) : b.m_next[x] \in T
        PROVE  \A x \in Points : b.m_parent[x] = r => x \in T
    <3>1. \A x \in In(r) : Stone(b, x) /\ b.m_next[x] \in In(r)
      BY <1>6, <2>1, <2>2 DEF Linked
    <3>2. In(r) \in SUBSET Points
      OBVIOUS
    <3>3. Members(b, u) \subseteq In(r)
      BY <3>1, <3>2 DEF RingsInv, LeadsAround
    <3>4. QED
      BY <3>3 DEF Members
  <2>3. ASSUME NEW r \in Points \ {ip, aip}, NEW u \in In(r)
        PROVE  \A x \in Points : b.m_parent[x] = r => x \in T
    <3>1. \A x \in In(r) : b.m_next[x] \in T
      BY <1>4, <2>3
    <3>2. QED
      BY <2>2, <3>1
  <2>4. ip \in T => aip \in T
    <3> SUFFICES ASSUME ip \in T, aip \notin T
                 PROVE  FALSE
      OBVIOUS
    <3>1. b.m_next[aip] \in In(aip)
      BY <1>1, <1>4, <1>6 DEF Linked
    <3>2. \A x \in In(aip) : b.m_next[x] \in T
      BY <1>4
    <3>3. QED
      BY <2>2, <3>1, <3>2
  <2>5. aip \in T => ip \in T
    <3> SUFFICES ASSUME aip \in T, ip \notin T
                 PROVE  FALSE
      OBVIOUS
    <3>1. b.m_next[ip] \in In(ip)
      BY <1>4, <1>6 DEF Linked
    <3>2. \A x \in In(ip) : b.m_next[x] \in T
      BY <1>4
    <3>3. QED
      BY <2>2, <3>1, <3>2
  <2>6. (\E u \in In(ip) \cup In(aip) : TRUE) => ip \in T /\ aip \in T
    <3> SUFFICES ASSUME NEW u \in In(ip) \cup In(aip), ip \notin T, aip \notin T
                 PROVE  FALSE
      BY <2>4, <2>5
    <3>1. \A x \in In(ip) \cup In(aip) : b.m_next[x] \in T
      BY <1>4
    <3>2. QED
      BY <2>2, <3>1
  <2>7. ip \in T /\ aip \in T =>
           \A x \in Points : b.m_parent[x] \in {ip, aip} => x \in T
    <3> SUFFICES ASSUME ip \in T, aip \in T
                 PROVE  \A x \in Points : b.m_parent[x] \in {ip, aip} => x \in T
      OBVIOUS
    <3>1. b.m_next[ip] \in T /\ b.m_next[aip] \in T
      BY <1>4
    <3>2. \A x \in T : b.m_next[x] \in T
      BY <1>4, <3>1
    <3>3. QED
      BY <2>2, <3>2
  <2>8. v \in Points /\ w \in Points /\ n.m_parent[w] = n.m_parent[v]
        /\ b.m_parent[v] \in Points
    BY <1>6, <2>1 DEF Members, Linked
  <2>9. CASE b.m_parent[v] \in {ip, aip}
    <3>1. b.m_parent[w] \in {ip, aip}
      BY <1>2, <2>8, <2>9
    <3>2. QED
      BY <2>6, <2>7, <2>8, <2>9, <3>1
  <2>10. CASE b.m_parent[v] \notin {ip, aip}
    <3>1. b.m_parent[w] = b.m_parent[v]
      BY <1>2, <2>8, <2>10
    <3>2. QED
      BY <2>3, <2>8, <2>10, <3>1
  <2>11. QED
    BY <2>9, <2>10
<1>10. OneColour(n)
  <2> SUFFICES ASSUME NEW v \in Points, NEW w \in Points, Stone(b, v),
                      n.m_parent[w] = n.m_parent[v]
               PROVE  b.m_state[w] = b.m_state[v]
    BY <1>2, <1>5 DEF OneColour
  <2>1. \A x \in Points : b.m_parent[x] \in {ip, aip} => b.m_state[x] = b.m_state[ip]
    BY <1>1 DEF RingsInv, OneColour
  <2>2. QED
    BY <1>2, <2>1 DEF RingsInv, OneColour
<1>11. QED
  BY <1>2, <1>3, <1>7, <1>8, <1>9, <1>10 DEF RingsInv, SameGame

-----------------------------------------------------------------------------
(* A move keeps the rings and the hashes.                                  *)

LEMMA Others ==
    ASSUME NEW c \in Colors
    PROVE  /\ Other(c) \in Colors /\ Other(c) # c /\ c # EMPTY /\ c # INVAL
           /\ Other(c) # EMPTY /\ Other(c) # INVAL
BY DEF Other, Colors, BLACK, WHITE, EMPTY, INVAL

LEMMA PutStoneIs ==
    ASSUME NEW b, RingsInv(b), NEW color \in Colors, NEW i \in Points, ~Stone(b, i),
           NEW n, n = PutStone(b, color, i)
    PROVE  /\ RingsInv(n)
           /\ n.m_state[i] = color /\ n.m_parent[i] = i
           /\ \A v \in Points \ {i} : /\ n.m_state[v] = b.m_state[v]
                                     /\ n.m_parent[v] = b.m_parent[v]
           /\ SameGame(n, b)
<1>1. PICK m : m = SetState(b, {i}, color)
  OBVIOUS
<1>2. /\ DOMAIN m = Fields
      /\ m.m_state = [b.m_state EXCEPT ![i] = color]
      /\ m.m_state \in [Points -> Contents]
      /\ m.m_parent = b.m_parent /\ m.m_next = b.m_next
      /\ m.m_prisoners = b.m_prisoners /\ m.m_tomove = b.m_tomove
      /\ \A R : HashesInv(b, R) => HashesInv(m, R)
  <2>1. Shape(b) /\ color \in Contents /\ b.m_state \in [Points -> Contents]
        /\ \A v \in {i} : b.m_state[v] # color
    BY Others DEF RingsInv, Stone, Contents, Shape
  <2>2. m.m_state = [v \in Points |-> IF v \in {i} THEN color ELSE b.m_state[v]]
    BY <1>1, <2>1, SetStateIs
  <2>3. m.m_state = [b.m_state EXCEPT ![i] = color]
    BY <2>1, <2>2
  <2>4. QED
    BY <1>1, <2>1, <2>3, SetStateIs
<1>3. /\ DOMAIN n = Fields
      /\ n.m_state = m.m_state
      /\ n.m_parent = [b.m_parent EXCEPT ![i] = i]
      /\ n.m_next = [b.m_next EXCEPT ![i] = i]
      /\ n.m_prisoners = b.m_prisoners /\ n.m_tomove = b.m_tomove
      /\ n.m_hash = m.m_hash /\ n.m_ko_hash = m.m_ko_hash
  BY <1>1, <1>2 DEF PutStone, add_neighbour, NewString, Fields
<1>4. \A R : HashesInv(b, R) => HashesInv(n, R)
  BY <1>2, <1>3 DEF HashesInv, calc_ko_hash
<1>5. Shape(n)
  BY <1>2, <1>3 DEF RingsInv, Shape
<1>6. \A v \in Points : Stone(n, v) <=> v = i \/ Stone(b, v)
  BY <1>2, <1>3, Others DEF Stone, RingsInv, Shape
<1>7. \A v \in Points : v # i => /\ n.m_parent[v] = b.m_parent[v]
                                /\ n.m_next[v] = b.m_next[v]
                                /\ n.m_state[v] = b.m_state[v]
  BY <1>2, <1>3 DEF RingsInv, Shape
<1>8. /\ n.m_parent[i] = i /\ n.m_next[i] = i
      /\ \A v \in Points : Linked(b, v) /\ b.m_parent[v] # i
  BY <1>3, BoardAssumption DEF RingsInv, Shape, Linked
<1>9. \A v \in Points : Linked(n, v)
  BY <1>6, <1>7, <1>8, BoardAssumption DEF Linked
<1>10. LeadsAround(n)
  <2> SUFFICES ASSUME NEW T \in SUBSET Points,
                      \A u \in T : Stone(n, u) /\ n.m_next[u] \in T,
                      NEW v \in T, NEW w \in Members(n, v)
               PROVE  w \in T
    BY DEF LeadsAround
  <2>1. CASE v = i
    BY <1>7, <1>8, <2>1 DEF Members
  <2>2. CASE v # i
    <3> DEFINE U == T \ {i}
    <3>1. \A u \in U : Stone(b, u) /\ b.m_next[u] \in U
      <4> SUFFICES ASSUME NEW u \in U
                   PROVE  Stone(b, u) /\ b.m_next[u] \in U
        OBVIOUS
      <4>1. Stone(b, u) /\ b.m_next[u] \in T
        BY <1>6, <1>7
      <4>2. b.m_next[u] # i
        BY <1>8, <4>1, BoardAssumption DEF Linked
      <4>3. QED
        BY <4>1, <4>2
    <3>2. w \in Members(b, v)
      BY <1>7, <1>8, <2>2 DEF Members
    <3>3. QED
      BY <2>2, <3>1, <3>2 DEF RingsInv, LeadsAround
  <2>3. QED
    BY <2>1, <2>2
<1>11. OneColour(n)
  BY <1>6, <1>7, <1>8 DEF RingsInv, OneColour
<1>12. n.m_state[i] = color
  BY <1>2, <1>3 DEF RingsInv, Shape
<1>13. QED
  BY <1>2, <1>3, <1>4, <1>5, <1>7, <1>8, <1>9, <1>10, <1>11, <1>12
     DEF RingsInv, SameGame

LEMMA JoinIs ==
    ASSUME NEW b, RingsInv(b), NEW i \in Points, NEW a \in Points,
           Stone(b, i), b.m_state[a] = b.m_state[i],
           b.m_parent[i] # b.m_parent[a],
           NEW n, n = Join(b, b.m_parent[i], b.m_parent[a])
    PROVE  RingsInv(n) /\ n.m_state = b.m_state /\ SameGame(n, b)
<1>1. Stone(b, a)
  BY DEF Stone
<1>2. \A v \in {i, a} : LET r == b.m_parent[v] IN
         /\ r \in Points /\ b.m_parent[r] = r /\ b.m_state[r] = b.m_state[i]
         /\ Stone(b, r)
  BY <1>1 DEF RingsInv, Linked, OneColour, Stone
<1>3. PICK ip \in Points, aip \in Points :
         /\ {ip, aip} = {b.m_parent[i], b.m_parent[a]}
         /\ n = merge_strings(b, ip, aip)
  BY <1>2 DEF Join
<1>4. /\ ip # aip /\ Stone(b, ip) /\ b.m_parent[ip] = ip /\ b.m_parent[aip] = aip
      /\ b.m_state[aip] = b.m_state[ip]
  BY <1>2, <1>3
<1>5. QED
  BY <1>3, <1>4, MergeIs

LEMMA RemoveIs ==
    ASSUME NEW b, RingsInv(b), NEW i \in Points, Stone(b, i),
           NEW n, n = remove_string(b, i)
    PROVE  /\ RingsInv(n) /\ SameGame(n, b)
           /\ \A v \in Points : b.m_state[v] # b.m_state[i]
                                    => n.m_state[v] = b.m_state[v]
<1>1. n = TakeOff(b, Members(b, i), b.m_state[i])
  BY RingIs DEF remove_string
<1>2. Members(b, i) \in SUBSET Points
      /\ \A v \in Members(b, i) : /\ Stone(b, v) /\ Members(b, v) \subseteq Members(b, i)
                                  /\ b.m_state[v] = b.m_state[i]
  BY DEF Members, RingsInv, OneColour, Stone
<1>3. /\ RingsInv(n) /\ SameGame(n, b)
      /\ \A v \in Points : n.m_state[v] = IF v \in Members(b, i) THEN EMPTY
                                           ELSE b.m_state[v]
  BY <1>1, <1>2, TakeOffIs
<1>4. QED
  BY <1>2, <1>3

Accs == {"board", "captured", "vertex"}

LEMMA DirectionIs ==
    ASSUME NEW acc, DOMAIN acc = Accs, RingsInv(acc.board),
           NEW color \in Colors, NEW i \in Points, acc.board.m_state[i] = color,
           NEW ai, NEW n, n = Direction(acc, color, i, ai)
    PROVE  /\ DOMAIN n = Accs /\ RingsInv(n.board)
           /\ n.board.m_state[i] = color /\ SameGame(n.board, acc.board)
<1>1. PICK b : b = acc.board
  OBVIOUS
<1>2. RingsInv(b) /\ Stone(b, i) /\ b.m_state[i] = color
  BY <1>1, Others DEF Stone
<1>3. CASE n = acc
  BY <1>1, <1>2, <1>3 DEF SameGame
<1>4. CASE /\ ai \in Points /\ b.m_state[ai] = Other(color)
           /\ DOMAIN n = Accs /\ n.board = remove_string(b, ai)
  BY <1>1, <1>2, <1>4, Others, RemoveIs DEF Stone
<1>5. CASE /\ ai \in Points /\ b.m_state[ai] = color
           /\ b.m_parent[i] # b.m_parent[ai]
           /\ DOMAIN n = Accs /\ n.board = Join(b, b.m_parent[i], b.m_parent[ai])
  BY <1>1, <1>2, <1>5, JoinIs
<1>6. \/ n = acc
      \/ /\ ai \in Points /\ b.m_state[ai] = Other(color)
         /\ DOMAIN n = Accs /\ n.board = remove_string(b, ai)
      \/ /\ ai \in Points /\ b.m_state[ai] = color
         /\ b.m_parent[i] # b.m_parent[ai]
         /\ DOMAIN n = Accs /\ n.board = Join(b, b.m_parent[i], b.m_parent[ai])
  BY <1>1, Others DEF Direction, StateAt, Accs
<1>7. QED
  BY <1>3, <1>4, <1>5, <1>6

LEMMA DirectionsIs ==
    ASSUME NEW b, RingsInv(b), NEW color \in Colors, NEW i \in Points,
           b.m_state[i] = color, NEW n, n = Directions(b, color, i)
    PROVE  /\ DOMAIN n = Accs /\ RingsInv(n.board)
           /\ n.board.m_state[i] = color /\ SameGame(n.board, b)
<1> DEFINE Good(acc) == /\ DOMAIN acc = Accs /\ RingsInv(acc.board)
                        /\ acc.board.m_state[i] = color /\ SameGame(acc.board, b)
           Turn(acc, k) == Direction(acc, color, i, Neighbour(i, k))
           start == [board |-> b, captured |-> 0, vertex |-> NO_VERTEX]
<1>1. Good(start)
  BY DEF Accs, SameGame
<1>2. \A acc, k : Good(acc) => Good(Turn(acc, k))
  BY DirectionIs DEF SameGame
<1>3. n = Turn(Turn(Turn(Turn(start, 1), 2), 3), 4)
  BY DEF Directions
<1> HIDE DEF Good, Turn, start
<1>4. Good(n)
  BY <1>1, <1>2, <1>3
<1>5. QED
  BY <1>4 DEF Good

\* The keys of a position that are not those of its stones: prisoners p,
\* c to move, ko at k, and n passes.
Rest(p, c, k, n) ==
    Xor(Xor(Xor(Xor({PrisonersKey(BLACK, p[BLACK])},
                    {PrisonersKey(WHITE, p[WHITE])}),
                IF c = BLACK THEN {BlackToMoveKey} ELSE {}),
            {KoKey(k)}),
        Xor({PassKey(0)}, {PassKey(n)}))

LEMMA RingsSame ==
    ASSUME NEW b, RingsInv(b), NEW n, Shape(n), n.m_state = b.m_state,
           n.m_parent = b.m_parent, n.m_next = b.m_next
    PROVE  RingsInv(n)
BY DEF RingsInv, Linked, LeadsAround, OneColour, Stone, Members

LEMMA CountPrisonersIs ==
    ASSUME NEW b, RingsInv(b), NEW color \in Colors, NEW captured,
           NEW n, n = CountPrisoners(b, color, captured)
    PROVE  /\ RingsInv(n) /\ n.m_state = b.m_state /\ n.m_tomove = b.m_tomove
           /\ \A c, k, m : HashesInv(b, Rest(b.m_prisoners, c, k, m))
                              => HashesInv(n, Rest(n.m_prisoners, c, k, m))
<1> DEFINE before == b.m_prisoners[color]
           after == b.m_prisoners[color] + captured
<1>1. /\ DOMAIN n = Fields /\ n.m_state = b.m_state /\ n.m_parent = b.m_parent
      /\ n.m_next = b.m_next /\ n.m_tomove = b.m_tomove
      /\ n.m_ko_hash = b.m_ko_hash
      /\ n.m_prisoners = [b.m_prisoners EXCEPT ![color] = after]
      /\ n.m_hash = Xor(Xor(b.m_hash, {PrisonersKey(color, before)}),
                        {PrisonersKey(color, after)})
  BY DEF CountPrisoners, RingsInv, Shape, Fields
<1>2. RingsInv(n)
  <2>1. Shape(n)
    BY <1>1 DEF RingsInv, Shape
  <2>2. QED
    BY <1>1, <2>1, RingsSame
<1>3. ASSUME NEW c, NEW k, NEW m
      PROVE  Rest(n.m_prisoners, c, k, m)
               = Xor(Xor(Rest(b.m_prisoners, c, k, m), {PrisonersKey(color, before)}),
                     {PrisonersKey(color, after)})
  <2>1. \A d \in Colors : n.m_prisoners[d] = IF d = color THEN after
                                             ELSE b.m_prisoners[d]
    BY <1>1 DEF RingsInv, Shape
  <2>2. BLACK \in Colors /\ WHITE \in Colors /\ BLACK # WHITE
    BY DEF Colors, BLACK, WHITE
  <2> HIDE DEF before, after
  <2>3. CASE color = BLACK
    <3>1. n.m_prisoners[BLACK] = after /\ n.m_prisoners[WHITE] = b.m_prisoners[WHITE]
          /\ b.m_prisoners[BLACK] = before
      BY <2>1, <2>2, <2>3 DEF before
    <3>2. QED
      BY <2>3, <3>1 DEF Rest, Xor
  <2>4. CASE color = WHITE
    <3>1. n.m_prisoners[WHITE] = after /\ n.m_prisoners[BLACK] = b.m_prisoners[BLACK]
          /\ b.m_prisoners[WHITE] = before
      BY <2>1, <2>2, <2>4 DEF before
    <3>2. QED
      BY <2>4, <3>1 DEF Rest, Xor
  <2>5. QED
    BY <2>3, <2>4 DEF Colors
<1>4. ASSUME NEW c, NEW k, NEW m, HashesInv(b, Rest(b.m_prisoners, c, k, m))
      PROVE  HashesInv(n, Rest(n.m_prisoners, c, k, m))
  <2>1. n.m_hash = Xor(n.m_ko_hash,
                       Xor(Xor(Rest(b.m_prisoners, c, k, m),
                               {PrisonersKey(color, before)}),
                           {PrisonersKey(color, after)}))
    BY <1>1, <1>4, XorTwice DEF HashesInv
  <2>2. n.m_ko_hash = calc_ko_hash(n)
    BY <1>1, <1>4 DEF HashesInv, calc_ko_hash
  <2>3. QED
    BY <1>3, <2>1, <2>2 DEF HashesInv
<1>5. QED
  BY <1>1, <1>2, <1>4

LEMMA UpdateBoardIs ==
    ASSUME NEW b, RingsInv(b), NEW color \in Colors, NEW i \in Points, ~Stone(b, i),
           NEW n, n = update_board(b, color, i).board
    PROVE  /\ RingsInv(n) /\ n.m_tomove = b.m_tomove
           /\ \A c, k, m : HashesInv(b, Rest(b.m_prisoners, c, k, m))
                              => HashesInv(n, Rest(n.m_prisoners, c, k, m))
<1>1. PICK put : put = PutStone(b, color, i)
  OBVIOUS
<1>2. PICK acc : acc = Directions(put, color, i)
  OBVIOUS
<1>3. PICK m : m = CountPrisoners(acc.board, color, acc.captured)
  OBVIOUS
<1>4. n = StillAlive(m, i)
  BY <1>1, <1>2, <1>3 DEF update_board, Outcome
<1>5. RingsInv(put) /\ put.m_state[i] = color /\ SameGame(put, b)
  BY <1>1, PutStoneIs
<1>6. RingsInv(acc.board) /\ acc.board.m_state[i] = color /\ SameGame(acc.board, put)
  BY <1>2, <1>5, DirectionsIs
<1>7. /\ RingsInv(m) /\ m.m_state[i] = color /\ m.m_tomove = b.m_tomove
      /\ \A c, k, l : HashesInv(b, Rest(b.m_prisoners, c, k, l))
                         => HashesInv(m, Rest(m.m_prisoners, c, k, l))
  <2>1. /\ RingsInv(m) /\ m.m_state = acc.board.m_state
        /\ m.m_tomove = acc.board.m_tomove
        /\ \A c, k, l : HashesInv(acc.board, Rest(acc.board.m_prisoners, c, k, l))
                           => HashesInv(m, Rest(m.m_prisoners, c, k, l))
    BY <1>3, <1>6, CountPrisonersIs
  <2>2. QED
    BY <1>5, <1>6, <2>1 DEF SameGame
<1>8. Stone(m, i)
  BY <1>7, Others DEF Stone
<1>9. n = m \/ (RingsInv(n) /\ SameGame(n, m))
  BY <1>4, <1>7, <1>8, RemoveIs DEF StillAlive
<1>10. QED
  BY <1>7, <1>9 DEF SameGame

-----------------------------------------------------------------------------
(* Positions.                                                              *)

StateInv(s) ==
    /\ DOMAIN s = {"board", "m_komove", "m_passes"}
    /\ RingsInv(s.board)
    /\ HashesInv(s.board, Rest(s.board.m_prisoners, s.board.m_tomove,
                               s.m_komove, s.m_passes))

LEMMA SetToMoveIs ==
    ASSUME NEW b, RingsInv(b), NEW c \in Colors, NEW n, n = set_to_move(b, c)
    PROVE  /\ RingsInv(n) /\ n.m_tomove = c /\ n.m_state = b.m_state
           /\ n.m_prisoners = b.m_prisoners
           /\ \A k, m : HashesInv(b, Rest(b.m_prisoners, b.m_tomove, k, m))
                           => HashesInv(n, Rest(b.m_prisoners, c, k, m))
<1>1. /\ DOMAIN n = Fields /\ n.m_state = b.m_state /\ n.m_parent = b.m_parent
      /\ n.m_next = b.m_next /\ n.m_tomove = c
      /\ n.m_ko_hash = b.m_ko_hash /\ n.m_prisoners = b.m_prisoners
      /\ n.m_hash = IF b.m_tomove # c THEN Xor(b.m_hash, {BlackToMoveKey})
                    ELSE b.m_hash
  BY DEF set_to_move, RingsInv, Shape, Fields
<1>2. RingsInv(n)
  <2>1. Shape(n)
    BY <1>1 DEF RingsInv, Shape
  <2>2. QED
    BY <1>1, <2>1, RingsSame
<1>3. ASSUME NEW k, NEW m, b.m_tomove # c
      PROVE  Rest(b.m_prisoners, c, k, m)
               = Xor(Rest(b.m_prisoners, b.m_tomove, k, m), {BlackToMoveKey})
  <2>1. (b.m_tomove = BLACK /\ c # BLACK) \/ (b.m_tomove # BLACK /\ c = BLACK)
    BY <1>3 DEF RingsInv, Shape, Colors
  <2>2. QED
    BY <2>1 DEF Rest, Xor
<1>4. ASSUME NEW k, NEW m, HashesInv(b, Rest(b.m_prisoners, b.m_tomove, k, m))
      PROVE  HashesInv(n, Rest(b.m_prisoners, c, k, m))
  <2>1. n.m_ko_hash = calc_ko_hash(n)
    BY <1>1, <1>4 DEF HashesInv, calc_ko_hash
  <2>2. CASE b.m_tomove = c
    BY <1>1, <1>4, <2>1, <2>2 DEF HashesInv
  <2>3. CASE b.m_tomove # c
    <3>1. n.m_hash = Xor(Xor(n.m_ko_hash, Rest(b.m_prisoners, b.m_tomove, k, m)),
                         {BlackToMoveKey})
      BY <1>1, <1>4, <2>3 DEF HashesInv
    <3>2. n.m_hash = Xor(n.m_ko_hash, Xor(Rest(b.m_prisoners, b.m_tomove, k, m),
                                          {BlackToMoveKey}))
      BY <3>1, XorTwice
    <3>3. n.m_hash = Xor(n.m_ko_hash, Rest(b.m_prisoners, c, k, m))
      BY <1>3, <2>3, <3>2
    <3>4. QED
      BY <2>1, <3>3 DEF HashesInv
  <2>4. QED
    BY <2>2, <2>3
<1>5. QED
  BY <1>1, <1>2, <1>4

LEMMA NextTurnIs ==
    ASSUME NEW s, StateInv(s), NEW moved, RingsInv(moved.board),
           HashesInv(moved.board, Rest(moved.board.m_prisoners, s.board.m_tomove,
                                       s.m_komove, s.m_passes)),
           moved.board.m_tomove = s.board.m_tomove,
           NEW color \in Colors, NEW passes,
           NEW n, n = NextTurn(s, moved, color, passes)
    PROVE  StateInv(n)
<1> DEFINE c == Other(color)
<1>1. c \in Colors
  BY Others
<1> HIDE DEF c
<1>2. PICK turned : turned = set_to_move(moved.board, c)
  OBVIOUS
<1>3. /\ RingsInv(turned) /\ turned.m_tomove = c
      /\ turned.m_prisoners = moved.board.m_prisoners
      /\ HashesInv(turned, Rest(turned.m_prisoners, c, s.m_komove, s.m_passes))
  <2>1. /\ RingsInv(turned) /\ turned.m_tomove = c
        /\ turned.m_prisoners = moved.board.m_prisoners
        /\ \A k, m : HashesInv(moved.board, Rest(moved.board.m_prisoners,
                                                moved.board.m_tomove, k, m))
                        => HashesInv(turned, Rest(moved.board.m_prisoners, c, k, m))
    BY <1>1, <1>2, SetToMoveIs
  <2>2. QED
    BY <2>1
<1>4. /\ DOMAIN n = {"board", "m_komove", "m_passes"}
      /\ n.m_komove = moved.komove /\ n.m_passes = passes
      /\ n.board = [turned EXCEPT !.m_hash =
                       Xor(Xor(Xor(Xor(turned.m_hash, {KoKey(s.m_komove)}),
                                   {KoKey(moved.komove)}),
                               {PassKey(s.m_passes)}),
                           {PassKey(passes)})]
  BY <1>2 DEF NextTurn, StateInv, c
<1>5. /\ DOMAIN n.board = Fields /\ n.board.m_state = turned.m_state
      /\ n.board.m_parent = turned.m_parent /\ n.board.m_next = turned.m_next
      /\ n.board.m_tomove = c /\ n.board.m_ko_hash = turned.m_ko_hash
      /\ n.board.m_prisoners = turned.m_prisoners
      /\ n.board.m_hash = Xor(Xor(Xor(Xor(turned.m_hash, {KoKey(s.m_komove)}),
                                      {KoKey(moved.komove)}),
                                  {PassKey(s.m_passes)}),
                              {PassKey(passes)})
  BY <1>3, <1>4 DEF RingsInv, Shape, Fields
<1>6. RingsInv(n.board)
  <2>1. Shape(n.board)
    BY <1>3, <1>5 DEF RingsInv, Shape
  <2>2. QED
    BY <1>3, <1>5, <2>1, RingsSame
<1>7. n.board.m_ko_hash = calc_ko_hash(n.board)
  BY <1>3, <1>5 DEF HashesInv, calc_ko_hash
<1>8. Rest(turned.m_prisoners, c, moved.komove, passes)
        = Xor(Xor(Xor(Xor(Rest(turned.m_prisoners, c, s.m_komove, s.m_passes),
                          {KoKey(s.m_komove)}),
                      {KoKey(moved.komove)}),
                  {PassKey(s.m_passes)}),
              {PassKey(passes)})
  BY XorMoves DEF Rest
<1>9. n.board.m_hash = Xor(n.board.m_ko_hash,
                           Rest(turned.m_prisoners, c, moved.komove, passes))
  BY <1>3, <1>5, <1>8, XorTwice DEF HashesInv
<1>10. QED
  BY <1>4, <1>5, <1>6, <1>7, <1>9 DEF StateInv, HashesInv

LEMMA PlayMoveIs ==
    ASSUME NEW s, StateInv(s), NEW color \in Colors, NEW v \in Points \cup {PASS},
           v \in Points => ~Stone(s.board, v)
    PROVE  StateInv(play_move(s, color, v))
<1>1. PICK moved : moved = IF v = PASS THEN [board |-> s.board, komove |-> NO_VERTEX]
                           ELSE update_board(s.board, color, v)
  OBVIOUS
<1>2. PICK passes : passes = IF v = PASS THEN increment_passes(s.m_passes) ELSE 0
  OBVIOUS
<1>3. play_move(s, color, v) = NextTurn(s, moved, color, passes)
  BY <1>1, <1>2 DEF play_move
<1>4. /\ RingsInv(moved.board) /\ moved.board.m_tomove = s.board.m_tomove
      /\ HashesInv(moved.board, Rest(moved.board.m_prisoners, s.board.m_tomove,
                                     s.m_komove, s.m_passes))
  <2>1. CASE v = PASS
    BY <1>1, <2>1 DEF StateInv
  <2>2. CASE v # PASS
    BY <1>1, <2>2, UpdateBoardIs DEF StateInv
  <2>3. QED
    BY <2>1, <2>2
<1>5. QED
  BY <1>3, <1>4, NextTurnIs

-----------------------------------------------------------------------------
(* Keys of different kinds differ, so the keys of a position are the union *)
(* of what was xored.                                                      *)

LEMMA KeysDiffer ==
    ASSUME NEW c, NEW v, NEW d, NEW n, NEW k, NEW m
    PROVE  /\ StoneKey(c, v) # PrisonersKey(d, n) /\ StoneKey(c, v) # KoKey(k)
           /\ StoneKey(c, v) # PassKey(m) /\ StoneKey(c, v) # BlackToMoveKey
           /\ PrisonersKey(d, n) # KoKey(k) /\ PrisonersKey(d, n) # PassKey(m)
           /\ PrisonersKey(d, n) # BlackToMoveKey
           /\ KoKey(k) # PassKey(m) /\ KoKey(k) # BlackToMoveKey
           /\ PassKey(m) # BlackToMoveKey
<1>1. /\ StoneKey(c, v)[1] = "zobrist" /\ PrisonersKey(d, n)[1] = "pris"
      /\ KoKey(k)[1] = "ko" /\ PassKey(m)[1] = "pass"
      /\ BlackToMoveKey[1] = "blacktomove"
  BY DEF StoneKey, PrisonersKey, KoKey, PassKey, BlackToMoveKey
<1>2. QED
  BY <1>1

LEMMA CalcHashIs ==
    ASSUME NEW b, NEW k, NEW n
    PROVE  Xor(calc_ko_hash(b), Rest(b.m_prisoners, b.m_tomove, k, n))
             = Xor(calc_hash(b, k), Xor({PassKey(0)}, {PassKey(n)}))
<1> DEFINE p == b.m_prisoners
           turn == IF b.m_tomove = BLACK THEN {BlackToMoveKey} ELSE {}
           passes == Xor({PassKey(0)}, {PassKey(n)})
           B == {PrisonersKey(BLACK, p[BLACK])}
           W == {PrisonersKey(WHITE, p[WHITE])}
<1>1. calc_hash(b, k) = calc_ko_hash(b) \cup (B \cup W) \cup {KoKey(k)} \cup turn
  BY DEF calc_hash, Colors
<1>2. PrisonersKey(BLACK, p[BLACK]) # PrisonersKey(WHITE, p[WHITE])
  BY DEF PrisonersKey, BLACK, WHITE
<1>3. calc_hash(b, k)
        = Xor(calc_ko_hash(b), Xor(Xor(Xor(B, W), turn), {KoKey(k)}))
  <2>1. \A x \in calc_ko_hash(b) : x \notin B /\ x \notin W /\ x # KoKey(k) /\ x \notin turn
    BY KeysDiffer DEF calc_ko_hash
  <2>2. \A x \in B \cup W : x # KoKey(k) /\ x \notin turn
    BY KeysDiffer
  <2>3. KoKey(k) \notin turn
    BY KeysDiffer
  <2>4. QED
    BY <1>1, <1>2, <2>1, <2>2, <2>3 DEF Xor
<1> HIDE DEF B, W, turn, passes
<1>4. Rest(p, b.m_tomove, k, n) = Xor(Xor(Xor(Xor(B, W), turn), {KoKey(k)}), passes)
  BY DEF Rest, B, W, turn, passes
<1>5. Xor(calc_ko_hash(b), Rest(p, b.m_tomove, k, n))
        = Xor(Xor(calc_ko_hash(b), Xor(Xor(Xor(B, W), turn), {KoKey(k)})), passes)
  BY <1>4, XorTwice
<1>6. QED
  BY <1>3, <1>5 DEF passes

LEMMA InitialPosition == StateInv(init_game)
<1> DEFINE b == init_game.board
<1>1. /\ DOMAIN init_game = {"board", "m_komove", "m_passes"}
      /\ init_game.m_komove = NO_VERTEX /\ init_game.m_passes = 0
      /\ b = reset_board
  BY DEF init_game
<1>2. /\ DOMAIN b = Fields
      /\ b.m_state = [v \in Points |-> EMPTY]
      /\ b.m_parent = [v \in Points |-> None]
      /\ b.m_next = [v \in Points |-> None]
      /\ b.m_prisoners = [c \in Colors |-> 0]
      /\ b.m_tomove = BLACK
  BY <1>1 DEF reset_board, Fields
<1>3. b.m_ko_hash = calc_ko_hash(b) /\ b.m_hash = calc_hash(b, NO_VERTEX)
  BY <1>1 DEF reset_board, calc_ko_hash, calc_hash
<1> HIDE DEF b
<1>4. RingsInv(b)
  <2>1. \A v \in Points : b.m_state[v] = EMPTY /\ b.m_parent[v] = None /\ b.m_next[v] = None
    BY <1>2
  <2>2. Shape(b)
    BY <1>2 DEF Shape, Contents, Colors
  <2>3. QED
    BY <2>1, <2>2 DEF RingsInv, Linked, LeadsAround, OneColour, Stone
<1>5. Xor({PassKey(0)}, {PassKey(0)}) = {}
  BY DEF Xor
<1>6. Xor(calc_ko_hash(b), Rest(b.m_prisoners, b.m_tomove, NO_VERTEX, 0))
        = Xor(calc_hash(b, NO_VERTEX), Xor({PassKey(0)}, {PassKey(0)}))
  BY CalcHashIs
<1>7. Xor(calc_hash(b, NO_VERTEX), {}) = calc_hash(b, NO_VERTEX)
  BY DEF Xor
<1>8. HashesInv(b, Rest(b.m_prisoners, b.m_tomove, NO_VERTEX, 0))
  BY <1>3, <1>5, <1>6, <1>7 DEF HashesInv
<1>9. QED
  BY <1>1, <1>4, <1>8 DEF StateInv, b

LEMMA MoveIs ==
    ASSUME StateInv(state), NEW c \in Colors, NEW v \in Points \cup {PASS},
           v \in Points => state.board.m_state[v] = EMPTY, Move(c, v)
    PROVE  StateInv(state')
<1>1. PICK b : b = set_to_move(state.board, c)
  OBVIOUS
<1>2. PICK s : s = [state EXCEPT !.board = b]
  OBVIOUS
<1>3. state' = play_move(s, c, v)
  BY <1>1, <1>2 DEF Move
<1>4. /\ RingsInv(b) /\ b.m_tomove = c /\ b.m_state = state.board.m_state
      /\ b.m_prisoners = state.board.m_prisoners
      /\ \A k, m : HashesInv(state.board, Rest(state.board.m_prisoners,
                                              state.board.m_tomove, k, m))
                      => HashesInv(b, Rest(state.board.m_prisoners, c, k, m))
  BY <1>1, SetToMoveIs DEF StateInv
<1>5. /\ DOMAIN s = {"board", "m_komove", "m_passes"} /\ s.board = b
      /\ s.m_komove = state.m_komove /\ s.m_passes = state.m_passes
  BY <1>2 DEF StateInv
<1>6. StateInv(s)
  BY <1>4, <1>5 DEF StateInv
<1>7. v \in Points => ~Stone(s.board, v)
  BY <1>4, <1>5 DEF Stone
<1>8. QED
  BY <1>3, <1>6, <1>7, PlayMoveIs

LEMMA StateInvariant == Spec => []StateInv(state)
<1>1. Init => StateInv(state)
  BY InitialPosition DEF Init
<1>2. StateInv(state) /\ [Next]_state => StateInv(state)'
  <2> SUFFICES ASSUME StateInv(state), [Next]_state
               PROVE  StateInv(state)'
    OBVIOUS
  <2>1. CASE UNCHANGED state
    BY <2>1
  <2>2. ASSUME NEW c \in Colors, NEW v \in Points, Play(c, v)
        PROVE  StateInv(state)'
    BY <2>2, MoveIs DEF Play
  <2>3. ASSUME NEW c \in Colors, Pass(c)
        PROVE  StateInv(state)'
    <3>1. PASS \notin Points
      BY BoardAssumption DEF PASS, Points
    <3>2. QED
      BY <2>3, <3>1, MoveIs DEF Pass
  <2>4. CASE reset_game
    BY <2>4, InitialPosition DEF reset_game
  <2>5. QED
    BY <2>1, <2>2, <2>3, <2>4 DEF Next
<1>3. QED
  BY <1>1, <1>2, PTL DEF Spec

(* Whatever is played, passed or captured, and after a new game, the       *)
(* hashes kept move by move (m_hash and m_ko_hash in FullBoard.cpp and     *)
(* FastState::play_move()) are those that calc_hash() and calc_ko_hash()   *)
(* find in the position, but for the keys of the passes.                   *)
THEOREM HashesAgree == Spec => []HashExact
<1>1. StateInv(state) => HashExact
  <2> SUFFICES ASSUME StateInv(state)
               PROVE  HashExact
    OBVIOUS
  <2> DEFINE b == state.board
             passes == Xor({PassKey(0)}, {PassKey(state.m_passes)})
  <2>1. b.m_ko_hash = calc_ko_hash(b)
    BY DEF StateInv, HashesInv
  <2>2. b.m_hash = Xor(calc_ko_hash(b), Rest(b.m_prisoners, b.m_tomove,
                                            state.m_komove, state.m_passes))
    BY DEF StateInv, HashesInv
  <2>3. b.m_hash = Xor(calc_hash(b, state.m_komove), passes)
    BY <2>2, CalcHashIs
  <2>4. passes = IF state.m_passes = 0 THEN {}
                 ELSE {PassKey(0), PassKey(state.m_passes)}
    BY DEF Xor, PassKey
  <2>5. QED
    BY <2>1, <2>3, <2>4 DEF HashExact
<1>2. QED
  BY <1>1, StateInvariant, PTL


-----------------------------------------------------------------------------
(* The points.                                                             *)

LEMMA PointsFinite == IsFiniteSet(Points)
<1>1. IsFiniteSet(1 .. BOARD_SIZE)
  BY BoardAssumption, FS_Interval
<1>2. QED
  BY <1>1, FS_Product DEF Points

LEMMA FinitePart ==
    ASSUME NEW S \in SUBSET Points
    PROVE  IsFiniteSet(S) /\ Cardinality(S) \in Nat
BY PointsFinite, FS_Subset, FS_CardinalityType

LEMMA AroundIs ==
    ASSUME NEW v \in Points
    PROVE  /\ Around(v) \in SUBSET Points
           /\ v \notin Around(v)
           /\ \A w \in Around(v) : v \in Around(w)
           /\ \A w \in Around(v) : \E k \in 1 .. 4 : w = Neighbour(v, k)
           /\ \A k \in 1 .. 4 : Neighbour(v, k) \in Points => Neighbour(v, k) \in Around(v)
<1>1. \A w \in Points : Around(w) = {Neighbour(w, k) : k \in 1 .. 4} \cap Points
  BY DEF Around, Adjacent
<1>2. \A w \in Points : w[1] \in Int /\ w[2] \in Int /\ w = <<w[1], w[2]>>
  BY BoardAssumption DEF Points
<1>3. \A w \in Points : /\ Neighbour(w, 1) = <<w[1], w[2] - 1>>
                        /\ Neighbour(w, 2) = <<w[1] + 1, w[2]>>
                        /\ Neighbour(w, 3) = <<w[1], w[2] + 1>>
                        /\ Neighbour(w, 4) = <<w[1] - 1, w[2]>>
  BY DEF Neighbour
<1>4. 1 .. 4 = {1, 2, 3, 4}
  OBVIOUS
<1>5. v \notin Around(v)
  BY <1>1, <1>2, <1>3, <1>4
<1>6. ASSUME NEW w \in Around(v)
      PROVE  v \in Around(w)
  <2>1. w \in Points /\ v \in Points
    BY <1>1
  <2>2. \/ w = Neighbour(v, 1) \/ w = Neighbour(v, 2)
        \/ w = Neighbour(v, 3) \/ w = Neighbour(v, 4)
    BY <1>1, <1>4
  <2>3. v \in {Neighbour(w, k) : k \in {1, 2, 3, 4}}
    <3>1. w[1] \in Int /\ w[2] \in Int /\ v[1] \in Int /\ v[2] \in Int /\ v = <<v[1], v[2]>>
      BY <1>2, <2>1
    <3>2. CASE w = Neighbour(v, 1)
      <4>1. v = Neighbour(w, 3)
        BY <1>3, <2>1, <3>1, <3>2
      <4>2. QED
        BY <4>1
    <3>3. CASE w = Neighbour(v, 2)
      <4>1. v = Neighbour(w, 4)
        BY <1>3, <2>1, <3>1, <3>3
      <4>2. QED
        BY <4>1
    <3>4. CASE w = Neighbour(v, 3)
      <4>1. v = Neighbour(w, 1)
        BY <1>3, <2>1, <3>1, <3>4
      <4>2. QED
        BY <4>1
    <3>5. CASE w = Neighbour(v, 4)
      <4>1. v = Neighbour(w, 2)
        BY <1>3, <2>1, <3>1, <3>5
      <4>2. QED
        BY <4>1
    <3>6. QED
      BY <2>2, <3>2, <3>3, <3>4, <3>5
  <2>4. QED
    BY <1>1, <1>4, <2>1, <2>3
<1>7. QED
  BY <1>1, <1>5, <1>6

-----------------------------------------------------------------------------
(* Strings and their liberties.                                            *)

\* The empty points next to a stone of S.
Libs(b, S) == {e \in Points : b.m_state[e] = EMPTY /\ \E v \in S : e \in Around(v)}

\* Every stone of a string is reached from every other over its neighbours.
Connected(b) ==
    \A v \in Points, T \in SUBSET Points :
        /\ Stone(b, v) /\ v \in T
        /\ \A u \in T : \A w \in Around(u) : b.m_state[w] = b.m_state[v] => w \in T
        => Members(b, v) \subseteq T

\* Stones of a colour next to each other are of one string, but for i and the
\* points of D.
Separate(b, i, D) ==
    \A u \in Points : \A w \in Around(u) :
        Stone(b, u) /\ b.m_state[w] = b.m_state[u] =>
            \/ b.m_parent[w] = b.m_parent[u]
            \/ u = i /\ w \in D
            \/ w = i /\ u \in D

Near(b, v, c) == {a \in Around(v) : b.m_state[a] = c}

\* m_stones, m_libs and m_neighbours count what they stand for.
Counted(b) ==
    /\ DOMAIN b.m_libs = Points /\ DOMAIN b.m_stones = Points
    /\ \A r \in Points : Stone(b, r) /\ b.m_parent[r] = r =>
          /\ b.m_stones[r] = Cardinality(Members(b, r))
          /\ b.m_libs[r] = Cardinality(Libs(b, Members(b, r)))
    /\ DOMAIN b.m_neighbours = Points
    /\ \A v \in Points :
          /\ DOMAIN b.m_neighbours[v] = Contents
          /\ \A c \in Contents :
                b.m_neighbours[v][c] =
                    Cardinality(Near(b, v, c))
                    + (IF c = EMPTY THEN 0 ELSE 4 - Cardinality(Around(v)))

LEMMA MembersAre ==
    ASSUME NEW b, RingsInv(b), NEW v \in Points, Stone(b, v), NEW w \in Members(b, v)
    PROVE  /\ w \in Points /\ Stone(b, w) /\ b.m_state[w] = b.m_state[v]
           /\ b.m_parent[w] = b.m_parent[v] /\ Members(b, w) = Members(b, v)
           /\ b.m_parent[v] \in Members(b, v) /\ v \in Members(b, v)
           /\ b.m_parent[v] \in Points /\ b.m_parent[b.m_parent[v]] = b.m_parent[v]
           /\ Members(b, b.m_parent[v]) = Members(b, v)
BY DEF Members, RingsInv, Linked, OneColour, Stone

(* The place where the code counts: at the root of v.                      *)
LEMMA CountsAt ==
    ASSUME NEW b, RingsInv(b), Counted(b), NEW v \in Points, Stone(b, v)
    PROVE  /\ b.m_stones[b.m_parent[v]] = Cardinality(Members(b, v))
           /\ b.m_libs[b.m_parent[v]] = Cardinality(Libs(b, Members(b, v)))
           /\ HasNoLiberty(b, b.m_parent[v]) <=> Libs(b, Members(b, v)) = {}
<1>1. v \in Members(b, v)
  BY DEF Members
<1>2. /\ b.m_stones[b.m_parent[v]] = Cardinality(Members(b, v))
      /\ b.m_libs[b.m_parent[v]] = Cardinality(Libs(b, Members(b, v)))
  BY <1>1, MembersAre DEF Counted
<1>3. /\ IsFiniteSet(Libs(b, Members(b, v)))
      /\ Cardinality(Libs(b, Members(b, v))) \in Nat
  BY FinitePart DEF Libs
<1>4. QED
  BY <1>2, <1>3, FS_EmptySet DEF HasNoLiberty


-----------------------------------------------------------------------------
(* What the operations on strings do to the counts.                        *)

LEMMA AddOne ==
    ASSUME NEW S \in SUBSET Points, NEW i \in Points
    PROVE  /\ i \notin S => Cardinality(S \cup {i}) = Cardinality(S) + 1
           /\ i \in S => Cardinality(S \ {i}) = Cardinality(S) - 1
BY FinitePart, FS_AddElement, FS_RemoveElement

LEMMA PutStoneCounts ==
    ASSUME NEW b, RingsInv(b), Counted(b), Connected(b), Separate(b, NO_VERTEX, {}),
           NEW color \in Colors, NEW i \in Points, ~Stone(b, i),
           NEW n, n = PutStone(b, color, i)
    PROVE  /\ Counted(n) /\ Connected(n) /\ Separate(n, i, Around(i))
           /\ Members(n, i) = {i}
           /\ \A v \in Points \ {i} : Stone(b, v) =>
                 /\ Members(n, v) = Members(b, v)
                 /\ Libs(n, Members(n, v)) = Libs(b, Members(b, v)) \ {i}
<1>1. /\ RingsInv(n)
      /\ n.m_state[i] = color /\ n.m_parent[i] = i
      /\ \A v \in Points \ {i} : /\ n.m_state[v] = b.m_state[v]
                                /\ n.m_parent[v] = b.m_parent[v]
  BY PutStoneIs
<1>2. color # EMPTY /\ b.m_state[i] = EMPTY /\ color \in Contents /\ EMPTY \in Contents
  BY Others DEF Stone, Contents
<1>3. \A v \in Points : Stone(n, v) <=> v = i \/ Stone(b, v)
  BY <1>1, <1>2 DEF Stone
<1>4. \A v \in Points : Stone(b, v) => v # i /\ b.m_parent[v] # i
  BY <1>2, BoardAssumption DEF RingsInv, Linked, Stone
<1>5. ASSUME NEW v \in Points \ {i}, Stone(b, v)
      PROVE  Members(n, v) = Members(b, v) /\ i \notin Members(b, v)
  <2>1. b.m_parent[v] # None /\ b.m_parent[v] # i /\ b.m_parent[i] = None
    BY <1>2, <1>4, <1>5, BoardAssumption DEF RingsInv, Linked, Stone
  <2>2. QED
    BY <1>1, <2>1 DEF Members
<1>6. Members(n, i) = {i}
  <2>1. \A w \in Points \ {i} : n.m_parent[w] # i
    BY <1>1, <1>4, BoardAssumption DEF RingsInv, Linked
  <2>2. QED
    BY <1>1, <2>1 DEF Members
<1>7. ASSUME NEW S \in SUBSET Points
      PROVE  Libs(n, S) = Libs(b, S) \ {i}
  BY <1>1, <1>2 DEF Libs
<1>8. ASSUME NEW v \in Points, NEW c \in Contents
      PROVE  Near(n, v, c) = IF i \notin Around(v) THEN Near(b, v, c)
                             ELSE IF c = color THEN Near(b, v, c) \cup {i}
                             ELSE IF c = EMPTY THEN Near(b, v, c) \ {i}
                             ELSE Near(b, v, c)
  BY <1>1, <1>2, AroundIs DEF Near
<1>9. /\ n.m_stones = [b.m_stones EXCEPT ![i] = 1]
      /\ n.m_libs = [r \in Points |->
                        IF r \in Roots(n, i)
                        THEN [b.m_libs EXCEPT ![i] = b.m_neighbours[i][EMPTY]][r] - 1
                        ELSE [b.m_libs EXCEPT ![i] = b.m_neighbours[i][EMPTY]][r]]
      /\ n.m_neighbours = [a \in Points |-> IF a \in Around(i)
                             THEN [b.m_neighbours[a] EXCEPT ![color] = @ + 1, ![EMPTY] = @ - 1]
                             ELSE b.m_neighbours[a]]
  <2>1. PICK m : m = SetState(b, {i}, color)
    OBVIOUS
  <2>2. PICK l : l = NewString(m, i)
    OBVIOUS
  <2>3. n = add_neighbour(l, i, color)
    BY <2>1, <2>2 DEF PutStone
  <2>4. /\ DOMAIN m = Fields /\ m.m_parent = b.m_parent /\ m.m_libs = b.m_libs
        /\ m.m_stones = b.m_stones /\ m.m_neighbours = b.m_neighbours
    BY <2>1 DEF SetState, RingsInv, Shape, Fields
  <2>5. /\ DOMAIN l = Fields /\ l.m_parent = [b.m_parent EXCEPT ![i] = i]
        /\ l.m_stones = [b.m_stones EXCEPT ![i] = 1]
        /\ l.m_libs = [b.m_libs EXCEPT ![i] = b.m_neighbours[i][EMPTY]]
        /\ l.m_neighbours = b.m_neighbours
    BY <2>2, <2>4 DEF NewString, count_pliberties, Fields
  <2>6. /\ n.m_stones = l.m_stones /\ n.m_parent = l.m_parent
        /\ n.m_libs = [r \in Points |-> IF r \in Roots(l, i) THEN l.m_libs[r] - 1
                                        ELSE l.m_libs[r]]
        /\ n.m_neighbours = [a \in Points |-> IF a \in Around(i)
                               THEN [l.m_neighbours[a] EXCEPT ![color] = @ + 1, ![EMPTY] = @ - 1]
                               ELSE l.m_neighbours[a]]
    <3>1. /\ n.m_stones = l.m_stones /\ n.m_parent = l.m_parent
          /\ n.m_libs = [r \in Points |-> IF r \in Roots(l, i) THEN l.m_libs[r] - 1
                                          ELSE l.m_libs[r]]
      BY <2>3, <2>5 DEF add_neighbour, Fields
    <3>2. n.m_neighbours = [a \in Points |-> IF a \in Around(i)
                               THEN [l.m_neighbours[a] EXCEPT ![color] = @ + 1, ![EMPTY] = @ - 1]
                               ELSE l.m_neighbours[a]]
      BY <2>3, <2>5 DEF add_neighbour, Fields
    <3>3. QED
      BY <3>1, <3>2
  <2>7. Roots(n, i) = Roots(l, i)
    BY <2>6 DEF Roots
  <2>8. QED
    BY <2>5, <2>6, <2>7
<1>10. ASSUME NEW v \in Points, Stone(n, v), n.m_parent[v] = v
       PROVE  /\ n.m_stones[v] = Cardinality(Members(n, v))
              /\ n.m_libs[v] = Cardinality(Libs(n, Members(n, v)))
  <2>1. v \in Roots(n, i) <=> \E a \in Around(i) : n.m_parent[a] = v
    BY BoardAssumption DEF Roots
  <2>2. CASE v = i
    <3>1. n.m_stones[i] = Cardinality(Members(n, i))
      BY <1>6, <1>9, FS_Singleton DEF Counted
    <3>2. i \notin Roots(n, i)
      BY <1>1, <1>6, <2>1, <2>2, AroundIs DEF Members
    <3>3. n.m_libs[i] = Cardinality(Near(b, i, EMPTY))
      <4>1. n.m_libs[i] = b.m_neighbours[i][EMPTY]
        BY <1>9, <3>2 DEF Counted
      <4>2. Near(b, i, EMPTY) \in SUBSET Points
        BY AroundIs DEF Near
      <4>3. QED
        BY <1>2, <4>1, <4>2, FinitePart DEF Counted
    <3>4. Near(b, i, EMPTY) = Libs(n, {i})
      BY <1>1, <1>2, AroundIs DEF Near, Libs
    <3>5. QED
      BY <1>6, <2>2, <3>1, <3>3, <3>4
  <2>3. CASE v # i
    <3>1. Stone(b, v) /\ b.m_parent[v] = v /\ Members(n, v) = Members(b, v)
      BY <1>1, <1>3, <1>5, <1>10, <2>3
    <3>2. /\ b.m_stones[v] = Cardinality(Members(b, v))
          /\ b.m_libs[v] = Cardinality(Libs(b, Members(b, v)))
      BY <3>1 DEF Counted
    <3>3. n.m_stones[v] = Cardinality(Members(n, v))
      BY <1>9, <2>3, <3>1, <3>2 DEF Counted
    <3>4. Libs(n, Members(n, v)) = Libs(b, Members(b, v)) \ {i}
      BY <1>7, <3>1 DEF Members
    <3>5. v \in Roots(n, i) <=> i \in Libs(b, Members(b, v))
      <4>1. v \in Roots(n, i) <=> \E a \in Around(i) : b.m_parent[a] = v
        BY <1>1, <2>1, AroundIs
      <4>2. QED
        BY <1>2, <3>1, <4>1, AroundIs DEF Libs, Members
    <3>6. n.m_libs[v] = IF v \in Roots(n, i) THEN b.m_libs[v] - 1 ELSE b.m_libs[v]
      BY <1>9, <2>3 DEF Counted
    <3>7. Libs(b, Members(b, v)) \in SUBSET Points
      BY DEF Libs
    <3>8. i \notin Libs(b, Members(b, v)) =>
             Libs(b, Members(b, v)) \ {i} = Libs(b, Members(b, v))
      OBVIOUS
    <3>9. n.m_libs[v] = Cardinality(Libs(n, Members(n, v)))
      BY <3>2, <3>4, <3>5, <3>6, <3>7, <3>8, AddOne
    <3>10. QED
      BY <3>3, <3>9
  <2>4. QED
    BY <2>2, <2>3
<1>11. ASSUME NEW v \in Points, NEW c \in Contents
       PROVE  /\ DOMAIN n.m_neighbours[v] = Contents
              /\ n.m_neighbours[v][c] =
                    Cardinality(Near(n, v, c))
                    + (IF c = EMPTY THEN 0 ELSE 4 - Cardinality(Around(v)))
  <2>1. /\ DOMAIN b.m_neighbours[v] = Contents
        /\ b.m_neighbours[v][c] =
              Cardinality(Near(b, v, c))
              + (IF c = EMPTY THEN 0 ELSE 4 - Cardinality(Around(v)))
    BY DEF Counted
  <2>2. Near(b, v, c) \in SUBSET Points /\ Around(v) \in SUBSET Points
    BY AroundIs DEF Near
  <2>3. Cardinality(Near(b, v, c)) \in Nat /\ Cardinality(Around(v)) \in Nat
    BY <2>2, FinitePart
  <2>4. CASE i \notin Around(v)
    BY <1>8, <1>9, <2>1, <2>4, AroundIs
  <2>5. CASE i \in Around(v)
    <3>1. v \in Around(i)
      BY <2>5, AroundIs
    <3>2. n.m_neighbours[v] = [b.m_neighbours[v] EXCEPT ![color] = @ + 1, ![EMPTY] = @ - 1]
      BY <1>9, <3>1
    <3>3. DOMAIN n.m_neighbours[v] = Contents
      BY <2>1, <3>2
    <3>4. n.m_neighbours[v][c] = IF c = color THEN b.m_neighbours[v][c] + 1
                                 ELSE IF c = EMPTY THEN b.m_neighbours[v][c] - 1
                                 ELSE b.m_neighbours[v][c]
      BY <1>2, <2>1, <3>2
    <3>5. (i \in Near(b, v, c)) <=> c = EMPTY
      BY <1>2, <2>5 DEF Near
    <3>6. CASE c = color
      <4>1. Cardinality(Near(n, v, c)) = Cardinality(Near(b, v, c)) + 1
        BY <1>2, <1>8, <2>2, <2>5, <3>5, <3>6, AddOne
      <4>2. QED
        BY <1>2, <2>1, <2>3, <3>3, <3>4, <3>6, <4>1
    <3>7. CASE c = EMPTY
      <4>1. Cardinality(Near(n, v, c)) = Cardinality(Near(b, v, c)) - 1
        BY <1>2, <1>8, <2>2, <2>5, <3>5, <3>7, AddOne
      <4>2. QED
        BY <1>2, <2>1, <2>3, <3>3, <3>4, <3>7, <4>1
    <3>8. CASE c # color /\ c # EMPTY
      BY <1>8, <2>1, <2>5, <3>3, <3>4, <3>8
    <3>9. QED
      BY <3>6, <3>7, <3>8
  <2>6. QED
    BY <2>4, <2>5
<1>12. Counted(n)
  <2>1. DOMAIN n.m_libs = Points /\ DOMAIN n.m_stones = Points /\ DOMAIN n.m_neighbours = Points
    BY <1>9 DEF Counted
  <2>2. QED
    BY <1>2, <1>10, <1>11, <2>1 DEF Counted
<1>13. Connected(n)
  <2> SUFFICES ASSUME NEW v \in Points, NEW T \in SUBSET Points, Stone(n, v), v \in T,
                      \A u \in T : \A w \in Around(u) :
                          n.m_state[w] = n.m_state[v] => w \in T
               PROVE  Members(n, v) \subseteq T
    BY DEF Connected
  <2>1. CASE v = i
    BY <1>6, <2>1
  <2>2. CASE v # i
    <3>1. Stone(b, v) /\ n.m_state[v] = b.m_state[v]
      BY <1>1, <1>3, <2>2
    <3>2. \A u \in T : \A w \in Around(u) : b.m_state[w] = b.m_state[v] => w \in T
      BY <1>1, <1>2, <3>1, AroundIs DEF Stone
    <3>3. QED
      BY <1>5, <2>2, <3>1, <3>2 DEF Connected
  <2>3. QED
    BY <2>1, <2>2
<1>14. Separate(n, i, Around(i))
  <2> SUFFICES ASSUME NEW u \in Points, NEW w \in Around(u), Stone(n, u),
                      n.m_state[w] = n.m_state[u]
               PROVE  \/ n.m_parent[w] = n.m_parent[u]
                      \/ u = i /\ w \in Around(i)
                      \/ w = i /\ u \in Around(i)
    BY DEF Separate
  <2>1. CASE u # i /\ w # i
    <3>1. w \in Points /\ NO_VERTEX \notin Points
      BY AroundIs, BoardAssumption DEF NO_VERTEX, Points
    <3>2. QED
      BY <1>1, <1>3, <2>1, <3>1 DEF Separate
  <2>2. QED
    BY <2>1, AroundIs
<1>15. \A v \in Points \ {i} : Stone(b, v) =>
          Libs(n, Members(n, v)) = Libs(b, Members(b, v)) \ {i}
  BY <1>5, <1>7 DEF Members
<1>16. QED
  BY <1>5, <1>6, <1>12, <1>13, <1>14, <1>15


LEMMA Disjoint ==
    ASSUME NEW S \in SUBSET Points, NEW T \in SUBSET Points, S \cap T = {}
    PROVE  Cardinality(S \cup T) = Cardinality(S) + Cardinality(T)
<1>1. /\ IsFiniteSet(S) /\ IsFiniteSet(T)
      /\ Cardinality(S) \in Nat /\ Cardinality(T) \in Nat
  BY FinitePart
<1>2. Cardinality(S \cap T) = 0
  BY FS_EmptySet
<1>3. Cardinality(S \cup T) = Cardinality(S) + Cardinality(T) - Cardinality(S \cap T)
  BY <1>1, FS_Union
<1>4. QED
  BY <1>1, <1>2, <1>3

LEMMA MergeCounts ==
    ASSUME NEW b, RingsInv(b), Counted(b), Connected(b),
           NEW ip \in Points, NEW aip \in Points, ip # aip,
           Stone(b, ip), b.m_parent[ip] = ip, b.m_parent[aip] = aip,
           b.m_state[aip] = b.m_state[ip],
           NEW p \in Members(b, ip), NEW q \in Members(b, aip), q \in Around(p),
           NEW n, n = merge_strings(b, ip, aip)
    PROVE  /\ Counted(n) /\ Connected(n)
           /\ \A v \in Points : b.m_parent[v] \notin {ip, aip} => Members(n, v) = Members(b, v)
<1> DEFINE own == Members(b, ip)
           joining == Members(b, aip)
<1>1. /\ n.m_state = b.m_state
      /\ \A v \in Points :
            n.m_parent[v] = IF b.m_parent[v] = aip THEN ip ELSE b.m_parent[v]
  BY MergeIs
<1>2. Stone(b, aip) /\ StringOf(b, ip) = own /\ StringOf(b, aip) = joining
  BY RingIs DEF Stone
<1>3. /\ n.m_stones = [b.m_stones EXCEPT ![ip] = b.m_stones[ip] + b.m_stones[aip],
                                         ![aip] = None]
      /\ n.m_libs = [b.m_libs EXCEPT
                        ![ip] = b.m_libs[ip] + Cardinality(FreshLiberties(b, own, joining)),
                        ![aip] = None]
      /\ n.m_neighbours = b.m_neighbours
  BY <1>2 DEF merge_strings, JoinRings, RingsInv, Shape, Fields, Counted
<1>4. own \cap joining = {} /\ own \in SUBSET Points /\ joining \in SUBSET Points
  BY DEF Members
<1>5. \A v \in Points :
         /\ b.m_parent[v] \in {ip, aip} => Members(n, v) = own \cup joining
         /\ b.m_parent[v] \notin {ip, aip} => Members(n, v) = Members(b, v)
  BY <1>1 DEF Members
<1>6. \A S : Libs(n, S) = Libs(b, S)
  BY <1>1 DEF Libs
<1>7. \A v \in Points : Stone(n, v) <=> Stone(b, v)
  BY <1>1 DEF Stone
<1>8. /\ n.m_stones[ip] = Cardinality(own \cup joining)
      /\ n.m_libs[ip] = Cardinality(Libs(b, own \cup joining))
  <2>1. /\ b.m_stones[ip] = Cardinality(own) /\ b.m_stones[aip] = Cardinality(joining)
        /\ b.m_libs[ip] = Cardinality(Libs(b, own))
    BY <1>2 DEF Counted
  <2>2. /\ n.m_stones[ip] = b.m_stones[ip] + b.m_stones[aip]
        /\ n.m_libs[ip] = b.m_libs[ip] + Cardinality(FreshLiberties(b, own, joining))
    BY <1>3 DEF Counted
  <2>3. n.m_stones[ip] = Cardinality(own \cup joining)
    BY <1>4, <2>1, <2>2, Disjoint
  <2>4. \A e \in Points : Around(e) \cap own = {} <=> ~\E v \in own : e \in Around(v)
    BY <1>4, AroundIs
  <2>5. FreshLiberties(b, own, joining) = Libs(b, joining) \ Libs(b, own)
    BY <1>4, <2>4, AroundIs DEF FreshLiberties, Libs
  <2>6. /\ Libs(b, own \cup joining) = Libs(b, own) \cup FreshLiberties(b, own, joining)
        /\ Libs(b, own) \cap FreshLiberties(b, own, joining) = {}
        /\ Libs(b, own) \in SUBSET Points
        /\ FreshLiberties(b, own, joining) \in SUBSET Points
    BY <2>5 DEF Libs
  <2>7. QED
    BY <2>1, <2>2, <2>3, <2>6, Disjoint
<1>9. ASSUME NEW r \in Points, Stone(n, r), n.m_parent[r] = r
      PROVE  /\ n.m_stones[r] = Cardinality(Members(n, r))
             /\ n.m_libs[r] = Cardinality(Libs(n, Members(n, r)))
  <2>1. CASE r = ip
    BY <1>5, <1>6, <1>8, <2>1
  <2>2. CASE r # ip
    <3>1. r # aip /\ b.m_parent[r] = r /\ Stone(b, r)
      BY <1>1, <1>7, <1>9, <2>2
    <3>2. /\ Members(n, r) = Members(b, r)
          /\ n.m_stones[r] = b.m_stones[r] /\ n.m_libs[r] = b.m_libs[r]
      BY <1>3, <1>5, <2>2, <3>1 DEF Counted
    <3>3. QED
      BY <1>6, <3>1, <3>2 DEF Counted
  <2>3. QED
    BY <2>1, <2>2
<1>10. Counted(n)
  <2>1. DOMAIN n.m_libs = Points /\ DOMAIN n.m_stones = Points
    BY <1>3 DEF Counted
  <2>2. \A v \in Points, c \in Contents : Near(n, v, c) = Near(b, v, c)
    BY <1>1 DEF Near
  <2>3. QED
    BY <1>3, <1>9, <2>1, <2>2 DEF Counted
<1>11. Connected(n)
  <2> SUFFICES ASSUME NEW v \in Points, NEW T \in SUBSET Points, Stone(n, v), v \in T,
                      \A u \in T : \A w \in Around(u) :
                          n.m_state[w] = n.m_state[v] => w \in T
               PROVE  Members(n, v) \subseteq T
    BY DEF Connected
  <2>1. \A x \in T : b.m_state[x] = b.m_state[v] => Members(b, x) \subseteq T
    BY <1>1, <1>7 DEF Connected, Stone
  <2>2. Members(b, v) \subseteq T /\ Stone(b, v)
    BY <1>7, <2>1
  <2>3. CASE b.m_parent[v] \notin {ip, aip}
    BY <1>5, <2>2, <2>3
  <2>4. CASE b.m_parent[v] \in {ip, aip}
    <3>1. \A x \in own \cup joining : b.m_state[x] = b.m_state[ip]
      BY <1>2, MembersAre
    <3>2. v \in own \cup joining /\ b.m_state[v] = b.m_state[ip]
      BY <2>4, <3>1 DEF Members
    <3>3. /\ \A x \in own : Members(b, x) = own
          /\ \A x \in joining : Members(b, x) = joining
      BY <1>2, MembersAre
    <3>4. p \in Around(q) /\ p \in Points /\ q \in Points
      BY <1>4, AroundIs
    <3>5. CASE v \in own
      <4>1. p \in T
        BY <2>2, <3>3, <3>5
      <4>2. q \in T
        BY <1>1, <3>1, <3>2, <4>1
      <4>3. joining \subseteq T
        BY <2>1, <3>1, <3>2, <3>3, <4>2
      <4>4. QED
        BY <1>5, <2>2, <2>4, <3>3, <3>5, <4>3
    <3>6. CASE v \in joining
      <4>1. q \in T
        BY <2>2, <3>3, <3>6
      <4>2. p \in T
        BY <1>1, <3>1, <3>2, <3>4, <4>1
      <4>3. own \subseteq T
        BY <2>1, <3>1, <3>2, <3>3, <4>2
      <4>4. QED
        BY <1>5, <2>2, <2>4, <3>3, <3>6, <4>3
    <3>7. QED
      BY <3>2, <3>5, <3>6
  <2>5. QED
    BY <2>3, <2>4
<1>12. QED
  BY <1>5, <1>10, <1>11

\* S holds the whole of each of its strings, all of this colour, and what is
\* of this colour next to them.
Whole(b, S, color) ==
    \A v \in S : /\ Stone(b, v) /\ b.m_state[v] = color /\ Members(b, v) \subseteq S
                 /\ \A w \in Around(v) : b.m_state[w] = color => w \in S

LEMMA TakeOffCounts ==
    ASSUME NEW b, RingsInv(b), Counted(b), Connected(b),
           NEW S \in SUBSET Points, NEW color \in Colors,
           Whole(b, S, color),
           NEW n, n = TakeOff(b, S, color)
    PROVE  /\ Counted(n) /\ Connected(n)
           /\ \A v \in Points \ S : Stone(b, v) =>
                 /\ Members(n, v) = Members(b, v)
                 /\ Libs(n, Members(n, v)) =
                       Libs(b, Members(b, v))
                       \cup {u \in S : \E w \in Members(b, v) : u \in Around(w)}
<1> DEFINE near(a) == Cardinality(Around(a) \cap S)
           gain(r) == {v \in S : r \in Roots(b, v)}
<1>1. \A v \in S : /\ Stone(b, v) /\ b.m_state[v] = color /\ Members(b, v) \subseteq S
                   /\ \A w \in Around(v) : b.m_state[w] = color => w \in S
  BY DEF Whole
<1>2. \A v \in Points :
         /\ n.m_state[v] = IF v \in S THEN EMPTY ELSE b.m_state[v]
         /\ n.m_parent[v] = IF v \in S THEN None ELSE b.m_parent[v]
  BY <1>1, TakeOffIs
<1>3. color # EMPTY /\ color \in Contents /\ EMPTY \in Contents
  BY Others DEF Contents
<1>4. \A v \in Points : Stone(n, v) <=> v \notin S /\ Stone(b, v)
  BY <1>2 DEF Stone
<1>5. /\ n.m_stones = [v \in Points |-> IF v \in S THEN None ELSE b.m_stones[v]]
      /\ n.m_libs = [v \in Points |->
                        IF v \in S \/ b.m_libs[v] = None THEN None
                        ELSE b.m_libs[v] + Cardinality(gain(v))]
      /\ n.m_neighbours = [a \in Points |->
            [b.m_neighbours[a] EXCEPT ![color] = @ - near(a), ![EMPTY] = @ + near(a)]]
  <2>1. PICK m : m = SetState(b, S, EMPTY)
    OBVIOUS
  <2>2. /\ DOMAIN m = Fields /\ m.m_parent = b.m_parent /\ m.m_libs = b.m_libs
        /\ m.m_stones = b.m_stones /\ m.m_neighbours = b.m_neighbours
    BY <2>1 DEF SetState, RingsInv, Shape, Fields
  <2>3. QED
    BY <2>1, <2>2 DEF TakeOff, Fields
<1>6. ASSUME NEW v \in Points \ S, Stone(b, v)
      PROVE  Members(n, v) = Members(b, v) /\ Members(b, v) \cap S = {}
  <2>1. b.m_parent[v] # None
    BY <1>6, BoardAssumption DEF RingsInv, Linked
  <2>2. \A w \in S : b.m_parent[w] # b.m_parent[v]
    BY <1>1 DEF Members
  <2>3. QED
    BY <1>2, <2>1, <2>2 DEF Members
<1>7. ASSUME NEW M \in SUBSET Points
      PROVE  Libs(n, M) = Libs(b, M) \cup {u \in S : \E w \in M : u \in Around(w)}
  BY <1>2, AroundIs DEF Libs
<1>8. ASSUME NEW r \in Points, Stone(n, r), n.m_parent[r] = r
      PROVE  /\ n.m_stones[r] = Cardinality(Members(n, r))
             /\ n.m_libs[r] = Cardinality(Libs(n, Members(n, r)))
  <2>1. r \notin S /\ Stone(b, r) /\ b.m_parent[r] = r
    BY <1>2, <1>4, <1>8
  <2>2. Members(n, r) = Members(b, r) /\ Members(b, r) \in SUBSET Points
    BY <1>6, <2>1 DEF Members
  <2>3. /\ b.m_stones[r] = Cardinality(Members(b, r))
        /\ b.m_libs[r] = Cardinality(Libs(b, Members(b, r)))
    BY <2>1 DEF Counted
  <2>4. n.m_stones[r] = Cardinality(Members(n, r))
    BY <1>5, <2>1, <2>2, <2>3
  <2>5. Libs(b, Members(b, r)) \in SUBSET Points /\ gain(r) \in SUBSET Points
    BY DEF Libs
  <2>6. gain(r) = {u \in S : \E w \in Members(b, r) : u \in Around(w)}
    <3>1. \A v \in S : r \in Roots(b, v) <=> \E a \in Around(v) : b.m_parent[a] = r
      BY BoardAssumption DEF Roots
    <3>2. QED
      BY <2>1, <3>1, AroundIs DEF Members
  <2>7. Libs(b, Members(b, r)) \cap gain(r) = {}
    BY <1>1 DEF Libs, Stone
  <2>8. Libs(n, Members(n, r)) = Libs(b, Members(b, r)) \cup gain(r)
    BY <1>7, <2>2, <2>6
  <2>9. b.m_libs[r] # None
    BY <2>3, <2>5, FinitePart, BoardAssumption
  <2>10. n.m_libs[r] = b.m_libs[r] + Cardinality(gain(r))
    BY <1>5, <2>1, <2>9
  <2>11. QED
    BY <2>3, <2>4, <2>5, <2>7, <2>8, <2>10, Disjoint
<1>9. ASSUME NEW v \in Points, NEW c \in Contents
      PROVE  /\ DOMAIN n.m_neighbours[v] = Contents
             /\ n.m_neighbours[v][c] =
                   Cardinality(Near(n, v, c))
                   + (IF c = EMPTY THEN 0 ELSE 4 - Cardinality(Around(v)))
  <2>1. /\ DOMAIN b.m_neighbours[v] = Contents
        /\ b.m_neighbours[v][c] =
              Cardinality(Near(b, v, c))
              + (IF c = EMPTY THEN 0 ELSE 4 - Cardinality(Around(v)))
    BY DEF Counted
  <2>2. /\ Near(b, v, c) \in SUBSET Points /\ Around(v) \in SUBSET Points
        /\ Around(v) \cap S \in SUBSET Points
    BY AroundIs DEF Near
  <2>3. /\ Cardinality(Near(b, v, c)) \in Nat /\ Cardinality(Around(v)) \in Nat
        /\ near(v) \in Nat
    BY <2>2, FinitePart
  <2>4. n.m_neighbours[v] =
           [b.m_neighbours[v] EXCEPT ![color] = @ - near(v), ![EMPTY] = @ + near(v)]
    BY <1>5
  <2>5. DOMAIN n.m_neighbours[v] = Contents
    BY <2>1, <2>4
  <2>6. n.m_neighbours[v][c] = IF c = color THEN b.m_neighbours[v][c] - near(v)
                               ELSE IF c = EMPTY THEN b.m_neighbours[v][c] + near(v)
                               ELSE b.m_neighbours[v][c]
    BY <1>3, <2>1, <2>4
  <2>7. CASE c = color
    <3>1. Near(n, v, c) = Near(b, v, c) \ S /\ Near(b, v, c) \cap S = Around(v) \cap S
      BY <1>1, <1>2, <1>3, <2>2, <2>7 DEF Near
    <3>2. Cardinality(Near(n, v, c)) = Cardinality(Near(b, v, c)) - near(v)
      BY <2>2, <3>1, FinitePart, FS_Difference
    <3>3. QED
      BY <1>3, <2>1, <2>3, <2>5, <2>6, <2>7, <3>2
  <2>8. CASE c = EMPTY
    <3>1. /\ Near(n, v, c) = Near(b, v, c) \cup (Around(v) \cap S)
          /\ Near(b, v, c) \cap (Around(v) \cap S) = {}
      BY <1>1, <1>2, <2>2, <2>8 DEF Near, Stone
    <3>2. Cardinality(Near(n, v, c)) = Cardinality(Near(b, v, c)) + near(v)
      BY <2>2, <3>1, Disjoint
    <3>3. QED
      BY <1>3, <2>1, <2>3, <2>5, <2>6, <2>8, <3>2
  <2>9. CASE c # color /\ c # EMPTY
    <3>1. Near(n, v, c) = Near(b, v, c)
      BY <1>1, <1>2, <2>2, <2>9 DEF Near
    <3>2. QED
      BY <2>1, <2>5, <2>6, <2>9, <3>1
  <2>10. QED
    BY <2>7, <2>8, <2>9
<1>10. Counted(n)
  <2>1. DOMAIN n.m_libs = Points /\ DOMAIN n.m_stones = Points /\ DOMAIN n.m_neighbours = Points
    BY <1>5
  <2>2. QED
    BY <1>3, <1>8, <1>9, <2>1 DEF Counted
<1>11. Connected(n)
  <2> SUFFICES ASSUME NEW v \in Points, NEW T \in SUBSET Points, Stone(n, v), v \in T,
                      \A u \in T : \A w \in Around(u) :
                          n.m_state[w] = n.m_state[v] => w \in T
               PROVE  Members(n, v) \subseteq T
    BY DEF Connected
  <2> DEFINE U == {u \in T : n.m_state[u] = n.m_state[v]}
  <2>1. v \notin S /\ Stone(b, v) /\ n.m_state[v] = b.m_state[v] /\ b.m_state[v] # EMPTY
    BY <1>2, <1>4 DEF Stone
  <2>2. \A u \in U : u \notin S /\ b.m_state[u] = b.m_state[v]
    BY <1>2, <2>1
  <2>3. ASSUME NEW u \in U, NEW w \in Around(u), b.m_state[w] = b.m_state[v]
        PROVE  w \in U
    <3>1. u \in Around(w) /\ w \in Points
      BY AroundIs
    <3>2. w \notin S
      BY <1>1, <2>2, <2>3, <3>1
    <3>3. QED
      BY <1>2, <2>1, <2>3, <3>1, <3>2
  <2>4. Members(b, v) \subseteq U
    BY <2>1, <2>3 DEF Connected
  <2>5. QED
    BY <1>6, <2>1, <2>4
<1>12. \A v \in Points \ S : Stone(b, v) =>
          Libs(n, Members(n, v)) =
              Libs(b, Members(b, v)) \cup {u \in S : \E w \in Members(b, v) : u \in Around(w)}
  <2>1. \A v : Members(b, v) \in SUBSET Points
    BY DEF Members
  <2>2. QED
    BY <1>6, <1>7, <2>1
<1>13. QED
  BY <1>6, <1>10, <1>11, <1>12


LEMMA JoinCounts ==
    ASSUME NEW b, RingsInv(b), Counted(b), Connected(b),
           NEW i \in Points, NEW a \in Around(i),
           Stone(b, i), b.m_state[a] = b.m_state[i],
           b.m_parent[i] # b.m_parent[a],
           NEW n, n = Join(b, b.m_parent[i], b.m_parent[a])
    PROVE  /\ Counted(n) /\ Connected(n)
           /\ n.m_parent[a] = n.m_parent[i]
           /\ \A u, w \in Points : b.m_parent[u] = b.m_parent[w]
                                      => n.m_parent[u] = n.m_parent[w]
           /\ \A v \in Points : Stone(b, v) /\ b.m_state[v] # b.m_state[i] =>
                 Members(n, v) = Members(b, v) /\ n.m_parent[v] = b.m_parent[v]
<1>1. a \in Points /\ i \in Around(a) /\ Stone(b, a)
  BY AroundIs DEF Stone
<1>2. \A v \in {i, a} : LET r == b.m_parent[v] IN
         /\ r \in Points /\ b.m_parent[r] = r /\ b.m_state[r] = b.m_state[i]
         /\ Stone(b, r) /\ v \in Members(b, r)
  BY <1>1 DEF RingsInv, Linked, OneColour, Stone, Members
<1>3. PICK ip \in Points, aip \in Points :
         /\ \/ ip = b.m_parent[i] /\ aip = b.m_parent[a]
            \/ ip = b.m_parent[a] /\ aip = b.m_parent[i]
         /\ n = merge_strings(b, ip, aip)
  BY <1>2 DEF Join
<1>4. /\ ip # aip /\ Stone(b, ip) /\ b.m_parent[ip] = ip /\ b.m_parent[aip] = aip
      /\ b.m_state[aip] = b.m_state[ip] /\ b.m_state[ip] = b.m_state[i]
      /\ {ip, aip} = {b.m_parent[i], b.m_parent[a]}
  BY <1>2, <1>3
<1>5. PICK p \in Members(b, ip), q \in Members(b, aip) : q \in Around(p)
  BY <1>1, <1>2, <1>3
<1>6. \A v \in Points :
         n.m_parent[v] = IF b.m_parent[v] = aip THEN ip ELSE b.m_parent[v]
  BY <1>3, <1>4, MergeIs
<1>7. /\ Counted(n) /\ Connected(n)
      /\ \A v \in Points : b.m_parent[v] \notin {ip, aip} => Members(n, v) = Members(b, v)
  BY <1>3, <1>4, <1>5, MergeCounts
<1>8. ASSUME NEW v \in Points, Stone(b, v), b.m_state[v] # b.m_state[i]
      PROVE  b.m_parent[v] \notin {ip, aip}
  BY <1>4, <1>8 DEF RingsInv, OneColour
<1>9. n.m_parent[a] = n.m_parent[i]
  BY <1>1, <1>4, <1>6
<1>10. QED
  BY <1>6, <1>7, <1>8, <1>9

-----------------------------------------------------------------------------
(* The four directions of update_board().                                  *)

Alive(b) == \A v \in Points : Stone(b, v) => Libs(b, Members(b, v)) # {}

\* Stones of p that are not on b.
Taken(p, b) == {v \in Points : Stone(p, v) /\ ~Stone(b, v)}

\* A stone of this colour was put at i, which made p.  The points of D next
\* to i are still to be looked at.
Progress(p, acc, color, i, D) ==
    LET b == acc.board
    IN  /\ DOMAIN acc = Accs
        /\ RingsInv(b) /\ Counted(b) /\ Connected(b) /\ Separate(b, i, D)
        /\ b.m_state[i] = color
        /\ acc.captured = Cardinality(Taken(p, b))
        /\ Taken(p, b) # {} => acc.vertex \in Taken(p, b)
        /\ \A v \in Points : b.m_state[v] # p.m_state[v] =>
              /\ p.m_state[v] = Other(color) /\ b.m_state[v] = EMPTY
              /\ Libs(p, Members(p, v)) = {}
        /\ \A v \in Points : b.m_state[v] = Other(color) =>
              /\ Members(b, v) = Members(p, v)
              /\ Libs(b, Members(b, v)) = Libs(p, Members(p, v))
        /\ \A a \in Around(i) \ D : b.m_state[a] = Other(color) =>
              Libs(p, Members(p, a)) # {}
        /\ \A u, w \in Points : p.m_state[u] = color /\ p.m_parent[u] = p.m_parent[w] =>
              b.m_parent[u] = b.m_parent[w]

\* What Direction() does where there is something to do.
Captures(b, acc, color, ai, n) ==
    /\ b.m_state[ai] = Other(color) /\ Libs(b, Members(b, ai)) = {}
    /\ DOMAIN n = Accs
    /\ n.board = TakeOff(b, Members(b, ai), Other(color))
    /\ n.captured = acc.captured + Cardinality(Members(b, ai))
    /\ n.vertex = ai

Joins(b, acc, color, i, ai, n) ==
    /\ b.m_state[ai] = color /\ b.m_parent[i] # b.m_parent[ai]
    /\ DOMAIN n = Accs
    /\ n.board = Join(b, b.m_parent[i], b.m_parent[ai])
    /\ n.captured = acc.captured /\ n.vertex = acc.vertex

Nothing(b, color, i, ai) ==
    \/ b.m_state[ai] = EMPTY
    \/ b.m_state[ai] = Other(color) /\ Libs(b, Members(b, ai)) # {}
    \/ b.m_state[ai] = color /\ b.m_parent[i] = b.m_parent[ai]

LEMMA DirectionCases ==
    ASSUME NEW acc, DOMAIN acc = Accs, RingsInv(acc.board), Counted(acc.board),
           NEW color \in Colors, NEW i \in Points, acc.board.m_state[i] = color,
           NEW ai, NEW n, n = Direction(acc, color, i, ai)
    PROVE  \/ ai \notin Points /\ n = acc
           \/ ai \in Points /\ Nothing(acc.board, color, i, ai) /\ n = acc
           \/ ai \in Points /\ Captures(acc.board, acc, color, ai, n)
           \/ ai \in Points /\ Joins(acc.board, acc, color, i, ai, n)
<1>1. PICK b : b = acc.board
  OBVIOUS
<1>2. CASE ai \notin Points
  BY <1>1, <1>2, Others DEF Direction, StateAt
<1>3. CASE ai \in Points /\ b.m_state[ai] = Other(color)
  <2>1. Stone(b, ai)
    BY <1>3, Others DEF Stone
  <2>2. HasNoLiberty(b, b.m_parent[ai]) <=> Libs(b, Members(b, ai)) = {}
    BY <1>1, <1>3, <2>1, CountsAt
  <2>3. StringOf(b, ai) = Members(b, ai)
    BY <1>1, <1>3, <2>1, RingIs
  <2>4. n = IF Libs(b, Members(b, ai)) = {}
            THEN [board |-> remove_string(b, ai),
                  captured |-> acc.captured + Cardinality(Members(b, ai)),
                  vertex |-> ai]
            ELSE acc
    <3>1. StateAt(b, ai) = Other(color)
      BY <1>3 DEF StateAt
    <3>2. n = IF HasNoLiberty(b, b.m_parent[ai])
              THEN [board |-> remove_string(b, ai),
                    captured |-> acc.captured + Cardinality(StringOf(b, ai)),
                    vertex |-> ai]
              ELSE acc
      BY <1>1, <3>1, Others DEF Direction
    <3>3. CASE Libs(b, Members(b, ai)) = {}
      BY <2>2, <2>3, <3>2, <3>3
    <3>4. CASE Libs(b, Members(b, ai)) # {}
      BY <2>2, <2>3, <3>2, <3>4
    <3>5. QED
      BY <3>3, <3>4
  <2>5. remove_string(b, ai) = TakeOff(b, Members(b, ai), Other(color))
    BY <1>3, <2>3 DEF remove_string
  <2>6. CASE Libs(b, Members(b, ai)) = {}
    BY <1>1, <1>3, <2>4, <2>5, <2>6 DEF Captures, Accs
  <2>7. CASE Libs(b, Members(b, ai)) # {}
    BY <1>1, <1>3, <2>4, <2>7 DEF Nothing
  <2>8. QED
    BY <2>6, <2>7
<1>4. CASE ai \in Points /\ b.m_state[ai] = color
  <2>1. n = IF b.m_parent[i] = b.m_parent[ai] THEN acc
            ELSE [acc EXCEPT !.board = Join(b, b.m_parent[i], b.m_parent[ai])]
    BY <1>1, <1>4, Others DEF Direction, StateAt
  <2>2. QED
    BY <1>1, <1>4, <2>1 DEF Nothing, Joins, Accs
<1>5. CASE ai \in Points /\ b.m_state[ai] \notin Colors
  <2>1. b.m_state[ai] = EMPTY
    BY <1>1, <1>5 DEF RingsInv, Shape, Contents
  <2>2. n = acc
    BY <1>1, <1>5, Others DEF Direction, StateAt
  <2>3. QED
    BY <1>1, <1>5, <2>1, <2>2 DEF Nothing
<1>6. QED
  BY <1>2, <1>3, <1>4, <1>5 DEF Colors, Other


LEMMA ProgressStep ==
    ASSUME NEW p, RingsInv(p), NEW color \in Colors, NEW i \in Points,
           NEW D \in SUBSET Points, NEW acc, Progress(p, acc, color, i, D),
           NEW ai, ai \in Points => ai \in Around(i),
           NEW n, n = Direction(acc, color, i, ai)
    PROVE  Progress(p, n, color, i, D \ {ai})
<1> DEFINE b == acc.board
           m == n.board
           opp == Other(color)
           E == D \ {ai}
<1>1. /\ DOMAIN acc = Accs
      /\ RingsInv(b) /\ Counted(b) /\ Connected(b) /\ Separate(b, i, D)
      /\ b.m_state[i] = color
      /\ acc.captured = Cardinality(Taken(p, b))
      /\ Taken(p, b) # {} => acc.vertex \in Taken(p, b)
  BY DEF Progress
<1>2. \A v \in Points : b.m_state[v] # p.m_state[v] =>
         /\ p.m_state[v] = opp /\ b.m_state[v] = EMPTY
         /\ Libs(p, Members(p, v)) = {}
  BY DEF Progress
<1>3. \A v \in Points : b.m_state[v] = opp =>
         /\ Members(b, v) = Members(p, v)
         /\ Libs(b, Members(b, v)) = Libs(p, Members(p, v))
  BY DEF Progress
<1>4. \A a \in Around(i) \ D : b.m_state[a] = opp => Libs(p, Members(p, a)) # {}
  BY DEF Progress
<1>5. \A u, w \in Points : p.m_state[u] = color /\ p.m_parent[u] = p.m_parent[w] =>
         b.m_parent[u] = b.m_parent[w]
  BY DEF Progress
<1>6. opp \in Colors /\ opp # color /\ opp # EMPTY /\ color # EMPTY
  BY Others
<1>7. Stone(b, i)
  BY <1>1, <1>6 DEF Stone
<1>8. /\ DOMAIN n = Accs /\ RingsInv(m) /\ m.m_state[i] = color
  BY <1>1, DirectionIs
<1>9. i \notin Around(i) /\ \A a \in Around(i) : a \in Points /\ i \in Around(a)
  BY AroundIs
<1> HIDE DEF b, m, opp, E
<1>10. CASE ai \notin Points /\ n = acc
  <2>1. E = D
    BY <1>10 DEF E
  <2>2. QED
    BY <1>10, <2>1 DEF E
<1>11. CASE ai \in Points /\ Nothing(b, color, i, ai) /\ n = acc
  <2>1. ai \in Around(i)
    BY <1>11
  <2>2. Separate(b, i, E)
    <3> SUFFICES ASSUME NEW u \in Points, NEW w \in Around(u), Stone(b, u),
                        b.m_state[w] = b.m_state[u], b.m_parent[w] # b.m_parent[u]
                 PROVE  (u = i /\ w \in E) \/ (w = i /\ u \in E)
      BY DEF Separate
    <3>1. (u = i /\ w \in D) \/ (w = i /\ u \in D)
      BY <1>1 DEF Separate
    <3>2. ~(u = i /\ w = ai) /\ ~(w = i /\ u = ai)
      BY <1>1, <1>6, <1>11 DEF Nothing, opp
    <3>3. QED
      BY <3>1, <3>2 DEF E
  <2>3. b.m_state[ai] = opp => Libs(p, Members(p, ai)) # {}
    BY <1>3, <1>6, <1>11 DEF Nothing, opp
  <2>4. \A a \in Around(i) \ E : b.m_state[a] = opp => Libs(p, Members(p, a)) # {}
    BY <1>4, <2>3 DEF E
  <2>5. QED
    BY <1>1, <1>2, <1>3, <1>5, <1>11, <2>2, <2>4 DEF Progress, b, opp, E
<1>12. CASE ai \in Points /\ Captures(b, acc, color, ai, n)
  <2> DEFINE S == Members(b, ai)
  <2>1. /\ b.m_state[ai] = opp /\ Libs(b, S) = {}
        /\ m = TakeOff(b, S, opp)
        /\ n.captured = acc.captured + Cardinality(S) /\ n.vertex = ai
    BY <1>12 DEF Captures, opp, m
  <2>2. Stone(b, ai) /\ ai \in Points /\ S \in SUBSET Points /\ ai \in S
    BY <1>6, <1>12, <2>1 DEF Stone, Members
  <2>3. \A v \in S : /\ v \in Points /\ Stone(b, v) /\ b.m_state[v] = opp
                     /\ b.m_parent[v] = b.m_parent[ai]
                     /\ Members(b, v) \subseteq S
    BY <1>1, <2>1, <2>2, MembersAre
  <2>4. ASSUME NEW v \in S, NEW w \in Around(v), b.m_state[w] = opp
        PROVE  w \in S
    <3>1. w \in Points /\ v # i /\ w # i
      BY <1>1, <1>6, <2>3, <2>4, AroundIs
    <3>2. b.m_parent[w] = b.m_parent[v]
      BY <1>1, <2>3, <2>4, <3>1 DEF Separate
    <3>3. QED
      BY <2>3, <3>1, <3>2 DEF Members
  <2> HIDE DEF S
  <2>5. \A v \in Points : /\ m.m_state[v] = IF v \in S THEN EMPTY ELSE b.m_state[v]
                          /\ m.m_parent[v] = IF v \in S THEN None ELSE b.m_parent[v]
    BY <1>1, <2>1, <2>2, <2>3, TakeOffIs
  <2>6. /\ Counted(m) /\ Connected(m)
        /\ \A v \in Points \ S : Stone(b, v) =>
              /\ Members(m, v) = Members(b, v)
              /\ Libs(m, Members(m, v)) =
                    Libs(b, Members(b, v))
                    \cup {u \in S : \E w \in Members(b, v) : u \in Around(w)}
    <3>1. Whole(b, S, opp)
      BY <2>3, <2>4 DEF Whole
    <3>2. RingsInv(b) /\ Counted(b) /\ Connected(b)
      BY <1>1
    <3>3. QED
      BY <1>6, <2>1, <2>2, <3>1, <3>2, TakeOffCounts
  <2>7. \A v \in S : p.m_state[v] = opp /\ Libs(p, Members(p, v)) = {}
    <3> TAKE v \in S
    <3>1. v \in Points /\ b.m_state[v] = opp /\ Members(b, v) = S
      BY <1>1, <2>2, <2>3, MembersAre DEF S
    <3>2. Libs(p, Members(p, v)) = {}
      BY <1>3, <2>1, <3>1
    <3>3. p.m_state[v] = opp
      BY <1>2, <1>6, <3>1
    <3>4. QED
      BY <3>2, <3>3
  <2>8. Separate(m, i, E)
    <3> SUFFICES ASSUME NEW u \in Points, NEW w \in Around(u), Stone(m, u),
                        m.m_state[w] = m.m_state[u], m.m_parent[w] # m.m_parent[u]
                 PROVE  (u = i /\ w \in E) \/ (w = i /\ u \in E)
      BY DEF Separate
    <3>1. w \in Points /\ u \notin S /\ w \notin S /\ Stone(m, w)
      BY <2>5, AroundIs DEF Stone
    <3>2. (u = i /\ w \in D) \/ (w = i /\ u \in D)
      BY <1>1, <2>5, <3>1 DEF Separate, Stone
    <3>3. QED
      BY <2>2, <3>1, <3>2 DEF E
  <2>9. n.captured = Cardinality(Taken(p, m)) /\ n.vertex \in Taken(p, m)
    <3>1. Taken(p, m) = Taken(p, b) \cup S /\ Taken(p, b) \cap S = {}
      BY <1>6, <2>3, <2>5, <2>7 DEF Taken, Stone
    <3>2. Taken(p, b) \in SUBSET Points
      BY DEF Taken
    <3>3. QED
      BY <1>1, <2>1, <2>2, <3>1, <3>2, Disjoint
  <2>10. \A v \in Points : m.m_state[v] # p.m_state[v] =>
            /\ p.m_state[v] = opp /\ m.m_state[v] = EMPTY
            /\ Libs(p, Members(p, v)) = {}
    BY <1>2, <2>5, <2>7
  <2>11. \A v \in Points : m.m_state[v] = opp =>
            /\ Members(m, v) = Members(p, v)
            /\ Libs(m, Members(m, v)) = Libs(p, Members(p, v))
    <3> SUFFICES ASSUME NEW v \in Points, m.m_state[v] = opp
                 PROVE  /\ Members(m, v) = Members(p, v)
                        /\ Libs(m, Members(m, v)) = Libs(p, Members(p, v))
      OBVIOUS
    <3>1. v \notin S /\ b.m_state[v] = opp /\ Stone(b, v)
      BY <1>6, <2>5 DEF Stone
    <3>2. \A w \in Members(b, v) : w \in Points /\ b.m_state[w] = opp /\ w \notin S
      <4> TAKE w \in Members(b, v)
      <4>1. w \in Points /\ b.m_state[w] = opp /\ Members(b, w) = Members(b, v)
            /\ v \in Members(b, v)
        BY <1>1, <3>1, MembersAre
      <4>2. w \notin S
        BY <2>3, <3>1, <4>1
      <4>3. QED
        BY <4>1, <4>2
    <3>3. {u \in S : \E w \in Members(b, v) : u \in Around(w)} = {}
      BY <2>4, <2>3, <3>2, AroundIs
    <3>4. QED
      BY <1>3, <2>6, <3>1, <3>3
  <2>12. \A a \in Around(i) \ E : m.m_state[a] = opp => Libs(p, Members(p, a)) # {}
    BY <1>4, <1>6, <1>9, <2>2, <2>5 DEF E
  <2>13. \A u, w \in Points : p.m_state[u] = color /\ p.m_parent[u] = p.m_parent[w] =>
            m.m_parent[u] = m.m_parent[w]
    <3> SUFFICES ASSUME NEW u \in Points, NEW w \in Points,
                        p.m_state[u] = color, p.m_parent[u] = p.m_parent[w]
                 PROVE  m.m_parent[u] = m.m_parent[w]
      OBVIOUS
    <3>1. p.m_state[w] = color
      BY <1>6 DEF RingsInv, OneColour, Stone
    <3>2. u \notin S /\ w \notin S
      BY <1>6, <2>7, <3>1
    <3>3. QED
      BY <1>5, <2>5, <3>2
  <2>14. QED
    BY <1>8, <2>6, <2>8, <2>9, <2>10, <2>11, <2>12, <2>13 DEF Progress, m, opp, E
<1>13. CASE ai \in Points /\ Joins(b, acc, color, i, ai, n)
  <2>1. /\ b.m_state[ai] = color /\ b.m_parent[i] # b.m_parent[ai]
        /\ m = Join(b, b.m_parent[i], b.m_parent[ai])
        /\ n.captured = acc.captured /\ n.vertex = acc.vertex /\ ai \in Around(i)
    BY <1>13 DEF Joins, m
  <2>2. m.m_state = b.m_state
    BY <1>1, <1>7, <1>13, <2>1, JoinIs
  <2>3. /\ Counted(m) /\ Connected(m)
        /\ m.m_parent[ai] = m.m_parent[i]
        /\ \A u, w \in Points : b.m_parent[u] = b.m_parent[w]
                                   => m.m_parent[u] = m.m_parent[w]
        /\ \A v \in Points : Stone(b, v) /\ b.m_state[v] # b.m_state[i] =>
              Members(m, v) = Members(b, v) /\ m.m_parent[v] = b.m_parent[v]
    BY <1>1, <1>7, <2>1, JoinCounts
  <2>4. \A S : Libs(m, S) = Libs(b, S)
    BY <2>2 DEF Libs
  <2>5. Separate(m, i, E)
    <3> SUFFICES ASSUME NEW u \in Points, NEW w \in Around(u), Stone(m, u),
                        m.m_state[w] = m.m_state[u], m.m_parent[w] # m.m_parent[u]
                 PROVE  (u = i /\ w \in E) \/ (w = i /\ u \in E)
      BY DEF Separate
    <3>1. w \in Points /\ b.m_parent[w] # b.m_parent[u]
      BY <2>3, AroundIs
    <3>2. (u = i /\ w \in D) \/ (w = i /\ u \in D)
      BY <1>1, <2>2, <3>1 DEF Separate, Stone
    <3>3. QED
      BY <2>3, <3>2 DEF E
  <2>6. Taken(p, m) = Taken(p, b)
    BY <2>2 DEF Taken, Stone
  <2>7. \A v \in Points : m.m_state[v] = opp =>
            /\ Members(m, v) = Members(p, v)
            /\ Libs(m, Members(m, v)) = Libs(p, Members(p, v))
    BY <1>1, <1>3, <1>6, <2>2, <2>3, <2>4 DEF Stone
  <2>8. \A a \in Around(i) \ E : m.m_state[a] = opp => Libs(p, Members(p, a)) # {}
    BY <1>4, <1>6, <2>1, <2>2 DEF E
  <2>9. QED
    BY <1>1, <1>2, <1>5, <1>8, <2>1, <2>2, <2>3, <2>5, <2>6, <2>7, <2>8
       DEF Progress, m, opp, E
<1>14. QED
  BY <1>1, <1>10, <1>11, <1>12, <1>13, DirectionCases DEF b

LEMMA DirectionsProgress ==
    ASSUME NEW p, RingsInv(p), Counted(p), Connected(p),
           NEW color \in Colors, NEW i \in Points, Separate(p, i, Around(i)),
           p.m_state[i] = color, NEW n, n = Directions(p, color, i)
    PROVE  Progress(p, n, color, i, {})
<1> DEFINE Turn(acc, k) == Direction(acc, color, i, Neighbour(i, k))
           start == [board |-> p, captured |-> 0, vertex |-> NO_VERTEX]
           N(k) == Neighbour(i, k)
           A0 == Around(i)
           A1 == A0 \ {N(1)}
           A2 == A1 \ {N(2)}
           A3 == A2 \ {N(3)}
           A4 == A3 \ {N(4)}
<1>1. Progress(p, start, color, i, A0)
  <2>1. Taken(p, p) = {} /\ Cardinality({}) = 0
    BY FS_EmptySet DEF Taken
  <2>2. QED
    BY <2>1 DEF Progress, Accs
<1>2. /\ A0 \in SUBSET Points /\ A1 \in SUBSET Points /\ A2 \in SUBSET Points
      /\ A3 \in SUBSET Points
  BY AroundIs
<1>3. \A k \in {1, 2, 3, 4} : N(k) \in Points => N(k) \in Around(i)
  BY AroundIs
<1>4. A4 = {}
  <2>1. \A w \in Around(i) : w = N(1) \/ w = N(2) \/ w = N(3) \/ w = N(4)
    BY AroundIs
  <2>2. QED
    BY <2>1
<1>5. n = Turn(Turn(Turn(Turn(start, 1), 2), 3), 4)
  BY DEF Directions
<1>6. \A D \in SUBSET Points : \A acc : \A k \in {1, 2, 3, 4} :
         Progress(p, acc, color, i, D) => Progress(p, Turn(acc, k), color, i, D \ {N(k)})
  BY <1>3, ProgressStep
<1> HIDE DEF Turn, start, N, A0, A1, A2, A3
<1>7. Progress(p, Turn(start, 1), color, i, A1)
  BY <1>1, <1>2, <1>6 DEF A1
<1>8. Progress(p, Turn(Turn(start, 1), 2), color, i, A2)
  BY <1>2, <1>6, <1>7 DEF A2
<1>9. Progress(p, Turn(Turn(Turn(start, 1), 2), 3), color, i, A3)
  BY <1>2, <1>6, <1>8 DEF A3
<1>10. Progress(p, n, color, i, A4)
  BY <1>2, <1>5, <1>6, <1>9
<1>11. QED
  BY <1>4, <1>10


-----------------------------------------------------------------------------
(* A move and the rule of capture.                                         *)

\* What a board is between moves.
Sound(b) ==
    /\ RingsInv(b) /\ Counted(b) /\ Connected(b)
    /\ Separate(b, NO_VERTEX, {}) /\ Alive(b)

(* The dead stones of a colour are those of its strings without liberties. *)
LEMMA DeadAre ==
    ASSUME NEW b, RingsInv(b), Connected(b), NEW c \in Colors,
           \A u \in Points : \A w \in Around(u) :
               b.m_state[u] = c /\ b.m_state[w] = c => b.m_parent[w] = b.m_parent[u]
    PROVE  Rules!Dead(b.m_state, c) =
               {v \in Points : b.m_state[v] = c /\ Libs(b, Members(b, v)) = {}}
<1> DEFINE shut == {w \in Points : b.m_state[w] = c
                                      /\ \A u \in Around(w) : b.m_state[u] # EMPTY}
           all == {S \in SUBSET shut :
                      \A v \in S : \A w \in Around(v) : b.m_state[w] = c => w \in S}
<1>1. Rules!Dead(b.m_state, c) = UNION all
  BY DEF Rules!Dead, Around
<1>2. c # EMPTY
  BY Others
<1>3. ASSUME NEW S \in all, NEW v \in S
      PROVE  Libs(b, Members(b, v)) = {}
  <2>1. v \in Points /\ Stone(b, v) /\ b.m_state[v] = c /\ S \in SUBSET Points
    BY <1>2 DEF Stone
  <2>2. \A u \in S : \A w \in Around(u) : b.m_state[w] = b.m_state[v] => w \in S
    BY <2>1
  <2>3. Members(b, v) \subseteq S
    BY <2>1, <2>2 DEF Connected
  <2>4. \A u \in S : \A w \in Around(u) : b.m_state[w] # EMPTY
    OBVIOUS
  <2>5. QED
    BY <2>3, <2>4 DEF Libs
<1>4. ASSUME NEW v \in Points, b.m_state[v] = c, Libs(b, Members(b, v)) = {}
      PROVE  v \in Members(b, v) /\ Members(b, v) \in all
  <2>1. Stone(b, v) /\ v \in Members(b, v)
    BY <1>2, <1>4 DEF Stone, Members
  <2>2. \A u \in Members(b, v) : /\ u \in Points /\ b.m_state[u] = c
                                 /\ b.m_parent[u] = b.m_parent[v]
    BY <1>4, <2>1, MembersAre
  <2>3. ASSUME NEW u \in Members(b, v), NEW w \in Around(u)
        PROVE  /\ b.m_state[w] # EMPTY
               /\ b.m_state[w] = c => w \in Members(b, v)
    <3>1. w \in Points
      BY <2>2, AroundIs
    <3>2. b.m_state[w] # EMPTY
      BY <1>4, <3>1 DEF Libs
    <3>3. ASSUME b.m_state[w] = c
          PROVE  w \in Members(b, v)
      BY <2>2, <3>1, <3>3 DEF Members
    <3>4. QED
      BY <3>2, <3>3
  <2>4. QED
    BY <2>1, <2>2, <2>3
<1>5. \A S \in all : \A v \in S : v \in Points /\ b.m_state[v] = c
  OBVIOUS
<1> HIDE DEF all
<1>6. QED
  BY <1>1, <1>3, <1>4, <1>5

LEMMA TakenOff ==
    ASSUME NEW s, NEW t \in [Points -> Contents], NEW S,
           \A v \in Points : t[v] = IF v \in S THEN EMPTY ELSE s[v]
    PROVE  t = Rules!TakeOff(s, S)
BY DEF Rules!TakeOff

SameStrings(n, b) ==
    /\ n.m_state = b.m_state /\ n.m_parent = b.m_parent /\ n.m_next = b.m_next
    /\ n.m_libs = b.m_libs /\ n.m_stones = b.m_stones
    /\ n.m_neighbours = b.m_neighbours

LEMMA StringsSame ==
    ASSUME NEW b, NEW n, Shape(n), SameStrings(n, b)
    PROVE  /\ RingsInv(b) => RingsInv(n)
           /\ Counted(b) => Counted(n)
           /\ Connected(b) => Connected(n)
           /\ \A i, D : Separate(b, i, D) => Separate(n, i, D)
           /\ Alive(b) => Alive(n)
           /\ \A v : Members(n, v) = Members(b, v)
           /\ \A S : Libs(n, S) = Libs(b, S)
<1>1. n.m_state = b.m_state /\ n.m_parent = b.m_parent /\ n.m_next = b.m_next
      /\ n.m_libs = b.m_libs /\ n.m_stones = b.m_stones
      /\ n.m_neighbours = b.m_neighbours
  BY DEF SameStrings
<1>2. /\ \A v : Members(n, v) = Members(b, v)
      /\ \A S : Libs(n, S) = Libs(b, S)
      /\ \A v : Stone(n, v) <=> Stone(b, v)
      /\ \A v, c : Near(n, v, c) = Near(b, v, c)
  BY <1>1 DEF Members, Libs, Stone, Near
<1>3. RingsInv(b) => RingsInv(n)
  BY <1>1, RingsSame
<1>4. Counted(b) => Counted(n)
  BY <1>1, <1>2 DEF Counted
<1>5. Connected(b) => Connected(n)
  BY <1>1, <1>2 DEF Connected
<1>6. \A i, D : Separate(b, i, D) => Separate(n, i, D)
  BY <1>1, <1>2 DEF Separate
<1>7. Alive(b) => Alive(n)
  BY <1>2 DEF Alive
<1>8. QED
  BY <1>2, <1>3, <1>4, <1>5, <1>6, <1>7

(* After the four directions the rivals that are dead are gone, and every  *)
(* string but perhaps that of the new stone has a liberty.                 *)
LEMMA AfterDirections ==
    ASSUME NEW b, Sound(b), NEW color \in Colors, NEW i \in Points, ~Stone(b, i),
           NEW p, p = PutStone(b, color, i), NEW acc, acc = Directions(p, color, i)
    PROVE  LET placed == [b.m_state EXCEPT ![i] = color]
               captured == Rules!Dead(placed, Other(color))
               m == acc.board
           IN  /\ RingsInv(m) /\ Counted(m) /\ Connected(m) /\ Separate(m, NO_VERTEX, {})
               /\ m.m_state[i] = color
               /\ m.m_state = Rules!TakeOff(placed, captured)
               /\ acc.captured = Cardinality(captured)
               /\ \A v \in Points : Stone(m, v) /\ v \notin Members(m, i) =>
                     Libs(m, Members(m, v)) # {}
               /\ captured # {} => acc.vertex \in captured
               /\ \A v \in Points :
                     /\ v \in captured <=> b.m_state[v] = Other(color)
                                             /\ Libs(b, Members(b, v)) \subseteq {i}
                     /\ m.m_state[v] = IF v \in captured THEN EMPTY ELSE placed[v]
               /\ \A u, w \in Points :
                     b.m_state[u] = color /\ b.m_parent[u] = b.m_parent[w] =>
                         m.m_parent[u] = m.m_parent[w]
<1> DEFINE placed == [b.m_state EXCEPT ![i] = color]
           opp == Other(color)
           captured == Rules!Dead(placed, opp)
           m == acc.board
<1>1. /\ RingsInv(b) /\ Counted(b) /\ Connected(b) /\ Separate(b, NO_VERTEX, {})
      /\ Alive(b)
  BY DEF Sound
<1>2. opp \in Colors /\ opp # color /\ opp # EMPTY /\ color # EMPTY
      /\ b.m_state[i] = EMPTY
  BY Others DEF Stone
<1>3. /\ RingsInv(p) /\ p.m_state[i] = color /\ p.m_parent[i] = i
      /\ \A v \in Points \ {i} : /\ p.m_state[v] = b.m_state[v]
                                /\ p.m_parent[v] = b.m_parent[v]
  BY <1>1, PutStoneIs
<1>4. /\ Counted(p) /\ Connected(p) /\ Separate(p, i, Around(i))
      /\ \A v \in Points \ {i} : Stone(b, v) =>
            /\ Members(p, v) = Members(b, v)
            /\ Libs(p, Members(p, v)) = Libs(b, Members(b, v)) \ {i}
  BY <1>1, PutStoneCounts
<1>5. p.m_state = placed
  BY <1>1, <1>3 DEF RingsInv, Shape
<1>6. Progress(p, acc, color, i, {})
  BY <1>3, <1>4, DirectionsProgress
<1> HIDE DEF opp
<1>7. /\ RingsInv(m) /\ Counted(m) /\ Connected(m) /\ Separate(m, i, {})
      /\ m.m_state[i] = color
      /\ acc.captured = Cardinality(Taken(p, m))
      /\ Taken(p, m) # {} => acc.vertex \in Taken(p, m)
  BY <1>6 DEF Progress
<1>8. \A v \in Points : m.m_state[v] # p.m_state[v] =>
         /\ p.m_state[v] = opp /\ m.m_state[v] = EMPTY
         /\ Libs(p, Members(p, v)) = {}
  BY <1>6 DEF Progress, opp
<1>9. \A v \in Points : m.m_state[v] = opp =>
         /\ Members(m, v) = Members(p, v)
         /\ Libs(m, Members(m, v)) = Libs(p, Members(p, v))
  BY <1>6 DEF Progress, opp
<1>10. \A a \in Around(i) : m.m_state[a] = opp => Libs(p, Members(p, a)) # {}
  BY <1>6 DEF Progress, opp
<1>11. \A u, w \in Points : p.m_state[u] = color /\ p.m_parent[u] = p.m_parent[w] =>
          m.m_parent[u] = m.m_parent[w]
  BY <1>6 DEF Progress
<1> HIDE DEF m, placed, captured
<1>12. Separate(m, NO_VERTEX, {})
  BY <1>7 DEF Separate
<1>13. captured = {v \in Points : p.m_state[v] = opp /\ Libs(p, Members(p, v)) = {}}
  <2>1. \A u \in Points : \A w \in Around(u) :
           p.m_state[u] = opp /\ p.m_state[w] = opp => p.m_parent[w] = p.m_parent[u]
    BY <1>2, <1>3, <1>4 DEF Separate, Stone
  <2>2. QED
    BY <1>2, <1>3, <1>4, <1>5, <2>1, DeadAre DEF captured
<1>14. Taken(p, m) = captured
  <2>1. \A v \in Taken(p, m) : v \in captured
    BY <1>8, <1>13 DEF Taken, Stone
  <2>2. ASSUME NEW v \in captured, Stone(m, v)
        PROVE  FALSE
    <3>1. v \in Points /\ p.m_state[v] = opp /\ Libs(p, Members(p, v)) = {}
      BY <1>13
    <3>2. m.m_state[v] = opp /\ Stone(p, v)
      BY <1>2, <1>8, <2>2, <3>1 DEF Stone
    <3>3. v # i /\ Stone(b, v)
      BY <1>2, <1>3, <3>1 DEF Stone
    <3>4. i \in Libs(b, Members(b, v)) /\ Members(p, v) = Members(b, v)
      BY <1>1, <1>4, <3>1, <3>3 DEF Alive
    <3>5. PICK a \in Members(p, v) : i \in Around(a)
      BY <3>4 DEF Libs
    <3>6. a \in Points /\ a \in Around(i) /\ Members(p, a) = Members(p, v)
      BY <1>3, <3>1, <3>2, <3>5, MembersAre, AroundIs
    <3>7. m.m_state[a] = opp
      <4>1. a \in Members(m, v) /\ Stone(m, v)
        BY <1>9, <2>2, <3>1, <3>2, <3>5
      <4>2. QED
        BY <1>7, <3>1, <3>2, <4>1, MembersAre
    <3>8. QED
      BY <1>10, <3>1, <3>6, <3>7
  <2>3. QED
    BY <1>2, <1>13, <2>1, <2>2 DEF Taken, Stone
<1>15. \A v \in Points : m.m_state[v] = IF v \in captured THEN EMPTY ELSE placed[v]
  BY <1>2, <1>5, <1>8, <1>13, <1>14 DEF Taken, Stone
<1>16. ASSUME NEW v \in Points
       PROVE  v \in captured <=> b.m_state[v] = opp /\ Libs(b, Members(b, v)) \subseteq {i}
  <2>1. p.m_state[v] = opp <=> b.m_state[v] = opp
    BY <1>2, <1>3
  <2>2. b.m_state[v] = opp => Libs(p, Members(p, v)) = Libs(b, Members(b, v)) \ {i}
    BY <1>2, <1>4 DEF Stone
  <2>3. QED
    BY <1>13, <2>1, <2>2
<1>17. m.m_state = Rules!TakeOff(placed, captured)
  <2>1. \A v \in Points : m.m_state[v] = IF v \in captured THEN EMPTY ELSE placed[v]
    BY <1>15
  <2>2. m.m_state \in [Points -> Contents]
    BY <1>7 DEF RingsInv, Shape
  <2>3. QED
    BY <2>1, <2>2, TakenOff
<1>18. ASSUME NEW v \in Points, Stone(m, v), v \notin Members(m, i)
       PROVE  Libs(m, Members(m, v)) # {}
  <2>1. m.m_state[v] = p.m_state[v] /\ v # i
    BY <1>8, <1>18 DEF Stone, Members
  <2>2. CASE m.m_state[v] = opp
    <3>1. v \notin captured
      BY <1>14, <1>18 DEF Taken
    <3>2. QED
      BY <1>9, <1>13, <2>1, <2>2, <3>1
  <2>3. CASE m.m_state[v] # opp
    <3>1. m.m_state[v] = color
      BY <1>7, <1>18, <2>3 DEF RingsInv, Shape, Contents, Colors, Stone, opp, Other
    <3>2. Stone(b, v) /\ Members(p, v) = Members(b, v)
      BY <1>3, <1>4, <2>1, <1>18 DEF Stone
    <3>3. PICK e \in Points, x \in Members(b, v) : b.m_state[e] = EMPTY /\ e \in Around(x)
      BY <1>1, <3>2 DEF Alive, Libs
    <3>4. x \in Points /\ p.m_parent[x] = p.m_parent[v] /\ p.m_state[x] = color
      <4>1. p.m_state[v] = color /\ Stone(p, v) /\ x \in Members(p, v)
        BY <1>2, <2>1, <3>1, <3>2, <3>3 DEF Stone
      <4>2. QED
        BY <1>3, <4>1, MembersAre
    <3>5. m.m_parent[x] = m.m_parent[v] /\ x \in Members(m, v)
      BY <1>11, <3>4 DEF Members
    <3>6. CASE e = i
      <4>1. m.m_state[x] = color /\ Stone(m, x) /\ i \in Around(x)
        BY <1>2, <1>8, <3>3, <3>4, <3>6 DEF Stone
      <4>2. m.m_parent[i] = m.m_parent[x]
        BY <1>7, <3>4, <4>1 DEF Separate
      <4>3. QED
        BY <1>18, <3>5, <4>2 DEF Members
    <3>7. CASE e # i
      <4>1. m.m_state[e] = EMPTY
        BY <1>2, <1>3, <1>8, <3>3, <3>7
      <4>2. QED
        BY <3>3, <3>5, <4>1 DEF Libs
    <3>8. QED
      BY <3>6, <3>7
  <2>4. QED
    BY <2>2, <2>3
<1>19. \A u, w \in Points : b.m_state[u] = color /\ b.m_parent[u] = b.m_parent[w] =>
          m.m_parent[u] = m.m_parent[w]
  <2> SUFFICES ASSUME NEW u \in Points, NEW w \in Points,
                      b.m_state[u] = color, b.m_parent[u] = b.m_parent[w]
               PROVE  m.m_parent[u] = m.m_parent[w]
    OBVIOUS
  <2>1. b.m_state[w] = color
    BY <1>1, <1>2 DEF RingsInv, OneColour, Stone
  <2>2. u # i /\ w # i
    BY <1>2, <2>1
  <2>3. QED
    BY <1>3, <1>11, <2>2
<1>20. QED
  BY <1>7, <1>12, <1>14, <1>17, <1>18, <1>19, <1>15, <1>16 DEF m, placed, captured, opp


\* The stones that a move captures, and the stones after that.
Lost(b, color, i) == Rules!Dead([b.m_state EXCEPT ![i] = color], Other(color))
Left(b, color, i) ==
    Rules!TakeOff([b.m_state EXCEPT ![i] = color], Lost(b, color, i))
Final(b, color, i) ==
    Rules!TakeOff(Left(b, color, i), Rules!Dead(Left(b, color, i), color))
Prize(b, color, i) ==
    [b.m_prisoners EXCEPT
        ![color] = b.m_prisoners[color] + Cardinality(Lost(b, color, i))]

(* A move leaves a sound board, whose stones and prisoners are those of    *)
(* the rule of capture; its own stone is taken off when it has no liberty  *)
(* after the captures.                                                     *)
LEMMA UpdateBoardSound ==
    ASSUME NEW b, Sound(b), NEW color \in Colors, NEW i \in Points, ~Stone(b, i),
           NEW n, n = update_board(b, color, i).board,
           NEW d, d = Directions(PutStone(b, color, i), color, i).board
    PROVE  /\ Sound(n)
           /\ n.m_state = Final(b, color, i)
           /\ n.m_prisoners = Prize(b, color, i)
           /\ \A w \in Points \ {i} : n.m_state[w] \in {b.m_state[w], EMPTY}
           /\ n.m_state[i] = EMPTY <=> Libs(d, Members(d, i)) = {}
           /\ Libs(d, Members(d, i)) # {} => SameStrings(n, d)
           /\ \A w \in Points : d.m_state[w] = Other(color) => n.m_state[w] = Other(color)
<1> DEFINE placed == [b.m_state EXCEPT ![i] = color]
           captured == Rules!Dead(placed, Other(color))
           left == Rules!TakeOff(placed, captured)
           dead == Rules!Dead(left, color)
<1>1. PICK p : p = PutStone(b, color, i)
  OBVIOUS
<1>2. PICK acc : acc = Directions(p, color, i)
  OBVIOUS
<1>3. PICK m : m = CountPrisoners(acc.board, color, acc.captured)
  OBVIOUS
<1>4. d = acc.board
  BY <1>1, <1>2
<1>5. n = StillAlive(m, i)
  BY <1>1, <1>2, <1>3 DEF update_board, Outcome
<1>6. RingsInv(b) /\ color # EMPTY
  BY Others DEF Sound
<1>7. RingsInv(p) /\ p.m_state[i] = color /\ SameGame(p, b)
      /\ \A v \in Points \ {i} : p.m_state[v] = b.m_state[v]
  BY <1>1, <1>6, PutStoneIs
<1>8. SameGame(acc.board, p)
  BY <1>2, <1>7, DirectionsIs
<1>9. /\ RingsInv(acc.board) /\ Counted(acc.board) /\ Connected(acc.board)
      /\ Separate(acc.board, NO_VERTEX, {})
      /\ acc.board.m_state[i] = color
      /\ acc.board.m_state = left
      /\ acc.captured = Cardinality(captured)
      /\ \A v \in Points : Stone(acc.board, v) /\ v \notin Members(acc.board, i) =>
            Libs(acc.board, Members(acc.board, v)) # {}
      /\ \A v \in Points :
            acc.board.m_state[v] = IF v \in captured THEN EMPTY ELSE placed[v]
  BY <1>1, <1>2, AfterDirections
<1>10. \A w \in Points \ {i} : placed[w] = b.m_state[w]
  BY <1>6 DEF RingsInv, Shape
<1> HIDE DEF placed, captured, left, dead
<1>11. /\ Shape(m) /\ SameStrings(m, acc.board)
      /\ m.m_prisoners = [b.m_prisoners EXCEPT ![color] = @ + Cardinality(captured)]
  <2>1. acc.board.m_prisoners = b.m_prisoners
    BY <1>7, <1>8 DEF SameGame
  <2>2. /\ DOMAIN m = Fields /\ SameStrings(m, acc.board)
        /\ m.m_tomove = acc.board.m_tomove
        /\ m.m_prisoners = [b.m_prisoners EXCEPT ![color] = @ + Cardinality(captured)]
    BY <1>3, <1>9, <2>1 DEF CountPrisoners, RingsInv, Shape, Fields, SameStrings
  <2>3. QED
    BY <1>9, <2>1, <2>2 DEF RingsInv, Shape, SameStrings
<1>12. /\ RingsInv(m) /\ Counted(m) /\ Connected(m) /\ Separate(m, NO_VERTEX, {})
       /\ m.m_state[i] = color /\ m.m_state = left /\ Stone(m, i)
       /\ \A v \in Points : Stone(m, v) /\ v \notin Members(m, i) =>
             Libs(m, Members(m, v)) # {}
       /\ \A w \in Points \ {i} : m.m_state[w] \in {b.m_state[w], EMPTY}
  <2>1. /\ RingsInv(m) /\ Counted(m) /\ Connected(m) /\ Separate(m, NO_VERTEX, {})
        /\ \A v : Members(m, v) = Members(acc.board, v)
        /\ \A S : Libs(m, S) = Libs(acc.board, S)
    BY <1>9, <1>11, StringsSame
  <2>2. m.m_state = acc.board.m_state
    BY <1>11 DEF SameStrings
  <2>3. \A w \in Points \ {i} : m.m_state[w] \in {b.m_state[w], EMPTY}
    BY <1>9, <1>10, <2>2
  <2>4. QED
    BY <1>6, <1>9, <2>1, <2>2, <2>3 DEF Stone
<1>13. dead = {v \in Points : m.m_state[v] = color /\ Libs(m, Members(m, v)) = {}}
  <2>1. \A u \in Points : \A w \in Around(u) :
           m.m_state[u] = color /\ m.m_state[w] = color => m.m_parent[w] = m.m_parent[u]
    <3>1. NO_VERTEX \notin Points
      BY BoardAssumption DEF NO_VERTEX, Points
    <3>2. QED
      BY <1>6, <1>12, <3>1 DEF Separate, Stone
  <2>2. QED
    BY <1>12, <2>1, DeadAre DEF dead
<1>14. HasNoLiberty(m, m.m_parent[i]) <=> Libs(m, Members(m, i)) = {}
  BY <1>12, CountsAt
<1>15. \A v \in Members(m, i) : /\ v \in Points /\ m.m_state[v] = color /\ Stone(m, v)
                               /\ Members(m, v) = Members(m, i)
  BY <1>12, MembersAre
<1>16. Libs(m, Members(m, i)) = Libs(d, Members(d, i))
  BY <1>4, <1>9, <1>11, StringsSame
<1>17. CASE Libs(m, Members(m, i)) # {}
  <2>1. n = m
    BY <1>5, <1>14, <1>17 DEF StillAlive
  <2>2. Alive(m)
    <3>1. \A v \in Points : v \in Members(m, i) => Libs(m, Members(m, v)) # {}
      BY <1>15, <1>17
    <3>2. QED
      BY <1>12, <3>1 DEF Alive
  <2>3. \A v \in Points : v \notin dead
    BY <1>6, <1>13, <2>2 DEF Alive, Stone
  <2>4. m.m_state = Rules!TakeOff(left, dead)
    <3>1. m.m_state \in [Points -> Contents]
      BY <1>12 DEF RingsInv, Shape
    <3>2. QED
      BY <1>12, <2>3, <3>1, TakenOff
  <2>5. QED
    <3>1. n.m_state[i] # EMPTY
      BY <1>12, <2>1 DEF Stone
    <3>2. SameStrings(n, d)
      BY <1>11, <1>4, <2>1
    <3>3. \A w \in Points : d.m_state[w] = n.m_state[w]
      BY <3>2 DEF SameStrings
    <3>4. QED
      BY <1>11, <1>12, <1>17, <1>16, <2>1, <2>2, <2>4, <3>1, <3>2, <3>3
         DEF Sound, Final, Prize, Lost, Left, placed, captured, left, dead
<1>18. CASE Libs(m, Members(m, i)) = {}
  <2> DEFINE S == Members(m, i)
  <2>1. dead = S
    <3>1. \A v \in Points : m.m_state[v] = color /\ Libs(m, Members(m, v)) = {} => v \in S
      BY <1>6, <1>12 DEF Stone
    <3>2. QED
      BY <1>13, <1>15, <1>18, <3>1
  <2>2. n = TakeOff(m, S, color)
    <3>1. n = remove_string(m, i)
      BY <1>5, <1>14, <1>18 DEF StillAlive
    <3>2. StringOf(m, i) = S
      BY <1>12, RingIs
    <3>3. QED
      BY <1>12, <3>1, <3>2 DEF remove_string
  <2> HIDE DEF S
  <2>3. Whole(m, S, color)
    <3>1. \A v \in S : /\ v \in Points /\ m.m_state[v] = color /\ Stone(m, v)
                       /\ Members(m, v) = S
      BY <1>15 DEF S
    <3>2. ASSUME NEW v \in S, NEW w \in Around(v), m.m_state[w] = color
          PROVE  w \in S
      <4>1. w \in Points /\ v # NO_VERTEX /\ w # NO_VERTEX
        BY <3>1, AroundIs, BoardAssumption DEF NO_VERTEX, Points
      <4>2. m.m_parent[w] = m.m_parent[v]
        BY <1>12, <3>1, <3>2, <4>1 DEF Separate
      <4>3. w \in Members(m, v)
        BY <4>1, <4>2 DEF Members
      <4>4. QED
        BY <3>1, <4>3
    <3>3. QED
      BY <3>1, <3>2 DEF Whole
  <2>4. S \in SUBSET Points
    BY DEF S, Members
  <2>5. /\ RingsInv(n) /\ n.m_prisoners = m.m_prisoners
        /\ \A v \in Points : /\ n.m_state[v] = IF v \in S THEN EMPTY ELSE m.m_state[v]
                             /\ n.m_parent[v] = IF v \in S THEN None ELSE m.m_parent[v]
    <3>1. \A v \in S : Stone(m, v) /\ Members(m, v) \subseteq S
      BY <2>3 DEF Whole
    <3>2. QED
      BY <1>12, <2>2, <2>4, <3>1, TakeOffIs DEF SameGame
  <2>6. /\ Counted(n) /\ Connected(n)
        /\ \A v \in Points \ S : Stone(m, v) =>
              /\ Members(n, v) = Members(m, v)
              /\ Libs(n, Members(n, v)) =
                    Libs(m, Members(m, v))
                    \cup {u \in S : \E w \in Members(m, v) : u \in Around(w)}
    <3>1. RingsInv(m) /\ Counted(m) /\ Connected(m)
      BY <1>12
    <3>2. QED
      BY <2>2, <2>3, <2>4, <3>1, TakeOffCounts
  <2>7. Separate(n, NO_VERTEX, {})
    BY <1>12, <2>5, AroundIs DEF Separate, Stone
  <2>8. Alive(n)
    <3> SUFFICES ASSUME NEW v \in Points, Stone(n, v)
                 PROVE  Libs(n, Members(n, v)) # {}
      BY DEF Alive
    <3>1. v \notin S /\ Stone(m, v)
      BY <2>5 DEF Stone
    <3>2. Libs(m, Members(m, v)) # {}
      BY <1>12, <3>1 DEF S
    <3>3. QED
      BY <2>6, <3>1, <3>2
  <2>9. n.m_state = Rules!TakeOff(left, dead)
    <3>1. n.m_state \in [Points -> Contents]
      BY <2>5 DEF RingsInv, Shape
    <3>2. QED
      BY <1>12, <2>1, <2>5, <3>1, TakenOff
  <2>10. \A w \in Points \ {i} : n.m_state[w] \in {b.m_state[w], EMPTY}
    BY <1>12, <2>5
  <2>11. QED
    <3>1. n.m_state[i] = EMPTY
      BY <2>5 DEF S, Members
    <3>2. \A w \in Points : d.m_state[w] = Other(color) => n.m_state[w] = Other(color)
      <4>1. \A w \in S : m.m_state[w] = color
        BY <1>15 DEF S
      <4>2. m.m_state = d.m_state /\ Other(color) # color
        BY <1>11, <1>4, Others DEF SameStrings
      <4>3. QED
        BY <2>5, <4>1, <4>2
    <3>3. QED
      BY <1>11, <1>18, <1>16, <2>5, <2>6, <2>7, <2>8, <2>9, <2>10, <3>1, <3>2
         DEF Sound, Final, Prize, Lost, Left, placed, captured, left, dead
<1>19. QED
  BY <1>17, <1>18

-----------------------------------------------------------------------------
(* Positions, with their strings.                                          *)

SoundState(s) ==
    /\ DOMAIN s = {"board", "m_komove", "m_passes"}
    /\ Sound(s.board)
    /\ s.m_passes \in Nat

LEMMA SoundAgain ==
    ASSUME NEW b, Sound(b), NEW n, Shape(n), SameStrings(n, b)
    PROVE  Sound(n)
BY StringsSame DEF Sound

LEMMA SetToMoveSound ==
    ASSUME NEW b, Sound(b), NEW c \in Colors, NEW n, n = set_to_move(b, c)
    PROVE  /\ Sound(n) /\ SameStrings(n, b)
           /\ n.m_prisoners = b.m_prisoners /\ n.m_tomove = c
<1>1. Shape(b)
  BY DEF Sound, RingsInv
<1>2. /\ DOMAIN n = Fields /\ SameStrings(n, b)
      /\ n.m_tomove = c /\ n.m_prisoners = b.m_prisoners
  BY <1>1 DEF set_to_move, Shape, Fields, SameStrings
<1>3. Shape(n)
  BY <1>1, <1>2 DEF Shape, SameStrings
<1>4. QED
  BY <1>2, <1>3, SoundAgain

LEMMA NextTurnSound ==
    ASSUME NEW s, DOMAIN s = {"board", "m_komove", "m_passes"},
           NEW moved, Sound(moved.board), NEW color \in Colors, NEW passes \in Nat,
           NEW n, n = NextTurn(s, moved, color, passes)
    PROVE  /\ SoundState(n) /\ SameStrings(n.board, moved.board)
           /\ n.board.m_prisoners = moved.board.m_prisoners
           /\ n.board.m_tomove = Other(color)
           /\ n.m_komove = moved.komove /\ n.m_passes = passes
<1>1. PICK turned : turned = set_to_move(moved.board, Other(color))
  OBVIOUS
<1>2. /\ Sound(turned) /\ SameStrings(turned, moved.board)
      /\ turned.m_prisoners = moved.board.m_prisoners
      /\ turned.m_tomove = Other(color)
  BY <1>1, Others, SetToMoveSound
<1>3. PICK h : n.board = [turned EXCEPT !.m_hash = h]
  BY <1>1 DEF NextTurn
<1>4. /\ DOMAIN n = {"board", "m_komove", "m_passes"}
      /\ n.m_komove = moved.komove /\ n.m_passes = passes
  BY DEF NextTurn
<1>5. Shape(turned)
  BY <1>2 DEF Sound, RingsInv
<1>6. /\ DOMAIN n.board = Fields /\ SameStrings(n.board, turned)
      /\ n.board.m_prisoners = turned.m_prisoners
      /\ n.board.m_tomove = turned.m_tomove
  BY <1>3, <1>5 DEF Shape, Fields, SameStrings
<1>7. Shape(n.board)
  BY <1>5, <1>6 DEF Shape, SameStrings
<1>8. Sound(n.board)
  BY <1>2, <1>6, <1>7, SoundAgain
<1>9. QED
  BY <1>2, <1>4, <1>6, <1>8 DEF SoundState, SameStrings

LEMMA PlayMoveSound ==
    ASSUME NEW s, SoundState(s), NEW color \in Colors, NEW v \in Points,
           ~Stone(s.board, v), NEW n, n = play_move(s, color, v)
    PROVE  LET moved == update_board(s.board, color, v)
           IN  /\ SoundState(n) /\ SameStrings(n.board, moved.board)
               /\ n.board.m_prisoners = moved.board.m_prisoners
               /\ n.board.m_tomove = Other(color)
               /\ n.m_komove = moved.komove /\ n.m_passes = 0
<1>1. PASS \notin Points
  BY BoardAssumption DEF PASS, Points
<1>2. PICK moved : moved = update_board(s.board, color, v)
  OBVIOUS
<1>3. n = NextTurn(s, moved, color, 0)
  BY <1>1, <1>2 DEF play_move
<1>4. Sound(moved.board)
  <2>1. PICK d : d = Directions(PutStone(s.board, color, v), color, v).board
    OBVIOUS
  <2>2. Sound(s.board)
    BY DEF SoundState
  <2>3. QED
    BY <1>2, <2>1, <2>2, UpdateBoardSound
<1>5. DOMAIN s = {"board", "m_komove", "m_passes"} /\ 0 \in Nat
  BY DEF SoundState
<1>6. /\ SoundState(n) /\ SameStrings(n.board, moved.board)
      /\ n.board.m_prisoners = moved.board.m_prisoners
      /\ n.board.m_tomove = Other(color)
      /\ n.m_komove = moved.komove /\ n.m_passes = 0
  BY <1>3, <1>4, <1>5, NextTurnSound
<1>7. QED
  BY <1>2, <1>6

LEMMA PlayPassSound ==
    ASSUME NEW s, SoundState(s), NEW color \in Colors, NEW n, n = play_move(s, color, PASS)
    PROVE  /\ SoundState(n) /\ SameStrings(n.board, s.board)
           /\ n.board.m_prisoners = s.board.m_prisoners
           /\ n.board.m_tomove = Other(color)
           /\ n.m_passes # 0
<1>1. PICK moved : moved = [board |-> s.board, komove |-> NO_VERTEX]
  OBVIOUS
<1>2. n = NextTurn(s, moved, color, increment_passes(s.m_passes))
  BY <1>1 DEF play_move
<1>3. increment_passes(s.m_passes) \in Nat \ {0}
  BY DEF SoundState, increment_passes
<1>4. QED
  BY <1>1, <1>2, <1>3, NextTurnSound DEF SoundState

LEMMA InitialSound == SoundState(init_game)
<1> DEFINE b == init_game.board
<1>1. DOMAIN init_game = {"board", "m_komove", "m_passes"} /\ init_game.m_passes = 0
  BY DEF init_game
<1>2. /\ b.m_state = [v \in Points |-> EMPTY]
      /\ b.m_libs = [v \in Points |-> None] /\ b.m_stones = [v \in Points |-> None]
      /\ b.m_neighbours = [v \in Points |->
            [c \in Contents |-> IF c = EMPTY THEN Cardinality(Around(v))
                                ELSE 4 - Cardinality(Around(v))]]
  BY DEF init_game, reset_board, Contents
<1>3. RingsInv(b)
  BY InitialPosition DEF StateInv
<1> HIDE DEF b
<1>4. \A v \in Points : ~Stone(b, v)
  BY <1>2 DEF Stone
<1>5. Connected(b) /\ Separate(b, NO_VERTEX, {}) /\ Alive(b)
  BY <1>4 DEF Connected, Separate, Alive
<1>6. Counted(b)
  <2>1. ASSUME NEW v \in Points, NEW c \in Contents
        PROVE  b.m_neighbours[v][c] = Cardinality(Near(b, v, c))
                   + (IF c = EMPTY THEN 0 ELSE 4 - Cardinality(Around(v)))
    <3>1. Near(b, v, c) = IF c = EMPTY THEN Around(v) ELSE {}
      BY <1>2, AroundIs DEF Near
    <3>2. Cardinality(Around(v)) \in Nat /\ Cardinality({}) = 0
      BY AroundIs, FinitePart, FS_EmptySet
    <3>3. QED
      BY <1>2, <3>1, <3>2
  <2>2. QED
    BY <1>2, <1>4, <2>1 DEF Counted
<1>7. QED
  BY <1>1, <1>3, <1>5, <1>6 DEF SoundState, Sound, b

(* One step of FastState on a sound position.                              *)
LEMMA StepSound ==
    ASSUME SoundState(state), [Next]_state
    PROVE  SoundState(state')
<1>1. CASE UNCHANGED state
  BY <1>1
<1>2. CASE reset_game
  BY <1>2, InitialSound DEF reset_game
<1>3. ASSUME NEW c \in Colors, NEW s, s = [state EXCEPT !.board = set_to_move(@, c)]
      PROVE  SoundState(s) /\ SameStrings(s.board, state.board)
  <2>1. Sound(set_to_move(state.board, c))
        /\ SameStrings(set_to_move(state.board, c), state.board)
    BY SetToMoveSound DEF SoundState
  <2>2. QED
    BY <1>3, <2>1 DEF SoundState
<1>4. ASSUME NEW c \in Colors, NEW v \in Points, Play(c, v)
      PROVE  SoundState(state')
  <2>1. PICK s : s = [state EXCEPT !.board = set_to_move(@, c)]
    OBVIOUS
  <2>2. state' = play_move(s, c, v) /\ ~Stone(s.board, v) /\ SoundState(s)
    BY <1>3, <1>4, <2>1 DEF Play, Move, Stone, SameStrings
  <2>3. QED
    BY <2>2, PlayMoveSound
<1>5. ASSUME NEW c \in Colors, Pass(c)
      PROVE  SoundState(state')
  <2>1. PICK s : s = [state EXCEPT !.board = set_to_move(@, c)]
    OBVIOUS
  <2>2. state' = play_move(s, c, PASS) /\ SoundState(s)
    BY <1>3, <1>5, <2>1 DEF Pass, Move
  <2>3. QED
    BY <2>2, PlayPassSound
<1>6. QED
  BY <1>1, <1>2, <1>4, <1>5 DEF Next

LEMMA SoundInvariant == Spec => []SoundState(state)
<1>1. Init => SoundState(state)
  BY InitialSound DEF Init
<1>2. SoundState(state) /\ [Next]_state => SoundState(state)'
  BY StepSound
<1>3. QED
  BY <1>1, <1>2, PTL DEF Spec

(* m_parent, m_next, m_stones and m_libs describe the strings that a flood *)
(* fill would find, and m_neighbours what surrounds each point.            *)
THEOREM StringsAgree == Spec => []StringsExact
<1>1. SoundState(state) => StringsExact
  <2> SUFFICES ASSUME SoundState(state)
               PROVE  StringsExact
    OBVIOUS
  <2> DEFINE b == state.board
  <2>1. /\ RingsInv(b) /\ Counted(b) /\ Connected(b) /\ Separate(b, NO_VERTEX, {})
    BY DEF SoundState, Sound
  <2> HIDE DEF b
  <2>2. ASSUME NEW v \in Points, Stone(b, v)
        PROVE  Rules!Group(b.m_state, v) = Members(b, v)
    <3> DEFINE same == {w \in Points : b.m_state[w] = b.m_state[v]}
               closed == {S \in SUBSET same :
                             v \in S /\ \A u \in S : Around(u) \cap same \subseteq S}
    <3>1. Rules!Group(b.m_state, v) = {w \in same : \A S \in closed : w \in S}
      BY DEF Rules!Group, Around
    <3>2. \A w \in Members(b, v) : /\ w \in same /\ Stone(b, w)
                                   /\ b.m_parent[w] = b.m_parent[v]
      BY <2>1, <2>2, MembersAre
    <3>3. Members(b, v) \in closed
      <4>1. ASSUME NEW u \in Members(b, v), NEW w \in Around(u), w \in same
            PROVE  w \in Members(b, v)
        <5>1. u \in Points /\ Stone(b, u) /\ b.m_state[u] = b.m_state[v]
              /\ u # NO_VERTEX /\ w # NO_VERTEX
          BY <3>2, <4>1, BoardAssumption DEF NO_VERTEX, Points
        <5>2. b.m_parent[w] = b.m_parent[u]
          BY <2>1, <4>1, <5>1 DEF Separate
        <5>3. QED
          BY <3>2, <4>1, <5>2 DEF Members
      <4>2. v \in Members(b, v)
        BY DEF Members
      <4>3. QED
        BY <3>2, <4>1, <4>2
    <3>4. \A S \in closed : Members(b, v) \subseteq S
      <4> SUFFICES ASSUME NEW S \in closed
                   PROVE  Members(b, v) \subseteq S
        OBVIOUS
      <4>1. S \in SUBSET Points /\ v \in S
        OBVIOUS
      <4>2. \A u \in S : \A w \in Around(u) : b.m_state[w] = b.m_state[v] => w \in S
        BY <4>1, AroundIs
      <4>3. QED
        BY <2>1, <2>2, <4>1, <4>2 DEF Connected
    <3>5. QED
      BY <3>1, <3>2, <3>3, <3>4
  <2>3. ASSUME NEW v \in Stones(b)
        PROVE  LET group == Rules!Group(b.m_state, v)
                   root == b.m_parent[v]
               IN  /\ root \in group
                   /\ {w \in Points : b.m_parent[w] = root} = group
                   /\ StringOf(b, v) = group
                   /\ b.m_stones[root] = Cardinality(group)
                   /\ b.m_libs[root] = Cardinality(Rules!Liberties(b.m_state, group))
    <3>1. v \in Points /\ Stone(b, v) /\ v \in Members(b, v)
      BY DEF Stones, Stone, Members
    <3>2. Rules!Group(b.m_state, v) = Members(b, v)
      BY <2>2, <3>1
    <3>3. b.m_parent[v] \in Members(b, v)
      BY <2>1, <3>1, MembersAre
    <3>4. StringOf(b, v) = Members(b, v)
      BY <2>1, <3>1, RingIs
    <3>5. /\ b.m_stones[b.m_parent[v]] = Cardinality(Members(b, v))
          /\ b.m_libs[b.m_parent[v]] = Cardinality(Libs(b, Members(b, v)))
      BY <2>1, <3>1, CountsAt
    <3>6. Rules!Liberties(b.m_state, Members(b, v)) = Libs(b, Members(b, v))
      <4>1. \A u \in Members(b, v) : u \in Points /\ Around(u) = Adjacent[u]
                                     /\ Around(u) \in SUBSET Points
        BY AroundIs DEF Members, Around
      <4>2. QED
        BY <4>1 DEF Rules!Liberties, Libs
    <3>7. QED
      BY <3>2, <3>3, <3>4, <3>5, <3>6 DEF Members
  <2>4. ASSUME NEW v \in Points, NEW c \in Contents
        PROVE  b.m_neighbours[v][c] =
                   Cardinality({a \in Around(v) : b.m_state[a] = c})
                   + (IF c = EMPTY THEN 0 ELSE 4 - Cardinality(Around(v)))
    BY <2>1 DEF Counted, Near
  <2>5. QED
    BY <2>3, <2>4 DEF StringsExact, Contents, b
<1>2. QED
  BY <1>1, SoundInvariant, PTL


-----------------------------------------------------------------------------
(* The refinement of the rule of capture.                                  *)

LEMMA RulesCardinality == \A S : Rules!Cardinality(S) = Cardinality(S)
BY DEF Rules!Cardinality, Cardinality

LEMMA RulesStep ==
    ASSUME SoundState(state), [Next]_state
    PROVE  [Rules!Next]_<<state.board.m_state, state.board.m_prisoners, state.board.m_tomove>>
<1>1. CASE UNCHANGED state
  BY <1>1
<1>2. CASE reset_game
  <2>1. /\ init_game.board.m_tomove = BLACK
        /\ init_game.board.m_state = [w \in Points |-> EMPTY]
        /\ init_game.board.m_prisoners = [c \in Colors |-> 0]
    BY DEF init_game, reset_board
  <2>2. Rules!NewGame
    BY <1>2, <2>1 DEF reset_game, Rules!NewGame, Colors
  <2>3. QED
    BY <2>2 DEF Rules!Next
<1>3. ASSUME NEW c \in Colors, NEW s, s = [state EXCEPT !.board = set_to_move(@, c)]
      PROVE  /\ SoundState(s) /\ SameStrings(s.board, state.board)
             /\ s.board.m_prisoners = state.board.m_prisoners
  <2>1. Sound(set_to_move(state.board, c))
        /\ SameStrings(set_to_move(state.board, c), state.board)
        /\ set_to_move(state.board, c).m_prisoners = state.board.m_prisoners
    BY SetToMoveSound DEF SoundState
  <2>2. QED
    BY <1>3, <2>1 DEF SoundState
<1>4. \A c \in Colors : Rules!Rival(c) = Other(c)
  BY DEF Rules!Rival, Other
<1>5. ASSUME NEW c \in Colors, NEW v \in Points, Play(c, v)
      PROVE  Rules!Play(c, v)
  <2>1. PICK s : s = [state EXCEPT !.board = set_to_move(@, c)]
    OBVIOUS
  <2>2. /\ SoundState(s) /\ s.board.m_state = state.board.m_state
        /\ s.board.m_prisoners = state.board.m_prisoners
    BY <1>3, <2>1 DEF SameStrings
  <2>3. state' = play_move(s, c, v) /\ state.board.m_state[v] = EMPTY
    BY <1>5, <2>1 DEF Play, Move
  <2>4. ~Stone(s.board, v) /\ Sound(s.board)
    BY <2>2, <2>3 DEF Stone, SoundState
  <2>5. PICK n : n = update_board(s.board, c, v).board
    OBVIOUS
  <2>6. /\ state'.board.m_state = n.m_state
        /\ state'.board.m_prisoners = n.m_prisoners
        /\ state'.board.m_tomove = Other(c)
    BY <2>2, <2>3, <2>4, <2>5, PlayMoveSound DEF SameStrings
  <2> DEFINE placed == [state.board.m_state EXCEPT ![v] = c]
             captured == Rules!Dead(placed, Other(c))
             left == Rules!TakeOff(placed, captured)
  <2>7. /\ n.m_state = Rules!TakeOff(left, Rules!Dead(left, c))
        /\ n.m_prisoners =
               [state.board.m_prisoners EXCEPT ![c] = @ + Cardinality(captured)]
        /\ \A w \in Points \ {v} : n.m_state[w] \in {state.board.m_state[w], EMPTY}
    <3>1. PICK d : d = Directions(PutStone(s.board, c, v), c, v).board
      OBVIOUS
    <3>2. /\ n.m_state = Final(s.board, c, v)
          /\ n.m_prisoners = Prize(s.board, c, v)
          /\ \A w \in Points \ {v} : n.m_state[w] \in {s.board.m_state[w], EMPTY}
      BY <2>4, <2>5, <3>1, UpdateBoardSound
    <3>3. captured = Lost(s.board, c, v) /\ left = Left(s.board, c, v)
      BY <2>2 DEF Lost, Left
    <3>4. QED
      BY <2>2, <3>2, <3>3 DEF Final, Prize
  <2>8. Rules!Rival(c) = Other(c) /\ Rules!Cardinality(captured) = Cardinality(captured)
    BY <1>4, RulesCardinality
  <2>9. /\ state'.board.m_prisoners = [state.board.m_prisoners EXCEPT
                                           ![c] = @ + Rules!Cardinality(captured)]
        /\ state'.board.m_state = Rules!TakeOff(left, Rules!Dead(left, c))
        /\ \A w \in Points \ {v} :
              state'.board.m_state[w] \in {state.board.m_state[w], EMPTY}
    BY <2>6, <2>7, <2>8
  <2>10. QED
    BY <2>3, <2>6, <2>8, <2>9 DEF Rules!Play
<1>6. ASSUME NEW c \in Colors, Pass(c)
      PROVE  Rules!Pass(Other(c))
  <2>1. PICK s : s = [state EXCEPT !.board = set_to_move(@, c)]
    OBVIOUS
  <2>2. /\ SoundState(s) /\ s.board.m_state = state.board.m_state
        /\ s.board.m_prisoners = state.board.m_prisoners
    BY <1>3, <2>1 DEF SameStrings
  <2>3. state' = play_move(s, c, PASS)
    BY <1>6, <2>1 DEF Pass, Move
  <2>4. /\ state'.board.m_state = s.board.m_state
        /\ state'.board.m_prisoners = s.board.m_prisoners
        /\ state'.board.m_tomove = Other(c)
    BY <2>2, <2>3, PlayPassSound DEF SameStrings
  <2>5. QED
    BY <2>2, <2>4 DEF Rules!Pass
<1>7. \A c \in Colors : Other(c) \in Colors
  BY Others
<1>8. CASE \E c \in Colors, v \in Points : Play(c, v)
  BY <1>5, <1>8 DEF Rules!Next, Colors
<1>9. CASE \E c \in Colors : Pass(c)
  BY <1>6, <1>7, <1>9 DEF Rules!Next, Colors
<1>10. QED
  BY <1>1, <1>2, <1>8, <1>9 DEF Next

(* The incremental board implements the rule of capture: whatever strings  *)
(* are joined and captured, and in whatever order, the stones and          *)
(* prisoners after update_board() are those of GoRules.                    *)
THEOREM BoardPlaysGo == Spec => ImplementsRules
<1>1. Init => Rules!Init
  <2>1. /\ init_game.board.m_tomove = BLACK
        /\ init_game.board.m_state = [w \in Points |-> EMPTY]
        /\ init_game.board.m_prisoners = [c \in Colors |-> 0]
    BY DEF init_game, reset_board
  <2>2. QED
    BY <2>1 DEF Init, Rules!Init, Colors
<1>2. SoundState(state) /\ [Next]_state
        => [Rules!Next]_<<state.board.m_state, state.board.m_prisoners, state.board.m_tomove>>
  BY RulesStep
<1>3. QED
  BY <1>1, <1>2, SoundInvariant, PTL DEF Spec, ImplementsRules, Rules!Spec


-----------------------------------------------------------------------------
(* Suicide.                                                                *)

(* What is_suicide() reads off the counts, said of the strings next to i.  *)
LEMMA SuicideReads ==
    ASSUME NEW b, Sound(b), NEW color \in Colors, NEW i \in Points, ~Stone(b, i)
    PROVE  is_suicide(b, i, color) <=>
               \A a \in Around(i) :
                   /\ b.m_state[a] # EMPTY
                   /\ b.m_state[a] = color <=> Libs(b, Members(b, a)) \subseteq {i}
<1>1. RingsInv(b) /\ Counted(b)
  BY DEF Sound
<1>2. count_pliberties(b, i) = 0 <=> \A a \in Around(i) : b.m_state[a] # EMPTY
  <2>1. b.m_neighbours[i][EMPTY] = Cardinality(Near(b, i, EMPTY)) + 0
    BY <1>1 DEF Counted, Contents
  <2>2. IsFiniteSet(Near(b, i, EMPTY)) /\ Cardinality(Near(b, i, EMPTY)) \in Nat
    BY AroundIs, FinitePart DEF Near
  <2>3. Near(b, i, EMPTY) = {} <=> \A a \in Around(i) : b.m_state[a] # EMPTY
    BY DEF Near
  <2>4. QED
    BY <2>1, <2>2, <2>3, FS_EmptySet DEF count_pliberties
<1>3. ASSUME NEW a \in Around(i), Stone(b, a)
      PROVE  LET libs == b.m_libs[b.m_parent[a]]
             IN  /\ libs <= 1 <=> Libs(b, Members(b, a)) \subseteq {i}
                 /\ libs > 1 <=> ~(libs <= 1)
  <2> DEFINE L == Libs(b, Members(b, a))
  <2>1. a \in Points /\ i \in Around(a) /\ a \in Members(b, a)
    BY AroundIs DEF Members
  <2>2. i \in L
    BY <2>1 DEF Libs, Stone
  <2>3. b.m_libs[b.m_parent[a]] = Cardinality(L)
    BY <1>1, <1>3, <2>1, CountsAt
  <2>4. L \in SUBSET Points
    BY DEF Libs
  <2> HIDE DEF L
  <2>5. IsFiniteSet(L) /\ Cardinality(L) \in Nat /\ IsFiniteSet(L \ {i})
        /\ Cardinality(L \ {i}) \in Nat
    BY <2>4, FinitePart
  <2>6. Cardinality(L) = Cardinality(L \ {i}) + 1
    <3>1. i \notin L \ {i} /\ L = (L \ {i}) \cup {i}
      BY <2>2
    <3>2. L \ {i} \in SUBSET Points
      BY <2>4
    <3>3. Cardinality((L \ {i}) \cup {i}) = Cardinality(L \ {i}) + 1
      BY <3>1, <3>2, AddOne
    <3>4. QED
      BY <3>1, <3>3
  <2>7. Cardinality(L \ {i}) = 0 <=> L \ {i} = {}
    BY <2>5, FS_EmptySet
  <2>8. L \ {i} = {} <=> L \subseteq {i}
    OBVIOUS
  <2>9. Cardinality(L) <= 1 <=> L \subseteq {i}
    BY <2>5, <2>6, <2>7, <2>8
  <2>10. Cardinality(L) > 1 <=> ~(Cardinality(L) <= 1)
    BY <2>5
  <2>11. QED
    BY <2>3, <2>9, <2>10 DEF L
<1>4. QED
  BY <1>2, <1>3 DEF is_suicide, Stone

(* The stone has no liberty after the captures exactly if is_suicide().    *)
LEMMA SuicideIs ==
    ASSUME NEW b, Sound(b), NEW color \in Colors, NEW i \in Points, ~Stone(b, i),
           NEW m, m = Directions(PutStone(b, color, i), color, i).board
    PROVE  is_suicide(b, i, color) <=> Libs(m, Members(m, i)) = {}
<1> DEFINE placed == [b.m_state EXCEPT ![i] = color]
           opp == Other(color)
           captured == Rules!Dead(placed, opp)
<1>1. /\ RingsInv(b) /\ Separate(b, NO_VERTEX, {}) /\ Alive(b)
      /\ b.m_state \in [Points -> Contents] /\ b.m_state[i] = EMPTY
  BY DEF Sound, RingsInv, Shape, Stone
<1>2. /\ RingsInv(m) /\ Connected(m) /\ Separate(m, NO_VERTEX, {})
      /\ m.m_state[i] = color
      /\ \A v \in Points :
            /\ v \in captured <=> b.m_state[v] = opp /\ Libs(b, Members(b, v)) \subseteq {i}
            /\ m.m_state[v] = IF v \in captured THEN EMPTY ELSE placed[v]
      /\ \A u, w \in Points : b.m_state[u] = color /\ b.m_parent[u] = b.m_parent[w] =>
            m.m_parent[u] = m.m_parent[w]
  BY AfterDirections
<1>3. opp \in Colors /\ opp # color /\ opp # EMPTY /\ color # EMPTY
  BY Others
<1>4. /\ \A v \in Points : b.m_state[v] \in {color, opp, EMPTY}
      /\ NO_VERTEX \notin Points
  BY <1>1, BoardAssumption DEF Contents, Colors, Other, NO_VERTEX, Points
<1>5. \A v \in Points \ {i} : placed[v] = b.m_state[v]
  BY <1>1
<1> HIDE DEF placed, captured, opp
<1>6. \A v \in Points \ {i} :
         /\ m.m_state[v] = EMPTY <=> b.m_state[v] = EMPTY \/ v \in captured
         /\ m.m_state[v] = color <=> b.m_state[v] = color
  BY <1>2, <1>3, <1>5
<1>7. i \in Members(m, i) /\ Stone(m, i) /\ \A a \in Around(i) : a \in Points /\ a # i
  BY <1>2, <1>3, AroundIs DEF Members, Stone
<1>8. ASSUME Libs(m, Members(m, i)) = {}, NEW a \in Around(i)
      PROVE  /\ b.m_state[a] # EMPTY
             /\ b.m_state[a] = color <=> Libs(b, Members(b, a)) \subseteq {i}
  <2>1. a \in Points \ {i} /\ m.m_state[a] # EMPTY
    BY <1>7, <1>8 DEF Libs
  <2>2. b.m_state[a] # EMPTY /\ a \notin captured
    BY <1>6, <2>1
  <2>3. b.m_state[a] = opp => ~(Libs(b, Members(b, a)) \subseteq {i})
    BY <1>2, <2>1, <2>2
  <2>4. ASSUME b.m_state[a] = color, NEW e \in Libs(b, Members(b, a)), e # i
        PROVE  FALSE
    <3>1. PICK x \in Members(b, a) : e \in Around(x)
      BY DEF Libs
    <3>2. e \in Points /\ x \in Points /\ b.m_parent[a] = b.m_parent[x]
      BY DEF Libs, Members
    <3>3. m.m_parent[a] = m.m_parent[x]
      BY <1>2, <2>1, <2>4, <3>2
    <3>4. m.m_parent[a] = m.m_parent[i]
      <4>1. m.m_state[a] = m.m_state[i]
        BY <1>2, <1>6, <2>1, <2>4
      <4>2. QED
        BY <1>2, <1>4, <1>7, <2>1, <4>1 DEF Separate
    <3>5. m.m_state[e] = EMPTY
      BY <1>6, <2>4, <3>2 DEF Libs
    <3>6. QED
      BY <1>8, <3>1, <3>2, <3>3, <3>4, <3>5 DEF Libs, Members
  <2>5. QED
    BY <1>3, <1>4, <2>1, <2>2, <2>3, <2>4
<1>9. ASSUME \A a \in Around(i) :
                /\ b.m_state[a] # EMPTY
                /\ b.m_state[a] = color <=> Libs(b, Members(b, a)) \subseteq {i},
             NEW e \in Libs(m, Members(m, i))
      PROVE  FALSE
  <2> DEFINE T == {i} \cup {w \in Points :
                      /\ b.m_state[w] = color
                      /\ \E a \in Around(i) : /\ b.m_state[a] = color
                                             /\ b.m_parent[w] = b.m_parent[a]}
  <2>1. ASSUME NEW u \in T, NEW w \in Around(u), m.m_state[w] = m.m_state[i]
        PROVE  w \in T
    <3>1. w \in Points /\ (w = i \/ b.m_state[w] = color)
      BY <1>2, <1>6, <2>1, AroundIs
    <3>2. CASE w = i
      BY <3>2
    <3>3. CASE u = i /\ w # i
      BY <3>1, <3>3
    <3>4. CASE u # i /\ w # i
      <4>1. u \in Points /\ b.m_state[u] = color /\ Stone(b, u)
        BY <1>3, <3>4 DEF Stone
      <4>2. b.m_parent[w] = b.m_parent[u]
        BY <1>1, <1>4, <3>1, <3>4, <4>1 DEF Separate
      <4>3. QED
        BY <3>1, <3>4, <4>2
    <3>5. QED
      BY <3>2, <3>3, <3>4
  <2>2. T \in SUBSET Points /\ i \in T
    OBVIOUS
  <2> HIDE DEF T
  <2>3. Members(m, i) \subseteq T
    <3>1. \A u \in T : \A w \in Around(u) : m.m_state[w] = m.m_state[i] => w \in T
      BY <2>1
    <3>2. QED
      BY <1>2, <1>7, <2>2, <3>1 DEF Connected
  <2>4. PICK x \in T : e \in Around(x)
    BY <2>3 DEF Libs
  <2>5. e \in Points \ {i} /\ (b.m_state[e] = EMPTY \/ e \in captured)
    BY <1>2, <1>3, <1>6 DEF Libs
  <2>6. CASE b.m_state[e] = EMPTY
    <3>1. x # i
      BY <1>9, <2>4, <2>6
    <3>2. PICK a \in Around(i) : b.m_state[a] = color /\ b.m_parent[x] = b.m_parent[a]
      BY <2>4, <3>1 DEF T
    <3>3. x \in Members(b, a)
      BY <2>2, <3>1, <3>2 DEF Members
    <3>4. e \in Libs(b, Members(b, a))
      BY <2>4, <2>5, <2>6, <3>3 DEF Libs
    <3>5. QED
      BY <1>9, <2>5, <3>2, <3>4
  <2>7. CASE e \in captured
    <3>1. b.m_state[e] = opp /\ Libs(b, Members(b, e)) \subseteq {i} /\ Stone(b, e)
      BY <1>2, <1>3, <2>5, <2>7 DEF Stone
    <3>2. i \in Libs(b, Members(b, e))
      BY <1>1, <2>5, <3>1 DEF Alive
    <3>3. PICK y \in Members(b, e) : i \in Around(y)
      BY <3>2 DEF Libs
    <3>4. y \in Points /\ b.m_state[y] = opp /\ Members(b, y) = Members(b, e)
      BY <1>1, <2>5, <3>1, MembersAre
    <3>5. y \in Around(i)
      BY <3>3, <3>4, AroundIs
    <3>6. QED
      BY <1>3, <1>9, <3>1, <3>4, <3>5
  <2>8. QED
    BY <2>5, <2>6, <2>7
<1>10. QED
  BY <1>8, <1>9, SuicideReads

(* is_suicide() tells from the counts of liberties which moves take off    *)
(* the stone that is played.                                               *)
THEOREM SuicideIsTold == Spec => []SuicideExact
<1>1. ASSUME SoundState(state)
      PROVE  SuicideExact
  <2> SUFFICES ASSUME NEW c \in Colors, NEW v \in Points,
                      state.board.m_state[v] = EMPTY
               PROVE  is_suicide(state.board, v, c) <=>
                          update_board(state.board, c, v).board.m_state[v] = EMPTY
    BY DEF SuicideExact
  <2>1. Sound(state.board) /\ ~Stone(state.board, v)
    BY <1>1 DEF SoundState, Stone
  <2>2. PICK b : b = state.board
    OBVIOUS
  <2>3. Sound(b) /\ ~Stone(b, v)
    BY <2>1, <2>2
  <2>4. PICK d : d = Directions(PutStone(b, c, v), c, v).board
    OBVIOUS
  <2>5. PICK n : n = update_board(b, c, v).board
    OBVIOUS
  <2>6. is_suicide(b, v, c) <=> Libs(d, Members(d, v)) = {}
    BY <2>3, <2>4, SuicideIs
  <2>7. n.m_state[v] = EMPTY <=> Libs(d, Members(d, v)) = {}
    BY <2>3, <2>4, <2>5, UpdateBoardSound
  <2>8. QED
    BY <2>2, <2>5, <2>6, <2>7
<1>2. SoundState(state) => SuicideExact
  BY <1>1
<1>3. QED
  BY <1>2, SoundInvariant, PTL


-----------------------------------------------------------------------------
(* Ko.                                                                     *)

\* The opponent's stones whose last liberty is i, and whether i is an eye of
\* the opponent's.
Caught(b, color, i) ==
    {u \in Points : b.m_state[u] = Other(color) /\ Libs(b, Members(b, u)) \subseteq {i}}
Eye(b, color, i) == \A a \in Around(i) : b.m_state[a] = Other(color)

LEMMA EyeIs ==
    ASSUME NEW b, Counted(b), NEW color \in Colors, NEW i \in Points
    PROVE  b.m_neighbours[i][Other(color)] = 4 <=> Eye(b, color, i)
<1> DEFINE near == Near(b, i, Other(color))
<1>1. Other(color) \in Contents /\ Other(color) # EMPTY
  BY Others DEF Contents
<1>2. b.m_neighbours[i][Other(color)] = Cardinality(near) + (4 - Cardinality(Around(i)))
  BY <1>1 DEF Counted
<1>3. near \in SUBSET Around(i) /\ near \in SUBSET Points /\ Around(i) \in SUBSET Points
  BY AroundIs DEF Near
<1>4. /\ Cardinality(near) \in Nat /\ Cardinality(Around(i)) \in Nat
      /\ IsFiniteSet(Around(i))
  BY <1>3, FinitePart
<1>5. near = Around(i) <=> Eye(b, color, i)
  BY DEF Near, Eye
<1> HIDE DEF near
<1>6. Cardinality(Around(i)) = Cardinality(near) => near = Around(i)
  BY <1>3, <1>4, FS_Subset
<1>7. Cardinality(near) + (4 - Cardinality(Around(i))) = 4
          <=> Cardinality(Around(i)) = Cardinality(near)
  BY <1>4
<1>8. QED
  BY <1>2, <1>5, <1>6, <1>7

\* n has the strings that a move by color at i leaves.
Follows(b, n, color, i) ==
    /\ is_suicide(b, i, color) =>
          \A w \in Points : n.m_state[w] = EMPTY => b.m_state[w] # Other(color)
    /\ ~is_suicide(b, i, color) =>
          /\ \A w \in Points :
                n.m_state[w] = IF w \in Caught(b, color, i) THEN EMPTY
                               ELSE IF w = i THEN color ELSE b.m_state[w]
          /\ \A u, w \in Points :
                b.m_state[u] = color /\ b.m_parent[u] = b.m_parent[w] =>
                    n.m_parent[u] = n.m_parent[w]

\* ko is the one stone caught by a move into an eye.
KoIs(b, ko, color, i) ==
    /\ Eye(b, color, i) /\ (\E k : Caught(b, color, i) = {k})
          => Caught(b, color, i) = {ko}
    /\ ~(Eye(b, color, i) /\ \E k : Caught(b, color, i) = {k}) => ko = NO_VERTEX

(* A capture saves the stone that makes it.                                *)
LEMMA CaptureSaves ==
    ASSUME NEW b, Sound(b), NEW color \in Colors, NEW i \in Points, ~Stone(b, i),
           NEW u \in Caught(b, color, i)
    PROVE  /\ \E y \in Around(i) : y \in Caught(b, color, i) /\ y \in Members(b, u)
           /\ \A y \in Members(b, u) : y \in Caught(b, color, i)
           /\ ~is_suicide(b, i, color)
<1>1. RingsInv(b) /\ Alive(b)
  BY DEF Sound
<1>2. /\ u \in Points /\ b.m_state[u] = Other(color) /\ Stone(b, u)
      /\ Libs(b, Members(b, u)) \subseteq {i} /\ Other(color) # color
  BY Others DEF Caught, Stone
<1>3. \A y \in Members(b, u) : /\ y \in Points /\ b.m_state[y] = Other(color)
                              /\ Members(b, y) = Members(b, u)
  BY <1>1, <1>2, MembersAre
<1>4. \A y \in Members(b, u) : y \in Caught(b, color, i)
  BY <1>2, <1>3 DEF Caught
<1>5. i \in Libs(b, Members(b, u))
  BY <1>1, <1>2 DEF Alive
<1>6. PICK y \in Members(b, u) : i \in Around(y)
  BY <1>5 DEF Libs
<1>7. y \in Around(i)
  BY <1>3, <1>6, AroundIs
<1>8. ~is_suicide(b, i, color)
  <2>1. ~(b.m_state[y] = color) /\ Libs(b, Members(b, y)) \subseteq {i}
    BY <1>2, <1>3, <1>6
  <2>2. QED
    BY <1>7, <2>1, SuicideReads
<1>9. QED
  BY <1>4, <1>6, <1>7, <1>8

LEMMA AfterMove ==
    ASSUME NEW b, Sound(b), NEW color \in Colors, NEW i \in Points, ~Stone(b, i),
           NEW moved, moved = update_board(b, color, i),
           NEW n, Shape(n), SameStrings(n, moved.board)
    PROVE  /\ Sound(n)
           /\ Follows(b, n, color, i)
           /\ KoIs(b, moved.komove, color, i)
<1>1. PICK p : p = PutStone(b, color, i)
  OBVIOUS
<1>2. PICK acc : acc = Directions(p, color, i)
  OBVIOUS
<1>3. PICK d : d = Directions(PutStone(b, color, i), color, i).board
  OBVIOUS
<1>4. PICK r : r = moved.board
  OBVIOUS
<1>5. d = acc.board /\ r = update_board(b, color, i).board
  BY <1>1, <1>2, <1>3, <1>4
<1>6. /\ Sound(r)
      /\ Libs(d, Members(d, i)) # {} => SameStrings(r, d)
      /\ \A w \in Points : d.m_state[w] = Other(color) => r.m_state[w] = Other(color)
  <2>1. r = update_board(b, color, i).board
    BY <1>5
  <2>2. Sound(r)
    BY <1>3, <2>1, UpdateBoardSound
  <2>3. Libs(d, Members(d, i)) # {} => SameStrings(r, d)
    BY <1>3, <2>1, UpdateBoardSound
  <2>4. \A w \in Points : d.m_state[w] = Other(color) => r.m_state[w] = Other(color)
    BY <1>3, <2>1, UpdateBoardSound
  <2>5. QED
    BY <2>2, <2>3, <2>4
<1>7. Sound(n) /\ n.m_state = r.m_state /\ n.m_parent = r.m_parent
  BY <1>4, <1>6, SoundAgain DEF SameStrings
<1>8. is_suicide(b, i, color) <=> Libs(d, Members(d, i)) = {}
  BY <1>3, SuicideIs
<1> DEFINE placed == [b.m_state EXCEPT ![i] = color]
           captured == Rules!Dead(placed, Other(color))
<1>9. /\ acc.captured = Cardinality(captured)
      /\ captured # {} => acc.vertex \in captured
      /\ \A v \in Points :
            /\ v \in captured <=> b.m_state[v] = Other(color)
                                    /\ Libs(b, Members(b, v)) \subseteq {i}
            /\ d.m_state[v] = IF v \in captured THEN EMPTY ELSE placed[v]
      /\ \A u, w \in Points :
            b.m_state[u] = color /\ b.m_parent[u] = b.m_parent[w] =>
                d.m_parent[u] = d.m_parent[w]
  BY <1>1, <1>2, <1>5, AfterDirections
<1>10. \A w \in Points : placed[w] = IF w = i THEN color ELSE b.m_state[w]
  BY DEF Sound, RingsInv, Shape
<1>11. captured \in SUBSET Points
  <2>1. \A v \in captured : v \in Points
    BY DEF Rules!Dead
  <2>2. QED
    BY <2>1
<1> HIDE DEF placed, captured
<1>12. captured = Caught(b, color, i)
  BY <1>9, <1>11 DEF Caught
<1>13. Follows(b, n, color, i)
  <2>1. ASSUME is_suicide(b, i, color), NEW w \in Points, n.m_state[w] = EMPTY,
               b.m_state[w] = Other(color)
        PROVE  FALSE
    <3>1. r.m_state[w] = EMPTY /\ Other(color) # EMPTY /\ b.m_state[i] = EMPTY
      BY <1>7, <2>1, Others DEF Stone
    <3>2. w \notin captured
      BY <1>12, <2>1, CaptureSaves
    <3>3. d.m_state[w] = Other(color)
      BY <1>9, <1>10, <2>1, <3>1, <3>2
    <3>4. QED
      BY <1>6, <3>1, <3>3
  <2>2. ASSUME ~is_suicide(b, i, color)
        PROVE  n.m_state = d.m_state /\ n.m_parent = d.m_parent
    <3>1. SameStrings(r, d)
      BY <1>6, <1>8, <2>2
    <3>2. QED
      BY <1>7, <3>1 DEF SameStrings
  <2>3. QED
    BY <1>9, <1>10, <1>12, <2>1, <2>2 DEF Follows
<1>14. KoIs(b, moved.komove, color, i)
  <2>1. moved.komove = KoPoint(acc.captured, acc.vertex, Eye(b, color, i))
    <3>1. b.m_neighbours[i][Other(color)] = 4 <=> Eye(b, color, i)
      BY EyeIs DEF Sound
    <3>2. moved.komove = KoPoint(acc.captured, acc.vertex,
                                 b.m_neighbours[i][Other(color)] = 4)
      BY <1>1, <1>2 DEF update_board, Outcome
    <3>3. QED
      BY <3>1, <3>2 DEF KoPoint
  <2>2. acc.captured = 1 <=> \E k : Caught(b, color, i) = {k}
    <3>1. IsFiniteSet(captured)
      BY <1>11, FinitePart
    <3>2. QED
      BY <1>9, <1>12, <3>1, FS_Singleton
  <2>3. \A k : Caught(b, color, i) = {k} => acc.vertex = k
    BY <1>9, <1>12
  <2>4. QED
    BY <2>1, <2>2, <2>3 DEF KoPoint, KoIs
<1>15. QED
  BY <1>7, <1>13, <1>14


(* A ko: the opponent could play on the point, would take the stone that   *)
(* has just been played, and nothing else.                                 *)
LEMMA KoOpen ==
    ASSUME NEW b, Sound(b), NEW color \in Colors, NEW i \in Points, ~Stone(b, i),
           NEW n, Sound(n), Follows(b, n, color, i),
           NEW ko, KoIs(b, ko, color, i), ko # NO_VERTEX
    PROVE  /\ ko \in Points /\ b.m_state[ko] = Other(color) /\ n.m_state[ko] = EMPTY
           /\ ~is_suicide(n, ko, Other(color))
           /\ Caught(n, Other(color), ko) = {i}
           /\ \A w \in Points : n.m_state[w] = IF w = ko THEN EMPTY
                                               ELSE IF w = i THEN color ELSE b.m_state[w]
<1> DEFINE opp == Other(color)
<1>1. Eye(b, color, i) /\ Caught(b, color, i) = {ko}
  BY DEF KoIs
<1>2. /\ opp \in Colors /\ opp # color /\ opp # EMPTY /\ color # EMPTY
      /\ Other(opp) = color /\ b.m_state[i] = EMPTY
  BY Others DEF Other, Colors, Stone
<1> HIDE DEF opp
<1>3. ko \in Points /\ b.m_state[ko] = opp
  BY <1>1 DEF Caught, opp
<1>4. ~is_suicide(b, i, color) /\ ko \in Around(i)
  <2>1. ko \in Caught(b, color, i)
    BY <1>1
  <2>2. /\ \E y \in Around(i) : y \in Caught(b, color, i)
        /\ ~is_suicide(b, i, color)
    BY <2>1, CaptureSaves
  <2>3. QED
    BY <1>1, <2>2
<1>5. /\ \A w \in Points : n.m_state[w] = IF w = ko THEN EMPTY
                                          ELSE IF w = i THEN color ELSE b.m_state[w]
      /\ \A u, w \in Points : b.m_state[u] = color /\ b.m_parent[u] = b.m_parent[w] =>
            n.m_parent[u] = n.m_parent[w]
  BY <1>1, <1>4 DEF Follows
<1>6. /\ n.m_state[ko] = EMPTY /\ n.m_state[i] = color
      /\ Stone(n, i) /\ ~Stone(n, ko) /\ i # ko
  BY <1>2, <1>3, <1>5 DEF Stone
<1>7. \A a \in Around(i) : /\ a \in Points /\ a # i /\ b.m_state[a] = opp
                          /\ n.m_state[a] = IF a = ko THEN EMPTY ELSE opp
  BY <1>1, <1>5, AroundIs DEF Eye, opp
<1>8. Members(n, i) = {i}
  <2>1. Members(n, i) \subseteq {i}
    <3>1. \A u \in {i} : \A w \in Around(u) : n.m_state[w] = n.m_state[i] => w \in {i}
      BY <1>2, <1>6, <1>7
    <3>2. Connected(n) /\ {i} \in SUBSET Points
      BY DEF Sound
    <3>3. QED
      BY <1>6, <3>1, <3>2 DEF Connected
  <2>2. QED
    BY <2>1 DEF Members
<1>9. Libs(n, Members(n, i)) \subseteq {ko}
  BY <1>2, <1>7, <1>8 DEF Libs
<1>10. i \in Caught(n, opp, ko)
  BY <1>2, <1>6, <1>9 DEF Caught
<1>11. /\ ~is_suicide(n, ko, opp)
       /\ \A u \in Caught(n, opp, ko) :
             \E y \in Around(ko) : y \in Caught(n, opp, ko) /\ y \in Members(n, u)
  <2>1. ASSUME NEW u \in Caught(n, opp, ko)
        PROVE  /\ \E y \in Around(ko) : y \in Caught(n, opp, ko) /\ y \in Members(n, u)
               /\ ~is_suicide(n, ko, opp)
    BY <1>2, <1>3, <1>6, CaptureSaves
  <2>2. QED
    BY <1>10, <2>1
<1>12. ASSUME NEW u \in Caught(n, opp, ko), u # i
       PROVE  FALSE
  <2>1. PICK y \in Around(ko) : y \in Caught(n, opp, ko) /\ y \in Members(n, u)
    BY <1>11
  <2>2. /\ u \in Points /\ y \in Points
        /\ n.m_state[u] = color /\ n.m_state[y] = color /\ Stone(n, u)
        /\ Libs(n, Members(n, y)) \subseteq {ko}
    BY <1>2, <2>1 DEF Caught, Stone
  <2>3. y # i
    <3>1. RingsInv(n)
      BY DEF Sound
    <3>2. Members(n, y) = Members(n, u) /\ u \in Members(n, u)
      BY <2>1, <2>2, <3>1, MembersAre
    <3>3. QED
      BY <1>8, <1>12, <3>2
  <2>4. b.m_state[y] = color /\ Stone(b, y)
    BY <1>2, <1>5, <2>2, <2>3 DEF Stone
  <2>5. PICK e \in Points, x \in Members(b, y) : b.m_state[e] = EMPTY /\ e \in Around(x)
    BY <2>2, <2>4 DEF Sound, Alive, Libs
  <2>6. x \in Points /\ b.m_state[x] = color /\ b.m_parent[x] = b.m_parent[y]
    <3>1. RingsInv(b)
      BY DEF Sound
    <3>2. QED
      BY <2>2, <2>4, <2>5, <3>1, MembersAre
  <2>7. e # i
    <3>1. e = i => x \in Around(i)
      BY <2>5, <2>6, AroundIs
    <3>2. QED
      BY <1>2, <1>7, <2>6, <3>1
  <2>8. e # ko /\ n.m_state[e] = EMPTY
    BY <1>2, <1>3, <1>5, <2>5, <2>7
  <2>9. x \in Members(n, y)
    BY <1>5, <2>2, <2>6 DEF Members
  <2>10. e \in Libs(n, Members(n, y))
    BY <2>5, <2>8, <2>9 DEF Libs
  <2>11. QED
    BY <2>2, <2>8, <2>10
<1>13. Caught(n, opp, ko) = {i}
  BY <1>10, <1>12
<1>14. QED
  BY <1>3, <1>5, <1>6, <1>11, <1>13 DEF opp

LEMMA KoRetakes ==
    ASSUME NEW b, Sound(b), NEW color \in Colors, NEW i \in Points, ~Stone(b, i),
           NEW n, Sound(n), Follows(b, n, color, i),
           NEW ko, KoIs(b, ko, color, i), ko # NO_VERTEX,
           NEW m, Sound(m), Follows(n, m, Other(color), ko)
    PROVE  m.m_state = b.m_state
<1>1. /\ b.m_state[ko] = Other(color) /\ b.m_state[i] = EMPTY
      /\ ~is_suicide(n, ko, Other(color))
      /\ Caught(n, Other(color), ko) = {i}
      /\ \A w \in Points : n.m_state[w] = IF w = ko THEN EMPTY
                                          ELSE IF w = i THEN color ELSE b.m_state[w]
  BY KoOpen DEF Stone
<1>2. \A w \in Points : m.m_state[w] = IF w = i THEN EMPTY
                                       ELSE IF w = ko THEN Other(color) ELSE n.m_state[w]
  BY <1>1 DEF Follows
<1>3. \A w \in Points : m.m_state[w] = b.m_state[w]
  BY <1>1, <1>2
<1>4. m.m_state \in [Points -> Contents] /\ b.m_state \in [Points -> Contents]
  BY DEF Sound, RingsInv, Shape
<1>5. QED
  BY <1>3, <1>4

(* No move but that on the ko point brings the position back.              *)
LEMMA OnlyKoRetakes ==
    ASSUME NEW b, Sound(b), NEW color \in Colors, NEW i \in Points, ~Stone(b, i),
           NEW n, Sound(n), Follows(b, n, color, i),
           NEW ko, KoIs(b, ko, color, i),
           NEW w \in Points, ~Stone(n, w), ~is_suicide(n, w, Other(color)),
           NEW m, Follows(n, m, Other(color), w), m.m_state = b.m_state
    PROVE  w = ko
<1> DEFINE opp == Other(color)
<1>1. /\ opp \in Colors /\ opp # color /\ opp # EMPTY /\ color # EMPTY
      /\ Other(opp) = color /\ b.m_state[i] = EMPTY /\ n.m_state[w] = EMPTY
  BY Others DEF Other, Colors, Stone
<1>2. \A u \in Points : b.m_state[u] = IF u \in Caught(n, opp, w) THEN EMPTY
                                       ELSE IF u = w THEN opp ELSE n.m_state[u]
  BY DEF Follows
<1>3. is_suicide(b, i, color) =>
          \A u \in Points : n.m_state[u] = EMPTY => b.m_state[u] # opp
  BY DEF Follows
<1>4. ~is_suicide(b, i, color) =>
          \A u \in Points : n.m_state[u] = IF u \in Caught(b, color, i) THEN EMPTY
                                           ELSE IF u = i THEN color ELSE b.m_state[u]
  BY DEF Follows
<1>5. (\A u \in Points : b.m_state[u] \in {color, opp, EMPTY}) /\ NO_VERTEX \notin Points
  BY BoardAssumption
     DEF Sound, RingsInv, Shape, Contents, Colors, Other, NO_VERTEX, Points
<1> HIDE DEF opp
<1>6. b.m_state[w] = opp
  BY <1>1, <1>2 DEF Caught
<1>7. \A u \in Points : n.m_state[u] = IF u \in Caught(b, color, i) THEN EMPTY
                                       ELSE IF u = i THEN color ELSE b.m_state[u]
  BY <1>1, <1>3, <1>4, <1>6
<1>8. i \notin Caught(b, color, i)
      /\ \A u \in Caught(b, color, i) : u \in Points /\ b.m_state[u] = opp
  BY <1>1 DEF Caught, opp
<1>9. w \in Caught(b, color, i) /\ n.m_state[i] = color /\ Stone(n, i) /\ i # w
  BY <1>1, <1>6, <1>7, <1>8 DEF Stone
<1>10. i \in Caught(n, opp, w)
  BY <1>1, <1>2, <1>9
<1>11. Members(n, i) = {i}
  <2>1. \A y \in Members(n, i) : y \in Caught(n, opp, w)
    BY <1>1, <1>10, CaptureSaves
  <2>2. ASSUME NEW y \in Members(n, i), y # i
        PROVE  FALSE
    <3>1. y \in Points /\ n.m_state[y] = color /\ b.m_state[y] = EMPTY
      BY <1>1, <1>2, <2>1 DEF Caught
    <3>2. QED
      BY <1>1, <1>7, <2>2, <3>1
  <2>3. QED
    BY <2>2 DEF Members
<1>12. Caught(b, color, i) = {w}
  <2>1. ASSUME NEW u \in Caught(b, color, i), u # w
        PROVE  FALSE
    <3>1. u \in Points /\ b.m_state[u] = opp /\ n.m_state[u] = EMPTY
      BY <1>7, <1>8
    <3>2. QED
      BY <1>1, <1>2, <2>1, <3>1
  <2>2. QED
    BY <1>9, <2>1
<1>13. Eye(b, color, i)
  <2> SUFFICES ASSUME NEW a \in Around(i)
               PROVE  b.m_state[a] = opp
    BY DEF Eye, opp
  <2>1. a \in Points /\ a # i
    BY AroundIs
  <2>2. CASE b.m_state[a] = EMPTY
    <3>1. n.m_state[a] = EMPTY
      BY <1>7, <2>1, <2>2
    <3>2. a \in Libs(n, Members(n, i))
      BY <1>11, <2>1, <3>1 DEF Libs
    <3>3. a = w
      BY <1>10, <3>2 DEF Caught
    <3>4. QED
      BY <1>6, <3>3
  <2>3. CASE b.m_state[a] = color
    <3>1. n.m_state[a] = n.m_state[i]
      BY <1>1, <1>7, <1>8, <1>9, <2>1, <2>3
    <3>2. n.m_parent[a] = n.m_parent[i]
      BY <1>5, <1>9, <2>1, <3>1 DEF Sound, Separate
    <3>3. a \in Members(n, i)
      BY <2>1, <3>2 DEF Members
    <3>4. QED
      BY <1>11, <2>1, <3>3
  <2>4. QED
    BY <1>5, <2>1, <2>2, <2>3
<1>14. QED
  BY <1>12, <1>13 DEF KoIs


LEMMA KoStepHolds ==
    ASSUME SoundState(state), Next, state' # init_game, state'.m_passes = 0
    PROVE  LET s == state'
               c == s.board.m_tomove
               open == {w \in Points : s.board.m_state[w] = EMPTY
                                          /\ ~is_suicide(s.board, w, c)}
           IN  /\ s.m_komove \in open \cup {NO_VERTEX}
               /\ \A w \in Points :
                      is_move_legal(s, c, w) <=>
                          /\ w \in open
                          /\ play_move(s, c, w).board.m_state # state.board.m_state
<1>1. ~reset_game
  BY DEF reset_game
<1>2. ASSUME NEW x \in Colors, NEW s, s = [state EXCEPT !.board = set_to_move(@, x)]
      PROVE  SoundState(s) /\ s.board.m_state = state.board.m_state
  <2>1. Sound(set_to_move(state.board, x))
        /\ SameStrings(set_to_move(state.board, x), state.board)
    BY SetToMoveSound DEF SoundState
  <2>2. QED
    BY <1>2, <2>1 DEF SoundState, SameStrings
<1>3. ~(\E x \in Colors : Pass(x))
  <2> SUFFICES ASSUME NEW x \in Colors, Pass(x)
               PROVE  FALSE
    OBVIOUS
  <2>1. PICK s : s = [state EXCEPT !.board = set_to_move(@, x)]
    OBVIOUS
  <2>2. state' = play_move(s, x, PASS) /\ SoundState(s)
    BY <1>2, <2>1 DEF Pass, Move
  <2>3. QED
    BY <2>2, PlayPassSound
<1>4. PICK x \in Colors, i \in Points : Play(x, i)
  BY <1>1, <1>3 DEF Next
<1>5. PICK s : s = [state EXCEPT !.board = set_to_move(@, x)]
  OBVIOUS
<1>6. /\ SoundState(s) /\ s.board.m_state = state.board.m_state
      /\ state' = play_move(s, x, i) /\ s.board.m_state[i] = EMPTY
  BY <1>2, <1>4, <1>5 DEF Play, Move
<1>7. PICK b : b = s.board
  OBVIOUS
<1>8. Sound(b) /\ ~Stone(b, i) /\ b.m_state = state.board.m_state
  BY <1>6, <1>7 DEF SoundState, Stone
<1>9. PICK moved : moved = update_board(b, x, i)
  OBVIOUS
<1>10. PICK t : t = state'
  OBVIOUS
<1>11. /\ SoundState(t) /\ SameStrings(t.board, moved.board)
       /\ t.board.m_tomove = Other(x) /\ t.m_komove = moved.komove
  <2>1. t = play_move(s, x, i) /\ ~Stone(s.board, i)
    BY <1>6, <1>10 DEF Stone
  <2>2. QED
    BY <1>6, <1>7, <1>9, <2>1, PlayMoveSound
<1>12. PICK n : n = t.board
  OBVIOUS
<1>13. PICK ko : ko = t.m_komove
  OBVIOUS
<1>14. Sound(n) /\ Follows(b, n, x, i) /\ KoIs(b, ko, x, i)
  <2>1. Shape(n) /\ SameStrings(n, moved.board)
    BY <1>11, <1>12 DEF SoundState, Sound, RingsInv
  <2>2. Sound(n) /\ Follows(b, n, x, i) /\ KoIs(b, moved.komove, x, i)
    BY <1>8, <1>9, <2>1, AfterMove
  <2>3. QED
    BY <1>11, <1>13, <2>2
<1>15. PICK c : c = Other(x)
  OBVIOUS
<1>16. c \in Colors
  BY <1>15, Others
<1>17. PASS \notin Points /\ NO_VERTEX \notin Points
  BY BoardAssumption DEF PASS, NO_VERTEX, Points
<1>18. ASSUME ko # NO_VERTEX
       PROVE  ko \in Points /\ n.m_state[ko] = EMPTY /\ ~is_suicide(n, ko, c)
  BY <1>8, <1>14, <1>15, <1>18, KoOpen
<1>19. ASSUME NEW w \in Points, n.m_state[w] = EMPTY, ~is_suicide(n, w, c)
       PROVE  w = ko <=> play_move(t, c, w).board.m_state = b.m_state
  <2>1. PICK r : r = play_move(t, c, w)
    OBVIOUS
  <2>2. PICK next : next = update_board(n, c, w)
    OBVIOUS
  <2>3. ~Stone(n, w)
    BY <1>19 DEF Stone
  <2>4. SoundState(r) /\ SameStrings(r.board, next.board)
    <3>1. ~Stone(t.board, w)
      BY <1>12, <2>3
    <3>2. QED
      BY <1>11, <1>12, <1>16, <2>1, <2>2, <3>1, PlayMoveSound
  <2>5. PICK m : m = r.board
    OBVIOUS
  <2>6. Sound(m) /\ Shape(m) /\ SameStrings(m, next.board)
    BY <2>4, <2>5 DEF SoundState, Sound, RingsInv
  <2>7. Follows(n, m, c, w)
    BY <1>14, <1>16, <2>2, <2>3, <2>6, AfterMove
  <2>8. Follows(n, m, Other(x), w) /\ ~is_suicide(n, w, Other(x))
    BY <1>15, <1>19, <2>7
  <2>9. m.m_state = b.m_state => w = ko
    BY <1>8, <1>14, <2>3, <2>8, OnlyKoRetakes
  <2>10. ASSUME w = ko
         PROVE  m.m_state = b.m_state
    <3>1. Follows(n, m, Other(x), ko) /\ ko # NO_VERTEX
      BY <1>17, <2>8, <2>10
    <3>2. QED
      BY <1>8, <1>14, <2>6, <3>1, KoRetakes
  <2>11. QED
    BY <2>1, <2>5, <2>9, <2>10
<1>20. ASSUME NEW w \in Points
       PROVE  is_move_legal(t, c, w) <=>
                 w # ko /\ n.m_state[w] = EMPTY /\ ~is_suicide(n, w, c)
  BY <1>12, <1>13, <1>17 DEF is_move_legal
<1> DEFINE open == {w \in Points : n.m_state[w] = EMPTY /\ ~is_suicide(n, w, c)}
<1>21. ko \in open \cup {NO_VERTEX}
  BY <1>18
<1>22. \A w \in Points : is_move_legal(t, c, w) <=>
          w \in open /\ play_move(t, c, w).board.m_state # b.m_state
  BY <1>19, <1>20
<1>23. t.board = n /\ t.m_komove = ko /\ t.board.m_tomove = c /\ b.m_state = state.board.m_state
  BY <1>8, <1>11, <1>12, <1>13, <1>15
<1>24. QED
  BY <1>10, <1>21, <1>22, <1>23

(* After a move the ko point forbids exactly the move that would bring the *)
(* position back.                                                          *)
THEOREM KoIsExact == Spec => KoExact
<1>1. SoundState(state) /\ Next => KoStep
  BY KoStepHolds DEF KoStep
<1>2. SoundState(state) /\ [Next]_state => [KoStep]_state
  BY <1>1
<1>3. QED
  BY <1>2, SoundInvariant, PTL DEF Spec, KoExact

============================================================================
