-------------------------- MODULE TreeMemoryProofs --------------------------
(***************************************************************************)
(* The account of the search tree's memory is exact and every node has one *)
(* owner, for any number of workers, nodes and pointers, and whatever a    *)
(* node and a pointer measure.                                             *)
(*                                                                         *)
(* AccountExact says nothing of where pointers lie.  A step that frees a   *)
(* pointer keeps it only if this pointer is there (Parents), and a step    *)
(* that stores a node only if its worker has not stored the same node      *)
(* before (OneAtATime); with these two it is inductive.  OneOwner needs in *)
(* addition that a worker is in the live tree, which shares no node with   *)
(* those being deleted (Disjoint): OwnInv.                                 *)
(***************************************************************************)
EXTENDS TreeMemory, FiniteSetTheorems, TLAPS

TypeInv ==
    /\ m_data \in [Ids -> {"free", "UNINFLATED", "POINTER", "INVALID"}]
    /\ m_children \in [Ids -> SUBSET Ids]
    /\ m_tree_size \in Int
    /\ made \subseteq Threads \X Ids
    /\ stored \subseteq Threads \X Ids

\* A pointer in a vector exists, and lies in no other vector.
Parents ==
    /\ \A n \in Ids : \A i \in m_children[n] : m_data[i] # "free"
    /\ \A n, k \in Ids : \A i \in m_children[n] : i \in m_children[k] => n = k

\* A worker is in one call of inflate(), before or after its exchange.
OneAtATime ==
    /\ made \cap stored = {}
    /\ \A p, q \in made \cup stored : p[1] = q[1] => p = q

IInv == TypeInv /\ Parents /\ OneAtATime /\ AccountExact

-----------------------------------------------------------------------------
LEMMA Distribute ==
    ASSUME NEW a \in Int, NEW b \in Int, NEW c \in Int
    PROVE  a * (b + c) = a * b + a * c /\ a * b \in Int
  BY SMT

LEMMA DisjointUnion ==
    ASSUME NEW S, NEW T, IsFiniteSet(S), IsFiniteSet(T), S \cap T = {}
    PROVE  Cardinality(S \cup T) = Cardinality(S) + Cardinality(T)
<1>1. Cardinality(S \cap T) = 0
  BY FS_EmptySet
<1>2. Cardinality(S) \in Nat /\ Cardinality(T) \in Nat
  BY FS_CardinalityType
<1>3. Cardinality(S \cup T)
          = Cardinality(S) + Cardinality(T) - Cardinality(S \cap T)
  BY FS_Union
<1> QED
  BY <1>1, <1>2, <1>3

\* What is counted is finite.
LEMMA Counted ==
    ASSUME TypeInv
    PROVE  /\ IsFiniteSet(Allocated) /\ Cardinality(Allocated) \in Nat
           /\ IsFiniteSet(Inflated) /\ Cardinality(Inflated) \in Nat
           /\ IsFiniteSet(stored) /\ Cardinality(stored) \in Nat
<1>1. Allocated \in SUBSET Ids /\ Inflated \in SUBSET Ids
  BY DEF Allocated, Inflated
<1>2. IsFiniteSet(Allocated) /\ IsFiniteSet(Inflated)
  BY <1>1, FS_Subset, MemoryAssumption
<1>3. IsFiniteSet(Threads \X Ids)
  BY FS_Product, MemoryAssumption
<1>4. IsFiniteSet(stored)
  BY <1>3, FS_Subset DEF TypeInv
<1> QED
  BY <1>2, <1>4, FS_CardinalityType

\* How a step changes the three counts decides whether it keeps the account.
LEMMA Account ==
    ASSUME IInv,
           NEW du \in Int, NEW df \in Int, NEW ds \in Int,
           Cardinality(Allocated') = Cardinality(Allocated) + du,
           Cardinality(Inflated') = Cardinality(Inflated) + df,
           Cardinality(stored') = Cardinality(stored) + ds,
           m_tree_size' = m_tree_size + PointerSize * du + NodeSize * df
                              - NodeSize * ds
    PROVE  AccountExact'
<1>1. PointerSize \in Int /\ NodeSize \in Int /\ m_tree_size \in Int
  BY MemoryAssumption DEF IInv, TypeInv
<1>2. /\ Cardinality(Allocated) \in Int /\ Cardinality(Inflated) \in Int
      /\ Cardinality(stored) \in Int
  BY Counted DEF IInv
<1>3. m_tree_size + NodeSize * Cardinality(stored)
          = PointerSize * Cardinality(Allocated)
            + NodeSize * Cardinality(Inflated)
  BY DEF IInv, AccountExact
<1>4. /\ NodeSize * Cardinality(stored')
             = NodeSize * Cardinality(stored) + NodeSize * ds
      /\ PointerSize * Cardinality(Allocated')
             = PointerSize * Cardinality(Allocated) + PointerSize * du
      /\ NodeSize * Cardinality(Inflated')
             = NodeSize * Cardinality(Inflated) + NodeSize * df
  BY <1>1, <1>2, Distribute
<1>5. /\ NodeSize * ds \in Int /\ NodeSize * df \in Int
      /\ PointerSize * du \in Int
      /\ NodeSize * Cardinality(stored) \in Int
      /\ NodeSize * Cardinality(Inflated) \in Int
      /\ PointerSize * Cardinality(Allocated) \in Int
  BY <1>1, <1>2, Distribute
<1>6. m_tree_size' + NodeSize * Cardinality(stored')
          = PointerSize * Cardinality(Allocated')
            + NodeSize * Cardinality(Inflated')
  BY <1>1, <1>3, <1>4, <1>5
<1> QED
  BY <1>6 DEF AccountExact

\* Steps that change neither the words, nor what is stored, nor the size.
LEMMA AccountFrame ==
    ASSUME AccountExact, UNCHANGED <<m_data, stored, m_tree_size>>
    PROVE  AccountExact'
  BY DEF AccountExact, Allocated, Inflated

-----------------------------------------------------------------------------
LEMMA LinkStep ==
    ASSUME IInv, NEW n \in Ids, NEW C \in SUBSET Ids, Link(n, C)
    PROVE  IInv'
<1>1. TypeInv'
  <2>1. IsFiniteSet(C)
    BY FS_Subset, MemoryAssumption
  <2>2. Cardinality(C) \in Nat
    BY <2>1, FS_CardinalityType
  <2> QED
    BY <2>2, MemoryAssumption DEF IInv, TypeInv, Link, workers
<1>2. Parents'
  BY DEF IInv, TypeInv, Parents, Link, Free
<1>3. OneAtATime'
  BY DEF IInv, OneAtATime, Link, workers
<1>4. AccountExact'
  <2>1. IsFiniteSet(C) /\ Cardinality(C) \in Nat
    BY FS_Subset, FS_CardinalityType, MemoryAssumption
  <2>2. Allocated' = Allocated \cup C /\ Allocated \cap C = {}
    BY DEF IInv, TypeInv, Link, Free, Allocated
  <2>3. Inflated' = Inflated
    BY DEF IInv, TypeInv, Link, Free, Inflated
  <2>4. Cardinality(Allocated') = Cardinality(Allocated) + Cardinality(C)
    BY <2>1, <2>2, Counted, DisjointUnion DEF IInv
  <2>5. stored' = stored /\ m_tree_size' = m_tree_size
                                            + PointerSize * Cardinality(C)
    BY DEF Link, workers
  <2>6. m_tree_size' = m_tree_size + PointerSize * Cardinality(C)
                           + NodeSize * 0 - NodeSize * 0
    BY <2>1, <2>5, MemoryAssumption DEF IInv, TypeInv
  <2>7. /\ Cardinality(Inflated') = Cardinality(Inflated) + 0
        /\ Cardinality(stored') = Cardinality(stored) + 0
    BY <2>3, <2>5, Counted DEF IInv
  <2> QED
    BY <2>1, <2>4, <2>6, <2>7, Account
<1> QED
  BY <1>1, <1>2, <1>3, <1>4 DEF IInv

LEMMA InflateStep ==
    ASSUME IInv, NEW t \in Threads, NEW i \in Ids, Inflate(t, i)
    PROVE  IInv'
<1>1. TypeInv' /\ Parents'
  BY DEF IInv, TypeInv, Parents, Inflate
<1>2. OneAtATime'
  BY DEF IInv, TypeInv, OneAtATime, Inflate
<1>3. AccountExact'
  BY AccountFrame DEF IInv, Inflate
<1> QED
  BY <1>1, <1>2, <1>3 DEF IInv

LEMMA CompareExchangeStep ==
    ASSUME IInv, NEW t \in Threads, NEW i \in Ids, CompareExchange(t, i)
    PROVE  IInv'
<1>1. TypeInv' /\ Parents'
  BY DEF IInv, TypeInv, Parents, CompareExchange
<1>2. OneAtATime'
  BY DEF IInv, TypeInv, OneAtATime, CompareExchange
<1>3. CASE m_data[i] = "UNINFLATED"
  <2>1. /\ m_data' = [m_data EXCEPT ![i] = "POINTER"]
        /\ stored' = stored \cup {<<t, i>>}
        /\ m_tree_size' = m_tree_size
    BY <1>3 DEF CompareExchange
  <2>2. Allocated' = Allocated
    BY <1>3, <2>1 DEF IInv, TypeInv, Allocated
  <2>3. Inflated' = Inflated \cup {i} /\ i \notin Inflated
    BY <1>3, <2>1 DEF IInv, TypeInv, Inflated
  <2>4. <<t, i>> \notin stored
    BY DEF IInv, OneAtATime, CompareExchange
  <2>5. Cardinality(Inflated') = Cardinality(Inflated) + 1
    BY <2>3, Counted, FS_AddElement DEF IInv
  <2>6. Cardinality(stored') = Cardinality(stored) + 1
    BY <2>1, <2>4, Counted, FS_AddElement DEF IInv
  <2>7. Cardinality(Allocated') = Cardinality(Allocated) + 0
    BY <2>2, Counted DEF IInv
  <2>8. m_tree_size' = m_tree_size + PointerSize * 0 + NodeSize * 1
                           - NodeSize * 1
    BY <2>1, MemoryAssumption DEF IInv, TypeInv
  <2>9. AccountExact'
    BY <2>5, <2>6, <2>7, <2>8, Account
  <2> QED
    BY <1>1, <1>2, <2>9 DEF IInv
<1>4. CASE m_data[i] # "UNINFLATED"
  <2>1. AccountExact'
    BY <1>4, AccountFrame DEF IInv, CompareExchange
  <2> QED
    BY <1>1, <1>2, <2>1 DEF IInv
<1> QED
  BY <1>3, <1>4

LEMMA CountStep ==
    ASSUME IInv, NEW t \in Threads, NEW i \in Ids, Count(t, i)
    PROVE  IInv'
<1>1. TypeInv' /\ Parents'
  BY MemoryAssumption DEF IInv, TypeInv, Parents, Count
<1>2. OneAtATime'
  BY DEF IInv, TypeInv, OneAtATime, Count
<1>3. AccountExact'
  <2>1. Cardinality(stored') = Cardinality(stored) + (-1)
    BY Counted, FS_RemoveElement DEF IInv, Count
  <2>2. Allocated' = Allocated /\ Inflated' = Inflated
    BY DEF Count, Allocated, Inflated
  <2>3. /\ Cardinality(Allocated') = Cardinality(Allocated) + 0
        /\ Cardinality(Inflated') = Cardinality(Inflated) + 0
    BY <2>2, Counted DEF IInv
  <2>4. m_tree_size' = m_tree_size + PointerSize * 0 + NodeSize * 0
                           - NodeSize * (-1)
    BY MemoryAssumption DEF IInv, TypeInv, Count
  <2> QED
    BY <2>1, <2>3, <2>4, Account
<1> QED
  BY <1>1, <1>2, <1>3 DEF IInv

-----------------------------------------------------------------------------
\* A pointer is destroyed, with or without a node.
LEMMA Release ==
    ASSUME IInv, NEW n \in Ids, NEW i \in m_children[n],
           m_data' = [m_data EXCEPT ![i] = "free"],
           m_children' = [m_children EXCEPT ![n] = @ \ {i}],
           m_tree_size' = m_tree_size - SizeOf(i),
           UNCHANGED <<made, stored>>
    PROVE  IInv'
<1>0. i \in Ids /\ m_data[i] # "free"
  BY DEF IInv, TypeInv, Parents
<1>1. TypeInv'
  BY <1>0, MemoryAssumption DEF IInv, TypeInv, SizeOf
<1>2. Parents'
  BY <1>0 DEF IInv, TypeInv, Parents
<1>3. OneAtATime'
  BY DEF IInv, OneAtATime
<1>4. AccountExact'
  <2>1. Allocated' = Allocated \ {i} /\ i \in Allocated
    BY <1>0 DEF IInv, TypeInv, Allocated
  <2>2. Inflated' = Inflated \ {i}
    BY <1>0 DEF IInv, TypeInv, Inflated
  <2>3. Cardinality(Allocated') = Cardinality(Allocated) + (-1)
    BY <2>1, Counted, FS_RemoveElement DEF IInv
  <2>4. Cardinality(stored') = Cardinality(stored) + 0
    BY Counted DEF IInv
  <2>5. CASE m_data[i] = "POINTER"
    <3>0. i \in Inflated
      BY <1>0, <2>5 DEF Inflated
    <3>1. Cardinality(Inflated') = Cardinality(Inflated) + (-1)
      BY <2>2, <3>0, Counted, FS_RemoveElement DEF IInv
    <3>2. m_tree_size' = m_tree_size + PointerSize * (-1) + NodeSize * (-1)
                             - NodeSize * 0
      BY <2>5, MemoryAssumption DEF IInv, TypeInv, SizeOf
    <3> QED
      BY <2>3, <2>4, <3>1, <3>2, Account
  <2>6. CASE m_data[i] # "POINTER"
    <3>0. Inflated' = Inflated
      BY <2>2, <2>6 DEF Inflated
    <3>1. Cardinality(Inflated') = Cardinality(Inflated) + 0
      BY <3>0, Counted DEF IInv
    <3>2. m_tree_size' = m_tree_size + PointerSize * (-1) + NodeSize * 0
                             - NodeSize * 0
      BY <2>6, MemoryAssumption DEF IInv, TypeInv, SizeOf
    <3> QED
      BY <2>3, <2>4, <3>1, <3>2, Account
  <2> QED
    BY <2>5, <2>6
<1> QED
  BY <1>1, <1>2, <1>3, <1>4 DEF IInv

LEMMA AdvanceStep ==
    ASSUME IInv, NEW r \in Ids, NEW i \in Ids, Advance(r, i)
    PROVE  IInv'
<1>0. i \in Ids /\ m_data[i] # "free"
  BY DEF IInv, TypeInv, Parents, Advance
<1>1. TypeInv' /\ Parents'
  BY <1>0, MemoryAssumption DEF IInv, TypeInv, Parents, Advance, workers
<1>2. OneAtATime'
  BY DEF IInv, OneAtATime, Advance, workers
<1>3. AccountExact'
  <2>1. Allocated' = Allocated
    BY <1>0 DEF IInv, TypeInv, Allocated, Advance
  <2>2. Inflated' = Inflated \ {i}
    BY <1>0 DEF IInv, TypeInv, Inflated, Advance
  <2>3. /\ Cardinality(Allocated') = Cardinality(Allocated) + 0
        /\ Cardinality(stored') = Cardinality(stored) + 0
    BY <2>1, Counted DEF IInv, Advance, workers
  <2>4. CASE m_data[i] = "POINTER"
    <3>0. i \in Inflated
      BY <1>0, <2>4 DEF Inflated
    <3>1. Cardinality(Inflated') = Cardinality(Inflated) + (-1)
      BY <2>2, <3>0, Counted, FS_RemoveElement DEF IInv
    <3>2. m_tree_size' = m_tree_size + PointerSize * 0 + NodeSize * (-1)
                             - NodeSize * 0
      BY <2>4, MemoryAssumption DEF IInv, TypeInv, Advance
    <3> QED
      BY <2>3, <3>1, <3>2, Account
  <2>5. CASE m_data[i] # "POINTER"
    <3>0. Inflated' = Inflated
      BY <2>2, <2>5 DEF Inflated
    <3>1. Cardinality(Inflated') = Cardinality(Inflated) + 0
      BY <3>0, Counted DEF IInv
    <3>2. m_tree_size' = m_tree_size + PointerSize * 0 + NodeSize * 0
                             - NodeSize * 0
      BY <2>5, MemoryAssumption DEF IInv, TypeInv, Advance
    <3> QED
      BY <2>3, <3>1, <3>2, Account
  <2> QED
    BY <2>4, <2>5
<1> QED
  BY <1>1, <1>2, <1>3 DEF IInv

LEMMA InflateAllStep ==
    ASSUME IInv, NEW r \in Ids, InflateAllChildren(r)
    PROVE  IInv'
<1> DEFINE C == {i \in m_children[r] : m_data[i] = "UNINFLATED"}
<1>1. /\ m_data' = [i \in Ids |-> IF i \in C THEN "POINTER" ELSE m_data[i]]
      /\ m_tree_size' = m_tree_size + NodeSize * Cardinality(C)
      /\ UNCHANGED <<m_children, made, stored>>
  BY DEF InflateAllChildren, workers
<1>2. C \in SUBSET Ids
  BY DEF IInv, TypeInv
<1>3. IsFiniteSet(C) /\ Cardinality(C) \in Nat
  BY <1>2, FS_Subset, FS_CardinalityType, MemoryAssumption
<1>4. TypeInv'
  BY <1>1, <1>2, <1>3, MemoryAssumption DEF IInv, TypeInv
<1>5. Parents'
  BY <1>1, <1>2 DEF IInv, TypeInv, Parents
<1>6. OneAtATime'
  BY <1>1 DEF IInv, OneAtATime
<1>7. AccountExact'
  <2>1. Allocated' = Allocated
    BY <1>1 DEF IInv, TypeInv, Allocated
  <2>2. Inflated' = Inflated \cup C /\ Inflated \cap C = {}
    BY <1>1, <1>2 DEF IInv, TypeInv, Inflated
  <2> HIDE DEF C
  <2>3. Cardinality(Inflated') = Cardinality(Inflated) + Cardinality(C)
    BY <1>3, <2>2, Counted, DisjointUnion DEF IInv
  <2>4. /\ Cardinality(Allocated') = Cardinality(Allocated) + 0
        /\ Cardinality(stored') = Cardinality(stored) + 0
    BY <1>1, <2>1, Counted DEF IInv
  <2>5. m_tree_size' = m_tree_size + PointerSize * 0
                           + NodeSize * Cardinality(C) - NodeSize * 0
    BY <1>1, <1>3, MemoryAssumption DEF IInv, TypeInv
  <2> QED
    BY <1>3, <2>3, <2>4, <2>5, Account
<1> QED
  BY <1>4, <1>5, <1>6, <1>7 DEF IInv

\* Steps that touch neither pointers nor workers.
LEMMA Frame ==
    ASSUME IInv,
           UNCHANGED <<m_data, m_children, m_tree_size, made, stored>>
    PROVE  IInv'
  BY AccountFrame DEF IInv, TypeInv, Parents, OneAtATime

-----------------------------------------------------------------------------
LEMMA IInvNext == IInv /\ [Next]_vars => IInv'
<1> SUFFICES ASSUME IInv, [Next]_vars PROVE IInv'
  OBVIOUS
<1> USE DEF trees, workers
<1>1. ASSUME NEW n \in Ids, NEW C \in SUBSET Ids, Link(n, C) PROVE IInv'
  BY <1>1, LinkStep
<1>2. ASSUME NEW t \in Threads, NEW i \in Ids,
             Inflate(t, i) \/ CompareExchange(t, i) \/ Count(t, i)
      PROVE  IInv'
  BY <1>2, InflateStep, CompareExchangeStep, CountStep
<1>3. ASSUME NEW n \in Ids, NEW i \in Ids, DestroyPointer(n, i) PROVE IInv'
  BY <1>3, Release DEF DestroyPointer
<1>4. ASSUME NEW r \in Ids, DestroyRoot(r) PROVE IInv'
  BY <1>4, Frame DEF DestroyRoot
<1>5. CASE EndSearch \/ BeginAdvance \/ Reuse \/ Cleared \/ StartSearch
  BY <1>5, Frame DEF EndSearch, BeginAdvance, Reuse, Cleared, StartSearch
<1>6. ASSUME NEW r \in Ids, NEW i \in Ids, Advance(r, i) PROVE IInv'
  BY <1>6, AdvanceStep
<1>7. ASSUME NEW r \in Ids, NEW i \in Ids, KillSuperko(r, i) PROVE IInv'
  BY <1>7, Release DEF KillSuperko
<1>8. ASSUME NEW r \in Ids, AdvanceOff(r) PROVE IInv'
  BY <1>8, Frame DEF AdvanceOff
<1>9. ASSUME NEW r \in Ids, InflateAllChildren(r) PROVE IInv'
  BY <1>9, InflateAllStep
<1>10. ASSUME NEW i \in Ids, StartOver(i) \/ ClearBoard(i) PROVE IInv'
  BY <1>10, Frame DEF StartOver, ClearBoard, NewRoot
<1>11. CASE UNCHANGED vars
  BY <1>11, Frame DEF vars
<1> QED
  BY <1>1, <1>2, <1>3, <1>4, <1>5, <1>6, <1>7, <1>8, <1>9, <1>10, <1>11
     DEF Next

LEMMA IInvInit == Init => IInv
<1> SUFFICES ASSUME Init PROVE IInv
  OBVIOUS
<1>1. TypeInv /\ Parents /\ OneAtATime
  BY DEF Init, TypeInv, Parents, OneAtATime
<1>2. Allocated = {} /\ Inflated = {} /\ stored = {} /\ m_tree_size = 0
  BY DEF Init, Allocated, Inflated
<1>3. AccountExact
  BY <1>2, FS_EmptySet, MemoryAssumption DEF AccountExact
<1> QED
  BY <1>1, <1>3 DEF IInv

\* m_tree_size is the memory of the pointers and nodes there are, but for
\* those a worker has stored and is about to count, although the workers
\* (UCTNodePointer::inflate), the deletions in the pool and the main thread
\* all change it: atomics that no lock holds together agree.
THEOREM AccountIsExact == Spec => []AccountExact
<1>1. IInv => AccountExact
  BY DEF IInv
<1> QED
  BY <1>1, IInvInit, IInvNext, PTL DEF Spec

-----------------------------------------------------------------------------
(* Who owns what.                                                          *)

LEMMA BelowIs ==
    ASSUME NEW R \in SUBSET Ids, TypeInv
    PROVE  /\ Below(R) \subseteq Ids
           /\ R \subseteq Below(R)
           /\ HoldsChildren(Below(R))
           /\ \A S \in SUBSET Ids :
                 R \subseteq S /\ HoldsChildren(S) => Below(R) \subseteq S
<1>1. Below(R) = {x \in Ids : \A S \in SUBSET Ids :
                                R \subseteq S /\ HoldsChildren(S) => x \in S}
  BY DEF Below
<1>2. HoldsChildren(Below(R))
  BY <1>1 DEF HoldsChildren, TypeInv
<1> QED
  BY <1>1, <1>2

\* A node below R that is not in R is held by a pointer in another one.
LEMMA BelowStep ==
    ASSUME NEW R \in SUBSET Ids, TypeInv, NEW x \in Below(R), x \notin R
    PROVE  m_data[x] = "POINTER" /\ \E n \in Below(R) : x \in m_children[n]
<1> DEFINE S == {y \in Below(R) :
                   \/ y \in R
                   \/ /\ m_data[y] = "POINTER"
                      /\ \E n \in Below(R) : y \in m_children[n]}
<1>1. S \in SUBSET Ids /\ R \subseteq S
  BY BelowIs
<1>2. HoldsChildren(S)
  BY BelowIs DEF HoldsChildren
<1>3. Below(R) \subseteq S
  BY <1>1, <1>2, BelowIs
<1> QED
  BY <1>3

\* The roots are no inflated pointers, and a node is the live root, is
\* being deleted with all below it, or is held by one pointer.
Owned ==
    /\ m_root \subseteq Ids /\ doomed \subseteq Ids
    /\ m_root \cap doomed = {}
    /\ Inflated \cap (m_root \cup doomed) = {}
    /\ nodes = m_root \cup doomed \cup Inflated
    /\ m_delete_futures \subseteq doomed
    /\ deleting \subseteq doomed

\* A pointer that is not inflated has no node, and one that was released
\* lies in the old root, which is being deleted.
WordsTrue ==
    /\ \A i \in Ids : m_data[i] = "UNINFLATED" => i \notin m_root \cup doomed
    /\ \A n \in Ids : \A i \in m_children[n] :
           m_data[i] = "INVALID" => n \in doomed

\* Each pointer there is lies in the children of a node there is.
HasParent ==
    /\ \A n \in Ids : m_children[n] # {} => n \in nodes
    /\ \A i \in Ids : m_data[i] # "free" =>
           \E n \in Ids : i \in m_children[n]

\* What kill_superkos() deletes, inflate_all_children() has inflated.
PruningInflated ==
    main = "pruning" =>
        \A r \in m_root : \A i \in m_children[r] : m_data[i] = "POINTER"

\* Only a search has workers, and no two of them stored the same node.
Inflating ==
    /\ main # "search" => made = {} /\ stored = {}
    /\ \A p \in stored : m_data[p[2]] = "POINTER"
    /\ \A p, q \in stored : p[2] = q[2] => p = q

Mains == {"between", "advancing", "preparing", "pruning", "search", "cleared"}

OwnInv ==
    /\ main \in Mains
    /\ Owned
    /\ WordsTrue
    /\ HasParent
    /\ PruningInflated
    /\ Inflating
    /\ WorkersInLiveTree

\* The live tree and those being deleted have no node in common.
LEMMA Disjoint ==
    ASSUME IInv, Owned
    PROVE  Below(m_root) \cap Below(doomed) = {}
<1> USE DEF IInv
<1>1. m_root \in SUBSET Ids /\ doomed \in SUBSET Ids
  BY DEF Owned
<1> DEFINE S == Below(m_root) \ Below(doomed)
<1>2. S \in SUBSET Ids
  BY <1>1, BelowIs
<1>3. m_root \subseteq S
  <2>1. m_root \subseteq Below(m_root)
    BY <1>1, BelowIs
  <2>2. ASSUME NEW r \in m_root, r \in Below(doomed)
        PROVE  FALSE
    BY <1>1, <2>2, BelowStep DEF Owned, Inflated
  <2> QED
    BY <2>1, <2>2
<1>4. HoldsChildren(S)
  <2> SUFFICES ASSUME NEW n \in S, NEW c \in m_children[n],
                      m_data[c] = "POINTER"
               PROVE  c \in S
    BY DEF HoldsChildren
  <2>1. n \in Ids /\ c \in Ids
    BY <1>2 DEF TypeInv
  <2>2. c \in Below(m_root)
    BY <1>1, BelowIs DEF HoldsChildren
  <2>3. c \notin doomed
    BY <2>1 DEF Owned, Inflated
  <2>4. ASSUME c \in Below(doomed)
        PROVE  FALSE
    <3>1. PICK k \in Below(doomed) : c \in m_children[k]
      BY <1>1, <2>3, <2>4, BelowStep
    <3>2. k \in Ids
      BY <1>1, BelowIs
    <3>3. k = n
      BY <2>1, <3>1, <3>2 DEF Parents
    <3> QED
      BY <3>1, <3>3
  <2> QED
    BY <2>2, <2>4
<1>5. Below(m_root) \subseteq S
  BY <1>1, <1>2, <1>3, <1>4, BelowIs
<1> QED
  BY <1>5

-----------------------------------------------------------------------------
\* The live tree only grows when pointers and nodes are added to it.
LEMMA LiveGrows ==
    ASSUME IInv, Owned, UNCHANGED m_root,
           \A n \in Below(m_root) :
               /\ m_children[n] \subseteq m_children'[n]
               /\ \A c \in m_children[n] :
                      m_data[c] = "POINTER" => m_data'[c] = "POINTER"
    PROVE  PointersOf(LiveNodes) \subseteq PointersOf(LiveNodes)'
<1> USE DEF IInv
<1>1. m_root \in SUBSET Ids
  BY DEF Owned
<1>2. ASSUME NEW S \in SUBSET Ids, m_root \subseteq S, HoldsChildren(S)'
      PROVE  Below(m_root) \subseteq S
  <2> DEFINE T == Below(m_root) \cap S
  <2>1. T \in SUBSET Ids /\ m_root \subseteq T
    BY <1>1, <1>2, BelowIs
  <2>2. HoldsChildren(T)
    BY <1>1, <1>2, BelowIs DEF HoldsChildren
  <2> QED
    BY <1>1, <2>1, <2>2, BelowIs
<1>3. Below(m_root) \subseteq Below(m_root)'
  BY <1>1, <1>2, BelowIs DEF Below
<1> QED
  BY <1>3 DEF PointersOf, LiveNodes

LEMMA OwnLink ==
    ASSUME IInv, OwnInv, NEW n \in Ids, NEW C \in SUBSET Ids, Link(n, C)
    PROVE  OwnInv'
<1> USE DEF IInv, TypeInv, OwnInv
<1>1. /\ n \in nodes /\ n \in Below(m_root)
      /\ UNCHANGED <<nodes, m_root, doomed, m_delete_futures, deleting, made,
                     stored, main>>
      /\ main # "pruning"
      /\ \A i \in C : i \in Ids /\ m_data[i] = "free" /\ i \notin nodes
      /\ m_data' = [i \in Ids |-> IF i \in C THEN "UNINFLATED" ELSE m_data[i]]
      /\ m_children' = [m_children EXCEPT ![n] = @ \cup C]
  <2>1. n \in nodes
    BY BelowStep DEF Link, LiveNodes, Owned, Inflated
  <2> QED
    BY <2>1 DEF Link, LiveNodes, Free, trees, workers, MainAt
<1>2. Inflated' = Inflated
  BY <1>1 DEF Inflated
<1>3. Owned'
  BY <1>1, <1>2 DEF Owned
<1>4. WordsTrue'
  BY <1>1 DEF WordsTrue, Owned, Parents
<1>5. HasParent'
  BY <1>1 DEF HasParent
<1>6. PruningInflated' /\ Inflating'
  BY <1>1 DEF PruningInflated, Inflating
<1>7. WorkersInLiveTree'
  <2>1. PointersOf(LiveNodes) \subseteq PointersOf(LiveNodes)'
    BY <1>1, LiveGrows, BelowIs DEF Owned
  <2> QED
    BY <1>1, <2>1 DEF WorkersInLiveTree
<1> QED
  BY <1>1, <1>3, <1>4, <1>5, <1>6, <1>7

LEMMA OwnInflate ==
    ASSUME IInv, OwnInv, NEW t \in Threads, NEW i \in Ids,
           Inflate(t, i) \/ CompareExchange(t, i) \/ Count(t, i)
    PROVE  OwnInv'
<1> USE DEF IInv, TypeInv, OwnInv
<1>1. /\ UNCHANGED <<m_children, m_root, doomed, m_delete_futures, deleting,
                     main>>
      /\ main = "search"
      /\ made' \cup stored' \subseteq made \cup stored \cup {<<t, i>>}
      /\ i \in PointersOf(LiveNodes)
  BY DEF Inflate, CompareExchange, Count, trees, Inflating, WorkersInLiveTree
<1>2. i \notin m_root \cup doomed \/ UNCHANGED <<m_data, nodes>>
  BY DEF Inflate, CompareExchange, Count, WordsTrue
<1>3. \/ UNCHANGED <<m_data, nodes>> /\ stored' \subseteq stored
      \/ /\ m_data[i] = "UNINFLATED"
         /\ m_data' = [m_data EXCEPT ![i] = "POINTER"]
         /\ nodes' = nodes \cup {i}
         /\ stored' = stored \cup {<<t, i>>}
  BY DEF Inflate, CompareExchange, Count
<1>4. PointersOf(LiveNodes) \subseteq PointersOf(LiveNodes)'
  <2>1. \A c \in Ids : m_data[c] = "POINTER" => m_data'[c] = "POINTER"
    BY <1>3
  <2>2. \A n \in Below(m_root) : n \in Ids /\ m_children[n] \subseteq Ids
    BY BelowIs DEF Owned
  <2> QED
    BY <1>1, <2>1, <2>2, LiveGrows
<1>5. WorkersInLiveTree'
  BY <1>1, <1>4 DEF WorkersInLiveTree
<1>6. CASE UNCHANGED <<m_data, nodes>> /\ stored' \subseteq stored
  <2>1. Owned' /\ WordsTrue' /\ HasParent' /\ PruningInflated'
    BY <1>1, <1>6 DEF Owned, WordsTrue, HasParent, PruningInflated, Inflated
  <2>2. Inflating'
    BY <1>1, <1>6 DEF Inflating
  <2> QED
    BY <1>1, <1>5, <2>1, <2>2
<1>7. CASE /\ m_data[i] = "UNINFLATED"
           /\ m_data' = [m_data EXCEPT ![i] = "POINTER"]
           /\ nodes' = nodes \cup {i}
           /\ stored' = stored \cup {<<t, i>>}
  <2>1. Inflated' = Inflated \cup {i}
    BY <1>7 DEF Inflated
  <2>2. Owned'
    BY <1>1, <1>7, <2>1 DEF Owned, WordsTrue
  <2>3. WordsTrue' /\ HasParent' /\ PruningInflated'
    BY <1>1, <1>7 DEF WordsTrue, HasParent, PruningInflated
  <2>4. Inflating'
    BY <1>1, <1>7 DEF Inflating
  <2> QED
    BY <1>1, <1>5, <2>2, <2>3, <2>4
<1> QED
  BY <1>3, <1>6, <1>7

LEMMA OwnDestroyPointer ==
    ASSUME IInv, OwnInv, NEW n \in Ids, NEW i \in Ids, DestroyPointer(n, i)
    PROVE  OwnInv'
<1> USE DEF IInv, TypeInv, OwnInv
<1>1. /\ n \in Below(doomed) /\ i \in m_children[n]
      /\ m_data[i] = "POINTER" => m_children[i] = {}
      /\ m_data' = [m_data EXCEPT ![i] = "free"]
      /\ nodes' = IF m_data[i] = "POINTER" THEN nodes \ {i} ELSE nodes
      /\ m_children' = [m_children EXCEPT ![n] = @ \ {i}]
      /\ UNCHANGED <<m_root, doomed, m_delete_futures, deleting, made, stored,
                     main>>
  BY DEF DestroyPointer, trees, workers
<1>2. Inflated' = Inflated \ {i}
  BY <1>1 DEF Inflated
<1>3. Owned'
  BY <1>1, <1>2 DEF Owned, Inflated
<1>4. \A k \in Ids : i \in m_children[k] => k = n
  BY <1>1 DEF Parents
<1>5. WordsTrue'
  BY <1>1 DEF WordsTrue
<1>6. HasParent'
  <2>1. \A k \in Ids : m_children'[k] # {} => k \in nodes'
    BY <1>1 DEF HasParent
  <2>2. \A k \in Ids : m_data'[k] # "free" =>
           \E j \in Ids : k \in m_children'[j]
    BY <1>1 DEF HasParent
  <2> QED
    BY <2>1, <2>2 DEF HasParent
<1>7. PruningInflated'
  BY <1>1, <1>4 DEF PruningInflated, Owned
<1>8. n \notin Below(m_root) /\ i \notin PointersOf(LiveNodes)
  <2>1. n \notin Below(m_root)
    BY <1>1, Disjoint
  <2>2. Below(m_root) \subseteq Ids
    BY BelowIs DEF Owned
  <2> QED
    BY <1>4, <2>1, <2>2 DEF PointersOf, LiveNodes
<1>9. PointersOf(LiveNodes) \subseteq PointersOf(LiveNodes)'
  <2> SUFFICES ASSUME NEW k \in Below(m_root)
               PROVE  /\ m_children[k] \subseteq m_children'[k]
                      /\ \A c \in m_children[k] :
                            m_data[c] = "POINTER" => m_data'[c] = "POINTER"
    BY <1>1, LiveGrows
  <2>1. k \in Ids /\ k # n
    BY <1>8, BelowIs DEF Owned
  <2> QED
    BY <1>1, <1>4, <2>1
<1>10. WorkersInLiveTree'
  BY <1>1, <1>9 DEF WorkersInLiveTree
<1>11. Inflating'
  BY <1>1, <1>8 DEF Inflating, WorkersInLiveTree
<1> QED
  BY <1>1, <1>3, <1>5, <1>6, <1>7, <1>10, <1>11

\* Outside a search there are no workers to think of.
LEMMA NoWorkers ==
    ASSUME OwnInv, main # "search", UNCHANGED <<made, stored>>
    PROVE  Inflating' /\ WorkersInLiveTree'
  BY DEF OwnInv, Inflating, WorkersInLiveTree

LEMMA OwnDestroyRoot ==
    ASSUME IInv, OwnInv, NEW r \in Ids, DestroyRoot(r)
    PROVE  OwnInv'
<1> USE DEF IInv, TypeInv, OwnInv
<1>1. /\ r \in doomed /\ m_children[r] = {}
      /\ nodes' = nodes \ {r}
      /\ doomed' = doomed \ {r}
      /\ m_delete_futures' = m_delete_futures \ {r}
      /\ deleting' = deleting \ {r}
      /\ UNCHANGED <<m_data, m_children, m_root, made, stored, main>>
  BY DEF DestroyRoot, workers
<1>2. Owned'
  BY <1>1 DEF Owned, Inflated
<1>3. WordsTrue' /\ HasParent' /\ PruningInflated' /\ Inflating'
  BY <1>1 DEF WordsTrue, HasParent, PruningInflated, Inflating
<1>4. WorkersInLiveTree'
  <2>1. PointersOf(LiveNodes)' = PointersOf(LiveNodes)
    BY <1>1 DEF PointersOf, LiveNodes, Below, HoldsChildren
  <2> QED
    BY <1>1, <2>1 DEF WorkersInLiveTree
<1> QED
  BY <1>1, <1>2, <1>3, <1>4

LEMMA OwnAdvance ==
    ASSUME IInv, OwnInv, NEW r \in Ids, NEW i \in Ids, Advance(r, i)
    PROVE  OwnInv'
<1> USE DEF IInv, TypeInv, OwnInv
<1>1. /\ main = "advancing" /\ UNCHANGED main
      /\ m_root = {r} /\ i \in m_children[r]
      /\ m_data' = [m_data EXCEPT ![i] = "INVALID"]
      /\ nodes' = nodes \cup {i}
      /\ m_root' = {i}
      /\ doomed' = doomed \cup {r}
      /\ m_delete_futures' = m_delete_futures \cup {r}
      /\ UNCHANGED <<m_children, deleting, made, stored>>
  BY DEF Advance, MainAt, workers
<1>2. /\ m_data[i] \in {"UNINFLATED", "POINTER"}
      /\ r \notin doomed
  BY <1>1 DEF WordsTrue, Owned, Parents
<1>3. i \notin doomed /\ i # r
  BY <1>1, <1>2 DEF WordsTrue, Owned, Inflated
<1>4. Inflated' = Inflated \ {i}
  BY <1>1 DEF Inflated
<1>5. Owned'
  BY <1>1, <1>2, <1>3, <1>4 DEF Owned, Inflated
<1>6. WordsTrue'
  BY <1>1, <1>3 DEF WordsTrue, Parents
<1>7. HasParent' /\ PruningInflated'
  BY <1>1 DEF HasParent, PruningInflated
<1> QED
  BY <1>1, <1>5, <1>6, <1>7, NoWorkers

LEMMA OwnNewRoot ==
    ASSUME IInv, OwnInv, NEW i \in Ids, NewRoot(i),
           main \in {"between", "advancing"}, deleting = {},
           main' \in {"preparing", "cleared"},
           m_delete_futures' \subseteq m_delete_futures
    PROVE  OwnInv'
<1> USE DEF IInv, TypeInv, OwnInv
<1>1. /\ m_data[i] = "free" /\ i \notin nodes
      /\ nodes' = nodes \cup {i}
      /\ m_root' = {i}
      /\ doomed' = doomed \cup m_root
      /\ deleting' = m_root
      /\ UNCHANGED <<m_data, m_children, made, stored>>
  BY DEF NewRoot, Free, workers
<1>2. Owned'
  BY <1>1 DEF Owned, Inflated
<1>3. WordsTrue' /\ HasParent'
  BY <1>1 DEF WordsTrue, HasParent
<1>4. PruningInflated' /\ main' \in Mains
  BY DEF PruningInflated, Mains
<1> QED
  BY <1>1, <1>2, <1>3, <1>4, NoWorkers

LEMMA OwnInflateAll ==
    ASSUME IInv, OwnInv, NEW r \in Ids, InflateAllChildren(r)
    PROVE  OwnInv'
<1> USE DEF IInv, TypeInv, OwnInv
<1> DEFINE C == {i \in m_children[r] : m_data[i] = "UNINFLATED"}
<1>1. /\ main = "preparing" /\ main' = "pruning" /\ m_root = {r}
      /\ m_data' = [i \in Ids |-> IF i \in C THEN "POINTER" ELSE m_data[i]]
      /\ nodes' = nodes \cup C
      /\ UNCHANGED <<m_children, m_root, doomed, m_delete_futures, deleting,
                     made, stored>>
      /\ C \subseteq Ids
  BY DEF InflateAllChildren, MainAt, trees, workers
<1>2. Inflated' = Inflated \cup C
  BY <1>1 DEF Inflated
<1>3. Owned'
  BY <1>1, <1>2 DEF Owned, WordsTrue
<1>4. WordsTrue' /\ HasParent'
  BY <1>1 DEF WordsTrue, HasParent
<1>5. PruningInflated'
  BY <1>1 DEF PruningInflated, WordsTrue, Owned, Parents
<1> QED
  BY <1>1, <1>3, <1>4, <1>5, NoWorkers DEF Mains

LEMMA OwnKillSuperko ==
    ASSUME IInv, OwnInv, NEW r \in Ids, NEW i \in Ids, KillSuperko(r, i)
    PROVE  OwnInv'
<1> USE DEF IInv, TypeInv, OwnInv
<1>1. /\ main = "pruning" /\ UNCHANGED main /\ deleting = {}
      /\ m_root = {r} /\ i \in m_children[r] /\ m_data[i] = "POINTER"
      /\ m_data' = [m_data EXCEPT ![i] = "free"]
      /\ m_children' = [m_children EXCEPT ![r] = @ \ {i}]
      /\ doomed' = doomed \cup {i}
      /\ deleting' = {i}
      /\ UNCHANGED <<nodes, m_root, m_delete_futures, made, stored>>
  BY DEF KillSuperko, MainAt, workers, PruningInflated
<1>2. Inflated' = Inflated \ {i} /\ i \in Inflated
  BY <1>1 DEF Inflated
<1>3. Owned'
  BY <1>1, <1>2 DEF Owned
<1>4. WordsTrue'
  BY <1>1 DEF WordsTrue
<1>5. HasParent'
  <2>1. \A k \in Ids : m_children'[k] # {} => k \in nodes'
    BY <1>1 DEF HasParent
  <2>2. \A k \in Ids : m_data'[k] # "free" =>
           \E j \in Ids : k \in m_children'[j]
    BY <1>1 DEF HasParent
  <2> QED
    BY <2>1, <2>2 DEF HasParent
<1>6. PruningInflated'
  BY <1>1 DEF PruningInflated
<1> QED
  BY <1>1, <1>3, <1>4, <1>5, <1>6, NoWorkers

\* The main thread goes on, or the tree is given up.
LEMMA OwnMain ==
    ASSUME IInv, OwnInv,
           \/ EndSearch \/ BeginAdvance \/ Reuse \/ Cleared \/ StartSearch
           \/ \E r \in Ids : AdvanceOff(r)
    PROVE  OwnInv'
<1> USE DEF IInv, TypeInv, OwnInv, trees, workers, MainAt
<1>1. CASE EndSearch \/ BeginAdvance \/ Reuse \/ Cleared \/ StartSearch
  <2>1. /\ UNCHANGED <<m_data, m_children, nodes, m_root, doomed,
                       m_delete_futures, deleting, made, stored>>
        /\ main' \in Mains \ {"pruning"}
        /\ main # "search" \/ (made = {} /\ stored = {})
    BY <1>1 DEF EndSearch, BeginAdvance, Reuse, Cleared, StartSearch, Mains
  <2>2. Owned' /\ WordsTrue' /\ HasParent' /\ PruningInflated'
    BY <2>1 DEF Owned, Inflated, WordsTrue, HasParent, PruningInflated
  <2>3. made = {} /\ stored = {}
    BY <2>1 DEF Inflating
  <2>4. Inflating' /\ WorkersInLiveTree'
    BY <2>1, <2>3 DEF Inflating, WorkersInLiveTree
  <2> QED
    BY <2>1, <2>2, <2>4
<1>2. ASSUME NEW r \in Ids, AdvanceOff(r)
      PROVE  OwnInv'
  <2>1. Owned' /\ WordsTrue' /\ HasParent' /\ PruningInflated'
    BY <1>2 DEF AdvanceOff, Owned, Inflated, WordsTrue, HasParent,
                PruningInflated
  <2> QED
    BY <1>2, <2>1, NoWorkers DEF AdvanceOff
<1> QED
  BY <1>1, <1>2

LEMMA OwnNext == IInv /\ OwnInv /\ [Next]_vars => OwnInv'
<1> SUFFICES ASSUME IInv, OwnInv, [Next]_vars PROVE OwnInv'
  OBVIOUS
<1>1. ASSUME NEW i \in Ids, StartOver(i) \/ ClearBoard(i) PROVE OwnInv'
  BY <1>1, OwnNewRoot DEF StartOver, ClearBoard, MainAt
<1>2. CASE UNCHANGED vars
  BY <1>2 DEF vars, OwnInv, Owned, Inflated, WordsTrue, HasParent,
              PruningInflated, Inflating, WorkersInLiveTree, PointersOf,
              LiveNodes, Below, HoldsChildren
<1> QED
  BY <1>1, <1>2, OwnLink, OwnInflate, OwnDestroyPointer, OwnDestroyRoot,
     OwnAdvance, OwnKillSuperko, OwnInflateAll, OwnMain DEF Next

LEMMA OwnInit == Init => OwnInv
<1> SUFFICES ASSUME Init PROVE OwnInv
  OBVIOUS
<1>1. PICK r \in Ids : nodes = {r} /\ m_root = {r}
  BY DEF Init
<1>2. Inflated = {} /\ doomed = {} /\ made = {} /\ stored = {}
  BY DEF Init, Inflated
<1> QED
  BY <1>1, <1>2 DEF Init, OwnInv, Mains, Owned, WordsTrue, HasParent,
     PruningInflated, Inflating, WorkersInLiveTree

LEMMA OwnInvariant == Spec => [](IInv /\ OwnInv)
  BY IInvInit, IInvNext, OwnInit, OwnNext, PTL DEF Spec

\* No node is deleted twice and none is lost: each is the root, the root of
\* a tree being deleted, or held by one inflated pointer, which lies in one
\* vector.  find_child() releases what the next root takes, and
\* kill_superkos() and ~UCTNodePointer() free what nobody else holds, while
\* the deletions of older trees go on in the pool.
THEOREM OwnerIsUnique == Spec => []OneOwner
<1>1. IInv /\ OwnInv => OneOwner
  <2> SUFFICES ASSUME IInv, OwnInv PROVE OneOwner
    OBVIOUS
  <2> USE DEF IInv, TypeInv, OwnInv
  <2>1. ASSUME NEW i \in Allocated
        PROVE  Cardinality({n \in nodes : i \in m_children[n]}) = 1
    <3>1. PICK n \in Ids : i \in m_children[n]
      BY DEF HasParent, Allocated
    <3>2. n \in nodes /\ nodes \subseteq Ids
      BY <3>1 DEF HasParent, Owned, Inflated
    <3>3. {k \in nodes : i \in m_children[k]} = {n}
      BY <3>1, <3>2 DEF Parents
    <3> QED
      BY <3>3, FS_Singleton
  <2> QED
    BY <2>1 DEF OneOwner, Owned
<1> QED
  BY <1>1, OwnInvariant, PTL

\* What a worker is inflating is a pointer of the tree being searched, so
\* that no deletion frees it under the exchange or the counting.
THEOREM WorkersAreInLiveTree == Spec => []WorkersInLiveTree
<1>1. OwnInv => WorkersInLiveTree
  BY DEF OwnInv
<1> QED
  BY <1>1, OwnInvariant, PTL

\* The nodes stored and not yet counted are inflated, so the account that
\* lacks them is not negative: the assert in decrement_tree_size().
LEMMA SizeNotNegative ==
    ASSUME IInv, Inflating
    PROVE  m_tree_size \in Nat
<1> USE DEF IInv, TypeInv
<1> DEFINE f == [p \in stored |-> p[2]]
<1>1. f \in Injection(stored, Inflated)
  BY DEF Injection, IsInjective, Inflating, Inflated
<1>2. /\ Cardinality(Allocated) \in Nat
      /\ IsFiniteSet(Inflated) /\ Cardinality(Inflated) \in Nat
      /\ Cardinality(stored) \in Nat
  BY Counted
<1>3. Cardinality(stored) <= Cardinality(Inflated)
  BY <1>1, <1>2, FS_Injection
<1>4. PICK d \in Nat : Cardinality(Inflated) = Cardinality(stored) + d
  <2>1. Cardinality(Inflated) - Cardinality(stored) \in Nat
    BY <1>2, <1>3
  <2> QED
    BY <1>2, <2>1
<1>5. NodeSize * Cardinality(Inflated)
          = NodeSize * Cardinality(stored) + NodeSize * d
  BY <1>2, <1>4, Distribute, MemoryAssumption
<1>6. /\ NodeSize * d \in Nat /\ PointerSize * Cardinality(Allocated) \in Nat
      /\ NodeSize * Cardinality(stored) \in Nat
  BY <1>2, MemoryAssumption
<1>7. m_tree_size = PointerSize * Cardinality(Allocated) + NodeSize * d
  BY <1>5, <1>6 DEF AccountExact
<1> QED
  BY <1>6, <1>7

\* Type correctness, which says that m_tree_size never wraps below zero and
\* that whoever is to delete a node has one that exists.
THEOREM TypeCorrect == Spec => []TypeOK
<1>1. IInv /\ OwnInv => TypeOK
  <2> SUFFICES ASSUME IInv, OwnInv PROVE TypeOK
    OBVIOUS
  <2>1. m_tree_size \in Nat
    BY SizeNotNegative DEF OwnInv
  <2> QED
    BY <2>1 DEF TypeOK, IInv, TypeInv, OwnInv, Owned, Mains, Inflated
<1> QED
  BY <1>1, OwnInvariant, PTL

=============================================================================
