----------------------------- MODULE TreeMemory -----------------------------
(***************************************************************************)
(* The memory of the search tree: UCTNodePointer, which holds a move and   *)
(* policy until a UCTNode is needed (src/src/UCTNodePointer.cpp), and the  *)
(* handing over of the tree from one search to the next, which leaves the  *)
(* part not played to the thread pool to delete (src/src/UCTSearch.cpp).   *)
(* m_tree_size decides when a search is out of memory, so it must agree    *)
(* with what is allocated although no lock protects the two together.      *)
(*                                                                         *)
(* An id stands for a UCTNodePointer and for the UCTNode it inflates to;   *)
(* a root has the id of the pointer it was released from, or one of its    *)
(* own.  Where a pointer lies in its vector does not matter here, so that  *)
(* moving pointers about (sort_children, reserve) changes nothing.         *)
(*                                                                         *)
(* A definition under a comment "Fault" is the next one with a bug in it,  *)
(* to check that a property notices.                                       *)
(***************************************************************************)
EXTENDS Integers, FiniteSets

CONSTANTS Ids,
          Threads,       \* UCTWorkers
          PointerSize,   \* sizeof(UCTNodePointer)
          NodeSize       \* sizeof(UCTNode)

ASSUME MemoryAssumption ==
    /\ IsFiniteSet(Ids) /\ Ids # {}
    /\ IsFiniteSet(Threads)
    /\ PointerSize \in Nat \ {0}
    /\ NodeSize \in Nat \ {0}

VARIABLES
    m_data,        \* the word of each pointer; "free" if there is none
    m_children,    \* the pointers in each node's vector
    nodes,         \* the UCTNodes that exist
    m_root,        \* the root's id, as a set: {} is nullptr
    doomed,        \* the roots of the trees being deleted
    m_delete_futures,  \* those among them the next search waits for
    deleting,      \* those the main thread deletes itself
    m_tree_size,
    made,          \* <<t, i>>: t has made a node for the pointer i ...
    stored,        \* ... and put it there, but not counted it yet
    main           \* what the main thread does

vars == <<m_data, m_children, nodes, m_root, doomed, m_delete_futures,
          deleting, m_tree_size, made, stored, main>>
trees == <<m_root, doomed, m_delete_futures, deleting>>
workers == <<made, stored>>

Init ==
    /\ m_data = [i \in Ids |-> "free"]
    /\ m_children = [i \in Ids |-> {}]
    /\ \E r \in Ids : nodes = {r} /\ m_root = {r}
    /\ doomed = {} /\ m_delete_futures = {} /\ deleting = {}
    /\ m_tree_size = 0
    /\ made = {} /\ stored = {}
    /\ main = "between"

Free == {i \in Ids : m_data[i] = "free" /\ i \notin nodes}

\* The nodes of the trees with the roots R: in every set that contains R
\* and, with a node, the nodes its pointers were inflated to.
HoldsChildren(S) ==
    \A n \in S : \A c \in m_children[n] : m_data[c] = "POINTER" => c \in S
Below(R) == {x \in Ids : \A S \in SUBSET Ids :
                           R \subseteq S /\ HoldsChildren(S) => x \in S}
LiveNodes == Below(m_root)

\* The pointers in the children of the nodes N.
PointersOf(N) == UNION {m_children[n] : n \in N}

\* What ~UCTNodePointer() takes off the account.
SizeOf(i) == PointerSize + (IF m_data[i] = "POINTER" THEN NodeSize ELSE 0)

\* The main thread is at s and not inside a destructor.
MainAt(s) == main = s /\ deleting = {}

-----------------------------------------------------------------------------
(* The tree grows.                                                         *)

\* link_nodelist(): children that are not inflated are added, by a worker
\* or, to the root, by prepare_root_node().
Link(n, C) ==
    /\ main = "search" \/ (MainAt("preparing") /\ n \in m_root)
    /\ n \in LiveNodes
    /\ C # {} /\ C \subseteq Free
    /\ m_data' = [i \in Ids |-> IF i \in C THEN "UNINFLATED" ELSE m_data[i]]
    /\ m_children' = [m_children EXCEPT ![n] = @ \cup C]
    /\ m_tree_size' = m_tree_size + PointerSize * Cardinality(C)
    /\ UNCHANGED <<nodes, trees, workers, main>>

\* inflate() finds a pointer that is not inflated and makes a node for it.
Inflate(t, i) ==
    /\ main = "search"
    /\ \A p \in made \cup stored : p[1] # t
    /\ i \in PointersOf(LiveNodes) /\ m_data[i] = "UNINFLATED"
    /\ made' = made \cup {<<t, i>>}
    /\ UNCHANGED <<m_data, m_children, nodes, trees, m_tree_size, stored, main>>

\* Fault: the node is stored without comparing.
CompareExchange_Store(t, i) ==
    /\ <<t, i>> \in made
    /\ made' = made \ {<<t, i>>}
    /\ m_data' = [m_data EXCEPT ![i] = "POINTER"]
    /\ nodes' = nodes \cup {i}
    /\ stored' = stored \cup {<<t, i>>}
    /\ UNCHANGED <<m_children, trees, m_tree_size, main>>

\* compare_exchange_strong(): who comes second deletes its node again.
CompareExchange(t, i) ==
    /\ <<t, i>> \in made
    /\ made' = made \ {<<t, i>>}
    /\ \/ /\ m_data[i] = "UNINFLATED"
          /\ m_data' = [m_data EXCEPT ![i] = "POINTER"]
          /\ nodes' = nodes \cup {i}
          /\ stored' = stored \cup {<<t, i>>}
       \/ /\ m_data[i] # "UNINFLATED"
          /\ UNCHANGED <<m_data, nodes, stored>>
    /\ UNCHANGED <<m_children, trees, m_tree_size, main>>

\* increment_tree_size() after the exchange
Count(t, i) ==
    /\ <<t, i>> \in stored
    /\ stored' = stored \ {<<t, i>>}
    /\ m_tree_size' = m_tree_size + NodeSize
    /\ UNCHANGED <<m_data, m_children, nodes, trees, made, main>>

-----------------------------------------------------------------------------
(* Destruction.                                                            *)

\* Fault: the node an inflated pointer had is not taken off the account.
DestroyPointer_SizeOfPointer(n, i) ==
    /\ n \in Below(doomed) /\ i \in m_children[n]
    /\ m_data[i] = "POINTER" => m_children[i] = {}
    /\ m_tree_size' = m_tree_size - PointerSize
    /\ m_data' = [m_data EXCEPT ![i] = "free"]
    /\ nodes' = IF m_data[i] = "POINTER" THEN nodes \ {i} ELSE nodes
    /\ m_children' = [m_children EXCEPT ![n] = @ \ {i}]
    /\ UNCHANGED <<trees, workers, main>>

\* Fault: the node an inflated pointer had is not deleted.
DestroyPointer_Leak(n, i) ==
    /\ n \in Below(doomed) /\ i \in m_children[n]
    /\ m_data[i] = "POINTER" => m_children[i] = {}
    /\ m_tree_size' = m_tree_size - SizeOf(i)
    /\ m_data' = [m_data EXCEPT ![i] = "free"]
    /\ nodes' = nodes
    /\ m_children' = [m_children EXCEPT ![n] = @ \ {i}]
    /\ UNCHANGED <<trees, workers, main>>

\* ~UCTNodePointer() of a pointer in a doomed tree, after its children.
DestroyPointer(n, i) ==
    /\ n \in Below(doomed) /\ i \in m_children[n]
    /\ m_data[i] = "POINTER" => m_children[i] = {}
    /\ m_tree_size' = m_tree_size - SizeOf(i)
    /\ m_data' = [m_data EXCEPT ![i] = "free"]
    /\ nodes' = IF m_data[i] = "POINTER" THEN nodes \ {i} ELSE nodes
    /\ m_children' = [m_children EXCEPT ![n] = @ \ {i}]
    /\ UNCHANGED <<trees, workers, main>>

\* The end of a deletion: the old root, which is on no account.
DestroyRoot(r) ==
    /\ r \in doomed
    /\ m_children[r] = {}
    /\ nodes' = nodes \ {r}
    /\ doomed' = doomed \ {r}
    /\ m_delete_futures' = m_delete_futures \ {r}
    /\ deleting' = deleting \ {r}
    /\ UNCHANGED <<m_data, m_children, m_root, m_tree_size, workers, main>>

-----------------------------------------------------------------------------
(* From one search to the next.                                            *)

\* Fault: the main thread does not wait for the workers.
EndSearch_NoWait ==
    /\ main = "search"
    /\ main' = "between"
    /\ UNCHANGED <<m_data, m_children, nodes, trees, m_tree_size, workers>>

\* tg.wait_all() at the end of a search
EndSearch ==
    /\ main = "search"
    /\ made = {} /\ stored = {}
    /\ main' = "between"
    /\ UNCHANGED <<m_data, m_children, nodes, trees, m_tree_size, workers>>

\* advance_to_new_rootstate(), once the position turns out to be a later
\* one of the same game: the deletions of the last move must have ended.
BeginAdvance ==
    /\ MainAt("between")
    /\ m_root # {}
    /\ m_delete_futures = {}
    /\ main' = "advancing"
    /\ UNCHANGED <<m_data, m_children, nodes, trees, m_tree_size, workers>>

\* Fault: find_child() gives the node away but leaves the pointer to it.
Advance_NotReleased(r, i) ==
    /\ MainAt("advancing")
    /\ m_root = {r} /\ i \in m_children[r]
    /\ m_data' = [m_data EXCEPT ![i] = "POINTER"]
    /\ nodes' = nodes \cup {i}
    /\ m_tree_size' = m_tree_size
                      + (IF m_data[i] = "UNINFLATED" THEN NodeSize ELSE 0)
    /\ m_root' = {i}
    /\ doomed' = doomed \cup {r}
    /\ m_delete_futures' = m_delete_futures \cup {r}
    /\ UNCHANGED <<m_children, deleting, workers, main>>

\* A move is played: find_child() inflates and releases the child, which
\* becomes the root, and the old root goes to the pool.
Advance(r, i) ==
    /\ MainAt("advancing")
    /\ m_root = {r} /\ i \in m_children[r]
    /\ m_data' = [m_data EXCEPT ![i] = "INVALID"]
    /\ nodes' = nodes \cup {i}
    /\ m_tree_size' = m_tree_size
                      - (IF m_data[i] = "POINTER" THEN NodeSize ELSE 0)
    /\ m_root' = {i}
    /\ doomed' = doomed \cup {r}
    /\ m_delete_futures' = m_delete_futures \cup {r}
    /\ UNCHANGED <<m_children, deleting, workers, main>>

\* The tree does not have the move: there is no root for the moment.
AdvanceOff(r) ==
    /\ MainAt("advancing")
    /\ m_root = {r}
    /\ m_root' = {}
    /\ doomed' = doomed \cup {r}
    /\ m_delete_futures' = m_delete_futures \cup {r}
    /\ UNCHANGED <<m_data, m_children, nodes, m_tree_size, deleting, workers,
                   main>>

\* update_root() keeps the root found in the old tree ...
Reuse ==
    /\ MainAt("advancing")
    /\ m_root # {}
    /\ main' = "preparing"
    /\ UNCHANGED <<m_data, m_children, nodes, trees, m_tree_size, workers>>

\* The unique_ptr m_root takes a new node: the main thread deletes the tree
\* it still had.
NewRoot(i) ==
    /\ i \in Free
    /\ nodes' = nodes \cup {i}
    /\ m_root' = {i}
    /\ doomed' = doomed \cup m_root
    /\ deleting' = m_root
    /\ UNCHANGED <<m_data, m_children, m_tree_size, workers>>

\* ... or makes a new one.
StartOver(i) ==
    /\ MainAt("between") \/ MainAt("advancing")
    /\ NewRoot(i)
    /\ main' = "preparing"
    /\ UNCHANGED m_delete_futures

\* GTP clear_board replaces the UCTSearch as a whole, with its root and
\* with its m_delete_futures, for which nobody waits.
ClearBoard(i) ==
    /\ MainAt("between")
    /\ NewRoot(i)
    /\ m_delete_futures' = {}
    /\ main' = "cleared"

\* The next GTP command
Cleared ==
    /\ MainAt("cleared")
    /\ main' = "between"
    /\ UNCHANGED <<m_data, m_children, nodes, trees, m_tree_size, workers>>

\* inflate_all_children() of the root
InflateAllChildren(r) ==
    /\ MainAt("preparing")
    /\ m_root = {r}
    /\ LET C == {i \in m_children[r] : m_data[i] = "UNINFLATED"}
       IN  /\ m_data' = [i \in Ids |->
                            IF i \in C THEN "POINTER" ELSE m_data[i]]
           /\ nodes' = nodes \cup C
           /\ m_tree_size' = m_tree_size + NodeSize * Cardinality(C)
    /\ main' = "pruning"
    /\ UNCHANGED <<m_children, trees, workers>>

\* kill_superkos(): a child of the root and all below it are deleted.
KillSuperko(r, i) ==
    /\ MainAt("pruning")
    /\ m_root = {r} /\ i \in m_children[r]
    /\ m_tree_size' = m_tree_size - SizeOf(i)
    /\ m_data' = [m_data EXCEPT ![i] = "free"]
    /\ m_children' = [m_children EXCEPT ![r] = @ \ {i}]
    /\ doomed' = doomed \cup {i}
    /\ deleting' = {i}
    /\ UNCHANGED <<nodes, m_root, m_delete_futures, workers, main>>

StartSearch ==
    /\ MainAt("pruning")
    /\ main' = "search"
    /\ UNCHANGED <<m_data, m_children, nodes, trees, m_tree_size, workers>>

Next ==
    \/ \E n \in Ids, C \in SUBSET Ids : Link(n, C)
    \/ \E t \in Threads, i \in Ids :
           Inflate(t, i) \/ CompareExchange(t, i) \/ Count(t, i)
    \/ \E n, i \in Ids : DestroyPointer(n, i)
    \/ \E r \in Ids : DestroyRoot(r)
    \/ EndSearch
    \/ BeginAdvance
    \/ \E r, i \in Ids : Advance(r, i) \/ KillSuperko(r, i)
    \/ \E r \in Ids : AdvanceOff(r) \/ InflateAllChildren(r)
    \/ Reuse
    \/ \E i \in Ids : StartOver(i) \/ ClearBoard(i)
    \/ Cleared
    \/ StartSearch

Spec == Init /\ [][Next]_vars

\* Every deletion is run by a thread, which goes on.
FairSpec ==
    /\ Spec
    /\ \A n, i \in Ids : WF_vars(DestroyPointer(n, i))
    /\ \A r \in Ids : WF_vars(DestroyRoot(r))

-----------------------------------------------------------------------------
(* Properties.                                                             *)

TypeOK ==
    /\ m_data \in [Ids -> {"free", "UNINFLATED", "POINTER", "INVALID"}]
    /\ m_children \in [Ids -> SUBSET Ids]
    /\ nodes \subseteq Ids
    /\ m_root \subseteq nodes
    /\ doomed \subseteq nodes
    /\ m_delete_futures \subseteq doomed
    /\ deleting \subseteq doomed
    /\ m_tree_size \in Nat
    /\ made \subseteq Threads \X Ids
    /\ stored \subseteq Threads \X Ids
    /\ main \in {"between", "advancing", "preparing", "pruning", "search",
                 "cleared"}

Allocated == {i \in Ids : m_data[i] # "free"}
Inflated == {i \in Ids : m_data[i] = "POINTER"}

\* m_tree_size is what the pointers there are and the nodes they hold take,
\* but for the nodes workers have stored and not yet counted, whatever the
\* workers and the deletions do at the same time.  It never falls below
\* zero, as the assert in decrement_tree_size() wants.
AccountExact ==
    m_tree_size + NodeSize * Cardinality(stored)
        = PointerSize * Cardinality(Allocated)
          + NodeSize * Cardinality(Inflated)

\* Every node has one owner that will delete it: m_root, a deletion under
\* way or an inflated pointer, and every pointer lies in the children of one
\* node.  So no node is deleted twice and none is lost.
OneOwner ==
    /\ m_root \cap doomed = {}
    /\ Inflated \cap (m_root \cup doomed) = {}
    /\ nodes = m_root \cup doomed \cup Inflated
    /\ \A i \in Allocated :
           Cardinality({n \in nodes : i \in m_children[n]}) = 1

\* A worker in inflate() is at a pointer of the tree being searched, never
\* at one a deletion will free under it.
WorkersInLiveTree ==
    \A p \in made \cup stored : p[2] \in PointersOf(LiveNodes)

\* A node that is in the tree no more is deleted in the end.
EverythingDeleted ==
    \A i \in Ids : (i \in nodes /\ i \notin LiveNodes) ~> (i \notin nodes)

=============================================================================
