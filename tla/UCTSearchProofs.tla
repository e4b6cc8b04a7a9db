-------------------------- MODULE UCTSearchProofs --------------------------
(***************************************************************************)
(* Proofs about UCTSearch and UCTNode, for any tree, any number of         *)
(* workers and searches, and any bounds.                                   *)
(***************************************************************************)
EXTENDS UCTSearch, Integers, FiniteSetTheorems, TLAPS

-----------------------------------------------------------------------------
(* The tree.                                                               *)

LEMMA SubtreeIs ==
    ASSUME NEW n \in Nodes
    PROVE  /\ Subtree[n] \subseteq Nodes
           /\ n \in Subtree[n]
           /\ ClosedUnderMoves(Subtree[n])
           /\ \A S \in SUBSET Nodes :
                 n \in S /\ ClosedUnderMoves(S) => Subtree[n] \subseteq S
<1>1. Subtree[n] = {x \in Nodes : \A S \in SUBSET Nodes :
                       n \in S /\ ClosedUnderMoves(S) => x \in S}
  BY DEF Subtree
<1>2. ClosedUnderMoves(Subtree[n])
  BY <1>1 DEF ClosedUnderMoves
<1>3. QED
  BY <1>1, <1>2

(* What is below n is n, or a move after what is below n.                  *)
LEMMA SubtreeStep ==
    ASSUME NEW n \in Nodes, NEW x \in Subtree[n], x # n
    PROVE  x # Top /\ Parent[x] \in Subtree[n]
<1> DEFINE S == {y \in Subtree[n] :
                   y = n \/ (y # Top /\ Parent[y] \in Subtree[n])}
<1>1. S \in SUBSET Nodes /\ n \in S
  BY SubtreeIs
<1>2. ClosedUnderMoves(S)
  BY SubtreeIs DEF ClosedUnderMoves
<1>3. Subtree[n] \subseteq S
  BY <1>1, <1>2, SubtreeIs
<1>4. QED
  BY <1>3

LEMMA SubtreeChild ==
    ASSUME NEW n \in Nodes, NEW c \in Nodes \ {Top}, Parent[c] \in Subtree[n]
    PROVE  c \in Subtree[n]
BY SubtreeIs DEF ClosedUnderMoves

LEMMA SubtreeTransitive ==
    ASSUME NEW n \in Nodes, NEW x \in Subtree[n]
    PROVE  Subtree[x] \subseteq Subtree[n]
<1>1. x \in Nodes /\ Subtree[n] \in SUBSET Nodes /\ ClosedUnderMoves(Subtree[n])
  BY SubtreeIs
<1>2. QED
  BY <1>1, SubtreeIs

(* No game comes back to an earlier position of its own.                   *)
LEMMA NoCycle ==
    ASSUME NEW n \in Nodes \ {Top}
    PROVE  Parent[n] \in Nodes /\ Parent[n] \notin Subtree[n]
<1>1. Parent[n] \in Nodes
  BY TreeAssumption
<1>2. SUFFICES ASSUME Parent[n] \in Subtree[n]
               PROVE  FALSE
  BY <1>1
<1> DEFINE S == Nodes \ Subtree[n]
<1>3. Top \in S
  BY SubtreeStep, TreeAssumption
<1>4. ClosedUnderMoves(S)
  <2> SUFFICES ASSUME NEW c \in Nodes \ {Top}, Parent[c] \in S,
                      c \in Subtree[n]
               PROVE  FALSE
    BY DEF ClosedUnderMoves
  <2>1. CASE c = n
    BY <2>1, <1>2
  <2>2. CASE c # n
    BY <2>2, SubtreeStep
  <2>3. QED
    BY <2>1, <2>2
<1>5. Nodes \subseteq S
  BY <1>3, <1>4, SubtreeIs, TreeAssumption
<1>6. QED
  BY <1>5, SubtreeIs

LEMMA SubtreeAntisymmetric ==
    ASSUME NEW x \in Nodes, NEW y \in Subtree[x], x \in Subtree[y]
    PROVE  x = y
<1> SUFFICES ASSUME x # y
             PROVE  FALSE
  OBVIOUS
<1>1. y \in Nodes /\ Subtree[x] \subseteq Subtree[y]
  BY SubtreeIs, SubtreeTransitive
<1>2. y # Top /\ Parent[y] \in Subtree[x]
  BY SubtreeStep
<1>3. QED
  BY <1>1, <1>2, NoCycle

(* The path from the root to the root, and one move further down.          *)
LEMMA PathOfRoot ==
    ASSUME m_root \in Nodes
    PROVE  Path(m_root) = {m_root}
BY SubtreeIs, SubtreeAntisymmetric DEF Path

LEMMA PathDown ==
    ASSUME m_root \in Nodes, NEW n \in Subtree[m_root], n # m_root
    PROVE  /\ n # Top
           /\ Parent[n] \in Subtree[m_root]
           /\ Path(n) = Path(Parent[n]) \cup {n}
           /\ n \notin Path(Parent[n])
<1>1. n \in Nodes /\ n # Top /\ Parent[n] \in Subtree[m_root]
  BY SubtreeIs, SubtreeStep
<1>2. n \notin Path(Parent[n])
  BY <1>1, NoCycle DEF Path
<1>3. ASSUME NEW x \in Path(n), x # n
      PROVE  x \in Path(Parent[n])
  BY <1>3, SubtreeIs, SubtreeStep DEF Path
<1>4. ASSUME NEW x \in Path(Parent[n])
      PROVE  x \in Path(n)
  <2>1. x \in Subtree[m_root] /\ x \in Nodes /\ Parent[n] \in Subtree[x]
    BY <1>4, SubtreeIs DEF Path
  <2>2. n \in Subtree[x]
    BY <2>1, <1>1, SubtreeChild
  <2>3. QED
    BY <2>1, <2>2 DEF Path
<1>5. n \in Path(n)
  BY <1>1, SubtreeIs DEF Path
<1>6. QED
  BY <1>1, <1>2, <1>3, <1>4, <1>5

-----------------------------------------------------------------------------
(* Type correctness.  A worker stays below the root of the search.         *)

ExpandStates == {"INITIAL", "EXPANDING", "EXPANDED"}
Statuses == {"ACTIVE", "PRUNED", "INVALID"}
WorkerLabels == {"visit", "acquire", "recheck", "evaluate", "link", "linked",
                 "descend", "wait", "select", "backup", "simulated",
                 "counted", "left", "halted"}
MainLabels == {"between", "search", "pruning", "stopped", "joining"}

NodeTypeOK ==
    /\ m_expand_state \in [Nodes -> ExpandStates]
    /\ m_min_psa_ratio_children \in [Nodes -> 0 .. Impossible]
    /\ m_children \in [Nodes -> Nat]
    /\ m_visits \in [Nodes -> Nat]
    /\ m_virtual_loss \in [Nodes -> Int]
    /\ m_status \in [Nodes -> Statuses]

PolicyTypeOK == policy \in [Threads -> [Nodes -> 0 .. 2]]

ThreadTypeOK ==
    /\ m_root \in Nodes
    /\ m_draining \in BOOLEAN
    /\ pc \in [Threads -> WorkerLabels]
    /\ at \in [Threads -> Subtree[m_root]]
    /\ min_psa_ratio \in [Threads -> 0 .. Impossible]
    /\ had_children \in [Threads -> BOOLEAN]
    /\ PolicyTypeOK
    /\ result \in [Threads -> BOOLEAN]
    /\ new_node \in [Threads -> BOOLEAN]

MainTypeOK ==
    /\ main \in MainLabels
    /\ m_run \in BOOLEAN
    /\ m_playouts \in Nat
    /\ pondering \in BOOLEAN
    /\ required \in Nat
    /\ unexamined \in SUBSET Nodes
    /\ base \in Nat
    /\ searches \in Nat

TypeOK == NodeTypeOK /\ ThreadTypeOK /\ MainTypeOK

LEMMA PolicyType ==
    ASSUME PolicyTypeOK, NEW t \in Threads, Walk(t)
    PROVE  PolicyTypeOK'
<1>1. NoPolicy \in [Nodes -> 0 .. 2]
  BY DEF NoPolicy
<1>2. CASE UNCHANGED policy
  BY <1>2 DEF PolicyTypeOK
<1>3. CASE EndExpansion(t)
  BY <1>1, <1>3 DEF EndExpansion, PolicyTypeOK
<1>4. CASE Evaluate(t)
  <2>1. PICK p \in Policies : policy' = [policy EXCEPT ![t] = p]
    BY <1>4 DEF Evaluate
  <2>2. p \in [Nodes -> 0 .. 2]
    BY TreeAssumption
  <2>3. QED
    BY <2>1, <2>2 DEF PolicyTypeOK
<1>5. QED
  BY <1>2, <1>3, <1>4, Walk(t)
     DEF Walk, Visit, Enter, Acquire, Recheck, Cancel, Link, ExpandDone,
         Descend, WaitExpanded, Select, Backup

LEMMA WalkType ==
    ASSUME TypeOK, NEW t \in Threads, Walk(t)
    PROVE  NodeTypeOK' /\ ThreadTypeOK'
<1> USE DEF TypeOK, NodeTypeOK, ThreadTypeOK, ExpandStates, Statuses,
            WorkerLabels, nodeVars, Goto, SetState, EndExpansion, Impossible,
            VIRTUAL_LOSS_COUNT
<1>0. PolicyTypeOK'
  BY PolicyType
<1>1. at[t] \in Nodes /\ Subtree[m_root] \subseteq Nodes
  BY SubtreeIs
<1>2. CASE Visit(t)
  <2>1. Ratios \subseteq 0 .. 3
    BY TreeAssumption
  <2>2. \A r \in Ratios : [min_psa_ratio EXCEPT ![t] = r] \in [Threads -> 0 .. 3]
    BY <2>1
  <2>3. min_psa_ratio' \in [Threads -> 0 .. 3]
    BY <1>2, <2>2 DEF Visit, Enter
  <2>4. had_children' \in [Threads -> BOOLEAN]
    <3>1. has_children(at[t]) \in BOOLEAN
      BY DEF has_children
    <3>2. \A b \in BOOLEAN :
             [had_children EXCEPT ![t] = b] \in [Threads -> BOOLEAN]
      OBVIOUS
    <3>3. QED
      BY <1>2, <3>1, <3>2 DEF Visit, Enter
  <2>5. pc' \in [Threads -> WorkerLabels] /\ result' \in [Threads -> BOOLEAN]
    BY <1>2 DEF Visit, Enter
  <2>6. m_virtual_loss' \in [Nodes -> Int]
    BY <1>1, <1>2 DEF Visit
  <2>7. QED
    BY <1>0, <1>2, <2>3, <2>4, <2>5, <2>6 DEF Visit, Enter
<1>3. CASE Acquire(t)
  BY <1>0, <1>1, <1>3 DEF Acquire
<1>4. CASE Recheck(t)
  BY <1>0, <1>1, <1>4 DEF Recheck
<1>5. CASE Evaluate(t)
  BY <1>0, <1>1, <1>5 DEF Evaluate
<1>6. CASE Cancel(t)
  BY <1>0, <1>1, <1>6 DEF Cancel
<1>7. CASE Link(t)
  BY <1>0, <1>1, <1>7 DEF Link, link_nodelist
<1>8. CASE ExpandDone(t)
  BY <1>0, <1>1, <1>8 DEF ExpandDone
<1>9. CASE Descend(t)
  BY <1>0, <1>1, <1>9 DEF Descend
<1>10. CASE WaitExpanded(t)
  BY <1>0, <1>1, <1>10 DEF WaitExpanded
<1>11. CASE Select(t)
  <2>1. \A c \in Active(at[t]) : c \in Nodes /\ c \in Subtree[m_root]
    BY <1>1, SubtreeChild DEF Active, Linked, Children
  <2>2. QED
    BY <1>0, <1>1, <1>11, <2>1 DEF Select
<1>12. CASE Backup(t)
  <2>1. at[t] # m_root => Parent[at[t]] \in Subtree[m_root]
    BY SubtreeStep
  <2>2. QED
    BY <1>0, <1>1, <1>12, <2>1 DEF Backup
<1>13. QED
  BY <1>2, <1>3, <1>4, <1>5, <1>6, <1>7, <1>8, <1>9, <1>10, <1>11, <1>12,
     Walk(t) DEF Walk

LEMMA WorkerType ==
    ASSUME TypeOK, NEW t \in Threads, Worker(t)
    PROVE  TypeOK'
<1>1. CASE Simulate(t)
  BY <1>1, WalkType DEF Simulate, searchVars, TypeOK, MainTypeOK
<1>2. CASE CountPlayout(t)
  BY <1>2 DEF CountPlayout, TypeOK, NodeTypeOK, ThreadTypeOK, PolicyTypeOK,
              MainTypeOK, nodeVars, Goto, WorkerLabels
<1>3. CASE Again(t)
  BY <1>3 DEF Again, TypeOK, NodeTypeOK, ThreadTypeOK, PolicyTypeOK,
              MainTypeOK, nodeVars, searchVars, Goto, WorkerLabels
<1>4. CASE Leave(t)
  BY <1>4 DEF Leave, TypeOK, NodeTypeOK, ThreadTypeOK, PolicyTypeOK,
              MainTypeOK, nodeVars, searchVars, Goto, WorkerLabels
<1>5. QED
  BY <1>1, <1>2, <1>3, <1>4, Worker(t) DEF Worker

LEMMA PrepareRootType ==
    ASSUME NodeTypeOK, NEW n \in Nodes, NEW keep \in BOOLEAN,
           NEW p \in Policies, PrepareRoot(n, keep, p)
    PROVE  NodeTypeOK' /\ m_root' = n
<1> USE DEF PrepareRoot, NodeTypeOK, ExpandStates, Statuses, Impossible
<1>1. m_expand_state' \in [Nodes -> ExpandStates]
  OBVIOUS
<1>2. m_min_psa_ratio_children' \in [Nodes -> 0 .. Impossible]
  OBVIOUS
<1>3. m_children' \in [Nodes -> Nat]
  OBVIOUS
<1>4. m_visits' \in [Nodes -> Nat]
  OBVIOUS
<1>5. m_virtual_loss' \in [Nodes -> Int]
  OBVIOUS
<1>6. m_status' \in [Nodes -> Statuses]
  OBVIOUS
<1>7. QED
  BY <1>1, <1>2, <1>3, <1>4, <1>5, <1>6

LEMMA MainType ==
    ASSUME TypeOK, Main
    PROVE  TypeOK'
<1> USE DEF TypeOK, MainTypeOK, MainLabels
<1>1. CASE StartSearch
  <2>1. PICK n \in Subtree[m_root], keep \in BOOLEAN, p \in Policies :
           /\ PrepareRoot(n, keep, p)
           /\ base' = m_visits'[n]
           /\ at' = [t \in Threads |-> n]
    BY <1>1 DEF StartSearch
  <2>2. n \in Nodes /\ n \in Subtree[n]
    BY SubtreeIs DEF ThreadTypeOK
  <2>3. NodeTypeOK' /\ m_root' = n
    BY <2>1, <2>2, PrepareRootType
  <2>4. ThreadTypeOK'
    BY <1>1, <2>1, <2>2, <2>3 DEF StartSearch, ThreadTypeOK, PolicyTypeOK,
                                        WorkerLabels
  <2>5. base' \in Nat
    BY <2>1, <2>2, <2>3 DEF NodeTypeOK
  <2>6. QED
    BY <1>1, <2>3, <2>4, <2>5 DEF StartSearch
<1>2. CASE StartPruning
  <2>1. {m_visits[c] : c \in Linked(m_root)} \cup {0} \subseteq Nat
    BY DEF NodeTypeOK, Linked, Children
  <2>2. required' \in Nat
    BY <1>2, <2>1 DEF StartPruning
  <2>3. unexamined' \in SUBSET Nodes
    BY <1>2 DEF StartPruning, Linked, Children
  <2>4. QED
    BY <1>2, <2>2, <2>3 DEF StartPruning, treeVars, nodeVars, threadVars,
                            NodeTypeOK, ThreadTypeOK, PolicyTypeOK
<1>3. ASSUME NEW c \in Nodes, PruneOrKeep(c)
      PROVE  TypeOK'
  <2>1. m_status' \in [Nodes -> Statuses]
    BY <1>3 DEF PruneOrKeep, NodeTypeOK, Statuses
  <2>2. QED
    BY <1>3, <2>1 DEF PruneOrKeep, threadVars, NodeTypeOK, ThreadTypeOK, PolicyTypeOK
<1>4. CASE EndPruning
  BY <1>4 DEF EndPruning, treeVars, nodeVars, threadVars, NodeTypeOK,
              ThreadTypeOK, PolicyTypeOK
<1>5. CASE StopSearch
  BY <1>5 DEF StopSearch, treeVars, nodeVars, threadVars, NodeTypeOK,
              ThreadTypeOK, PolicyTypeOK
<1>6. CASE Drain
  BY <1>6, TreeAssumption DEF Drain, nodeVars, threadVars, NodeTypeOK,
              ThreadTypeOK, PolicyTypeOK
<1>7. CASE Resume
  <2>1. m_status' \in [Nodes -> Statuses]
    BY <1>7 DEF Resume, NodeTypeOK, Statuses
  <2>2. QED
    BY <1>7, <2>1 DEF Resume, threadVars, NodeTypeOK, ThreadTypeOK, PolicyTypeOK
<1>8. QED
  BY <1>1, <1>2, <1>3, <1>4, <1>5, <1>6, <1>7, Main DEF Main

(* Every variable keeps its type; in particular a worker never leaves the  *)
(* tree of the current root (play_simulation() only descends from m_root). *)
THEOREM TypeCorrect == Spec => []TypeOK
<1>1. Init => TypeOK
  <2> SUFFICES ASSUME Init
               PROVE  TypeOK
    OBVIOUS
  <2>1. NodeTypeOK
    BY DEF Init, NodeTypeOK, ExpandStates, Statuses, Impossible
  <2>2. ThreadTypeOK
    <3>1. policy = [t \in Threads |-> NoPolicy] /\ NoPolicy \in [Nodes -> 0 .. 2]
      BY DEF Init, NoPolicy
    <3>2. Top \in Nodes /\ Top \in Subtree[Top]
      BY SubtreeIs, TreeAssumption
    <3>3. PolicyTypeOK
      BY <3>1 DEF PolicyTypeOK
    <3>4. /\ pc \in [Threads -> WorkerLabels]
          /\ min_psa_ratio \in [Threads -> 0 .. Impossible]
          /\ had_children \in [Threads -> BOOLEAN]
          /\ result \in [Threads -> BOOLEAN]
          /\ new_node \in [Threads -> BOOLEAN]
      BY DEF Init, WorkerLabels, Impossible
    <3>5. m_root = Top /\ at \in [Threads -> Subtree[m_root]]
      BY <3>2 DEF Init
    <3>6. QED
      BY <3>2, <3>3, <3>4, <3>5 DEF Init, ThreadTypeOK
  <2>3. MainTypeOK
    BY DEF Init, MainTypeOK, MainLabels
  <2>4. QED
    BY <2>1, <2>2, <2>3 DEF TypeOK
<1>2. TypeOK /\ [Next]_vars => TypeOK'
  <2> SUFFICES ASSUME TypeOK, [Next]_vars
               PROVE  TypeOK'
    OBVIOUS
  <2>1. CASE UNCHANGED vars
    BY <2>1 DEF vars, treeVars, nodeVars, threadVars, searchVars, TypeOK,
                NodeTypeOK, ThreadTypeOK, PolicyTypeOK, MainTypeOK
  <2>2. QED
    BY <2>1, MainType, WorkerType DEF Next, Terminated
<1>3. QED
  BY <1>1, <1>2, PTL DEF Spec

-----------------------------------------------------------------------------
(* m_expand_state is a lock.                                               *)

Expanding(t) == pc[t] \in {"recheck", "evaluate", "link", "linked"}

JoinedBetween ==
    main = "between" => \A t \in Threads : pc[t] \in {"left", "halted"}

HolderSeesExpanding ==
    \A t \in Threads : Expanding(t) => m_expand_state[at[t]] = "EXPANDING"

ExpandingHasHolder ==
    \A n \in Nodes : m_expand_state[n] = "EXPANDING" =>
        \E t \in Threads : Expanding(t) /\ at[t] = n

OneHolder ==
    \A t, u \in Threads :
        Expanding(t) /\ Expanding(u) /\ at[t] = at[u] => t = u

\* What Recheck() has seen stays true until the children are linked.
StillExpandable ==
    \A t \in Threads : pc[t] \in {"evaluate", "link"} =>
        min_psa_ratio[t] < m_min_psa_ratio_children[at[t]]

LockInv ==
    /\ JoinedBetween
    /\ HolderSeesExpanding
    /\ ExpandingHasHolder
    /\ OneHolder
    /\ StillExpandable
    /\ FullNodesStayExpanded

(* Steps of a worker that leave the nodes alone and neither take nor       *)
(* release the lock.                                                       *)
LEMMA LockFrame ==
    ASSUME TypeOK, LockInv, NEW t \in Threads, NEW l,
           l \in {"recheck", "evaluate", "link", "linked"} <=> Expanding(t),
           l \in {"evaluate", "link"} =>
                min_psa_ratio[t] < m_min_psa_ratio_children[at[t]],
           pc[t] \notin {"left", "halted"},
           Goto(t, l),
           Expanding(t) => at' = at /\ min_psa_ratio' = min_psa_ratio,
           \A u \in Threads \ {t} : at'[u] = at[u]
                                     /\ min_psa_ratio'[u] = min_psa_ratio[u],
           UNCHANGED <<m_expand_state, m_min_psa_ratio_children, main>>
    PROVE  LockInv'
<1> USE DEF TypeOK, ThreadTypeOK, LockInv, Expanding, Goto
<1>1. JoinedBetween'
  BY DEF JoinedBetween
<1>2. HolderSeesExpanding'
  BY DEF HolderSeesExpanding
<1>3. ExpandingHasHolder'
  BY DEF ExpandingHasHolder
<1>4. OneHolder'
  BY DEF OneHolder
<1>5. StillExpandable'
  BY DEF StillExpandable
<1>6. FullNodesStayExpanded'
  BY DEF FullNodesStayExpanded
<1>7. QED
  BY <1>1, <1>2, <1>3, <1>4, <1>5, <1>6

LEMMA LockWalk ==
    ASSUME TypeOK, LockInv, NEW t \in Threads, Walk(t), UNCHANGED main
    PROVE  LockInv'
<1> USE DEF Goto, nodeVars
<1>1. (\A u \in Threads : at[u] \in Nodes) /\ pc \in [Threads -> WorkerLabels]
  BY SubtreeIs DEF TypeOK, ThreadTypeOK
<1>2. CASE Visit(t)
  <2>1. PICK l \in {"backup", "acquire", "descend"} : Goto(t, l)
    BY <1>2 DEF Visit, Enter
  <2>2. \A u \in Threads \ {t} : min_psa_ratio'[u] = min_psa_ratio[u]
    BY <1>2 DEF Visit, Enter, TypeOK, ThreadTypeOK
  <2>3. QED
    BY <1>2, <2>1, <2>2, LockFrame DEF Visit, Enter, Expanding
<1>3. CASE Evaluate(t)
  BY <1>3, LockFrame DEF Evaluate, Expanding, LockInv, StillExpandable
<1>4. CASE Descend(t)
  <2>1. PICK l \in {"wait", "backup"} : Goto(t, l)
    BY <1>4 DEF Descend
  <2>2. \A u \in Threads \ {t} : min_psa_ratio'[u] = min_psa_ratio[u]
    BY <1>4 DEF Descend, EndExpansion, TypeOK, ThreadTypeOK
  <2>3. QED
    BY <1>4, <2>1, <2>2, LockFrame DEF Descend, Expanding
<1>5. CASE WaitExpanded(t)
  BY <1>5, LockFrame DEF WaitExpanded, Expanding
<1>6. CASE Select(t)
  <2>1. PICK l \in {"backup", "visit"} : Goto(t, l)
    BY <1>6 DEF Select
  <2>2. \A u \in Threads \ {t} : at'[u] = at[u]
    BY <1>6 DEF Select, TypeOK, ThreadTypeOK
  <2>3. QED
    BY <1>6, <2>1, <2>2, LockFrame DEF Select, Expanding
<1>7. CASE Backup(t)
  <2>1. PICK l \in {"backup", "simulated"} : Goto(t, l)
    BY <1>1, <1>7 DEF Backup
  <2>2. \A u \in Threads \ {t} : at'[u] = at[u]
    BY <1>7 DEF Backup, TypeOK, ThreadTypeOK
  <2>3. QED
    BY <1>7, <2>1, <2>2, LockFrame DEF Backup, Expanding
<1> USE DEF TypeOK, NodeTypeOK, ThreadTypeOK, LockInv, Expanding, SetState,
            EndExpansion, JoinedBetween, HolderSeesExpanding,
            ExpandingHasHolder, OneHolder, StillExpandable,
            FullNodesStayExpanded
<1>8. CASE Acquire(t)
  BY <1>1, <1>8 DEF Acquire
<1>9. CASE Recheck(t)
  BY <1>1, <1>9 DEF Recheck, expandable
<1>10. CASE Cancel(t)
  BY <1>1, <1>10 DEF Cancel
<1>11. CASE Link(t)
  BY <1>1, <1>11 DEF Link, link_nodelist
<1>12. CASE ExpandDone(t)
  BY <1>1, <1>12 DEF ExpandDone
<1>13. QED
  BY <1>2, <1>3, <1>4, <1>5, <1>6, <1>7, <1>8, <1>9, <1>10, <1>11, <1>12,
     Walk(t) DEF Walk

LEMMA LockWorker ==
    ASSUME TypeOK, LockInv, NEW t \in Threads, Worker(t)
    PROVE  LockInv'
<1>1. pc \in [Threads -> WorkerLabels]
  BY DEF TypeOK, ThreadTypeOK
<1>2. CASE Simulate(t)
  BY <1>2, LockWalk DEF Simulate, searchVars
<1>3. CASE CountPlayout(t)
  BY <1>3, LockFrame DEF CountPlayout, Expanding, nodeVars
<1>4. CASE Again(t)
  BY <1>4, LockFrame DEF Again, Expanding, nodeVars, searchVars
<1>5. CASE Leave(t)
  BY <1>5, LockFrame DEF Leave, Expanding, nodeVars, searchVars
<1>6. QED
  BY <1>2, <1>3, <1>4, <1>5, Worker(t) DEF Worker

LEMMA LockMain ==
    ASSUME TypeOK, LockInv, Main
    PROVE  LockInv'
<1> USE DEF LockInv
<1> USE DEF Expanding, JoinedBetween, HolderSeesExpanding,
            ExpandingHasHolder, OneHolder, StillExpandable,
            FullNodesStayExpanded
<1>1. CASE StartSearch
  <2>1. PICK n \in Subtree[m_root], keep \in BOOLEAN, p \in Policies :
           PrepareRoot(n, keep, p)
    BY <1>1 DEF StartSearch
  <2>2. \A t \in Threads : pc[t] \in {"left", "halted"} /\ pc'[t] = "visit"
    BY <1>1 DEF StartSearch
  <2>3. n \in Nodes
    BY SubtreeIs DEF TypeOK, ThreadTypeOK
  <2>4. \A x \in Nodes : m_expand_state[x] # "EXPANDING"
    BY <2>2
  <2>5. \A x \in Nodes : m_expand_state'[x] # "EXPANDING"
    BY <2>1, <2>4 DEF PrepareRoot
  <2>6. FullNodesStayExpanded'
    BY <2>1, <2>3 DEF PrepareRoot, TypeOK, NodeTypeOK, Impossible
  <2>7. main' = "search"
    BY <1>1 DEF StartSearch
  <2>8. QED
    BY <2>2, <2>5, <2>6, <2>7
<1>2. CASE StartPruning
  BY <1>2 DEF StartPruning, treeVars, nodeVars, threadVars
<1>3. ASSUME NEW c \in Nodes, PruneOrKeep(c)
      PROVE  LockInv'
  BY <1>3 DEF PruneOrKeep, threadVars
<1>4. CASE EndPruning
  BY <1>4 DEF EndPruning, treeVars, nodeVars, threadVars
<1>5. CASE StopSearch
  BY <1>5 DEF StopSearch, treeVars, nodeVars, threadVars
<1>6. CASE Drain
  BY <1>6 DEF Drain, nodeVars, threadVars
<1>7. CASE Resume
  BY <1>7 DEF Resume, threadVars
<1>8. QED
  BY <1>1, <1>2, <1>3, <1>4, <1>5, <1>6, <1>7, Main DEF Main

LEMMA LockInvariant == Spec => []LockInv
<1>1. Init /\ TypeOK => LockInv
  BY DEF Init, TypeOK, NodeTypeOK, ThreadTypeOK, LockInv, Expanding,
         JoinedBetween, HolderSeesExpanding, ExpandingHasHolder, OneHolder,
         StillExpandable, FullNodesStayExpanded, Impossible
<1>2. TypeOK /\ LockInv /\ [Next]_vars => LockInv'
  <2> SUFFICES ASSUME TypeOK, LockInv, [Next]_vars
               PROVE  LockInv'
    OBVIOUS
  <2>1. CASE UNCHANGED vars
    BY <2>1 DEF vars, treeVars, nodeVars, threadVars, searchVars, LockInv,
         Expanding, JoinedBetween, HolderSeesExpanding, ExpandingHasHolder,
         OneHolder, StillExpandable, FullNodesStayExpanded
  <2>2. QED
    BY <2>1, LockMain, LockWorker DEF Next, Terminated
<1>3. QED
  BY <1>1, <1>2, TypeCorrect, PTL DEF Spec

(* EXPANDING means that exactly one worker is between acquire_expanding()  *)
(* and expand_done() or expand_cancel() at the node: what makes the state  *)
(* the lock of m_children.                                                 *)
THEOREM Locked == Spec => []ExpandingIsALock
<1>1. TypeOK /\ LockInv => ExpandingIsALock
  <2> SUFFICES ASSUME TypeOK, LockInv, NEW n \in Nodes
               PROVE  Cardinality(Expanders(n)) =
                        IF m_expand_state[n] = "EXPANDING" THEN 1 ELSE 0
    BY DEF ExpandingIsALock
  <2>1. CASE m_expand_state[n] = "EXPANDING"
    <3>1. PICK t \in Threads : Expanding(t) /\ at[t] = n
      BY <2>1 DEF LockInv, ExpandingHasHolder
    <3>2. Expanders(n) = {t}
      BY <3>1 DEF Expanders, Expanding, LockInv, OneHolder
    <3>3. QED
      BY <2>1, <3>2, FS_Singleton
  <2>2. CASE m_expand_state[n] # "EXPANDING"
    <3>1. Expanders(n) = {}
      BY <2>2 DEF Expanders, Expanding, LockInv, HolderSeesExpanding
    <3>2. QED
      BY <2>2, <3>1, FS_EmptySet
  <2>3. QED
    BY <2>1, <2>2
<1>2. QED
  BY <1>1, TypeCorrect, LockInvariant, PTL

(* The assertion of expandable(): a node with all its children never       *)
(* becomes expandable again, however often evaluations are cancelled and   *)
(* the tree is reused.                                                     *)
THEOREM FullStaysExpanded == Spec => []FullNodesStayExpanded
<1>1. LockInv => FullNodesStayExpanded
  BY DEF LockInv
<1>2. QED
  BY <1>1, LockInvariant, PTL

(* The assertion of link_nodelist(): whatever thresholds memory asks for   *)
(* and whatever the network answers, children are linked only to bring a   *)
(* threshold down, under the lock that has seen it can be.                 *)
THEOREM LinksLower == Spec => []LinkLowersThreshold
<1>1. LockInv => LinkLowersThreshold
  BY DEF LockInv, StillExpandable, LinkLowersThreshold
<1>2. QED
  BY <1>1, LockInvariant, PTL

-----------------------------------------------------------------------------
(* As long as there is no expand_cancel() the lock also covers the         *)
(* selections.                                                             *)

\* Who looks for a child has found the node full or taken by another, and
\* only expand_cancel() would make it INITIAL again.
DescendsFromTaken ==
    \A t \in Threads : pc[t] \in {"descend", "wait"} =>
        m_expand_state[at[t]] # "INITIAL"

WaitInv == NoneHalted => DescendsFromTaken /\ WaitedIsExpanded

LEMMA WaitWalk ==
    ASSUME TypeOK, LockInv, WaitInv, NEW t \in Threads, Walk(t)
    PROVE  WaitInv'
<1> USE DEF TypeOK, NodeTypeOK, ThreadTypeOK, ExpandStates, LockInv,
            Expanding, HolderSeesExpanding, FullNodesStayExpanded, WaitInv,
            NoneHalted, DescendsFromTaken, WaitedIsExpanded, Goto, SetState,
            nodeVars, EndExpansion
<1>1. \A u \in Threads : at[u] \in Nodes
  BY SubtreeIs
<1>2. CASE Visit(t)
  <2>1. PICK l \in {"backup", "acquire", "descend"} :
           /\ Goto(t, l)
           /\ l = "descend" => m_min_psa_ratio_children[at[t]] = 0
    BY <1>1, <1>2 DEF Visit, Enter, expandable, Impossible
  <2>2. QED
    BY <1>1, <1>2, <2>1 DEF Visit, Enter
<1>3. CASE Acquire(t)
  BY <1>1, <1>3 DEF Acquire
<1>4. CASE Recheck(t)
  BY <1>1, <1>4 DEF Recheck
<1>5. CASE Evaluate(t)
  BY <1>1, <1>5 DEF Evaluate
<1>6. CASE Cancel(t)
  BY <1>6 DEF Cancel
<1>7. CASE Link(t)
  BY <1>1, <1>7 DEF Link
<1>8. CASE ExpandDone(t)
  BY <1>1, <1>8 DEF ExpandDone
<1>9. CASE Descend(t)
  BY <1>1, <1>9 DEF Descend
<1>10. CASE WaitExpanded(t)
  BY <1>1, <1>10 DEF WaitExpanded
<1>11. CASE Select(t)
  BY <1>1, <1>11 DEF Select
<1>12. CASE Backup(t)
  BY <1>1, <1>12 DEF Backup
<1>13. QED
  BY <1>2, <1>3, <1>4, <1>5, <1>6, <1>7, <1>8, <1>9, <1>10, <1>11, <1>12,
     Walk(t) DEF Walk

LEMMA WaitStep ==
    ASSUME TypeOK, LockInv, WaitInv, [Next]_vars
    PROVE  WaitInv'
<1> USE DEF WaitInv, NoneHalted, DescendsFromTaken, WaitedIsExpanded
<1>1. ASSUME NEW t \in Threads, Worker(t)
      PROVE  WaitInv'
  <2>1. pc \in [Threads -> WorkerLabels]
    BY DEF TypeOK, ThreadTypeOK
  <2>2. CASE Simulate(t)
    BY <2>2, WaitWalk DEF Simulate
  <2>3. CASE CountPlayout(t)
    BY <2>1, <2>3 DEF CountPlayout, Goto, nodeVars
  <2>4. CASE Again(t)
    BY <2>1, <2>4 DEF Again, Goto, nodeVars
  <2>5. CASE Leave(t)
    BY <2>1, <2>5 DEF Leave, Goto, nodeVars
  <2>6. QED
    BY <1>1, <2>2, <2>3, <2>4, <2>5 DEF Worker
<1>2. CASE Main
  <2>1. CASE StartSearch
    BY <2>1 DEF StartSearch
  <2>2. CASE StartPruning
    BY <2>2 DEF StartPruning, treeVars, nodeVars, threadVars
  <2>3. ASSUME NEW c \in Nodes, PruneOrKeep(c)
        PROVE  WaitInv'
    BY <2>3 DEF PruneOrKeep, threadVars
  <2>4. CASE EndPruning
    BY <2>4 DEF EndPruning, treeVars, nodeVars, threadVars
  <2>5. CASE StopSearch
    BY <2>5 DEF StopSearch, treeVars, nodeVars, threadVars
  <2>6. CASE Drain
    BY <2>6 DEF Drain, nodeVars, threadVars
  <2>7. CASE Resume
    BY <2>7 DEF Resume, threadVars
  <2>8. QED
    BY <1>2, <2>1, <2>2, <2>3, <2>4, <2>5, <2>6, <2>7 DEF Main
<1>3. CASE UNCHANGED vars
  BY <1>3 DEF vars, treeVars, nodeVars, threadVars
<1>4. QED
  BY <1>1, <1>2, <1>3 DEF Next, Terminated

(* As long as no worker of the search was halted, whatever the network     *)
(* answers and however often trees were reused, the assertion of           *)
(* wait_expanded() holds, and no worker appends to m_children while        *)
(* uct_select_child() of another walks it.                                 *)
THEOREM SelectionsAreCovered ==
    Spec => [](NoReadDuringLink /\ (NoneHalted => WaitedIsExpanded))
<1>1. Init => WaitInv
  BY DEF Init, WaitInv, DescendsFromTaken, WaitedIsExpanded
<1>2. TypeOK /\ LockInv /\ WaitInv /\ [Next]_vars => WaitInv'
  BY WaitStep
<1>3. LockInv /\ WaitInv
        => NoReadDuringLink /\ (NoneHalted => WaitedIsExpanded)
  BY DEF LockInv, HolderSeesExpanding, Expanding, WaitInv, WaitedIsExpanded,
         NoReadDuringLink
<1>4. QED
  BY <1>1, <1>2, <1>3, TypeCorrect, LockInvariant, PTL DEF Spec

-----------------------------------------------------------------------------
(* Virtual loss.                                                           *)

\* The nodes whose play_simulation() by thread t has begun and not ended.
Held(t) ==
    IF pc[t] \in {"acquire", "recheck", "evaluate", "link", "linked",
                  "descend", "wait", "select", "backup"}
    THEN Path(at[t])
    ELSE IF pc[t] = "visit" THEN Path(at[t]) \ {at[t]} ELSE {}

Holders(n) == {t \in Threads : n \in Held(t)}

VirtualLossCounts ==
    \A n \in Nodes : m_virtual_loss[n] = 3 * Cardinality(Holders(n))

DoneAtRoot ==
    \A t \in Threads : pc[t] \in {"simulated", "counted"} => at[t] = m_root

LossInv == VirtualLossCounts /\ DoneAtRoot

LEMMA HeldSame ==
    ASSUME NEW t \in Threads, pc'[t] = pc[t], at'[t] = at[t],
           UNCHANGED m_root
    PROVE  Held(t)' = Held(t)
BY DEF Held, Path

(* One thread enters and leaves nodes, and the virtual loss follows.       *)
LEMMA LossMoves ==
    ASSUME VirtualLossCounts, NEW t \in Threads,
           \A u \in Threads \ {t} : Held(u)' = Held(u),
           \A x \in Nodes :
               m_virtual_loss'[x]
                 = m_virtual_loss[x] + (IF x \in Held(t)' THEN 3 ELSE 0)
                                     - (IF x \in Held(t) THEN 3 ELSE 0)
    PROVE  VirtualLossCounts'
<1> SUFFICES ASSUME NEW x \in Nodes
             PROVE  m_virtual_loss'[x] = 3 * Cardinality(Holders(x)')
  BY DEF VirtualLossCounts
<1> DEFINE Others == {u \in Threads \ {t} : x \in Held(u)}
<1>1. /\ Holders(x) = IF x \in Held(t) THEN Others \cup {t} ELSE Others
      /\ Holders(x)' = IF x \in Held(t)' THEN Others \cup {t} ELSE Others
  BY DEF Holders
<1>2. IsFiniteSet(Others) /\ Cardinality(Others) \in Nat
  BY FS_Subset, FS_CardinalityType, TreeAssumption, Others \in SUBSET Threads
<1>3. Cardinality(Others \cup {t}) = Cardinality(Others) + 1
  BY <1>2, FS_AddElement, t \notin Others
<1>4. m_virtual_loss[x] = 3 * Cardinality(Holders(x))
  BY DEF VirtualLossCounts
<1> HIDE DEF Others
<1>5. CASE x \in Held(t)
  BY <1>1, <1>2, <1>3, <1>4, <1>5
<1>6. CASE x \notin Held(t)
  BY <1>1, <1>2, <1>3, <1>4, <1>6
<1>7. QED
  BY <1>5, <1>6

LEMMA LossWorker ==
    ASSUME TypeOK, LossInv, NEW t \in Threads, Worker(t)
    PROVE  LossInv'
<1> DEFINE n == at[t]
<1> USE DEF Goto, nodeVars, VIRTUAL_LOSS_COUNT
<1>1. /\ m_root \in Nodes /\ n \in Subtree[m_root] /\ n \in Nodes
      /\ n \in Path(n)
      /\ m_virtual_loss \in [Nodes -> Int]
      /\ pc \in [Threads -> WorkerLabels]
      /\ at \in [Threads -> Subtree[m_root]]
  BY SubtreeIs DEF TypeOK, NodeTypeOK, ThreadTypeOK, Path
<1>2. /\ UNCHANGED m_root
      /\ \A u \in Threads \ {t} : pc'[u] = pc[u] /\ at'[u] = at[u]
  BY <1>1 DEF Worker, Simulate, Walk, Visit, Enter, Acquire, Recheck,
              Evaluate, Cancel, Link, ExpandDone, Descend, WaitExpanded,
              Select, Backup, CountPlayout, Again, Leave
<1>3. \A u \in Threads \ {t} : Held(u)' = Held(u)
  BY <1>2, HeldSame
<1>4. \A x \in Nodes : Path(x)' = Path(x)
  BY <1>2 DEF Path
<1>5. ASSUME \A x \in Nodes :
               m_virtual_loss'[x]
                 = m_virtual_loss[x] + (IF x \in Held(t)' THEN 3 ELSE 0)
                                     - (IF x \in Held(t) THEN 3 ELSE 0),
             pc'[t] \in {"simulated", "counted"} => at'[t] = m_root
      PROVE  LossInv'
  BY <1>2, <1>3, <1>5, LossMoves DEF LossInv, DoneAtRoot
<1>6. ASSUME UNCHANGED m_virtual_loss, Held(t)' = Held(t),
             pc'[t] \in {"simulated", "counted"} => at'[t] = m_root
      PROVE  LossInv'
  <2>1. \A x \in Nodes : m_virtual_loss[x] \in Int
    BY <1>1
  <2>2. QED
    BY <1>5, <1>6, <2>1
<1>7. CASE Visit(t)
  <2>1. PICK l \in {"backup", "acquire", "descend"} : Goto(t, l)
    BY <1>7 DEF Visit, Enter
  <2>2. Held(t) = Path(n) \ {n} /\ Held(t)' = Path(n)
    BY <1>1, <1>4, <1>7, <2>1 DEF Visit, Enter, Held
  <2>3. \A x \in Nodes : m_virtual_loss'[x] =
           IF x = n THEN m_virtual_loss[x] + 3 ELSE m_virtual_loss[x]
    BY <1>1, <1>7 DEF Visit
  <2>4. \A x \in Nodes : m_virtual_loss[x] \in Int
    BY <1>1
  <2>5. QED
    BY <1>1, <1>5, <2>1, <2>2, <2>3, <2>4
<1>8. CASE Acquire(t) \/ Recheck(t) \/ Evaluate(t) \/ Link(t)
           \/ ExpandDone(t) \/ Descend(t) \/ WaitExpanded(t)
  <2>1. /\ UNCHANGED <<m_virtual_loss, at>>
        /\ pc[t] \in {"acquire", "recheck", "evaluate", "link", "linked",
                      "descend", "wait"}
        /\ pc'[t] \in {"recheck", "evaluate", "link", "linked", "descend",
                       "wait", "select", "backup"}
    BY <1>1, <1>8 DEF Acquire, Recheck, Evaluate, Link, ExpandDone, Descend,
                      WaitExpanded
  <2>2. Held(t)' = Held(t)
    BY <1>1, <1>4, <2>1 DEF Held
  <2>3. QED
    BY <1>6, <2>1, <2>2
<1>9. CASE Cancel(t)
  <2>1. Held(t) = Path(n) /\ Held(t)' = {} /\ pc'[t] = "halted"
    BY <1>1, <1>9 DEF Cancel, Held
  <2>2. \A x \in Nodes : m_virtual_loss'[x] =
           IF x \in Path(n) THEN m_virtual_loss[x] - 3
                            ELSE m_virtual_loss[x]
    BY <1>9 DEF Cancel
  <2>3. \A x \in Nodes : m_virtual_loss[x] \in Int
    BY <1>1
  <2>4. QED
    BY <1>5, <2>1, <2>2, <2>3
<1>10. CASE Select(t)
  <2>1. PICK c \in Active(n) :
           IF c \in Superko THEN Goto(t, "backup") /\ UNCHANGED at
           ELSE at' = [at EXCEPT ![t] = c] /\ Goto(t, "visit")
    BY <1>10 DEF Select
  <2>2. UNCHANGED m_virtual_loss /\ Held(t) = Path(n)
    BY <1>10 DEF Select, Held
  <2>3. CASE c \in Superko
    <3>1. Held(t)' = Path(n) /\ pc'[t] = "backup"
      BY <1>1, <1>4, <2>1, <2>3 DEF Held
    <3>2. QED
      BY <1>6, <2>2, <3>1
  <2>4. CASE c \notin Superko
    <3>1. /\ c \in Nodes \ {Top} /\ Parent[c] = n
          /\ c \in Subtree[m_root] /\ c # m_root
      <4>1. c \in Nodes \ {Top} /\ Parent[c] = n
        BY DEF Active, Linked, Children
      <4>2. QED
        BY <1>1, <4>1, SubtreeChild, NoCycle
    <3>2. Path(c) \ {c} = Path(n)
      BY <1>1, <3>1, PathDown
    <3>3. at'[t] = c /\ pc'[t] = "visit"
      BY <1>1, <2>1, <2>4
    <3>4. Held(t)' = Path(n)
      BY <1>4, <3>1, <3>2, <3>3 DEF Held
    <3>5. QED
      BY <1>6, <2>2, <3>3, <3>4
  <2>5. QED
    BY <2>3, <2>4
<1>11. CASE Backup(t)
  <2>1. /\ Held(t) = Path(n)
        /\ \A x \in Nodes : m_virtual_loss'[x] =
              IF x = n THEN m_virtual_loss[x] - 3 ELSE m_virtual_loss[x]
        /\ \A x \in Nodes : m_virtual_loss[x] \in Int
    BY <1>1, <1>11 DEF Backup, Held
  <2>2. Held(t)' = Path(n) \ {n}
        /\ (pc'[t] \in {"simulated", "counted"} => at'[t] = m_root)
    <3>1. CASE n = m_root
      <4>1. pc'[t] = "simulated" /\ at'[t] = n
        BY <1>1, <1>11, <3>1 DEF Backup
      <4>2. Path(n) = {n}
        BY <1>1, <3>1, PathOfRoot
      <4>3. QED
        BY <3>1, <4>1, <4>2 DEF Held
    <3>2. CASE n # m_root
      <4>1. pc'[t] = "backup" /\ at'[t] = Parent[n]
        BY <1>1, <1>11, <3>2 DEF Backup
      <4>2. Parent[n] \in Nodes /\ Path(Parent[n]) = Path(n) \ {n}
        BY <1>1, <3>2, PathDown, SubtreeIs
      <4>3. QED
        BY <1>4, <4>1, <4>2 DEF Held
    <3>3. QED
      BY <3>1, <3>2
  <2>3. QED
    BY <1>1, <1>5, <2>1, <2>2
<1>12. CASE CountPlayout(t)
  <2>1. /\ UNCHANGED <<m_virtual_loss, at>>
        /\ pc[t] = "simulated" /\ pc'[t] = "counted"
    BY <1>1, <1>12 DEF CountPlayout
  <2>2. QED
    BY <1>6, <2>1 DEF Held, LossInv, DoneAtRoot
<1>13. CASE Again(t)
  <2>1. /\ UNCHANGED <<m_virtual_loss, at>>
        /\ pc[t] = "counted" /\ pc'[t] = "visit" /\ n = m_root
    BY <1>1, <1>13 DEF Again, LossInv, DoneAtRoot
  <2>2. Path(n) = {n}
    BY <1>1, <2>1, PathOfRoot
  <2>3. Held(t) = {} /\ Held(t)' = {}
    BY <1>1, <1>4, <2>1, <2>2 DEF Held
  <2>4. QED
    BY <1>6, <2>1, <2>3
<1>14. CASE Leave(t)
  <2>1. /\ UNCHANGED <<m_virtual_loss, at>>
        /\ pc[t] = "counted" /\ pc'[t] = "left"
    BY <1>1, <1>14 DEF Leave
  <2>2. QED
    BY <1>6, <2>1 DEF Held
<1>15. QED
  BY <1>7, <1>8, <1>9, <1>10, <1>11, <1>12, <1>13, <1>14, Worker(t)
     DEF Worker, Simulate, Walk

LEMMA LossMain ==
    ASSUME TypeOK, LockInv, LossInv, Main
    PROVE  LossInv'
<1>1. CASE StartSearch
  <2>1. PICK n \in Subtree[m_root], keep \in BOOLEAN, p \in Policies :
           PrepareRoot(n, keep, p) /\ at' = [t \in Threads |-> n]
    BY <1>1 DEF StartSearch
  <2>2. \A t \in Threads : /\ pc[t] \in {"left", "halted"}
                           /\ pc'[t] = "visit" /\ at'[t] = n
    BY <1>1, <2>1 DEF StartSearch, LockInv, JoinedBetween
  <2>3. n \in Nodes /\ m_root' = n
    BY <2>1, SubtreeIs DEF TypeOK, ThreadTypeOK, PrepareRoot
  <2>4. \A x \in Nodes : m_virtual_loss[x] = 0
    <3> SUFFICES ASSUME NEW x \in Nodes
                 PROVE  m_virtual_loss[x] = 0
      OBVIOUS
    <3>1. Holders(x) = {}
      BY <2>2 DEF Holders, Held
    <3>2. QED
      BY <3>1, FS_EmptySet DEF LossInv, VirtualLossCounts
  <2>5. \A x \in Nodes : m_virtual_loss'[x] = 0
    BY <2>1, <2>4 DEF PrepareRoot
  <2>6. Path(n)' = {n}
    BY <2>3, SubtreeIs, SubtreeAntisymmetric DEF Path
  <2>7. \A t \in Threads : Held(t)' = {}
    BY <2>2, <2>6 DEF Held
  <2>8. VirtualLossCounts'
    <3> SUFFICES ASSUME NEW x \in Nodes
                 PROVE  m_virtual_loss'[x] = 3 * Cardinality(Holders(x)')
      BY DEF VirtualLossCounts
    <3>1. Holders(x)' = {}
      BY <2>7 DEF Holders
    <3>2. QED
      BY <2>5, <3>1, FS_EmptySet
  <2>9. QED
    BY <2>2, <2>8 DEF LossInv, DoneAtRoot
<1>2. CASE ~StartSearch
  <2>1. UNCHANGED <<m_virtual_loss, m_root, pc, at>>
    BY <1>2, Main DEF Main, StartPruning, PruneOrKeep, EndPruning, StopSearch,
                Drain, Resume, treeVars, nodeVars, threadVars
  <2>2. QED
    BY <2>1 DEF LossInv, VirtualLossCounts, DoneAtRoot, Holders, Held, Path
<1>3. QED
  BY <1>1, <1>2

LEMMA LossInvariant == Spec => []LossInv
<1>1. Init => LossInv
  <2> SUFFICES ASSUME Init
               PROVE  LossInv
    OBVIOUS
  <2>1. \A t \in Threads : Held(t) = {} /\ pc[t] = "left"
    BY DEF Init, Held
  <2>2. \A x \in Nodes : Holders(x) = {} /\ m_virtual_loss[x] = 0
    BY <2>1 DEF Init, Holders
  <2>3. QED
    BY <2>1, <2>2, FS_EmptySet DEF LossInv, VirtualLossCounts, DoneAtRoot
<1>2. TypeOK /\ LockInv /\ LossInv /\ [Next]_vars => LossInv'
  <2> SUFFICES ASSUME TypeOK, LockInv, LossInv, [Next]_vars
               PROVE  LossInv'
    OBVIOUS
  <2>1. CASE UNCHANGED vars
    BY <2>1 DEF vars, treeVars, nodeVars, threadVars, LossInv,
                VirtualLossCounts, DoneAtRoot, Holders, Held, Path
  <2>2. QED
    BY <2>1, LossMain, LossWorker DEF Next, Terminated
<1>3. QED
  BY <1>1, <1>2, TypeCorrect, LockInvariant, PTL DEF Spec

-----------------------------------------------------------------------------
(* The moves at the root.                                                  *)

\* prepare_root_node() gives the root all its children, so that nobody
\* links another one during a search; none of them is a superko move.
RootComplete ==
    main # "between" =>
        /\ Final(m_root) \/ m_min_psa_ratio_children[m_root] = 0
        /\ Linked(m_root) \cap Superko = {}

PrunedIsRootMove ==
    \A c \in Nodes : m_status[c] = "PRUNED" =>
        main # "between" /\ ~pondering /\ c \in Linked(m_root)

InvalidIsSuperko ==
    \A c \in Nodes : m_status[c] = "INVALID" => c \in Superko

ExaminesRootMoves ==
    main = "pruning" => ~pondering /\ unexamined \subseteq Linked(m_root)

\* Somewhere among the root's moves is one with enough visits, which this
\* round of pruning keeps active when it comes to it.
ContenderRemains ==
    main = "pruning" /\ Linked(m_root) # {} =>
        \E c \in Linked(m_root) :
            /\ m_visits[c] >= required
            /\ c \in unexamined \/ m_status[c] = "ACTIVE"

RootInv ==
    /\ RootComplete
    /\ PrunedIsRootMove
    /\ InvalidIsSuperko
    /\ ExaminesRootMoves
    /\ ContenderRemains
    /\ PruningLeavesContender

LEMMA RootLinks ==
    ASSUME TypeOK, LockInv, RootComplete, NEW t \in Threads, Link(t),
           m_root \in Nodes
    PROVE  /\ \A c \in Children(m_root) : m_children'[c] = m_children[c]
           /\ m_min_psa_ratio_children[m_root] = 0
                 => m_min_psa_ratio_children'[m_root] = 0
<1>1. /\ at[t] \in Nodes
      /\ m_min_psa_ratio_children \in [Nodes -> 0 .. 3]
      /\ min_psa_ratio \in [Threads -> 0 .. 3]
  BY SubtreeIs DEF TypeOK, NodeTypeOK, ThreadTypeOK, Impossible
<1>2. main # "between" /\ min_psa_ratio[t] < m_min_psa_ratio_children[at[t]]
  BY DEF Link, LockInv, JoinedBetween, StillExpandable
<1>3. CASE at[t] = m_root
  BY <1>1, <1>2, <1>3 DEF RootComplete, Final
<1>4. CASE at[t] # m_root
  <2>1. \A c \in Children(m_root) : c \notin Children(at[t])
    BY <1>4 DEF Children
  <2>2. \A c \in Children(m_root) : m_children'[c] = m_children[c]
    BY <2>1 DEF Link, link_nodelist, Children
  <2>3. m_min_psa_ratio_children'[m_root] = m_min_psa_ratio_children[m_root]
    BY <1>1, <1>4 DEF Link, link_nodelist
  <2>4. QED
    BY <2>2, <2>3
<1>5. QED
  BY <1>3, <1>4

LEMMA RootWorker ==
    ASSUME TypeOK, LockInv, RootInv, NEW t \in Threads, Worker(t)
    PROVE  RootInv'
<1> USE DEF Worker, Simulate, Walk, nodeVars, searchVars
<1>1. /\ UNCHANGED <<m_root, main, pondering, required, unexamined>>
      /\ Link(t) \/ UNCHANGED <<m_children, m_min_psa_ratio_children>>
  BY DEF Visit, Enter, Acquire, Recheck, Evaluate, Cancel, Link, ExpandDone,
         Descend, WaitExpanded, Select, Backup, CountPlayout, Again, Leave
<1>2. /\ at[t] \in Nodes /\ m_root \in Nodes
      /\ m_visits \in [Nodes -> Nat] /\ m_status \in [Nodes -> Statuses]
      /\ m_min_psa_ratio_children \in [Nodes -> 0 .. 3]
      /\ min_psa_ratio \in [Threads -> 0 .. 3]
  BY SubtreeIs DEF TypeOK, NodeTypeOK, ThreadTypeOK, Impossible
<1>3. /\ Linked(m_root)' = Linked(m_root)
      /\ main # "between" =>
            (m_min_psa_ratio_children[m_root] = 0
                => m_min_psa_ratio_children'[m_root] = 0)
  <2>1. CASE Link(t)
    BY <1>1, <1>2, <2>1, RootLinks DEF RootInv, Linked, Children
  <2>2. CASE UNCHANGED <<m_children, m_min_psa_ratio_children>>
    BY <1>1, <2>2 DEF Linked, Children
  <2>3. QED
    BY <1>1, <2>1, <2>2
<1>4. \A c \in Nodes : m_visits'[c] >= m_visits[c]
  <2>1. CASE Link(t)
    BY <1>2, <2>1 DEF Link
  <2>2. CASE Backup(t)
    BY <1>2, <2>2 DEF Backup
  <2>3. CASE ~Link(t) /\ ~Backup(t)
    <3>1. UNCHANGED m_visits
      BY <2>3 DEF Visit, Enter, Acquire, Recheck, Evaluate, Cancel,
                  ExpandDone, Descend, WaitExpanded, Select, CountPlayout,
                  Again, Leave
    <3>2. QED
      BY <1>2, <3>1
  <2>4. QED
    BY <2>1, <2>2, <2>3
<1>5. \A c \in Nodes : \/ m_status'[c] = m_status[c]
                       \/ m_status'[c] = "INVALID" /\ c \in Superko
  <2>1. CASE Select(t)
    BY <1>2, <2>1 DEF Select, Statuses
  <2>2. CASE ~Select(t)
    BY <2>2 DEF Visit, Enter, Acquire, Recheck, Evaluate, Cancel, Link,
                ExpandDone, Descend, WaitExpanded, Backup, CountPlayout,
                Again, Leave
  <2>3. QED
    BY <2>1, <2>2
<1>6. \A c \in Linked(m_root) : c \in Nodes
  BY DEF Linked, Children
<1>7. main # "between" =>
         \A c \in Linked(m_root) : m_status'[c] = m_status[c]
  BY <1>5, <1>6 DEF RootInv, RootComplete
<1>8. RootComplete'
  BY <1>1, <1>3 DEF RootInv, RootComplete, Final, Children
<1>9. PrunedIsRootMove' /\ InvalidIsSuperko'
  BY <1>1, <1>3, <1>5 DEF RootInv, PrunedIsRootMove, InvalidIsSuperko
<1>10. ExaminesRootMoves'
  BY <1>1, <1>3 DEF RootInv, ExaminesRootMoves
<1>11. ContenderRemains'
  <2> SUFFICES ASSUME main = "pruning", Linked(m_root) # {}
               PROVE  \E c \in Linked(m_root) :
                        /\ m_visits'[c] >= required
                        /\ c \in unexamined \/ m_status'[c] = "ACTIVE"
    BY <1>1, <1>3 DEF ContenderRemains
  <2>1. PICK c \in Linked(m_root) :
           /\ m_visits[c] >= required
           /\ c \in unexamined \/ m_status[c] = "ACTIVE"
    BY DEF RootInv, ContenderRemains
  <2>2. m_visits'[c] >= m_visits[c] /\ m_status'[c] = m_status[c]
    BY <1>4, <1>6, <1>7
  <2>3. m_visits[c] \in Int /\ m_visits'[c] \in Int /\ required \in Int
    BY <1>2, <1>6, WorkerType DEF TypeOK, NodeTypeOK, MainTypeOK
  <2>4. m_visits'[c] >= required
    BY <2>1, <2>2, <2>3
  <2>5. QED
    BY <2>1, <2>2, <2>4
<1>12. PruningLeavesContender'
  <2>1. main = "search" => Active(m_root)' = Active(m_root)
    BY <1>3, <1>7 DEF Active
  <2>2. QED
    BY <1>1, <1>3, <2>1 DEF RootInv, PruningLeavesContender
<1>13. QED
  BY <1>8, <1>9, <1>10, <1>11, <1>12 DEF RootInv

LEMMA RootStart ==
    ASSUME TypeOK, RootInv, StartSearch
    PROVE  RootInv'
<1>1. PICK n \in Subtree[m_root], keep \in BOOLEAN, p \in Policies :
         PrepareRoot(n, keep, p)
  BY DEF StartSearch
<1>2. n \in Nodes /\ m_root' = n
  BY <1>1, SubtreeIs DEF TypeOK, ThreadTypeOK, PrepareRoot
<1>3. main = "between" /\ main' = "search"
  BY DEF StartSearch
<1>4. \A c \in Nodes : m_status[c] \in Statuses /\ m_status[c] # "PRUNED"
  BY <1>3 DEF TypeOK, NodeTypeOK, RootInv, PrunedIsRootMove
<1>5. \A c \in Nodes : m_status'[c] \in {m_status[c], "ACTIVE"}
  BY <1>1 DEF PrepareRoot
<1>6. \A c \in Nodes : m_status'[c] # "ACTIVE" => c \in Superko
  BY <1>4, <1>5 DEF RootInv, InvalidIsSuperko, Statuses
<1>7. Final(n) \/ m_min_psa_ratio_children'[n] = 0
  BY <1>1, <1>2 DEF PrepareRoot, TypeOK, NodeTypeOK, Impossible
<1>8. Linked(n)' \cap Superko = {}
  BY <1>1 DEF PrepareRoot, Linked, Children
<1>9. RootComplete'
  BY <1>2, <1>7, <1>8 DEF RootComplete, Final, Linked, Children
<1>10. Linked(n)' \subseteq Active(n)'
  BY <1>6, <1>8 DEF Active, Linked, Children
<1>11. PruningLeavesContender'
  BY <1>2, <1>10 DEF PruningLeavesContender, Linked, Active, Children
<1>12. PrunedIsRootMove' /\ InvalidIsSuperko'
  BY <1>4, <1>5, <1>6 DEF PrunedIsRootMove, InvalidIsSuperko
<1>13. QED
  BY <1>3, <1>9, <1>11, <1>12 DEF RootInv, ExaminesRootMoves, ContenderRemains

LEMMA RootMain ==
    ASSUME TypeOK, RootInv, Main
    PROVE  RootInv'
<1> USE DEF RootInv
<1>1. /\ m_visits \in [Nodes -> Nat] /\ m_status \in [Nodes -> Statuses]
      /\ required \in Nat
      /\ \A c \in Linked(m_root) : c \in Nodes
  BY DEF TypeOK, NodeTypeOK, MainTypeOK, Linked, Children
<1>2. CASE StartSearch
  BY <1>2, RootStart
<1>3. ASSUME UNCHANGED <<m_root, m_children, m_min_psa_ratio_children>>,
             main # "between" \/ main' = "between"
      PROVE  /\ Linked(m_root)' = Linked(m_root)
             /\ RootComplete'
  BY <1>3 DEF RootComplete, Linked, Children, Final
<1>4. CASE StartPruning
  <2>1. /\ UNCHANGED <<m_root, m_children, m_min_psa_ratio_children, m_visits,
                       m_status, pondering>>
        /\ main = "search" /\ main' = "pruning" /\ ~pondering
        /\ unexamined' = Linked(m_root)
    BY <1>4 DEF StartPruning, treeVars, nodeVars
  <2>2. Linked(m_root)' = Linked(m_root) /\ RootComplete'
    BY <1>3, <2>1
  <2>3. PICK Nfirst \in {m_visits[c] : c \in Linked(m_root)} \cup {0},
             left \in 0 .. Slack :
           required' = IF left > Nfirst THEN 0 ELSE Nfirst - left
    BY <1>4 DEF StartPruning
  <2>4. Nfirst \in Nat /\ required' <= Nfirst
    BY <1>1, <2>3
  <2>5. Linked(m_root) # {} =>
           \E c \in Linked(m_root) : m_visits[c] >= required'
    <3>1. CASE \E c \in Linked(m_root) : Nfirst = m_visits[c]
      BY <2>4, <3>1
    <3>2. CASE Nfirst = 0
      <4>1. required' = 0
        BY <2>3, <3>2
      <4>2. QED
        BY <1>1, <4>1
    <3>3. QED
      BY <2>3, <3>1, <3>2
  <2>6. QED
    BY <2>1, <2>2, <2>5
       DEF PrunedIsRootMove, InvalidIsSuperko, ExaminesRootMoves,
           ContenderRemains, PruningLeavesContender
<1>5. ASSUME NEW c \in Nodes, PruneOrKeep(c)
      PROVE  RootInv'
  <2>1. /\ UNCHANGED <<m_root, m_children, m_min_psa_ratio_children, m_visits,
                       main, pondering, required>>
        /\ main = "pruning" /\ c \in unexamined
        /\ unexamined' = unexamined \ {c}
    BY <1>5 DEF PruneOrKeep
  <2>2. Linked(m_root)' = Linked(m_root) /\ RootComplete'
    BY <1>3, <2>1
  <2>3. /\ \A x \in Nodes \ {c} : m_status'[x] = m_status[x]
        /\ m_status'[c] \in {"ACTIVE", "PRUNED"}
        /\ m_visits[c] >= required => m_status'[c] = "ACTIVE"
    BY <1>1, <1>5 DEF PruneOrKeep
  <2>4. ~pondering /\ c \in Linked(m_root)
    BY <2>1 DEF ExaminesRootMoves
  <2>5. PrunedIsRootMove' /\ InvalidIsSuperko'
    BY <2>1, <2>2, <2>3, <2>4 DEF PrunedIsRootMove, InvalidIsSuperko
  <2>6. ExaminesRootMoves'
    BY <2>1, <2>2 DEF ExaminesRootMoves
  <2>7. ContenderRemains'
    BY <1>1, <2>1, <2>2, <2>3 DEF ContenderRemains
  <2>8. QED
    BY <2>1, <2>2, <2>5, <2>6, <2>7 DEF PruningLeavesContender
<1>6. CASE EndPruning
  <2>1. /\ UNCHANGED <<m_root, m_children, m_min_psa_ratio_children, m_status,
                       pondering>>
        /\ main = "pruning" /\ main' = "search" /\ unexamined = {}
    BY <1>6 DEF EndPruning, treeVars, nodeVars
  <2>2. Linked(m_root)' = Linked(m_root) /\ RootComplete'
    BY <1>3, <2>1
  <2>3. Linked(m_root) # {} => Active(m_root) # {}
    BY <2>1 DEF ContenderRemains, Active
  <2>4. Active(m_root)' = Active(m_root)
    BY <2>1, <2>2 DEF Active
  <2>5. QED
    BY <2>1, <2>2, <2>3, <2>4
       DEF PrunedIsRootMove, InvalidIsSuperko, ExaminesRootMoves,
           ContenderRemains, PruningLeavesContender
<1>7. CASE StopSearch \/ Drain
  <2>1. /\ UNCHANGED <<m_root, m_children, m_min_psa_ratio_children, m_status,
                       pondering>>
        /\ main \in {"search", "stopped"} /\ main' \in {"stopped", "joining"}
    BY <1>7 DEF StopSearch, Drain, treeVars, nodeVars
  <2>2. Linked(m_root)' = Linked(m_root) /\ RootComplete'
    BY <1>3, <2>1
  <2>3. QED
    BY <2>1, <2>2
       DEF PrunedIsRootMove, InvalidIsSuperko, ExaminesRootMoves,
           ContenderRemains, PruningLeavesContender
<1>8. CASE Resume
  <2>1. /\ UNCHANGED <<m_root, m_children, m_min_psa_ratio_children>>
        /\ main' = "between"
        /\ m_status' = [c \in Nodes |->
                           IF ~pondering /\ c \in Linked(m_root)
                              /\ m_status[c] = "PRUNED"
                           THEN "ACTIVE" ELSE m_status[c]]
    BY <1>8 DEF Resume
  <2>2. RootComplete'
    BY <1>3, <2>1
  <2>3. \A c \in Nodes : m_status'[c] # "PRUNED"
    BY <2>1 DEF PrunedIsRootMove
  <2>4. QED
    BY <2>1, <2>2, <2>3
       DEF PrunedIsRootMove, InvalidIsSuperko, ExaminesRootMoves,
           ContenderRemains, PruningLeavesContender
<1>9. QED
  BY <1>2, <1>4, <1>5, <1>6, <1>7, <1>8, Main DEF Main

LEMMA RootInvariant == Spec => []RootInv
<1>1. Init => RootInv
  BY DEF Init, RootInv, RootComplete, PrunedIsRootMove, InvalidIsSuperko,
         ExaminesRootMoves, ContenderRemains, PruningLeavesContender
<1>2. TypeOK /\ LockInv /\ RootInv /\ [Next]_vars => RootInv'
  <2> SUFFICES ASSUME TypeOK, LockInv, RootInv, [Next]_vars
               PROVE  RootInv'
    OBVIOUS
  <2>1. CASE UNCHANGED vars
    BY <2>1 DEF vars, treeVars, nodeVars, searchVars, RootInv, RootComplete,
                PrunedIsRootMove, InvalidIsSuperko, ExaminesRootMoves,
                ContenderRemains, PruningLeavesContender, Linked, Active,
                Children, Final
  <2>2. QED
    BY <2>1, RootMain, RootWorker DEF Next, Terminated
<1>3. QED
  BY <1>1, <1>2, TypeCorrect, LockInvariant, PTL DEF Spec

(* The comment in prune_noncontenders(): no search modifies the vector of  *)
(* the root's children, which think() walks without the lock.              *)
THEOREM RootVectorStable == Spec => RootUnmodified
<1>1. TypeOK /\ LockInv /\ RootInv /\ [Next]_vars
         => [main # "between" => \A c \in Children(m_root) :
                                   m_children'[c] = m_children[c]]_vars
  <2> SUFFICES ASSUME TypeOK, LockInv, RootInv, Next, main # "between",
                      NEW c \in Children(m_root)
               PROVE  m_children'[c] = m_children[c]
    OBVIOUS
  <2>1. CASE \E t \in Threads : Link(t)
    BY <2>1, RootLinks DEF RootInv, TypeOK, ThreadTypeOK
  <2>2. CASE ~\E t \in Threads : Link(t)
    BY <2>2
       DEF Next, Worker, Simulate, Walk, Visit, Enter, Acquire, Recheck,
           Evaluate, Cancel, ExpandDone, Descend, WaitExpanded, Select,
           Backup, CountPlayout, Again, Leave, Main, StartSearch,
           StartPruning, PruneOrKeep, EndPruning, StopSearch, Drain, Resume,
           Terminated, vars, treeVars, nodeVars
  <2>3. QED
    BY <2>1, <2>2
<1>2. QED
  BY <1>1, TypeCorrect, LockInvariant, RootInvariant, PTL
     DEF Spec, RootUnmodified

(* Whenever the polling loop of think() looks at the root, some move is    *)
(* selectable: prune_noncontenders() never prunes the last contender, in   *)
(* spite of the visits that arrive while it examines the moves.            *)
THEOREM ContenderLeft == Spec => []PruningLeavesContender
<1>1. RootInv => PruningLeavesContender
  BY DEF RootInv
<1>2. QED
  BY <1>1, RootInvariant, PTL

(* When think() or ponder() has joined its workers, every virtual loss has *)
(* been undone, also along the paths that NetworkHaltException cut short,  *)
(* and every pruned move is active again.                                  *)
THEOREM LeavesNothing == Spec => []NothingLeftBehind
<1>1. LockInv /\ LossInv /\ RootInv => NothingLeftBehind
  <2> SUFFICES ASSUME LockInv, LossInv, RootInv, main = "between",
                      NEW n \in Nodes
               PROVE  m_virtual_loss[n] = 0 /\ m_status[n] # "PRUNED"
    BY DEF NothingLeftBehind
  <2>1. Holders(n) = {}
    BY DEF LockInv, JoinedBetween, Holders, Held
  <2>2. m_virtual_loss[n] = 0
    BY <2>1, FS_EmptySet DEF LossInv, VirtualLossCounts
  <2>3. QED
    BY <2>2 DEF RootInv, PrunedIsRootMove
<1>2. QED
  BY <1>1, LockInvariant, LossInvariant, RootInvariant, PTL

-----------------------------------------------------------------------------
(***************************************************************************)
(* The counts of visits in UCTSearch balance.  While the workers are at    *)
(* it a visit may be counted at a node and not yet at the node above: some *)
(* thread on its way up owes it there.                                     *)
(***************************************************************************)

\* The visit of the simulation of t is counted below x, and not yet at x.
Owes(t, x) ==
    \/ pc[t] = "backup" /\ at[t] = x /\ result[t] /\ ~new_node[t]
    \/ /\ at[t] # m_root /\ Parent[at[t]] = x
       /\ \/ pc[t] = "linked" /\ ~had_children[t]
          \/ pc[t] = "backup" /\ new_node[t]

Debtors(x) == {t \in Threads : Owes(t, x)}
Below(x) == Visits(Children(x))

Balanced ==
    \A x \in Nodes :
        /\ IsFiniteSet(Below(x))
        /\ m_visits[x] > 0 /\ ~Final(x) =>
              m_visits[x] + Cardinality(Debtors(x))
                = 1 + Cardinality(Below(x))

\* The simulations that are complete and not yet counted as playouts.
Finished == {t \in Threads : pc[t] = "simulated" /\ result[t]}

PlayoutsCounted ==
    m_visits[m_root] = base + m_playouts + Cardinality(Finished)

\* The nodes with children are those visited, but for finished games, and
\* they hang together.
VisitedHaveChildren ==
    \A n \in Nodes :
        /\ has_children(n) => ~Final(n)
        /\ ~Final(n) => (has_children(n) <=> m_visits[n] > 0)
        /\ m_visits[n] > 0 => /\ n \in Subtree[m_root]
                              /\ n # m_root => has_children(Parent[n])

Simulating(t) == pc[t] \notin {"simulated", "counted", "left", "halted"}

\* Where a worker is, and what it has found there.
OnItsWay(t) ==
    /\ Simulating(t) /\ at[t] # m_root => has_children(Parent[at[t]])
    /\ pc[t] = "acquire" \/ Expanding(t) => ~Final(at[t])
    /\ pc[t] = "linked" => at[t] # m_root /\ has_children(at[t])
    /\ pc[t] \in {"wait", "select"} => has_children(at[t])
    /\ new_node[t] => pc[t] = "backup" /\ result[t] /\ at[t] # m_root
    /\ result[t] => pc[t] \in {"backup", "simulated"}
    /\ pc[t] = "backup" /\ result[t] /\ ~Final(at[t])
          => has_children(at[t])
WayIsExpanded == \A t \in Threads : OnItsWay(t)

\* What create_children() has seen before it takes the lock is still so
\* when it has it.
BeforeLink(t) == pc[t] \in {"recheck", "evaluate", "link"}
HadChildrenTrue ==
    \A t \in Threads :
        /\ BeforeLink(t) => had_children[t] = has_children(at[t])
        /\ pc[t] = "acquire" =>
              /\ m_expand_state[at[t]] = "INITIAL"
                    => had_children[t] = has_children(at[t])
              /\ \A u \in Threads : BeforeLink(u) /\ at[u] = at[t]
                    => had_children[t] = had_children[u]

VisitInv ==
    /\ VisitedHaveChildren
    /\ WayIsExpanded
    /\ HadChildrenTrue
    /\ Balanced
    /\ PlayoutsCounted
Structure == VisitedHaveChildren /\ WayIsExpanded /\ HadChildrenTrue

-----------------------------------------------------------------------------
(* What a step of a worker leaves alone.                                   *)

LEMMA Types ==
    ASSUME TypeOK
    PROVE  /\ m_root \in Nodes /\ Subtree[m_root] \subseteq Nodes
           /\ \A u \in Threads : at[u] \in Nodes /\ at[u] \in Subtree[m_root]
           /\ pc \in [Threads -> WorkerLabels]
           /\ at \in [Threads -> Subtree[m_root]]
           /\ result \in [Threads -> BOOLEAN]
           /\ new_node \in [Threads -> BOOLEAN]
           /\ had_children \in [Threads -> BOOLEAN]
           /\ m_visits \in [Nodes -> Nat]
           /\ m_min_psa_ratio_children \in [Nodes -> 0 .. Impossible]
           /\ m_expand_state \in [Nodes -> ExpandStates]
           /\ \A n \in Nodes : n # m_root /\ n \in Subtree[m_root] =>
                 n # Top /\ Parent[n] \in Nodes /\ n \in Children(Parent[n])
<1>1. m_root \in Nodes /\ Subtree[m_root] \subseteq Nodes
  BY SubtreeIs DEF TypeOK, ThreadTypeOK
<1>2. \A n \in Nodes : n # m_root /\ n \in Subtree[m_root] =>
         n # Top /\ Parent[n] \in Nodes /\ n \in Children(Parent[n])
  BY <1>1, SubtreeStep DEF Children
<1>3. QED
  BY <1>1, <1>2 DEF TypeOK, ThreadTypeOK, NodeTypeOK

LEMMA OnlyThread ==
    ASSUME TypeOK, NEW t \in Threads, Worker(t)
    PROVE  /\ UNCHANGED <<m_root, base, main>>
           /\ \A u \in Threads \ {t} :
                 /\ pc'[u] = pc[u] /\ at'[u] = at[u]
                 /\ result'[u] = result[u] /\ new_node'[u] = new_node[u]
                 /\ had_children'[u] = had_children[u]
<1> USE DEF Worker, Simulate, Walk, Goto, EndExpansion, nodeVars, searchVars
<1>1. UNCHANGED <<m_root, base, main>>
  BY DEF Visit, Enter, Acquire, Recheck, Evaluate, Cancel, Link, ExpandDone,
         Descend, WaitExpanded, Select, Backup, CountPlayout, Again, Leave
<1>2. ASSUME NEW u \in Threads \ {t}
      PROVE  /\ pc'[u] = pc[u] /\ at'[u] = at[u]
             /\ result'[u] = result[u] /\ new_node'[u] = new_node[u]
             /\ had_children'[u] = had_children[u]
  BY Types
     DEF Visit, Enter, Acquire, Recheck, Evaluate, Cancel, Link, ExpandDone,
         Descend, WaitExpanded, Select, Backup, CountPlayout, Again, Leave
<1>3. QED
  BY <1>1, <1>2

(* Link() at a node without children counts its first visit.               *)
LEMMA LinkIs ==
    ASSUME TypeOK, LockInv, RootInv, Structure, NEW t \in Threads, Link(t),
           NEW n, n = at[t]
    PROVE  /\ n \in Nodes /\ n # m_root /\ n # Top /\ ~Final(n)
           /\ \A x \in Nodes : has_children(x)' <=> x = n \/ has_children(x)
           /\ had_children[t] <=> has_children(n)
           /\ had_children[t] => UNCHANGED m_visits
           /\ ~had_children[t] => /\ m_visits[n] = 0
                                  /\ m_visits' = [m_visits EXCEPT ![n] = 1]
<1>1. pc[t] = "link" /\ main # "between"
  BY DEF Link, LockInv, JoinedBetween
<1>2. n \in Nodes /\ n \in Subtree[m_root] /\ ~Final(n)
  BY <1>1, Types DEF Structure, WayIsExpanded, OnItsWay, Expanding
<1>3. min_psa_ratio[t] < m_min_psa_ratio_children[n]
  BY <1>1 DEF LockInv, StillExpandable
<1>4. min_psa_ratio[t] \in 0 .. 3 /\ m_min_psa_ratio_children[n] \in 0 .. 3
  BY <1>2 DEF TypeOK, NodeTypeOK, ThreadTypeOK, Impossible
<1>5. n # m_root /\ n # Top
  BY <1>1, <1>2, <1>3, <1>4, Types DEF RootInv, RootComplete
<1>6. /\ m_min_psa_ratio_children'[n] \in {min_psa_ratio[t], 0}
      /\ \A x \in Nodes : x # n =>
            m_min_psa_ratio_children'[x] = m_min_psa_ratio_children[x]
  BY <1>2, Types DEF Link, link_nodelist
<1>7. \A x \in Nodes : has_children(x)' <=> x = n \/ has_children(x)
  BY <1>3, <1>4, <1>6 DEF has_children, Impossible
<1>8. had_children[t] <=> has_children(n)
  BY <1>1 DEF Structure, HadChildrenTrue, BeforeLink
<1>9. m_visits' = [m_visits EXCEPT ![n] =
                     IF m_visits[n] = 0 THEN 1 ELSE m_visits[n]]
  BY DEF Link
<1>10. m_visits[n] \in Nat /\ (has_children(n) <=> m_visits[n] > 0)
  BY <1>2, Types DEF Structure, VisitedHaveChildren
<1>11. had_children[t] => UNCHANGED m_visits
  BY <1>8, <1>9, <1>10, Types
<1>12. ~had_children[t] => m_visits[n] = 0
  BY <1>8, <1>10
<1>13. m_visits[n] = 0 => m_visits' = [m_visits EXCEPT ![n] = 1]
  BY <1>9
<1>14. QED
  BY <1>2, <1>5, <1>7, <1>8, <1>11, <1>12, <1>13

(* Backup() counts a visit where there is a result that is not counted.    *)
LEMMA BackupIs ==
    ASSUME TypeOK, NEW t \in Threads, Backup(t), NEW n, n = at[t]
    PROVE  /\ n \in Nodes /\ UNCHANGED m_min_psa_ratio_children
           /\ pc[t] = "backup" /\ ~new_node'[t] /\ result' = result
           /\ result[t] /\ ~new_node[t]
                => m_visits' = [m_visits EXCEPT ![n] = @ + 1]
           /\ ~result[t] \/ new_node[t] => UNCHANGED m_visits
           /\ n = m_root => pc'[t] = "simulated" /\ at'[t] = n
           /\ n # m_root => /\ pc'[t] = "backup" /\ at'[t] = Parent[n]
                            /\ n # Top /\ Parent[n] \in Nodes
<1>1. n \in Nodes /\ result[t] \in BOOLEAN /\ new_node[t] \in BOOLEAN
  BY Types
<1>2. UNCHANGED m_min_psa_ratio_children /\ pc[t] = "backup" /\ ~new_node'[t]
      /\ result' = result
  BY Types DEF Backup
<1>3. m_visits' = [m_visits EXCEPT ![n] =
                      IF result[t] /\ ~new_node[t] THEN m_visits[n] + 1
                                                   ELSE m_visits[n]]
  BY DEF Backup
<1>4. result[t] /\ ~new_node[t]
         => m_visits' = [m_visits EXCEPT ![n] = m_visits[n] + 1]
  BY <1>3
<1>5. ~result[t] \/ new_node[t] => m_visits' = [m_visits EXCEPT ![n] = m_visits[n]]
  BY <1>3
<1>6. ~result[t] \/ new_node[t] => UNCHANGED m_visits
  BY <1>5, <1>1, Types
<1>7. n = m_root => pc'[t] = "simulated" /\ at'[t] = n
  BY <1>1, Types DEF Backup, Goto
<1>8. n # m_root => /\ pc'[t] = "backup" /\ at'[t] = Parent[n]
                   /\ n # Top /\ Parent[n] \in Nodes
  BY <1>1, Types DEF Backup
<1>9. QED
  BY <1>1, <1>2, <1>4, <1>6, <1>7, <1>8

LEMMA OthersCountNothing ==
    ASSUME NEW t \in Threads, Worker(t), ~Link(t), ~Backup(t)
    PROVE  UNCHANGED <<m_visits, m_min_psa_ratio_children>>
BY DEF Worker, Simulate, Walk, Visit, Enter, Acquire, Recheck, Evaluate,
       Cancel, ExpandDone, Descend, WaitExpanded, Select, CountPlayout, Again,
       Leave, nodeVars

LEMMA VisitedWorker ==
    ASSUME TypeOK, LockInv, RootInv, Structure, NEW t \in Threads, Worker(t)
    PROVE  VisitedHaveChildren'
<1>1. UNCHANGED m_root
  BY OnlyThread
<1>2. CASE ~Link(t) /\ ~Backup(t)
  BY <1>1, <1>2, OthersCountNothing
     DEF Structure, VisitedHaveChildren, has_children
<1>3. CASE Link(t)
  <2>1. PICK n : n = at[t]
    OBVIOUS
  <2>2. /\ n \in Nodes /\ n # m_root /\ ~Final(n)
        /\ \A x \in Nodes : has_children(x)' <=> x = n \/ has_children(x)
        /\ \A x \in Nodes : x # n => m_visits'[x] = m_visits[x]
        /\ m_visits'[n] > 0
    <3>1. had_children[t] => m_visits[n] > 0
      BY <1>3, <2>1, LinkIs DEF Structure, VisitedHaveChildren
    <3>2. QED
      BY <1>3, <2>1, <3>1, LinkIs, Types
  <2>3. n \in Subtree[m_root] /\ has_children(Parent[n]) /\ Parent[n] \in Nodes
    BY <1>3, <2>1, <2>2, Types DEF Structure, WayIsExpanded, OnItsWay, Simulating, Link
  <2>4. \A x \in Nodes : x # m_root /\ x \in Subtree[m_root] => Parent[x] \in Nodes
    BY Types
  <2>5. QED
    BY <1>1, <2>2, <2>3, <2>4 DEF Structure, VisitedHaveChildren, Final, Children
<1>4. CASE Backup(t)
  <2>1. PICK n : n = at[t]
    OBVIOUS
  <2>2. /\ n \in Nodes /\ UNCHANGED m_min_psa_ratio_children
        /\ pc[t] = "backup"
        /\ \A x \in Nodes : x # n => m_visits'[x] = m_visits[x]
        /\ m_visits'[n] >= m_visits[n]
        /\ m_visits[n] \in Nat /\ m_visits'[n] \in Nat
    <3>1. CASE result[t] /\ ~new_node[t]
      BY <1>4, <2>1, <3>1, BackupIs, Types
    <3>2. CASE ~result[t] \/ new_node[t]
      BY <1>4, <2>1, <3>2, BackupIs, Types
    <3>3. QED
      BY <3>1, <3>2
  <2>3. \A x \in Nodes : has_children(x)' <=> has_children(x)
    BY <2>2 DEF has_children
  <2>4. n \in Subtree[m_root] /\ (n # m_root => has_children(Parent[n]) /\ Parent[n] \in Nodes)
    BY <2>1, <2>2, Types DEF Structure, WayIsExpanded, OnItsWay, Simulating
  <2>5. ~Final(n) => (m_visits'[n] > 0 <=> m_visits[n] > 0)
    <3>1. CASE result[t] /\ ~new_node[t]
      BY <2>1, <2>2, <3>1 DEF Structure, WayIsExpanded, OnItsWay, VisitedHaveChildren
    <3>2. CASE ~result[t] \/ new_node[t]
      BY <1>4, <2>1, <3>2, BackupIs
    <3>3. QED
      BY <3>1, <3>2
  <2>6. \A x \in Nodes : x # m_root /\ x \in Subtree[m_root] => Parent[x] \in Nodes
    BY Types
  <2>7. QED
    BY <1>1, <2>2, <2>3, <2>4, <2>5, <2>6
       DEF Structure, VisitedHaveChildren, Final, Children
<1>5. QED
  BY <1>2, <1>3, <1>4

(* Children are only added while the workers run.                          *)
LEMMA ChildrenStay ==
    ASSUME TypeOK, LockInv, RootInv, Structure, NEW t \in Threads, Worker(t),
           NEW n \in Nodes, has_children(n)
    PROVE  has_children(n)'
<1>1. CASE Link(t)
  BY <1>1, LinkIs
<1>2. CASE ~Link(t)
  BY <1>2, OthersCountNothing, BackupIs DEF has_children
<1>3. QED
  BY <1>1, <1>2

LEMMA WayWorker ==
    ASSUME TypeOK, LockInv, LossInv, RootInv, Structure, NEW t \in Threads, Worker(t)
    PROVE  WayIsExpanded'
<1>1. /\ UNCHANGED m_root
      /\ \A n \in Nodes : has_children(n) => has_children(n)'
      /\ \A n : Final(n)' = Final(n)
  BY OnlyThread, ChildrenStay DEF Final, Children
<1>2. ASSUME NEW u \in Threads \ {t}
      PROVE  OnItsWay(u)'
  <2>1. /\ pc'[u] = pc[u] /\ at'[u] = at[u] /\ result'[u] = result[u]
        /\ new_node'[u] = new_node[u] /\ at[u] \in Nodes
        /\ at[u] # m_root => Parent[at[u]] \in Nodes
    BY OnlyThread, Types
  <2>2. OnItsWay(u)
    BY DEF Structure, WayIsExpanded
  <2>3. QED
    BY <1>1, <2>1, <2>2 DEF OnItsWay, Simulating, Expanding
<1>3. PICK n : n = at[t]
  OBVIOUS
<1>4. /\ n \in Nodes /\ n \in Subtree[m_root] /\ OnItsWay(t)
      /\ pc \in [Threads -> WorkerLabels] /\ at \in [Threads -> Subtree[m_root]]
      /\ result \in [Threads -> BOOLEAN] /\ new_node \in [Threads -> BOOLEAN]
      /\ n # m_root => Parent[n] \in Nodes /\ n # Top
  BY <1>3, Types DEF Structure, WayIsExpanded
<1>5. SUFFICES OnItsWay(t)'
  BY <1>2 DEF WayIsExpanded
<1> USE DEF Goto, EndExpansion, nodeVars
<1>6. CASE Visit(t)
  <2>1. /\ pc[t] = "visit" /\ at'[t] = n /\ new_node'[t] = new_node[t]
        /\ ~new_node[t] /\ ~result[t]
        /\ \/ pc'[t] = "backup" /\ Final(n)
           \/ pc'[t] = "acquire" /\ ~Final(n) /\ result'[t] = result[t]
           \/ pc'[t] = "descend" /\ result'[t] = result[t]
    BY <1>3, <1>4, <1>6 DEF Visit, Enter, OnItsWay
  <2>2. ~Final(n) => ~result'[t]
    BY <2>1
  <2>3. result'[t] => pc'[t] = "backup"
    BY <2>1
  <2>4. n # m_root => has_children(Parent[n])'
    BY <1>1, <1>3, <1>4, <2>1 DEF OnItsWay, Simulating
  <2>5. QED
    BY <1>1, <2>1, <2>2, <2>3, <2>4 DEF OnItsWay, Simulating, Expanding
<1>7. CASE Acquire(t) \/ Recheck(t) \/ Evaluate(t)
  <2>1. /\ at'[t] = n /\ result'[t] = result[t] /\ new_node'[t] = new_node[t]
        /\ pc[t] \in {"acquire", "recheck", "evaluate"}
        /\ pc'[t] \in {"recheck", "descend", "evaluate", "link"}
    BY <1>3, <1>4, <1>7 DEF Acquire, Recheck, Evaluate
  <2>2. QED
    BY <1>1, <1>3, <1>4, <2>1 DEF OnItsWay, Simulating, Expanding
<1>8. CASE Cancel(t)
  <2>1. /\ at'[t] = n /\ result'[t] = result[t] /\ new_node'[t] = new_node[t]
        /\ pc[t] = "evaluate" /\ pc'[t] = "halted"
    BY <1>3, <1>4, <1>8 DEF Cancel
  <2>2. QED
    BY <1>1, <1>3, <1>4, <2>1 DEF OnItsWay, Simulating, Expanding
<1>9. CASE Link(t)
  <2>1. /\ at'[t] = n /\ result'[t] = result[t] /\ new_node'[t] = new_node[t]
        /\ pc[t] = "link" /\ pc'[t] = "linked"
    BY <1>3, <1>4, <1>9 DEF Link
  <2>2. n # m_root /\ has_children(n)'
    BY <1>3, <1>9, LinkIs
  <2>3. QED
    BY <1>1, <1>3, <1>4, <2>1, <2>2 DEF OnItsWay, Simulating, Expanding
<1>10. CASE ExpandDone(t)
  <2>1. /\ at'[t] = n /\ pc[t] = "linked" /\ had_children[t] \in BOOLEAN
        /\ n # m_root /\ has_children(n)
        /\ result'[t] = ~had_children[t] /\ new_node'[t] = ~had_children[t]
        /\ pc'[t] = IF had_children[t] THEN "descend" ELSE "backup"
    BY <1>3, <1>4, <1>10, Types DEF ExpandDone, OnItsWay
  <2>2. /\ pc'[t] \in {"descend", "backup"}
        /\ result'[t] => pc'[t] = "backup"
        /\ new_node'[t] => result'[t] /\ pc'[t] = "backup"
    BY <2>1
  <2>3. has_children(n)' /\ has_children(Parent[n])'
    BY <1>1, <1>3, <1>4, <2>1 DEF OnItsWay, Simulating
  <2>4. QED
    BY <1>1, <2>1, <2>2, <2>3 DEF OnItsWay, Simulating, Expanding
<1>11. CASE Descend(t) \/ WaitExpanded(t)
  <2>1. /\ at'[t] = n /\ result'[t] = result[t] /\ new_node'[t] = new_node[t]
        /\ pc[t] \in {"descend", "wait"} /\ pc'[t] \in {"wait", "select", "backup"}
        /\ pc'[t] \in {"wait", "select"} => has_children(n)
    BY <1>3, <1>4, <1>11 DEF Descend, WaitExpanded, OnItsWay
  <2>2. QED
    BY <1>1, <1>3, <1>4, <2>1 DEF OnItsWay, Simulating, Expanding
<1>12. CASE Select(t)
  <2>1. PICK c \in Active(n) :
           \/ at'[t] = n /\ pc'[t] = "backup"
           \/ at'[t] = c /\ pc'[t] = "visit"
    BY <1>3, <1>4, <1>12 DEF Select
  <2>2. /\ result'[t] = result[t] /\ new_node'[t] = new_node[t]
        /\ pc[t] = "select" /\ has_children(n) /\ Parent[c] = n
    BY <1>3, <1>4, <1>12 DEF Select, OnItsWay, Active, Linked, Children
  <2>3. QED
    BY <1>1, <1>3, <1>4, <2>1, <2>2 DEF OnItsWay, Simulating, Expanding
<1>13. CASE Backup(t)
  <2>1. pc[t] = "backup" /\ ~new_node'[t] /\ result'[t] = result[t]
    BY <1>3, <1>13, BackupIs
  <2>2. CASE n = m_root
    <3>1. pc'[t] = "simulated" /\ at'[t] = n
      BY <1>3, <1>13, <2>2, BackupIs
    <3>2. QED
      BY <2>1, <3>1 DEF OnItsWay, Simulating, Expanding
  <2>3. CASE n # m_root
    <3>1. pc'[t] = "backup" /\ at'[t] = Parent[n] /\ Parent[n] \in Nodes
      BY <1>3, <1>13, <2>3, BackupIs
    <3>2. has_children(Parent[n])
      BY <1>3, <1>4, <2>1, <2>3 DEF OnItsWay, Simulating
    <3>3. Parent[n] # m_root => has_children(Parent[Parent[n]])
                                /\ Parent[Parent[n]] \in Nodes
      <4>1. ~Final(Parent[n]) /\ m_visits[Parent[n]] > 0
        BY <3>1, <3>2 DEF Structure, VisitedHaveChildren
      <4>2. QED
        BY <3>1, <4>1, Types DEF Structure, VisitedHaveChildren
    <3>4. QED
      BY <1>1, <2>1, <3>1, <3>2, <3>3 DEF OnItsWay, Simulating, Expanding
  <2>4. QED
    BY <2>2, <2>3
<1>14. CASE CountPlayout(t)
  <2>1. /\ pc[t] = "simulated" /\ pc'[t] = "counted" /\ ~result'[t]
        /\ new_node'[t] = new_node[t]
    BY <1>4, <1>14 DEF CountPlayout
  <2>2. QED
    BY <1>4, <2>1 DEF OnItsWay, Simulating, Expanding
<1>15. CASE Again(t) \/ Leave(t)
  <2>1. /\ pc[t] = "counted" /\ pc'[t] \in {"visit", "left"}
        /\ result'[t] = result[t] /\ new_node'[t] = new_node[t]
        /\ at'[t] = m_root
    BY <1>3, <1>4, <1>15 DEF Again, Leave, LossInv, DoneAtRoot
  <2>2. QED
    BY <1>1, <1>4, <2>1 DEF OnItsWay, Simulating, Expanding
<1>16. QED
  BY <1>6, <1>7, <1>8, <1>9, <1>10, <1>11, <1>12, <1>13, <1>14, <1>15
     DEF Worker, Simulate, Walk

LEMMA HadWorker ==
    ASSUME TypeOK, LockInv, RootInv, Structure, NEW t \in Threads, Worker(t)
    PROVE  HadChildrenTrue'
<1>1. /\ pc \in [Threads -> WorkerLabels] /\ had_children \in [Threads -> BOOLEAN]
      /\ m_expand_state \in [Nodes -> ExpandStates]
      /\ \A u \in Threads : at[u] \in Nodes
      /\ \A u \in Threads \ {t} : /\ pc'[u] = pc[u] /\ at'[u] = at[u]
                                  /\ had_children'[u] = had_children[u]
  BY Types, OnlyThread
<1>2. PICK n : n = at[t]
  OBVIOUS
<1>3. n \in Nodes
  BY <1>1, <1>2
<1> USE DEF Structure, HadChildrenTrue, BeforeLink, Goto, SetState, EndExpansion
<1>4. CASE Link(t)
  <2>1. /\ pc[t] = "link" /\ pc'[t] = "linked"
        /\ UNCHANGED m_expand_state /\ m_expand_state[n] = "EXPANDING"
    BY <1>1, <1>2, <1>4 DEF Link, LockInv, HolderSeesExpanding, Expanding
  <2>2. \A x \in Nodes : x # n => (has_children(x)' <=> has_children(x))
    BY <1>2, <1>4, LinkIs
  <2>3. \A x \in Nodes : x # n => has_children(x)' = has_children(x)
    BY <2>2 DEF has_children
  <2>4. \A u \in Threads \ {t} : BeforeLink(u) => at[u] # n
    BY <1>2, <2>1 DEF LockInv, OneHolder, Expanding
  <2>5. QED
    BY <1>1, <2>1, <2>3, <2>4
<1>5. ASSUME ~Link(t)
      PROVE  \A x : has_children(x)' = has_children(x)
  <2>1. UNCHANGED m_min_psa_ratio_children
    BY <1>2, <1>5, OthersCountNothing, BackupIs
  <2>2. QED
    BY <2>1 DEF has_children
<1>6. CASE Visit(t)
  <2>1. UNCHANGED <<m_expand_state, at>> /\ ~Link(t) /\ ~BeforeLink(t)
    BY <1>6 DEF Visit, Enter, Link
  <2>2. \/ pc'[t] \in {"backup", "descend"}
        \/ pc'[t] = "acquire" /\ had_children'[t] = has_children(n)
    BY <1>1, <1>2, <1>6 DEF Visit, Enter
  <2>3. QED
    BY <1>1, <1>2, <1>5, <2>1, <2>2
<1>7. CASE Acquire(t)
  <2>1. UNCHANGED <<at, had_children>> /\ ~Link(t) /\ pc[t] = "acquire"
    BY <1>7 DEF Acquire, Link
  <2>2. CASE m_expand_state[n] = "INITIAL"
    <3>1. /\ pc'[t] = "recheck" /\ m_expand_state'[n] = "EXPANDING"
          /\ \A x \in Nodes : x # n => m_expand_state'[x] = m_expand_state[x]
      BY <1>1, <1>2, <1>3, <1>7, <2>2 DEF Acquire
    <3>2. \A u \in Threads : pc[u] = "acquire" /\ at[u] = n
                               => had_children[u] = has_children(n)
      BY <2>2
    <3>3. QED
      BY <1>1, <1>2, <1>5, <2>1, <3>1, <3>2
  <2>3. CASE m_expand_state[n] # "INITIAL"
    <3>1. pc'[t] = "descend" /\ UNCHANGED m_expand_state
      BY <1>1, <1>2, <1>7, <2>3 DEF Acquire
    <3>2. QED
      BY <1>1, <1>5, <2>1, <3>1
  <2>4. QED
    BY <2>2, <2>3
<1>8. CASE Recheck(t)
  <2>1. /\ UNCHANGED <<at, had_children>> /\ ~Link(t) /\ pc[t] = "recheck"
        /\ pc'[t] \in {"evaluate", "descend"}
        /\ \A x \in Nodes : m_expand_state'[x] \in {m_expand_state[x], "EXPANDED"}
    BY <1>1, <1>2, <1>3, <1>8 DEF Recheck, Link
  <2>2. QED
    BY <1>1, <1>5, <2>1
<1>9. CASE Evaluate(t)
  <2>1. /\ UNCHANGED <<at, had_children, m_expand_state>> /\ ~Link(t)
        /\ pc[t] = "evaluate" /\ pc'[t] = "link"
    BY <1>1, <1>9 DEF Evaluate, Link, nodeVars
  <2>2. QED
    BY <1>1, <1>5, <2>1
<1>10. CASE Cancel(t)
  <2>1. /\ UNCHANGED at /\ ~Link(t) /\ pc[t] = "evaluate" /\ pc'[t] = "halted"
        /\ \A x \in Nodes : x # n => m_expand_state'[x] = m_expand_state[x]
    BY <1>1, <1>2, <1>3, <1>10 DEF Cancel, Link
  <2>2. \A u \in Threads : pc[u] = "acquire" /\ at[u] = n
                             => had_children[u] = has_children(n)
    BY <1>2, <2>1
  <2>3. QED
    BY <1>1, <1>5, <2>1, <2>2
<1>11. CASE ExpandDone(t)
  <2>1. /\ UNCHANGED at /\ ~Link(t) /\ pc[t] = "linked"
        /\ pc'[t] \in {"descend", "backup"}
        /\ \A x \in Nodes : m_expand_state'[x] \in {m_expand_state[x], "EXPANDED"}
    BY <1>1, <1>2, <1>3, <1>11 DEF ExpandDone, Link
  <2>2. QED
    BY <1>1, <1>5, <2>1
<1>12. CASE Descend(t) \/ WaitExpanded(t) \/ Select(t) \/ Backup(t)
            \/ CountPlayout(t) \/ Again(t) \/ Leave(t)
  <2>1. /\ UNCHANGED m_expand_state /\ ~Link(t)
        /\ pc[t] \in {"descend", "wait", "select", "backup", "simulated", "counted"}
        /\ pc'[t] \in {"wait", "backup", "select", "visit", "simulated", "counted",
                       "left"}
    BY <1>1, <1>12 DEF Descend, WaitExpanded, Select, Backup, CountPlayout, Again,
                       Leave, Link, nodeVars
  <2>2. QED
    BY <1>1, <1>5, <2>1
<1>13. QED
  BY <1>4, <1>6, <1>7, <1>8, <1>9, <1>10, <1>11, <1>12
     DEF Worker, Simulate, Walk

-----------------------------------------------------------------------------
(* The balance.                                                            *)

LEMMA DebtMoves ==
    ASSUME NEW t \in Threads, NEW x,
           \A u \in Threads \ {t} : Owes(u, x)' <=> Owes(u, x)
    PROVE  /\ Cardinality(Debtors(x)) \in Nat
           /\ Cardinality(Debtors(x)')
                = Cardinality(Debtors(x)) + (IF Owes(t, x)' THEN 1 ELSE 0)
                                          - (IF Owes(t, x) THEN 1 ELSE 0)
<1> DEFINE Others == {u \in Threads \ {t} : Owes(u, x)}
<1>1. /\ Debtors(x) = IF Owes(t, x) THEN Others \cup {t} ELSE Others
      /\ Debtors(x)' = IF Owes(t, x)' THEN Others \cup {t} ELSE Others
  BY DEF Debtors
<1>2. IsFiniteSet(Others) /\ Cardinality(Others) \in Nat
  BY FS_Subset, FS_CardinalityType, TreeAssumption, Others \in SUBSET Threads
<1>3. Cardinality(Others \cup {t}) = Cardinality(Others) + 1
  BY <1>2, FS_AddElement, t \notin Others
<1> HIDE DEF Others
<1>4. CASE Owes(t, x)
  BY <1>1, <1>2, <1>3, <1>4
<1>5. CASE ~Owes(t, x)
  BY <1>1, <1>2, <1>3, <1>5
<1>6. QED
  BY <1>4, <1>5

LEMMA BelowGrows ==
    ASSUME TypeOK, NEW n \in Nodes, NEW x, IsFiniteSet(Below(x)),
           m_visits' = [m_visits EXCEPT ![n] = @ + 1]
    PROVE  /\ IsFiniteSet(Below(x)')
           /\ Cardinality(Below(x)) \in Nat
           /\ Cardinality(Below(x)')
                = Cardinality(Below(x)) + (IF n \in Children(x) THEN 1 ELSE 0)
<1> DEFINE new == <<n, m_visits[n] + 1>>
<1>1. m_visits[n] \in Nat /\ m_visits'[n] = m_visits[n] + 1
      /\ \A c \in Nodes \ {n} : m_visits'[c] = m_visits[c]
  BY Types
<1>2. Children(x) \subseteq Nodes /\ Children(x)' = Children(x)
  BY DEF Children
<1>3. 1 .. (m_visits[n] + 1) = (1 .. m_visits[n]) \cup {m_visits[n] + 1}
      /\ m_visits[n] + 1 \notin 1 .. m_visits[n]
  BY <1>1
<1>4. CASE n \in Children(x)
  <2>1. Below(x)' = Below(x) \cup {new}
    BY <1>1, <1>2, <1>3, <1>4 DEF Below, Visits
  <2>2. new \notin Below(x)
    BY <1>2, <1>3 DEF Below, Visits
  <2>3. QED
    BY <1>4, <2>1, <2>2, FS_AddElement, FS_CardinalityType
<1>5. CASE n \notin Children(x)
  <2>1. Below(x)' = Below(x)
    BY <1>1, <1>2, <1>5 DEF Below, Visits
  <2>2. QED
    BY <1>5, <2>1, FS_CardinalityType
<1>6. QED
  BY <1>4, <1>5

LEMMA BalanceKept ==
    ASSUME TypeOK, Balanced, UNCHANGED m_visits, NEW t \in Threads,
           \A u \in Threads \ {t}, x \in Nodes : Owes(u, x)' <=> Owes(u, x),
           \A x \in Nodes : ~Final(x) => (Owes(t, x)' <=> Owes(t, x))
    PROVE  Balanced'
<1> SUFFICES ASSUME NEW x \in Nodes
             PROVE  /\ IsFiniteSet(Below(x)')
                    /\ m_visits'[x] > 0 /\ ~Final(x) =>
                          m_visits'[x] + Cardinality(Debtors(x)')
                            = 1 + Cardinality(Below(x)')
  BY DEF Balanced, Final, Children
<1>1. Below(x)' = Below(x)
  BY DEF Below, Visits, Children
<1>2. ~Final(x) => Debtors(x)' = Debtors(x)
  BY DEF Debtors
<1>3. QED
  BY <1>1, <1>2 DEF Balanced

LEMMA BalanceCounts ==
    ASSUME TypeOK, Balanced, NEW t \in Threads, NEW n \in Nodes,
           m_visits' = [m_visits EXCEPT ![n] = @ + 1],
           \A u \in Threads \ {t}, x \in Nodes : Owes(u, x)' <=> Owes(u, x),
           \A x \in Nodes \ {n} : ~Final(x) /\ m_visits[x] > 0 =>
               /\ Owes(t, x)' <=> Owes(t, x) \/ n \in Children(x)
               /\ ~(Owes(t, x) /\ n \in Children(x)),
           ~Final(n) /\ m_visits[n] > 0 => Owes(t, n) /\ ~Owes(t, n)',
           ~Final(n) /\ m_visits[n] = 0 => Below(n)' = {} /\ Debtors(n)' = {}
    PROVE  Balanced'
<1> SUFFICES ASSUME NEW x \in Nodes
             PROVE  /\ IsFiniteSet(Below(x)')
                    /\ m_visits'[x] > 0 /\ ~Final(x) =>
                          m_visits'[x] + Cardinality(Debtors(x)')
                            = 1 + Cardinality(Below(x)')
  BY DEF Balanced, Final, Children
<1>1. IsFiniteSet(Below(x))
  BY DEF Balanced
<1>2. /\ IsFiniteSet(Below(x)')
      /\ Cardinality(Below(x)) \in Nat
      /\ Cardinality(Below(x)')
           = Cardinality(Below(x)) + (IF n \in Children(x) THEN 1 ELSE 0)
  BY <1>1, BelowGrows
<1>3. /\ Cardinality(Debtors(x)) \in Nat
      /\ Cardinality(Debtors(x)')
           = Cardinality(Debtors(x)) + (IF Owes(t, x)' THEN 1 ELSE 0)
                                     - (IF Owes(t, x) THEN 1 ELSE 0)
  BY DebtMoves
<1>4. m_visits[x] \in Nat /\ m_visits'[x] = IF x = n THEN m_visits[x] + 1 ELSE m_visits[x]
  BY Types
<1>5. m_visits[x] > 0 /\ ~Final(x) =>
         m_visits[x] + Cardinality(Debtors(x)) = 1 + Cardinality(Below(x))
  BY DEF Balanced
<1>6. n \notin Children(n)
  BY NoCycle, SubtreeIs DEF Children
<1>7. CASE x = n /\ m_visits[n] = 0
  <2>1. ~Final(x) => Cardinality(Below(x)') = 0 /\ Cardinality(Debtors(x)') = 0
    BY <1>7, FS_EmptySet
  <2>2. QED
    BY <1>2, <1>4, <1>7, <2>1
<1>8. CASE x = n /\ m_visits[n] > 0
  BY <1>2, <1>3, <1>4, <1>5, <1>6, <1>8
<1>9. CASE x # n
  BY <1>2, <1>3, <1>4, <1>5, <1>9
<1>10. QED
  BY <1>4, <1>7, <1>8, <1>9

(* A node without children has nothing below it, and no thread owes it     *)
(* anything.                                                               *)
LEMMA NothingBelow ==
    ASSUME TypeOK, Structure, NEW n \in Nodes, n \in Subtree[m_root], ~Final(n),
           ~has_children(n)
    PROVE  /\ \A c \in Children(n) : m_visits[c] = 0
           /\ \A u \in Threads : ~Owes(u, n)
<1>1. ASSUME NEW c \in Children(n)
      PROVE  m_visits[c] = 0
  <2>1. c \in Nodes \ {Top} /\ Parent[c] = n
    BY DEF Children
  <2>2. c # m_root
    BY <2>1, NoCycle
  <2>3. m_visits[c] \in Nat
    BY <2>1, Types
  <2>4. QED
    BY <2>1, <2>2, <2>3 DEF Structure, VisitedHaveChildren
<1>2. ASSUME NEW u \in Threads
      PROVE  ~Owes(u, n)
  BY DEF Structure, WayIsExpanded, OnItsWay, Simulating, Owes
<1>3. QED
  BY <1>1, <1>2

LEMMA OthersOwe ==
    ASSUME TypeOK, NEW t \in Threads, Worker(t)
    PROVE  \A u \in Threads \ {t}, x \in Nodes : Owes(u, x)' <=> Owes(u, x)
BY OnlyThread DEF Owes

LEMMA BalanceLink ==
    ASSUME TypeOK, LockInv, RootInv, Structure, Balanced, NEW t \in Threads,
           Worker(t), Link(t)
    PROVE  Balanced'
<1>1. PICK n : n = at[t]
  OBVIOUS
<1>2. /\ n \in Nodes /\ n # m_root /\ n # Top /\ ~Final(n)
      /\ had_children[t] \in BOOLEAN /\ had_children'[t] = had_children[t]
      /\ had_children[t] <=> has_children(n)
      /\ had_children[t] => UNCHANGED m_visits
      /\ ~had_children[t] => /\ m_visits[n] = 0
                             /\ m_visits' = [m_visits EXCEPT ![n] = 1]
  BY <1>1, LinkIs, Types DEF Link
<1>3. /\ pc[t] = "link" /\ pc'[t] = "linked" /\ at'[t] = n
      /\ UNCHANGED m_root /\ n \in Subtree[m_root]
      /\ \A u \in Threads \ {t}, x \in Nodes : Owes(u, x)' <=> Owes(u, x)
  BY <1>1, Types, OthersOwe DEF Link, Goto
<1>4. \A x \in Nodes : ~Owes(t, x)
  BY <1>3 DEF Owes
<1>5. CASE had_children[t]
  <2>1. \A x \in Nodes : ~Owes(t, x)'
    BY <1>2, <1>3, <1>5 DEF Owes
  <2>2. QED
    BY <1>2, <1>3, <1>4, <1>5, <2>1, BalanceKept
<1>6. CASE ~had_children[t]
  <2>1. m_visits[n] = 0 /\ m_visits' = [m_visits EXCEPT ![n] = m_visits[n] + 1]
    BY <1>2, <1>6
  <2>2. \A x \in Nodes : Owes(t, x)' <=> n \in Children(x)
    BY <1>2, <1>3, <1>6 DEF Owes, Children
  <2>3. n \notin Children(n)
    BY <1>2, NoCycle, SubtreeIs DEF Children
  <2>4. /\ \A c \in Children(n) : m_visits[c] = 0
        /\ \A u \in Threads : ~Owes(u, n)
    BY <1>2, <1>3, <1>6, NothingBelow
  <2>5. \A c \in Children(n)' : m_visits'[c] = 0
    BY <1>2, <2>1, <2>3, <2>4, Types DEF Children
  <2>6. Below(n)' = {}
    BY <2>5 DEF Below, Visits
  <2>7. Debtors(n)' = {}
    BY <1>2, <1>3, <2>2, <2>3, <2>4 DEF Debtors
  <2>8. ~(m_visits[n] > 0)
    BY <2>1
  <2>9. QED
    BY <1>2, <1>3, <1>4, <2>1, <2>2, <2>6, <2>7, <2>8, BalanceCounts
<1>7. QED
  BY <1>2, <1>5, <1>6

LEMMA BalanceBackup ==
    ASSUME TypeOK, Structure, Balanced, NEW t \in Threads, Worker(t), Backup(t)
    PROVE  Balanced'
<1>1. PICK n : n = at[t]
  OBVIOUS
<1>2. /\ n \in Nodes /\ pc[t] = "backup" /\ ~new_node'[t] /\ result' = result
      /\ result[t] /\ ~new_node[t]
           => m_visits' = [m_visits EXCEPT ![n] = @ + 1]
      /\ ~result[t] \/ new_node[t] => UNCHANGED m_visits
      /\ n = m_root => pc'[t] = "simulated" /\ at'[t] = n
      /\ n # m_root => /\ pc'[t] = "backup" /\ at'[t] = Parent[n]
                       /\ n # Top /\ Parent[n] \in Nodes
  BY <1>1, BackupIs
<1>3. /\ UNCHANGED m_root /\ n \in Subtree[m_root]
      /\ \A u \in Threads \ {t}, x \in Nodes : Owes(u, x)' <=> Owes(u, x)
      /\ new_node[t] => result[t] /\ n # m_root
      /\ result[t] /\ ~Final(n) => has_children(n)
  BY <1>1, <1>2, Types, OthersOwe, OnlyThread DEF Structure, WayIsExpanded, OnItsWay
<1>4. CASE ~result[t]
  <2>1. \A x \in Nodes : ~Owes(t, x) /\ ~Owes(t, x)'
    BY <1>2, <1>3, <1>4 DEF Owes
  <2>2. QED
    BY <1>2, <1>3, <1>4, <2>1, BalanceKept
<1>5. CASE result[t] /\ new_node[t]
  <2>1. \A x \in Nodes : Owes(t, x)' <=> Owes(t, x)
    BY <1>1, <1>2, <1>3, <1>5 DEF Owes
  <2>2. QED
    BY <1>2, <1>3, <1>5, <2>1, BalanceKept
<1>6. CASE result[t] /\ ~new_node[t]
  <2>1. \A x \in Nodes : Owes(t, x) <=> x = n
    BY <1>1, <1>2, <1>6 DEF Owes
  <2>2. ~Final(n) => m_visits[n] > 0
    BY <1>2, <1>3, <1>6 DEF Structure, VisitedHaveChildren
  <2>3. n \notin Children(n)
    BY <1>2, NoCycle, SubtreeIs DEF Children
  <2>4. CASE n = m_root
    <3>1. \A x \in Nodes : ~Owes(t, x)'
      BY <1>2, <2>4 DEF Owes
    <3>2. \A x \in Nodes : m_visits[x] > 0 => n \notin Children(x)
      BY <2>4, NoCycle DEF Structure, VisitedHaveChildren, Children
    <3>3. m_visits[n] \in Nat
      BY <1>2, Types
    <3>4. QED
      BY <1>2, <1>3, <1>6, <2>1, <2>2, <3>1, <3>2, <3>3, BalanceCounts
  <2>5. CASE n # m_root
    <3>1. \A x \in Nodes : Owes(t, x)' <=> n \in Children(x)
      BY <1>2, <1>6, <2>5 DEF Owes, Children
    <3>2. m_visits[n] \in Nat
      BY <1>2, Types
    <3>3. QED
      BY <1>2, <1>3, <1>6, <2>1, <2>2, <2>3, <3>1, <3>2, BalanceCounts
  <2>6. QED
    BY <2>4, <2>5
<1>7. result[t] \in BOOLEAN /\ new_node[t] \in BOOLEAN
  BY Types
<1>8. QED
  BY <1>4, <1>5, <1>6, <1>7

LEMMA BalanceWorker ==
    ASSUME TypeOK, LockInv, RootInv, Structure, Balanced, NEW t \in Threads,
           Worker(t)
    PROVE  Balanced'
<1>1. PICK n : n = at[t]
  OBVIOUS
<1>2. /\ n \in Nodes /\ OnItsWay(t) /\ UNCHANGED m_root
      /\ pc \in [Threads -> WorkerLabels] /\ at \in [Threads -> Subtree[m_root]]
      /\ result \in [Threads -> BOOLEAN] /\ new_node \in [Threads -> BOOLEAN]
      /\ had_children \in [Threads -> BOOLEAN]
      /\ \A u \in Threads \ {t}, x \in Nodes : Owes(u, x)' <=> Owes(u, x)
  BY <1>1, Types, OnlyThread, OthersOwe DEF Structure, WayIsExpanded
<1> USE DEF Goto, EndExpansion, nodeVars
<1>3. CASE Link(t)
  BY <1>3, BalanceLink
<1>4. CASE Backup(t)
  BY <1>4, BalanceBackup
<1>5. ASSUME ~Link(t), ~Backup(t),
             \A x \in Nodes : ~Final(x) => (Owes(t, x)' <=> Owes(t, x))
      PROVE  Balanced'
  BY <1>2, <1>5, OthersCountNothing, BalanceKept
<1>6. CASE Visit(t)
  <2>1. /\ pc[t] = "visit" /\ at'[t] = n /\ ~new_node[t] /\ ~new_node'[t]
        /\ \/ pc'[t] = "backup" /\ Final(n)
           \/ pc'[t] \in {"acquire", "descend"}
    BY <1>1, <1>2, <1>6 DEF Visit, Enter, OnItsWay
  <2>2. \A x \in Nodes : ~Final(x) => ~Owes(t, x)' /\ ~Owes(t, x)
    BY <2>1 DEF Owes
  <2>3. QED
    BY <1>5, <2>1, <2>2 DEF Link, Backup
<1>7. CASE ExpandDone(t)
  <2>1. /\ at'[t] = n /\ pc[t] = "linked"
        /\ result'[t] = ~had_children[t] /\ new_node'[t] = ~had_children[t]
        /\ pc'[t] = IF had_children[t] THEN "descend" ELSE "backup"
    BY <1>1, <1>2, <1>7 DEF ExpandDone
  <2>2. \A x \in Nodes : Owes(t, x)' <=> Owes(t, x)
    <3>1. CASE had_children[t]
      BY <1>2, <2>1, <3>1 DEF Owes
    <3>2. CASE ~had_children[t]
      BY <1>1, <1>2, <2>1, <3>2 DEF Owes
    <3>3. QED
      BY <3>1, <3>2
  <2>3. QED
    BY <1>5, <2>1, <2>2 DEF Link, Backup
<1>8. CASE Acquire(t) \/ Recheck(t) \/ Evaluate(t) \/ Cancel(t) \/ Descend(t)
           \/ WaitExpanded(t) \/ Select(t) \/ CountPlayout(t) \/ Again(t) \/ Leave(t)
  <2>1. /\ pc[t] \in {"acquire", "recheck", "evaluate", "descend", "wait", "select",
                      "simulated", "counted"}
        /\ pc'[t] \in {"recheck", "descend", "evaluate", "link", "halted", "wait",
                       "select", "backup", "visit", "counted", "left"}
        /\ ~new_node[t] /\ new_node'[t] = new_node[t]
        /\ pc[t] # "simulated" => ~result[t] /\ result'[t] = result[t]
        /\ pc'[t] = "backup" => pc[t] # "simulated"
    BY <1>2, <1>8 DEF Acquire, Recheck, Evaluate, Cancel, Descend, WaitExpanded,
                      Select, CountPlayout, Again, Leave, OnItsWay
  <2>2. \A x \in Nodes : ~Owes(t, x)' /\ ~Owes(t, x)
    BY <2>1 DEF Owes
  <2>3. QED
    BY <1>5, <2>1, <2>2 DEF Link, Backup
<1>9. QED
  BY <1>3, <1>4, <1>6, <1>7, <1>8 DEF Worker, Simulate, Walk

-----------------------------------------------------------------------------
(* Each visit of the root becomes one playout.                             *)

LEMMA FinishedMoves ==
    ASSUME NEW t \in Threads,
           \A u \in Threads \ {t} : pc'[u] = pc[u] /\ result'[u] = result[u]
    PROVE  LET before == pc[t] = "simulated" /\ result[t]
               after == pc'[t] = "simulated" /\ result'[t]
           IN  /\ Cardinality(Finished) \in Nat
               /\ Cardinality(Finished')
                    = Cardinality(Finished) + (IF after THEN 1 ELSE 0)
                                            - (IF before THEN 1 ELSE 0)
<1> DEFINE before == pc[t] = "simulated" /\ result[t]
           after == pc'[t] = "simulated" /\ result'[t]
           Others == {u \in Threads \ {t} : pc[u] = "simulated" /\ result[u]}
<1>1. /\ Finished = IF before THEN Others \cup {t} ELSE Others
      /\ Finished' = IF after THEN Others \cup {t} ELSE Others
  BY DEF Finished
<1>2. IsFiniteSet(Others) /\ Cardinality(Others) \in Nat
  BY FS_Subset, FS_CardinalityType, TreeAssumption, Others \in SUBSET Threads
<1>3. Cardinality(Others \cup {t}) = Cardinality(Others) + 1
  BY <1>2, FS_AddElement, t \notin Others
<1> HIDE DEF Others, before, after
<1>4. /\ Cardinality(Finished) \in Nat
      /\ Cardinality(Finished')
           = Cardinality(Finished) + (IF after THEN 1 ELSE 0)
                                   - (IF before THEN 1 ELSE 0)
  <2>1. CASE before
    BY <1>1, <1>2, <1>3, <2>1
  <2>2. CASE ~before
    BY <1>1, <1>2, <1>3, <2>2
  <2>3. QED
    BY <2>1, <2>2
<1>5. QED
  BY <1>4 DEF before, after

LEMMA PlayoutsWorker ==
    ASSUME TypeOK, LockInv, RootInv, Structure, PlayoutsCounted,
           NEW t \in Threads, Worker(t)
    PROVE  PlayoutsCounted'
<1>1. /\ UNCHANGED <<m_root, base>> /\ m_root \in Nodes
      /\ m_visits[m_root] \in Nat /\ base \in Nat /\ m_playouts \in Nat
      /\ pc \in [Threads -> WorkerLabels]
      /\ result \in [Threads -> BOOLEAN] /\ new_node \in [Threads -> BOOLEAN]
      /\ OnItsWay(t)
  BY OnlyThread, Types DEF TypeOK, MainTypeOK, Structure, WayIsExpanded
<1> DEFINE before == pc[t] = "simulated" /\ result[t]
           after == pc'[t] = "simulated" /\ result'[t]
<1>2. /\ Cardinality(Finished) \in Nat
      /\ Cardinality(Finished')
           = Cardinality(Finished) + (IF after THEN 1 ELSE 0)
                                   - (IF before THEN 1 ELSE 0)
  BY OnlyThread, FinishedMoves
<1> SUFFICES m_visits'[m_root] + (IF before THEN 1 ELSE 0)
               = m_visits[m_root] + (m_playouts' - m_playouts)
                                  + (IF after THEN 1 ELSE 0)
             /\ m_playouts' \in Nat
  <2> HIDE DEF before, after
  <2>1. m_visits'[m_root] \in Int
    <3>1. m_visits'[m_root] \in Nat
      BY <1>1, WorkerType DEF TypeOK, NodeTypeOK
    <3>2. QED
      BY <3>1
  <2>2. QED
    BY <1>1, <1>2, <2>1 DEF PlayoutsCounted
<1> USE DEF Goto, EndExpansion, nodeVars, searchVars
<1>3. CASE Backup(t)
  <2>1. PICK n : n = at[t]
    OBVIOUS
  <2>2. /\ n \in Nodes /\ pc[t] = "backup" /\ result'[t] = result[t]
        /\ result[t] /\ ~new_node[t]
             => m_visits' = [m_visits EXCEPT ![n] = @ + 1]
        /\ ~result[t] \/ new_node[t] => UNCHANGED m_visits
        /\ n = m_root => pc'[t] = "simulated"
        /\ n # m_root => pc'[t] = "backup"
    BY <1>3, <2>1, BackupIs
  <2>3. UNCHANGED m_playouts
    BY <1>3, <2>2 DEF Worker, Simulate, Backup, CountPlayout, Again, Leave
  <2>4. new_node[t] => n # m_root
    BY <1>1, <2>1 DEF OnItsWay
  <2>5. CASE result[t] /\ ~new_node[t]
    <3>1. m_visits'[m_root] = IF n = m_root THEN m_visits[m_root] + 1
                                            ELSE m_visits[m_root]
      BY <1>1, <2>2, <2>5, Types
    <3>2. ~before /\ (after <=> n = m_root)
      BY <2>2, <2>5
    <3>3. QED
      BY <1>1, <2>3, <3>1, <3>2
  <2>6. CASE ~result[t] \/ new_node[t]
    <3>1. ~before /\ ~after
      BY <2>2, <2>4, <2>6
    <3>2. QED
      BY <1>1, <2>2, <2>3, <2>6, <3>1
  <2>7. QED
    BY <1>1, <2>5, <2>6
<1>4. CASE Link(t)
  <2>1. PICK n : n = at[t]
    OBVIOUS
  <2>2. /\ pc[t] = "link" /\ pc'[t] = "linked"
        /\ m_visits'[m_root] = m_visits[m_root]
    BY <1>1, <1>4, <2>1, LinkIs, Types DEF Link
  <2>3. UNCHANGED m_playouts
    BY <2>2 DEF Worker, Simulate, CountPlayout, Again, Leave
  <2>4. QED
    BY <1>1, <2>2, <2>3
<1>5. CASE CountPlayout(t)
  <2>1. /\ pc[t] = "simulated" /\ pc'[t] = "counted" /\ UNCHANGED m_visits
        /\ m_playouts' = m_playouts + (IF result[t] THEN 1 ELSE 0)
    BY <1>1, <1>5 DEF CountPlayout
  <2>2. CASE result[t]
    BY <1>1, <2>1, <2>2
  <2>3. CASE ~result[t]
    BY <1>1, <2>1, <2>3
  <2>4. QED
    BY <2>2, <2>3
<1>6. CASE ~Backup(t) /\ ~Link(t) /\ ~CountPlayout(t)
  <2>1. UNCHANGED m_visits
    BY <1>6, OthersCountNothing
  <2>2. /\ pc[t] # "simulated" /\ pc'[t] # "simulated"
        /\ UNCHANGED m_playouts
    BY <1>1, <1>6
       DEF Worker, Simulate, Walk, Visit, Enter, Acquire, Recheck, Evaluate,
           Cancel, ExpandDone, Descend, WaitExpanded, Select, Again, Leave
  <2>3. QED
    BY <1>1, <2>1, <2>2
<1>7. QED
  BY <1>3, <1>4, <1>5, <1>6

-----------------------------------------------------------------------------
(* The next search takes the tree below its root, or nothing of it.        *)

LEMMA StartIs ==
    ASSUME TypeOK, Structure, NEW n \in Subtree[m_root], NEW keep \in BOOLEAN,
           NEW p \in Policies, PrepareRoot(n, keep, p)
    PROVE  /\ n \in Nodes /\ m_root' = n
           /\ \A x \in Nodes \ {n} :
                 /\ m_visits'[x] = IF keep /\ x \in Subtree[n]
                                   THEN m_visits[x] ELSE 0
                 /\ has_children(x)' <=> /\ keep /\ x \in Subtree[n]
                                         /\ has_children(x)
           /\ has_children(n)' <=> ~Final(n)
           /\ keep /\ m_visits[n] > 0 => m_visits'[n] = m_visits[n]
           /\ ~Final(n) /\ ~(keep /\ m_visits[n] > 0) => m_visits'[n] = 1
           /\ m_visits'[n] \in {m_visits[n], 0, 1}
<1> DEFINE kept(x) == keep /\ x \in Subtree[n]
           ratio(x) == IF kept(x) THEN m_min_psa_ratio_children[x] ELSE 3
           expand == 0 < ratio(n) /\ ~Final(n)
<1>1. n \in Nodes /\ m_root' = n /\ (kept(n) <=> keep)
  BY SubtreeIs, Types DEF PrepareRoot
<1>2. \A x \in Nodes :
         /\ m_min_psa_ratio_children'[x] = IF expand /\ x = n THEN 0 ELSE ratio(x)
         /\ m_visits'[x] = IF ~kept(x) \/ m_visits[x] = 0
                           THEN IF expand /\ x = n THEN 1 ELSE 0
                           ELSE m_visits[x]
  BY DEF PrepareRoot, Impossible
<1>3. \A x \in Nodes : m_visits[x] \in Nat
                       /\ m_min_psa_ratio_children[x] \in 0 .. 3
  BY Types DEF Impossible
<1>4. \A x \in Nodes : /\ has_children(x) => ~Final(x)
                       /\ ~Final(x) => (has_children(x) <=> m_visits[x] > 0)
  BY DEF Structure, VisitedHaveChildren
<1> HIDE DEF kept
<1>5. ASSUME NEW x \in Nodes \ {n}
      PROVE  /\ m_visits'[x] = IF kept(x) THEN m_visits[x] ELSE 0
             /\ has_children(x)' <=> kept(x) /\ has_children(x)
  BY <1>2, <1>3 DEF has_children, Impossible
<1>6. ~expand => Final(n) \/ (kept(n) /\ m_min_psa_ratio_children[n] = 0)
  BY <1>1, <1>3
<1>7. has_children(n)' <=> ~Final(n)
  <2>1. CASE Final(n)
    <3>1. ~has_children(n)
      BY <1>1, <1>4, <2>1
    <3>2. QED
      BY <1>1, <1>2, <1>3, <2>1, <3>1 DEF has_children, Impossible
  <2>2. CASE ~Final(n)
    BY <1>1, <1>2, <1>3, <1>6, <2>2 DEF has_children, Impossible
  <2>3. QED
    BY <2>1, <2>2
<1>8. keep /\ m_visits[n] > 0 => m_visits'[n] = m_visits[n]
  BY <1>1, <1>2, <1>3
<1>9. ~Final(n) /\ ~(keep /\ m_visits[n] > 0) => expand
  BY <1>1, <1>3, <1>4, <1>6 DEF has_children, Impossible
<1>10. ~Final(n) /\ ~(keep /\ m_visits[n] > 0) => m_visits'[n] = 1
  BY <1>1, <1>2, <1>3, <1>9
<1>11. m_visits'[n] \in {m_visits[n], 0, 1}
  BY <1>1, <1>2
<1>12. QED
  BY <1>1, <1>5, <1>7, <1>8, <1>10, <1>11 DEF kept

LEMMA StructureStart ==
    ASSUME TypeOK, Structure, StartSearch
    PROVE  Structure'
<1>1. PICK n \in Subtree[m_root], keep \in BOOLEAN, p \in Policies :
         /\ PrepareRoot(n, keep, p)
         /\ at' = [t \in Threads |-> n]
  BY DEF StartSearch
<1>2. /\ n \in Nodes /\ m_root' = n
      /\ \A x \in Nodes \ {n} :
            /\ m_visits'[x] = IF keep /\ x \in Subtree[n]
                              THEN m_visits[x] ELSE 0
            /\ has_children(x)' <=> /\ keep /\ x \in Subtree[n]
                                    /\ has_children(x)
      /\ has_children(n)' <=> ~Final(n)
      /\ keep /\ m_visits[n] > 0 => m_visits'[n] = m_visits[n]
      /\ ~Final(n) /\ ~(keep /\ m_visits[n] > 0) => m_visits'[n] = 1
  BY <1>1, StartIs
<1>3. \A t \in Threads : pc'[t] = "visit" /\ at'[t] = n /\ ~result'[t]
                         /\ ~new_node'[t]
  BY <1>1 DEF StartSearch
<1>4. VisitedHaveChildren'
  <2>1. ASSUME NEW x \in Nodes
        PROVE  /\ has_children(x)' => ~Final(x)
               /\ ~Final(x) => (has_children(x)' <=> m_visits'[x] > 0)
    <3>1. CASE x = n
      BY <1>2, <3>1, Types
    <3>2. CASE x # n
      BY <1>2, <3>2 DEF Structure, VisitedHaveChildren
    <3>3. QED
      BY <3>1, <3>2
  <2>2. ASSUME NEW x \in Nodes, m_visits'[x] > 0
        PROVE  x \in Subtree[n] /\ (x # n => has_children(Parent[x])')
    <3>1. CASE x = n
      BY <1>2, <3>1, SubtreeIs
    <3>2. CASE x # n
      <4>1. keep /\ x \in Subtree[n] /\ m_visits[x] > 0
        BY <1>2, <2>2, <3>2
      <4>2. /\ x # Top /\ Parent[x] \in Subtree[n] /\ Parent[x] \in Nodes
            /\ x \in Children(Parent[x])
        BY <1>2, <3>2, <4>1, SubtreeIs, SubtreeStep DEF Children
      <4>3. x # m_root
        BY <1>1, <1>2, <3>2, <4>1, Types, SubtreeAntisymmetric
      <4>4. has_children(Parent[x])
        BY <4>1, <4>3 DEF Structure, VisitedHaveChildren
      <4>5. Parent[x] = n => ~Final(n)
        BY <4>2 DEF Final
      <4>6. QED
        BY <1>2, <4>1, <4>2, <4>4, <4>5
    <3>3. QED
      BY <3>1, <3>2
  <2>3. QED
    BY <1>2, <2>1, <2>2 DEF VisitedHaveChildren, Final, Children
<1>5. WayIsExpanded' /\ HadChildrenTrue'
  BY <1>2, <1>3
     DEF WayIsExpanded, OnItsWay, Simulating, Expanding, HadChildrenTrue,
         BeforeLink
<1>6. QED
  BY <1>4, <1>5 DEF Structure

LEMMA BalanceStart ==
    ASSUME TypeOK, LockInv, Structure, Balanced, StartSearch
    PROVE  Balanced' /\ PlayoutsCounted'
<1>1. PICK n \in Subtree[m_root], keep \in BOOLEAN, p \in Policies :
         /\ PrepareRoot(n, keep, p)
         /\ base' = m_visits'[n]
         /\ at' = [t \in Threads |-> n]
  BY DEF StartSearch
<1>2. /\ n \in Nodes /\ m_root' = n
      /\ \A x \in Nodes \ {n} :
            m_visits'[x] = IF keep /\ x \in Subtree[n] THEN m_visits[x] ELSE 0
      /\ keep /\ m_visits[n] > 0 => m_visits'[n] = m_visits[n]
      /\ ~Final(n) /\ ~(keep /\ m_visits[n] > 0) => m_visits'[n] = 1
      /\ m_visits'[n] \in {m_visits[n], 0, 1}
  BY <1>1, StartIs
<1>3. \A t \in Threads : pc[t] \in {"left", "halted"} /\ pc'[t] = "visit"
  BY DEF StartSearch, LockInv, JoinedBetween
<1>4. \A x \in Nodes : Debtors(x) = {} /\ Debtors(x)' = {}
  BY <1>3 DEF Debtors, Owes
<1>5. \A x \in Nodes : m_visits[x] \in Nat
  BY Types
<1>6. ASSUME NEW x \in Nodes
      PROVE  IsFiniteSet(Below(x)')
  <2>1. IsFiniteSet(Below(x) \cup {<<n, 1>>})
    BY FS_AddElement DEF Balanced
  <2>2. Below(x)' \subseteq Below(x) \cup {<<n, 1>>}
    <3> SUFFICES ASSUME NEW c \in Children(x), NEW i \in 1 .. m_visits'[c]
                 PROVE  <<c, i>> \in Below(x) \cup {<<n, 1>>}
      BY DEF Below, Visits, Children
    <3>1. c \in Nodes
      BY DEF Children
    <3>2. m_visits'[c] = m_visits[c] \/ m_visits'[c] = 0
             \/ (c = n /\ m_visits'[c] = 1)
      BY <1>2, <3>1
    <3>3. QED
      BY <3>2 DEF Below, Visits
  <2>3. QED
    BY <2>1, <2>2, FS_Subset
<1>7. ASSUME NEW x \in Nodes, m_visits'[x] > 0, ~Final(x)
      PROVE  m_visits'[x] = 1 + Cardinality(Below(x)')
  <2>1. \A c \in Children(x) : c \in Nodes \ {Top} /\ Parent[c] = x
    BY DEF Children
  <2>2. CASE keep /\ x \in Subtree[n] /\ m_visits[x] > 0
    <3>1. m_visits'[x] = m_visits[x]
      BY <1>2, <2>2
    <3>2. \A c \in Children(x) : c \in Subtree[n] /\ c # n
      BY <1>2, <2>1, <2>2, SubtreeChild, NoCycle
    <3>3. \A c \in Children(x) : m_visits'[c] = m_visits[c]
      BY <1>2, <2>1, <2>2, <3>2
    <3>4. Below(x)' = Below(x)
      BY <3>3 DEF Below, Visits, Children
    <3>5. /\ m_visits[x] + Cardinality(Debtors(x)) = 1 + Cardinality(Below(x))
          /\ Cardinality(Debtors(x)) = 0
      BY <1>4, <1>7, <2>2, FS_EmptySet DEF Balanced
    <3>6. QED
      BY <1>5, <3>1, <3>4, <3>5
  <2>3. CASE ~(keep /\ x \in Subtree[n] /\ m_visits[x] > 0)
    <3>1. x = n
      BY <1>2, <1>5, <1>7, <2>3
    <3>2. n \in Subtree[n]
      BY <1>2, SubtreeIs
    <3>3. m_visits'[x] = 1
      BY <1>2, <1>7, <2>3, <3>1, <3>2
    <3>4. \A c \in Children(n) : c # n
      BY <1>2, <2>1, <3>1, NoCycle, SubtreeIs
    <3>5. \A c \in Children(n) : m_visits'[c] = 0
      <4>1. CASE ~keep
        BY <1>2, <2>1, <3>1, <3>4, <4>1
      <4>2. CASE keep
        <5>1. ~has_children(n)
          BY <1>5, <1>7, <2>3, <3>1, <3>2, <4>2 DEF Structure, VisitedHaveChildren
        <5>2. \A c \in Children(n) : m_visits[c] = 0
          BY <1>2, <1>7, <3>1, <5>1, NothingBelow
        <5>3. QED
          BY <1>2, <2>1, <3>1, <3>4, <5>2
      <4>3. QED
        BY <4>1, <4>2
    <3>6. Below(x)' = {}
      BY <3>1, <3>5 DEF Below, Visits, Children
    <3>7. QED
      BY <3>3, <3>6, FS_EmptySet
  <2>4. QED
    BY <2>2, <2>3
<1>8. Balanced'
  <2>1. ASSUME NEW x \in Nodes, m_visits'[x] > 0, ~Final(x)
        PROVE  m_visits'[x] + Cardinality(Debtors(x)')
                 = 1 + Cardinality(Below(x)')
    <3>1. Cardinality(Debtors(x)') = 0 /\ Cardinality(Below(x)') \in Nat
      BY <1>4, <1>6, FS_EmptySet, FS_CardinalityType
    <3>2. QED
      BY <1>7, <2>1, <3>1
  <2>2. QED
    BY <1>6, <2>1 DEF Balanced, Final, Children
<1>9. PlayoutsCounted'
  <2>1. Finished' = {} /\ m_playouts' = 0
    BY <1>3 DEF Finished, StartSearch
  <2>2. QED
    BY <1>1, <1>2, <1>5, <2>1, FS_EmptySet DEF PlayoutsCounted
<1>10. QED
  BY <1>8, <1>9

LEMMA VisitMain ==
    ASSUME TypeOK, LockInv, VisitInv, Main
    PROVE  VisitInv'
<1>1. CASE StartSearch
  BY <1>1, StructureStart, BalanceStart DEF VisitInv, Structure
<1>2. CASE ~StartSearch
  <2>1. UNCHANGED <<m_expand_state, m_min_psa_ratio_children, m_visits, m_root,
                    threadVars, m_playouts, base>>
    BY <1>2 DEF Main, StartPruning, PruneOrKeep, EndPruning, StopSearch, Drain,
                Resume, treeVars, nodeVars
  <2>2. Structure'
    BY <2>1 DEF threadVars, VisitInv, Structure, VisitedHaveChildren,
                WayIsExpanded, OnItsWay, Simulating, Expanding,
                HadChildrenTrue, BeforeLink, has_children, Final, Children
  <2>3. Balanced'
    <3>1. \A x \in Nodes : Below(x)' = Below(x) /\ Debtors(x)' = Debtors(x)
      BY <2>1 DEF threadVars, Below, Visits, Debtors, Owes, Children
    <3>2. QED
      BY <2>1, <3>1 DEF VisitInv, Balanced, Final, Children
  <2>4. PlayoutsCounted'
    BY <2>1 DEF threadVars, VisitInv, PlayoutsCounted, Finished
  <2>5. QED
    BY <2>2, <2>3, <2>4 DEF VisitInv, Structure
<1>3. QED
  BY <1>1, <1>2

LEMMA VisitInvariant == Spec => []VisitInv
<1>1. Init => VisitInv
  <2> SUFFICES ASSUME Init
               PROVE  VisitInv
    OBVIOUS
  <2>1. /\ m_root = Top /\ m_playouts = 0 /\ base = 0
        /\ \A x \in Nodes : /\ m_visits[x] = 0 /\ ~has_children(x)
        /\ \A t \in Threads : pc[t] = "left" /\ ~result[t] /\ ~new_node[t]
    BY DEF Init, has_children, Impossible
  <2>2. Finished = {} /\ \A x \in Nodes : Below(x) = {}
    BY <2>1 DEF Finished, Below, Visits, Children
  <2>3. Balanced
    BY <2>1, <2>2, FS_EmptySet DEF Balanced
  <2>4. PlayoutsCounted
    BY <2>1, <2>2, FS_EmptySet, TreeAssumption DEF PlayoutsCounted
  <2>5. VisitedHaveChildren /\ WayIsExpanded /\ HadChildrenTrue
    BY <2>1 DEF VisitedHaveChildren, WayIsExpanded, OnItsWay, Simulating,
                Expanding, HadChildrenTrue, BeforeLink
  <2>6. QED
    BY <2>3, <2>4, <2>5 DEF VisitInv
<1>2. TypeOK /\ LockInv /\ LossInv /\ RootInv /\ VisitInv /\ [Next]_vars
         => VisitInv'
  <2> SUFFICES ASSUME TypeOK, LockInv, LossInv, RootInv, VisitInv, [Next]_vars
               PROVE  VisitInv'
    OBVIOUS
  <2>1. CASE UNCHANGED vars
    BY <2>1
       DEF vars, treeVars, nodeVars, threadVars, searchVars, VisitInv,
           VisitedHaveChildren, WayIsExpanded, OnItsWay, Simulating, Expanding,
           HadChildrenTrue, BeforeLink, Balanced, Below, Visits, Debtors, Owes,
           PlayoutsCounted, Finished, has_children, Final, Children
  <2>2. ASSUME NEW t \in Threads, Worker(t)
        PROVE  VisitInv'
    <3>1. Structure /\ Balanced /\ PlayoutsCounted
      BY DEF VisitInv, Structure
    <3>2. VisitedHaveChildren' /\ WayIsExpanded' /\ HadChildrenTrue'
      BY <2>2, <3>1, VisitedWorker, WayWorker, HadWorker
    <3>3. Balanced' /\ PlayoutsCounted'
      BY <2>2, <3>1, BalanceWorker, PlayoutsWorker
    <3>4. QED
      BY <3>2, <3>3 DEF VisitInv
  <2>3. QED
    BY <2>1, <2>2, VisitMain DEF Next, Terminated
<1>3. QED
  BY <1>1, <1>2, TypeCorrect, LockInvariant, LossInvariant, RootInvariant, PTL
     DEF Spec

(* Between searches the counts agree: every visit that update() and        *)
(* create_children() have counted at a node below the root is in the count *)
(* of the node above, which has one more for its own expansion, and think()*)
(* has counted each visit of the root in m_playouts, also where            *)
(* NetworkHaltException ended simulations half way.                        *)
THEOREM VisitsBalance == Spec => []VisitsConserved
<1>1. TypeOK /\ LockInv /\ VisitInv => VisitsConserved
  <2> SUFFICES ASSUME TypeOK, LockInv, VisitInv, main = "between"
               PROVE  /\ m_visits[m_root] = base + m_playouts
                      /\ \A n \in Subtree[m_root] :
                            m_visits[n] > 0 /\ ~Final(n) =>
                               m_visits[n] = 1 + Cardinality(Visits(Children(n)))
    BY DEF VisitsConserved
  <2>1. \A t \in Threads : pc[t] \in {"left", "halted"}
    BY DEF LockInv, JoinedBetween
  <2>2. m_visits[m_root] = base + m_playouts
    <3>1. Cardinality(Finished) = 0
      BY <2>1, FS_EmptySet DEF Finished
    <3>2. QED
      BY <3>1 DEF VisitInv, PlayoutsCounted, TypeOK, MainTypeOK
  <2>3. ASSUME NEW n \in Subtree[m_root], m_visits[n] > 0, ~Final(n)
        PROVE  m_visits[n] = 1 + Cardinality(Visits(Children(n)))
    <3>1. n \in Nodes /\ m_visits[n] \in Nat
      BY Types
    <3>2. Cardinality(Debtors(n)) = 0
      BY <2>1, FS_EmptySet DEF Debtors, Owes
    <3>3. QED
      BY <2>3, <3>1, <3>2 DEF VisitInv, Balanced, Below
  <2>4. QED
    BY <2>2, <2>3
<1>2. QED
  BY <1>1, TypeCorrect, LockInvariant, VisitInvariant, PTL

=============================================================================
