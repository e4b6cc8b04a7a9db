------------------------------ MODULE UCTNode ------------------------------
(***************************************************************************)
(* The search tree under the threads that walk it: UCTNode's expansion     *)
(* protocol (src/src/UCTNode.cpp) and the walk itself,                     *)
(* UCTSearch::play_simulation() (src/src/UCTSearch.cpp).                   *)
(*                                                                         *)
(* m_expand_state is the lock of m_children.  A node gets its children in  *)
(* full when memory allows, or only those whose policy is large enough;    *)
(* in the second case a later search may complete it.  Policies and the    *)
(* thresholds 0, 0.001, 0.01 and 2.0 of get_min_psa_ratio() are levels     *)
(* 0..3: a child of level k passes threshold r when k >= r.                *)
(*                                                                         *)
(* Positions are the nodes of a constant tree.  Which active child a       *)
(* simulation selects depends on evaluations and is left open.             *)
(*                                                                         *)
(* A definition under a comment "Fault" is the next one with a bug in it,  *)
(* to check that a property notices.                                       *)
(***************************************************************************)
EXTENDS Naturals, FiniteSets

CONSTANTS Nodes,      \* positions
          Top,        \* the position the game starts from
          Parent,     \* the position before, [Nodes \ {Top} -> Nodes]
          Superko,    \* positions whose last move repeats an earlier one
          Threads,    \* UCTWorkers
          Ratios,     \* the thresholds memory use may call for
          Policies,   \* what the network may answer, [Nodes -> 0 .. 2] each
          Drains      \* may an evaluation be halted?  (not on the CPU)

Impossible == 3     \* the ratio 2.0: no children have been made

\* The positions that can be reached from n, n included: every set that
\* contains n and is closed under moves contains them.
ClosedUnderMoves(S) == \A c \in Nodes \ {Top} : Parent[c] \in S => c \in S
Subtree ==
    [n \in Nodes |-> {x \in Nodes : \A S \in SUBSET Nodes :
                         n \in S /\ ClosedUnderMoves(S) => x \in S}]

ASSUME TreeAssumption ==
    /\ Top \in Nodes
    /\ Parent \in [Nodes \ {Top} -> Nodes]
    /\ Subtree[Top] = Nodes
    /\ IsFiniteSet(Threads)
    /\ Superko \subseteq Nodes \ {Top}
    /\ Ratios \subseteq 0 .. Impossible
    /\ Policies \subseteq [Nodes -> 0 .. 2]
    /\ Drains \in BOOLEAN

VARIABLES
    m_expand_state,
    m_min_psa_ratio_children,
    m_children,        \* how often a node is in its parent's vector
    m_visits,
    m_virtual_loss,
    m_status,
    m_root,
    m_draining,        \* evaluations throw NetworkHaltException
    pc,                \* where each thread is in play_simulation()
    at,                \* the node it is at
    min_psa_ratio,     \* the threshold it gave to create_children()
    had_children,
    policy,            \* the evaluation it is linking
    result,            \* is the SearchResult valid?
    new_node

nodeVars == <<m_expand_state, m_min_psa_ratio_children, m_children,
              m_visits, m_virtual_loss, m_status>>
threadVars == <<pc, at, min_psa_ratio, had_children, policy, result,
                new_node>>
treeVars == <<nodeVars, m_root, m_draining, threadVars>>

VIRTUAL_LOSS_COUNT == 3

NoPolicy == [n \in Nodes |-> 0]

Children(n) == {c \in Nodes \ {Top} : Parent[c] = n}

\* Two passes end the game.
Final(n) == Children(n) = {}

expandable(n, ratio) == ratio < m_min_psa_ratio_children[n]
has_children(n) == m_min_psa_ratio_children[n] < Impossible
Linked(n) == {c \in Children(n) : m_children[c] > 0}
Active(n) == {c \in Linked(n) : m_status[c] = "ACTIVE"}

\* The nodes from the root down to n.
Path(n) == {x \in Subtree[m_root] : n \in Subtree[x]}

-----------------------------------------------------------------------------
(* UCTNode's own operations.                                               *)

\* link_nodelist() for old threshold old: the children between the two.
\* Their policies are those of this evaluation: under another symmetry than
\* the last one's, a child may be between neither pair of thresholds, or
\* between both (it is then two nodes, which m_children counts in one place).
link_nodelist(n, p, ratio) ==
    LET old == m_min_psa_ratio_children[n]
    IN  /\ m_children' =
              [c \in Nodes |->
                 IF c \in Children(n) /\ ratio <= p[c] /\ p[c] < old
                 THEN m_children[c] + 1 ELSE m_children[c]]
        /\ m_min_psa_ratio_children' =
              [m_min_psa_ratio_children EXCEPT ![n] =
                 IF \E c \in Children(n) : p[c] < ratio THEN ratio ELSE 0]

SetState(n, s) == m_expand_state' = [m_expand_state EXCEPT ![n] = s]

-----------------------------------------------------------------------------
(* play_simulation(), by thread t at node at[t].                           *)

Goto(t, label) == pc' = [pc EXCEPT ![t] = label]

\* The locals of the expansion go out of scope.
EndExpansion(t) ==
    /\ had_children' = [had_children EXCEPT ![t] = FALSE]
    /\ min_psa_ratio' = [min_psa_ratio EXCEPT ![t] = 0]
    /\ policy' = [policy EXCEPT ![t] = NoPolicy]

\* The choice between scoring, expanding and descending.
Enter(t) ==
    LET n == at[t] IN
    /\ pc[t] = "visit"
    /\ \/ /\ expandable(n, 0)
          /\ Final(n)
          /\ result' = [result EXCEPT ![t] = TRUE]
          /\ Goto(t, "backup")
          /\ UNCHANGED <<had_children, min_psa_ratio>>
       \/ /\ expandable(n, 0)
          /\ ~Final(n)
          /\ had_children' = [had_children EXCEPT ![t] = has_children(n)]
          /\ \E r \in Ratios :
                min_psa_ratio' = [min_psa_ratio EXCEPT ![t] = r]
          /\ Goto(t, "acquire")
          /\ UNCHANGED result
       \/ /\ ~expandable(n, 0)
          /\ Goto(t, "descend")
          /\ UNCHANGED <<had_children, min_psa_ratio, result>>
    /\ UNCHANGED <<m_expand_state, m_min_psa_ratio_children, m_children,
                   m_visits, m_status, m_root, m_draining, at, policy,
                   new_node>>

\* play_simulation() down to its first decision.
Visit(t) ==
    /\ Enter(t)
    /\ m_virtual_loss' =
          [m_virtual_loss EXCEPT ![at[t]] = @ + VIRTUAL_LOSS_COUNT]

\* Fault: the state is stored without comparing.
Acquire_NoCompare(t) ==
    /\ pc[t] = "acquire"
    /\ SetState(at[t], "EXPANDING")
    /\ Goto(t, "recheck")
    /\ UNCHANGED <<m_min_psa_ratio_children, m_children, m_visits,
                   m_virtual_loss, m_status, m_root, m_draining, at,
                   min_psa_ratio, had_children, policy, result, new_node>>

\* acquire_expanding()
Acquire(t) ==
    LET n == at[t] IN
    /\ pc[t] = "acquire"
    /\ IF m_expand_state[n] = "INITIAL"
       THEN SetState(n, "EXPANDING") /\ Goto(t, "recheck")
       ELSE Goto(t, "descend") /\ UNCHANGED m_expand_state
    /\ UNCHANGED <<m_min_psa_ratio_children, m_children, m_visits,
                   m_virtual_loss, m_status, m_root, m_draining, at,
                   min_psa_ratio, had_children, policy, result, new_node>>

\* Fault: the lock is enough to expand.
Recheck_NotDone(t) ==
    /\ pc[t] = "recheck"
    /\ Goto(t, "evaluate")
    /\ UNCHANGED <<nodeVars, m_root, m_draining, at, min_psa_ratio,
                   had_children, policy, result, new_node>>

\* "can we actually expand?"
Recheck(t) ==
    LET n == at[t] IN
    /\ pc[t] = "recheck"
    /\ IF expandable(n, min_psa_ratio[t])
       THEN Goto(t, "evaluate") /\ UNCHANGED m_expand_state
       ELSE SetState(n, "EXPANDED") /\ Goto(t, "descend")
    /\ UNCHANGED <<m_min_psa_ratio_children, m_children, m_visits,
                   m_virtual_loss, m_status, m_root, m_draining, at,
                   min_psa_ratio, had_children, policy, result, new_node>>

\* get_output() returns: a result of the queue, or of the cache, which also
\* answers while evaluations are halted; under a random symmetry, so that a
\* position need not get the policies it got before.
Evaluate(t) ==
    /\ pc[t] = "evaluate"
    /\ \E p \in Policies : policy' = [policy EXCEPT ![t] = p]
    /\ Goto(t, "link")
    /\ UNCHANGED <<nodeVars, m_root, m_draining, at, min_psa_ratio,
                   had_children, result, new_node>>

\* Fault: the exception skips expand_cancel().
Cancel_NotReleased(t) ==
    /\ pc[t] = "evaluate"
    /\ m_draining
    /\ m_virtual_loss' =
          [x \in Nodes |-> IF x \in Path(at[t])
                           THEN m_virtual_loss[x] - VIRTUAL_LOSS_COUNT
                           ELSE m_virtual_loss[x]]
    /\ Goto(t, "halted")
    /\ EndExpansion(t)
    /\ UNCHANGED <<m_expand_state, m_min_psa_ratio_children, m_children,
                   m_visits, m_status, m_root, m_draining, at, result, new_node>>

\* Fault: the exception undoes the virtual loss of the last node only.
Cancel_PathForgotten(t) ==
    /\ pc[t] = "evaluate"
    /\ m_draining
    /\ SetState(at[t], "INITIAL")
    /\ m_virtual_loss' =
          [m_virtual_loss EXCEPT ![at[t]] = @ - VIRTUAL_LOSS_COUNT]
    /\ Goto(t, "halted")
    /\ EndExpansion(t)
    /\ UNCHANGED <<m_min_psa_ratio_children, m_children, m_visits, m_status,
                   m_root, m_draining, at, result, new_node>>

\* get_output() throws: expand_cancel(), and the exception leaves every
\* play_simulation() on the path, which undoes its virtual loss.
Cancel(t) ==
    LET n == at[t] IN
    /\ pc[t] = "evaluate"
    /\ m_draining
    /\ SetState(n, "INITIAL")
    /\ m_virtual_loss' =
          [x \in Nodes |-> IF x \in Path(n)
                           THEN m_virtual_loss[x] - VIRTUAL_LOSS_COUNT
                           ELSE m_virtual_loss[x]]
    /\ Goto(t, "halted")
    /\ EndExpansion(t)
    /\ UNCHANGED <<m_min_psa_ratio_children, m_children, m_visits, m_status,
                   m_root, m_draining, at, result, new_node>>

\* link_nodelist() and the first visit.
Link(t) ==
    LET n == at[t] IN
    /\ pc[t] = "link"
    /\ link_nodelist(n, policy[t], min_psa_ratio[t])
    /\ m_visits' = [m_visits EXCEPT ![n] = IF @ = 0 THEN 1 ELSE @]
    /\ Goto(t, "linked")
    /\ UNCHANGED <<m_expand_state, m_virtual_loss, m_status, m_root,
                   m_draining, at, min_psa_ratio, had_children, policy,
                   result, new_node>>

\* expand_done(); the evaluation is the result of a node that is new.
ExpandDone(t) ==
    LET n == at[t] IN
    /\ pc[t] = "linked"
    /\ SetState(n, "EXPANDED")
    /\ result' = [result EXCEPT ![t] = ~had_children[t]]
    /\ new_node' = [new_node EXCEPT ![t] = ~had_children[t]]
    /\ Goto(t, IF had_children[t] THEN "descend" ELSE "backup")
    /\ EndExpansion(t)
    /\ UNCHANGED <<m_min_psa_ratio_children, m_children, m_visits,
                   m_virtual_loss, m_status, m_root, m_draining, at>>

\* A node that is being expanded for the first time yields no result.
Descend(t) ==
    /\ pc[t] = "descend"
    /\ Goto(t, IF has_children(at[t]) THEN "wait" ELSE "backup")
    /\ EndExpansion(t)
    /\ UNCHANGED <<nodeVars, m_root, m_draining, at, result,
                   new_node>>

\* The loop of wait_expanded() ends.
WaitExpanded(t) ==
    /\ pc[t] = "wait"
    /\ m_expand_state[at[t]] # "EXPANDING"
    /\ Goto(t, "select")
    /\ UNCHANGED <<nodeVars, m_root, m_draining, at, min_psa_ratio,
                   had_children, policy, result, new_node>>

\* The rest of uct_select_child(), which reads m_children, and the move: a
\* superko move is invalidated and the simulation has no result.
Select(t) ==
    /\ pc[t] = "select"
    /\ \E c \in Active(at[t]) :
          IF c \in Superko
          THEN /\ m_status' = [m_status EXCEPT ![c] = "INVALID"]
               /\ Goto(t, "backup")
               /\ UNCHANGED at
          ELSE /\ at' = [at EXCEPT ![t] = c]
               /\ Goto(t, "visit")
               /\ UNCHANGED m_status
    /\ UNCHANGED <<m_expand_state, m_min_psa_ratio_children, m_children,
                   m_visits, m_virtual_loss, m_root, m_draining,
                   min_psa_ratio, had_children, policy, result, new_node>>

\* Fault: a new node is counted by its parent's simulation once more.
Backup_CountedTwice(t) ==
    LET n == at[t] IN
    /\ pc[t] = "backup"
    /\ m_visits' = [m_visits EXCEPT ![n] = IF result[t] THEN @ + 1 ELSE @]
    /\ m_virtual_loss' =
          [m_virtual_loss EXCEPT ![n] = @ - VIRTUAL_LOSS_COUNT]
    /\ new_node' = [new_node EXCEPT ![t] = FALSE]
    /\ IF n = m_root THEN Goto(t, "simulated") /\ UNCHANGED at
                     ELSE at' = [at EXCEPT ![t] = Parent[n]]
                          /\ UNCHANGED pc
    /\ UNCHANGED <<m_expand_state, m_min_psa_ratio_children, m_children,
                   m_status, m_root, m_draining, min_psa_ratio,
                   had_children, policy, result>>

\* The end of play_simulation() at one node: update() if there is a result
\* and create_children() has not counted it, and the scope exit.
Backup(t) ==
    LET n == at[t] IN
    /\ pc[t] = "backup"
    /\ m_visits' = [m_visits EXCEPT ![n] =
                      IF result[t] /\ ~new_node[t] THEN @ + 1 ELSE @]
    /\ m_virtual_loss' =
          [m_virtual_loss EXCEPT ![n] = @ - VIRTUAL_LOSS_COUNT]
    /\ new_node' = [new_node EXCEPT ![t] = FALSE]
    /\ IF n = m_root THEN Goto(t, "simulated") /\ UNCHANGED at
                     ELSE at' = [at EXCEPT ![t] = Parent[n]]
                          /\ UNCHANGED pc
    /\ UNCHANGED <<m_expand_state, m_min_psa_ratio_children, m_children,
                   m_status, m_root, m_draining, min_psa_ratio,
                   had_children, policy, result>>

Walk(t) ==
    \/ Visit(t)
    \/ Acquire(t)
    \/ Recheck(t)
    \/ Evaluate(t)
    \/ Cancel(t)
    \/ Link(t)
    \/ ExpandDone(t)
    \/ Descend(t)
    \/ WaitExpanded(t)
    \/ Select(t)
    \/ Backup(t)
=============================================================================
