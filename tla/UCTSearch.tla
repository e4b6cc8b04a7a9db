----------------------------- MODULE UCTSearch -----------------------------
(***************************************************************************)
(* think() and ponder() over the tree (src/src/UCTSearch.cpp): find the    *)
(* new root in the old tree or start a new one, prepare it, let the        *)
(* UCTWorkers play simulations, mark the root moves that can no longer     *)
(* win as pruned, stop, drain, wait and reactivate.                        *)
(*                                                                         *)
(* The evaluation queue is what EvalService says of it: while it drains,   *)
(* an evaluation may throw.  When think() stops, and when the tree is      *)
(* full, are left open.                                                    *)
(***************************************************************************)
EXTENDS UCTNode

CONSTANTS MaxSearches,   \* bound: calls of think() and ponder()
          MaxVisits,     \* bound: visits of the root that a worker adds to
          Slack          \* bound: est_playouts_left()

VARIABLES
    main,          \* where the thread that runs think() or ponder() is
    m_run,
    m_playouts,
    pondering,     \* is it ponder()?
    required,      \* min_required_visits of this round of pruning
    unexamined,    \* root children this round has yet to examine
    base,          \* the root's visits before the first simulation
    searches       \* how many searches have been started

searchVars == <<main, m_run, m_playouts, pondering, required, unexamined,
                base, searches>>
vars == <<treeVars, searchVars>>

Init ==
    /\ m_expand_state = [n \in Nodes |-> "INITIAL"]
    /\ m_min_psa_ratio_children = [n \in Nodes |-> Impossible]
    /\ m_children = [n \in Nodes |-> 0]
    /\ m_visits = [n \in Nodes |-> 0]
    /\ m_virtual_loss = [n \in Nodes |-> 0]
    /\ m_status = [n \in Nodes |-> "ACTIVE"]
    /\ m_root = Top
    /\ m_draining = FALSE
    /\ pc = [t \in Threads |-> "left"]
    /\ at = [t \in Threads |-> Top]
    /\ min_psa_ratio = [t \in Threads |-> 0]
    /\ had_children = [t \in Threads |-> FALSE]
    /\ policy = [t \in Threads |-> NoPolicy]
    /\ result = [t \in Threads |-> FALSE]
    /\ new_node = [t \in Threads |-> FALSE]
    /\ main = "between"
    /\ m_run = FALSE
    /\ m_playouts = 0
    /\ pondering = FALSE
    /\ required = 0
    /\ unexamined = {}
    /\ base = 0
    /\ searches = 0

-----------------------------------------------------------------------------
(* UCTWorker::operator().                                                  *)

Simulate(t) == Walk(t) /\ UNCHANGED searchVars

CountPlayout(t) ==
    /\ pc[t] = "simulated"
    /\ m_playouts' = m_playouts + (IF result[t] THEN 1 ELSE 0)
    /\ Goto(t, "counted")
    /\ result' = [result EXCEPT ![t] = FALSE]
    /\ UNCHANGED <<nodeVars, m_root, m_draining, at, min_psa_ratio,
                   had_children, policy, new_node, main, m_run, pondering,
                   required, unexamined, base, searches>>

\* is_running(): m_run is set and the tree is not full.
Again(t) ==
    /\ pc[t] = "counted"
    /\ m_run
    /\ m_visits[m_root] < MaxVisits
    /\ Goto(t, "visit")
    /\ UNCHANGED <<nodeVars, m_root, m_draining, at, min_psa_ratio,
                   had_children, policy, result, new_node, searchVars>>

Leave(t) ==
    /\ pc[t] = "counted"
    /\ Goto(t, "left")
    /\ UNCHANGED <<nodeVars, m_root, m_draining, at, min_psa_ratio,
                   had_children, policy, result, new_node, searchVars>>

-----------------------------------------------------------------------------
(* think() and ponder().                                                   *)

\* Fault: every node becomes expandable again, complete or not.
PrepareRoot_AllCleared(n, keep, p) ==
    LET kept(x) == keep /\ x \in Subtree[n]
    IN  /\ m_root' = n
        /\ m_expand_state' = [x \in Nodes |-> "INITIAL"]
        /\ m_min_psa_ratio_children' =
              [x \in Nodes |-> IF kept(x) THEN m_min_psa_ratio_children[x]
                                          ELSE Impossible]
        /\ m_children' = [x \in Nodes |-> IF kept(x) THEN m_children[x] ELSE 0]
        /\ m_visits' = [x \in Nodes |-> IF kept(x) THEN m_visits[x] ELSE 0]
        /\ UNCHANGED <<m_virtual_loss, m_status>>

\* update_root() and prepare_root_node(), which run alone: the tree below n
\* is kept, its incomplete nodes become expandable again, the root gets all
\* its children (threshold 0), and loses those that are superko.
PrepareRoot(n, keep, p) ==
    LET kept(x) == keep /\ x \in Subtree[n]
        ratio(x) == IF kept(x) THEN m_min_psa_ratio_children[x]
                               ELSE Impossible
        expand == 0 < ratio(n) /\ ~Final(n)
    IN  /\ m_root' = n
        /\ m_min_psa_ratio_children' =
              [x \in Nodes |-> IF expand /\ x = n THEN 0 ELSE ratio(x)]
        /\ m_expand_state' =
              [x \in Nodes |-> IF expand /\ x = n THEN "EXPANDED"
                               ELSE IF 0 < ratio(x) THEN "INITIAL"
                               ELSE m_expand_state[x]]
        /\ m_children' =
              [x \in Nodes |->
                 IF x \in Children(n) /\ x \in Superko THEN 0
                 ELSE (IF kept(x) THEN m_children[x] ELSE 0)
                      + (IF expand /\ x \in Children(n) /\ p[x] < ratio(n)
                         THEN 1 ELSE 0)]
        /\ m_visits' =
              [x \in Nodes |-> IF ~kept(x) \/ m_visits[x] = 0
                               THEN IF expand /\ x = n THEN 1 ELSE 0
                               ELSE m_visits[x]]
        /\ m_virtual_loss' =
              [x \in Nodes |-> IF kept(x) THEN m_virtual_loss[x] ELSE 0]
        /\ m_status' =
              [x \in Nodes |-> IF kept(x) THEN m_status[x] ELSE "ACTIVE"]

\* advance_to_new_rootstate() follows the moves played since the last search
\* in the old tree, or gives it up: where it ends, for another komi or
\* position, or because think() kept no m_last_rootstate of a finished game.
StartSearch ==
    /\ main = "between"
    /\ searches < MaxSearches
    /\ \E n \in Subtree[m_root], keep \in BOOLEAN, p \in Policies :
          /\ Path(n) \cap Superko = {}
          /\ keep => /\ pondering \/ has_children(m_root)
                     /\ \A x \in Path(n) \ {m_root} : m_children[x] > 0
          /\ PrepareRoot(n, keep, p)
          /\ base' = m_visits'[n]
          /\ at' = [t \in Threads |-> n]
    /\ pc' = [t \in Threads |-> "visit"]
    /\ result' = [t \in Threads |-> FALSE]
    /\ new_node' = [t \in Threads |-> FALSE]
    /\ pondering' \in BOOLEAN
    /\ m_playouts' = 0
    /\ m_run' = TRUE
    /\ main' = "search"
    /\ searches' = searches + 1
    /\ UNCHANGED <<m_draining, min_psa_ratio, had_children, policy,
                   required, unexamined>>

\* have_alternate_moves() starts prune_noncontenders(); ponder() does not.
StartPruning ==
    /\ main = "search"
    /\ ~pondering
    /\ \E Nfirst \in {m_visits[c] : c \in Linked(m_root)} \cup {0},
          left \in 0 .. Slack :
          /\ \A c \in Linked(m_root) : m_visits[c] <= Nfirst
          /\ required' = IF left > Nfirst THEN 0 ELSE Nfirst - left
    /\ main' = "pruning"
    /\ unexamined' = Linked(m_root)
    /\ UNCHANGED <<treeVars, m_run, m_playouts, pondering, base, searches>>

\* Fault: > for >=.
PruneOrKeep_Greater(c) ==
    /\ main = "pruning"
    /\ c \in unexamined
    /\ m_status' = [m_status EXCEPT ![c] =
                      IF m_visits[c] > required THEN "ACTIVE" ELSE "PRUNED"]
    /\ unexamined' = unexamined \ {c}
    /\ UNCHANGED <<m_expand_state, m_min_psa_ratio_children, m_children,
                   m_visits, m_virtual_loss, m_root, m_draining, threadVars,
                   main, m_run, m_playouts, pondering, required, base,
                   searches>>

\* One turn of its second loop.  A visited move may also be kept for its
\* winrate, whatever its visits.
PruneOrKeep(c) ==
    /\ main = "pruning"
    /\ c \in unexamined
    /\ \E high_winrate \in {FALSE, m_visits[c] > 0} :
          m_status' = [m_status EXCEPT ![c] =
                         IF m_visits[c] >= required \/ high_winrate
                         THEN "ACTIVE" ELSE "PRUNED"]
    /\ unexamined' = unexamined \ {c}
    /\ UNCHANGED <<m_expand_state, m_min_psa_ratio_children, m_children,
                   m_visits, m_virtual_loss, m_root, m_draining, threadVars,
                   main, m_run, m_playouts, pondering, required, base,
                   searches>>

EndPruning ==
    /\ main = "pruning"
    /\ unexamined = {}
    /\ required' = 0
    /\ main' = "search"
    /\ UNCHANGED <<treeVars, m_run, m_playouts, pondering, unexamined,
                   base, searches>>

StopSearch ==
    /\ main = "search"
    /\ m_run' = FALSE
    /\ main' = "stopped"
    /\ UNCHANGED <<treeVars, m_playouts, pondering, required, unexamined,
                   base, searches>>

Drain ==
    /\ main = "stopped"
    /\ m_draining' = Drains
    /\ main' = "joining"
    /\ UNCHANGED <<nodeVars, m_root, threadVars, m_run, m_playouts,
                   pondering, required, unexamined, base, searches>>

\* wait_all(), resume_evals(), and think() reactivates the root's children.
Resume ==
    /\ main = "joining"
    /\ \A t \in Threads : pc[t] \in {"left", "halted"}
    /\ m_draining' = FALSE
    /\ m_status' = [c \in Nodes |->
                      IF ~pondering /\ c \in Linked(m_root)
                         /\ m_status[c] = "PRUNED"
                      THEN "ACTIVE" ELSE m_status[c]]
    /\ main' = "between"
    /\ UNCHANGED <<m_expand_state, m_min_psa_ratio_children, m_children,
                   m_visits, m_virtual_loss, m_root, threadVars, m_run,
                   m_playouts, pondering, required, unexamined, base,
                   searches>>

\* No search is started any more.
Terminated == main = "between" /\ searches = MaxSearches /\ UNCHANGED vars

Main == \/ StartSearch
        \/ StartPruning
        \/ \E c \in Nodes : PruneOrKeep(c)
        \/ EndPruning
        \/ StopSearch
        \/ Drain
        \/ Resume

Worker(t) == Simulate(t) \/ CountPlayout(t) \/ Again(t) \/ Leave(t)

Next == Main \/ (\E t \in Threads : Worker(t)) \/ Terminated

Spec == Init /\ [][Next]_vars

\* Threads are scheduled and the network answers; think() polls, but need
\* not stop.
FairSpec ==
    /\ Spec
    /\ \A t \in Threads : WF_vars(Worker(t))
    /\ WF_vars(main \notin {"between", "search"} /\ Main)

-----------------------------------------------------------------------------
Expanders(n) ==
    {t \in Threads : at[t] = n
                     /\ pc[t] \in {"recheck", "evaluate", "link", "linked"}}

\* m_expand_state is a lock: EXPANDING while exactly one thread is between
\* acquire_expanding() and expand_done() or expand_cancel() (UCTNode.h).
ExpandingIsALock ==
    \A n \in Nodes :
        Cardinality(Expanders(n))
            = IF m_expand_state[n] = "EXPANDING" THEN 1 ELSE 0

\* The assertion of wait_expanded(): who has waited finds EXPANDED, so that
\* nobody changes the m_children it goes on to read.
WaitedIsExpanded ==
    \A t \in Threads : pc[t] = "select" => m_expand_state[at[t]] = "EXPANDED"

\* Nobody appends to m_children while a selection walks it, as long as no
\* evaluation of this search was halted: what expand_cancel() gives back may
\* be taken by another thread under those who came out of wait_expanded().
NoneHalted == \A t \in Threads : pc[t] # "halted"
NoReadDuringLink ==
    NoneHalted =>
        \A t, u \in Threads :
            ~(pc[t] = "select" /\ pc[u] = "link" /\ at[t] = at[u])

\* The assertion of uct_select_child(): some child can be selected.
SelectionFinds ==
    \A t \in Threads : pc[t] = "select" => Active(at[t]) # {}

\* The assertion of expandable(): a node with all its children never becomes
\* expandable again, through searches, tree reuse and cancellations.
FullNodesStayExpanded ==
    \A n \in Nodes :
        m_min_psa_ratio_children[n] = 0 => m_expand_state[n] # "INITIAL"

\* The assertion of link_nodelist(): children are linked only to bring the
\* threshold of a node down, although it was read before the lock was taken,
\* another thread may have expanded the node since, and memory may ask each
\* thread and each search for another threshold.
LinkLowersThreshold ==
    \A t \in Threads : pc[t] = "link" =>
        min_psa_ratio[t] < m_min_psa_ratio_children[at[t]]

\* prune_noncontenders() walks the root's children without the lock: "There
\* are no cases where the root's children vector gets modified during a
\* multithreaded search" (UCTSearch.cpp:671).
RootUnmodified ==
    [][main # "between" =>
          \A c \in Children(m_root) : m_children'[c] = m_children[c]]_vars

\* A round of pruning leaves the move with the most visits selectable.
PruningLeavesContender ==
    main = "search" /\ Linked(m_root) # {}
        => Active(m_root) # {}

\* The visits of the nodes S, one by one.
Visits(S) == UNION {{c} \X (1 .. m_visits[c]) : c \in S}

\* Once the workers are joined, each expanded node was visited once for
\* itself and once for each visit of a child, also when a halt cut
\* simulations short and when the tree was reused; and think(), which stops
\* at m_maxplayouts or m_maxvisits, has counted each visit of the root as
\* one playout.
VisitsConserved ==
    main = "between" =>
        /\ m_visits[m_root] = base + m_playouts
        /\ \A n \in Subtree[m_root] :
               m_visits[n] > 0 /\ ~Final(n) =>
                   m_visits[n] = 1 + Cardinality(Visits(Children(n)))

\* ... and nothing distorts the next search of the same tree: no virtual
\* loss is left behind, and no move stays pruned.
NothingLeftBehind ==
    main = "between" =>
        \A n \in Nodes : m_virtual_loss[n] = 0 /\ m_status[n] # "PRUNED"

\* From the first store to m_run the search ends: no worker waits forever on
\* a node another one was expanding.
SearchStops == main = "stopped" ~> main = "between"
=============================================================================
