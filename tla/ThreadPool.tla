----------------------------- MODULE ThreadPool -----------------------------
(***************************************************************************)
(* The thread pool that runs the UCTWorkers, the deletion of old trees and *)
(* the transformation of weights (src/src/ThreadPool.h), with the one      *)
(* thread that gives it tasks, waits for groups of them and, at the end    *)
(* of the program, destroys it.                                            *)
(*                                                                         *)
(* The condition variable is modelled: a notification reaches a thread     *)
(* that sleeps, or nobody.  m_mutex is not: each of its critical sections  *)
(* is one action.                                                          *)
(*                                                                         *)
(* A definition under a comment "Fault" is the next one with a bug in it,  *)
(* to check that a property notices.                                       *)
(***************************************************************************)
EXTENDS Naturals, Sequences, FiniteSets

CONSTANTS Threads,    \* m_threads
          Tasks       \* every task the program ever adds

ASSUME PoolAssumption == IsFiniteSet(Threads) /\ Threads # {}

VARIABLES
    m_tasks,      \* added and not started, oldest first
    m_exit,
    thread,       \* where each thread is in its loop
    running,      \* the task it runs
    future,       \* what has become of each task
    group,        \* the tasks of the ThreadGroup the owner has at hand
    owner         \* where the owner of the pool is

vars == <<m_tasks, m_exit, thread, running, future, group, owner>>

Init ==
    /\ m_tasks = <<>>
    /\ m_exit = FALSE
    /\ thread = [t \in Threads |-> "awake"]
    /\ running = [t \in Threads |-> {}]
    /\ future = [k \in Tasks |-> "none"]
    /\ group = {}
    /\ owner = "outside"

-----------------------------------------------------------------------------
(* The loop of a thread.                                                   *)

\* Fault: the thread leaves at m_exit whatever is queued.
Leave_TasksLeft(t) ==
    /\ thread[t] = "awake"
    /\ m_exit
    /\ thread' = [thread EXCEPT ![t] = "gone"]
    /\ UNCHANGED <<m_tasks, m_exit, running, future, group, owner>>

Leave(t) ==
    /\ thread[t] = "awake"
    /\ m_exit /\ m_tasks = <<>>
    /\ thread' = [thread EXCEPT ![t] = "gone"]
    /\ UNCHANGED <<m_tasks, m_exit, running, future, group, owner>>

\* Fault: the task is not taken off the queue.
Start_NotPopped(t) ==
    /\ thread[t] = "awake"
    /\ m_tasks # <<>>
    /\ running' = [running EXCEPT ![t] = {Head(m_tasks)}]
    /\ thread' = [thread EXCEPT ![t] = "run"]
    /\ UNCHANGED <<m_tasks, m_exit, future, group, owner>>

\* The predicate of the wait holds: take the oldest task.
Start(t) ==
    /\ thread[t] = "awake"
    /\ m_tasks # <<>>
    /\ running' = [running EXCEPT ![t] = {Head(m_tasks)}]
    /\ m_tasks' = Tail(m_tasks)
    /\ thread' = [thread EXCEPT ![t] = "run"]
    /\ UNCHANGED <<m_exit, future, group, owner>>

\* Fault: the thread waits without looking at the predicate first.
Sleep_NoPredicate(t) ==
    /\ thread[t] = "awake"
    /\ thread' = [thread EXCEPT ![t] = "asleep"]
    /\ UNCHANGED <<m_tasks, m_exit, running, future, group, owner>>

Sleep(t) ==
    /\ thread[t] = "awake"
    /\ ~m_exit /\ m_tasks = <<>>
    /\ thread' = [thread EXCEPT ![t] = "asleep"]
    /\ UNCHANGED <<m_tasks, m_exit, running, future, group, owner>>

\* A spurious wakeup; the predicate is looked at again.
SpuriousWakeup(t) ==
    /\ thread[t] = "asleep"
    /\ thread' = [thread EXCEPT ![t] = "awake"]
    /\ UNCHANGED <<m_tasks, m_exit, running, future, group, owner>>

\* Fault: the task is still the thread's when the loop goes on.
Finish_TaskKept(t) ==
    /\ thread[t] = "run"
    /\ future' = [k \in Tasks |-> IF k \in running[t] THEN "ready"
                                  ELSE future[k]]
    /\ thread' = [thread EXCEPT ![t] = "awake"]
    /\ UNCHANGED <<m_tasks, m_exit, running, group, owner>>

\* task() returns, and the packaged_task makes its future ready.
Finish(t) ==
    /\ thread[t] = "run"
    /\ future' = [k \in Tasks |-> IF k \in running[t] THEN "ready"
                                  ELSE future[k]]
    /\ running' = [running EXCEPT ![t] = {}]
    /\ thread' = [thread EXCEPT ![t] = "awake"]
    /\ UNCHANGED <<m_tasks, m_exit, group, owner>>

-----------------------------------------------------------------------------
(* The owner: add_task(), ThreadGroup::wait_all(), the destructor.         *)

\* add_task() up to the end of its critical section.
AddTask(k) ==
    /\ owner = "outside"
    /\ future[k] = "none"
    /\ future' = [future EXCEPT ![k] = "pending"]
    /\ m_tasks' = Append(m_tasks, k)
    /\ group' = group \cup {k}
    /\ owner' = "notify"
    /\ UNCHANGED <<m_exit, thread, running>>

\* m_condvar.notify_one()
NotifyOne ==
    /\ owner = "notify"
    /\ owner' = "outside"
    /\ IF \E t \in Threads : thread[t] = "asleep"
       THEN \E t \in Threads : /\ thread[t] = "asleep"
                               /\ thread' = [thread EXCEPT ![t] = "awake"]
       ELSE UNCHANGED thread
    /\ UNCHANGED <<m_tasks, m_exit, running, future, group>>

\* A group put aside to be waited for later, or never: m_delete_futures.
PutAside ==
    /\ owner = "outside"
    /\ \E g \in SUBSET group : group' = g
    /\ UNCHANGED <<m_tasks, m_exit, thread, running, future, owner>>

BeginWaitAll ==
    /\ owner = "outside"
    /\ group # {}
    /\ owner' = "waiting"
    /\ UNCHANGED <<m_tasks, m_exit, thread, running, future, group>>

EndWaitAll ==
    /\ owner = "waiting"
    /\ \A k \in group : future[k] = "ready"
    /\ group' = {}
    /\ owner' = "outside"
    /\ UNCHANGED <<m_tasks, m_exit, thread, running, future>>

\* ~ThreadPool(): m_exit is set, everybody is notified, then joined.
SetExit ==
    /\ owner = "outside"
    /\ m_exit' = TRUE
    /\ owner' = "notifyall"
    /\ UNCHANGED <<m_tasks, thread, running, future, group>>

\* Fault: one thread is notified of m_exit.
NotifyAll_One ==
    /\ owner = "notifyall"
    /\ owner' = "joining"
    /\ IF \E t \in Threads : thread[t] = "asleep"
       THEN \E t \in Threads : /\ thread[t] = "asleep"
                               /\ thread' = [thread EXCEPT ![t] = "awake"]
       ELSE UNCHANGED thread
    /\ UNCHANGED <<m_tasks, m_exit, running, future, group>>

NotifyAll ==
    /\ owner = "notifyall"
    /\ owner' = "joining"
    /\ thread' = [t \in Threads |-> IF thread[t] = "asleep" THEN "awake"
                                    ELSE thread[t]]
    /\ UNCHANGED <<m_tasks, m_exit, running, future, group>>

Join ==
    /\ owner = "joining"
    /\ \A t \in Threads : thread[t] = "gone"
    /\ owner' = "joined"
    /\ UNCHANGED <<m_tasks, m_exit, thread, running, future, group>>

Terminated == owner = "joined" /\ UNCHANGED vars

-----------------------------------------------------------------------------
Loop(t) == Leave(t) \/ Start(t) \/ Sleep(t) \/ Finish(t)

Owner == \/ NotifyOne
         \/ EndWaitAll
         \/ NotifyAll
         \/ Join

Next == \/ \E t \in Threads : Loop(t) \/ SpuriousWakeup(t)
        \/ \E k \in Tasks : AddTask(k)
        \/ PutAside
        \/ BeginWaitAll
        \/ SetExit
        \/ Owner
        \/ Terminated

Spec == Init /\ [][Next]_vars

\* Threads are scheduled and tasks end; the owner need not add a task, wait
\* or destroy the pool, and no spurious wakeup is relied on.
FairSpec == Spec /\ WF_vars(Owner) /\ \A t \in Threads : WF_vars(Loop(t))

-----------------------------------------------------------------------------
TypeOK ==
    /\ m_tasks \in Seq(Tasks)
    /\ m_exit \in BOOLEAN
    /\ thread \in [Threads -> {"awake", "asleep", "run", "gone"}]
    /\ running \in [Threads -> SUBSET Tasks]
    /\ \A t \in Threads : thread[t] = "run" <=> running[t] # {}
    /\ future \in [Tasks -> {"none", "pending", "ready"}]
    /\ group \subseteq Tasks
    /\ owner \in {"outside", "notify", "waiting", "notifyall", "joining",
                 "joined"}

Elements(s) == {s[i] : i \in 1 .. Len(s)}
Queued == Elements(m_tasks)

\* A pending task is queued or run, in one place, and no other is: no task
\* is lost, and none runs twice, which would delete a tree twice.
EveryTaskOnce ==
    /\ \A k \in Tasks : future[k] = "pending" <=>
           k \in Queued \/ \E t \in Threads : k \in running[t]
    /\ \A i, j \in 1 .. Len(m_tasks) : m_tasks[i] = m_tasks[j] => i = j
    /\ \A t \in Threads : running[t] \cap Queued = {}
    /\ \A t, u \in Threads : running[t] \cap running[u] # {} => t = u

\* The destructor lets the queued tasks run: a tree handed to the pool is
\* deleted also when the program ends at once.
ExitRunsEverything ==
    owner = "joined" => \A k \in Tasks : future[k] # "pending"

\* Every task added runs to its end, while the pool lives and at its end.
TasksFinish == \A k \in Tasks : future[k] = "pending" ~> future[k] = "ready"

\* The destructor returns.
JoinCompletes == m_exit ~> owner = "joined"
=============================================================================
