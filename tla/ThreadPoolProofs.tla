-------------------------- MODULE ThreadPoolProofs --------------------------
(***************************************************************************)
(* For every set of threads and tasks: a task given to the pool is at any  *)
(* moment in one place, and the destructor leaves none behind.             *)
(***************************************************************************)
EXTENDS ThreadPool, SequenceTheorems, TLAPS

\* What a queue looks like after a task is added.
LEMMA QueuedAppend ==
    ASSUME NEW S, NEW s \in Seq(S), NEW k \in S
    PROVE  /\ Append(s, k) \in Seq(S)
           /\ Elements(Append(s, k)) = Elements(s) \cup {k}
           /\ Len(Append(s, k)) = Len(s) + 1
           /\ Append(s, k)[Len(s) + 1] = k
           /\ \A i \in 1 .. Len(s) : Append(s, k)[i] = s[i]
<1>1. /\ Append(s, k) \in Seq(S)
      /\ Len(Append(s, k)) = Len(s) + 1
      /\ Append(s, k)[Len(s) + 1] = k
      /\ \A i \in 1 .. Len(s) : Append(s, k)[i] = s[i]
  BY AppendProperties
<1>2. 1 .. Len(s) + 1 = (1 .. Len(s)) \cup {Len(s) + 1}
  BY LenProperties
<1> QED
  BY <1>1, <1>2 DEF Elements

\* ... and after the oldest one is taken.
LEMMA QueuedTail ==
    ASSUME NEW S, NEW s \in Seq(S), s # <<>>
    PROVE  /\ Head(s) \in S
           /\ Head(s) = s[1]
           /\ 1 \in 1 .. Len(s)
           /\ Tail(s) \in Seq(S)
           /\ Len(Tail(s)) = Len(s) - 1
           /\ \A i \in 1 .. Len(Tail(s)) : /\ Tail(s)[i] = s[i + 1]
                                           /\ i + 1 \in 1 .. Len(s)
           /\ Elements(s) = Elements(Tail(s)) \cup {Head(s)}
<1>1. /\ Head(s) \in S
      /\ Tail(s) \in Seq(S)
      /\ Len(Tail(s)) = Len(s) - 1
      /\ \A i \in 1 .. Len(Tail(s)) : Tail(s)[i] = s[i + 1]
      /\ Head(s) = s[1]
  BY HeadTailProperties
<1>2. Len(s) \in Nat /\ Len(s) # 0
  BY LenProperties, EmptySeq
<1>3. \A i \in 1 .. Len(s) : i = 1 \/ i - 1 \in 1 .. Len(Tail(s))
  BY <1>1, <1>2
<1>4. \A i \in 1 .. Len(Tail(s)) : i + 1 \in 1 .. Len(s)
  BY <1>1, <1>2
<1>5. ASSUME NEW i \in 1 .. Len(s)
      PROVE  s[i] \in {Tail(s)[j] : j \in 1 .. Len(Tail(s))} \cup {Head(s)}
  <2>1. CASE i = 1
    BY <2>1, <1>1
  <2>2. CASE i - 1 \in 1 .. Len(Tail(s))
    <3>1. Tail(s)[i - 1] = s[(i - 1) + 1]
      BY <2>2, <1>1
    <3>2. (i - 1) + 1 = i
      BY <1>2
    <3> QED
      BY <2>2, <3>1, <3>2
  <2> QED
    BY <2>1, <2>2, <1>3
<1>6. 1 \in 1 .. Len(s)
  BY <1>2
<1>7. Elements(s) = Elements(Tail(s)) \cup {Head(s)}
  BY <1>1, <1>4, <1>5, <1>6 DEF Elements
<1> QED
  BY <1>1, <1>4, <1>6, <1>7
-----------------------------------------------------------------------------
(* TypeOK and EveryTaskOnce are inductive together; each action is a step. *)

TaskInv == TypeOK /\ EveryTaskOnce

LEMMA TaskInvNext ==
    ASSUME TaskInv, [Next]_vars
    PROVE  TaskInv'
<1> USE DEF TaskInv, TypeOK
<1>1. ASSUME NEW t \in Threads, Leave(t) \/ Sleep(t) \/ SpuriousWakeup(t)
      PROVE  TaskInv'
  <2>1. UNCHANGED <<m_tasks, running, future>>
    BY <1>1 DEF Leave, Sleep, SpuriousWakeup
  <2>2. TypeOK'
    BY <1>1 DEF Leave, Sleep, SpuriousWakeup
  <2>3. EveryTaskOnce'
    BY <2>1 DEF EveryTaskOnce, Queued, Elements
  <2> QED
    BY <2>2, <2>3
<1>2. ASSUME NEW t \in Threads, Start(t)
      PROVE  TaskInv'
  <2> DEFINE k == Head(m_tasks)
  <2>1. /\ m_tasks # <<>>
        /\ m_tasks' = Tail(m_tasks)
        /\ running' = [running EXCEPT ![t] = {k}]
        /\ thread' = [thread EXCEPT ![t] = "run"]
        /\ thread[t] = "awake"
        /\ UNCHANGED <<m_exit, future, group, owner>>
    BY <1>2 DEF Start
  <2>2. /\ k \in Tasks
        /\ k = m_tasks[1]
        /\ 1 \in 1 .. Len(m_tasks)
        /\ m_tasks' \in Seq(Tasks)
        /\ Len(m_tasks') = Len(m_tasks) - 1
        /\ \A i \in 1 .. Len(m_tasks') : /\ m_tasks'[i] = m_tasks[i + 1]
                                         /\ i + 1 \in 1 .. Len(m_tasks)
        /\ Queued = Queued' \cup {k}
    BY <2>1, QueuedTail DEF Queued
  <2>3. /\ running' \in [Threads -> SUBSET Tasks]
        /\ running'[t] = {k}
        /\ \A u \in Threads \ {t} : running'[u] = running[u]
        /\ running[t] = {}
    BY <2>1, <2>2
  <2>4. TypeOK'
    BY <2>1, <2>2, <2>3
  <2>0. /\ \A i, j \in 1 .. Len(m_tasks) : m_tasks[i] = m_tasks[j] => i = j
        /\ Len(m_tasks) \in Nat
        /\ Len(m_tasks') \in Nat
    BY <2>2, LenProperties DEF EveryTaskOnce
  <2>5. k \notin Queued'
    <3> SUFFICES ASSUME NEW i \in 1 .. Len(m_tasks'), m_tasks'[i] = k
                 PROVE  FALSE
      BY DEF Queued, Elements
    <3>1. m_tasks[i + 1] = m_tasks[1] /\ i + 1 \in 1 .. Len(m_tasks)
      BY <2>2
    <3>2. i + 1 = 1
      BY <3>1, <2>2, <2>0
    <3>3. i \in Nat /\ i >= 1
      BY <2>0
    <3> QED
      BY <3>2, <3>3
  <2>6. \A i, j \in 1 .. Len(m_tasks') : m_tasks'[i] = m_tasks'[j] => i = j
    <3> SUFFICES ASSUME NEW i \in 1 .. Len(m_tasks'),
                        NEW j \in 1 .. Len(m_tasks'),
                        m_tasks'[i] = m_tasks'[j]
                 PROVE  i = j
      OBVIOUS
    <3>1. /\ m_tasks[i + 1] = m_tasks[j + 1]
          /\ i + 1 \in 1 .. Len(m_tasks)
          /\ j + 1 \in 1 .. Len(m_tasks)
      BY <2>2
    <3>2. i + 1 = j + 1
      BY <3>1, <2>0
    <3>3. i \in Nat /\ j \in Nat
      BY <2>0
    <3> QED
      BY <3>2, <3>3
  <2>7. \A u \in Threads : k \notin running[u]
    BY <2>2 DEF EveryTaskOnce
  <2>8. EveryTaskOnce'
    <3>1. \A x \in Tasks : future'[x] = "pending" <=>
             x \in Queued' \/ \E u \in Threads : x \in running'[u]
      <4> SUFFICES ASSUME NEW x \in Tasks
                   PROVE  (x \in Queued \/ \E u \in Threads : x \in running[u])
                          <=> (x \in Queued'
                               \/ \E u \in Threads : x \in running'[u])
        BY <2>1 DEF EveryTaskOnce
      <4>1. CASE x = k
        BY <4>1, <2>2, <2>3
      <4>2. CASE x # k
        BY <4>2, <2>2, <2>3
      <4> QED
        BY <4>1, <4>2
    <3>2. \A u \in Threads : running'[u] \cap Queued' = {}
      BY <2>2, <2>3, <2>5 DEF EveryTaskOnce
    <3>3. \A u, v \in Threads : running'[u] \cap running'[v] # {} => u = v
      BY <2>3, <2>7 DEF EveryTaskOnce
    <3> QED
      BY <3>1, <3>2, <3>3, <2>6 DEF EveryTaskOnce
  <2> QED
    BY <2>4, <2>8
<1>3. ASSUME NEW t \in Threads, Finish(t)
      PROVE  TaskInv'
  <2>1. /\ thread[t] = "run"
        /\ future' = [k \in Tasks |-> IF k \in running[t] THEN "ready"
                                      ELSE future[k]]
        /\ running' = [running EXCEPT ![t] = {}]
        /\ thread' = [thread EXCEPT ![t] = "awake"]
        /\ UNCHANGED <<m_tasks, m_exit, group, owner>>
    BY <1>3 DEF Finish
  <2>2. /\ running' \in [Threads -> SUBSET Tasks]
        /\ running'[t] = {}
        /\ \A u \in Threads \ {t} : running'[u] = running[u]
    BY <2>1
  <2>3. TypeOK'
    BY <2>1, <2>2
  <2>4. Queued' = Queued
    BY <2>1 DEF Queued
  <2>5. \A u \in Threads \ {t} : running[u] \cap running[t] = {}
    BY DEF EveryTaskOnce
  <2>6. \A k \in Tasks : future'[k] = "pending" <=>
           k \in Queued' \/ \E u \in Threads : k \in running'[u]
    <3> SUFFICES ASSUME NEW k \in Tasks
                 PROVE  future'[k] = "pending" <=>
                          k \in Queued \/ \E u \in Threads : k \in running'[u]
      BY <2>4
    <3>1. CASE k \in running[t]
      <4>1. k \notin Queued
        BY <3>1 DEF EveryTaskOnce
      <4>2. \A u \in Threads : k \notin running'[u]
        BY <3>1, <2>2, <2>5
      <4> QED
        BY <3>1, <4>1, <4>2, <2>1
    <3>2. CASE k \notin running[t]
      <4>1. future'[k] = future[k]
        BY <3>2, <2>1
      <4>2. \A u \in Threads : k \in running'[u] <=> k \in running[u]
        BY <3>2, <2>2
      <4> QED
        BY <4>1, <4>2 DEF EveryTaskOnce
    <3> QED
      BY <3>1, <3>2
  <2>7. /\ \A u \in Threads : running'[u] \cap Queued' = {}
        /\ \A u, v \in Threads : running'[u] \cap running'[v] # {} => u = v
    BY <2>2, <2>4 DEF EveryTaskOnce
  <2> QED
    BY <2>1, <2>3, <2>6, <2>7 DEF EveryTaskOnce
<1>4. ASSUME NEW k \in Tasks, AddTask(k)
      PROVE  TaskInv'
  <2>1. /\ future[k] = "none"
        /\ future' = [future EXCEPT ![k] = "pending"]
        /\ m_tasks' = Append(m_tasks, k)
        /\ group' = group \cup {k}
        /\ owner' = "notify"
        /\ UNCHANGED <<m_exit, thread, running>>
    BY <1>4 DEF AddTask
  <2>2. /\ m_tasks' \in Seq(Tasks)
        /\ Queued' = Queued \cup {k}
        /\ Len(m_tasks') = Len(m_tasks) + 1
        /\ m_tasks'[Len(m_tasks) + 1] = k
        /\ \A i \in 1 .. Len(m_tasks) : m_tasks'[i] = m_tasks[i]
    BY <2>1, QueuedAppend DEF Queued
  <2>3. TypeOK'
    BY <2>1, <2>2
  <2>4. k \notin Queued /\ \A t \in Threads : k \notin running[t]
    BY <2>1 DEF EveryTaskOnce
  <2>5. \A i, j \in 1 .. Len(m_tasks') : m_tasks'[i] = m_tasks'[j] => i = j
    <3>1. Len(m_tasks) \in Nat
      BY LenProperties
    <3>2. \A i \in 1 .. Len(m_tasks) : m_tasks[i] # k
      BY <2>4 DEF Queued, Elements
    <3>3. \A i, j \in 1 .. Len(m_tasks) : m_tasks[i] = m_tasks[j] => i = j
      BY DEF EveryTaskOnce
    <3>4. \A i \in 1 .. Len(m_tasks') :
             i = Len(m_tasks) + 1 \/ i \in 1 .. Len(m_tasks)
      BY <2>2, <3>1
    <3> QED
      BY <2>2, <3>2, <3>3, <3>4
  <2>6. \A x \in Tasks : future'[x] = "pending" <=>
           x \in Queued' \/ \E t \in Threads : x \in running'[t]
    BY <2>1, <2>2 DEF EveryTaskOnce
  <2>7. /\ \A t \in Threads : running'[t] \cap Queued' = {}
        /\ \A t, u \in Threads : running'[t] \cap running'[u] # {} => t = u
    BY <2>1, <2>2, <2>4 DEF EveryTaskOnce
  <2> QED
    BY <2>3, <2>5, <2>6, <2>7 DEF EveryTaskOnce
<1>5. ASSUME NotifyOne \/ NotifyAll
      PROVE  TaskInv'
  <2>1. UNCHANGED <<m_tasks, m_exit, running, future, group>>
    BY <1>5 DEF NotifyOne, NotifyAll
  <2>2. /\ thread' \in [Threads -> {"awake", "asleep", "run", "gone"}]
        /\ \A t \in Threads : thread'[t] = "run" <=> thread[t] = "run"
        /\ owner' \in {"outside", "joining"}
    BY <1>5 DEF NotifyOne, NotifyAll
  <2>3. EveryTaskOnce'
    BY <2>1 DEF EveryTaskOnce, Queued, Elements
  <2>4. TypeOK'
    BY <2>1, <2>2
  <2> QED
    BY <2>3, <2>4
<1>6. ASSUME PutAside \/ BeginWaitAll \/ SetExit \/ EndWaitAll \/ Join
             \/ UNCHANGED vars
      PROVE  TaskInv'
  <2>1. UNCHANGED <<m_tasks, thread, running, future>>
    BY <1>6 DEF PutAside, BeginWaitAll, SetExit, EndWaitAll, Join, vars
  <2>2. EveryTaskOnce'
    BY <2>1 DEF EveryTaskOnce, Queued, Elements
  <2>3. /\ m_exit' \in BOOLEAN
        /\ group' \subseteq Tasks
        /\ owner' \in {"outside", "notify", "waiting", "notifyall",
                       "joining", "joined"}
    BY <1>6 DEF PutAside, BeginWaitAll, SetExit, EndWaitAll, Join, vars
  <2>4. TypeOK'
    BY <2>1, <2>3
  <2> QED
    BY <2>2, <2>4
<1> QED
  BY <1>1, <1>2, <1>3, <1>4, <1>5, <1>6 DEF Next, Loop, Owner, Terminated

\* No task is lost and none is run twice.
THEOREM TasksRunOnce == Spec => [](TypeOK /\ EveryTaskOnce)
<1>1. Init => TaskInv
  <2> SUFFICES ASSUME Init PROVE TaskInv
    OBVIOUS
  <2>1. m_tasks \in Seq(Tasks) /\ Len(m_tasks) = 0
    BY EmptySeq DEF Init
  <2>2. Queued = {} /\ 1 .. Len(m_tasks) = {}
    BY <2>1 DEF Queued, Elements
  <2> QED
    BY <2>1, <2>2 DEF Init, TaskInv, TypeOK, EveryTaskOnce
<1>2. TaskInv /\ [Next]_vars => TaskInv'
  BY TaskInvNext
<1> QED
  BY <1>1, <1>2, PTL DEF Spec, TaskInv

\* Every variable keeps its type: no thread runs, and no future belongs to, what
\* is not a task, while tasks are added, taken and run and the destructor joins.
THEOREM TypeCorrect == Spec => []TypeOK
<1>1. TypeOK /\ EveryTaskOnce => TypeOK
  OBVIOUS
<1> QED
  BY <1>1, TasksRunOnce, PTL
-----------------------------------------------------------------------------
(* A thread leaves an empty queue only, and after m_exit no task is added. *)

ExitInv ==
    /\ m_exit => owner \in {"notifyall", "joining", "joined"}
    /\ \A t \in Threads : thread[t] = "gone" => m_exit /\ m_tasks = <<>>
    /\ owner = "joined" => \A t \in Threads : thread[t] = "gone"

\* The destructor runs what is queued.
THEOREM ExitSafe == Spec => []ExitRunsEverything
<1>1. Init => ExitInv
  BY DEF Init, ExitInv
<1>2. TaskInv /\ ExitInv /\ [Next]_vars => ExitInv'
  <2> SUFFICES ASSUME TaskInv, ExitInv, [Next]_vars
               PROVE  ExitInv'
    OBVIOUS
  <2> USE DEF ExitInv, TaskInv, TypeOK
  <2>1. ASSUME NEW t \in Threads,
               Leave(t) \/ Start(t) \/ Sleep(t) \/ Finish(t)
               \/ SpuriousWakeup(t)
        PROVE  ExitInv'
    BY <2>1 DEF Leave, Start, Sleep, Finish, SpuriousWakeup
  <2>2. ASSUME NEW k \in Tasks, AddTask(k)
        PROVE  ExitInv'
    BY <2>2 DEF AddTask
  <2>3. ASSUME NotifyOne \/ NotifyAll
        PROVE  ExitInv'
    BY <2>3 DEF NotifyOne, NotifyAll
  <2>4. ASSUME PutAside \/ BeginWaitAll \/ SetExit \/ EndWaitAll \/ Join
               \/ UNCHANGED vars
        PROVE  ExitInv'
    BY <2>4 DEF PutAside, BeginWaitAll, SetExit, EndWaitAll, Join, vars
  <2> QED
    BY <2>1, <2>2, <2>3, <2>4 DEF Next, Loop, Owner, Terminated
<1>3. TaskInv /\ ExitInv => ExitRunsEverything
  <2> SUFFICES ASSUME TaskInv, ExitInv, owner = "joined",
                      NEW k \in Tasks, future[k] = "pending"
               PROVE  FALSE
    BY DEF ExitRunsEverything
  <2>1. \A t \in Threads : thread[t] = "gone" /\ m_tasks = <<>>
    BY DEF ExitInv
  <2>2. m_tasks = <<>>
    BY <2>1, PoolAssumption
  <2>3. Queued = {}
    BY <2>2 DEF Queued, Elements
  <2>4. \A t \in Threads : running[t] = {}
    BY <2>1 DEF TaskInv, TypeOK
  <2> QED
    BY <2>3, <2>4 DEF TaskInv, EveryTaskOnce
<1> QED
  BY <1>1, <1>2, <1>3, TasksRunOnce, PTL DEF Spec, TaskInv
=============================================================================
