-------------------------- MODULE SearchHaltProofs --------------------------
(***************************************************************************)
(* Proofs about SearchHalt, for any number of callers, workers and any     *)
(* batch size.                                                             *)
(***************************************************************************)
EXTENDS SearchHalt, SequenceTheorems, FiniteSetTheorems, TLAPS

(* What taking the first n entries does to a queue.                        *)
LEMMA Split ==
    ASSUME NEW S, NEW q \in Seq(S), NEW n \in 0 .. Len(q)
    PROVE  /\ SubSeq(q, 1, n) \in Seq(S)
           /\ Len(SubSeq(q, 1, n)) = n
           /\ \A i \in 1 .. n : SubSeq(q, 1, n)[i] = q[i]
           /\ SubSeq(q, n + 1, Len(q)) \in Seq(S)
           /\ Len(SubSeq(q, n + 1, Len(q))) = Len(q) - n
           /\ \A i \in 1 .. Len(q) - n :
                 SubSeq(q, n + 1, Len(q))[i] = q[n + i]
<1>1. Len(q) \in Nat /\ \A i \in 1 .. Len(q) : q[i] \in S
  BY ElementOfSeq, LenProperties
<1>2. /\ SubSeq(q, 1, n) \in Seq(S)
      /\ Len(SubSeq(q, 1, n)) = n
      /\ \A i \in 1 .. n : SubSeq(q, 1, n)[i] = q[i]
  <2>1. 1 \in Int /\ n \in Int /\ \A i \in 1 .. n : q[i] \in S
    BY <1>1
  <2>2. QED
    BY ONLY <2>1, <1>1, SubSeqProperties
<1>3. /\ SubSeq(q, n + 1, Len(q)) \in Seq(S)
      /\ Len(SubSeq(q, n + 1, Len(q))) = Len(q) - n
      /\ \A i \in 1 .. Len(q) - n : SubSeq(q, n + 1, Len(q))[i] = q[n + i]
  <2>1. /\ n + 1 \in Int
        /\ Len(q) \in Int
        /\ \A i \in n + 1 .. Len(q) : q[i] \in S
    BY <1>1
  <2>2. QED
    BY ONLY <2>1, <1>1, SubSeqProperties, n \in Nat
<1>4. QED
  BY <1>2, <1>3

-----------------------------------------------------------------------------
(* Type correctness.                                                       *)

LEMMA WorkerType ==
    ASSUME TypeOK, NEW w \in Workers, WorkerStep(w)
    PROVE  SchedulerTypeOK'
<1> USE DEF TypeOK, SchedulerTypeOK, WorkerStates
<1>1. /\ Len(m_forward_queue) \in Nat /\ Len(inputs[w]) \in Nat
      /\ BatchSize \in Nat \ {0} /\ Len(<<>>) = 0
      /\ <<>> \in Seq(Callers)
  BY LenProperties, EmptySeq, SchedulerAssumption
<1>2. ASSUME NEW n \in 0 .. Len(m_forward_queue), n <= BatchSize, Take(w, n)
      PROVE  /\ m_forward_queue' \in Seq(Callers)
             /\ inputs' \in [Workers -> Seq(Callers)]
             /\ \A v \in Workers : Len(inputs'[v]) <= BatchSize
             /\ index' \in [Workers -> Nat]
             /\ worker' \in [Workers -> WorkerStates]
  <2>1. /\ SubSeq(m_forward_queue, 1, n) \in Seq(Callers)
        /\ Len(SubSeq(m_forward_queue, 1, n)) = n
        /\ SubSeq(m_forward_queue, n + 1, Len(m_forward_queue)) \in Seq(Callers)
    <3>1. m_forward_queue \in Seq(Callers)
      OBVIOUS
    <3>2. QED
      BY <3>1, Split
  <2>2. QED
    BY <1>2, <2>1 DEF Take
<1>3. CASE PickBatch(w)
  <2>1. BatchSize \in 0 .. Len(m_forward_queue) /\ BatchSize <= BatchSize
    BY <1>1, <1>3 DEF PickBatch
  <2>2. QED
    BY <1>2, <1>3, <2>1 DEF PickBatch
<1>4. CASE PickSingle(w)
  <2>1. 1 \in 0 .. Len(m_forward_queue) /\ 1 <= BatchSize
    BY <1>1, <1>4 DEF PickSingle
  <2>2. QED
    BY <1>2, <1>4, <2>1 DEF PickSingle
<1>5. CASE BeginBatch(w)
  BY <1>5 DEF BeginBatch
<1>6. CASE CopyInput(w)
  BY <1>6 DEF CopyInput
<1>7. CASE Evaluate(w)
  BY <1>7 DEF Evaluate
<1>8. CASE Deliver(w)
  BY <1>8 DEF Deliver, Notified, CallStates
<1>9. CASE FinishBatch(w)
  BY <1>1, <1>9 DEF FinishBatch
<1>10. CASE WorkerExit(w)
  BY <1>10 DEF WorkerExit
<1>11. QED
  BY <1>3, <1>4, <1>5, <1>6, <1>7, <1>8, <1>9, <1>10, WorkerStep(w)
     DEF WorkerStep

(* TypeOK holds in every state: the model never leaves its state space.    *)
THEOREM TypeCorrect == Spec => []TypeOK
<1>1. Init => TypeOK
  <2>1. <<>> \in Seq(Callers) /\ Len(<<>>) <= BatchSize
    BY EmptySeq, SchedulerAssumption
  <2>2. ASSUME Init
        PROVE  SchedulerTypeOK
    <3>1. /\ inputs \in [Workers -> Seq(Callers)]
          /\ \A w \in Workers : Len(inputs[w]) <= BatchSize
      BY <2>1, <2>2 DEF Init, SchedulerInit
    <3>2. QED
      BY <2>1, <2>2, <3>1 DEF Init, SchedulerInit, SchedulerTypeOK,
                              CallStates, Outcomes, WorkerStates
  <2>3. QED
    BY <2>2 DEF Init, TypeOK, MainStates
<1>2. TypeOK /\ [Next]_vars => TypeOK'
  <2> SUFFICES ASSUME TypeOK, [Next]_vars
               PROVE  TypeOK'
    OBVIOUS
  <2> USE DEF TypeOK, SchedulerTypeOK
  <2>1. ASSUME NEW c \in Callers, Forward(c)
        PROVE  TypeOK'
    <3>1. m_forward_queue' \in Seq(Callers)
      BY <2>1 DEF Forward, Push
    <3>2. QED
      BY <2>1, <3>1 DEF Forward, Push, CallStates, Outcomes
  <2>2. ASSUME NEW c \in Callers, InForward(c)
        PROVE  TypeOK'
    BY <2>2 DEF InForward, Sleep, SpuriousWakeup, Return, CallStates, Outcomes
  <2>3. ASSUME NEW c \in Callers, Leave(c)
        PROVE  TypeOK'
    BY <2>3 DEF Leave, schedulerVars
  <2>4. ASSUME NEW c \in Callers, Halt(c)
        PROVE  TypeOK'
    BY <2>4 DEF Halt, Outcomes
  <2>5. ASSUME NEW w \in Workers, Batch(w)
        PROVE  TypeOK'
    BY <2>5, WorkerType DEF Batch
  <2>6. CASE StartSearch
    BY <2>6 DEF StartSearch, schedulerVars, MainStates
  <2>7. CASE StopSearch
    BY <2>7 DEF StopSearch, schedulerVars, MainStates
  <2>8. CASE StopSteps
    <3>1. CASE DrainSet
      BY <3>1 DEF DrainSet, SetDraining, MainStates
    <3>2. CASE DrainTake
      BY <3>2, EmptySeq DEF DrainTake, TakeQueue, MainStates
    <3>3. CASE DrainWake
      <4>1. fq' \in Seq(Callers)
        BY <3>3, HeadTailProperties DEF DrainWake, WakeDrained
      <4>2. QED
        BY <3>3, <4>1 DEF DrainWake, WakeDrained, Notified, CallStates
    <3>4. CASE DrainDone
      BY <3>4 DEF DrainDone, schedulerVars, MainStates
    <3>5. CASE Join
      BY <3>5 DEF Join, schedulerVars, MainStates
    <3>6. CASE ResumeEvals
      BY <3>6 DEF ResumeEvals, Resume, MainStates
    <3>7. QED
      BY <2>8, <3>1, <3>2, <3>3, <3>4, <3>5, <3>6 DEF StopSteps
  <2>9. CASE Close
    BY <2>9 DEF Close, StopRunning, MainStates
  <2>10. CASE JoinWorkers
    BY <2>10 DEF JoinWorkers, schedulerVars, MainStates
  <2>11. CASE Terminated \/ UNCHANGED vars
    BY <2>11 DEF Terminated, vars, schedulerVars
  <2>12. QED
    BY <2>1, <2>2, <2>3, <2>4, <2>5, <2>6, <2>7, <2>8, <2>9, <2>10, <2>11
       DEF Next
<1>3. QED
  BY <1>1, <1>2, PTL DEF Spec

-----------------------------------------------------------------------------
(* The protocol between a halt and the callers.  The invariant says who    *)
(* may be inside forward() at which point of think(), and that a caller    *)
(* that is awake has its output unless a drain is in progress.             *)

HaltInv ==
    /\ m_draining <=> main \in {"clearing", "waking", "joining", "resuming"}
    /\ \A c \in Callers : call[c] = "woken" => output[c] \/ m_draining
    /\ \A c \in Callers : outcome[c] = "result" => output[c]
    /\ \A c \in Callers : call[c] # "idle" \/ outcome[c] = "halted"
                            => c \in searching \/ (c = Main /\ main = "between")
    /\ searching # {} =>
          main \in {"search", "stopped", "clearing", "waking", "joining"}
    /\ outcome[Main] # "halted"

LEMMA HaltInvInit == Init => HaltInv
BY MainAssumption DEF Init, SchedulerInit, HaltInv

LEMMA HaltInvNext ==
    ASSUME Spurious = FALSE, TypeOK, HaltInv, [Next]_vars
    PROVE  HaltInv'
<1> USE DEF TypeOK, SchedulerTypeOK, HaltInv, CallStates, Outcomes, Searchers
<1>1. ASSUME NEW c \in Callers, Forward(c)
      PROVE  HaltInv'
  BY <1>1 DEF Forward, MayCall, Push
<1>2. ASSUME NEW c \in Callers, InForward(c)
      PROVE  HaltInv'
  <2>1. CASE Sleep(c)
    BY <1>2, <2>1 DEF InForward, Sleep
  <2>2. CASE Return(c)
    BY <1>2, <2>2 DEF InForward, Return
  <2>3. QED
    BY <1>2, <2>1, <2>2, Spurious = FALSE DEF InForward, SpuriousWakeup
<1>3. ASSUME NEW c \in Callers, Leave(c) \/ Halt(c)
      PROVE  HaltInv'
  <2>1. CASE Leave(c)
    BY <2>1 DEF Leave, schedulerVars
  <2>2. CASE Halt(c)
    <3>1. /\ outcome' = [outcome EXCEPT ![c] = "none"]
          /\ searching' = searching \ {c}
          /\ call[c] = "idle"
          /\ UNCHANGED <<m_draining, call, output, main>>
      BY <2>2 DEF Halt
    <3>2. \A d \in Callers :
              /\ outcome'[d] = "result" => output'[d]
              /\ call'[d] # "idle" \/ outcome'[d] = "halted"
                  => d \in searching' \/ (d = Main /\ main' = "between")
      BY <3>1
    <3>3. QED
      BY <3>1, <3>2, MainAssumption
  <2>3. QED
    BY <1>3, <2>1, <2>2
<1>4. ASSUME NEW w \in Workers, Batch(w)
      PROVE  HaltInv'
  <2>1. CASE Deliver(w)
    BY <1>4, <2>1 DEF Batch, Deliver, Notified
  <2>2. CASE ~Deliver(w)
    <3>1. UNCHANGED <<m_draining, call, output, outcome, m_run, searching,
                      main>>
      BY <1>4, <2>2 DEF Batch, WorkerStep, PickBatch, PickSingle, BeginBatch,
                        CopyInput, Evaluate, FinishBatch, WorkerExit
    <3>2. QED
      BY <3>1
  <2>3. QED
    BY <2>1, <2>2
<1>5. CASE StartSearch
  BY <1>5 DEF StartSearch, schedulerVars
<1>6. CASE StopSearch
  BY <1>6 DEF StopSearch, schedulerVars
<1>7. CASE StopSteps
  <2>1. CASE DrainSet
    BY <2>1 DEF DrainSet, SetDraining
  <2>2. CASE DrainTake
    BY <2>2 DEF DrainTake, TakeQueue
  <2>3. CASE DrainWake
    BY <2>3 DEF DrainWake, WakeDrained, Notified
  <2>4. CASE DrainDone
    BY <2>4 DEF DrainDone, schedulerVars
  <2>5. CASE Join
    BY <2>5 DEF Join, schedulerVars
  <2>6. CASE ResumeEvals
    BY <2>6 DEF ResumeEvals, Resume
  <2>7. QED
    BY <1>7, <2>1, <2>2, <2>3, <2>4, <2>5, <2>6 DEF StopSteps
<1>8. CASE Close \/ JoinWorkers
  BY <1>8 DEF Close, StopRunning, JoinWorkers, schedulerVars
<1>9. CASE Terminated \/ UNCHANGED vars
  BY <1>9 DEF Terminated, vars, schedulerVars
<1>10. QED
  BY <1>1, <1>2, <1>3, <1>4, <1>5, <1>6, <1>7, <1>8, <1>9 DEF Next

(* With no spurious wakeup, HaltInv holds throughout.                      *)
THEOREM HaltInvariant ==
    ASSUME Spurious = FALSE
    PROVE  Spec => []HaltInv
<1>1. TypeOK /\ HaltInv /\ [Next]_vars => HaltInv'
  BY HaltInvNext
<1>2. QED
  BY <1>1, HaltInvInit, TypeCorrect, PTL DEF Spec

(* forward() never hands out a buffer no worker has written, and think()   *)
(* itself never sees the exception that stops a search.                    *)
THEOREM ReturnsAreEvaluated ==
    ASSUME Spurious = FALSE
    PROVE  Spec => [](ReturnedIsEvaluated /\ MainNeverHalted)
<1>1. HaltInv => ReturnedIsEvaluated /\ MainNeverHalted
  BY DEF HaltInv, ReturnedIsEvaluated, MainNeverHalted
<1>2. QED
  BY <1>1, HaltInvariant, PTL

-----------------------------------------------------------------------------
(* The scheduler implements EvalService.                                   *)

LEMMA ServiceStep ==
    ASSUME Spurious = FALSE, TypeOK, HaltInv, [Next]_vars
    PROVE  [Service!Next]_(Service!vars)
<1> USE DEF TypeOK, SchedulerTypeOK, CallStates, Outcomes, Searchers
<1> DEFINE same == UNCHANGED <<call, output, outcome, m_draining>>
<1>1. ASSUME same
      PROVE  UNCHANGED Service!vars
  BY <1>1 DEF Service!vars, RequestOf
<1>2. ASSUME NEW c \in Callers, Forward(c)
      PROVE  Service!Ask(c)
  BY <1>2 DEF Forward, Push, Service!Ask, RequestOf
<1>3. ASSUME NEW c \in Callers, Return(c)
      PROVE  Service!Grant(c) \/ Service!Refuse(c)
  BY <1>3 DEF Return, HaltInv, Service!Grant, Service!Refuse, RequestOf
<1>4. ASSUME NEW c \in Callers, InForward(c)
      PROVE  Service!Grant(c) \/ Service!Refuse(c) \/ UNCHANGED Service!vars
  <2>1. CASE Sleep(c)
    BY <2>1 DEF Sleep, Service!vars, RequestOf
  <2>2. CASE Return(c)
    BY <1>3, <2>2
  <2>3. QED
    BY <1>4, <2>1, <2>2, Spurious = FALSE DEF InForward, SpuriousWakeup
<1>5. ASSUME NEW c \in Callers, Halt(c)
      PROVE  Service!Acknowledge(c)
  BY <1>5 DEF Halt, Service!Acknowledge, RequestOf
<1>6. ASSUME NEW w \in Workers, Batch(w)
      PROVE  (\E c \in Callers : Service!Evaluate(c)) \/ UNCHANGED Service!vars
  <2>1. CASE Deliver(w)
    <3> DEFINE c == inputs[w][index[w] + 1]
    <3>1. CASE c \notin Callers \/ call[c] = "idle" \/ output[c]
      BY <2>1, <3>1 DEF Deliver, Notified, Service!vars, RequestOf
    <3>2. CASE c \in Callers /\ call[c] # "idle" /\ ~output[c]
      <4>1. Service!Evaluate(c)
        BY <2>1, <3>2 DEF Deliver, Notified, Service!Evaluate, RequestOf
      <4>2. QED
        BY <3>2, <4>1
    <3>3. QED
      BY <3>1, <3>2
  <2>2. CASE ~Deliver(w)
    <3>1. same
      BY <1>6, <2>2 DEF Batch, WorkerStep, PickBatch, PickSingle, BeginBatch,
                        CopyInput, Evaluate, FinishBatch, WorkerExit
    <3>2. QED
      BY <1>1, <3>1
  <2>3. QED
    BY <2>1, <2>2
<1>7. CASE StopSteps
  <2>1. CASE DrainSet
    BY <2>1 DEF DrainSet, SetDraining, Service!Next, Service!BeginHalt,
                RequestOf
  <2>2. CASE DrainTake \/ DrainDone \/ Join
    BY <1>1, <2>2 DEF DrainTake, TakeQueue, DrainDone, Join, schedulerVars
  <2>3. CASE DrainWake
    BY <2>3 DEF DrainWake, WakeDrained, Notified, Service!vars, RequestOf
  <2>4. CASE ResumeEvals
    <3>1. Service!EndHalt
      BY <2>4 DEF ResumeEvals, Resume, HaltInv, Service!EndHalt, RequestOf
    <3>2. QED
      BY <3>1 DEF Service!Next
  <2>5. QED
    BY <1>7, <2>1, <2>2, <2>3, <2>4 DEF StopSteps
<1>8. ASSUME \/ \E c \in Callers : Leave(c)
             \/ StartSearch \/ StopSearch \/ Close \/ JoinWorkers
             \/ Terminated \/ UNCHANGED vars
      PROVE  same
  BY <1>8 DEF Leave, StartSearch, StopSearch, Close, StopRunning, JoinWorkers,
              Terminated, vars, schedulerVars
<1>9. QED
  BY <1>1, <1>2, <1>4, <1>5, <1>6, <1>7, <1>8
     DEF Next, Service!Next, Service!Answer

(* The queue, the batches, the condition variables and the drain together  *)
(* do what EvalService promises the search.                                *)
THEOREM Refinement ==
    ASSUME Spurious = FALSE
    PROVE  Spec => ImplementsService
<1>1. Init => Service!Init
  BY DEF Init, SchedulerInit, Service!Init, RequestOf
<1>2. TypeOK /\ HaltInv /\ [Next]_vars => [Service!Next]_(Service!vars)
  BY ServiceStep
<1>3. QED
  BY <1>1, <1>2, TypeCorrect, HaltInvariant, PTL
     DEF Spec, ImplementsService, Service!Spec

-----------------------------------------------------------------------------
(* Who holds an entry.  Each entry is in one place: at one position of the *)
(* queue, of drain()'s own list, or of the part of a worker's batch that   *)
(* is not yet delivered; and its caller is still inside forward().         *)

Pending == {c \in Callers : call[c] \in {"pushed", "waiting"}}

(* The positions of a batch still to be delivered, for a worker at state s *)
(* and loop index i with batch b.                                          *)
Rest(s, i, b) == (IF s = "deliver" THEN i ELSE 0) + 1 .. Len(b)

QueuePending == \A i \in 1 .. Len(m_forward_queue) :
                    m_forward_queue[i] \in Pending
QueueOnce == \A i, j \in 1 .. Len(m_forward_queue) :
                 m_forward_queue[i] = m_forward_queue[j] => i = j
DrainPending == \A i \in 1 .. Len(fq) : fq[i] \in Pending
DrainOnce == \A i, j \in 1 .. Len(fq) : fq[i] = fq[j] => i = j
QueueOrDrain == \A i \in 1 .. Len(m_forward_queue), j \in 1 .. Len(fq) :
                    m_forward_queue[i] # fq[j]
BatchPending ==
    \A w \in Workers : \A i \in Rest(worker[w], index[w], inputs[w]) :
        inputs[w][i] \in Pending
BatchOnce ==
    \A w \in Workers : \A i, j \in Rest(worker[w], index[w], inputs[w]) :
        inputs[w][i] = inputs[w][j] => i = j
BatchOrQueue ==
    \A w \in Workers : \A i \in Rest(worker[w], index[w], inputs[w]) :
        \A j \in 1 .. Len(m_forward_queue) : inputs[w][i] # m_forward_queue[j]
BatchOrDrain ==
    \A w \in Workers : \A i \in Rest(worker[w], index[w], inputs[w]) :
        \A j \in 1 .. Len(fq) : inputs[w][i] # fq[j]
OneBatch ==
    \A v, w \in Workers :
        v # w => \A i \in Rest(worker[v], index[v], inputs[v]),
                    j \in Rest(worker[w], index[w], inputs[w]) :
                        inputs[v][i] # inputs[w][j]

HolderInv == /\ QueuePending /\ QueueOnce
             /\ DrainPending /\ DrainOnce /\ QueueOrDrain
             /\ BatchPending /\ BatchOnce
             /\ BatchOrQueue /\ BatchOrDrain /\ OneBatch

LEMMA Ranges ==
    ASSUME TypeOK
    PROVE  /\ Len(m_forward_queue) \in Nat /\ Len(fq) \in Nat
           /\ \A w \in Workers : Len(inputs[w]) \in Nat /\ index[w] \in Nat
BY LenProperties DEF TypeOK, SchedulerTypeOK

LEMMA HolderInvInit == Init => HolderInv
BY DEF Init, SchedulerInit, HolderInv, QueuePending, QueueOnce, DrainPending,
       DrainOnce, QueueOrDrain, BatchPending, BatchOnce, BatchOrQueue,
       BatchOrDrain, OneBatch, Rest

(* A step that moves no entry and makes no caller leave the wait.          *)
LEMMA HolderInvKept ==
    ASSUME TypeOK, HolderInv,
           m_forward_queue' = m_forward_queue,
           fq' = fq,
           Pending \subseteq Pending',
           inputs' = inputs,
           \A w \in Workers : Rest(worker'[w], index'[w], inputs[w])
                                = Rest(worker[w], index[w], inputs[w])
    PROVE  HolderInv'
<1>1. QueuePending' /\ QueueOnce' /\ DrainPending' /\ DrainOnce'
      /\ QueueOrDrain'
  BY DEF HolderInv, QueuePending, QueueOnce, DrainPending, DrainOnce,
         QueueOrDrain
<1>2. BatchPending' /\ BatchOnce'
  BY DEF HolderInv, BatchPending, BatchOnce
<1>3. BatchOrQueue' /\ BatchOrDrain' /\ OneBatch'
  BY DEF HolderInv, BatchOrQueue, BatchOrDrain, OneBatch
<1>4. QED
  BY <1>1, <1>2, <1>3 DEF HolderInv

LEMMA HolderInvPush ==
    ASSUME TypeOK, HolderInv, NEW c \in Callers, Push(c)
    PROVE  HolderInv'
<1>1. /\ Len(m_forward_queue') = Len(m_forward_queue) + 1
      /\ \A i \in 1 .. Len(m_forward_queue) :
            m_forward_queue'[i] = m_forward_queue[i]
      /\ m_forward_queue'[Len(m_forward_queue) + 1] = c
  BY DEF Push, TypeOK, SchedulerTypeOK
<1>2. Len(m_forward_queue) \in Nat /\ Len(fq) \in Nat
  BY Ranges
<1>3. c \notin Pending /\ Pending' = Pending \cup {c}
  BY DEF Push, Pending, TypeOK, SchedulerTypeOK
<1>4. UNCHANGED <<fq, inputs, index, worker>>
  BY DEF Push
<1>5. QueuePending' /\ QueueOnce'
  BY <1>1, <1>2, <1>3 DEF HolderInv, QueuePending, QueueOnce
<1>6. DrainPending' /\ DrainOnce' /\ QueueOrDrain'
  BY <1>1, <1>2, <1>3, <1>4 DEF HolderInv, DrainPending, DrainOnce, QueueOrDrain
<1>7. BatchPending' /\ BatchOnce'
  BY <1>3, <1>4 DEF HolderInv, BatchPending, BatchOnce
<1>8. BatchOrQueue'
  BY <1>1, <1>2, <1>3, <1>4 DEF HolderInv, BatchOrQueue, BatchPending
<1>9. BatchOrDrain' /\ OneBatch'
  BY <1>4 DEF HolderInv, BatchOrDrain, OneBatch
<1>10. QED
  BY <1>5, <1>6, <1>7, <1>8, <1>9 DEF HolderInv

LEMMA HolderInvTake ==
    ASSUME TypeOK, HolderInv, NEW w \in Workers,
           NEW n \in 0 .. Len(m_forward_queue), Take(w, n),
           UNCHANGED <<call, fq>>
    PROVE  HolderInv'
<1> DEFINE q == m_forward_queue
<1>1. /\ Len(q) \in Nat /\ Len(fq) \in Nat /\ n \in Nat
      /\ Pending' = Pending /\ fq' = fq
  BY Ranges DEF Pending
<1>2. /\ Len(SubSeq(q, 1, n)) = n
      /\ \A i \in 1 .. n : SubSeq(q, 1, n)[i] = q[i]
      /\ Len(SubSeq(q, n + 1, Len(q))) = Len(q) - n
      /\ \A i \in 1 .. Len(q) - n : SubSeq(q, n + 1, Len(q))[i] = q[n + i]
  <2>1. q \in Seq(Callers)
    BY DEF TypeOK, SchedulerTypeOK
  <2>2. QED
    BY <2>1, Split
<1>3. /\ Len(q') = Len(q) - n
      /\ \A i \in 1 .. Len(q) - n : q'[i] = q[n + i]
  <2>1. q' = SubSeq(q, n + 1, Len(q))
    BY DEF Take
  <2>2. QED
    BY <1>2, <2>1
<1>4. /\ Len(inputs'[w]) = n
      /\ \A i \in 1 .. n : inputs'[w][i] = q[i]
      /\ worker'[w] = "picked"
      /\ Rest(worker'[w], index'[w], inputs'[w]) = 1 .. n
  <2>1. inputs'[w] = SubSeq(q, 1, n) /\ worker'[w] = "picked"
    BY DEF Take, TypeOK, SchedulerTypeOK
  <2>2. QED
    BY <1>1, <1>2, <2>1 DEF Rest
<1>5. \A v \in Workers \ {w} :
          inputs'[v] = inputs[v] /\ worker'[v] = worker[v]
          /\ index'[v] = index[v]
  BY DEF Take, TypeOK, SchedulerTypeOK
<1>6. QueuePending' /\ QueueOnce'
  <2>1. \A i \in 1 .. Len(q') : n + i \in 1 .. Len(q) /\ q'[i] = q[n + i]
    BY <1>1, <1>3
  <2>2. \A i, j \in 1 .. Len(q') : q[n + i] = q[n + j] => i = j
    BY <1>1, <1>3, <2>1 DEF HolderInv, QueueOnce
  <2>3. QED
    BY <1>1, <2>1, <2>2 DEF HolderInv, QueuePending, QueueOnce
<1>7. DrainPending' /\ DrainOnce' /\ QueueOrDrain'
  BY <1>1, <1>3 DEF HolderInv, DrainPending, DrainOnce, QueueOrDrain
<1>8. BatchPending' /\ BatchOnce'
  BY <1>1, <1>4, <1>5
     DEF HolderInv, BatchPending, BatchOnce, QueuePending, QueueOnce
<1>9. BatchOrQueue'
  <2>1. \A j \in 1 .. Len(q') : n + j \in 1 .. Len(q) /\ q'[j] = q[n + j]
    BY <1>1, <1>3
  <2>2. \A i \in 1 .. n, j \in 1 .. Len(q') :
            i \in 1 .. Len(q) /\ i # n + j
    BY <1>1, <1>3
  <2>3. \A i \in 1 .. n, j \in 1 .. Len(q') : q[i] # q'[j]
    BY <2>1, <2>2 DEF HolderInv, QueueOnce
  <2>4. \A v \in Workers \ {w} :
            \A i \in Rest(worker[v], index[v], inputs[v]),
               j \in 1 .. Len(q') : inputs[v][i] # q'[j]
    BY <2>1 DEF HolderInv, BatchOrQueue
  <2>5. QED
    BY <1>4, <1>5, <2>3, <2>4 DEF BatchOrQueue
<1>10. BatchOrDrain'
  BY <1>1, <1>4, <1>5 DEF HolderInv, BatchOrDrain, QueueOrDrain
<1>11. OneBatch'
  BY <1>1, <1>4, <1>5 DEF HolderInv, OneBatch, BatchOrQueue
<1>12. QED
  BY <1>6, <1>7, <1>8, <1>9, <1>10, <1>11 DEF HolderInv

LEMMA HolderInvDeliver ==
    ASSUME TypeOK, HolderInv, NEW w \in Workers, Deliver(w)
    PROVE  HolderInv'
<1> DEFINE c == inputs[w][index[w] + 1]
<1>1. /\ Len(inputs[w]) \in Nat /\ index[w] \in Nat
      /\ index[w] + 1 \in Rest(worker[w], index[w], inputs[w])
  BY Ranges DEF Deliver, Rest
<1>2. /\ UNCHANGED <<m_forward_queue, fq, inputs, worker>>
      /\ Pending \ {c} \subseteq Pending'
  BY DEF Deliver, Notified, Pending, TypeOK, SchedulerTypeOK
<1>3. /\ index'[w] = index[w] + 1
      /\ \A v \in Workers \ {w} : index'[v] = index[v]
      /\ Rest(worker'[w], index'[w], inputs'[w])
            = Rest(worker[w], index[w], inputs[w]) \ {index[w] + 1}
  BY <1>1 DEF Deliver, TypeOK, SchedulerTypeOK, Rest
<1>4. QueuePending' /\ QueueOnce'
  BY <1>1, <1>2 DEF HolderInv, QueuePending, QueueOnce, BatchOrQueue
<1>5. DrainPending' /\ DrainOnce' /\ QueueOrDrain'
  BY <1>1, <1>2 DEF HolderInv, DrainPending, DrainOnce, QueueOrDrain,
                    BatchOrDrain
<1>6. BatchPending'
  <2>1. ASSUME NEW v \in Workers \ {w},
               NEW i \in Rest(worker[v], index[v], inputs[v])
        PROVE  inputs[v][i] \in Pending'
    BY <1>1, <1>2 DEF HolderInv, BatchPending, OneBatch
  <2>2. ASSUME NEW i \in Rest(worker'[w], index'[w], inputs'[w])
        PROVE  inputs[w][i] \in Pending'
    BY <1>1, <1>2, <1>3 DEF HolderInv, BatchPending, BatchOnce
  <2>3. QED
    BY <1>2, <1>3, <2>1, <2>2 DEF BatchPending
<1>7. BatchOnce' /\ BatchOrQueue'
  BY <1>2, <1>3 DEF HolderInv, BatchOnce, BatchOrQueue
<1>8. BatchOrDrain' /\ OneBatch'
  BY <1>2, <1>3 DEF HolderInv, BatchOrDrain, OneBatch
<1>9. QED
  BY <1>4, <1>5, <1>6, <1>7, <1>8 DEF HolderInv

LEMMA HolderInvFinish ==
    ASSUME TypeOK, HolderInv, NEW w \in Workers, FinishBatch(w)
    PROVE  HolderInv'
<1>1. /\ UNCHANGED <<m_forward_queue, fq, call>>
      /\ Pending' = Pending
  BY DEF FinishBatch, Pending
<1>2. /\ Rest(worker'[w], index'[w], inputs'[w]) = {}
      /\ \A v \in Workers \ {w} :
            inputs'[v] = inputs[v] /\ worker'[v] = worker[v]
            /\ index'[v] = index[v]
  BY DEF FinishBatch, TypeOK, SchedulerTypeOK, Rest
<1>3. QueuePending' /\ QueueOnce' /\ DrainPending' /\ DrainOnce'
      /\ QueueOrDrain'
  BY <1>1 DEF HolderInv, QueuePending, QueueOnce, DrainPending, DrainOnce,
              QueueOrDrain
<1>4. BatchPending' /\ BatchOnce'
  BY <1>1, <1>2 DEF HolderInv, BatchPending, BatchOnce
<1>5. BatchOrQueue' /\ BatchOrDrain' /\ OneBatch'
  BY <1>1, <1>2 DEF HolderInv, BatchOrQueue, BatchOrDrain, OneBatch
<1>6. QED
  BY <1>3, <1>4, <1>5 DEF HolderInv

LEMMA HolderInvTakeQueue ==
    ASSUME TypeOK, HolderInv, TakeQueue
    PROVE  HolderInv'
<1>1. /\ fq' = m_forward_queue /\ Len(m_forward_queue') = 0
      /\ UNCHANGED <<inputs, worker, index>>
      /\ Pending' = Pending
  BY DEF TakeQueue, Pending
<1>2. QueuePending' /\ QueueOnce' /\ DrainPending' /\ DrainOnce'
      /\ QueueOrDrain'
  BY <1>1 DEF HolderInv, QueuePending, QueueOnce, DrainPending, DrainOnce,
              QueueOrDrain
<1>3. BatchPending' /\ BatchOnce' /\ OneBatch'
  BY <1>1 DEF HolderInv, BatchPending, BatchOnce, OneBatch
<1>4. BatchOrQueue' /\ BatchOrDrain'
  BY <1>1 DEF HolderInv, BatchOrQueue, BatchOrDrain
<1>5. QED
  BY <1>2, <1>3, <1>4 DEF HolderInv

LEMMA HolderInvWake ==
    ASSUME TypeOK, HolderInv, WakeDrained
    PROVE  HolderInv'
<1>1. /\ fq # <<>> /\ fq \in Seq(Callers)
      /\ Len(fq) \in Nat /\ 1 \in 1 .. Len(fq) /\ Head(fq) = fq[1]
      /\ Len(fq') = Len(fq) - 1
      /\ \A i \in 1 .. Len(fq') : fq'[i] = fq[i + 1]
  BY HeadTailProperties, EmptySeq, LenProperties
     DEF WakeDrained, TypeOK, SchedulerTypeOK
<1>2. /\ UNCHANGED <<m_forward_queue, inputs, worker, index>>
      /\ Pending \ {fq[1]} \subseteq Pending'
  BY <1>1 DEF WakeDrained, Notified, Pending, TypeOK, SchedulerTypeOK
<1>3. QueuePending' /\ QueueOnce'
  BY <1>1, <1>2 DEF HolderInv, QueuePending, QueueOnce, QueueOrDrain
<1>4. DrainPending' /\ DrainOnce' /\ QueueOrDrain'
  BY <1>1, <1>2 DEF HolderInv, DrainPending, DrainOnce, QueueOrDrain
<1>5. BatchPending' /\ BatchOnce'
  BY <1>1, <1>2 DEF HolderInv, BatchPending, BatchOnce, BatchOrDrain
<1>6. BatchOrQueue' /\ BatchOrDrain' /\ OneBatch'
  BY <1>1, <1>2 DEF HolderInv, BatchOrQueue, BatchOrDrain, OneBatch
<1>7. QED
  BY <1>3, <1>4, <1>5, <1>6 DEF HolderInv

LEMMA HolderInvWorker ==
    ASSUME TypeOK, HolderInv, NEW w \in Workers, WorkerStep(w)
    PROVE  HolderInv'
<1>1. CASE PickBatch(w)
  <2>1. BatchSize \in 0 .. Len(m_forward_queue)
    BY <1>1, Ranges, SchedulerAssumption DEF PickBatch
  <2>2. QED
    BY <1>1, <2>1, HolderInvTake DEF PickBatch
<1>2. CASE PickSingle(w)
  <2>1. 1 \in 0 .. Len(m_forward_queue)
    BY <1>2, Ranges, SchedulerAssumption DEF PickSingle
  <2>2. QED
    BY <1>2, <2>1, HolderInvTake DEF PickSingle
<1>3. CASE BeginBatch(w) \/ CopyInput(w) \/ Evaluate(w) \/ WorkerExit(w)
  <2>1. UNCHANGED <<m_forward_queue, fq, call, inputs>>
    BY <1>3 DEF BeginBatch, CopyInput, Evaluate, WorkerExit
  <2>2. \A v \in Workers : Rest(worker'[v], index'[v], inputs[v])
                             = Rest(worker[v], index[v], inputs[v])
    BY <1>3 DEF BeginBatch, CopyInput, Evaluate, WorkerExit, Rest, TypeOK,
                SchedulerTypeOK
  <2>3. Pending' = Pending
    BY <2>1 DEF Pending
  <2>4. QED
    BY <2>1, <2>2, <2>3, HolderInvKept
<1>4. CASE Deliver(w)
  BY <1>4, HolderInvDeliver
<1>5. CASE FinishBatch(w)
  BY <1>5, HolderInvFinish
<1>6. QED
  BY <1>1, <1>2, <1>3, <1>4, <1>5, WorkerStep(w) DEF WorkerStep

LEMMA HolderInvNext ==
    ASSUME Spurious = FALSE, TypeOK, HolderInv, [Next]_vars
    PROVE  HolderInv'
<1> DEFINE kept == /\ UNCHANGED <<m_forward_queue, fq, inputs, index, worker>>
                   /\ Pending \subseteq Pending'
<1>1. ASSUME kept
      PROVE  HolderInv'
  BY <1>1, HolderInvKept
<1>2. ASSUME NEW c \in Callers, Forward(c)
      PROVE  HolderInv'
  BY <1>2, HolderInvPush DEF Forward
<1>3. ASSUME NEW c \in Callers, InForward(c)
      PROVE  kept
  <2>1. CASE Sleep(c)
    BY <2>1 DEF Sleep, Pending, TypeOK, SchedulerTypeOK
  <2>2. CASE Return(c)
    BY <2>2 DEF Return, Pending, TypeOK, SchedulerTypeOK
  <2>3. QED
    BY <1>3, <2>1, <2>2, Spurious = FALSE DEF InForward, SpuriousWakeup
<1>4. ASSUME NEW w \in Workers, Batch(w)
      PROVE  HolderInv'
  BY <1>4, HolderInvWorker DEF Batch
<1>5. CASE DrainTake
  BY <1>5, HolderInvTakeQueue DEF DrainTake
<1>6. CASE DrainWake
  BY <1>6, HolderInvWake DEF DrainWake
<1>7. ASSUME \/ \E c \in Callers : Leave(c) \/ Halt(c)
             \/ DrainSet \/ DrainDone \/ Join \/ ResumeEvals
             \/ StartSearch \/ StopSearch \/ Close \/ JoinWorkers
             \/ Terminated \/ UNCHANGED vars
      PROVE  kept
  <2>1. UNCHANGED <<m_forward_queue, fq, inputs, index, worker, call>>
    BY <1>7 DEF Leave, Halt, DrainSet, SetDraining, DrainDone, Join,
                ResumeEvals, Resume, StartSearch, StopSearch, Close,
                StopRunning, JoinWorkers, Terminated, vars, schedulerVars
  <2>2. QED
    BY <2>1 DEF Pending
<1>8. QED
  BY <1>1, <1>2, <1>3, <1>4, <1>5, <1>6, <1>7 DEF Next, StopSteps

(* An entry is never in two places, so it is answered at most once, and    *)
(* what is in some place has a caller that still waits for it.             *)
THEOREM HolderInvariant ==
    ASSUME Spurious = FALSE
    PROVE  Spec => []HolderInv
<1>1. TypeOK /\ HolderInv /\ [Next]_vars => HolderInv'
  BY HolderInvNext
<1>2. QED
  BY <1>1, HolderInvInit, TypeCorrect, PTL DEF Spec

(* The assertion of resume(): the drain took what was queued, whatever was *)
(* pushed after it was answered by a worker or is in its hands, and all    *)
(* callers are gone before resume() is called.                             *)
THEOREM ResumeSafe ==
    ASSUME Spurious = FALSE
    PROVE  Spec => []ResumeFindsQueueEmpty
<1>1. TypeOK /\ HaltInv /\ HolderInv => ResumeFindsQueueEmpty
  <2> SUFFICES ASSUME TypeOK, HaltInv, HolderInv, main = "resuming"
               PROVE  m_forward_queue = <<>>
    BY DEF ResumeFindsQueueEmpty
  <2>1. \A c \in Callers : call[c] = "idle"
    BY DEF HaltInv
  <2>2. Pending = {}
    BY <2>1 DEF Pending
  <2>3. m_forward_queue \in Seq(Callers) /\ Len(m_forward_queue) \in Nat
    BY Ranges DEF TypeOK, SchedulerTypeOK
  <2>4. Len(m_forward_queue) = 0
    BY <2>2, <2>3 DEF HolderInv, QueuePending
  <2>5. QED
    BY <2>3, <2>4, EmptySeq
<1>2. QED
  BY <1>1, TypeCorrect, HaltInvariant, HolderInvariant, PTL

-----------------------------------------------------------------------------
(* No entry is lost.  Each pending caller has its entry somewhere, which   *)
(* needs two things of the code: drain() has woken all it took before the  *)
(* next drain takes the queue, and notify_all() never comes between a push *)
(* and its wait, because the entry's mutex was locked once since.          *)

Queued(c) == \E i \in 1 .. Len(m_forward_queue) : m_forward_queue[i] = c
Drained(c) == \E i \in 1 .. Len(fq) : fq[i] = c
Batched(c) == \E w \in Workers :
                  \E i \in Rest(worker[w], index[w], inputs[w]) :
                      inputs[w][i] = c

SomewhereHeld == \A c \in Pending : Queued(c) \/ Drained(c) \/ Batched(c)

\* What a worker has copied, and so locked, belongs to a caller that sleeps.
CopiedSleep ==
    \A w \in Workers : \A i \in Rest(worker[w], index[w], inputs[w]) :
        \/ worker[w] \in {"eval", "deliver"}
        \/ worker[w] = "copy" /\ i <= index[w]
        => call[inputs[w][i]] # "pushed"

LossInv ==
    /\ fq # <<>> => main = "waking"
    /\ \A w \in Workers : /\ worker[w] = "pickup" => inputs[w] = <<>>
                          /\ worker[w] = "picked" => index[w] = 0
    /\ CopiedSleep
    /\ SomewhereHeld

LEMMA LossInvInit == Init => LossInv
BY DEF Init, SchedulerInit, LossInv, CopiedSleep, SomewhereHeld, Pending

\* Steps that move no entry and let nobody start to wait or stop waiting.
LEMMA LossInvKept ==
    ASSUME TypeOK, LossInv,
           UNCHANGED <<m_forward_queue, fq, inputs>>,
           fq # <<>> => main' = "waking",
           \A w \in Workers : worker'[w] \in {"pickup", "picked"} =>
               worker'[w] = worker[w] /\ index'[w] = index[w],
           CopiedSleep',
           Pending' \subseteq Pending,
           \A w \in Workers : Rest(worker'[w], index'[w], inputs[w])
                                = Rest(worker[w], index[w], inputs[w])
    PROVE  LossInv'
<1>1. SomewhereHeld'
  BY DEF LossInv, SomewhereHeld, Queued, Drained, Batched
<1>2. QED
  BY <1>1 DEF LossInv

LEMMA LossInvPush ==
    ASSUME TypeOK, HolderInv, LossInv, NEW c \in Callers, Push(c),
           UNCHANGED main
    PROVE  LossInv'
<1>1. /\ Len(m_forward_queue) \in Nat
      /\ Len(m_forward_queue') = Len(m_forward_queue) + 1
      /\ \A i \in 1 .. Len(m_forward_queue) :
            m_forward_queue'[i] = m_forward_queue[i]
      /\ m_forward_queue'[Len(m_forward_queue) + 1] = c
  BY Ranges DEF Push, TypeOK, SchedulerTypeOK
<1>2. /\ c \notin Pending /\ Pending' = Pending \cup {c}
      /\ \A d \in Callers \ {c} : call'[d] = call[d]
  BY DEF Push, Pending, TypeOK, SchedulerTypeOK
<1>3. UNCHANGED <<fq, inputs, index, worker>>
  BY DEF Push
<1>4. CopiedSleep'
  <2>1. \A w \in Workers : \A i \in Rest(worker[w], index[w], inputs[w]) :
            inputs[w][i] \in Callers \ {c}
    BY <1>2 DEF HolderInv, BatchPending, Pending
  <2>2. QED
    BY <1>2, <1>3, <2>1 DEF LossInv, CopiedSleep
<1>5. SomewhereHeld'
  <2>1. \A d : Queued(d) => Queued(d)'
    BY <1>1 DEF Queued
  <2>2. Queued(c)'
    BY <1>1 DEF Queued
  <2>3. \A d : (Drained(d) => Drained(d)') /\ (Batched(d) => Batched(d)')
    BY <1>3 DEF Drained, Batched
  <2>4. QED
    BY <1>2, <2>1, <2>2, <2>3 DEF LossInv, SomewhereHeld
<1>6. QED
  BY <1>3, <1>4, <1>5 DEF LossInv

LEMMA LossInvTake ==
    ASSUME TypeOK, HolderInv, LossInv, NEW w \in Workers,
           NEW n \in 0 .. Len(m_forward_queue), Take(w, n),
           worker[w] = "pickup", UNCHANGED <<call, fq, main>>
    PROVE  LossInv'
<1> DEFINE q == m_forward_queue
<1>1. /\ Len(q) \in Nat /\ n \in Nat /\ n <= Len(q)
      /\ Pending' = Pending
  BY Ranges DEF Pending
<1>2. /\ Len(SubSeq(q, 1, n)) = n
      /\ \A i \in 1 .. n : SubSeq(q, 1, n)[i] = q[i]
      /\ Len(SubSeq(q, n + 1, Len(q))) = Len(q) - n
      /\ \A i \in 1 .. Len(q) - n : SubSeq(q, n + 1, Len(q))[i] = q[n + i]
  <2>1. q \in Seq(Callers)
    BY DEF TypeOK, SchedulerTypeOK
  <2>2. QED
    BY <2>1, Split
<1>3. /\ Len(q') = Len(q) - n
      /\ \A i \in 1 .. Len(q) - n : q'[i] = q[n + i]
  <2>1. q' = SubSeq(q, n + 1, Len(q))
    BY DEF Take
  <2>2. QED
    BY <1>2, <2>1
<1>4. /\ \A i \in 1 .. n : inputs'[w][i] = q[i]
      /\ worker'[w] = "picked" /\ index'[w] = 0
      /\ Rest(worker'[w], index'[w], inputs'[w]) = 1 .. n
  <2>1. /\ inputs'[w] = SubSeq(q, 1, n)
        /\ worker'[w] = "picked" /\ index'[w] = 0
    BY DEF Take, TypeOK, SchedulerTypeOK
  <2>2. QED
    BY <1>1, <1>2, <2>1 DEF Rest
<1>5. \A v \in Workers \ {w} :
          inputs'[v] = inputs[v] /\ worker'[v] = worker[v]
          /\ index'[v] = index[v]
  BY DEF Take, TypeOK, SchedulerTypeOK
<1>6. Rest(worker[w], index[w], inputs[w]) = {}
  BY DEF LossInv, Rest
<1>7. SomewhereHeld'
  <2>1. \A d : Queued(d) => Queued(d)' \/ Batched(d)'
    <3> SUFFICES ASSUME NEW CONSTANT d, NEW i \in 1 .. Len(q), q[i] = d
                 PROVE  Queued(d)' \/ Batched(d)'
      BY DEF Queued
    <3>2. CASE i <= n
      <4>1. i \in 1 .. n
        BY <1>1, <3>2
      <4>2. QED
        BY <1>4, <4>1 DEF Batched
    <3>3. CASE i > n
      <4>1. i - n \in 1 .. Len(q) - n /\ n + (i - n) = i
        BY <1>1, <3>3
      <4>2. QED
        BY <1>3, <4>1 DEF Queued
    <3>4. QED
      BY <1>1, <3>2, <3>3
  <2>2. \A d : Batched(d) => Batched(d)'
    BY <1>5, <1>6 DEF Batched
  <2>3. \A d : Drained(d) => Drained(d)'
    BY DEF Drained
  <2>4. QED
    BY <1>1, <2>1, <2>2, <2>3 DEF LossInv, SomewhereHeld
<1>8. CopiedSleep'
  BY <1>4, <1>5 DEF LossInv, CopiedSleep
<1>9. QED
  BY <1>4, <1>5, <1>7, <1>8 DEF LossInv

\* The worker wakes a caller that sleeps, so the notification is not lost.
LEMMA LossInvDeliver ==
    ASSUME TypeOK, HolderInv, LossInv, NEW w \in Workers, Deliver(w),
           UNCHANGED main
    PROVE  LossInv'
<1> DEFINE c == inputs[w][index[w] + 1]
<1>1. /\ Len(inputs[w]) \in Nat /\ index[w] \in Nat
      /\ index[w] + 1 \in Rest(worker[w], index[w], inputs[w])
      /\ worker[w] = "deliver"
  BY Ranges DEF Deliver, Rest
<1>2. c \in Callers /\ call[c] = "waiting"
  BY <1>1 DEF HolderInv, BatchPending, Pending, LossInv, CopiedSleep
<1>3. /\ UNCHANGED <<m_forward_queue, fq, inputs, worker>>
      /\ call' = [call EXCEPT ![c] = "woken"]
  BY <1>2 DEF Deliver, Notified
<1>4. Pending' = Pending \ {c}
  BY <1>2, <1>3 DEF Pending, TypeOK, SchedulerTypeOK
<1>5. /\ \A v \in Workers \ {w} : index'[v] = index[v]
      /\ Rest(worker'[w], index'[w], inputs'[w])
            = Rest(worker[w], index[w], inputs[w]) \ {index[w] + 1}
  BY <1>1 DEF Deliver, TypeOK, SchedulerTypeOK, Rest
<1>6. SomewhereHeld'
  <2>1. \A d : (Queued(d) => Queued(d)') /\ (Drained(d) => Drained(d)')
    BY <1>3 DEF Queued, Drained
  <2>2. \A d : d # c /\ Batched(d) => Batched(d)'
    BY <1>3, <1>5 DEF Batched
  <2>3. QED
    BY <1>4, <2>1, <2>2 DEF LossInv, SomewhereHeld
<1>7. CopiedSleep'
  <2>1. \A v \in Workers :
            /\ Rest(worker'[v], index'[v], inputs'[v])
                  \subseteq Rest(worker[v], index[v], inputs[v])
            /\ worker[v] = "copy" => index'[v] = index[v]
    BY <1>1, <1>3, <1>5
  <2>2. \A d \in Callers : call'[d] = "pushed" => call[d] = "pushed"
    BY <1>3 DEF TypeOK, SchedulerTypeOK
  <2>3. \A v \in Workers : \A i \in Rest(worker[v], index[v], inputs[v]) :
            inputs[v][i] \in Callers
    BY DEF HolderInv, BatchPending, Pending
  <2>4. QED
    BY <1>3, <2>1, <2>2, <2>3 DEF LossInv, CopiedSleep
<1>8. QED
  BY <1>1, <1>3, <1>5, <1>6, <1>7 DEF LossInv

\* The worker goes on without moving an entry out of its batch.
LEMMA LossInvWorker ==
    ASSUME TypeOK, HolderInv, LossInv, NEW w \in Workers, WorkerStep(w),
           UNCHANGED main
    PROVE  LossInv'
<1> USE DEF TypeOK, SchedulerTypeOK
<1>1. CASE PickBatch(w)
  <2>1. BatchSize \in 0 .. Len(m_forward_queue)
    BY <1>1, Ranges, SchedulerAssumption DEF PickBatch
  <2>2. QED
    BY <1>1, <2>1, LossInvTake DEF PickBatch
<1>2. CASE PickSingle(w)
  <2>1. 1 \in 0 .. Len(m_forward_queue)
    BY <1>2, Ranges, SchedulerAssumption DEF PickSingle
  <2>2. QED
    BY <1>2, <2>1, LossInvTake DEF PickSingle
<1>3. CASE BeginBatch(w) \/ CopyInput(w) \/ Evaluate(w) \/ WorkerExit(w)
  <2>1. UNCHANGED <<m_forward_queue, fq, call, inputs>>
    BY <1>3 DEF BeginBatch, CopyInput, Evaluate, WorkerExit
  <2>2. \A v \in Workers : Rest(worker'[v], index'[v], inputs[v])
                             = Rest(worker[v], index[v], inputs[v])
    BY <1>3 DEF BeginBatch, CopyInput, Evaluate, WorkerExit, Rest
  <2>3. CopiedSleep'
    <3>1. \A v \in Workers \ {w} :
              worker'[v] = worker[v] /\ index'[v] = index[v]
      BY <1>3 DEF BeginBatch, CopyInput, Evaluate, WorkerExit
    <3>2. ASSUME NEW i \in Rest(worker[w], index[w], inputs[w]),
                 \/ worker'[w] \in {"eval", "deliver"}
                 \/ worker'[w] = "copy" /\ i <= index'[w]
          PROVE  call[inputs[w][i]] # "pushed"
      <4>1. CASE BeginBatch(w)
        BY <3>2, <4>1, Ranges DEF BeginBatch, LossInv, Rest
      <4>2. CASE CopyInput(w)
        <5>1. /\ index[w] \in Nat /\ i \in Int
              /\ worker[w] = "copy"
              /\ call[inputs[w][index[w] + 1]] # "pushed"
              /\ i <= index[w] + 1
          BY <3>2, <4>2, Ranges DEF CopyInput, EntryUnlocked, Rest
        <5>2. CASE i <= index[w]
          BY <5>1, <5>2 DEF LossInv, CopiedSleep
        <5>3. CASE i = index[w] + 1
          BY <5>1, <5>3
        <5>4. QED
          BY <5>1, <5>2, <5>3
      <4>3. CASE Evaluate(w)
        BY <3>2, <4>3 DEF Evaluate, LossInv, CopiedSleep
      <4>4. CASE WorkerExit(w)
        BY <3>2, <4>4 DEF WorkerExit
      <4>5. QED
        BY <1>3, <4>1, <4>2, <4>3, <4>4
    <3>3. QED
      BY <2>1, <2>2, <3>1, <3>2 DEF LossInv, CopiedSleep
  <2>4. \A v \in Workers : worker'[v] \in {"pickup", "picked"} =>
            worker'[v] = worker[v] /\ index'[v] = index[v]
    BY <1>3 DEF BeginBatch, CopyInput, Evaluate, WorkerExit
  <2>5. QED
    BY <2>1, <2>2, <2>3, <2>4, LossInvKept DEF LossInv, Pending
<1>4. CASE Deliver(w)
  BY <1>4, LossInvDeliver
<1>5. CASE FinishBatch(w)
  <2>1. /\ UNCHANGED <<m_forward_queue, fq, call>>
        /\ inputs'[w] = <<>> /\ worker'[w] = "pickup"
        /\ \A v \in Workers \ {w} :
              inputs'[v] = inputs[v] /\ worker'[v] = worker[v]
              /\ index'[v] = index[v]
        /\ Rest(worker[w], index[w], inputs[w]) = {}
        /\ Rest(worker'[w], index'[w], inputs'[w]) = {}
    BY <1>5, Ranges DEF FinishBatch, Rest
  <2>2. \A d : /\ Queued(d) => Queued(d)'
               /\ Drained(d) => Drained(d)'
               /\ Batched(d) => Batched(d)'
    BY <2>1 DEF Queued, Drained, Batched
  <2>3. SomewhereHeld'
    BY <2>1, <2>2 DEF LossInv, SomewhereHeld, Pending
  <2>4. CopiedSleep'
    BY <2>1 DEF LossInv, CopiedSleep
  <2>5. QED
    BY <2>1, <2>3, <2>4 DEF LossInv
<1>6. QED
  BY <1>1, <1>2, <1>3, <1>4, <1>5, WorkerStep(w) DEF WorkerStep

\* drain() takes the queue with an empty list, and wakes callers that sleep.
LEMMA LossInvDrain ==
    ASSUME TypeOK, HolderInv, LossInv, DrainTake \/ DrainWake
    PROVE  LossInv'
<1>1. CASE DrainTake
  <2>1. /\ fq = <<>> /\ fq' = m_forward_queue /\ main' = "waking"
        /\ UNCHANGED <<call, inputs, index, worker>>
        /\ Len(fq) = 0
    BY <1>1 DEF DrainTake, TakeQueue, LossInv
  <2>2. SomewhereHeld'
    BY <2>1 DEF LossInv, SomewhereHeld, Pending, Queued, Drained, Batched
  <2>3. QED
    BY <2>1, <2>2 DEF LossInv, CopiedSleep
<1>2. CASE DrainWake
  <2>1. /\ fq # <<>> /\ fq \in Seq(Callers)
        /\ Len(fq) \in Nat /\ 1 \in 1 .. Len(fq) /\ Head(fq) = fq[1]
        /\ fq' = Tail(fq)
        /\ Len(fq') = Len(fq) - 1
        /\ \A i \in 1 .. Len(fq') : fq'[i] = fq[i + 1]
    BY <1>2, HeadTailProperties, EmptySeq, LenProperties
       DEF DrainWake, WakeDrained, TypeOK, SchedulerTypeOK
  <2>2. /\ call[fq[1]] = "waiting" /\ fq[1] \in Callers
        /\ call' = [call EXCEPT ![fq[1]] = "woken"]
        /\ UNCHANGED <<m_forward_queue, inputs, index, worker, main>>
        /\ main = "waking"
    BY <1>2, <2>1 DEF DrainWake, WakeDrained, EntryUnlocked, Notified,
                      HolderInv, DrainPending, Pending
  <2>3. Pending' = Pending \ {fq[1]}
    BY <2>2 DEF Pending, TypeOK, SchedulerTypeOK
  <2>4. SomewhereHeld'
    <3>1. \A d : (Queued(d) => Queued(d)') /\ (Batched(d) => Batched(d)')
      BY <2>2 DEF Queued, Batched
    <3>2. \A d : d # fq[1] /\ Drained(d) => Drained(d)'
      <4>1. \A i \in 1 .. Len(fq) : i # 1 => i - 1 \in 1 .. Len(fq')
                                              /\ fq'[i - 1] = fq[i]
        BY <2>1
      <4>2. QED
        BY <4>1 DEF Drained
    <3>3. QED
      BY <2>3, <3>1, <3>2 DEF LossInv, SomewhereHeld
  <2>5. CopiedSleep'
    <3>1. \A v \in Workers : \A i \in Rest(worker[v], index[v], inputs[v]) :
              inputs[v][i] \in Callers
      BY DEF HolderInv, BatchPending, Pending
    <3>2. QED
      BY <2>2, <3>1 DEF LossInv, CopiedSleep, TypeOK, SchedulerTypeOK
  <2>6. QED
    BY <2>2, <2>4, <2>5 DEF LossInv
<1>3. QED
  BY <1>1, <1>2

LEMMA LossInvNext ==
    ASSUME Spurious = FALSE, TypeOK, HolderInv, LossInv, [Next]_vars
    PROVE  LossInv'
<1>1. ASSUME NEW c \in Callers, Forward(c)
      PROVE  LossInv'
  BY <1>1, LossInvPush DEF Forward
<1>2. ASSUME NEW c \in Callers, InForward(c)
      PROVE  LossInv'
  <2>1. /\ UNCHANGED <<m_forward_queue, fq, inputs, index, worker, main>>
        /\ Pending' = Pending
        /\ \A d \in Callers : call'[d] = "pushed" => call[d] = "pushed"
    <3>1. CASE Sleep(c)
      BY <1>2, <3>1 DEF InForward, Sleep, Pending, TypeOK, SchedulerTypeOK
    <3>2. CASE Return(c)
      BY <1>2, <3>2 DEF InForward, Return, Pending, TypeOK, SchedulerTypeOK
    <3>3. QED
      BY <1>2, <3>1, <3>2, Spurious = FALSE DEF InForward, SpuriousWakeup
  <2>2. CopiedSleep'
    <3>1. \A v \in Workers : \A i \in Rest(worker[v], index[v], inputs[v]) :
              inputs[v][i] \in Callers
      BY DEF HolderInv, BatchPending, Pending
    <3>2. QED
      BY <2>1, <3>1 DEF LossInv, CopiedSleep
  <2>3. QED
    BY <2>1, <2>2, LossInvKept DEF LossInv
<1>3. ASSUME NEW w \in Workers, Batch(w)
      PROVE  LossInv'
  BY <1>3, LossInvWorker DEF Batch
<1>4. CASE DrainTake \/ DrainWake
  BY <1>4, LossInvDrain
<1>5. ASSUME \/ \E c \in Callers : Leave(c) \/ Halt(c)
             \/ DrainSet \/ DrainDone \/ Join \/ ResumeEvals
             \/ StartSearch \/ StopSearch \/ Close \/ JoinWorkers
             \/ Terminated \/ UNCHANGED vars
      PROVE  LossInv'
  <2>1. /\ UNCHANGED <<m_forward_queue, fq, inputs, index, worker, call>>
        /\ fq # <<>> /\ main = "waking" => main' = "waking"
    BY <1>5 DEF Leave, Halt, DrainSet, SetDraining, DrainDone, Join,
                ResumeEvals, Resume, StartSearch, StopSearch, Close,
                StopRunning, JoinWorkers, Terminated, vars, schedulerVars
  <2>2. QED
    BY <2>1, LossInvKept DEF LossInv, CopiedSleep, Pending
<1>6. QED
  BY <1>1, <1>2, <1>3, <1>4, <1>5 DEF Next, StopSteps

LEMMA OneOrNone ==
    ASSUME NEW S, \A x, y \in S : x = y
    PROVE  Cardinality(S) = IF S = {} THEN 0 ELSE 1
<1>1. CASE S = {}
  BY <1>1, FS_EmptySet
<1>2. ASSUME NEW x \in S
      PROVE  Cardinality(S) = 1
  <2>1. S = {x}
    BY <1>2
  <2>2. QED
    BY <2>1, FS_Singleton
<1>3. QED
  BY <1>1, <1>2

(* Every request that has not been answered is held once: by the queue, by *)
(* drain() or by one worker, so that it is woken once and no worker writes *)
(* to the entry of a forward() that has returned.  Only the assumption     *)
(* about wakeups is needed (OpenCLScheduler::forward waits without a       *)
(* predicate).                                                             *)
THEOREM NoneLost ==
    ASSUME Spurious = FALSE
    PROVE  Spec => []NoLostRequest
<1>1. TypeOK /\ HolderInv /\ LossInv => NoLostRequest
  <2> SUFFICES ASSUME TypeOK, HolderInv, LossInv, NEW c \in Callers
               PROVE  LET queued  == {i \in 1 .. Len(m_forward_queue) :
                                          m_forward_queue[i] = c}
                          drained == {i \in 1 .. Len(fq) : fq[i] = c}
                          batched == {p \in Workers \X (1 .. BatchSize) :
                                        /\ p[2] <= Len(inputs[p[1]])
                                        /\ worker[p[1]] = "deliver"
                                             => p[2] > index[p[1]]
                                        /\ inputs[p[1]][p[2]] = c}
                      IN  Cardinality(queued) + Cardinality(drained)
                            + Cardinality(batched)
                          = IF call[c] \in {"pushed", "waiting"} THEN 1 ELSE 0
    BY DEF NoLostRequest
  <2> DEFINE queued  == {i \in 1 .. Len(m_forward_queue) :
                             m_forward_queue[i] = c}
             drained == {i \in 1 .. Len(fq) : fq[i] = c}
             batched == {p \in Workers \X (1 .. BatchSize) :
                           /\ p[2] <= Len(inputs[p[1]])
                           /\ worker[p[1]] = "deliver" => p[2] > index[p[1]]
                           /\ inputs[p[1]][p[2]] = c}
  <2>1. /\ queued # {} <=> Queued(c)
        /\ drained # {} <=> Drained(c)
    BY DEF Queued, Drained
  <2>2. \A p \in batched : /\ p[1] \in Workers
                           /\ p[2] \in Rest(worker[p[1]], index[p[1]],
                                            inputs[p[1]])
                           /\ inputs[p[1]][p[2]] = c
    BY Ranges DEF Rest
  <2>3. ASSUME NEW w \in Workers,
               NEW i \in Rest(worker[w], index[w], inputs[w]),
               inputs[w][i] = c
        PROVE  <<w, i>> \in batched
    <3>1. /\ i \in 1 .. BatchSize /\ i <= Len(inputs[w])
          /\ worker[w] = "deliver" => i > index[w]
      <4>1. /\ Len(inputs[w]) \in Nat /\ index[w] \in Nat
            /\ Len(inputs[w]) <= BatchSize /\ BatchSize \in Nat
        BY Ranges, SchedulerAssumption DEF TypeOK, SchedulerTypeOK
      <4>2. QED
        BY <4>1 DEF Rest
    <3>2. QED
      BY <2>3, <3>1
  <2>4. batched # {} <=> Batched(c)
    BY <2>2, <2>3 DEF Batched
  <2>5. /\ \A x, y \in queued : x = y
        /\ \A x, y \in drained : x = y
    BY DEF HolderInv, QueueOnce, DrainOnce
  <2>6. \A x, y \in batched : x = y
    <3>1. SUFFICES ASSUME NEW x \in batched, NEW y \in batched
                   PROVE  x[1] = y[1] /\ x[2] = y[2]
      OBVIOUS
    <3>2. x[1] = y[1]
      BY <2>2 DEF HolderInv, OneBatch
    <3>3. x[2] = y[2]
      BY <2>2, <3>2 DEF HolderInv, BatchOnce
    <3>4. QED
      BY <3>2, <3>3
  <2>7. /\ Cardinality(queued) = IF queued = {} THEN 0 ELSE 1
        /\ Cardinality(drained) = IF drained = {} THEN 0 ELSE 1
        /\ Cardinality(batched) = IF batched = {} THEN 0 ELSE 1
    BY <2>5, <2>6, OneOrNone
  <2>8. /\ ~(Queued(c) /\ Drained(c))
        /\ ~(Queued(c) /\ Batched(c))
        /\ ~(Drained(c) /\ Batched(c))
    BY DEF HolderInv, QueueOrDrain, BatchOrQueue, BatchOrDrain, Queued,
           Drained, Batched
  <2>9. Queued(c) \/ Drained(c) \/ Batched(c)
          <=> call[c] \in {"pushed", "waiting"}
    BY DEF HolderInv, QueuePending, DrainPending, BatchPending, LossInv,
           SomewhereHeld, Queued, Drained, Batched, Pending
  <2> HIDE DEF queued, drained, batched
  <2>10. Cardinality(queued) + Cardinality(drained) + Cardinality(batched)
           = IF call[c] \in {"pushed", "waiting"} THEN 1 ELSE 0
    BY <2>1, <2>4, <2>7, <2>8, <2>9
  <2>11. QED
    BY <2>10 DEF queued, drained, batched
<1>2. TypeOK /\ HolderInv /\ LossInv /\ [Next]_vars => LossInv'
  BY LossInvNext
<1>3. QED
  BY <1>1, <1>2, LossInvInit, TypeCorrect, HolderInvariant, PTL DEF Spec
=============================================================================
