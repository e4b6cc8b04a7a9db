-------------------------- MODULE OpenCLScheduler --------------------------
(***************************************************************************)
(* The batching queue between the search threads and the GPU               *)
(* (src/src/OpenCLScheduler.cpp).  A caller of forward() pushes an entry   *)
(* on m_forward_queue and sleeps on the entry's own condition variable;    *)
(* batch workers pick up a full batch, or, after a timeout, a single       *)
(* entry, run the network and wake the callers; drain() empties the queue  *)
(* and wakes what it took out of it; resume() ends the drain.              *)
(*                                                                         *)
(* A caller has one call in progress at a time, so an entry is named by    *)
(* its caller.  The length of m_waittime is left out: it only decides when *)
(* a timeout happens, and here a timeout may happen at any moment at which *)
(* a worker waits.  For the same reason m_cv is left out: every wait on it *)
(* ends by itself.  The condition variable of an entry has no timeout, so  *)
(* its lost wakeups matter and it is modelled step by step.                *)
(*                                                                         *)
(* This module has the actions of the scheduler; SearchHalt composes them  *)
(* with the search that calls them.  A definition under a comment "Fault"  *)
(* is the next one with a bug in it, to check that a property notices.     *)
(***************************************************************************)
EXTENDS Naturals, Sequences, FiniteSets

CONSTANTS Callers,     \* the threads that call forward()
          Workers,     \* the batch_worker threads of all GPUs
          BatchSize,   \* cfg_batch_size
          Spurious     \* may entry->cv.wait(lk) return without a notify?

ASSUME SchedulerAssumption ==
    /\ BatchSize \in Nat \ {0}
    /\ Spurious \in BOOLEAN

VARIABLES
    m_forward_queue,            \* entries not yet picked up, oldest first
    m_draining,                 \* between drain() and resume()
    m_running,                  \* FALSE once the destructor has begun
    m_single_eval_in_progress,
    call,      \* where each caller is in forward()
    output,    \* has the result of the caller's entry been copied to it?
    outcome,   \* how the caller's last forward() ended
    worker,    \* where each batch_worker is
    inputs,    \* the batch of each worker
    index,     \* how many entries of inputs the current loop has passed
    fq         \* entries drain() took out of the queue and has yet to wake

schedulerVars == <<m_forward_queue, m_draining, m_running,
                   m_single_eval_in_progress, call, output, outcome,
                   worker, inputs, index, fq>>

CallStates == {"idle", "pushed", "waiting", "woken"}
Outcomes == {"none", "result", "halted"}
WorkerStates == {"pickup", "picked", "copy", "eval", "deliver", "exited"}

Elements(s) == {s[i] : i \in 1..Len(s)}

SchedulerInit ==
    /\ m_forward_queue = <<>>
    /\ m_draining = FALSE
    /\ m_running = TRUE
    /\ m_single_eval_in_progress = FALSE
    /\ call = [c \in Callers |-> "idle"]
    /\ output = [c \in Callers |-> FALSE]
    /\ outcome = [c \in Callers |-> "none"]
    /\ worker = [w \in Workers |-> "pickup"]
    /\ inputs = [w \in Workers |-> <<>>]
    /\ index = [w \in Workers |-> 0]
    /\ fq = <<>>

-----------------------------------------------------------------------------
(* The caller.  It holds the mutex of its entry except while it sleeps.    *)

\* The entries worker w has yet to deliver.
Undelivered(w) ==
    {inputs[w][i] :
        i \in (IF worker[w] = "deliver" THEN index[w] ELSE 0) + 1
              .. Len(inputs[w])}

\* Entries some thread will still touch.
Held(c) == \/ c \in Elements(m_forward_queue)
           \/ c \in Elements(fq)
           \/ \E w \in Workers : c \in Undelivered(w)

\* forward() up to notify_one.  With spurious wakeups a caller may return
\* while its entry is still held; such a caller is not followed further.
Push(c) ==
    /\ call[c] = "idle"
    /\ ~Held(c)
    /\ call' = [call EXCEPT ![c] = "pushed"]
    /\ output' = [output EXCEPT ![c] = FALSE]
    /\ outcome' = [outcome EXCEPT ![c] = "none"]
    /\ m_forward_queue' = Append(m_forward_queue, c)
    /\ UNCHANGED <<m_draining, m_running, m_single_eval_in_progress, worker,
                   inputs, index, fq>>

\* entry->cv.wait(lk) releases the mutex and sleeps in one step.
Sleep(c) ==
    /\ call[c] = "pushed"
    /\ call' = [call EXCEPT ![c] = "waiting"]
    /\ UNCHANGED <<m_forward_queue, m_draining, m_running,
                   m_single_eval_in_progress, output, outcome, worker,
                   inputs, index, fq>>

\* The wait has no predicate: nothing puts a spuriously woken caller back.
SpuriousWakeup(c) ==
    /\ Spurious
    /\ call[c] = "waiting"
    /\ call' = [call EXCEPT ![c] = "woken"]
    /\ UNCHANGED <<m_forward_queue, m_draining, m_running,
                   m_single_eval_in_progress, output, outcome, worker,
                   inputs, index, fq>>

\* Fault: forward() does not look at m_draining after the wait.
Return_NeverThrows(c) ==
    /\ call[c] = "woken"
    /\ call' = [call EXCEPT ![c] = "idle"]
    /\ outcome' = [outcome EXCEPT ![c] = "result"]
    /\ UNCHANGED <<m_forward_queue, m_draining, m_running,
                   m_single_eval_in_progress, output, worker, inputs, index,
                   fq>>

\* forward() after the wait: throw while draining, return the output if not.
Return(c) ==
    /\ call[c] = "woken"
    /\ call' = [call EXCEPT ![c] = "idle"]
    /\ outcome' = [outcome EXCEPT ![c] =
                     IF m_draining THEN "halted" ELSE "result"]
    /\ UNCHANGED <<m_forward_queue, m_draining, m_running,
                   m_single_eval_in_progress, output, worker, inputs, index,
                   fq>>

-----------------------------------------------------------------------------
(* The batch worker.                                                       *)

\* Fault: the lock of the entry is not taken before it is notified.
EntryUnlocked_NotLocked(c) == TRUE

\* x->mutex can be locked: the caller is not between the push and the wait.
EntryUnlocked(c) == call[c] # "pushed"

\* x->cv.notify_all(): lost when the caller is not asleep.
Notified(c) == IF call[c] = "waiting" THEN [call EXCEPT ![c] = "woken"]
                                      ELSE call

\* Move the first n entries of the queue to the worker's own list.
Take(w, n) ==
    /\ inputs' = [inputs EXCEPT ![w] = SubSeq(m_forward_queue, 1, n)]
    /\ m_forward_queue' =
          SubSeq(m_forward_queue, n + 1, Len(m_forward_queue))
    /\ index' = [index EXCEPT ![w] = 0]
    /\ worker' = [worker EXCEPT ![w] = "picked"]

PickBatch(w) ==
    /\ worker[w] = "pickup"
    /\ m_running
    /\ Len(m_forward_queue) >= BatchSize
    /\ Take(w, BatchSize)
    /\ UNCHANGED <<m_draining, m_running, m_single_eval_in_progress, call,
                   output, outcome, fq>>

\* wait_for timed out: no batch could be formed.
PickSingle(w) ==
    /\ worker[w] = "pickup"
    /\ m_running
    /\ Len(m_forward_queue) \in 1 .. BatchSize - 1
    /\ ~m_single_eval_in_progress
    /\ m_single_eval_in_progress' = TRUE
    /\ Take(w, 1)
    /\ UNCHANGED <<m_draining, m_running, call, output, outcome, fq>>

\* The check of m_running after pickup_task(); WorkerExit has the other case.
BeginBatch(w) ==
    /\ worker[w] = "picked"
    /\ m_running
    /\ worker' = [worker EXCEPT ![w] = "copy"]
    /\ UNCHANGED <<m_forward_queue, m_draining, m_running,
                   m_single_eval_in_progress, call, output, outcome, inputs,
                   index, fq>>

\* One turn of the loop that copies the inputs, under x->mutex.
CopyInput(w) ==
    /\ worker[w] = "copy"
    /\ EntryUnlocked(inputs[w][index[w] + 1])
    /\ index' = [index EXCEPT ![w] = @ + 1]
    /\ worker' = [worker EXCEPT ![w] =
                    IF index[w] + 1 = Len(inputs[w]) THEN "eval" ELSE "copy"]
    /\ UNCHANGED <<m_forward_queue, m_draining, m_running,
                   m_single_eval_in_progress, call, output, outcome, inputs,
                   fq>>

\* m_networks[gnum]->forward().
Evaluate(w) ==
    /\ worker[w] = "eval"
    /\ worker' = [worker EXCEPT ![w] = "deliver"]
    /\ index' = [index EXCEPT ![w] = 0]
    /\ UNCHANGED <<m_forward_queue, m_draining, m_running,
                   m_single_eval_in_progress, call, output, outcome, inputs,
                   fq>>

\* One turn of the loop that copies the outputs back, without x->mutex.
Deliver(w) ==
    /\ worker[w] = "deliver"
    /\ index[w] < Len(inputs[w])
    /\ LET c == inputs[w][index[w] + 1]
       IN  /\ output' = [output EXCEPT ![c] = TRUE]
           /\ call' = Notified(c)
    /\ index' = [index EXCEPT ![w] = @ + 1]
    /\ UNCHANGED <<m_forward_queue, m_draining, m_running,
                   m_single_eval_in_progress, outcome, worker, inputs, fq>>

\* The end of the worker's loop body.
FinishBatch(w) ==
    /\ worker[w] = "deliver"
    /\ index[w] = Len(inputs[w])
    /\ m_single_eval_in_progress' =
          (m_single_eval_in_progress /\ Len(inputs[w]) # 1)
    /\ worker' = [worker EXCEPT ![w] = "pickup"]
    /\ inputs' = [inputs EXCEPT ![w] = <<>>]
    /\ index' = [index EXCEPT ![w] = 0]
    /\ UNCHANGED <<m_forward_queue, m_draining, m_running, call, output,
                   outcome, fq>>

\* Fault: pickup_task() does not look at m_running.
WorkerExit_OnlyAfterPickup(w) ==
    /\ worker[w] = "picked"
    /\ ~m_running
    /\ worker' = [worker EXCEPT ![w] = "exited"]
    /\ UNCHANGED <<m_forward_queue, m_draining, m_running,
                   m_single_eval_in_progress, call, output, outcome, inputs,
                   index, fq>>

WorkerExit(w) ==
    /\ worker[w] \in {"pickup", "picked"}
    /\ ~m_running
    /\ worker' = [worker EXCEPT ![w] = "exited"]
    /\ UNCHANGED <<m_forward_queue, m_draining, m_running,
                   m_single_eval_in_progress, call, output, outcome, inputs,
                   index, fq>>

WorkerStep(w) ==
    \/ PickBatch(w)
    \/ PickSingle(w)
    \/ BeginBatch(w)
    \/ CopyInput(w)
    \/ Evaluate(w)
    \/ Deliver(w)
    \/ FinishBatch(w)
    \/ WorkerExit(w)

-----------------------------------------------------------------------------
(* drain(), resume() and the destructor, called by the controlling thread. *)

\* Fault: drain() wakes the callers without raising m_draining.
SetDraining_Forgotten == UNCHANGED schedulerVars

SetDraining ==
    /\ m_draining' = TRUE
    /\ UNCHANGED <<m_forward_queue, m_running, m_single_eval_in_progress,
                   call, output, outcome, worker, inputs, index, fq>>

\* Fault: drain() does not clear the queue it copied.
TakeQueue_NotCleared ==
    /\ fq' = m_forward_queue
    /\ UNCHANGED <<m_forward_queue, m_draining, m_running,
                   m_single_eval_in_progress, call, output, outcome, worker,
                   inputs, index>>

TakeQueue ==
    /\ fq' = m_forward_queue
    /\ m_forward_queue' = <<>>
    /\ UNCHANGED <<m_draining, m_running, m_single_eval_in_progress, call,
                   output, outcome, worker, inputs, index>>

\* Fault: drain() drops the entries without waking their callers.
WakeDrained_Silent ==
    /\ fq # <<>>
    /\ EntryUnlocked(Head(fq))
    /\ fq' = Tail(fq)
    /\ UNCHANGED <<m_forward_queue, m_draining, m_running,
                   m_single_eval_in_progress, call, output, outcome, worker,
                   inputs, index>>

\* One turn of the last loop of drain(): lock and unlock, then notify.
WakeDrained ==
    /\ fq # <<>>
    /\ EntryUnlocked(Head(fq))
    /\ call' = Notified(Head(fq))
    /\ fq' = Tail(fq)
    /\ UNCHANGED <<m_forward_queue, m_draining, m_running,
                   m_single_eval_in_progress, output, outcome, worker,
                   inputs, index>>

Resume ==
    /\ m_draining' = FALSE
    /\ UNCHANGED <<m_forward_queue, m_running, m_single_eval_in_progress,
                   call, output, outcome, worker, inputs, index, fq>>

StopRunning ==
    /\ m_running' = FALSE
    /\ UNCHANGED <<m_forward_queue, m_draining, m_single_eval_in_progress,
                   call, output, outcome, worker, inputs, index, fq>>

-----------------------------------------------------------------------------
SchedulerTypeOK ==
    /\ m_forward_queue \in Seq(Callers)
    /\ m_draining \in BOOLEAN
    /\ m_running \in BOOLEAN
    /\ m_single_eval_in_progress \in BOOLEAN
    /\ call \in [Callers -> CallStates]
    /\ output \in [Callers -> BOOLEAN]
    /\ outcome \in [Callers -> Outcomes]
    /\ worker \in [Workers -> WorkerStates]
    /\ inputs \in [Workers -> Seq(Callers)]
    /\ \A w \in Workers : Len(inputs[w]) <= BatchSize
    /\ index \in [Workers -> Nat]
    /\ fq \in Seq(Callers)
=============================================================================
