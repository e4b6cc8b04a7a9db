----------------------------- MODULE SearchHalt -----------------------------
(***************************************************************************)
(* One search after another over the evaluation queue: the part of         *)
(* UCTSearch::think() and ponder() that starts the UCTWorkers, stops them, *)
(* drains the evaluations, waits for the workers and resumes               *)
(* (src/src/UCTSearch.cpp).  The tree is not here: a simulation is any     *)
(* number of forward() calls, and a worker may end at any moment at which  *)
(* it is not inside one, because is_running() is also false while the tree *)
(* is full.                                                                *)
(***************************************************************************)
EXTENDS OpenCLScheduler

CONSTANT Main        \* the thread that runs think()

ASSUME MainAssumption == Main \in Callers

Searchers == Callers \ {Main}

VARIABLES
    m_run,         \* the search flag
    searching,     \* the search threads inside UCTWorker::operator()
    main           \* where the controlling thread is

vars == <<schedulerVars, m_run, searching, main>>

MainStates == {"between", "search", "stopped", "clearing", "waking",
               "joining", "resuming", "closing", "exited"}

Init ==
    /\ SchedulerInit
    /\ m_run = FALSE
    /\ searching = {}
    /\ main = "between"

-----------------------------------------------------------------------------
(* UCTWorker::operator().                                                  *)

\* Who may call forward(): a search thread in a simulation, and the main
\* thread before and after a search (prepare_root_node, Training::record).
MayCall(c) == \/ c \in searching /\ outcome[c] # "halted"
              \/ c = Main /\ main = "between"

Forward(c) == /\ MayCall(c)
              /\ Push(c)
              /\ UNCHANGED <<m_run, searching, main>>

\* The three steps inside forward() that follow the push.
InForward(c) == /\ Sleep(c) \/ SpuriousWakeup(c) \/ Return(c)
                /\ UNCHANGED <<m_run, searching, main>>

\* A simulation is over and is_running() is false.
Leave(c) ==
    /\ c \in searching
    /\ call[c] = "idle"
    /\ outcome[c] # "halted"
    /\ searching' = searching \ {c}
    /\ UNCHANGED <<schedulerVars, m_run, main>>

\* NetworkHaltException reaches the worker and ends it.
Halt(c) ==
    /\ c \in searching
    /\ call[c] = "idle"
    /\ outcome[c] = "halted"
    /\ outcome' = [outcome EXCEPT ![c] = "none"]
    /\ searching' = searching \ {c}
    /\ UNCHANGED <<m_forward_queue, m_draining, m_running,
                   m_single_eval_in_progress, call, output, worker, inputs,
                   index, fq, m_run, main>>

-----------------------------------------------------------------------------
(* think() and ponder().                                                   *)

StartSearch ==
    /\ main = "between"
    /\ call[Main] = "idle"
    /\ m_run' = TRUE
    /\ searching' = Searchers
    /\ main' = "search"
    /\ UNCHANGED schedulerVars

StopSearch ==
    /\ main = "search"
    /\ m_run' = FALSE
    /\ main' = "stopped"
    /\ UNCHANGED <<schedulerVars, searching>>

DrainSet ==
    /\ main = "stopped"
    /\ SetDraining
    /\ main' = "clearing"
    /\ UNCHANGED <<m_run, searching>>

DrainTake ==
    /\ main = "clearing"
    /\ TakeQueue
    /\ main' = "waking"
    /\ UNCHANGED <<m_run, searching>>

DrainWake ==
    /\ main = "waking"
    /\ WakeDrained
    /\ UNCHANGED <<m_run, searching, main>>

DrainDone ==
    /\ main = "waking"
    /\ fq = <<>>
    /\ main' = "joining"
    /\ UNCHANGED <<schedulerVars, m_run, searching>>

\* Fault: resume_evals() without waiting for the workers.
Join_NoWait ==
    /\ main = "joining"
    /\ main' = "resuming"
    /\ UNCHANGED <<schedulerVars, m_run, searching>>

\* tg.wait_all()
Join ==
    /\ main = "joining"
    /\ searching = {}
    /\ main' = "resuming"
    /\ UNCHANGED <<schedulerVars, m_run, searching>>

ResumeEvals ==
    /\ main = "resuming"
    /\ Resume
    /\ main' = "between"
    /\ UNCHANGED <<m_run, searching>>

StopSteps == DrainSet \/ DrainTake \/ DrainWake \/ DrainDone \/ Join
             \/ ResumeEvals

\* The program ends: ~OpenCLScheduler stops the workers and joins them.
Close ==
    /\ main = "between"
    /\ call[Main] = "idle"
    /\ StopRunning
    /\ main' = "closing"
    /\ UNCHANGED <<m_run, searching>>

JoinWorkers ==
    /\ main = "closing"
    /\ \A w \in Workers : worker[w] = "exited"
    /\ main' = "exited"
    /\ UNCHANGED <<schedulerVars, m_run, searching>>

Terminated == main = "exited" /\ UNCHANGED vars

-----------------------------------------------------------------------------
Batch(w) == WorkerStep(w) /\ UNCHANGED <<m_run, searching, main>>

Next ==
    \/ \E c \in Callers : Forward(c) \/ InForward(c) \/ Leave(c) \/ Halt(c)
    \/ \E w \in Workers : Batch(w)
    \/ StartSearch
    \/ StopSearch
    \/ StopSteps
    \/ Close
    \/ JoinWorkers
    \/ Terminated

Spec == Init /\ [][Next]_vars

\* Threads are scheduled, wait_for times out and the network returns.  A
\* search thread need not call forward(), and nothing forces think() to
\* start, stop or be the last one.
Fairness ==
    /\ \A c \in Callers : WF_vars(InForward(c))
    /\ \A c \in Callers : WF_vars(m_run = FALSE /\ Leave(c))
    /\ \A c \in Callers : WF_vars(Halt(c))
    /\ \A w \in Workers : WF_vars(Batch(w))
    /\ WF_vars(StopSteps)
    /\ WF_vars(JoinWorkers)

FairSpec == Spec /\ Fairness

-----------------------------------------------------------------------------
TypeOK == /\ SchedulerTypeOK
          /\ m_run \in BOOLEAN
          /\ searching \subseteq Searchers
          /\ main \in MainStates

\* Every call that has not been woken is held by exactly one of the queue,
\* a worker's batch and drain(), once, and nothing else is held: no request
\* is lost or answered twice, and no worker touches the buffers of a
\* forward() that has returned (batch_worker and drain both rely on it).
NoLostRequest ==
    \A c \in Callers :
        LET queued  == {i \in 1 .. Len(m_forward_queue) :
                            m_forward_queue[i] = c}
            drained == {i \in 1 .. Len(fq) : fq[i] = c}
            batched == {p \in Workers \X (1 .. BatchSize) :
                            /\ p[2] <= Len(inputs[p[1]])
                            /\ worker[p[1]] = "deliver"
                                 => p[2] > index[p[1]]
                            /\ inputs[p[1]][p[2]] = c}
        IN  Cardinality(queued) + Cardinality(drained) + Cardinality(batched)
              = IF call[c] \in {"pushed", "waiting"} THEN 1 ELSE 0

\* forward() never returns before a worker wrote this call's output: what
\* drain() wakes must find m_draining still set (forward, drain, think).
ReturnedIsEvaluated ==
    \A c \in Callers : outcome[c] = "result" => output[c]

\* The assertion in resume(): nothing is queued once the search is joined.
ResumeFindsQueueEmpty ==
    main = "resuming" => m_forward_queue = <<>>

\* The exception that stops a search never escapes into think() itself.
MainNeverHalted == outcome[Main] # "halted"

\* No caller sleeps forever: with too few requests for a batch, while a
\* drain runs, and whatever the other callers do.
EveryCallReturns ==
    \A c \in Callers : call[c] # "idle" ~> call[c] = "idle"

\* Once think() has decided to stop it gets back to its caller.
StopCompletes == main = "stopped" ~> main = "between"

\* The destructor's join of the batch workers returns.
CloseCompletes == main = "closing" ~> main = "exited"

-----------------------------------------------------------------------------
(* What the search relies on: the scheduler is an EvalService.             *)

RequestOf(c) == CASE call[c] = "idle" -> "none"
                  [] call[c] # "idle" /\ output[c] -> "evaluated"
                  [] OTHER -> "asked"

Service == INSTANCE EvalService
               WITH request <- [c \in Callers |-> RequestOf(c)],
                    reply   <- outcome,
                    halting <- m_draining

\* forward(), drain() and resume() do what EvalService says: a result is the
\* evaluation of that very request, a request is refused only during a
\* drain, and resume() comes after the last refusal has been dealt with.
ImplementsService == Service!Spec

=============================================================================
