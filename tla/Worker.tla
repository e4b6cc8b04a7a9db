------------------------------- MODULE Worker -------------------------------
(***************************************************************************)
(* The worker threads of the self-play client and their jobs               *)
(* (src/autogtp/Worker.cpp, Job.cpp), with the games and the store files   *)
(* that outlive the process.  Management starts them, gives them orders,   *)
(* takes their results and tells them to store.                            *)
(*                                                                         *)
(* A game gets its number when an engine starts it from an empty board;    *)
(* a game continued from a stored position keeps it.  The moves of a game, *)
(* and the engines, are left out: a game may end at any time, and an       *)
(* engine may fail at any time.                                            *)
(***************************************************************************)
EXTENDS Naturals, Sequences, FiniteSets

CONSTANTS
    N,              \* worker threads: gpus * games of a gpu
    MaxStarts       \* bound: how often the program is started

ASSUME WorkersAssumption == N \in Nat \ {0} /\ MaxStarts \in Nat

Main == 0
Workers == 1..N

\* The names of files are UUIDs.  One for each worker and process is enough: a worker saves
\* its order once, as it ends, and of the positions it stored no order names any but the last.
FileNames == (0..MaxStarts) \X Workers
NoFile == <<0, 0>>

Kinds == {"selfplay", "match", "wait"}
NoGame == 0

(* An order: its type, the parameters it came with (those of a match do    *)
(* not name the network of a self-play game), and the name of the position *)
(* to go on from.                                                          *)
Types == {"Error", "Production", "Validation", "Wait", "RestoreMatch", "RestoreSelfPlayed"}
Orders == [type : Types, params : Kinds, sgf : FileNames \cup {NoFile}]
NoOrder == [type |-> "Error", params |-> "wait", sgf |-> NoFile]

Results == {"none", "File", "Win", "Waited", "StoreMatch", "StoreSelfPlayed", "Error"}

VARIABLES
    pc,           \* where each worker, and the main thread, is
    m_state,      \* of the workers
    m_todo,       \* the order of each worker
    job,          \* the kind and the state of its m_job
    game,         \* the game its execute() plays, or has just played
    res,          \* what execute() returned
    kindOf,       \* the kind of each game started so far
    saved,        \* the game whose position lies in .sgf and .train files, by name
    storefile,    \* the storefile*.bin, by name
    locks,        \* the names whose .lock is held
    starts        \* how often the program has been started

workerVars == <<m_state, m_todo, job, game, res>>
fileVars == <<kindOf, saved, storefile, locks>>

NoJob == [kind |-> "none", state |-> "RUNNING"]
Files == {f \in FileNames : storefile[f] # NoOrder}
Name(w) == <<starts, w>>

\* The game that an order goes on with, if its files are there.
Position(o) == IF o.sgf = NoFile THEN NoGame ELSE saved[o.sgf]

WorkerInit ==
    /\ m_state = [w \in Workers |-> "RUNNING"]
    /\ m_todo = [w \in Workers |-> NoOrder]
    /\ job = [w \in Workers |-> NoJob]
    /\ game = [w \in Workers |-> NoGame]
    /\ res = [w \in Workers |-> "none"]

Goto(c, l) == pc' = [pc EXCEPT ![c] = l]

-----------------------------------------------------------------------------
(* What Management calls.                                                  *)

JobKind(t) == CASE t \in {"Production", "RestoreSelfPlayed"} -> "selfplay"
                [] t \in {"Validation", "RestoreMatch"} -> "match"
                [] t = "Wait" -> "wait"

\* createJob() only when the type changes; init() leaves the state of a job as it is.
JobFor(w, o) ==
    IF m_todo[w].type # o.type \/ job[w] = NoJob
    THEN [kind |-> JobKind(o.type), state |-> "RUNNING"]
    ELSE job[w]

\* Worker::order().
Order(w, o) ==
    IF o.type = "Error"
    THEN /\ job' = [job EXCEPT ![w].state = IF job[w] = NoJob THEN @ ELSE "FINISHING"]
         /\ UNCHANGED m_todo
    ELSE /\ job' = [job EXCEPT ![w] = JobFor(w, o)]
         /\ m_todo' = [m_todo EXCEPT ![w] = o]

\* Worker::doFinish().
DoFinish(w) ==
    /\ job' = [job EXCEPT ![w].state = "FINISHING"]
    /\ m_state' = [m_state EXCEPT ![w] = "FINISHING"]

-----------------------------------------------------------------------------
(* Worker::run() and Job::execute().                                       *)

\* The engine of the order starts; it needs the network its kind of job names.
Startable(w) ==
    /\ m_todo[w].params = job[w].kind
    /\ m_todo[w].sgf = NoFile \/ Position(m_todo[w]) # NoGame

\* A game starts, from the beginning or from a stored position.
StartGame(w) ==
    /\ pc[w] = "execute"
    /\ job[w].kind \in {"selfplay", "match"}
    /\ Startable(w)
    /\ IF m_todo[w].sgf = NoFile
       THEN /\ kindOf' = Append(kindOf, job[w].kind)
            /\ game' = [game EXCEPT ![w] = Len(kindOf) + 1]
            /\ Goto(w, "play")
       ELSE /\ game' = [game EXCEPT ![w] = Position(m_todo[w])]
            /\ Goto(w, "start")
            /\ UNCHANGED kindOf
    /\ UNCHANGED <<m_state, m_todo, job, res, saved, storefile, locks, starts>>

\* The files of the position go once the engine has read them.
RemovePosition(w) ==
    /\ pc[w] = "start"
    /\ saved' = [saved EXCEPT ![m_todo[w].sgf] = NoGame]
    /\ Goto(w, "play")
    /\ UNCHANGED <<workerVars, kindOf, storefile, locks, starts>>

\* What a game comes to, by the state of its job when the move loop is left.
Conclusion(kind, s) ==
    CASE s = "RUNNING"   -> IF kind = "selfplay" THEN "File" ELSE "Win"
      [] s = "STORING"   -> IF kind = "selfplay" THEN "StoreSelfPlayed" ELSE "StoreMatch"
      [] s = "FINISHING" -> "Error"

StoreResults == {"StoreSelfPlayed", "StoreMatch"}

\* The move loop ends, with the game or because the job is no longer RUNNING.
EndGame(w) ==
    /\ pc[w] = "play"
    /\ res' = [res EXCEPT ![w] = Conclusion(job[w].kind, job[w].state)]
    /\ saved' = IF res'[w] \in StoreResults THEN [saved EXCEPT ![Name(w)] = game[w]] ELSE saved
    /\ Goto(w, "executed")
    /\ UNCHANGED <<m_state, m_todo, job, game, kindOf, storefile, locks, starts>>

\* The engine cannot be started, or dies; it cannot go on with a game whose files are gone,
\* which is what an order that the worker executes a second time asks for.
EngineFails(w) ==
    /\ \/ pc[w] = "execute" /\ job[w].kind \in {"selfplay", "match"}
       \/ pc[w] = "play"
    /\ res' = [res EXCEPT ![w] = "Error"]
    /\ game' = [game EXCEPT ![w] = IF pc[w] = "play" THEN @ ELSE NoGame]
    /\ Goto(w, "executed")
    /\ UNCHANGED <<m_state, m_todo, job, fileVars, starts>>

\* WaitJob::execute(): nothing cuts its sleep short.
SleepOver(w) ==
    /\ pc[w] = "execute"
    /\ job[w].kind = "wait"
    /\ res' = [res EXCEPT ![w] = "Waited"]
    /\ game' = [game EXCEPT ![w] = NoGame]
    /\ Goto(w, "executed")
    /\ UNCHANGED <<m_state, m_todo, job, fileVars, starts>>

\* if (m_state != STORING) emit resultReady: an Error ends the process instead.
CheckStoring(w) ==
    /\ pc[w] = "executed"
    /\ m_state[w] = "STORING" \/ res[w] # "Error"
    /\ Goto(w, IF m_state[w] = "STORING" THEN "loop" ELSE "result")
    /\ UNCHANGED <<workerVars, fileVars, starts>>

\* while (m_state == RUNNING).
LoopTest(w) ==
    /\ pc[w] = "loop"
    /\ Goto(w, IF m_state[w] = "RUNNING" THEN "execute" ELSE "leave")
    /\ UNCHANGED <<workerVars, fileVars, starts>>

\* The order that goes on with what execute() returned, if that was a stored game.
StoredOrder(w) ==
    [type |-> IF res[w] = "StoreMatch" THEN "RestoreMatch" ELSE "RestoreSelfPlayed",
     params |-> m_todo[w].params,
     sgf |-> IF res[w] \in StoreResults THEN Name(w) ELSE NoFile]

\* The end of run() for a worker that is storing: the file appears under its lock.
BeginSave(w) ==
    /\ pc[w] = "leave"
    /\ m_state[w] = "STORING"
    /\ storefile' = [storefile EXCEPT ![Name(w)] = StoredOrder(w)]
    /\ locks' = locks \cup {Name(w)}
    /\ Goto(w, "saving")
    /\ UNCHANGED <<workerVars, kindOf, saved, starts>>

EndSave(w) ==
    /\ pc[w] = "saving"
    /\ locks' = locks \ {Name(w)}
    /\ Goto(w, "exited")
    /\ UNCHANGED <<workerVars, kindOf, saved, storefile, starts>>

Leave(w) ==
    /\ pc[w] = "leave"
    /\ m_state[w] # "STORING"
    /\ Goto(w, "exited")
    /\ UNCHANGED <<workerVars, fileVars, starts>>

Run(w) ==
    \/ StartGame(w) \/ RemovePosition(w) \/ EndGame(w) \/ EngineFails(w) \/ SleepOver(w)
    \/ CheckStoring(w) \/ LoopTest(w) \/ BeginSave(w) \/ EndSave(w) \/ Leave(w)
=============================================================================
