----------------------------- MODULE Management -----------------------------
(***************************************************************************)
(* The self-play client (src/autogtp/Management.cpp, main.cpp): it hands   *)
(* orders to its workers, takes their results, uploads them, keeps what    *)
(* could not be uploaded and what was not finished in files, and quits.    *)
(* The process may die (exit() anywhere, or a null pointer) and be started *)
(* again in the same directory.                                            *)
(*                                                                         *)
(* getResult() runs in the worker's thread under m_syncMutex;              *)
(* giveAssignments() and storeGames() run in the main thread without it.   *)
(* Both look for stored games through m_storedFiles and m_lockFile, which  *)
(* they share.                                                             *)
(*                                                                         *)
(* A definition under a comment "Fault" is the next one with a bug in it,  *)
(* to check that a property notices.                                       *)
(***************************************************************************)
EXTENDS Worker

CONSTANTS
    MaxGames,       \* --maxgames
    ServerOrders,   \* the commands the server may send, kinds or "unknown"
    LeftStored,     \* bound: the kinds of the games earlier processes left stored
    LeftKept,       \* bound: how many they left to upload
    Timeouts        \* whether the timer, or the console, may make the program quit

ASSUME ManagementAssumption ==
    /\ MaxGames \in Nat /\ MaxGames >= N
    /\ ServerOrders \subseteq (Kinds \cup {"unknown"})
    /\ LeftStored \in Seq({"selfplay", "match"}) /\ Len(LeftStored) <= N
    /\ LeftKept \in Nat
    /\ Timeouts \in BOOLEAN

VARIABLES
    m_syncMutex,    \* who holds it, or Main
    m_gamesPlayed,
    m_selfGames,
    m_matchGames,
    m_gamesLeft,
    m_threadsLeft,
    m_fallBack,     \* whether there is an order to fall back to
    m_storedFiles,
    m_lockFile,     \* the file of the QLockFile it points to, and that object's state
    found,          \* what getNextStored() is about to return, per thread
    order,          \* what getWork(file) is about to return, per thread
    index,          \* the worker the main thread is at
    quit,           \* of sendQuit(): "none", "posted" or "lost"
    curl_save,      \* games kept in curl_save*.bin
    sending,        \* the one of them that has been sent and is about to be removed
    uploaded,       \* how often the client took each game for uploaded
    gone,           \* games that were only in the memory of a process when it ended
    twice           \* games of which a process, or two of its threads, left two copies

countVars == <<m_gamesPlayed, m_selfGames, m_matchGames>>
storedVars == <<m_storedFiles, m_lockFile, found, order>>
managementVars == <<m_syncMutex, countVars, m_gamesLeft, m_threadsLeft, m_fallBack, storedVars,
                    index, quit>>
serverVars == <<curl_save, sending, uploaded>>
historyVars == <<gone, twice>>
vars == <<pc, workerVars, fileVars, managementVars, serverVars, historyVars, starts>>

Callers == Workers \cup {Main}
GamesStarted == 1..Len(kindOf)

(* The process before giveAssignments(); main.cpp has taken the games of    *)
(* the first orders off m_gamesLeft.                                       *)
Fresh(place) == [c \in Callers |-> IF c = Main THEN place ELSE "new"]

NoLock == [file |-> NoFile, state |-> "null"]

ManagementInit ==
    /\ m_syncMutex = Main
    /\ m_gamesPlayed = 0 /\ m_selfGames = 0 /\ m_matchGames = 0
    /\ m_gamesLeft = MaxGames - N
    /\ m_threadsLeft = N
    /\ m_fallBack = FALSE
    /\ m_storedFiles = {}
    /\ m_lockFile = NoLock
    /\ found = [c \in Callers |-> NoFile]
    /\ order = [c \in Callers |-> NoOrder]
    /\ index = 1
    /\ quit = "none"

\* The directory as earlier processes left it: stored games, then games to upload.
FilesInit(stored, kept) ==
    /\ kindOf = [g \in 1..(stored + kept) |-> IF g <= stored THEN LeftStored[g] ELSE "selfplay"]
    /\ saved = [f \in FileNames |-> IF f[1] = 0 /\ f[2] <= stored THEN f[2] ELSE NoGame]
    /\ storefile = [f \in FileNames |->
                       IF saved[f] = NoGame THEN NoOrder
                       ELSE [type |-> IF LeftStored[f[2]] = "match" THEN "RestoreMatch"
                                      ELSE "RestoreSelfPlayed",
                             params |-> LeftStored[f[2]], sgf |-> f]]
    /\ locks = {}
    /\ curl_save = (stored + 1)..(stored + kept)
    /\ sending = NoGame
    /\ uploaded = [g \in 1..(stored + kept) |-> 0]

Init ==
    /\ pc = Fresh("down")
    /\ WorkerInit
    /\ ManagementInit
    /\ FilesInit(0, 0) \/ FilesInit(Len(LeftStored), LeftKept)
    /\ gone = {}
    /\ twice = {}
    /\ starts = 0

-----------------------------------------------------------------------------
(* Where a game is.                                                        *)

Uploaded(g) == IF g \in DOMAIN uploaded THEN uploaded[g] ELSE 0

\* A worker that plays g, or has its result and is not done with it, or is to go on with it.
Holds(w, g) ==
    \/ pc[w] \in {"start", "play", "executed", "result", "upload"} /\ game[w] = g
    \/ pc[w] \in {"loop", "leave"} /\ m_state[w] = "STORING" /\ res[w] \in StoreResults /\ game[w] = g
    \/ pc[w] \in {"loop", "execute", "executed"} /\ m_state[w] = "RUNNING" /\ Position(m_todo[w]) = g

\* A thread that has read the order to go on with g, and removed its file.
HasInHand(c, g) == pc[c] \in {"unlock", "delete", "deliver"} /\ Position(order[c]) = g

Stores(g) == {f \in Files : Position(storefile[f]) = g}

Places(g) ==
    {<<"worker", w>> : w \in {x \in Workers : Holds(x, g)}}
    \cup {<<"hand", c>> : c \in {x \in Callers : HasInHand(x, g)}}
    \cup {<<"file", f>> : f \in Stores(g)}
    \cup {<<"kept", k>> : k \in curl_save \cap ({g} \ {sending})}
    \cup {<<"sent", i>> : i \in 1..Uploaded(g)}

-----------------------------------------------------------------------------
(* The process begins and ends.                                            *)

Start ==
    /\ pc[Main] = "down"
    /\ starts < MaxStarts
    /\ starts' = starts + 1
    /\ Goto(Main, "sendall")
    /\ UNCHANGED <<workerVars, fileVars, managementVars, serverVars, historyVars>>

\* What the process held in memory is as before the next start; QLockFile sees that
\* the locks of a dead process are stale.
End ==
    /\ pc' = Fresh("down")
    /\ m_state' = [w \in Workers |-> "RUNNING"]
    /\ m_todo' = [w \in Workers |-> NoOrder]
    /\ job' = [w \in Workers |-> NoJob]
    /\ game' = [w \in Workers |-> NoGame]
    /\ res' = [w \in Workers |-> "none"]
    /\ m_syncMutex' = Main
    /\ m_gamesPlayed' = 0 /\ m_selfGames' = 0 /\ m_matchGames' = 0
    /\ m_gamesLeft' = MaxGames - N
    /\ m_threadsLeft' = N
    /\ m_fallBack' = FALSE
    /\ m_storedFiles' = {}
    /\ m_lockFile' = NoLock
    /\ found' = [c \in Callers |-> NoFile]
    /\ order' = [c \in Callers |-> NoOrder]
    /\ index' = 1
    /\ quit' = "none"
    /\ locks' = {}
    /\ sending' = NoGame
    /\ twice' = twice \cup ({sending} \ {NoGame})
    /\ gone' = {g \in GamesStarted : Stores(g) = {} /\ g \notin curl_save /\ Uploaded(g) = 0}
    /\ UNCHANGED <<kindOf, saved, storefile, curl_save, uploaded, starts>>

\* An engine failed: getResult() calls exit(1), before it takes the mutex.
ExitOnError(w) ==
    /\ pc[w] = "executed"
    /\ m_state[w] # "STORING" /\ res[w] = "Error"
    /\ End

\* main() returns when storeGames() has seen all the workers end.
Exit ==
    /\ pc[Main] = "wait"
    /\ \A w \in Workers : pc[w] = "exited"
    /\ End

-----------------------------------------------------------------------------
(* Uploads.                                                                *)

\* getResult() begins.
TakeResult(w) ==
    /\ pc[w] = "result"
    /\ m_syncMutex = Main
    /\ m_syncMutex' = w
    /\ m_gamesPlayed' = m_gamesPlayed + 1
    /\ m_selfGames' = m_selfGames + IF res[w] = "File" THEN 1 ELSE 0
    /\ m_matchGames' = m_matchGames + IF res[w] = "Win" THEN 1 ELSE 0
    /\ Goto(w, IF res[w] \in {"File", "Win"} THEN "upload" ELSE "sendall")
    /\ UNCHANGED <<workerVars, fileVars, m_gamesLeft, m_threadsLeft, m_fallBack, storedVars, index,
                   quit, serverVars, historyVars, starts>>

Send(g) == uploaded' = [x \in GamesStarted |-> Uploaded(x) + IF x = g THEN 1 ELSE 0]

\* Nothing looks at the result of a game that has been dealt with.
Forget(w) == res' = [res EXCEPT ![w] = "none"] /\ game' = [game EXCEPT ![w] = NoGame]

\* uploadData(), uploadResult(): sent in one of MAX_RETRIES tries, or kept for later.
Upload(w) ==
    /\ pc[w] = "upload"
    /\ \/ Send(game[w]) /\ UNCHANGED curl_save
       \/ curl_save' = curl_save \cup {game[w]} /\ UNCHANGED uploaded
    /\ Forget(w)
    /\ Goto(w, "sendall")
    /\ UNCHANGED <<m_state, m_todo, job, fileVars, managementVars, sending, historyVars, starts>>

\* One turn of sendAllGames(): sendCurl() with what was kept.  Where it fails nothing changes.
SendKept(c) ==
    /\ pc[c] = "sendall"
    /\ \E g \in curl_save : Send(g) /\ sending' = g
    /\ Goto(c, "sent")
    /\ UNCHANGED <<workerVars, fileVars, managementVars, curl_save, historyVars, starts>>

\* ... and only then file.remove().
RemoveKept(c) ==
    /\ pc[c] = "sent"
    /\ curl_save' = curl_save \ {sending}
    /\ sending' = NoGame
    /\ Goto(c, "sendall")
    /\ UNCHANGED <<workerVars, fileVars, managementVars, uploaded, historyVars, starts>>

AllSent(c) ==
    /\ pc[c] = "sendall"
    /\ Goto(c, IF c = Main THEN "tune" ELSE "decide")
    /\ UNCHANGED <<workerVars, fileVars, managementVars, serverVars, historyVars, starts>>

-----------------------------------------------------------------------------
(* Orders.                                                                 *)

\* Who is to get the order that c is looking for.
Receiver(c) == IF c = Main THEN index ELSE c

ServerOrder(cmd) ==
    IF cmd = "unknown" THEN NoOrder
    ELSE [type |-> CASE cmd = "selfplay" -> "Production" [] cmd = "match" -> "Validation"
                     [] cmd = "wait" -> "Wait",
          params |-> cmd, sgf |-> NoFile]

\* The order reaches its worker: the main thread starts that one and goes on to the
\* next, a worker gives back the mutex.
Deliver(c, o) ==
    /\ Order(Receiver(c), o)
    /\ IF c = Main
       THEN /\ pc' = [pc EXCEPT ![Main] = IF index = N THEN "connect" ELSE "list",
                                ![index] = "execute"]
            /\ index' = IF index = N THEN 1 ELSE index + 1
            /\ UNCHANGED m_syncMutex
       ELSE /\ Goto(c, "loop")
            /\ m_syncMutex' = Main
            /\ UNCHANGED index
    /\ found' = [found EXCEPT ![c] = NoFile]
    /\ order' = [order EXCEPT ![c] = NoOrder]

\* The tuning run asks for an order, of which only the network is used.
Tune ==
    /\ pc[Main] = "tune"
    /\ \E cmd \in ServerOrders : m_fallBack' = (cmd = "selfplay")
    /\ Goto(Main, "list")
    /\ UNCHANGED <<workerVars, fileVars, m_syncMutex, countVars, m_gamesLeft, m_threadsLeft,
                   storedVars, index, quit, serverVars, historyVars, starts>>

\* What one step of the search for stored games, by the main thread or a worker, leaves alone.
Searches ==
    UNCHANGED <<workerVars, kindOf, saved, m_syncMutex, countVars, m_gamesLeft, m_threadsLeft,
                m_fallBack, index, quit, serverVars, starts>>

\* checkStoredGames().
List(c) ==
    /\ pc[c] = "list"
    /\ m_storedFiles' = Files
    /\ Goto(c, "take")
    /\ Searches /\ UNCHANGED <<storefile, locks, m_lockFile, found, order, historyVars>>

\* Another thread is in the same list of files, which nothing protects.
Races(c) == \E d \in Callers \ {c} : pc[d] \in {"list", "take"}

\* takeFirst(): in a race the other thread may come to the same file.
TakeStored(c) ==
    /\ pc[c] = "take"
    /\ \E f \in m_storedFiles :
        /\ found' = [found EXCEPT ![c] = f]
        /\ \/ m_storedFiles' = m_storedFiles \ {f}
           \/ Races(c) /\ UNCHANGED m_storedFiles
    /\ Goto(c, "newlock")
    /\ Searches /\ UNCHANGED <<storefile, locks, m_lockFile, order, historyVars>>

\* At the end of its loop getNextStored() returns the last file it came to all the same.
TakeLast(c) ==
    /\ pc[c] = "take" /\ m_storedFiles = {} /\ found[c] # NoFile
    /\ Goto(c, "load")
    /\ Searches /\ UNCHANGED <<storefile, locks, storedVars, historyVars>>

\* The pointer that the threads share changes, whatever it pointed to.
NewLock(c) ==
    /\ pc[c] = "newlock"
    /\ m_lockFile' = [file |-> found[c], state |-> "unlocked"]
    /\ Goto(c, "try")
    /\ Searches /\ UNCHANGED <<storefile, locks, m_storedFiles, found, order, historyVars>>

\* tryLock() of the object that m_lockFile points to by now; one that has the lock says yes.
TryLock(c) ==
    /\ pc[c] = "try"
    /\ \/ /\ m_lockFile.state = "unlocked" /\ m_lockFile.file \notin locks
          /\ m_lockFile' = [m_lockFile EXCEPT !.state = "locked"]
          /\ locks' = locks \cup {m_lockFile.file}
          /\ Goto(c, "exists")
       \/ /\ \/ m_lockFile.state = "unlocked" /\ m_lockFile.file \in locks
             \/ m_lockFile.state = "deleted"
          /\ Goto(c, "drop")
          /\ UNCHANGED <<m_lockFile, locks>>
       \/ /\ m_lockFile.state \in {"locked", "deleted"}
          /\ Goto(c, "exists")
          /\ UNCHANGED <<m_lockFile, locks>>
    /\ Searches /\ UNCHANGED <<storefile, m_storedFiles, found, order, historyVars>>

\* exists() may answer from what checkStoredGames() saw.
Exists(c) ==
    /\ pc[c] = "exists"
    /\ \/ Goto(c, "load")
       \/ found[c] \notin Files /\ Goto(c, "drop")
    /\ Searches /\ UNCHANGED <<storefile, locks, storedVars, historyVars>>

\* delete m_lockFile, in both functions: a lock that is held is given back.
DeleteLock(c) ==
    /\ pc[c] \in {"drop", "delete"}
    /\ IF m_lockFile.state = "null" THEN UNCHANGED <<m_lockFile, locks>>
       ELSE /\ locks' = IF m_lockFile.state = "locked" THEN locks \ {m_lockFile.file} ELSE locks
            /\ m_lockFile' = [m_lockFile EXCEPT !.state = "deleted"]
    /\ Goto(c, IF pc[c] = "drop" THEN "dropped" ELSE "deliver")
    /\ Searches /\ UNCHANGED <<storefile, m_storedFiles, found, order, historyVars>>

\* The loop of getNextStored() goes on.
Dropped(c) ==
    /\ pc[c] = "dropped"
    /\ m_lockFile' = NoLock
    /\ Goto(c, "take")
    /\ Searches /\ UNCHANGED <<storefile, locks, m_storedFiles, found, order, historyVars>>

\* getWork(file) reads the order, which another thread may also have read.
LoadStored(c) ==
    /\ pc[c] = "load"
    /\ order' = [order EXCEPT ![c] = storefile[found[c]]]
    /\ twice' = IF \E d \in Callers \ {c} : pc[d] = "remove" /\ found[d] = found[c]
                THEN twice \cup ({Position(storefile[found[c]])} \ {NoGame})
                ELSE twice
    /\ Goto(c, "remove")
    /\ Searches /\ UNCHANGED <<storefile, locks, m_storedFiles, m_lockFile, found, gone>>

\* Fault: the file stays.
RemoveStored_FileStays(c) ==
    /\ pc[c] = "remove"
    /\ Goto(c, "unlock")
    /\ Searches /\ UNCHANGED <<storefile, locks, storedVars, historyVars>>

RemoveStored(c) ==
    /\ pc[c] = "remove"
    /\ storefile' = [storefile EXCEPT ![found[c]] = NoOrder]
    /\ Goto(c, "unlock")
    /\ Searches /\ UNCHANGED <<locks, storedVars, historyVars>>

Unlock(c) ==
    /\ pc[c] = "unlock"
    /\ m_lockFile.state # "null"
    /\ IF m_lockFile.state = "locked"
       THEN /\ locks' = locks \ {m_lockFile.file}
            /\ m_lockFile' = [m_lockFile EXCEPT !.state = "unlocked"]
       ELSE UNCHANGED <<m_lockFile, locks>>
    /\ Goto(c, "delete")
    /\ Searches /\ UNCHANGED <<storefile, m_storedFiles, found, order, historyVars>>

\* m_lockFile is null again, and the order is returned.
GiveStored(c) ==
    /\ pc[c] = "deliver"
    /\ m_lockFile' = NoLock
    /\ Deliver(c, order[c])
    /\ UNCHANGED <<m_state, game, res, fileVars, countVars, m_gamesLeft, m_threadsLeft, m_fallBack,
                   m_storedFiles, quit, serverVars, historyVars, starts>>

\* Undefined behaviour ends the process, where it does not go unnoticed: a race for the list,
\* a null or dangling m_lockFile, the type of an order whose file was gone (it may be a valid
\* one, and Job::init() exits as there is no version of leelaz with it).
Crash(c) ==
    /\ \/ pc[c] \in {"list", "take"} /\ Races(c)
       \/ pc[c] \in {"try", "unlock"} /\ m_lockFile.state \in {"null", "deleted"}
       \/ pc[c] \in {"drop", "delete"} /\ m_lockFile.state = "deleted"
       \/ pc[c] = "deliver" /\ order[c] = NoOrder
    /\ End

\* There is no stored game.
FindsNone(c) == pc[c] = "take" /\ m_storedFiles = {} /\ found[c] = NoFile

\* getWork(): an order of the server, or the last one for self-play with a new seed.
GetWork(c) ==
    /\ FindsNone(c)
    /\ \/ \E cmd \in ServerOrders :
            /\ m_fallBack' = (m_fallBack \/ cmd = "selfplay")
            /\ Deliver(c, ServerOrder(cmd))
       \/ /\ m_fallBack /\ UNCHANGED m_fallBack
          /\ Deliver(c, ServerOrder("selfplay"))
    /\ UNCHANGED <<m_state, game, res, fileVars, countVars, m_gamesLeft, m_threadsLeft,
                   m_storedFiles, m_lockFile, quit, serverVars, historyVars, starts>>

\* No answer in MAX_RETRIES tries and nothing to fall back to, or a server that wants
\* another version: exit(EXIT_FAILURE).
NoWork(c) ==
    /\ FindsNone(c) \/ pc[c] = "tune"
    /\ End

-----------------------------------------------------------------------------
(* The end of the games, and storing.                                      *)

Connected == pc[Main] \in {"exec", "store", "store2", "wait"}

\* Fault: the last game is not counted.
NoGamesLeft_OffByOne == m_gamesLeft <= 1

NoGamesLeft == m_gamesLeft = 0

\* Fault: one thread too many is waited for.
ThreadDone_TooMany ==
    /\ m_threadsLeft' = m_threadsLeft - 1
    /\ quit' = IF m_threadsLeft = 0 THEN "posted" ELSE quit

\* The last worker to end says quit, to a main thread that may not be listening yet.
ThreadDone ==
    IF m_threadsLeft > 1
    THEN m_threadsLeft' = m_threadsLeft - 1 /\ UNCHANGED quit
    ELSE quit' = (IF Connected THEN "posted" ELSE "lost") /\ UNCHANGED m_threadsLeft

\* Fault: the mutex is kept on this path.
EndWorker_MutexKept(w) ==
    /\ DoFinish(w)
    /\ ThreadDone
    /\ Goto(w, "loop")
    /\ UNCHANGED <<m_syncMutex, m_gamesLeft>>

EndWorker(w) ==
    /\ DoFinish(w)
    /\ ThreadDone
    /\ m_syncMutex' = Main
    /\ Goto(w, "loop")
    /\ UNCHANGED m_gamesLeft

\* After the uploads the worker ends, or another order is looked for.
Decide(w) ==
    /\ pc[w] = "decide"
    /\ IF NoGamesLeft
       THEN EndWorker(w)
       ELSE /\ m_gamesLeft' = m_gamesLeft - 1
            /\ Goto(w, "list")
            /\ UNCHANGED <<m_state, job, m_threadsLeft, quit, m_syncMutex>>
    /\ UNCHANGED <<m_todo, game, res, fileVars, countVars, m_fallBack, storedVars, index,
                   serverVars, historyVars, starts>>

\* main() connects sendQuit() only when giveAssignments() has returned.
Connect ==
    /\ pc[Main] = "connect"
    /\ Goto(Main, "exec")
    /\ UNCHANGED <<workerVars, fileVars, managementVars, serverVars, historyVars, starts>>

\* aboutToQuit.
Quit ==
    /\ pc[Main] = "exec"
    /\ Goto(Main, "store")
    /\ UNCHANGED <<workerVars, fileVars, managementVars, serverVars, historyVars, starts>>

\* doStore() of one worker after the other, its job first.
StoreJob ==
    /\ pc[Main] = "store"
    /\ job[index] # NoJob
    /\ job' = [job EXCEPT ![index].state = "STORING"]
    /\ Goto(Main, "store2")
    /\ UNCHANGED <<m_state, m_todo, game, res, fileVars, managementVars, serverVars, historyVars,
                   starts>>

StoreState ==
    /\ pc[Main] = "store2"
    /\ m_state' = [m_state EXCEPT ![index] = "STORING"]
    /\ index' = IF index = N THEN 1 ELSE index + 1
    /\ Goto(Main, IF index = N THEN "wait" ELSE "store")
    /\ UNCHANGED <<m_todo, job, game, res, fileVars, m_syncMutex, countVars, m_gamesLeft,
                   m_threadsLeft, m_fallBack, storedVars, quit, serverVars, historyVars, starts>>

\* A worker that never got a valid order has no job: a null pointer for itself and for doStore().
NullJob ==
    /\ \/ \E w \in Workers : pc[w] = "execute" /\ job[w] = NoJob
       \/ pc[Main] = "store" /\ job[index] = NoJob
    /\ End

-----------------------------------------------------------------------------
Search(c) ==
    \/ List(c) \/ TakeStored(c) \/ TakeLast(c)
    \/ NewLock(c) \/ TryLock(c) \/ Exists(c) \/ DeleteLock(c) \/ Dropped(c)
    \/ LoadStored(c) \/ RemoveStored(c) \/ Unlock(c) \/ GiveStored(c) \/ Crash(c)
    \/ GetWork(c) \/ NoWork(c)

SendAllGames(c) == SendKept(c) \/ RemoveKept(c) \/ AllSent(c)

MainThread ==
    \/ SendAllGames(Main) \/ Tune \/ Search(Main) \/ Connect
    \/ quit = "posted" /\ Quit
    \/ StoreJob \/ StoreState \/ NullJob \/ Exit

\* The timer, or a "q" on the console.
Timeout == Timeouts /\ Quit

RunWorker(w) == Run(w) /\ UNCHANGED <<managementVars, serverVars, historyVars>>

WorkerThread(w) ==
    \/ RunWorker(w)
    \/ ExitOnError(w) \/ TakeResult(w) \/ Upload(w) \/ SendAllGames(w) \/ Decide(w) \/ Search(w)

Next == Start \/ Timeout \/ MainThread \/ \E w \in Workers : WorkerThread(w)

Spec == Init /\ [][Next]_vars

\* The threads run; games and waits end, and so does curl.
FairSpec ==
    /\ Spec
    /\ WF_vars(MainThread)
    /\ \A w \in Workers : WF_vars(WorkerThread(w))

-----------------------------------------------------------------------------
TypeOK ==
    /\ pc \in [Callers -> {"new", "down", "sendall", "sent", "tune", "list", "take", "newlock", "try",
                           "exists", "drop", "dropped", "load", "remove", "unlock", "delete",
                           "deliver", "connect", "exec", "store", "store2", "wait", "execute",
                           "start", "play", "executed", "result", "upload", "decide", "loop",
                           "leave", "saving", "exited"}]
    /\ m_state \in [Workers -> {"RUNNING", "FINISHING", "STORING"}]
    /\ m_todo \in [Workers -> Orders]
    /\ job \in [Workers -> [kind : Kinds \cup {"none"}, state : {"RUNNING", "FINISHING", "STORING"}]]
    /\ res \in [Workers -> Results]
    /\ saved \in [FileNames -> GamesStarted \cup {NoGame}]
    /\ storefile \in [FileNames -> Orders]
    /\ locks \subseteq FileNames
    /\ m_syncMutex \in Callers
    /\ m_gamesLeft \in 0..(MaxGames - N)
    /\ m_threadsLeft \in 1..N
    /\ m_storedFiles \subseteq FileNames
    /\ m_lockFile \in [file : FileNames \cup {NoFile},
                      state : {"null", "unlocked", "locked", "deleted"}]
    /\ found \in [Callers -> FileNames \cup {NoFile}]
    /\ order \in [Callers -> Orders]
    /\ curl_save \subseteq GamesStarted
    /\ sending \in curl_save \cup {NoGame}
    /\ gone \subseteq GamesStarted
    /\ twice \subseteq GamesStarted

Storing == pc[Main] \in {"store", "store2", "wait"}

\* A game is in two places (with two workers, in two files, in a file and with a worker, or in
\* any of these once it has been uploaded) only if the process died between sending and
\* removing it, or two threads without a common lock read its file before either removed it.
\* Except while storing, it is in one, unless its process died over it: no finished game is
\* dropped when uploads fail, no stored game when it is handed out, whatever the workers and
\* the main thread do meanwhile to the lock file and the list they share.
OneHolder ==
    \A g \in GamesStarted :
        /\ g \notin twice => \A p, q \in Places(g) : p = q
        /\ Storing \/ g \in gone \/ Places(g) # {}

\* The program quits by itself when MaxGames results have been taken, waits included, and not
\* before no worker is to begin anything else, whatever the order in which they come.
QuitExact ==
    quit # "none" => /\ m_gamesPlayed = MaxGames
                     /\ \A w \in Workers : m_state[w] # "RUNNING"

\* "Exit after the given number of games is completed" (main.cpp:74).
GamesCompleted == quit # "none" => m_selfGames + m_matchGames = MaxGames

\* "Save running games after the timeout" (main.cpp): when all workers have stored, every
\* game begun whose engine did not fail is uploaded or kept in a file, as a game of the kind
\* of its order.
RunningGamesSaved ==
    (pc[Main] = "wait" /\ \A w \in Workers : pc[w] = "exited")
        => \A g \in GamesStarted \ gone :
               \/ \E w \in Workers : res[w] = "Error" /\ g \in {game[w], Position(m_todo[w])}
               \/ Places(g) # {} /\ \A f \in Stores(g) : storefile[f].params = kindOf[g]

\* Storing comes to an end: each worker leaves its game, its wait or its result.
StoreEnds == Storing ~> pc[Main] = "down"

\* With a number of games to play the program comes to its end, unless it said so before
\* main() listened.
QuitComes == (pc[Main] = "exec") ~> (pc[Main] = "down" \/ quit = "lost")
=============================================================================
