-------------------------- MODULE ManagementProofs --------------------------
(***************************************************************************)
(* Proofs about the self-play client, for any number of workers, of games  *)
(* to play and of starts, and whatever earlier processes left behind.      *)
(***************************************************************************)
EXTENDS Management, SequenceTheorems, FiniteSetTheorems, TLAPS

\* The places of the search for a stored game, from the file to its order.
FilePlaces == {"newlock", "try", "exists", "load", "remove"}
HandPlaces == {"unlock", "delete", "deliver"}
SearchPlaces == {"list", "take", "drop", "dropped"} \cup FilePlaces \cup HandPlaces

MainPlaces == {"down", "sendall", "sent", "tune", "connect", "exec", "store", "store2", "wait"}
                 \cup SearchPlaces
WorkerPlaces == {"new", "execute", "start", "play", "executed", "result", "upload", "sendall",
                 "sent", "decide", "loop", "leave", "saving", "exited"} \cup SearchPlaces

MaybeGame == {NoGame} \cup GamesStarted

\* Where everybody is, and what getNextStored() has come to.
PlaceInv ==
    /\ pc[Main] \in MainPlaces
    /\ \A w \in Workers : pc[w] \in WorkerPlaces
    /\ index \in Workers
    /\ \A c \in Callers : pc[c] \in FilePlaces => found[c] # NoFile
    /\ m_lockFile.state # "null" => m_lockFile.file # NoFile
    /\ m_gamesPlayed \in Nat
    /\ quit \in {"none", "posted", "lost"}
    /\ starts \in 0..MaxStarts

\* The games spoken of have begun, and who has a result has a game.
GameInv ==
    /\ game \in [Workers -> MaybeGame]
    /\ kindOf \in Seq(Kinds)
    /\ DOMAIN uploaded \subseteq GamesStarted
    /\ \A g \in DOMAIN uploaded : uploaded[g] \in Nat

Concluded(w) == \/ pc[w] \in {"start", "play"}
                \/ /\ pc[w] \in {"executed", "result", "upload"}
                   /\ res[w] \in {"File", "Win"}
ResultInv ==
    \A w \in Workers : /\ Concluded(w) => game[w] # NoGame
                       /\ pc[w] = "upload" => res[w] \in {"File", "Win"}

TypeInv == TypeOK /\ PlaceInv /\ GameInv /\ ResultInv

-----------------------------------------------------------------------------
(* Type correctness.                                                       *)

LEMMA Basics ==
    /\ N \in Nat /\ 1 \in Workers /\ N \in Workers /\ Workers \subseteq Nat
    /\ Main \in Callers /\ Main \notin Workers /\ Workers \subseteq Callers
    /\ \A c \in Callers : c = Main \/ c \in Workers
    /\ MaxGames \in Nat /\ MaxGames - N \in Nat
    /\ NoOrder \in Orders /\ NoOrder.sgf = NoFile /\ NoOrder.type = "Error"
    /\ IsFiniteSet(Workers) /\ Cardinality(Workers) = N
    /\ NoFile \notin FileNames /\ MaxStarts \in Nat
<1>1. N \in Nat \ {0} /\ MaxGames \in Nat /\ MaxGames >= N /\ MaxStarts \in Nat
  BY WorkersAssumption, ManagementAssumption
<1>2. NoOrder \in Orders
  BY DEF NoOrder, Orders, Types, Kinds
<1>3. IsFiniteSet(Workers) /\ Cardinality(Workers) = N
  BY <1>1, FS_Interval DEF Workers
<1>4. NoFile \notin FileNames
  BY DEF NoFile, FileNames, Workers
<1>5. QED
  BY <1>1, <1>2, <1>3, <1>4 DEF Workers, Main, Callers, NoOrder

\* All the places there are.
Somewhere == MainPlaces \cup WorkerPlaces

LEMMA AllPlaces ==
    /\ TypeOK => pc \in [Callers -> Somewhere]
    /\ TypeOK' <=> TypeOK' /\ pc' \in [Callers -> Somewhere]
    /\ MainPlaces \subseteq Somewhere /\ WorkerPlaces \subseteq Somewhere
    /\ Somewhere = {"new", "down", "sendall", "sent", "tune", "list", "take", "newlock", "try",
                    "exists", "drop", "dropped", "load", "remove", "unlock", "delete",
                    "deliver", "connect", "exec", "store", "store2", "wait", "execute",
                    "start", "play", "executed", "result", "upload", "decide", "loop",
                    "leave", "saving", "exited"}
<1>1. Somewhere = {"new", "down", "sendall", "sent", "tune", "list", "take", "newlock", "try",
                   "exists", "drop", "dropped", "load", "remove", "unlock", "delete",
                   "deliver", "connect", "exec", "store", "store2", "wait", "execute",
                   "start", "play", "executed", "result", "upload", "decide", "loop",
                   "leave", "saving", "exited"}
  BY DEF Somewhere, MainPlaces, WorkerPlaces, SearchPlaces, FilePlaces, HandPlaces
<1>2. MainPlaces \subseteq Somewhere /\ WorkerPlaces \subseteq Somewhere
  BY DEF Somewhere
<1>3. QED
  BY <1>1, <1>2 DEF TypeOK

JobStates == {"RUNNING", "FINISHING", "STORING"}
Jobs == [kind : Kinds \cup {"none"}, state : JobStates]
LockStates == [file : FileNames \cup {NoFile}, state : {"null", "unlocked", "locked", "deleted"}]

LEMMA Names ==
    ASSUME TypeInv, NEW w \in Workers
    PROVE  Name(w) \in FileNames /\ Name(w) # NoFile
  BY Basics DEF TypeInv, PlaceInv, Name, FileNames

LEMMA PositionType ==
    ASSUME TypeInv, NEW o \in Orders
    PROVE  Position(o) \in MaybeGame
  BY DEF TypeInv, TypeOK, Position, Orders, MaybeGame

LEMMA JobWithState ==
    ASSUME NEW j \in Jobs, NEW s \in JobStates
    PROVE  /\ [j EXCEPT !.state = s] \in Jobs
           /\ [j EXCEPT !.state = s].kind = j.kind
           /\ [j EXCEPT !.state = s].state = s
  BY DEF Jobs

\* What an order changes.
LEMMA OrderIs ==
    ASSUME TypeInv, NEW r \in Workers, NEW o \in Orders, Order(r, o)
    PROVE  /\ job' \in [Workers -> Jobs]
           /\ \A w \in Workers \ {r} : job'[w] = job[w]
           /\ o.type = "Error" =>
                 /\ m_todo' = m_todo
                 /\ job'[r].kind = job[r].kind
                 /\ job[r] = NoJob => job'[r] = NoJob
           /\ o.type # "Error" =>
                 /\ m_todo' = [m_todo EXCEPT ![r] = o]
                 /\ job'[r] = JobFor(r, o)
           /\ job'[r].state \in {job[r].state, "RUNNING", "FINISHING"}
<1>1. job \in [Workers -> Jobs]
  BY DEF TypeInv, TypeOK, Jobs, JobStates
<1>2. CASE o.type = "Error"
  <2> DEFINE s == IF job[r] = NoJob THEN job[r].state ELSE "FINISHING"
  <2>1. s \in JobStates
    BY <1>1 DEF Jobs, JobStates
  <2>2. /\ job' = [job EXCEPT ![r] = [job[r] EXCEPT !.state = s]]
        /\ m_todo' = m_todo
    BY <1>2 DEF Order
  <2>3. [job[r] EXCEPT !.state = s] \in Jobs
    BY <1>1, <2>1, JobWithState
  <2>4. job[r] = NoJob => [job[r] EXCEPT !.state = s] = NoJob
    BY DEF NoJob
  <2>5. job'[r] = [job[r] EXCEPT !.state = s]
    BY <1>1, <2>2
  <2>6. job'[r].kind = job[r].kind /\ job'[r].state = s
    BY <1>1, <2>1, <2>5, JobWithState
  <2>7. job' \in [Workers -> Jobs]
        /\ \A w \in Workers \ {r} : job'[w] = job[w]
    BY <1>1, <2>2, <2>3
  <2>8. QED
    BY <1>2, <2>2, <2>4, <2>5, <2>6, <2>7
<1>3. CASE o.type # "Error"
  <2>1. JobKind(o.type) \in Kinds
    BY <1>3 DEF JobKind, Orders, Types, Kinds
  <2>2. /\ JobFor(r, o) \in Jobs
        /\ JobFor(r, o).state \in {job[r].state, "RUNNING", "FINISHING"}
    <3>1. [kind |-> JobKind(o.type), state |-> "RUNNING"] \in Jobs
      BY <2>1 DEF Jobs, JobStates
    <3>2. CASE m_todo[r].type # o.type \/ job[r] = NoJob
      BY <2>1, <3>1, <3>2 DEF JobFor
    <3>3. CASE ~(m_todo[r].type # o.type \/ job[r] = NoJob)
      BY <1>1, <3>3 DEF JobFor
    <3>4. QED
      BY <3>2, <3>3
  <2>3. job' = [job EXCEPT ![r] = JobFor(r, o)]
        /\ m_todo' = [m_todo EXCEPT ![r] = o]
    BY <1>3 DEF Order
  <2>4. QED
    BY <1>1, <1>3, <2>2, <2>3
<1>4. QED
  BY <1>2, <1>3

LEMMA OrderType ==
    ASSUME TypeInv, NEW r \in Workers, NEW o \in Orders, Order(r, o)
    PROVE  /\ m_todo' \in [Workers -> Orders]
           /\ job' \in [Workers -> Jobs]
<1>1. m_todo \in [Workers -> Orders]
  BY DEF TypeInv, TypeOK
<1>2. job' \in [Workers -> Jobs]
      /\ (m_todo' = m_todo \/ m_todo' = [m_todo EXCEPT ![r] = o])
  BY OrderIs
<1>3. QED
  BY <1>1, <1>2

\* How the order gets to a worker, whoever looked for it.
LEMMA DeliverIs ==
    ASSUME TypeInv, NEW c \in Callers, NEW o, Deliver(c, o)
    PROVE  /\ Receiver(c) \in Workers
           /\ Order(Receiver(c), o)
           /\ found' = [found EXCEPT ![c] = NoFile]
           /\ order' = [order EXCEPT ![c] = NoOrder]
           /\ c = Main =>
                 /\ Receiver(c) = index
                 /\ pc'[Main] = IF index = N THEN "connect" ELSE "list"
                 /\ pc'[index] = "execute"
                 /\ \A w \in Workers \ {index} : pc'[w] = pc[w]
                 /\ index' = IF index = N THEN 1 ELSE index + 1
                 /\ UNCHANGED m_syncMutex
           /\ c # Main =>
                 /\ Receiver(c) = c
                 /\ pc'[c] = "loop"
                 /\ \A d \in Callers \ {c} : pc'[d] = pc[d]
                 /\ m_syncMutex' = Main
                 /\ UNCHANGED index
           /\ pc' \in [Callers -> Somewhere]
<1>1. pc \in [Callers -> Somewhere] /\ index \in Workers
  BY DEF TypeInv, TypeOK, PlaceInv, Somewhere, MainPlaces, WorkerPlaces, SearchPlaces,
         FilePlaces, HandPlaces
<1>2. {"connect", "list", "execute", "loop"} \subseteq Somewhere
  BY DEF Somewhere, MainPlaces, WorkerPlaces, SearchPlaces
<1>3. CASE c = Main
  <2>1. /\ pc' = [pc EXCEPT ![Main] = IF index = N THEN "connect" ELSE "list",
                            ![index] = "execute"]
        /\ index' = IF index = N THEN 1 ELSE index + 1
        /\ UNCHANGED m_syncMutex
    BY <1>3 DEF Deliver
  <2>2. QED
    BY <1>1, <1>2, <1>3, <2>1, Basics DEF Deliver, Receiver
<1>4. CASE c # Main
  BY <1>1, <1>2, <1>4, Basics DEF Deliver, Receiver, Goto
<1>5. QED
  BY <1>3, <1>4

LEMMA DeliverType ==
    ASSUME TypeInv, NEW c \in Callers, pc[c] \in {"take", "deliver"},
           NEW o \in Orders, Deliver(c, o),
           m_lockFile' = m_lockFile \/ m_lockFile' = NoLock,
           UNCHANGED <<m_state, game, res, kindOf, saved, storefile, locks, m_gamesPlayed,
                       m_gamesLeft, m_threadsLeft, m_storedFiles, quit, curl_save, sending,
                       uploaded, gone, twice, starts>>
    PROVE  TypeInv'
<1>1. /\ m_todo' \in [Workers -> Orders]
      /\ job' \in [Workers -> Jobs]
  BY DeliverIs, OrderType
<1>2. m_syncMutex' \in Callers
  BY DeliverIs, Basics DEF TypeInv, TypeOK
<1>3. index' \in Workers
  BY DeliverIs, WorkersAssumption DEF TypeInv, PlaceInv, Workers
<1>4. \A d \in Callers :
          \/ pc'[d] = pc[d] /\ d # c
          \/ d = Main /\ pc'[d] \in {"connect", "list"}
          \/ d \in Workers /\ pc'[d] \in {"execute", "loop"}
  BY DeliverIs, Basics DEF TypeInv, PlaceInv
<1>5. /\ found' \in [Callers -> FileNames \cup {NoFile}] /\ order' \in [Callers -> Orders]
      /\ \A d \in Callers \ {c} : found'[d] = found[d]
  BY DeliverIs, Basics DEF TypeInv, TypeOK
<1>6. m_lockFile' \in LockStates /\ (m_lockFile'.state # "null" => m_lockFile'.file # NoFile)
  BY DEF TypeInv, TypeOK, PlaceInv, LockStates, NoLock
<1>7. GamesStarted' = GamesStarted /\ MaybeGame' = MaybeGame
  BY DEF GamesStarted, MaybeGame
<1>8. TypeOK'
  <2>1. pc' \in [Callers -> Somewhere]
    BY DeliverIs
  <2>2. QED
    BY <1>1, <1>2, <1>5, <1>6, <1>7, <2>1
       DEF TypeInv, TypeOK, Jobs, JobStates, LockStates, Somewhere, MainPlaces, WorkerPlaces,
           SearchPlaces, FilePlaces, HandPlaces
<1>9. PlaceInv'
  <2>1. pc'[Main] \in MainPlaces /\ \A w \in Workers : pc'[w] \in WorkerPlaces
    BY <1>4, Basics DEF TypeInv, PlaceInv, MainPlaces, WorkerPlaces, SearchPlaces
  <2>2. \A d \in Callers : pc'[d] \in FilePlaces => found'[d] # NoFile
    BY <1>4, <1>5 DEF TypeInv, PlaceInv, FilePlaces
  <2>3. QED
    BY <1>3, <1>6, <2>1, <2>2 DEF TypeInv, PlaceInv
<1>10. ResultInv'
  BY <1>4, Basics DEF TypeInv, ResultInv, Concluded
<1>11. GameInv'
  BY <1>7 DEF TypeInv, GameInv
<1>12. QED
  BY <1>8, <1>9, <1>10, <1>11 DEF TypeInv

LEMMA ServerOrderIs ==
    ASSUME NEW cmd \in ServerOrders \cup {"selfplay"}
    PROVE  /\ ServerOrder(cmd) \in Orders
           /\ ServerOrder(cmd).sgf = NoFile
           /\ ServerOrder(cmd).type
                 \in {"Error", "Production", "Validation", "Wait"}
<1>1. cmd \in {"selfplay", "match", "wait", "unknown"}
  BY ManagementAssumption DEF Kinds
<1>2. QED
  BY <1>1 DEF ServerOrder, NoOrder, Orders, Types, Kinds

\* The process ends, whatever it was at.
LEMMA EndType ==
    ASSUME TypeInv, End
    PROVE  TypeInv'
<1>1. /\ UNCHANGED <<kindOf, saved, storefile, curl_save, uploaded, starts>>
      /\ GamesStarted' = GamesStarted /\ MaybeGame' = MaybeGame
  BY DEF End, GamesStarted, MaybeGame
<1>2. /\ pc' \in [Callers -> {"new", "down"}]
      /\ pc'[Main] = "down" /\ \A w \in Workers : pc'[w] = "new"
  BY Basics DEF End, Fresh
<1>3. /\ m_state' \in [Workers -> {"RUNNING"}]
      /\ m_todo' \in [Workers -> {NoOrder}]
      /\ job' \in [Workers -> {NoJob}]
      /\ game' \in [Workers -> {NoGame}]
      /\ res' \in [Workers -> {"none"}]
      /\ found' \in [Callers -> {NoFile}]
      /\ order' \in [Callers -> {NoOrder}]
      /\ gone' \subseteq GamesStarted
  BY DEF End
<1>4. NoJob \in Jobs /\ NoLock \in LockStates /\ NoLock.state = "null"
  BY DEF NoJob, Jobs, JobStates, NoLock, LockStates
<1>5. sending' = NoGame /\ twice' \subseteq GamesStarted
  BY DEF End, TypeInv, TypeOK, MaybeGame
<1>6. /\ m_threadsLeft' \in 1 .. N /\ m_gamesLeft' \in 0 .. MaxGames - N
      /\ index' \in Workers
  BY Basics, WorkersAssumption DEF End
<1>7. /\ m_gamesPlayed' = 0 /\ m_storedFiles' = {} /\ m_lockFile' = NoLock
      /\ quit' = "none" /\ locks' = {} /\ m_syncMutex' = Main
  BY DEF End
<1>8. TypeOK'
  BY <1>1, <1>2, <1>3, <1>4, <1>5, <1>6, <1>7, Basics
     DEF TypeInv, TypeOK, Results, Jobs, JobStates, LockStates
<1>9. PlaceInv' /\ ResultInv'
  BY <1>1, <1>2, <1>3, <1>4, <1>6, <1>7, Basics
     DEF TypeInv, PlaceInv, ResultInv, Concluded, MainPlaces, WorkerPlaces, FilePlaces
<1>10. GameInv'
  BY <1>1, <1>3 DEF TypeInv, GameInv, MaybeGame
<1>11. QED
  BY <1>8, <1>9, <1>10 DEF TypeInv

LEMMA FinishIs ==
    ASSUME TypeInv, NEW w \in Workers, DoFinish(w)
    PROVE  /\ m_state' = [m_state EXCEPT ![w] = "FINISHING"]
           /\ job' \in [Workers -> Jobs]
           /\ \A v \in Workers \ {w} : job'[v] = job[v]
           /\ job'[w].kind = job[w].kind /\ job'[w].state = "FINISHING"
<1>1. job \in [Workers -> Jobs] /\ "FINISHING" \in JobStates
  BY DEF TypeInv, TypeOK, Jobs, JobStates
<1>2. job' = [job EXCEPT ![w] = [job[w] EXCEPT !.state = "FINISHING"]]
      /\ m_state' = [m_state EXCEPT ![w] = "FINISHING"]
  BY DEF DoFinish
<1>3. QED
  BY <1>1, <1>2, JobWithState

\* How often it was sent is known of every game begun.
LEMMA SentIs ==
    ASSUME TypeInv, UNCHANGED kindOf, NEW g, Send(g)
    PROVE  /\ DOMAIN uploaded' = GamesStarted
           /\ \A x \in GamesStarted :
                 /\ Uploaded(x) \in Nat
                 /\ uploaded'[x] = Uploaded(x) + IF x = g THEN 1 ELSE 0
                 /\ Uploaded(x)' = uploaded'[x]
           /\ \A x \in DOMAIN uploaded' : uploaded'[x] \in Nat
<1>1. GamesStarted' = GamesStarted
  BY DEF GamesStarted
<1>2. \A x \in GamesStarted : Uploaded(x) \in Nat
  BY DEF Uploaded, TypeInv, GameInv
<1>3. uploaded' = [x \in GamesStarted |-> Uploaded(x) + IF x = g THEN 1 ELSE 0]
  BY DEF Send
<1>4. QED
  BY <1>1, <1>2, <1>3 DEF Uploaded

\* What getResult() does in the worker's thread.
LEMMA ResultType ==
    ASSUME TypeInv, NEW w \in Workers,
           TakeResult(w) \/ Upload(w) \/ Decide(w)
    PROVE  TypeInv'
<1> USE DEF TypeInv
<1>1. /\ w \in Callers /\ w # Main
      /\ UNCHANGED <<m_todo, kindOf, saved, storefile, locks, m_fallBack, m_storedFiles,
                     m_lockFile, found, order, index, sending, gone, twice, starts>>
      /\ GamesStarted' = GamesStarted /\ MaybeGame' = MaybeGame
  BY Basics DEF TakeResult, Upload, Decide, workerVars, fileVars, managementVars, storedVars,
                serverVars, historyVars, GamesStarted, MaybeGame
<1>2. CASE TakeResult(w)
  <2>1. /\ pc' = [pc EXCEPT ![w] = IF res[w] \in {"File", "Win"}
                                   THEN "upload" ELSE "sendall"]
        /\ m_syncMutex' = w /\ m_gamesPlayed' = m_gamesPlayed + 1
        /\ pc[w] = "result"
        /\ UNCHANGED <<m_state, job, game, res, m_gamesLeft, m_threadsLeft,
                       quit, curl_save, uploaded>>
    BY <1>2 DEF TakeResult, Goto, workerVars, serverVars
  <2>2. TypeOK'
    BY <1>1, <2>1 DEF TypeOK
  <2>3. PlaceInv'
    BY <1>1, <2>1 DEF PlaceInv, WorkerPlaces, FilePlaces, TypeOK
  <2>4. GameInv' /\ ResultInv'
    BY <1>1, <2>1 DEF GameInv, ResultInv, Concluded, TypeOK
  <2>5. QED
    BY <2>2, <2>3, <2>4
<1>3. CASE Upload(w)
  <2>1. /\ pc' = [pc EXCEPT ![w] = "sendall"] /\ pc[w] = "upload"
        /\ res' = [res EXCEPT ![w] = "none"]
        /\ game' = [game EXCEPT ![w] = NoGame]
        /\ UNCHANGED <<m_state, job, m_syncMutex, m_gamesPlayed, m_gamesLeft,
                       m_threadsLeft, quit>>
    BY <1>3 DEF Upload, Forget, Goto, managementVars, countVars
  <2>2. game[w] \in GamesStarted
    BY <2>1 DEF ResultInv, Concluded, GameInv, MaybeGame
  <2>3. /\ curl_save' \subseteq GamesStarted /\ curl_save \subseteq curl_save'
        /\ DOMAIN uploaded' \subseteq GamesStarted
        /\ \A g \in DOMAIN uploaded' : uploaded'[g] \in Nat
    BY <1>1, <1>3, <2>2, SentIs DEF Upload, TypeOK, GameInv
  <2>4. TypeOK'
    BY <1>1, <2>1, <2>3 DEF TypeOK, Results
  <2>5. PlaceInv'
    BY <1>1, <2>1 DEF PlaceInv, WorkerPlaces, FilePlaces, TypeOK
  <2>6. GameInv' /\ ResultInv'
    BY <1>1, <2>1, <2>3 DEF GameInv, ResultInv, Concluded, TypeOK, MaybeGame
  <2>7. QED
    BY <2>4, <2>5, <2>6
<1>4. CASE Decide(w)
  <2>1. /\ UNCHANGED <<game, res, m_gamesPlayed, curl_save, uploaded>>
        /\ \/ EndWorker(w)
           \/ /\ m_gamesLeft # 0 /\ m_gamesLeft' = m_gamesLeft - 1
              /\ pc' = [pc EXCEPT ![w] = "list"]
              /\ UNCHANGED <<m_state, job, m_threadsLeft, quit, m_syncMutex>>
    BY <1>4 DEF Decide, Goto, NoGamesLeft, serverVars, countVars
  <2>2. /\ m_state' \in [Workers -> {"RUNNING", "FINISHING", "STORING"}]
        /\ job' \in [Workers -> Jobs]
    BY <2>1, FinishIs DEF EndWorker, TypeOK, Jobs, JobStates
  <2>3. /\ m_gamesLeft' \in 0 .. MaxGames - N
        /\ m_threadsLeft' \in 1 .. N
        /\ quit' \in {"none", "posted", "lost"}
        /\ m_syncMutex' \in Callers
    BY <2>1, Basics DEF EndWorker, ThreadDone, TypeOK, PlaceInv
  <2>4. pc' = [pc EXCEPT ![w] = "loop"] \/ pc' = [pc EXCEPT ![w] = "list"]
    BY <2>1 DEF EndWorker, Goto
  <2>5. TypeOK'
    BY <1>1, <2>1, <2>2, <2>3, <2>4 DEF TypeOK, Jobs, JobStates
  <2>6. PlaceInv'
    <3>1. \A d \in Callers : pc'[d] = pc[d] \/ (d = w /\ pc'[d] \in {"loop", "list"})
      BY <2>4 DEF TypeOK
    <3>2. QED
      BY <1>1, <2>1, <2>3, <3>1, Basics DEF PlaceInv, WorkerPlaces, SearchPlaces, FilePlaces
  <2>7. GameInv'
    BY <1>1, <2>1 DEF GameInv
  <2>8. ResultInv'
    <3>1. \A v \in Workers : pc'[v] = pc[v] \/ pc'[v] \in {"loop", "list"}
      BY <2>4, Basics DEF TypeOK
    <3>2. QED
      BY <2>1, <3>1 DEF ResultInv, Concluded
  <2>9. QED
    BY <2>5, <2>6, <2>7, <2>8
<1>5. QED
  BY <1>2, <1>3, <1>4

\* sendAllGames(), by the main thread or a worker.
LEMMA SendType ==
    ASSUME TypeInv, NEW c \in Callers, SendAllGames(c)
    PROVE  TypeInv'
<1> USE DEF TypeInv
<1>1. /\ UNCHANGED <<workerVars, fileVars, managementVars, historyVars, starts>>
      /\ GamesStarted' = GamesStarted /\ MaybeGame' = MaybeGame
  BY DEF SendAllGames, SendKept, RemoveKept, AllSent, fileVars, GamesStarted, MaybeGame
<1>2. /\ pc' = [pc EXCEPT ![c] = IF pc'[c] \in {"sendall", "sent"} THEN pc'[c]
                                 ELSE IF c = Main THEN "tune" ELSE "decide"]
      /\ \A d \in Callers \ {c} : pc'[d] = pc[d]
      /\ pc'[c] \in {"sendall", "sent", IF c = Main THEN "tune" ELSE "decide"}
  BY DEF SendAllGames, SendKept, RemoveKept, AllSent, Goto, TypeOK
<1>3. /\ curl_save' \subseteq GamesStarted /\ sending' \in curl_save' \cup {NoGame}
      /\ DOMAIN uploaded' \subseteq GamesStarted
      /\ \A g \in DOMAIN uploaded' : uploaded'[g] \in Nat
  <2>1. CASE SendKept(c)
    <3>1. UNCHANGED kindOf
      BY <1>1 DEF fileVars
    <3>2. PICK g \in curl_save : Send(g) /\ sending' = g
      BY <2>1 DEF SendKept
    <3>3. curl_save' = curl_save
      BY <2>1 DEF SendKept
    <3>4. QED
      BY <3>1, <3>2, <3>3, SentIs DEF TypeOK
  <2>2. CASE RemoveKept(c) \/ AllSent(c)
    BY <2>2 DEF RemoveKept, AllSent, TypeOK, GameInv, serverVars
  <2>3. QED
    BY <2>1, <2>2 DEF SendAllGames
<1>4. TypeOK'
  <2>1. pc' \in [Callers -> Somewhere]
    BY <1>2 DEF TypeOK, Somewhere, MainPlaces, WorkerPlaces, SearchPlaces, FilePlaces, HandPlaces
  <2>2. QED
    BY <1>1, <1>3, <2>1
       DEF TypeOK, workerVars, fileVars, managementVars, storedVars, historyVars, Somewhere,
           MainPlaces, WorkerPlaces, SearchPlaces, FilePlaces, HandPlaces
<1>5. PlaceInv'
  BY <1>1, <1>2, Basics DEF PlaceInv, MainPlaces, WorkerPlaces, FilePlaces, managementVars,
                            countVars, storedVars
<1>6. GameInv'
  BY <1>1, <1>3 DEF GameInv, workerVars, fileVars
<1>7. ResultInv'
  BY <1>1, <1>2, Basics DEF ResultInv, Concluded, workerVars
<1>8. QED
  BY <1>4, <1>5, <1>6, <1>7

\* What every step of the search comes to: a place of it, and variables of their types.
LEMMA SearchesType ==
    ASSUME TypeInv, NEW c \in Callers, Searches,
           NEW l \in SearchPlaces, pc' = [pc EXCEPT ![c] = l],
           storefile' \in [FileNames -> Orders], locks' \subseteq FileNames,
           m_storedFiles' \subseteq FileNames, m_lockFile' \in LockStates,
           found' \in [Callers -> FileNames \cup {NoFile}], order' \in [Callers -> Orders],
           gone' = gone, twice' \subseteq GamesStarted,
           \A d \in Callers \ {c} : found'[d] = found[d],
           l \in FilePlaces => found'[c] # NoFile,
           m_lockFile'.state # "null" => m_lockFile'.file # NoFile
    PROVE  TypeInv'
<1> USE DEF TypeInv
<1>1. /\ UNCHANGED <<m_state, m_todo, job, game, res, kindOf, saved, m_syncMutex, m_gamesPlayed,
                     m_gamesLeft, m_threadsLeft, index, quit, curl_save, sending, uploaded,
                     starts>>
      /\ GamesStarted' = GamesStarted /\ MaybeGame' = MaybeGame
  BY DEF Searches, workerVars, countVars, serverVars, GamesStarted, MaybeGame
<1>2. /\ pc'[c] = l /\ \A d \in Callers \ {c} : pc'[d] = pc[d]
      /\ pc' \in [Callers -> Somewhere]
  BY DEF TypeOK, Somewhere, MainPlaces, WorkerPlaces, SearchPlaces, FilePlaces, HandPlaces
<1>3. TypeOK'
  BY <1>1, <1>2 DEF TypeOK, LockStates, Somewhere, MainPlaces, WorkerPlaces, SearchPlaces,
                    FilePlaces, HandPlaces
<1>4. PlaceInv'
  BY <1>1, <1>2, Basics DEF PlaceInv, MainPlaces, WorkerPlaces
<1>5. GameInv'
  BY <1>1 DEF GameInv
<1>6. ResultInv'
  BY <1>1, <1>2, Basics DEF ResultInv, Concluded, SearchPlaces, FilePlaces, HandPlaces
<1>7. QED
  BY <1>3, <1>4, <1>5, <1>6

\* The steps of getNextStored() and getWork(file) until the order is given.
Seeks(c) ==
    \/ List(c) \/ TakeStored(c) \/ TakeLast(c)
    \/ NewLock(c) \/ TryLock(c) \/ Exists(c) \/ DeleteLock(c) \/ Dropped(c)
    \/ LoadStored(c) \/ RemoveStored(c) \/ Unlock(c)

LEMMA SeekType ==
    ASSUME TypeInv, NEW c \in Callers, Seeks(c)
    PROVE  TypeInv'
<1> USE DEF TypeInv
<1>1. Searches /\ gone' = gone
  BY DEF Seeks, List, TakeStored, TakeLast, NewLock, TryLock, Exists, DeleteLock, Dropped,
         LoadStored, RemoveStored, Unlock, historyVars
<1>2. PICK l \in SearchPlaces :
          /\ pc' = [pc EXCEPT ![c] = l]
          /\ l \in FilePlaces => pc[c] \in FilePlaces \/ found'[c] # NoFile
  <2>1. \E l \in SearchPlaces :
            /\ pc' = [pc EXCEPT ![c] = l]
            /\ l \in FilePlaces => pc[c] \in FilePlaces \/ found'[c] # NoFile
    <3>1. CASE List(c)
      <4>1. pc' = [pc EXCEPT ![c] = "take"]
        BY <3>1 DEF List, Goto
      <4>2. "take" \in SearchPlaces /\ "take" \notin FilePlaces
        BY DEF SearchPlaces, FilePlaces
      <4>3. QED
        BY <4>1, <4>2
    <3>2. CASE TakeStored(c)
      <4>1. PICK f \in m_storedFiles : found' = [found EXCEPT ![c] = f]
        BY <3>2 DEF TakeStored
      <4>2. found'[c] # NoFile
        BY <4>1, Basics DEF TypeOK
      <4>3. QED
        BY <3>2, <4>2 DEF TakeStored, Goto, SearchPlaces, FilePlaces
    <3>3. CASE TakeLast(c)
      BY <3>3 DEF TakeLast, Goto, SearchPlaces, FilePlaces, storedVars
    <3>4. CASE NewLock(c) \/ TryLock(c) \/ Exists(c)
      BY <3>4 DEF NewLock, TryLock, Exists, Goto, SearchPlaces, FilePlaces
    <3>5. CASE DeleteLock(c) \/ Dropped(c)
      BY <3>5 DEF DeleteLock, Dropped, Goto, SearchPlaces, FilePlaces, HandPlaces
    <3>6. CASE LoadStored(c) \/ RemoveStored(c) \/ Unlock(c)
      BY <3>6 DEF LoadStored, RemoveStored, Unlock, Goto, SearchPlaces, FilePlaces, HandPlaces
    <3>7. QED
      BY <3>1, <3>2, <3>3, <3>4, <3>5, <3>6 DEF Seeks
  <2>2. QED
    BY <2>1
<1>3. /\ found' \in [Callers -> FileNames \cup {NoFile}]
      /\ \A d \in Callers \ {c} : found'[d] = found[d]
      /\ pc[c] \in FilePlaces => found'[c] = found[c]
  BY DEF Seeks, List, TakeStored, TakeLast, NewLock, TryLock, Exists, DeleteLock, Dropped,
         LoadStored, RemoveStored, Unlock, storedVars, TypeOK, FilePlaces
<1>4. storefile' \in [FileNames -> Orders]
  BY Basics DEF Seeks, List, TakeStored, TakeLast, NewLock, TryLock, Exists, DeleteLock, Dropped,
                LoadStored, RemoveStored, Unlock, TypeOK
<1>5. m_storedFiles' \subseteq FileNames
  BY DEF Seeks, List, TakeStored, TakeLast, NewLock, TryLock, Exists, DeleteLock, Dropped,
         LoadStored, RemoveStored, Unlock, storedVars, TypeOK, Files
<1>6. /\ order' \in [Callers -> Orders]
      /\ twice' \subseteq GamesStarted
  <2>1. CASE LoadStored(c)
    <3>1. storefile[found[c]] \in Orders
      BY <2>1 DEF LoadStored, PlaceInv, FilePlaces, TypeOK
    <3>2. Position(storefile[found[c]]) \in MaybeGame
      BY <3>1, PositionType
    <3>3. QED
      BY <2>1, <3>1, <3>2 DEF LoadStored, TypeOK, MaybeGame
  <2>2. CASE ~LoadStored(c)
    BY <2>2 DEF Seeks, List, TakeStored, TakeLast, NewLock, TryLock, Exists, DeleteLock, Dropped,
                RemoveStored, Unlock, storedVars, historyVars, TypeOK
  <2>3. QED
    BY <2>1, <2>2
<1>7. /\ m_lockFile' \in LockStates /\ locks' \subseteq FileNames
      /\ m_lockFile'.state # "null" => m_lockFile'.file # NoFile
  <2>1. m_lockFile \in LockStates /\ locks \subseteq FileNames
        /\ (m_lockFile.state # "null" => m_lockFile.file # NoFile)
        /\ (m_lockFile.state # "null" => m_lockFile.file \in FileNames)
    BY DEF TypeOK, PlaceInv, LockStates
  <2>2. CASE NewLock(c)
    BY <2>1, <2>2, Basics DEF NewLock, TypeOK, PlaceInv, FilePlaces, LockStates
  <2>3. CASE TryLock(c)
    BY <2>1, <2>3 DEF TryLock, LockStates
  <2>4. CASE DeleteLock(c) \/ Unlock(c)
    BY <2>1, <2>4 DEF DeleteLock, Unlock, LockStates
  <2>5. CASE Dropped(c)
    BY <2>1, <2>5 DEF Dropped, NoLock, LockStates
  <2>6. CASE ~(NewLock(c) \/ TryLock(c) \/ DeleteLock(c) \/ Unlock(c) \/ Dropped(c))
    <3>1. m_lockFile' = m_lockFile /\ locks' = locks
      BY <2>6 DEF Seeks, List, TakeStored, TakeLast, Exists, LoadStored, RemoveStored, storedVars
    <3>2. QED
      BY <2>1, <3>1
  <2>7. QED
    BY <2>2, <2>3, <2>4, <2>5, <2>6
<1>8. l \in FilePlaces => found'[c] # NoFile
  BY <1>2, <1>3 DEF PlaceInv
<1>9. QED
  BY <1>1, <1>2, <1>3, <1>4, <1>5, <1>6, <1>7, <1>8, SearchesType

\* Whoever looks for an order.
LEMMA SearchType ==
    ASSUME TypeInv, NEW c \in Callers, Search(c)
    PROVE  TypeInv'
<1>1. CASE Seeks(c)
  BY <1>1, SeekType
<1>2. CASE GiveStored(c)
  <2>1. order[c] \in Orders
    BY DEF TypeInv, TypeOK
  <2>2. QED
    BY <1>2, <2>1, DeliverType DEF GiveStored, fileVars, countVars, serverVars, historyVars
<1>3. CASE GetWork(c)
  <2>1. PICK cmd \in ServerOrders \cup {"selfplay"} :
          Deliver(c, ServerOrder(cmd))
    BY <1>3 DEF GetWork
  <2>2. ServerOrder(cmd) \in Orders
    BY ServerOrderIs
  <2>3. QED
    BY <1>3, <2>1, <2>2, DeliverType
       DEF GetWork, FindsNone, fileVars, countVars, serverVars, historyVars
<1>4. CASE Crash(c) \/ NoWork(c)
  BY <1>4, EndType DEF Crash, NoWork
<1>5. QED
  BY <1>1, <1>2, <1>3, <1>4 DEF Search, Seeks

\* The main thread, and the ends of the process.
LEMMA MainType ==
    ASSUME TypeInv,
           \/ Start \/ Tune \/ Connect \/ Quit \/ StoreJob
           \/ StoreState \/ NullJob \/ Exit
           \/ \E w \in Workers : ExitOnError(w)
    PROVE  TypeInv'
<1> USE DEF TypeInv
<1>1. CASE NullJob \/ Exit \/ \E w \in Workers : ExitOnError(w)
  BY <1>1, EndType DEF NullJob, Exit, ExitOnError
<1>2. CASE Start \/ Tune \/ Connect \/ Quit \/ StoreJob \/ StoreState
  <2>1. /\ UNCHANGED <<m_todo, game, res, kindOf, saved, storefile, locks, m_syncMutex,
                       m_gamesPlayed, m_gamesLeft, m_threadsLeft, m_storedFiles, m_lockFile,
                       found, order, quit, curl_save, sending, uploaded, gone, twice>>
        /\ GamesStarted' = GamesStarted /\ MaybeGame' = MaybeGame
    BY <1>2 DEF Start, Tune, Connect, Quit, StoreJob, StoreState, workerVars, fileVars,
       managementVars, countVars, storedVars, serverVars, historyVars, GamesStarted, MaybeGame
  <2>2. \E l \in MainPlaces \ FilePlaces : pc' = [pc EXCEPT ![Main] = l]
    BY <1>2 DEF Start, Tune, Connect, Quit, StoreJob, StoreState, Goto, MainPlaces, SearchPlaces,
                FilePlaces
  <2>3. job' \in [Workers -> Jobs]
    <3>1. job \in [Workers -> Jobs] /\ "STORING" \in JobStates
      BY DEF TypeOK, Jobs, JobStates
    <3>2. \/ job' = job
          \/ job' = [job EXCEPT ![index] = [job[index] EXCEPT !.state = "STORING"]]
      BY <1>2 DEF Start, Tune, Connect, Quit, StoreJob, StoreState, workerVars
    <3>3. QED
      BY <3>1, <3>2, JobWithState DEF PlaceInv
  <2>4. m_state' = m_state \/ m_state' = [m_state EXCEPT ![index] = "STORING"]
    BY <1>2 DEF Start, Tune, Connect, Quit, StoreJob, StoreState, workerVars
  <2>5. index' \in Workers /\ starts' \in 0..MaxStarts
    <3>1. index' \in {index, 1} \/ (index # N /\ index' = index + 1)
      BY <1>2 DEF Start, Tune, Connect, Quit, StoreJob, StoreState,
                  managementVars
    <3>2. starts' = starts \/ (starts < MaxStarts /\ starts' = starts + 1)
      BY <1>2 DEF Start, Tune, Connect, Quit, StoreJob, StoreState
    <3>3. QED
      BY <3>1, <3>2, WorkersAssumption DEF PlaceInv, Workers
  <2>6. TypeOK'
    <3>1. m_state' \in [Workers -> {"RUNNING", "FINISHING", "STORING"}]
      BY <2>4 DEF TypeOK, PlaceInv
    <3>2. pc' \in [Callers -> Somewhere]
      BY <2>2, AllPlaces
    <3>3. QED
      BY <2>1, <2>3, <3>1, <3>2
         DEF TypeOK, Jobs, JobStates, Somewhere, MainPlaces, WorkerPlaces, SearchPlaces,
             FilePlaces, HandPlaces
  <2>7. PlaceInv'
    BY <2>1, <2>2, <2>5, Basics DEF PlaceInv, TypeOK
  <2>8. GameInv' /\ ResultInv'
    BY <2>1, <2>2, Basics DEF GameInv, ResultInv, Concluded, TypeOK
  <2>9. QED
    BY <2>6, <2>7, <2>8
<1>3. QED
  BY <1>1, <1>2

\* The workers, and their games.
LEMMA RunType ==
    ASSUME TypeInv, NEW w \in Workers, RunWorker(w)
    PROVE  TypeInv'
<1> USE DEF TypeInv
<1>1. /\ UNCHANGED <<m_syncMutex, m_gamesPlayed, m_gamesLeft, m_threadsLeft, m_fallBack,
                     m_storedFiles, m_lockFile, found, order, index, quit, curl_save, sending,
                     uploaded, gone, twice>>
      /\ w \in Callers /\ w # Main
      /\ Run(w)
  BY Basics DEF RunWorker, managementVars, countVars, storedVars, serverVars, historyVars
<1>2. CASE StartGame(w)
  <2>1. /\ Len(kindOf) \in Nat
        /\ \/ /\ kindOf' = kindOf
              /\ game' = [game EXCEPT ![w] = Position(m_todo[w])]
              /\ Position(m_todo[w]) # NoGame
              /\ pc' = [pc EXCEPT ![w] = "start"]
           \/ /\ kindOf' \in Seq(Kinds) /\ Len(kindOf') = Len(kindOf) + 1
              /\ game' = [game EXCEPT ![w] = Len(kindOf) + 1]
              /\ pc' = [pc EXCEPT ![w] = "play"]
    BY <1>2, AppendProperties, LenProperties DEF StartGame, Startable, Goto, Kinds, GameInv
  <2>2. /\ kindOf' \in Seq(Kinds)
        /\ GamesStarted \subseteq GamesStarted' /\ MaybeGame \subseteq MaybeGame'
    BY <2>1 DEF GamesStarted, MaybeGame, GameInv
  <2>3. Position(m_todo[w]) \in MaybeGame
    BY PositionType DEF TypeOK
  <2>4. /\ game' \in [Workers -> MaybeGame'] /\ game'[w] # NoGame
        /\ \A v \in Workers \ {w} : game'[v] = game[v]
    BY <2>1, <2>2, <2>3 DEF GamesStarted, MaybeGame, GameInv, NoGame
  <2>5. UNCHANGED <<m_state, m_todo, job, res, saved, storefile, locks, starts>>
    BY <1>2 DEF StartGame
  <2>6. TypeOK'
    BY <1>1, <2>1, <2>2, <2>5 DEF TypeOK
  <2> DEFINE l == IF m_todo[w].sgf = NoFile THEN "play" ELSE "start"
  <2>7. pc' = [pc EXCEPT ![w] = l]
    BY <1>2 DEF StartGame, Goto
  <2>8. l \in WorkerPlaces /\ l \notin FilePlaces /\ l \notin {"executed", "result", "upload"}
    BY DEF WorkerPlaces, FilePlaces
  <2> HIDE DEF l
  <2>9. PlaceInv'
    BY <1>1, <2>5, <2>7, <2>8 DEF PlaceInv, TypeOK
  <2>10. GameInv'
    BY <1>1, <2>2, <2>4 DEF GameInv
  <2>11. ResultInv'
    <3>1. \A v \in Workers \ {w} : pc'[v] = pc[v] /\ game'[v] = game[v] /\ res'[v] = res[v]
      BY <2>4, <2>5, <2>7 DEF TypeOK
    <3>2. pc'[w] = l /\ game'[w] # NoGame
      BY <1>1, <2>4, <2>7 DEF TypeOK
    <3>3. QED
      BY <2>8, <3>1, <3>2 DEF ResultInv, Concluded
  <2>12. QED
    BY <2>6, <2>9, <2>10, <2>11
<1>3. CASE RemovePosition(w)
  <2>1. /\ pc[w] = "start" /\ pc' = [pc EXCEPT ![w] = "play"]
        /\ saved' = [saved EXCEPT ![m_todo[w].sgf] = NoGame]
        /\ UNCHANGED <<m_state, m_todo, job, game, res, kindOf, storefile, locks, starts>>
        /\ GamesStarted' = GamesStarted /\ MaybeGame' = MaybeGame
    BY <1>3 DEF RemovePosition, Goto, workerVars, GamesStarted, MaybeGame
  <2>2. TypeOK'
    BY <1>1, <2>1 DEF TypeOK
  <2>3. PlaceInv'
    BY <1>1, <2>1 DEF PlaceInv, WorkerPlaces, FilePlaces, TypeOK
  <2>4. GameInv' /\ ResultInv'
    BY <1>1, <2>1 DEF GameInv, ResultInv, Concluded, TypeOK
  <2>5. QED
    BY <2>2, <2>3, <2>4
<1>4. CASE EndGame(w)
  <2>1. /\ pc[w] = "play" /\ pc' = [pc EXCEPT ![w] = "executed"]
        /\ res' = [res EXCEPT ![w] = Conclusion(job[w].kind, job[w].state)]
        /\ saved' \in {saved, [saved EXCEPT ![Name(w)] = game[w]]}
        /\ UNCHANGED <<m_state, m_todo, job, game, kindOf, storefile, locks, starts>>
        /\ GamesStarted' = GamesStarted /\ MaybeGame' = MaybeGame
    BY <1>4 DEF EndGame, Goto, GamesStarted, MaybeGame
  <2>2. Conclusion(job[w].kind, job[w].state) \in Results
    <3>1. job[w].state \in {"RUNNING", "FINISHING", "STORING"}
      BY DEF TypeOK
    <3>2. QED
      BY <3>1 DEF Conclusion, Results
  <2>3. game[w] \in GamesStarted
    BY <2>1 DEF ResultInv, Concluded, GameInv, MaybeGame
  <2>4. TypeOK'
    BY <1>1, <2>1, <2>2, <2>3 DEF TypeOK
  <2>5. PlaceInv'
    BY <1>1, <2>1 DEF PlaceInv, WorkerPlaces, FilePlaces, TypeOK
  <2>6. GameInv' /\ ResultInv'
    BY <1>1, <2>1 DEF GameInv, ResultInv, Concluded, TypeOK
  <2>7. QED
    BY <2>4, <2>5, <2>6
<1>5. CASE EngineFails(w) \/ SleepOver(w)
  <2>1. /\ pc' = [pc EXCEPT ![w] = "executed"]
        /\ \E r \in {"Error", "Waited"} : res' = [res EXCEPT ![w] = r]
        /\ \E g \in {NoGame, game[w]} : game' = [game EXCEPT ![w] = g]
        /\ UNCHANGED <<m_state, m_todo, job, kindOf, saved, storefile, locks, starts>>
        /\ GamesStarted' = GamesStarted /\ MaybeGame' = MaybeGame
    BY <1>5 DEF EngineFails, SleepOver, Goto, fileVars, GamesStarted, MaybeGame
  <2>2. TypeOK'
    BY <1>1, <2>1 DEF TypeOK, Results
  <2>3. PlaceInv'
    BY <1>1, <2>1 DEF PlaceInv, WorkerPlaces, FilePlaces, TypeOK
  <2>4. GameInv'
    BY <1>1, <2>1 DEF GameInv, MaybeGame
  <2>5. ResultInv'
    BY <1>1, <2>1 DEF ResultInv, Concluded, TypeOK
  <2>6. QED
    BY <2>2, <2>3, <2>4, <2>5
<1>6. CASE CheckStoring(w) \/ LoopTest(w) \/ Leave(w) \/ EndSave(w)
  <2>1. /\ \/ pc[w] = "executed" /\ pc' = [pc EXCEPT ![w] = "result"]
           \/ \E l \in {"loop", "execute", "leave", "exited"} :
                  pc' = [pc EXCEPT ![w] = l]
        /\ UNCHANGED <<m_state, m_todo, job, game, res, kindOf, saved, storefile, starts>>
        /\ locks' \subseteq locks
        /\ GamesStarted' = GamesStarted /\ MaybeGame' = MaybeGame
    BY <1>6 DEF CheckStoring, LoopTest, Leave, EndSave, Goto, workerVars,
                fileVars, GamesStarted, MaybeGame
  <2>2. \E l \in WorkerPlaces \ (FilePlaces \cup {"new", "play"}) : pc' = [pc EXCEPT ![w] = l]
    BY <2>1 DEF WorkerPlaces, FilePlaces
  <2>3. TypeOK'
    <3>1. pc' \in [Callers -> Somewhere]
      BY <2>2, AllPlaces
    <3>2. QED
      BY <1>1, <2>1, <3>1 DEF TypeOK, Somewhere, MainPlaces, WorkerPlaces, SearchPlaces,
                              FilePlaces, HandPlaces
  <2>4. PlaceInv'
    BY <1>1, <2>1, <2>2 DEF PlaceInv, TypeOK
  <2>5. GameInv'
    BY <1>1, <2>1 DEF GameInv
  <2>6. ResultInv'
    <3>1. \A v \in Workers :
              \/ pc'[v] = pc[v]
              \/ pc[v] = "executed" /\ pc'[v] = "result"
              \/ pc'[v] \in {"loop", "execute", "leave", "exited"}
      BY <1>1, <2>1, Basics DEF TypeOK
    <3>2. QED
      BY <2>1, <3>1 DEF ResultInv, Concluded
  <2>7. QED
    BY <2>3, <2>4, <2>5, <2>6
<1>7. CASE BeginSave(w)
  <2>1. Name(w) \in FileNames
    BY Names
  <2>2. StoredOrder(w) \in Orders
    BY <2>1 DEF StoredOrder, Orders, Types, TypeOK
  <2>3. /\ pc' = [pc EXCEPT ![w] = "saving"]
        /\ storefile' = [storefile EXCEPT ![Name(w)] = StoredOrder(w)]
        /\ locks' = locks \cup {Name(w)}
        /\ UNCHANGED <<m_state, m_todo, job, game, res, kindOf, saved, starts>>
        /\ GamesStarted' = GamesStarted /\ MaybeGame' = MaybeGame
    BY <1>7 DEF BeginSave, Goto, workerVars, GamesStarted, MaybeGame
  <2> HIDE DEF StoredOrder
  <2>4. TypeOK'
    BY <1>1, <2>1, <2>2, <2>3 DEF TypeOK
  <2>5. PlaceInv'
    BY <1>1, <2>3 DEF PlaceInv, WorkerPlaces, FilePlaces, TypeOK
  <2>6. GameInv' /\ ResultInv'
    BY <1>1, <2>3 DEF GameInv, ResultInv, Concluded, TypeOK
  <2>7. QED
    BY <2>4, <2>5, <2>6
<1>8. QED
  BY <1>1, <1>2, <1>3, <1>4, <1>5, <1>6, <1>7 DEF Run

LEMMA TypeNext == TypeInv /\ [Next]_vars => TypeInv'
<1> SUFFICES ASSUME TypeInv, [Next]_vars PROVE TypeInv'
  OBVIOUS
<1>1. CASE UNCHANGED vars
  BY <1>1 DEF vars, workerVars, fileVars, managementVars, countVars, storedVars, serverVars,
     historyVars, TypeInv, TypeOK, PlaceInv, GameInv, ResultInv, Concluded, GamesStarted, MaybeGame
<1>2. CASE Next
  BY <1>2, ResultType, SearchType, SendType, MainType, RunType, Basics
     DEF Next, MainThread, WorkerThread, Timeout
<1>3. QED
  BY <1>1, <1>2

\* What earlier processes left: the files of the stored games are named by what they hold.
LEMMA FilesAtInit ==
    ASSUME Init
    PROVE  \E stored \in Nat : \E kept \in Nat :
              /\ stored <= N
              /\ GamesStarted = 1 .. (stored + kept)
              /\ kindOf \in Seq(Kinds)
              /\ curl_save = (stored + 1) .. (stored + kept)
              /\ uploaded = [g \in GamesStarted |-> 0]
              /\ saved \in [FileNames -> 0 .. stored]
              /\ \A f \in FileNames :
                    /\ saved[f] # NoGame => f[1] = 0 /\ f[2] = saved[f]
                    /\ f[1] = 0 /\ f[2] <= stored => saved[f] = f[2]
              /\ storefile \in [FileNames -> Orders]
              /\ \A f \in FileNames :
                    \/ saved[f] = NoGame /\ storefile[f] = NoOrder
                    \/ /\ saved[f] # NoGame /\ storefile[f].sgf = f
                       /\ storefile[f].type \in {"RestoreMatch", "RestoreSelfPlayed"}
<1>1. PICK stored \in {0, Len(LeftStored)}, kept \in {0, LeftKept} :
          FilesInit(stored, kept)
  BY DEF Init
<1>2. /\ stored \in Nat /\ kept \in Nat /\ stored <= N
      /\ \A g \in 1 .. stored : LeftStored[g] \in {"selfplay", "match"}
  BY <1>1, ManagementAssumption, Basics
<1>3. kindOf \in Seq(Kinds) /\ GamesStarted = 1 .. (stored + kept)
  <2>1. stored + kept \in Nat
        /\ kindOf \in [1 .. (stored + kept) -> Kinds]
    BY <1>1, <1>2 DEF FilesInit, Kinds
  <2>2. kindOf \in Seq(Kinds) /\ Len(kindOf) = stored + kept
    BY <2>1, SeqDef, LenProperties
  <2>3. QED
    BY <2>2 DEF GamesStarted
<1>4. /\ curl_save = (stored + 1) .. (stored + kept)
      /\ uploaded = [g \in GamesStarted |-> 0]
  BY <1>1, <1>3 DEF FilesInit
<1>5. saved = [f \in FileNames |-> IF f[1] = 0 /\ f[2] <= stored THEN f[2] ELSE NoGame]
  BY <1>1 DEF FilesInit
<1>6. \A f \in FileNames : f[1] \in Nat /\ f[2] \in 1 .. N
  BY DEF FileNames, Workers
<1>7. saved \in [FileNames -> 0 .. stored]
  BY <1>2, <1>5, <1>6, Basics DEF NoGame
<1>8. \A f \in FileNames :
         /\ saved[f] # NoGame => f[1] = 0 /\ f[2] = saved[f] /\ f[2] \in 1 .. stored
         /\ f[1] = 0 /\ f[2] <= stored => saved[f] = f[2] /\ saved[f] # NoGame
  BY <1>2, <1>5, <1>6, Basics DEF NoGame
<1>9. ASSUME NEW f \in FileNames
      PROVE  \/ saved[f] = NoGame /\ storefile[f] = NoOrder
             \/ /\ saved[f] # NoGame /\ storefile[f].sgf = f
                /\ storefile[f].type \in {"RestoreMatch", "RestoreSelfPlayed"}
                /\ storefile[f] \in Orders
  <2>1. storefile[f] = IF saved[f] = NoGame THEN NoOrder
                       ELSE [type |-> IF LeftStored[f[2]] = "match" THEN "RestoreMatch"
                                      ELSE "RestoreSelfPlayed",
                             params |-> LeftStored[f[2]], sgf |-> f]
    BY <1>1 DEF FilesInit
  <2>2. CASE saved[f] = NoGame
    BY <2>1, <2>2
  <2>3. CASE saved[f] # NoGame
    <3>1. LeftStored[f[2]] \in {"selfplay", "match"}
      BY <1>2, <1>8, <2>3
    <3>2. QED
      BY <2>1, <2>3, <3>1 DEF Orders, Types, Kinds
  <2>4. QED
    BY <2>2, <2>3
<1>10. storefile \in [FileNames -> Orders]
  <2>1. DOMAIN storefile = FileNames
        /\ storefile = [f \in FileNames |-> storefile[f]]
    BY <1>1 DEF FilesInit
  <2>2. QED
    BY <1>9, <2>1, Basics
<1>11. QED
  BY <1>2, <1>3, <1>4, <1>7, <1>8, <1>9, <1>10

LEMMA TypeInit == Init => TypeInv
<1> SUFFICES ASSUME Init PROVE TypeInv
  OBVIOUS
<1>1. PICK stored \in Nat, kept \in Nat :
          /\ GamesStarted = 1 .. (stored + kept)
          /\ kindOf \in Seq(Kinds)
          /\ curl_save = (stored + 1) .. (stored + kept)
          /\ uploaded = [g \in GamesStarted |-> 0]
          /\ saved \in [FileNames -> 0 .. stored]
          /\ storefile \in [FileNames -> Orders]
  BY FilesAtInit
<1>2. /\ curl_save \subseteq GamesStarted
      /\ saved \in [FileNames -> GamesStarted \cup {NoGame}]
      /\ DOMAIN uploaded = GamesStarted /\ \A g \in GamesStarted : uploaded[g] = 0
  BY <1>1 DEF NoGame
<1>3. /\ pc \in [Callers -> {"new", "down"}]
      /\ pc[Main] = "down" /\ \A w \in Workers : pc[w] = "new"
  BY Basics DEF Init, Fresh
<1>4. /\ m_state \in [Workers -> {"RUNNING"}]
      /\ m_todo \in [Workers -> {NoOrder}]
      /\ job \in [Workers -> {NoJob}]
      /\ game \in [Workers -> {NoGame}]
      /\ res \in [Workers -> {"none"}]
      /\ found \in [Callers -> {NoFile}]
      /\ order \in [Callers -> {NoOrder}]
      /\ locks = {} /\ m_storedFiles = {} /\ m_lockFile = NoLock /\ quit = "none"
      /\ m_syncMutex = Main /\ m_gamesPlayed = 0 /\ sending = NoGame
      /\ m_gamesLeft = MaxGames - N /\ m_threadsLeft = N /\ index = 1
      /\ gone = {} /\ twice = {} /\ starts = 0
  BY DEF Init, WorkerInit, ManagementInit, FilesInit
<1>5. NoJob \in Jobs /\ NoLock \in LockStates /\ NoLock.state = "null"
  BY DEF NoJob, Jobs, JobStates, NoLock, LockStates
<1>6. TypeOK
  <2>1. job \in [Workers -> Jobs]
    BY <1>4, <1>5
  <2>2. /\ m_gamesLeft \in 0 .. MaxGames - N /\ m_threadsLeft \in 1 .. N
        /\ m_syncMutex \in Callers
    BY <1>4, Basics, WorkersAssumption
  <2>3. /\ m_state \in [Workers -> {"RUNNING", "FINISHING", "STORING"}]
        /\ m_todo \in [Workers -> Orders]
        /\ order \in [Callers -> Orders]
        /\ res \in [Workers -> Results]
    BY <1>4, Basics DEF Results
  <2>4. QED
    BY <1>1, <1>2, <1>3, <1>4, <1>5, <2>1, <2>2, <2>3
       DEF TypeOK, Jobs, JobStates, LockStates
<1>7. PlaceInv /\ ResultInv
  BY <1>3, <1>4, <1>5, Basics
     DEF PlaceInv, ResultInv, Concluded, MainPlaces, WorkerPlaces, FilePlaces
<1>8. GameInv
  BY <1>1, <1>2, <1>4 DEF GameInv, MaybeGame
<1>9. QED
  BY <1>6, <1>7, <1>8 DEF TypeInv

\* Every variable keeps its type: no file is locked or taken that is not one
\* of ours, and the counters of the games and of the threads stay in their
\* ranges whatever the workers, the timer and the crashes do.
THEOREM TypeCorrect == Spec => []TypeOK
<1>1. TypeInv => TypeOK
  BY DEF TypeInv
<1>2. QED
  BY <1>1, TypeInit, TypeNext, PTL DEF Spec

-----------------------------------------------------------------------------
(* The count of the results.                                               *)

\* The places between getResult() taking the mutex and giving it back, and
\* those of the main thread while giveAssignments() runs.
Sending == {"upload", "sendall", "sent", "decide"}
InResult == Sending \cup SearchPlaces
Assigning == {"sendall", "sent", "tune"} \cup SearchPlaces

\* The workers the main thread has not come to have not been started.
NewInv ==
    \A w \in Workers :
        \/ pc[Main] = "down"
        \/ pc[Main] \in Assigning /\ w >= index
        => pc[w] = "new"

MutexInv ==
    \A w \in Workers : pc[w] \in InResult <=> m_syncMutex = w

\* The workers that will not begin another game.
EndPlaces == {"loop", "leave", "saving", "exited"}
Ended == {w \in Workers : m_state[w] # "RUNNING" /\ pc[w] \in EndPlaces}

One(b) == IF b THEN 1 ELSE 0
CountInv ==
    /\ Cardinality(Ended) >= N - m_threadsLeft + One(quit # "none")
    /\ quit # "none" => m_threadsLeft = 1
    /\ m_threadsLeft < N \/ quit # "none" => m_gamesLeft = 0
    /\ m_gamesPlayed + m_gamesLeft + m_threadsLeft
         = MaxGames + One(quit # "none")
           + One(\E w \in Workers : pc[w] \in Sending)

QuitInv == NewInv /\ MutexInv /\ CountInv

LEMMA Apart ==
    /\ InResult \cap EndPlaces = {} /\ Sending \cap EndPlaces = {}
    /\ InResult \cap {"new", "down", "execute", "start", "play", "executed", "result"} = {}
    /\ Assigning \cap {"new", "down", "connect", "exec", "store", "store2", "wait"} = {}
    /\ Sending \subseteq InResult /\ SearchPlaces \subseteq InResult
    /\ SearchPlaces \subseteq Assigning /\ {"sendall", "sent", "tune"} \subseteq Assigning
    /\ SearchPlaces \cap Sending = {} /\ {"take", "deliver", "list"} \subseteq SearchPlaces
    /\ MainPlaces \cap Sending = {"sendall", "sent"}
    /\ "new" \notin EndPlaces /\ "new" \notin Sending /\ "execute" \notin EndPlaces
  BY DEF InResult, Assigning, Sending, EndPlaces, SearchPlaces, FilePlaces, HandPlaces, MainPlaces

LEMMA Counters ==
    ASSUME TypeInv
    PROVE  /\ m_gamesPlayed \in Nat /\ m_gamesLeft \in Nat
           /\ m_threadsLeft \in 1 .. N
           /\ One(quit # "none") \in {0, 1}
  BY Basics DEF TypeInv, TypeOK, PlaceInv, One

LEMMA EndedFinite ==
    /\ IsFiniteSet(Ended) /\ Cardinality(Ended) \in Nat
    /\ Cardinality(Ended) <= N
    /\ Cardinality(Ended) = N => Ended = Workers
<1>1. Ended \subseteq Workers
  BY DEF Ended
<1>2. QED
  BY <1>1, Basics, FS_Subset, FS_CardinalityType

\* Who has ended stays so until the process does.
LEMMA EndedGrows ==
    ASSUME \A v \in Ended : m_state'[v] # "RUNNING" /\ pc'[v] \in EndPlaces
    PROVE  /\ Ended \subseteq Ended'
           /\ Cardinality(Ended') \in Nat
           /\ Cardinality(Ended) <= Cardinality(Ended')
           /\ \A w \in Ended' \ Ended : Cardinality(Ended) < Cardinality(Ended')
<1>1. Ended \subseteq Ended' /\ Ended' \subseteq Workers
  BY DEF Ended
<1>2. IsFiniteSet(Ended') /\ Cardinality(Ended') \in Nat
  BY <1>1, Basics, FS_Subset, FS_CardinalityType
<1>3. /\ Cardinality(Ended) <= Cardinality(Ended')
      /\ Cardinality(Ended) = Cardinality(Ended') => Ended = Ended'
  BY <1>1, <1>2, FS_Subset
<1>4. Cardinality(Ended) \in Nat
  BY EndedFinite
<1>5. QED
  BY <1>1, <1>2, <1>3, <1>4

\* A step that counts nothing.
LEMMA CountKept ==
    ASSUME TypeInv, CountInv,
           UNCHANGED <<m_gamesPlayed, m_gamesLeft, m_threadsLeft, quit>>,
           \A v \in Ended : m_state'[v] # "RUNNING" /\ pc'[v] \in EndPlaces,
           \A v \in Workers : pc'[v] \in Sending <=> pc[v] \in Sending
    PROVE  CountInv'
<1>1. Cardinality(Ended') >= N - m_threadsLeft + One(quit # "none")
  <2>1. N - m_threadsLeft + One(quit # "none") \in Int
    BY Basics DEF TypeInv, TypeOK, One
  <2>2. Cardinality(Ended) \in Nat
    BY EndedFinite
  <2>3. QED
    BY <2>1, <2>2, EndedGrows DEF CountInv
<1>2. One(\E w \in Workers : pc'[w] \in Sending)
        = One(\E w \in Workers : pc[w] \in Sending)
  BY DEF One
<1>3. QED
  BY <1>1, <1>2 DEF CountInv

\* Before the workers are started nothing has been counted.
LEMMA QuitEnd == ASSUME End PROVE QuitInv'
<1>1. /\ pc'[Main] = "down" /\ \A w \in Workers : pc'[w] = "new"
      /\ m_syncMutex' = Main /\ m_gamesPlayed' = 0
      /\ m_gamesLeft' = MaxGames - N /\ m_threadsLeft' = N /\ quit' = "none"
  BY Basics DEF End, Fresh
<1>2. Ended' = {}
  BY <1>1 DEF Ended, EndPlaces
<1>3. Cardinality(Ended') = 0
  BY <1>2, FS_EmptySet
<1>4. CountInv'
  BY <1>1, <1>3, Basics DEF CountInv, One, Sending
<1>5. NewInv' /\ MutexInv'
  BY <1>1, Basics, Apart DEF NewInv, MutexInv
<1>6. QED
  BY <1>4, <1>5 DEF QuitInv

LEMMA QuitInit == ASSUME Init PROVE QuitInv
<1>1. /\ pc[Main] = "down" /\ \A w \in Workers : pc[w] = "new"
      /\ m_syncMutex = Main /\ m_gamesPlayed = 0
      /\ m_gamesLeft = MaxGames - N /\ m_threadsLeft = N /\ quit = "none"
  BY Basics DEF Init, Fresh, ManagementInit
<1>2. Ended = {}
  BY <1>1 DEF Ended, EndPlaces
<1>3. Cardinality(Ended) = 0
  BY <1>2, FS_EmptySet
<1>4. CountInv
  BY <1>1, <1>3, Basics DEF CountInv, One, Sending
<1>5. NewInv /\ MutexInv
  BY <1>1, Basics, Apart DEF NewInv, MutexInv
<1>6. QED
  BY <1>4, <1>5 DEF QuitInv

\* A worker with its game, its wait, or its storing: Management is not concerned.
LEMMA QuitRun ==
    ASSUME TypeInv, QuitInv, NEW w \in Workers, RunWorker(w)
    PROVE  QuitInv'
<1>1. /\ UNCHANGED <<m_state, m_syncMutex, m_gamesPlayed, m_gamesLeft,
                     m_threadsLeft, quit, index>>
      /\ w # Main /\ Main \in Callers /\ w \in Callers
  BY Basics DEF RunWorker, Run, StartGame, RemovePosition, EndGame, EngineFails, SleepOver,
     CheckStoring, LoopTest, BeginSave, EndSave, Leave, workerVars,
     managementVars, countVars
<1>2. PICK l \in {"start", "play", "executed", "loop", "result", "execute", "leave", "saving",
                  "exited"} :
          /\ pc' = [pc EXCEPT ![w] = l]
          /\ pc[w] \in EndPlaces \cup {"execute", "start", "play", "executed", "result"}
          /\ w \in Ended => l \in EndPlaces
  <2>1. CASE StartGame(w)
    <3> DEFINE l == IF m_todo[w].sgf = NoFile THEN "play" ELSE "start"
    <3>1. pc[w] = "execute" /\ pc' = [pc EXCEPT ![w] = l] /\ l \in {"start", "play"}
      BY <2>1 DEF StartGame, Goto
    <3> HIDE DEF l
    <3>2. QED
      BY <3>1 DEF Ended, EndPlaces
  <2>2. CASE RemovePosition(w) \/ EndGame(w) \/ EngineFails(w) \/ SleepOver(w)
    BY <2>2 DEF RemovePosition, EndGame, EngineFails, SleepOver, Goto, Ended, EndPlaces
  <2>3. CASE CheckStoring(w) \/ LoopTest(w)
    BY <2>3 DEF CheckStoring, LoopTest, Goto, Ended, EndPlaces
  <2>4. CASE BeginSave(w) \/ EndSave(w) \/ Leave(w)
    BY <2>4 DEF BeginSave, EndSave, Leave, Goto, Ended, EndPlaces
  <2>5. QED
    BY <2>1, <2>2, <2>3, <2>4 DEF RunWorker, Run
<1>3. /\ pc' = [pc EXCEPT ![w] = l] /\ pc'[w] = l /\ pc'[Main] = pc[Main]
      /\ \A v \in Workers \ {w} : pc'[v] = pc[v]
  BY <1>1, <1>2, Basics DEF TypeInv, TypeOK
<1>4. /\ l \notin InResult /\ pc[w] \notin InResult /\ pc[w] # "new"
      /\ l \notin Sending /\ pc[w] \notin Sending
  BY <1>2, Apart DEF EndPlaces
<1>5. NewInv' /\ MutexInv'
  BY <1>1, <1>3, <1>4 DEF QuitInv, NewInv, MutexInv
<1>6. CountInv'
  <2>1. \A v \in Ended : m_state'[v] # "RUNNING" /\ pc'[v] \in EndPlaces
    BY <1>1, <1>2, <1>3 DEF Ended
  <2>2. \A v \in Workers : pc'[v] \in Sending <=> pc[v] \in Sending
    BY <1>3, <1>4
  <2>3. QED
    BY <1>1, <2>1, <2>2, CountKept DEF QuitInv
<1>7. QED
  BY <1>5, <1>6 DEF QuitInv

\* A caller that seeks moves from one place of the search to another.
LEMMA SeekPlaces ==
    ASSUME TypeInv, NEW c \in Callers, Seeks(c)
    PROVE  /\ pc[c] \in SearchPlaces /\ pc'[c] \in SearchPlaces
           /\ \A d \in Callers \ {c} : pc'[d] = pc[d]
           /\ UNCHANGED <<m_state, m_syncMutex, m_gamesPlayed, m_gamesLeft, m_threadsLeft,
                          quit, index>>
<1>1. UNCHANGED <<m_state, m_syncMutex, m_gamesPlayed, m_gamesLeft, m_threadsLeft, quit, index>>
  BY DEF Seeks, List, TakeStored, TakeLast, NewLock, TryLock, Exists, DeleteLock, Dropped,
         LoadStored, RemoveStored, Unlock, Searches, workerVars, countVars
<1>2. PICK l \in SearchPlaces : pc[c] \in SearchPlaces /\ pc' = [pc EXCEPT ![c] = l]
  <2> USE DEF SearchPlaces, FilePlaces, HandPlaces, Goto
  <2>1. CASE List(c) \/ TakeStored(c) \/ TakeLast(c)
    BY <2>1 DEF List, TakeStored, TakeLast
  <2>2. CASE NewLock(c) \/ TryLock(c) \/ Exists(c)
    BY <2>2 DEF NewLock, TryLock, Exists
  <2>3. CASE DeleteLock(c) \/ Dropped(c)
    BY <2>3 DEF DeleteLock, Dropped
  <2>4. CASE LoadStored(c) \/ RemoveStored(c) \/ Unlock(c)
    BY <2>4 DEF LoadStored, RemoveStored, Unlock
  <2>5. QED
    BY <2>1, <2>2, <2>3, <2>4 DEF Seeks
<1>3. QED
  BY <1>1, <1>2 DEF TypeInv, TypeOK

\* One that sends what was kept goes on doing so, or on to what follows.
LEMMA SendPlaces ==
    ASSUME TypeInv, NEW c \in Callers, SendAllGames(c)
    PROVE  /\ pc[c] \in {"sendall", "sent"}
           /\ pc'[c] \in {"sendall", "sent", IF c = Main THEN "tune" ELSE "decide"}
           /\ \A d \in Callers \ {c} : pc'[d] = pc[d]
           /\ UNCHANGED <<m_state, m_syncMutex, m_gamesPlayed, m_gamesLeft, m_threadsLeft,
                          quit, index>>
  BY DEF SendAllGames, SendKept, RemoveKept, AllSent, Goto, TypeInv, TypeOK, workerVars,
         managementVars, countVars

\* The main thread, when it gives no order.
LEMMA QuitMain ==
    ASSUME TypeInv, QuitInv,
           \/ Start \/ Tune \/ Connect \/ Quit \/ StoreJob \/ StoreState
           \/ Seeks(Main) \/ SendAllGames(Main)
    PROVE  QuitInv'
<1>1. /\ UNCHANGED <<m_syncMutex, m_gamesPlayed, m_gamesLeft, m_threadsLeft, quit>>
      /\ m_state' = m_state \/ m_state' = [m_state EXCEPT ![index] = "STORING"]
      /\ \A w \in Workers : pc'[w] = pc[w]
      /\ \/ /\ pc[Main] \in {"down"} \cup Assigning /\ pc'[Main] \in Assigning
            /\ index' = index
         \/ pc'[Main] \notin {"down"} \cup Assigning
  <2>1. CASE Seeks(Main)
    BY <2>1, SeekPlaces, Basics, Apart
  <2>2. CASE SendAllGames(Main)
    BY <2>2, SendPlaces, Basics, Apart
  <2>3. CASE Start \/ Tune
    BY <2>3, Basics, Apart DEF Start, Tune, Goto, TypeInv, TypeOK, workerVars, managementVars,
                               countVars
  <2>4. CASE Connect \/ Quit \/ StoreJob \/ StoreState
    <3>1. pc'[Main] \in {"exec", "store", "store2", "wait"}
          /\ \A w \in Workers : pc'[w] = pc[w]
      BY <2>4, Basics DEF Connect, Quit, StoreJob, StoreState, Goto, TypeInv, TypeOK
    <3>2. /\ UNCHANGED <<m_syncMutex, m_gamesPlayed, m_gamesLeft, m_threadsLeft, quit>>
          /\ m_state' = m_state \/ m_state' = [m_state EXCEPT ![index] = "STORING"]
      BY <2>4 DEF Connect, Quit, StoreJob, StoreState, workerVars, managementVars, countVars
    <3>3. QED
      BY <3>1, <3>2, Apart
  <2>5. QED
    BY <2>1, <2>2, <2>3, <2>4
<1>2. NewInv' /\ MutexInv'
  BY <1>1, Apart DEF QuitInv, NewInv, MutexInv
<1>3. CountInv'
  <2>1. \A v \in Ended : m_state'[v] # "RUNNING" /\ pc'[v] \in EndPlaces
    BY <1>1 DEF Ended, TypeInv, TypeOK
  <2>2. QED
    BY <1>1, <2>1, CountKept DEF QuitInv
<1>4. QED
  BY <1>2, <1>3 DEF QuitInv

\* Who finds an order.
LEMMA QuitDeliver ==
    ASSUME TypeInv, QuitInv, NEW c \in Callers, pc[c] \in {"take", "deliver"},
           NEW o, Deliver(c, o),
           UNCHANGED <<m_state, m_gamesPlayed, m_gamesLeft, m_threadsLeft, quit>>
    PROVE  QuitInv'
<1>1. CASE c = Main
  <2>1. /\ index \in Workers /\ pc[index] = "new"
        /\ pc'[index] = "execute" /\ m_syncMutex' = m_syncMutex
        /\ \A w \in Workers \ {index} : pc'[w] = pc[w]
        /\ \/ index = N /\ pc'[Main] = "connect"
           \/ index' = index + 1 /\ pc'[Main] = "list"
    BY <1>1, DeliverIs, Basics, Apart
       DEF QuitInv, NewInv, TypeInv, PlaceInv
  <2>2. NewInv'
    <3>1. \A w \in Workers : w >= index + 1 => w >= index /\ w # index
      BY <2>1, Basics
    <3>2. pc[Main] \in Assigning
      BY <1>1, Apart
    <3>3. QED
      BY <2>1, <3>1, <3>2, Apart DEF QuitInv, NewInv
  <2>3. MutexInv'
    BY <2>1, Apart DEF QuitInv, MutexInv
  <2>4. CountInv'
    <3>1. /\ \A v \in Ended : m_state'[v] # "RUNNING" /\ pc'[v] \in EndPlaces
          /\ \A v \in Workers : pc'[v] \in Sending <=> pc[v] \in Sending
      BY <2>1 DEF Ended, EndPlaces, Sending
    <3>2. QED
      BY <3>1, CountKept DEF QuitInv
  <2>5. QED
    BY <2>2, <2>3, <2>4 DEF QuitInv
<1>2. CASE c # Main
  <2>1. /\ c \in Workers /\ pc'[c] = "loop" /\ m_syncMutex' = Main
        /\ \A w \in Workers \ {c} : pc'[w] = pc[w]
        /\ pc'[Main] = pc[Main] /\ index' = index
        /\ m_syncMutex = c
    BY <1>2, DeliverIs, Basics, Apart DEF QuitInv, MutexInv
  <2>2. NewInv'
    BY <2>1 DEF QuitInv, NewInv
  <2>3. MutexInv'
    BY <2>1, Basics, Apart DEF QuitInv, MutexInv, EndPlaces
  <2>4. CountInv'
    <3>1. /\ \A v \in Ended : m_state'[v] # "RUNNING" /\ pc'[v] \in EndPlaces
          /\ \A v \in Workers : pc'[v] \in Sending <=> pc[v] \in Sending
      BY <2>1 DEF Ended, EndPlaces, Sending
    <3>2. QED
      BY <3>1, CountKept DEF QuitInv
  <2>5. QED
    BY <2>2, <2>3, <2>4 DEF QuitInv
<1>3. QED
  BY <1>1, <1>2

\* A worker under the mutex, until it has its order.
LEMMA QuitSearch ==
    ASSUME TypeInv, QuitInv, NEW w \in Workers,
           Upload(w) \/ SendAllGames(w) \/ Seeks(w)
    PROVE  QuitInv'
<1>1. w # Main /\ Main \in Callers /\ w \in Callers
  BY Basics
<1>2. /\ UNCHANGED <<m_state, m_syncMutex, m_gamesPlayed, m_gamesLeft,
                     m_threadsLeft, quit, index>>
      /\ pc'[w] \in InResult /\ pc[w] \in InResult
      /\ pc'[w] \in Sending <=> pc[w] \in Sending
      /\ pc'[Main] = pc[Main]
      /\ \A v \in Workers \ {w} : pc'[v] = pc[v]
  <2>1. CASE Upload(w)
    BY <1>1, <2>1, Basics DEF Upload, Goto, InResult, Sending, managementVars, countVars, TypeInv,
                              TypeOK
  <2>2. CASE SendAllGames(w)
    <3>1. pc[w] \in Sending /\ pc'[w] \in Sending
      BY <1>1, <2>2, SendPlaces DEF Sending
    <3>2. QED
      BY <1>1, <2>2, <3>1, SendPlaces, Basics, Apart
  <2>3. CASE Seeks(w)
    BY <1>1, <2>3, SeekPlaces, Basics, Apart
  <2>4. QED
    BY <2>1, <2>2, <2>3
<1>3. NewInv' /\ MutexInv'
  BY <1>1, <1>2, Apart DEF QuitInv, NewInv, MutexInv
<1>4. CountInv'
  <2>1. \A v \in Ended : m_state'[v] # "RUNNING" /\ pc'[v] \in EndPlaces
    BY <1>2, Apart DEF Ended
  <2>2. \A v \in Workers : pc'[v] \in Sending <=> pc[v] \in Sending
    BY <1>2
  <2>3. QED
    BY <1>2, <2>1, <2>2, CountKept DEF QuitInv
<1>5. QED
  BY <1>3, <1>4 DEF QuitInv

\* A result is counted when it is taken.
LEMMA QuitTake ==
    ASSUME TypeInv, QuitInv, NEW w \in Workers, TakeResult(w)
    PROVE  QuitInv'
<1>1. /\ UNCHANGED <<m_state, m_gamesLeft, m_threadsLeft, quit, index>>
      /\ m_syncMutex = Main /\ m_syncMutex' = w
      /\ m_gamesPlayed' = m_gamesPlayed + 1
      /\ pc[w] = "result"
      /\ \E l \in {"upload", "sendall"} : pc' = [pc EXCEPT ![w] = l]
  BY DEF TakeResult, Goto, workerVars
<1>2. /\ pc'[w] \in {"upload", "sendall"} /\ pc'[Main] = pc[Main]
      /\ \A v \in Workers \ {w} : pc'[v] = pc[v]
  BY <1>1, Basics DEF TypeInv, TypeOK
<1>3. \A v \in Workers : pc[v] \notin InResult /\ pc[v] \notin Sending
  BY <1>1, Basics, Apart DEF QuitInv, MutexInv
<1>4. pc'[w] \in Sending /\ pc'[w] \in InResult /\ pc[w] \notin EndPlaces
  BY <1>1, <1>2 DEF Sending, InResult, EndPlaces
<1>5. NewInv' /\ MutexInv'
  BY <1>1, <1>2, <1>3, <1>4 DEF QuitInv, NewInv, MutexInv
<1>6. CountInv'
  <2>1. Cardinality(Ended) <= Cardinality(Ended') /\ Cardinality(Ended') \in Nat
    <3>1. \A v \in Ended : m_state'[v] # "RUNNING" /\ pc'[v] \in EndPlaces
      BY <1>1, <1>2, <1>4 DEF Ended
    <3>2. QED
      BY <3>1, EndedGrows
  <2>2. /\ One(\E v \in Workers : pc[v] \in Sending) = 0
        /\ One(\E v \in Workers : pc'[v] \in Sending) = 1
    BY <1>3, <1>4 DEF One
  <2>3. Cardinality(Ended) \in Nat /\ N - m_threadsLeft + One(quit # "none") \in Int
    BY EndedFinite, Basics DEF One, TypeInv, TypeOK
  <2>4. One(quit # "none") \in Nat
    BY DEF One
  <2>5. Cardinality(Ended') >= N - m_threadsLeft + One(quit # "none")
    BY <2>1, <2>3 DEF QuitInv, CountInv
  <2>6. m_gamesPlayed + m_gamesLeft + m_threadsLeft
          = MaxGames + One(quit # "none") + 0
    BY <2>2 DEF QuitInv, CountInv
  <2>7. (m_gamesPlayed + 1) + m_gamesLeft + m_threadsLeft
          = MaxGames + One(quit # "none") + 1
    BY <2>4, <2>6, Counters, Basics
  <2>8. QED
    BY <1>1, <2>2, <2>5, <2>7 DEF QuitInv, CountInv
<1>7. QED
  BY <1>5, <1>6 DEF QuitInv

\* The decision takes a game off those left, or a thread, or says quit.
LEMMA QuitDecide ==
    ASSUME TypeInv, QuitInv, NEW w \in Workers, Decide(w)
    PROVE  QuitInv'
<1> DEFINE C  == Cardinality(Ended)
           C1 == Cardinality(Ended')
           q  == One(quit # "none")
<1>1. /\ pc[w] = "decide" /\ UNCHANGED <<m_gamesPlayed, index>>
      /\ pc[w] \in Sending /\ pc[w] \in InResult /\ pc[w] \notin EndPlaces
  BY DEF Decide, countVars, Sending, InResult, EndPlaces
<1>2. /\ m_syncMutex = w /\ w # Main /\ w \in Callers
      /\ \A v \in Workers \ {w} : pc[v] \notin InResult /\ pc[v] \notin Sending
  BY <1>1, Basics, Apart DEF QuitInv, MutexInv
<1>3. /\ C \in Nat /\ C1 \in Nat /\ q \in {0, 1}
      /\ m_gamesPlayed \in Nat /\ m_gamesLeft \in Nat
      /\ m_threadsLeft \in 1 .. N /\ N \in Nat /\ MaxGames \in Nat
  <2>1. Ended' \subseteq Workers
    BY DEF Ended
  <2>2. QED
    BY <2>1, EndedFinite, Counters, Basics, FS_Subset, FS_CardinalityType
<1>4. m_gamesPlayed + m_gamesLeft + m_threadsLeft = MaxGames + q + 1
  <2>1. One(\E v \in Workers : pc[v] \in Sending) = 1
    BY <1>1 DEF One
  <2>2. QED
    BY <2>1 DEF QuitInv, CountInv
<1>5. CASE m_gamesLeft = 0
  <2>1. /\ pc' = [pc EXCEPT ![w] = "loop"]
        /\ m_state' = [m_state EXCEPT ![w] = "FINISHING"]
        /\ m_syncMutex' = Main /\ m_gamesLeft' = m_gamesLeft
        /\ ThreadDone
    BY <1>5, FinishIs DEF Decide, NoGamesLeft, EndWorker, Goto
  <2>2. /\ pc'[w] = "loop" /\ m_state'[w] = "FINISHING" /\ pc'[Main] = pc[Main]
        /\ \A v \in Workers \ {w} : pc'[v] = pc[v] /\ m_state'[v] = m_state[v]
        /\ pc'[w] \in EndPlaces
    BY <1>2, <2>1, Basics DEF TypeInv, TypeOK, EndPlaces
  <2>3. NewInv' /\ MutexInv'
    BY <1>1, <1>2, <2>1, <2>2, Basics, Apart DEF QuitInv, NewInv, MutexInv
  <2>4. C + 1 <= C1 /\ C < N
    <3>1. w \in Ended' /\ w \notin Ended
      BY <1>1, <2>2 DEF Ended
    <3>2. \A v \in Ended : m_state'[v] # "RUNNING" /\ pc'[v] \in EndPlaces
      BY <2>2, <3>1 DEF Ended
    <3>3. C < C1 /\ C # N
      BY <3>1, <3>2, EndedGrows, EndedFinite
    <3>4. C <= N
      BY EndedFinite
    <3>5. QED
      BY <1>3, <3>3, <3>4
  <2>5. quit = "none"
    BY <1>3, <2>4 DEF QuitInv, CountInv, One
  <2>6. One(\E v \in Workers : pc'[v] \in Sending) = 0
    BY <1>2, <2>2, Apart DEF One
  <2>7. CASE m_threadsLeft > 1
    <3>1. m_threadsLeft' = m_threadsLeft - 1 /\ quit' = quit
      BY <2>1, <2>7 DEF ThreadDone
    <3>2. C >= N - m_threadsLeft
      BY <1>3, <2>5 DEF QuitInv, CountInv, One
    <3>3. C1 >= N - (m_threadsLeft - 1)
      BY <1>3, <2>4, <3>2
    <3>4. m_gamesPlayed + m_gamesLeft + (m_threadsLeft - 1) = MaxGames
      BY <1>3, <1>4, <2>5 DEF One
    <3>5. CountInv'
      BY <1>1, <1>3, <1>5, <2>1, <2>5, <2>6, <3>1, <3>3, <3>4 DEF CountInv, One
    <3>6. QED
      BY <2>3, <3>5 DEF QuitInv
  <2>8. CASE m_threadsLeft = 1
    <3>1. m_threadsLeft' = 1 /\ quit' \in {"posted", "lost"}
      BY <2>1, <2>8 DEF ThreadDone
    <3>2. C >= N - 1
      BY <1>3, <2>5, <2>8 DEF QuitInv, CountInv, One
    <3>3. C1 >= N - 1 + 1
      BY <1>3, <2>4, <3>2
    <3>4. m_gamesPlayed + m_gamesLeft + 1 = MaxGames + 1 + 0
      BY <1>3, <1>4, <2>5, <2>8 DEF One
    <3>5. CountInv'
      BY <1>1, <1>3, <1>5, <2>1, <2>6, <3>1, <3>3, <3>4 DEF CountInv, One
    <3>6. QED
      BY <2>3, <3>5 DEF QuitInv
  <2>9. QED
    BY <1>3, <2>7, <2>8
<1>6. CASE m_gamesLeft # 0
  <2>1. /\ pc' = [pc EXCEPT ![w] = "list"]
        /\ m_gamesLeft' = m_gamesLeft - 1
        /\ UNCHANGED <<m_state, m_threadsLeft, quit, m_syncMutex>>
    BY <1>6 DEF Decide, NoGamesLeft, Goto
  <2>2. /\ pc'[w] = "list" /\ pc'[Main] = pc[Main]
        /\ \A v \in Workers \ {w} : pc'[v] = pc[v]
        /\ pc'[w] \in InResult /\ pc'[w] \notin Sending
    BY <1>2, <2>1, Basics, Apart DEF TypeInv, TypeOK
  <2>3. NewInv' /\ MutexInv'
    BY <1>1, <1>2, <2>1, <2>2, Basics DEF QuitInv, NewInv, MutexInv
  <2>4. C <= C1
    <3>1. \A v \in Ended : m_state'[v] # "RUNNING" /\ pc'[v] \in EndPlaces
      BY <1>1, <2>1, <2>2 DEF Ended
    <3>2. QED
      BY <3>1, EndedGrows
  <2>5. quit = "none" /\ m_threadsLeft = N
    BY <1>3, <1>6 DEF QuitInv, CountInv
  <2>6. One(\E v \in Workers : pc'[v] \in Sending) = 0
    BY <1>2, <2>2 DEF One
  <2>7. m_gamesPlayed + (m_gamesLeft - 1) + m_threadsLeft = MaxGames
    BY <1>3, <1>4, <2>5 DEF One
  <2>8. CountInv'
    BY <1>1, <1>3, <2>1, <2>4, <2>5, <2>6, <2>7 DEF CountInv, One
  <2>9. QED
    BY <2>3, <2>8 DEF QuitInv
<1>7. QED
  BY <1>5, <1>6

LEMMA QuitNext == TypeInv /\ QuitInv /\ [Next]_vars => QuitInv'
<1> SUFFICES ASSUME TypeInv, QuitInv, [Next]_vars PROVE QuitInv'
  OBVIOUS
<1>1. CASE UNCHANGED vars
  BY <1>1 DEF vars, workerVars, managementVars, countVars, QuitInv, NewInv, MutexInv,
              CountInv, Ended
<1>2. CASE Next
  <2>1. CASE \/ NullJob \/ Exit
             \/ \E w \in Workers : ExitOnError(w)
             \/ \E c \in Callers : Crash(c) \/ NoWork(c)
    BY <2>1, QuitEnd DEF NullJob, Exit, ExitOnError, Crash, NoWork
  <2>2. ASSUME NEW c \in Callers, GiveStored(c) \/ GetWork(c)
        PROVE  QuitInv'
    BY <2>2, QuitDeliver
       DEF GiveStored, GetWork, FindsNone, countVars
  <2>3. CASE \/ Start \/ Timeout \/ Tune \/ Connect \/ StoreJob \/ StoreState
             \/ quit = "posted" /\ Quit
             \/ Seeks(Main) \/ SendAllGames(Main)
    BY <2>3, QuitMain DEF Timeout
  <2>4. ASSUME NEW w \in Workers,
               \/ RunWorker(w) \/ TakeResult(w) \/ Decide(w)
               \/ Upload(w) \/ SendAllGames(w) \/ Seeks(w)
        PROVE  QuitInv'
    BY <2>4, QuitRun, QuitTake, QuitDecide, QuitSearch
  <2>5. QED
    BY <1>2, <2>1, <2>2, <2>3, <2>4, Basics
       DEF Next, MainThread, WorkerThread, Search, Seeks
<1>3. QED
  BY <1>1, <1>2

LEMMA QuitImplies == TypeInv /\ QuitInv => QuitExact
<1> SUFFICES ASSUME TypeInv, QuitInv, quit # "none"
             PROVE  /\ m_gamesPlayed = MaxGames
                    /\ \A w \in Workers : m_state[w] # "RUNNING"
  BY DEF QuitExact
<1>1. /\ m_threadsLeft = 1 /\ m_gamesLeft = 0
      /\ Cardinality(Ended) >= N - 1 + 1
  BY DEF QuitInv, CountInv, One
<1>2. Ended = Workers
  BY <1>1, EndedFinite, Basics
<1>3. One(\E w \in Workers : pc[w] \in Sending) = 0
  BY <1>2, Apart DEF Ended, One
<1>4. m_gamesPlayed + 0 + 1 = MaxGames + 1 + 0
  BY <1>1, <1>3 DEF QuitInv, CountInv, One
<1>5. QED
  BY <1>2, <1>4, Basics DEF Ended, TypeInv, PlaceInv

\* Whenever the last worker has said quit, exactly as many results have been taken as
\* --maxgames says, waits included (so possibly fewer games), and the m_state of no worker is
\* RUNNING: none is to begin anything else.
THEOREM QuitsAfterMaxGames == Spec => []QuitExact
<1>1. Init => TypeInv /\ QuitInv
  BY TypeInit, QuitInit
<1>2. TypeInv /\ QuitInv /\ [Next]_vars => (TypeInv /\ QuitInv)'
  BY TypeNext, QuitNext
<1>3. TypeInv /\ QuitInv => QuitExact
  BY QuitImplies
<1>4. QED
  BY <1>1, <1>2, <1>3, PTL DEF Spec

-----------------------------------------------------------------------------
(* Where the games are.                                                    *)

\* The files that were there when this process began, or that a worker of it made as it ended.
Made(f) == \/ f[1] < starts
           \/ f[1] = starts /\ (pc[Main] = "down" \/ pc[f[2]] \in {"saving", "exited"})
Known(f) == f = NoFile \/ Made(f)

\* No name is used before the worker that owns it has ended, and no order but a stored one
\* has a name.
Restores(o) == o.sgf = NoFile \/ o.type \in {"RestoreMatch", "RestoreSelfPlayed"}
NamesInv ==
    /\ \A f \in FileNames : /\ storefile[f] # NoOrder => Made(f)
                            /\ Known(storefile[f].sgf) /\ Restores(storefile[f])
    /\ \A f \in m_storedFiles : Made(f)
    /\ \A c \in Callers : Known(found[c]) /\ Known(order[c].sgf) /\ Restores(order[c])
    /\ \A w \in Workers : Known(m_todo[w].sgf) /\ Restores(m_todo[w])

\* The order, the game and the result of a worker, at each place it may be.
Played(w) == \/ pc[w] \in {"play", "result", "upload"}
             \/ pc[w] = "executed" /\ res[w] # "Error"
WorkInv(w) ==
    /\ pc[w] = "new" => res[w] = "none" /\ m_todo[w] = NoOrder
    /\ job[w].kind = "none" => job[w] = NoJob /\ pc[w] \in {"new", "execute"}
    /\ job[w].kind # "none" => /\ m_todo[w].type # "Error"
                               /\ job[w].kind = JobKind(m_todo[w].type)
    /\ Played(w) => Position(m_todo[w]) = NoGame
    /\ pc[w] = "start" => Position(m_todo[w]) \in {NoGame, game[w]}
    /\ res[w] \in StoreResults /\ pc[w] \notin {"new", "start", "play", "saving", "exited"}
           => saved[Name(w)] = game[w]

\* Who is about to remove a file has read it, unless another thread that has read it too
\* was faster.
Double(o) == Position(o) \in twice \cup {NoGame}
LoadInv ==
    /\ \A c \in Callers : pc[c] = "remove" =>
           \/ storefile[found[c]] # NoOrder /\ order[c] = storefile[found[c]]
           \/ storefile[found[c]] = NoOrder /\ Double(order[c])
    /\ \A c, d \in Callers :
           c # d /\ pc[c] = "remove" /\ pc[d] = "remove" /\ found[c] = found[d]
               => Double(order[c])

\* What is being removed from curl_save has been sent, and the main thread sends before it
\* starts anybody.
SendInv ==
    /\ sending # NoGame => /\ Uploaded(sending) >= 1
                           /\ \E c \in Callers : pc[c] = "sent"
    /\ pc[Main] \in {"down", "sendall", "sent", "tune"} => index = 1

\* A worker that has g, or whose order or stored result is a way to it.
Claims(w, g) ==
    /\ pc[w] \notin {"new", "saving", "exited"}
    /\ \/ /\ game[w] = g
          /\ \/ pc[w] \in {"start", "play", "executed", "result", "upload"}
             \/ res[w] \in StoreResults
       \/ Position(m_todo[w]) = g
Kept(g) == g \in curl_save /\ g # sending

Claimed(g) == \E w \in Workers : Claims(w, g)
InHand(g) == \E c \in Callers : HasInHand(c, g)

\* Of all that is, or may come to be, a place of g, there is one at most.
Alone(g) ==
    /\ \A v, w \in Workers : Claims(v, g) /\ Claims(w, g) => v = w
    /\ \A c, d \in Callers : HasInHand(c, g) /\ HasInHand(d, g) => c = d
    /\ \A e, f \in Stores(g) : e = f
    /\ Uploaded(g) <= 1
    /\ Claimed(g) => ~InHand(g) /\ Stores(g) = {} /\ ~Kept(g) /\ Uploaded(g) = 0
    /\ InHand(g) => Stores(g) = {} /\ ~Kept(g) /\ Uploaded(g) = 0
    /\ Stores(g) # {} => ~Kept(g) /\ Uploaded(g) = 0
    /\ Kept(g) => Uploaded(g) = 0
AloneInv == \A g \in GamesStarted \ twice : Alone(g)

\* Until the program stores, nobody has stored anything, and every game is somewhere.
IdleInv(w) ==
    /\ m_state[w] # "STORING" /\ job[w].state # "STORING"
    /\ res[w] \notin StoreResults
    /\ m_state[w] = "RUNNING" \/ pc[w] \in {"loop", "leave", "exited"}
    /\ pc[w] = "executed" => res[w] # "none"
    /\ pc[w] = "result" => res[w] \in {"File", "Win", "Waited"}
    /\ pc[w] \in {"executed", "result"} /\ res[w] = "Waited" => game[w] = NoGame
Somebody(g) == \/ \E w \in Workers : Holds(w, g)
               \/ \E c \in Callers : HasInHand(c, g)
               \/ Stores(g) # {}
               \/ Kept(g)
               \/ Uploaded(g) >= 1
IdleInvs == ~Storing => /\ \A w \in Workers : IdleInv(w)
                        /\ \A g \in GamesStarted \ gone : Somebody(g)

\* The steps that move somebody from one place to another, and no game.
Plain(c) ==
    \/ c = Main /\ (Tune \/ Connect \/ Quit \/ StoreJob \/ StoreState)
    \/ c # Main /\ (CheckStoring(c) \/ LoopTest(c) \/ EndSave(c) \/ Leave(c))
                /\ UNCHANGED <<managementVars, serverVars, historyVars>>
    \/ c # Main /\ (TakeResult(c) \/ Decide(c))
    \/ AllSent(c) \/ List(c) \/ TakeStored(c) \/ TakeLast(c) \/ NewLock(c) \/ TryLock(c)
    \/ Exists(c) \/ DeleteLock(c) \/ Dropped(c) \/ Unlock(c)

\* Where a plain step may lead.
Moves(from, to) ==
    /\ to \notin {"new", "down", "start", "play", "executed", "sent", "remove", "saving"}
    /\ from \notin {"new", "down", "wait", "start", "play", "sent", "remove", "upload", "execute",
                  "exited"}
    /\ to = "result" => from = "executed"
    /\ to = "upload" => from = "result"
    /\ to = "execute" => from = "loop"
    /\ to = "exited" <=> from \in {"leave", "saving"}
    /\ to \in HandPlaces <=> from \in HandPlaces
    /\ from \in {"store", "store2"} => to \in {"store", "store2", "wait"}
    /\ from = "executed" => to \in {"result", "loop"}
    /\ from = "result" => to \in {"upload", "sendall"}
    /\ from = "loop" => to \in {"execute", "leave"}

heldVars == <<m_todo, order, game, res, kindOf, saved, storefile, curl_save, sending, uploaded,
              gone, twice, starts>>

LEMMA PlainIs ==
    ASSUME TypeInv, NEW c \in Callers, Plain(c)
    PROVE  /\ UNCHANGED heldVars
           /\ Moves(pc[c], pc'[c])
           /\ pc' \in [Callers -> Somewhere]
           /\ \A d \in Callers \ {c} : pc'[d] = pc[d]
<1>1. UNCHANGED heldVars
  BY DEF Plain, heldVars, Tune, Connect, Quit, StoreJob, StoreState, CheckStoring, LoopTest,
     EndSave, Leave, TakeResult, Decide, AllSent, List, TakeStored, TakeLast, NewLock, TryLock,
     Exists, DeleteLock, Dropped, Unlock, Searches, workerVars, fileVars, managementVars,
     storedVars, serverVars, historyVars
<1>2. \E l \in Somewhere : pc' = [pc EXCEPT ![c] = l] /\ Moves(pc[c], l)
  <2> USE AllPlaces
  <2>1. CASE c = Main /\ (Tune \/ Connect \/ Quit \/ StoreJob \/ StoreState)
    BY <2>1 DEF Tune, Connect, Quit, StoreJob, StoreState, Goto, Moves, HandPlaces
  <2>2. CASE c # Main /\ (CheckStoring(c) \/ LoopTest(c) \/ EndSave(c) \/ Leave(c))
    BY <2>2 DEF CheckStoring, LoopTest, EndSave, Leave, Goto, Moves, HandPlaces
  <2>3. CASE c # Main /\ TakeResult(c)
    BY <2>3 DEF TakeResult, Goto, Moves, HandPlaces
  <2>4. CASE c # Main /\ Decide(c)
    <3>1. pc[c] = "decide" /\ (Goto(c, "loop") \/ Goto(c, "list"))
      BY <2>4 DEF Decide, EndWorker
    <3>2. QED
      BY <3>1 DEF Goto, Moves, HandPlaces
  <2>5. CASE AllSent(c)
    BY <2>5 DEF AllSent, Goto, Moves, HandPlaces
  <2>6. CASE List(c) \/ TakeStored(c) \/ TakeLast(c) \/ NewLock(c)
    BY <2>6 DEF List, TakeStored, TakeLast, NewLock, Goto, Moves, HandPlaces
  <2>7. CASE TryLock(c) \/ Exists(c)
    BY <2>7 DEF TryLock, Exists, Goto, Moves, HandPlaces
  <2>8. CASE DeleteLock(c) \/ Dropped(c) \/ Unlock(c)
    BY <2>8 DEF DeleteLock, Dropped, Unlock, Goto, Moves, HandPlaces
  <2>9. QED
    BY <2>1, <2>2, <2>3, <2>4, <2>5, <2>6, <2>7, <2>8 DEF Plain
<1>3. pc \in [Callers -> Somewhere]
  BY AllPlaces DEF TypeInv
<1>4. QED
  BY <1>1, <1>2, <1>3

\* The other steps of a worker with its game.
WorkStep(w) ==
    /\ \/ StartGame(w) \/ RemovePosition(w) \/ EndGame(w) \/ EngineFails(w) \/ SleepOver(w)
       \/ BeginSave(w)
    /\ UNCHANGED <<managementVars, serverVars, historyVars>>

LEMMA StepCases ==
    ASSUME Next
    PROVE  \/ End \/ Start
           \/ \E c \in Callers : \/ Plain(c) \/ SendKept(c) \/ RemoveKept(c)
                                 \/ LoadStored(c) \/ RemoveStored(c)
                                 \/ GiveStored(c) \/ GetWork(c)
           \/ \E w \in Workers : WorkStep(w) \/ Upload(w)
<1>1. CASE Start \/ Timeout \/ MainThread
  BY <1>1, Basics DEF Timeout, MainThread, SendAllGames, Search, Plain, NullJob, Exit, Crash, NoWork
<1>2. ASSUME NEW w \in Workers, WorkerThread(w)
      PROVE  \/ End
             \/ \/ Plain(w) \/ SendKept(w) \/ RemoveKept(w)
                \/ LoadStored(w) \/ RemoveStored(w)
                \/ GiveStored(w) \/ GetWork(w)
             \/ WorkStep(w) \/ Upload(w)
  BY <1>2, Basics DEF WorkerThread, RunWorker, Run, WorkStep, SendAllGames, Search, Plain, Crash,
     NoWork, ExitOnError
<1>3. QED
  BY <1>1, <1>2, Basics DEF Next

LEMMA NoneStarted ==
    ASSUME TypeInv, QuitInv, pc[Main] = "down"
    PROVE  \A w \in Workers : pc[w] = "new"
  BY DEF QuitInv, NewInv

\* The name of a worker that has not ended is not one of those made.
LEMMA NotMade ==
    ASSUME TypeInv, QuitInv, NEW w \in Workers, pc[w] \notin {"new", "saving", "exited"}
    PROVE  ~Made(Name(w))
<1>1. pc[Main] # "down"
  BY NoneStarted
<1>2. Name(w)[1] = starts /\ Name(w)[2] = w /\ starts \in Nat
  BY DEF Name, TypeInv, PlaceInv
<1>3. QED
  BY <1>1, <1>2 DEF Made

\* What a step does to the places that count here.
Onward ==
    \/ End \/ Start
    \/ /\ starts' = starts /\ pc[Main] # "down" /\ pc'[Main] # "down"
       /\ \A v \in Workers : pc[v] \in {"saving", "exited"} => pc'[v] \in {"saving", "exited"}
       /\ Storing => Storing'
       /\ gone' = gone /\ twice \subseteq twice'

LEMMA MadeKept ==
    ASSUME TypeInv, Onward, NEW f \in FileNames, Made(f)
    PROVE  Made(f)'
<1>1. f[1] \in Nat /\ f[2] \in Workers /\ starts \in Nat
  BY Basics DEF FileNames, TypeInv, PlaceInv
<1>2. CASE End
  BY <1>1, <1>2, Basics DEF Made, End, Fresh
<1>3. CASE Start
  <2>1. starts' = starts + 1
    BY <1>3 DEF Start
  <2>2. QED
    BY <1>1, <2>1 DEF Made
<1>4. CASE ~End /\ ~Start
  BY <1>1, <1>4 DEF Made, Onward
<1>5. QED
  BY <1>2, <1>3, <1>4

\* A step in which one thread moves.
LEMMA OneMoves ==
    ASSUME TypeInv, QuitInv, NEW c \in Callers, NEW l \in Somewhere \ {"new", "down"},
           pc' = [pc EXCEPT ![c] = l], pc[c] \notin {"new", "down", "store", "store2", "wait"},
           pc[c] \in {"saving", "exited"} => l \in {"saving", "exited"},
           starts' = starts, gone' = gone, twice \subseteq twice'
    PROVE  Onward
<1>1. pc'[c] = l /\ \A d \in Callers \ {c} : pc'[d] = pc[d]
  BY DEF TypeInv, TypeOK
<1>2. pc[Main] # "down"
  BY Basics, NoneStarted
<1>3. QED
  BY <1>1, <1>2, Basics DEF Onward, Storing

\* Who gets an order is not yet started, or looks for it itself.
LEMMA ReceiverIs ==
    ASSUME TypeInv, QuitInv, NEW c \in Callers, pc[c] \in {"take", "deliver"}
    PROVE  /\ Receiver(c) \in Workers
           /\ c = Main => pc[Receiver(c)] = "new"
           /\ c # Main => Receiver(c) = c
<1>1. index \in Workers /\ index >= index
  BY Basics DEF TypeInv, PlaceInv
<1>2. c = Main => pc[index] = "new"
  BY <1>1, Apart, Basics DEF QuitInv, NewInv
<1>3. QED
  BY <1>1, <1>2, Basics DEF Receiver

LEMMA DeliverOnward ==
    ASSUME TypeInv, QuitInv, NEW c \in Callers, pc[c] \in {"take", "deliver"}, NEW o,
           Deliver(c, o), UNCHANGED <<starts, historyVars>>
    PROVE  Onward
<1>1. /\ c = Main => /\ pc'[Main] \in {"connect", "list"}
                     /\ \A w \in Workers : pc'[w] = pc[w] \/ pc[w] = "new"
      /\ c # Main => /\ pc'[c] = "loop"
                     /\ \A d \in Callers \ {c} : pc'[d] = pc[d]
  BY DeliverIs, ReceiverIs, Basics
<1>2. pc[Main] # "down"
  BY NoneStarted, Basics
<1>3. QED
  BY <1>1, <1>2, Basics DEF Onward, Storing, historyVars

LEMMA StepOnward ==
    ASSUME TypeInv, QuitInv, Next
    PROVE  Onward
<1>1. CASE End \/ Start
  BY <1>1 DEF Onward
<1>2. ASSUME NEW c \in Callers, Plain(c)
      PROVE  Onward
  <2>1. /\ UNCHANGED heldVars /\ Moves(pc[c], pc'[c])
        /\ \A d \in Callers \ {c} : pc'[d] = pc[d]
    BY <1>2, PlainIs
  <2>2. pc[Main] # "down" /\ pc'[Main] # "down"
    BY <2>1, NoneStarted, Basics DEF Moves
  <2>3. starts' = starts /\ gone' = gone /\ twice' = twice
    BY <2>1 DEF heldVars
  <2>4. \A v \in Workers : pc[v] \in {"saving", "exited"} => pc'[v] \in {"saving", "exited"}
    BY <2>1, Basics DEF Moves
  <2>5. Storing => Storing'
    BY <2>1, Basics DEF Moves, Storing
  <2>6. QED
    BY <2>2, <2>3, <2>4, <2>5 DEF Onward
<1>3. ASSUME NEW c \in Callers,
             SendKept(c) \/ RemoveKept(c) \/ LoadStored(c) \/ RemoveStored(c)
      PROVE  Onward
  <2>1. PICK l \in {"sent", "sendall", "remove", "unlock"} :
            /\ pc' = [pc EXCEPT ![c] = l]
            /\ pc[c] \in {"sent", "sendall", "load", "remove"}
    BY <1>3 DEF SendKept, RemoveKept, LoadStored, RemoveStored, Goto
  <2>2. starts' = starts /\ gone' = gone /\ twice \subseteq twice'
    BY <1>3 DEF SendKept, RemoveKept, LoadStored, RemoveStored, Searches, historyVars
  <2>3. l \in Somewhere \ {"new", "down"}
    BY AllPlaces
  <2>4. QED
    BY <2>1, <2>2, <2>3, OneMoves
<1>4. ASSUME NEW c \in Callers, GiveStored(c)
      PROVE  Onward
  BY <1>4, DeliverOnward DEF GiveStored
<1>5. ASSUME NEW c \in Callers, GetWork(c)
      PROVE  Onward
  BY <1>5, DeliverOnward DEF GetWork, FindsNone
<1>6. ASSUME NEW w \in Workers, WorkStep(w) \/ Upload(w)
      PROVE  Onward
  <2>1. PICK l \in {"play", "start", "executed", "saving", "sendall"} :
            /\ pc' = [pc EXCEPT ![w] = l]
            /\ pc[w] \in {"execute", "start", "play", "leave", "upload"}
    BY <1>6 DEF WorkStep, StartGame, RemovePosition, EndGame, EngineFails, SleepOver, BeginSave,
       Upload, Goto
  <2>2. starts' = starts /\ gone' = gone /\ twice' = twice
    BY <1>6 DEF WorkStep, StartGame, RemovePosition, EndGame, EngineFails, SleepOver, BeginSave,
       Upload, historyVars
  <2>3. l \in Somewhere \ {"new", "down"}
    BY AllPlaces
  <2>4. QED
    BY <2>1, <2>2, <2>3, OneMoves, Basics
<1>7. QED
  BY <1>1, <1>2, <1>3, <1>4, <1>5, <1>6, StepCases

\* What a plain step does to the list of files, and to the file somebody has come to.
LEMMA PlainFinds ==
    ASSUME TypeInv, NEW c \in Callers, Plain(c)
    PROVE  /\ m_storedFiles' \subseteq m_storedFiles \cup Files
           /\ \A d \in Callers \ {c} : found'[d] = found[d]
           /\ found'[c] \in m_storedFiles \cup {found[c]}
<1>1. CASE List(c) \/ TakeStored(c)
  BY <1>1 DEF List, TakeStored, TypeInv, TypeOK
<1>2. CASE ~(List(c) \/ TakeStored(c))
  BY <1>2 DEF Plain, Tune, Connect, Quit, StoreJob, StoreState, Decide, TakeResult, AllSent,
     TakeLast, NewLock, TryLock, Exists, DeleteLock, Dropped, Unlock, managementVars, storedVars
<1>3. QED
  BY <1>1, <1>2

LEMMA KnownKept ==
    ASSUME TypeInv, Onward, NEW f \in FileNames \cup {NoFile}, Known(f)
    PROVE  Known(f)'
  BY MadeKept DEF Known

LEMMA NamesFrame ==
    ASSUME TypeInv, Onward, NamesInv,
           \A f \in FileNames : \/ storefile'[f] \in {storefile[f], NoOrder}
                                \/ /\ Made(f)'
                                   /\ Known(storefile[f].sgf)' /\ Restores(storefile[f])',
           m_storedFiles' \subseteq m_storedFiles \cup Files,
           \A c \in Callers :
               /\ found'[c] \in m_storedFiles \cup {found[c], NoFile}
               /\ \/ order'[c] \in {order[c], NoOrder}
                  \/ found[c] # NoFile /\ order'[c] = storefile[found[c]],
           \A w \in Workers : \/ m_todo'[w] = m_todo[w] \/ m_todo'[w].sgf = NoFile
                              \/ \E c \in Callers : m_todo'[w] = order[c]
    PROVE  NamesInv'
<1>1. ASSUME NEW o \in Orders, Known(o.sgf)
      PROVE  Known(o.sgf)'
  <2>1. o.sgf \in FileNames \cup {NoFile}
    BY DEF Orders
  <2>2. QED
    BY <1>1, <2>1, KnownKept
<1>2. /\ NoOrder \in Orders /\ NoOrder.sgf = NoFile /\ Restores(NoOrder) /\ Known(NoFile)
      /\ NoFile \notin FileNames
  BY Basics DEF Restores, Known
<1>3. /\ storefile \in [FileNames -> Orders] /\ order \in [Callers -> Orders]
      /\ m_todo \in [Workers -> Orders] /\ m_storedFiles \subseteq FileNames
      /\ found \in [Callers -> FileNames \cup {NoFile}]
  BY DEF TypeInv, TypeOK
<1>4. ASSUME NEW f \in FileNames
      PROVE  /\ storefile'[f] # NoOrder => Made(f)'
             /\ Known(storefile[f].sgf)' /\ Restores(storefile[f])'
  <2>1. CASE storefile'[f] \in {storefile[f], NoOrder}
    <3>1. storefile[f] # NoOrder => Made(f)'
      BY MadeKept DEF NamesInv
    <3>2. Known(storefile[f].sgf) /\ Restores(storefile[f]) /\ storefile[f] \in Orders
      BY <1>3 DEF NamesInv
    <3>3. PICK o \in Orders : o = storefile'[f] /\ Known(o.sgf) /\ Restores(o)
      BY <1>2, <2>1, <3>2
    <3>4. Known(o.sgf)'
      BY <1>1, <3>3
    <3>5. QED
      BY <2>1, <3>1, <3>3, <3>4, <1>2 DEF Known, Made, Restores
  <2>2. QED
    BY <2>1
<1>5. \A f \in m_storedFiles' : Made(f)'
  <2>1. \A f \in m_storedFiles : f \in FileNames /\ Made(f)
    BY <1>3 DEF NamesInv
  <2>2. \A f \in Files : f \in FileNames /\ Made(f)
    BY DEF Files, NamesInv
  <2>3. QED
    BY <2>1, <2>2, MadeKept
<1>6. ASSUME NEW c \in Callers
      PROVE  Known(found[c])' /\ Known(order[c].sgf)' /\ Restores(order[c])'
  <2>1. PICK f \in FileNames \cup {NoFile} : f = found'[c] /\ Known(f)
    BY <1>2, <1>3 DEF NamesInv, Known
  <2>2. PICK o \in Orders : o = order'[c] /\ Known(o.sgf) /\ Restores(o)
    BY <1>2, <1>3 DEF NamesInv
  <2>3. Known(f)' /\ Known(o.sgf)'
    BY <1>1, <2>1, <2>2, KnownKept
  <2>4. QED
    BY <2>1, <2>2, <2>3 DEF Known, Made, Restores
<1>7. ASSUME NEW w \in Workers
      PROVE  Known(m_todo[w].sgf)' /\ Restores(m_todo[w])'
  <2>1. CASE m_todo'[w].sgf = NoFile
    BY <2>1 DEF Known, Restores
  <2>2. CASE m_todo'[w] = m_todo[w] \/ \E c \in Callers : m_todo'[w] = order[c]
    <3>1. PICK o \in Orders : o = m_todo'[w] /\ Known(o.sgf) /\ Restores(o)
      BY <1>3, <2>2 DEF NamesInv
    <3>2. Known(o.sgf)'
      BY <1>1, <3>1
    <3>3. QED
      BY <3>1, <3>2 DEF Known, Made, Restores
  <2>3. QED
    BY <2>1, <2>2
<1>8. QED
  BY <1>4, <1>5, <1>6, <1>7 DEF NamesInv, Restores

\* What Deliver() changes of the orders.
LEMMA DeliverOrders ==
    ASSUME TypeInv, NEW c \in Callers, NEW o \in Orders, Deliver(c, o)
    PROVE  /\ \A d \in Callers : /\ found'[d] \in {found[d], NoFile}
                                 /\ order'[d] \in {order[d], NoOrder}
           /\ \A d \in Callers \ {c} : found'[d] = found[d] /\ order'[d] = order[d]
           /\ \A w \in Workers \ {Receiver(c)} : m_todo'[w] = m_todo[w]
           /\ m_todo'[Receiver(c)] = IF o.type = "Error" THEN m_todo[Receiver(c)] ELSE o
<1>1. /\ Receiver(c) \in Workers /\ Order(Receiver(c), o)
      /\ found' = [found EXCEPT ![c] = NoFile]
      /\ order' = [order EXCEPT ![c] = NoOrder]
  BY DeliverIs
<1>2. /\ \A d \in Callers : /\ found'[d] \in {found[d], NoFile}
                            /\ order'[d] \in {order[d], NoOrder}
      /\ \A d \in Callers \ {c} : found'[d] = found[d] /\ order'[d] = order[d]
  BY <1>1 DEF TypeInv, TypeOK
<1>3. m_todo \in [Workers -> Orders]
  BY DEF TypeInv, TypeOK
<1>4. m_todo' = m_todo \/ m_todo' = [m_todo EXCEPT ![Receiver(c)] = o]
  BY <1>1, OrderIs
<1>5. IF o.type = "Error" THEN m_todo' = m_todo ELSE m_todo' = [m_todo EXCEPT ![Receiver(c)] = o]
  BY <1>1, OrderIs
<1>6. QED
  BY <1>1, <1>2, <1>3, <1>5

LEMMA NamesNext ==
    ASSUME TypeInv, QuitInv, NamesInv, Next
    PROVE  NamesInv'
<1> USE StepOnward
<1>1. /\ storefile \in [FileNames -> Orders] /\ order \in [Callers -> Orders]
      /\ found \in [Callers -> FileNames \cup {NoFile}]
      /\ m_todo \in [Workers -> Orders] /\ NoOrder.sgf = NoFile
  BY Basics DEF TypeInv, TypeOK
<1>2. CASE End
  <2>1. /\ storefile' = storefile /\ m_storedFiles' = {}
        /\ found' = [c \in Callers |-> NoFile] /\ order' = [c \in Callers |-> NoOrder]
        /\ m_todo' = [w \in Workers |-> NoOrder]
    BY <1>2 DEF End
  <2>2. QED
    BY <1>1, <2>1, NamesFrame
<1>3. CASE Start
  <2>1. UNCHANGED <<storefile, m_storedFiles, found, order, m_todo>>
    BY <1>3 DEF Start, workerVars, fileVars, managementVars, storedVars
  <2>2. QED
    BY <2>1, NamesFrame
<1>4. ASSUME NEW c \in Callers, Plain(c)
      PROVE  NamesInv'
  <2>1. UNCHANGED <<storefile, order, m_todo>>
    BY <1>4, PlainIs DEF heldVars
  <2>2. QED
    BY <1>4, <2>1, PlainFinds, NamesFrame
<1>5. ASSUME NEW c \in Callers, SendKept(c) \/ RemoveKept(c)
      PROVE  NamesInv'
  <2>1. UNCHANGED <<storefile, m_storedFiles, found, order, m_todo>>
    BY <1>5 DEF SendKept, RemoveKept, workerVars, fileVars, managementVars, storedVars
  <2>2. QED
    BY <2>1, NamesFrame
<1>6. ASSUME NEW c \in Callers, LoadStored(c)
      PROVE  NamesInv'
  <2>1. /\ UNCHANGED <<storefile, m_storedFiles, found, m_todo>>
        /\ order' = [order EXCEPT ![c] = storefile[found[c]]] /\ found[c] # NoFile
    BY <1>6 DEF LoadStored, Searches, workerVars, TypeInv, PlaceInv, FilePlaces
  <2>2. \A d \in Callers : \/ order'[d] = order[d]
                           \/ found[d] # NoFile /\ order'[d] = storefile[found[d]]
    BY <1>1, <2>1
  <2>3. QED
    BY <2>1, <2>2, NamesFrame
<1>7. ASSUME NEW c \in Callers, RemoveStored(c)
      PROVE  NamesInv'
  <2>1. /\ UNCHANGED <<m_storedFiles, found, order, m_todo>>
        /\ storefile' = [storefile EXCEPT ![found[c]] = NoOrder]
    BY <1>7 DEF RemoveStored, Searches, workerVars, storedVars
  <2>2. \A f \in FileNames : storefile'[f] \in {storefile[f], NoOrder}
    BY <1>1, <2>1
  <2>3. QED
    BY <2>1, <2>2, NamesFrame
<1>8. ASSUME NEW c \in Callers, GiveStored(c)
      PROVE  NamesInv'
  <2>1. /\ UNCHANGED <<storefile, m_storedFiles>>
        /\ order[c] \in Orders /\ Deliver(c, order[c])
    BY <1>1, <1>8 DEF GiveStored, fileVars
  <2>2. \A w \in Workers : m_todo'[w] = m_todo[w] \/ \E d \in Callers : m_todo'[w] = order[d]
    BY <2>1, DeliverOrders
  <2>3. QED
    BY <2>1, <2>2, DeliverOrders, NamesFrame
<1>9. ASSUME NEW c \in Callers, GetWork(c)
      PROVE  NamesInv'
  <2>1. PICK cmd \in ServerOrders \cup {"selfplay"} : Deliver(c, ServerOrder(cmd))
    BY <1>9 DEF GetWork
  <2>2. ServerOrder(cmd) \in Orders /\ ServerOrder(cmd).sgf = NoFile
    BY ServerOrderIs
  <2>3. UNCHANGED <<storefile, m_storedFiles>>
    BY <1>9 DEF GetWork, fileVars
  <2>4. \A w \in Workers : m_todo'[w] = m_todo[w] \/ m_todo'[w].sgf = NoFile
    BY <2>1, <2>2, DeliverOrders
  <2>5. QED
    BY <2>1, <2>2, <2>3, <2>4, DeliverOrders, NamesFrame
<1>10. ASSUME NEW w \in Workers, BeginSave(w), WorkStep(w)
       PROVE  NamesInv'
  <2>1. /\ UNCHANGED <<m_todo, res, m_storedFiles, found, order, starts>>
        /\ storefile' = [storefile EXCEPT ![Name(w)] = StoredOrder(w)]
        /\ pc' = [pc EXCEPT ![w] = "saving"]
    BY <1>10 DEF BeginSave, WorkStep, Goto, workerVars, managementVars, storedVars
  <2>2. Made(Name(w))' /\ Known(StoredOrder(w).sgf)' /\ Restores(StoredOrder(w))
    <3>1. /\ Name(w)[1] = starts' /\ Name(w)[2] = w /\ Name(w)' = Name(w)
          /\ StoredOrder(w)' = StoredOrder(w)
      BY <2>1 DEF Name, StoredOrder
    <3>2. pc'[w] = "saving"
      BY <2>1, Basics DEF TypeInv, TypeOK
    <3>3. Made(Name(w))'
      BY <3>1, <3>2 DEF Made
    <3>4. StoredOrder(w).sgf \in {NoFile, Name(w)}
          /\ StoredOrder(w).type \in {"RestoreMatch", "RestoreSelfPlayed"}
      BY DEF StoredOrder
    <3>5. QED
      BY <3>1, <3>3, <3>4 DEF Known, Made, Restores
  <2>3. \A f \in FileNames : \/ storefile'[f] = storefile[f]
                             \/ f = Name(w) /\ storefile'[f] = StoredOrder(w)
    BY <1>1, <2>1
  <2>4. ASSUME NEW f \in FileNames
        PROVE  \/ storefile'[f] \in {storefile[f], NoOrder}
               \/ /\ Made(f)' /\ Known(storefile[f].sgf)'
                  /\ Restores(storefile[f])'
    <3>1. CASE f = Name(w) /\ storefile'[f] = StoredOrder(w)
      <4>1. Made(f)'
        BY <2>1, <2>2, <3>1 DEF Made, Name
      <4>2. Known(storefile[f].sgf)' /\ Restores(storefile[f])'
        BY <2>1, <2>2, <3>1 DEF Known, Made, StoredOrder, Name, Restores
      <4>3. QED
        BY <2>2, <3>1, <4>1, <4>2
    <3>2. QED
      BY <2>3, <3>1
  <2>5. QED
    BY <2>1, <2>4, NamesFrame
<1>11. ASSUME NEW w \in Workers, Upload(w) \/ WorkStep(w)
       PROVE  NamesInv'
  <2>1. CASE BeginSave(w) /\ WorkStep(w)
    BY <1>10, <2>1
  <2>2. CASE ~(BeginSave(w) /\ WorkStep(w))
    <3>1. UNCHANGED <<storefile, m_storedFiles, found, order, m_todo>>
      BY <1>11, <2>2 DEF Upload, WorkStep, StartGame, RemovePosition, EndGame, EngineFails, SleepOver,
         workerVars, fileVars, managementVars, storedVars
    <3>2. QED
      BY <3>1, NamesFrame
  <2>3. QED
    BY <2>1, <2>2
<1>12. QED
  BY <1>2, <1>3, <1>4, <1>5, <1>6, <1>7, <1>8, <1>9, <1>11, StepCases

LEMMA NamesInit == ASSUME Init PROVE NamesInv
<1>1. PICK stored \in Nat :
          \A f \in FileNames :
              /\ saved[f] # NoGame => f[1] = 0 /\ f[2] = saved[f]
              /\ \/ saved[f] = NoGame /\ storefile[f] = NoOrder
                 \/ /\ saved[f] # NoGame /\ storefile[f].sgf = f
                    /\ storefile[f].type \in {"RestoreMatch", "RestoreSelfPlayed"}
  BY FilesAtInit
<1>2. /\ m_storedFiles = {} /\ found = [c \in Callers |-> NoFile]
      /\ order = [c \in Callers |-> NoOrder] /\ m_todo = [w \in Workers |-> NoOrder]
      /\ starts = 0 /\ pc[Main] = "down" /\ NoOrder.sgf = NoFile
  BY Basics DEF Init, ManagementInit, WorkerInit, Fresh
<1>3. ASSUME NEW f \in FileNames
      PROVE  /\ storefile[f] # NoOrder => Made(f)
             /\ Known(storefile[f].sgf) /\ Restores(storefile[f])
  BY <1>1, <1>2 DEF Made, Known, Restores
<1>4. QED
  BY <1>2, <1>3 DEF NamesInv, Known, Restores

\* Positions go when they have been read; a new one has a new name.
SavedApart(v) ==
    \A f \in FileNames : \/ saved'[f] = saved[f]
                         \/ Made(f) /\ saved'[f] = NoGame
                         \/ ~Made(f) /\ f # Name(v)
Same(v) == /\ m_todo'[v] = m_todo[v] /\ game'[v] = game[v] /\ res'[v] = res[v] /\ pc'[v] = pc[v]
           /\ job'[v].kind = job[v].kind
           /\ job[v] = NoJob => job'[v] = NoJob

LEMMA PositionAfter ==
    ASSUME NEW v, SavedApart(v), NEW o \in Orders, Known(o.sgf)
    PROVE  /\ Position(o)' \in {Position(o), NoGame}
  BY DEF Position, SavedApart, Known, Orders

LEMMA WorkFrame ==
    ASSUME TypeInv, QuitInv, NamesInv, NEW v \in Workers, WorkInv(v),
           SavedApart(v), Same(v), starts' = starts
    PROVE  WorkInv(v)'
<1>1. m_todo[v] \in Orders /\ Known(m_todo[v].sgf)
  BY DEF TypeInv, TypeOK, NamesInv
<1>2. PICK o \in Orders : o = m_todo[v] /\ o = m_todo'[v] /\ Known(o.sgf)
  BY <1>1 DEF Same
<1>3. Position(o)' \in {Position(o), NoGame}
  BY <1>2, PositionAfter
<1>4. Position(m_todo[v])' \in {Position(m_todo[v]), NoGame}
  BY <1>2, <1>3 DEF Position
<1>5. res[v] \in StoreResults /\ pc[v] \notin {"new", "start", "play", "saving", "exited"}
         => saved'[Name(v)] = game[v]
  BY NotMade, Names DEF WorkInv, SavedApart
<1>6. Name(v)' = Name(v)
  BY DEF Name
<1>7. Played(v)' <=> Played(v)
  BY DEF Played, Same
<1>8. QED
  BY <1>4, <1>5, <1>6, <1>7 DEF WorkInv, Same

LEMMA WorkPlain ==
    ASSUME TypeInv, QuitInv, NamesInv, NEW w \in Workers, WorkInv(w), Plain(w)
    PROVE  WorkInv(w)'
<1>1. /\ UNCHANGED <<m_todo, game, res, saved, starts>> /\ Moves(pc[w], pc'[w])
  BY PlainIs, Basics DEF heldVars
<1>2. \/ job' = job
      \/ pc[w] = "decide" /\ job' = [job EXCEPT ![w].state = "FINISHING"]
  BY Basics DEF Plain, CheckStoring, LoopTest, EndSave, Leave, TakeResult, Decide, EndWorker,
     DoFinish, AllSent, List, TakeStored, TakeLast, NewLock, TryLock, Exists, DeleteLock,
     Dropped, Unlock, Searches, workerVars
<1>3. pc'[w] = "result" => res[w] # "Error"
  <2>1. pc'[w] = "result" => pc[w] = "executed"
    BY <1>1 DEF Moves
  <2>2. CASE CheckStoring(w)
    BY <2>2, Basics DEF CheckStoring, Goto, TypeInv, TypeOK
  <2>3. CASE ~CheckStoring(w)
    <3>1. pc[w] # "executed"
      BY <2>3, Basics DEF Plain, LoopTest, EndSave, Leave, TakeResult, Decide, AllSent, List,
         TakeStored, TakeLast, NewLock, TryLock, Exists, DeleteLock, Dropped, Unlock
    <3>2. QED
      BY <2>1, <3>1
  <2>4. QED
    BY <2>2, <2>3
<1>4. /\ job'[w].kind = job[w].kind
      /\ job[w].kind = "none" => job'[w] = job[w] /\ pc'[w] \in {"new", "execute"}
  <2>1. job \in [Workers -> Jobs] /\ "FINISHING" \in JobStates
    BY DEF TypeInv, TypeOK, Jobs, JobStates
  <2>2. job[w].kind = "none" => pc[w] \in {"new", "execute"}
    BY DEF WorkInv
  <2>3. CASE job' = job
    BY <1>1, <2>2, <2>3 DEF Moves
  <2>4. CASE pc[w] = "decide" /\ job' = [job EXCEPT ![w].state = "FINISHING"]
    <3>1. job'[w] = [job[w] EXCEPT !.state = "FINISHING"]
      BY <2>1, <2>4
    <3>2. QED
      BY <2>1, <2>2, <2>4, <3>1, JobWithState
  <2>5. QED
    BY <1>2, <2>3, <2>4
<1>5. Played(w)' => Played(w)
  BY <1>1, <1>3 DEF Played, Moves
<1>6. Position(m_todo[w])' = Position(m_todo[w]) /\ Name(w)' = Name(w)
  BY <1>1 DEF Position, Name
<1>7. /\ pc'[w] \notin {"new", "start", "play"}
      /\ pc'[w] \notin {"saving", "exited"} => pc[w] \notin {"new", "start", "play", "saving", "exited"}
  BY <1>1 DEF Moves
<1>8. QED
  BY <1>1, <1>4, <1>5, <1>6, <1>7 DEF WorkInv

\* Who gets an order.
LEMMA WorkDeliver ==
    ASSUME TypeInv, QuitInv, NEW c \in Callers, pc[c] \in {"take", "deliver"},
           NEW o \in Orders, Deliver(c, o), UNCHANGED <<game, res, saved, starts>>,
           NEW r, r = Receiver(c), WorkInv(r)
    PROVE  WorkInv(r)'
<1>1. /\ r \in Workers /\ Order(r, o)
      /\ \/ pc[r] = "new" /\ pc'[r] = "execute"
         \/ pc[r] \in {"take", "deliver"} /\ pc'[r] = "loop"
  BY DeliverIs, ReceiverIs
<1>2. m_todo'[r] = IF o.type = "Error" THEN m_todo[r] ELSE o
  BY DeliverOrders
<1>3. /\ o.type = "Error" => /\ job'[r].kind = job[r].kind
                             /\ job[r] = NoJob => job'[r] = NoJob
      /\ o.type # "Error" => /\ job'[r] = JobFor(r, o)
  BY <1>1, OrderIs
<1>4. job'[r].kind = "none" => job'[r] = NoJob /\ pc'[r] \in {"new", "execute"}
  <2>1. CASE o.type = "Error"
    BY <1>1, <1>3, <2>1 DEF WorkInv
  <2>2. CASE o.type # "Error"
    <3>1. JobKind(o.type) # "none"
      BY <2>2 DEF JobKind, Orders, Types
    <3>2. QED
      BY <1>3, <2>2, <3>1 DEF JobFor, WorkInv
  <2>3. QED
    BY <2>1, <2>2
<1>5. job'[r].kind # "none" => /\ m_todo'[r].type # "Error"
                               /\ job'[r].kind = JobKind(m_todo'[r].type)
  <2>1. CASE o.type = "Error"
    BY <1>2, <1>3, <2>1 DEF WorkInv
  <2>2. CASE o.type # "Error"
    BY <1>2, <1>3, <2>2 DEF JobFor, WorkInv
  <2>3. QED
    BY <2>1, <2>2
<1>6. res[r] \in StoreResults => saved[Name(r)] = game[r]
  BY <1>1 DEF WorkInv, StoreResults
<1>7. QED
  BY <1>1, <1>4, <1>5, <1>6 DEF WorkInv, Played, Name

\* A worker with its game.
LEMMA WorkOwn ==
    ASSUME TypeInv, QuitInv, NamesInv, NEW w \in Workers, WorkInv(w), WorkStep(w) \/ Upload(w)
    PROVE  WorkInv(w)'
<1>1. /\ m_todo[w] \in Orders /\ Known(m_todo[w].sgf) /\ Restores(m_todo[w])
      /\ game \in [Workers -> MaybeGame] /\ res \in [Workers -> Results]
      /\ saved \in [FileNames -> MaybeGame]
  BY DEF TypeInv, TypeOK, GameInv, NamesInv, MaybeGame
<1>2. UNCHANGED <<m_todo, job, starts>> /\ Name(w)' = Name(w)
  BY DEF WorkStep, StartGame, RemovePosition, EndGame, EngineFails, SleepOver, BeginSave, Upload,
     Name, workerVars
<1>3. pc[w] \in {"execute", "start", "play", "leave", "upload"}
      /\ pc[w] # "execute" => job[w].kind # "none"
  BY DEF WorkStep, StartGame, RemovePosition, EndGame, EngineFails, SleepOver, BeginSave, Upload,
     WorkInv
<1>4. pc \in [Callers -> Somewhere] /\ w \in Callers
  BY AllPlaces, Basics DEF TypeInv
<1>5. CASE StartGame(w)
  <2>1. UNCHANGED <<res, saved>> /\ job[w].kind \in {"selfplay", "match"}
    BY <1>5 DEF StartGame
  <2>2. CASE m_todo[w].sgf = NoFile
    <3>1. pc'[w] = "play"
      BY <1>4, <1>5, <2>2 DEF StartGame, Goto
    <3>2. Position(m_todo[w])' = NoGame
      BY <1>2, <2>2 DEF Position
    <3>3. QED
      BY <1>2, <2>1, <3>1, <3>2 DEF WorkInv, Played
  <2>3. CASE m_todo[w].sgf # NoFile
    <3>1. pc'[w] = "start" /\ game'[w] = Position(m_todo[w])
      BY <1>1, <1>4, <1>5, <2>3 DEF StartGame, Goto
    <3>2. Position(m_todo[w])' = Position(m_todo[w])
      BY <1>2, <2>1 DEF Position
    <3>3. QED
      BY <1>2, <2>1, <3>1, <3>2 DEF WorkInv, Played
  <2>4. QED
    BY <2>2, <2>3
<1>6. CASE RemovePosition(w)
  <2>1. UNCHANGED <<res, game>> /\ saved' = [saved EXCEPT ![m_todo[w].sgf] = NoGame]
    BY <1>6 DEF RemovePosition, workerVars
  <2>2. pc'[w] = "play"
    BY <1>4, <1>6 DEF RemovePosition, Goto
  <2>3. m_todo[w].sgf \in FileNames => saved'[m_todo[w].sgf] = NoGame
    BY <1>1, <2>1
  <2>4. Position(m_todo[w])' = NoGame
    BY <1>1, <1>2, <2>3 DEF Position, Orders
  <2>5. QED
    BY <1>2, <1>3, <1>6, <2>2, <2>4 DEF WorkInv, Played, RemovePosition
<1>7. CASE EndGame(w)
  <2>1. /\ UNCHANGED game /\ pc[w] = "play" /\ pc'[w] = "executed"
        /\ saved' = IF res'[w] \in StoreResults THEN [saved EXCEPT ![Name(w)] = game[w]] ELSE saved
    BY <1>4, <1>7 DEF EndGame, Goto
  <2>2. ~Made(Name(w)) /\ Name(w) \in FileNames
    BY <2>1, NotMade, Names
  <2>3. res'[w] \in StoreResults => saved'[Name(w)] = game[w]
    BY <1>1, <2>1, <2>2
  <2>4. Position(m_todo[w])' = Position(m_todo[w])
    BY <1>1, <1>2, <2>1, <2>2 DEF Position, Known, Orders
  <2>5. Position(m_todo[w]) = NoGame
    BY <2>1 DEF WorkInv, Played
  <2>6. QED
    BY <1>2, <1>3, <2>1, <2>3, <2>4, <2>5 DEF WorkInv
<1>8. CASE EngineFails(w)
  <2>1. pc'[w] = "executed" /\ res'[w] = "Error" /\ job[w].kind # "none"
    BY <1>1, <1>3, <1>4, <1>8 DEF EngineFails, Goto
  <2>2. QED
    BY <1>2, <2>1 DEF WorkInv, Played, StoreResults
<1>9. CASE SleepOver(w)
  <2>1. pc'[w] = "executed" /\ res'[w] = "Waited" /\ job[w].kind = "wait" /\ UNCHANGED saved
    BY <1>1, <1>4, <1>9 DEF SleepOver, Goto, fileVars
  <2>2. m_todo[w].type = "Wait"
    BY <1>1, <2>1 DEF WorkInv, JobKind, Orders, Types
  <2>3. m_todo[w].sgf = NoFile
    BY <1>1, <2>2 DEF Restores
  <2>4. Position(m_todo[w])' = NoGame
    BY <1>2, <2>3 DEF Position
  <2>5. QED
    BY <1>2, <2>1, <2>4 DEF WorkInv, StoreResults
<1>10. CASE BeginSave(w)
  <2>1. pc'[w] = "saving" /\ pc[w] = "leave"
    BY <1>4, <1>10 DEF BeginSave, Goto
  <2>2. QED
    BY <1>2, <1>3, <2>1 DEF WorkInv, Played
<1>11. CASE Upload(w)
  <2>1. pc'[w] = "sendall" /\ pc[w] = "upload" /\ res'[w] = "none"
    BY <1>1, <1>4, <1>11 DEF Upload, Forget, Goto
  <2>2. QED
    BY <1>2, <1>3, <2>1 DEF WorkInv, Played, StoreResults
<1>12. QED
  BY <1>5, <1>6, <1>7, <1>8, <1>9, <1>10, <1>11 DEF WorkStep

\* The other workers' jobs stay of their kind when somebody moves.
LEMMA PlainJob ==
    ASSUME TypeInv, NEW c \in Callers, Plain(c), NEW v \in Workers \ {c}
    PROVE  /\ job'[v].kind = job[v].kind
           /\ job[v] = NoJob => job'[v] = NoJob
<1>1. job \in [Workers -> Jobs] /\ {"FINISHING", "STORING"} \subseteq JobStates
  BY DEF TypeInv, TypeOK, Jobs, JobStates
<1>2. CASE c = Main /\ StoreJob
  <2>1. job' = [job EXCEPT ![index] = [job[index] EXCEPT !.state = "STORING"]]
        /\ job[index] # NoJob
    BY <1>2 DEF StoreJob
  <2>2. QED
    BY <1>1, <2>1, JobWithState
<1>3. CASE Decide(c)
  <2>1. job' = job \/ job' = [job EXCEPT ![c].state = "FINISHING"]
    BY <1>3 DEF Decide, EndWorker, DoFinish
  <2>2. QED
    BY <1>1, <2>1
<1>4. CASE ~(c = Main /\ StoreJob) /\ ~Decide(c)
  <2>1. job' = job
    BY <1>4 DEF Plain, Tune, Connect, Quit, StoreState, CheckStoring, LoopTest, EndSave, Leave,
       TakeResult, AllSent, List, TakeStored, TakeLast, NewLock, TryLock, Exists, DeleteLock,
       Dropped, Unlock, Searches, workerVars
  <2>2. QED
    BY <2>1
<1>5. QED
  BY <1>2, <1>3, <1>4

WorkInvs == \A w \in Workers : WorkInv(w)

LEMMA WorkNext ==
    ASSUME TypeInv, QuitInv, NamesInv, WorkInvs, Next
    PROVE  WorkInvs'
<1>1. CASE End
  <2>1. /\ \A w \in Workers : m_todo'[w] = NoOrder /\ job'[w] = NoJob /\ res'[w] = "none"
        /\ \A w \in Workers : pc'[w] = "new"
    BY <1>1, Basics DEF End, Fresh
  <2>2. NoJob.kind = "none"
    BY DEF NoJob
  <2>3. QED
    BY <2>1, <2>2 DEF WorkInvs, WorkInv, Played, StoreResults
<1>2. CASE Start
  <2>1. /\ \A w \in Workers : pc[w] = "new" /\ pc'[w] = "new"
        /\ UNCHANGED <<m_todo, job, res>>
    BY <1>2, NoneStarted, Basics DEF Start, Goto, workerVars, TypeInv, TypeOK
  <2>2. QED
    BY <2>1 DEF WorkInvs, WorkInv, Played
<1>3. ASSUME NEW c \in Callers, Plain(c)
      PROVE  WorkInvs'
  <2>1. /\ UNCHANGED <<m_todo, game, res, saved, starts>>
        /\ \A d \in Callers \ {c} : pc'[d] = pc[d]
    BY <1>3, PlainIs DEF heldVars
  <2>2. ASSUME NEW v \in Workers \ {c}
        PROVE  WorkInv(v)'
    BY <1>3, <2>1, PlainJob, WorkFrame, Basics DEF SavedApart, Same, WorkInvs
  <2>3. QED
    BY <1>3, <2>2, WorkPlain DEF WorkInvs
<1>4. ASSUME NEW c \in Callers,
             SendKept(c) \/ RemoveKept(c) \/ LoadStored(c) \/ RemoveStored(c)
      PROVE  WorkInvs'
  <2>1. UNCHANGED <<m_todo, job, game, res, saved, starts>>
    BY <1>4 DEF SendKept, RemoveKept, LoadStored, RemoveStored, Searches, workerVars, fileVars
  <2>2. PICK l \in {"sent", "sendall", "remove", "unlock"} :
            /\ pc' = [pc EXCEPT ![c] = l]
            /\ pc[c] \in {"sent", "sendall", "load", "remove"}
    BY <1>4 DEF SendKept, RemoveKept, LoadStored, RemoveStored, Goto
  <2>3. pc'[c] = l /\ \A d \in Callers \ {c} : pc'[d] = pc[d]
    BY <2>2 DEF TypeInv, TypeOK
  <2>4. ASSUME NEW v \in Workers \ {c}
        PROVE  WorkInv(v)'
    BY <2>1, <2>3, WorkFrame, Basics DEF SavedApart, Same, WorkInvs
  <2>5. ASSUME c \in Workers
        PROVE  WorkInv(c)'
    BY <2>1, <2>2, <2>3, <2>5 DEF WorkInvs, WorkInv, Played, Position, Name
  <2>6. QED
    BY <2>4, <2>5 DEF WorkInvs
<1>5. ASSUME NEW c \in Callers, GiveStored(c) \/ GetWork(c)
      PROVE  WorkInvs'
  <2>1. PICK o \in Orders : Deliver(c, o)
    BY <1>5, ServerOrderIs DEF GiveStored, GetWork, TypeInv, TypeOK
  <2>2. UNCHANGED <<game, res, saved, starts>> /\ pc[c] \in {"take", "deliver"}
    BY <1>5 DEF GiveStored, GetWork, FindsNone, fileVars
  <2>3. PICK r \in Workers : r = Receiver(c)
    BY <2>1, DeliverIs
  <2>4. WorkInv(r)'
    BY <2>1, <2>2, <2>3, WorkDeliver DEF WorkInvs
  <2>5. ASSUME NEW v \in Workers \ {r}
        PROVE  WorkInv(v)'
    <3>1. pc'[v] = pc[v]
      BY <2>1, <2>3, DeliverIs, Basics
    <3>2. m_todo'[v] = m_todo[v] /\ job'[v] = job[v]
      BY <2>1, <2>3, DeliverIs, DeliverOrders, OrderIs
    <3>3. QED
      BY <2>2, <3>1, <3>2, WorkFrame DEF SavedApart, Same, WorkInvs
  <2>6. QED
    BY <2>4, <2>5 DEF WorkInvs
<1>6. ASSUME NEW w \in Workers, WorkStep(w) \/ Upload(w)
      PROVE  WorkInvs'
  <2>1. WorkInv(w)'
    BY <1>6, WorkOwn DEF WorkInvs
  <2>2. ASSUME NEW v \in Workers \ {w}
        PROVE  WorkInv(v)'
    <3>1. UNCHANGED <<m_todo, job, starts>>
      BY <1>6 DEF WorkStep, StartGame, RemovePosition, EndGame, EngineFails, SleepOver, BeginSave,
         Upload, workerVars
    <3>2. /\ pc'[v] = pc[v]
          /\ game'[v] = game[v] /\ res'[v] = res[v]
      BY <1>6, Basics DEF WorkStep, StartGame, RemovePosition, EndGame, EngineFails, SleepOver,
         BeginSave, Upload, Forget, workerVars, Goto, TypeInv, TypeOK, GameInv
    <3>3. \/ saved' = saved
          \/ RemovePosition(w) /\ saved' = [saved EXCEPT ![m_todo[w].sgf] = NoGame]
          \/ pc[w] = "play" /\ saved' = [saved EXCEPT ![Name(w)] = game[w]]
      BY <1>6 DEF WorkStep, StartGame, RemovePosition, EndGame, EngineFails, SleepOver,
         BeginSave, Upload, fileVars
    <3>4. ~Made(Name(w)) \/ pc[w] # "play"
      BY NotMade
    <3>5. Known(m_todo[w].sgf) /\ saved \in [FileNames -> MaybeGame]
      BY DEF NamesInv, TypeInv, TypeOK, MaybeGame
    <3>6. Name(w) # Name(v)
      BY DEF Name
    <3>7. SavedApart(v)
      BY <3>3, <3>4, <3>5, <3>6, Basics DEF SavedApart, Known
    <3>8. QED
      BY <3>1, <3>2, <3>7, WorkFrame DEF Same, WorkInvs
  <2>3. QED
    BY <2>1, <2>2 DEF WorkInvs
<1>7. QED
  BY <1>1, <1>2, <1>3, <1>4, <1>5, <1>6, StepCases

LEMMA WorkInit == ASSUME Init PROVE WorkInvs
<1>1. /\ \A w \in Workers : m_todo[w] = NoOrder /\ job[w] = NoJob /\ res[w] = "none"
      /\ \A w \in Workers : pc[w] = "new"
  BY Basics DEF Init, WorkerInit, Fresh
<1>2. NoJob.kind = "none"
  BY DEF NoJob
<1>3. QED
  BY <1>1, <1>2 DEF WorkInvs, WorkInv, Played, StoreResults

-----------------------------------------------------------------------------
(* Two threads with one file.                                              *)

\* The position an order goes on from stays as it is, or goes.
LEMMA SavedNext ==
    ASSUME TypeInv, QuitInv, NamesInv, Next, NEW o \in Orders, Known(o.sgf)
    PROVE  Position(o)' \in {Position(o), NoGame}
<1>1. CASE saved' = saved
  BY <1>1 DEF Position
<1>2. ASSUME NEW w \in Workers, RemovePosition(w)
      PROVE  Position(o)' \in {Position(o), NoGame}
  <2>1. saved' = [saved EXCEPT ![m_todo[w].sgf] = NoGame] /\ saved \in [FileNames -> MaybeGame]
    BY <1>2 DEF RemovePosition, TypeInv, TypeOK, MaybeGame
  <2>2. QED
    BY <2>1 DEF Position, Orders
<1>3. ASSUME NEW w \in Workers, EndGame(w)
      PROVE  Position(o)' \in {Position(o), NoGame}
  <2>1. /\ saved' = saved \/ saved' = [saved EXCEPT ![Name(w)] = game[w]]
        /\ pc[w] = "play" /\ saved \in [FileNames -> MaybeGame]
    BY <1>3 DEF EndGame, TypeInv, TypeOK, MaybeGame
  <2>2. ~Made(Name(w))
    BY <2>1, NotMade
  <2>3. QED
    BY <2>1, <2>2 DEF Position, Orders, Known
<1>4. \/ saved' = saved
      \/ \E w \in Workers : RemovePosition(w) \/ EndGame(w)
  <2>1. ASSUME NEW c \in Callers, Plain(c)
        PROVE  saved' = saved
    BY <2>1, PlainIs DEF heldVars
  <2>2. ASSUME NEW c \in Callers, \/ SendKept(c) \/ RemoveKept(c) \/ LoadStored(c)
                                  \/ RemoveStored(c) \/ GiveStored(c) \/ GetWork(c)
        PROVE  saved' = saved
    BY <2>2 DEF SendKept, RemoveKept, LoadStored, RemoveStored, GiveStored, GetWork, Searches, fileVars
  <2>3. ASSUME NEW w \in Workers, WorkStep(w) \/ Upload(w)
        PROVE  saved' = saved \/ RemovePosition(w) \/ EndGame(w)
    BY <2>3 DEF WorkStep, StartGame, EngineFails, SleepOver, BeginSave, Upload, fileVars
  <2>4. End \/ Start => saved' = saved
    BY DEF End, Start, fileVars
  <2>5. QED
    BY <2>1, <2>2, <2>3, <2>4, StepCases
<1>5. QED
  BY <1>1, <1>2, <1>3, <1>4

LEMMA DoubleKept ==
    ASSUME TypeInv, QuitInv, NamesInv, Next, twice \subseteq twice',
           NEW o \in Orders, Known(o.sgf), Double(o)
    PROVE  Double(o)'
  BY SavedNext DEF Double

LEMMA LoadFrame ==
    ASSUME TypeInv, QuitInv, NamesInv, LoadInv, Next, twice \subseteq twice',
           \A c \in Callers : pc'[c] = "remove" =>
               /\ pc[c] = "remove" /\ found'[c] = found[c] /\ order'[c] = order[c]
               /\ storefile'[found[c]] = storefile[found[c]]
    PROVE  LoadInv'
<1>1. order \in [Callers -> Orders] /\ \A c \in Callers : Known(order[c].sgf)
  BY DEF TypeInv, TypeOK, NamesInv
<1>2. ASSUME NEW c \in Callers, pc'[c] = "remove", Double(order[c])
      PROVE  Double(order[c])'
  <2>1. PICK o \in Orders : o = order[c] /\ o = order'[c] /\ Known(o.sgf) /\ Double(o)
    BY <1>1, <1>2
  <2>2. Double(o)'
    BY <2>1, DoubleKept
  <2>3. QED
    BY <2>1, <2>2 DEF Double, Position
<1>3. QED
  BY <1>2 DEF LoadInv

LEMMA LoadNext ==
    ASSUME TypeInv, QuitInv, NamesInv, LoadInv, Next
    PROVE  LoadInv'
<1>1. /\ storefile \in [FileNames -> Orders] /\ order \in [Callers -> Orders]
      /\ found \in [Callers -> FileNames \cup {NoFile}] /\ pc \in [Callers -> Somewhere]
      /\ \A c \in Callers : pc[c] \in FilePlaces => found[c] \in FileNames
      /\ "remove" \in FilePlaces /\ "load" \in FilePlaces
  BY AllPlaces DEF TypeInv, TypeOK, PlaceInv, FilePlaces
<1>2. CASE End
  <2>1. \A c \in Callers : pc'[c] # "remove"
    BY <1>2 DEF End, Fresh
  <2>2. QED
    BY <2>1 DEF LoadInv
<1>3. CASE Start
  <2>1. UNCHANGED <<found, order, storefile, twice>> /\ \A c \in Callers : pc'[c] # "remove"
    BY <1>1, <1>3, NoneStarted, Basics DEF Start, Goto, workerVars, fileVars, managementVars,
       storedVars, historyVars
  <2>2. QED
    BY <2>1 DEF LoadInv
<1>4. ASSUME NEW c \in Callers, Plain(c)
      PROVE  LoadInv'
  <2>1. UNCHANGED <<order, storefile, twice>> /\ Moves(pc[c], pc'[c])
        /\ \A d \in Callers \ {c} : pc'[d] = pc[d] /\ found'[d] = found[d]
    BY <1>4, PlainIs, PlainFinds DEF heldVars
  <2>2. QED
    BY <2>1, LoadFrame DEF Moves
<1>5. ASSUME NEW c \in Callers, SendKept(c) \/ RemoveKept(c)
      PROVE  LoadInv'
  <2>1. UNCHANGED <<found, order, storefile, twice>>
        /\ \A d \in Callers : pc'[d] = "remove" => pc[d] = "remove"
    BY <1>1, <1>5 DEF SendKept, RemoveKept, Goto, fileVars, managementVars, storedVars, historyVars
  <2>2. QED
    BY <2>1, LoadFrame
<1>6. ASSUME NEW c \in Callers, LoadStored(c)
      PROVE  LoadInv'
  <2>1. /\ UNCHANGED <<storefile, found, saved>> /\ pc[c] = "load"
        /\ pc' = [pc EXCEPT ![c] = "remove"]
        /\ order' = [order EXCEPT ![c] = storefile[found[c]]]
        /\ twice \subseteq twice'
        /\ (\E d \in Callers \ {c} : pc[d] = "remove" /\ found[d] = found[c])
              => Position(storefile[found[c]]) \in twice' \cup {NoGame}
    BY <1>6 DEF LoadStored, Searches, Goto
  <2>2. /\ order'[c] = storefile[found[c]]
        /\ \A d \in Callers \ {c} : order'[d] = order[d] /\ pc'[d] = pc[d]
    BY <1>1, <2>1
  <2>3. \A d \in Callers : /\ Position(order[d])' = Position(order'[d])
                           /\ Double(order[d])' <=> Position(order'[d]) \in twice' \cup {NoGame}
    BY <2>1 DEF Double, Position
  <2>4. ASSUME NEW d \in Callers \ {c}, Double(order[d])
        PROVE  Double(order[d])'
    BY <2>1, <2>2, <2>3, <2>4 DEF Double
  <2>5. Position(NoOrder) = NoGame
    BY Basics DEF Position
  <2>6. \A d \in Callers : pc'[d] = "remove" =>
           \/ storefile[found[d]] # NoOrder /\ order'[d] = storefile[found[d]]
           \/ storefile[found[d]] = NoOrder /\ Double(order[d])'
    <3>1. storefile[found[c]] = NoOrder => Double(order[c])'
      BY <2>2, <2>3, <2>5
    <3>2. QED
      BY <2>2, <2>4, <3>1 DEF LoadInv
  <2>7. ASSUME NEW d \in Callers \ {c}, pc[d] = "remove", found[d] = found[c]
        PROVE  Double(order[c])' /\ Double(order[d])'
    BY <2>1, <2>2, <2>3, <2>4, <2>7 DEF LoadInv
  <2>8. \A d, e \in Callers : d # e /\ pc'[d] = "remove" /\ pc'[e] = "remove" /\ found[d] = found[e]
                                  => Double(order[d])'
    BY <2>2, <2>4, <2>7 DEF LoadInv
  <2>9. QED
    BY <2>1, <2>6, <2>8 DEF LoadInv
<1>7. ASSUME NEW c \in Callers, RemoveStored(c)
      PROVE  LoadInv'
  <2>1. /\ UNCHANGED <<order, found, saved, twice>> /\ pc[c] = "remove"
        /\ pc' = [pc EXCEPT ![c] = "unlock"]
        /\ storefile' = [storefile EXCEPT ![found[c]] = NoOrder]
    BY <1>7 DEF RemoveStored, Searches, Goto, storedVars, historyVars
  <2>2. \A d \in Callers : pc'[d] = "remove" => d # c /\ pc[d] = "remove"
    BY <1>1, <2>1
  <2>3. \A d \in Callers : Double(order[d])' <=> Double(order[d])
    BY <2>1 DEF Double, Position
  <2>4. \A f \in FileNames : storefile'[f] = IF f = found[c] THEN NoOrder ELSE storefile[f]
    BY <1>1, <2>1
  <2>5. QED
    BY <1>1, <2>1, <2>2, <2>3, <2>4 DEF LoadInv
<1>8. ASSUME NEW c \in Callers, GiveStored(c) \/ GetWork(c)
      PROVE  LoadInv'
  <2>1. PICK o \in Orders : Deliver(c, o)
    BY <1>8, ServerOrderIs DEF GiveStored, GetWork, TypeInv, TypeOK
  <2>2. UNCHANGED <<storefile, twice>>
    BY <1>8 DEF GiveStored, GetWork, fileVars, historyVars
  <2>3. \A d \in Callers : pc'[d] = "remove" => d # c /\ pc[d] = "remove"
    BY <2>1, DeliverIs, Basics
  <2>4. QED
    BY <2>1, <2>2, <2>3, DeliverOrders, LoadFrame
<1>9. ASSUME NEW w \in Workers, WorkStep(w) \/ Upload(w)
      PROVE  LoadInv'
  <2>1. /\ UNCHANGED <<found, order, twice>>
        /\ \A d \in Callers : pc'[d] = "remove" => pc[d] = "remove"
    BY <1>1, <1>9 DEF WorkStep, StartGame, RemovePosition, EndGame, EngineFails, SleepOver,
       BeginSave, Upload, managementVars, storedVars, historyVars, Goto
  <2>2. CASE BeginSave(w)
    <3>1. storefile' = [storefile EXCEPT ![Name(w)] = StoredOrder(w)] /\ ~Made(Name(w))
      BY <2>2, NotMade DEF BeginSave
    <3>2. \A d \in Callers : pc[d] = "remove" => Made(found[d])
      BY <1>1, Basics DEF NamesInv, Known
    <3>3. \A d \in Callers : pc[d] = "remove" => storefile'[found[d]] = storefile[found[d]]
      BY <1>1, <3>1, <3>2
    <3>4. QED
      BY <2>1, <3>3, LoadFrame
  <2>3. CASE ~BeginSave(w)
    <3>1. storefile' = storefile
      BY <1>9, <2>3 DEF WorkStep, StartGame, RemovePosition, EndGame, EngineFails, SleepOver,
         Upload, fileVars
    <3>2. QED
      BY <2>1, <3>1, LoadFrame
  <2>4. QED
    BY <2>2, <2>3
<1>10. QED
  BY <1>2, <1>3, <1>4, <1>5, <1>6, <1>7, <1>8, <1>9, StepCases

LEMMA LoadInit == ASSUME Init PROVE LoadInv
<1>1. \A c \in Callers : pc[c] # "remove"
  BY DEF Init, Fresh
<1>2. QED
  BY <1>1 DEF LoadInv

-----------------------------------------------------------------------------
(* What was kept, and has been sent.                                       *)

\* One thread at a time uploads.
LEMMA OneSends ==
    ASSUME TypeInv, QuitInv, SendInv, NEW c \in Callers, NEW d \in Callers,
           pc[c] \in {"upload", "sendall", "sent"}, pc[d] \in {"upload", "sendall", "sent"}
    PROVE  c = d
<1>1. c # Main /\ d # Main => m_syncMutex = c /\ m_syncMutex = d
  BY Basics, Apart DEF QuitInv, MutexInv, Sending
<1>2. ASSUME c = Main \/ d = Main
      PROVE  \A w \in Workers : pc[w] = "new"
  <2>1. pc[Main] \in {"sendall", "sent"}
    BY <1>2 DEF TypeInv, PlaceInv, MainPlaces, SearchPlaces, FilePlaces, HandPlaces
  <2>2. index = 1 /\ pc[Main] \in Assigning
    BY <2>1, Apart DEF SendInv
  <2>3. QED
    BY <2>1, <2>2, Basics DEF QuitInv, NewInv, Workers
<1>3. QED
  BY <1>1, <1>2, Basics

\* What is known to be uploaded stays so.
LEMMA UploadedNext ==
    ASSUME TypeInv, Next, NEW g \in GamesStarted
    PROVE  /\ Uploaded(g) \in Nat /\ Uploaded(g)' \in Nat
           /\ Uploaded(g)' >= Uploaded(g)
           /\ \/ Uploaded(g)' = Uploaded(g)
              \/ (\E c \in Callers : SendKept(c)) \/ (\E w \in Workers : Upload(w))
<1>1. Uploaded(g) \in Nat
  BY DEF TypeInv, GameInv, Uploaded
<1>2. CASE uploaded' = uploaded
  BY <1>1, <1>2 DEF Uploaded
<1>3. ASSUME NEW x, Send(x), UNCHANGED kindOf
      PROVE  Uploaded(g)' \in Nat /\ Uploaded(g)' >= Uploaded(g)
  BY <1>1, <1>3, SentIs
<1>4. ASSUME NEW c \in Callers, SendKept(c)
      PROVE  Uploaded(g)' \in Nat /\ Uploaded(g)' >= Uploaded(g)
  BY <1>3, <1>4 DEF SendKept, fileVars
<1>5. ASSUME NEW w \in Workers, Upload(w)
      PROVE  uploaded' = uploaded \/ (Uploaded(g)' \in Nat /\ Uploaded(g)' >= Uploaded(g))
  BY <1>3, <1>5 DEF Upload, fileVars
<1>6. \/ uploaded' = uploaded
      \/ \E c \in Callers : SendKept(c)
      \/ \E w \in Workers : Upload(w)
  <2>1. ASSUME NEW c \in Callers, Plain(c)
        PROVE  uploaded' = uploaded
    BY <2>1, PlainIs DEF heldVars
  <2>2. ASSUME NEW c \in Callers, \/ RemoveKept(c) \/ LoadStored(c)
                                  \/ RemoveStored(c) \/ GiveStored(c) \/ GetWork(c)
        PROVE  uploaded' = uploaded
    BY <2>2 DEF RemoveKept, LoadStored, RemoveStored, GiveStored, GetWork, Searches, serverVars
  <2>3. ASSUME NEW w \in Workers, WorkStep(w)
        PROVE  uploaded' = uploaded
    BY <2>3 DEF WorkStep, serverVars
  <2>4. End \/ Start => uploaded' = uploaded
    BY DEF End, Start, serverVars
  <2>5. QED
    BY <2>1, <2>2, <2>3, <2>4, StepCases
<1>7. QED
  BY <1>1, <1>2, <1>4, <1>5, <1>6

LEMMA SendFrame ==
    ASSUME TypeInv, SendInv, Next, sending' = sending,
           \A c \in Callers : pc[c] = "sent" => pc'[c] = "sent",
           pc'[Main] \in {"down", "sendall", "sent", "tune"}
               => index' = index /\ pc[Main] \in {"down", "sendall", "sent", "tune"}
    PROVE  SendInv'
<1>1. ASSUME sending # NoGame
      PROVE  Uploaded(sending)' >= 1
  <2>1. PICK g \in GamesStarted : g = sending /\ Uploaded(g) >= 1
    BY <1>1 DEF SendInv, TypeInv, TypeOK
  <2>2. Uploaded(g)' >= 1
    BY <2>1, UploadedNext
  <2>3. QED
    BY <2>1, <2>2 DEF Uploaded
<1>2. QED
  BY <1>1 DEF SendInv

LEMMA SendNext ==
    ASSUME TypeInv, QuitInv, SendInv, Next
    PROVE  SendInv'
<1>1. pc \in [Callers -> Somewhere] /\ Main \in Callers
  BY AllPlaces, Basics DEF TypeInv
<1>2. CASE End
  BY <1>2 DEF End, SendInv
<1>3. CASE Start
  <2>1. sending' = sending /\ index' = index /\ pc[Main] = "down" /\ pc'[Main] = "sendall"
        /\ \A c \in Callers : pc[c] = "sent" => pc'[c] = "sent"
    BY <1>1, <1>3 DEF Start, Goto, serverVars, managementVars
  <2>2. QED
    BY <2>1, SendFrame
<1>4. ASSUME NEW c \in Callers, Plain(c)
      PROVE  SendInv'
  <2>1. sending' = sending /\ Moves(pc[c], pc'[c]) /\ \A d \in Callers \ {c} : pc'[d] = pc[d]
    BY <1>4, PlainIs DEF heldVars
  <2>2. \/ index' = index
        \/ c = Main /\ StoreState
    BY <1>4 DEF Plain, Tune, Connect, Quit, StoreJob, CheckStoring, LoopTest, EndSave, Leave,
       TakeResult, Decide, AllSent, List, TakeStored, TakeLast, NewLock, TryLock, Exists,
       DeleteLock, Dropped, Unlock, Searches, managementVars
  <2>3. StoreState => pc'[Main] \in {"wait", "store"}
    BY <1>1 DEF StoreState, Goto
  <2>4. c = Main => \/ pc[Main] \in {"down", "sendall", "sent", "tune"}
                    \/ pc'[Main] \notin {"down", "sendall", "sent", "tune"}
    BY <1>1, <1>4 DEF Plain, Tune, Connect, Quit, StoreJob, StoreState,
       AllSent, List, TakeStored, TakeLast, NewLock, TryLock, Exists,
       DeleteLock, Dropped, Unlock, Goto
  <2>5. QED
    BY <1>1, <2>1, <2>2, <2>3, <2>4, SendFrame DEF Moves
<1>5. ASSUME NEW c \in Callers, SendKept(c)
      PROVE  SendInv'
  <2>1. PICK g \in curl_save : Send(g) /\ sending' = g
    BY <1>5 DEF SendKept
  <2>2. UNCHANGED <<kindOf, index>> /\ pc[c] = "sendall" /\ pc' = [pc EXCEPT ![c] = "sent"]
    BY <1>5 DEF SendKept, fileVars, managementVars, Goto
  <2>3. g \in GamesStarted
    BY DEF TypeInv, TypeOK
  <2>4. Uploaded(g)' >= 1
    BY <2>1, <2>2, <2>3, SentIs
  <2>5. Uploaded(sending)' >= 1
    BY <2>1, <2>4 DEF Uploaded
  <2>6. QED
    BY <1>1, <2>2, <2>5 DEF SendInv
<1>6. ASSUME NEW c \in Callers, RemoveKept(c)
      PROVE  SendInv'
  BY <1>1, <1>6 DEF RemoveKept, managementVars, SendInv, Goto
<1>7. ASSUME NEW c \in Callers, LoadStored(c) \/ RemoveStored(c)
      PROVE  SendInv'
  <2>1. sending' = sending /\ index' = index
    BY <1>7 DEF LoadStored, RemoveStored, Searches, serverVars
  <2>2. PICK l \in {"remove", "unlock"} : pc' = [pc EXCEPT ![c] = l] /\ pc[c] \in {"load", "remove"}
    BY <1>7 DEF LoadStored, RemoveStored, Goto
  <2>3. QED
    BY <1>1, <2>1, <2>2, SendFrame
<1>8. ASSUME NEW c \in Callers, GiveStored(c) \/ GetWork(c)
      PROVE  SendInv'
  <2>1. PICK o \in Orders : Deliver(c, o)
    BY <1>8, ServerOrderIs DEF GiveStored, GetWork, TypeInv, TypeOK
  <2>2. sending' = sending /\ pc[c] \in {"take", "deliver"}
    BY <1>8 DEF GiveStored, GetWork, FindsNone, serverVars
  <2>3. c = Main => /\ pc'[Main] \in {"connect", "list"}
                    /\ \A w \in Workers : pc'[w] = pc[w] \/ pc[w] = "new"
    BY <2>1, <2>2, DeliverIs, ReceiverIs
  <2>4. c # Main => index' = index /\ pc'[Main] = pc[Main]
                    /\ \A d \in Callers \ {c} : pc'[d] = pc[d]
    BY <1>1, <2>1, DeliverIs
  <2>5. QED
    BY <2>2, <2>3, <2>4, SendFrame, Basics
<1>9. ASSUME NEW w \in Workers, WorkStep(w) \/ Upload(w)
      PROVE  SendInv'
  <2>1. sending' = sending /\ index' = index
    BY <1>9 DEF WorkStep, Upload, serverVars, managementVars
  <2>2. PICK l \in {"play", "start", "executed", "saving", "sendall"} :
            /\ pc' = [pc EXCEPT ![w] = l]
            /\ pc[w] \in {"execute", "start", "play", "leave", "upload"}
    BY <1>9 DEF WorkStep, StartGame, RemovePosition, EndGame, EngineFails, SleepOver, BeginSave,
       Upload, Goto
  <2>3. QED
    BY <1>1, <2>1, <2>2, SendFrame, Basics
<1>10. QED
  BY <1>2, <1>3, <1>4, <1>5, <1>6, <1>7, <1>8, <1>9, StepCases

LEMMA SendInit == ASSUME Init PROVE SendInv
<1>1. sending = NoGame /\ index = 1
  BY DEF Init, FilesInit, ManagementInit
<1>2. QED
  BY <1>1 DEF SendInv

-----------------------------------------------------------------------------
(* One place for a game.                                                   *)

Having == {"start", "play", "executed", "result", "upload"}
Ending == {"new", "saving", "exited"}

LEMMA ClaimsKept ==
    ASSUME TypeInv, QuitInv, NamesInv, Next, NEW g \in GamesStarted, NEW v \in Workers,
           m_todo'[v] = m_todo[v], game'[v] = game[v], res'[v] = res[v],
           pc'[v] \notin Ending => pc[v] \notin Ending,
           pc'[v] \in Having => pc[v] \in Having
    PROVE  Claims(v, g)' => Claims(v, g)
<1>1. PICK o \in Orders : o = m_todo[v] /\ o = m_todo'[v] /\ Known(o.sgf)
  BY DEF TypeInv, TypeOK, NamesInv
<1>2. Position(o)' \in {Position(o), NoGame} /\ g # NoGame
  BY <1>1, SavedNext DEF GamesStarted, NoGame
<1>3. Position(m_todo[v])' = g => Position(m_todo[v]) = g
  BY <1>1, <1>2 DEF Position
<1>4. QED
  BY <1>3 DEF Claims, Having, Ending

LEMMA HandKept ==
    ASSUME TypeInv, QuitInv, NamesInv, Next, NEW g \in GamesStarted, NEW c \in Callers,
           pc'[c] \in HandPlaces => pc[c] \in HandPlaces /\ order'[c] = order[c]
    PROVE  HasInHand(c, g)' => HasInHand(c, g)
<1>1. PICK o \in Orders : o = order[c] /\ Known(o.sgf)
  BY DEF TypeInv, TypeOK, NamesInv
<1>2. Position(o)' \in {Position(o), NoGame} /\ g # NoGame
  BY <1>1, SavedNext DEF GamesStarted, NoGame
<1>3. order'[c] = order[c] => (Position(order[c])' = g => Position(order[c]) = g)
  BY <1>1, <1>2 DEF Position
<1>4. QED
  BY <1>3 DEF HasInHand, HandPlaces

LEMMA StoresKept ==
    ASSUME TypeInv, QuitInv, NamesInv, Next, NEW g \in GamesStarted, NEW f \in FileNames,
           storefile'[f] \in {storefile[f], NoOrder}
    PROVE  f \in Stores(g)' => f \in Stores(g)
<1>1. PICK o \in Orders : o = storefile[f] /\ Known(o.sgf)
  BY DEF TypeInv, TypeOK, NamesInv
<1>2. Position(o)' \in {Position(o), NoGame} /\ g # NoGame
  BY <1>1, SavedNext DEF GamesStarted, NoGame
<1>3. storefile'[f] = storefile[f] =>
          (Position(storefile[f])' = g => Position(storefile[f]) = g)
  BY <1>1, <1>2 DEF Position
<1>4. QED
  BY <1>3 DEF Stores, Files

LEMMA AloneFrame ==
    ASSUME TypeInv, QuitInv, NamesInv, Next, NEW g \in GamesStarted, Alone(g),
           \A w \in Workers : Claims(w, g)' => Claims(w, g),
           \A c \in Callers : HasInHand(c, g)' => HasInHand(c, g),
           \A f \in FileNames : f \in Stores(g)' => f \in Stores(g),
           Kept(g)' => Kept(g), Uploaded(g)' = Uploaded(g)
    PROVE  Alone(g)'
<1>1. Claimed(g)' => Claimed(g)
  BY DEF Claimed
<1>2. InHand(g)' => InHand(g)
  BY DEF InHand
<1>3. Stores(g)' \subseteq Stores(g)
  BY DEF Stores, Files
<1>4. QED
  BY <1>1, <1>2, <1>3 DEF Alone

\* Nothing of the kind happens to those who do not move.
LEMMA AloneAll ==
    ASSUME TypeInv, QuitInv, NamesInv, Next, NEW g \in GamesStarted,
           UNCHANGED <<m_todo, game, res>>,
           \A v \in Workers : /\ pc'[v] \notin Ending => pc[v] \notin Ending
                              /\ pc'[v] \in Having => pc[v] \in Having,
           \A c \in Callers : pc'[c] \in HandPlaces =>
                                  pc[c] \in HandPlaces /\ order'[c] = order[c]
    PROVE  /\ \A w \in Workers : Claims(w, g)' => Claims(w, g)
           /\ \A c \in Callers : HasInHand(c, g)' => HasInHand(c, g)
  BY ClaimsKept, HandKept

LEMMA AlonePlain ==
    ASSUME TypeInv, QuitInv, NamesInv, Next, NEW g \in GamesStarted, Alone(g),
           NEW c \in Callers, Plain(c)
    PROVE  Alone(g)'
<1>1. /\ UNCHANGED heldVars /\ Moves(pc[c], pc'[c])
      /\ \A d \in Callers \ {c} : pc'[d] = pc[d]
  BY PlainIs
<1>2. /\ \A w \in Workers : Claims(w, g)' => Claims(w, g)
      /\ \A d \in Callers : HasInHand(d, g)' => HasInHand(d, g)
  BY <1>1, AloneAll, Basics DEF heldVars, Moves, Having, Ending
<1>3. \A f \in FileNames : f \in Stores(g)' => f \in Stores(g)
  BY <1>1, StoresKept DEF heldVars
<1>4. (Kept(g)' => Kept(g)) /\ Uploaded(g)' = Uploaded(g)
  BY <1>1 DEF heldVars, Kept, Uploaded
<1>5. QED
  BY <1>2, <1>3, <1>4, AloneFrame

\* Uploads.
LEMMA AloneSend ==
    ASSUME TypeInv, QuitInv, NamesInv, SendInv, Next, NEW g \in GamesStarted, Alone(g),
           NEW c \in Callers, SendKept(c) \/ RemoveKept(c)
    PROVE  Alone(g)'
<1>1. /\ UNCHANGED <<m_todo, game, res, order, storefile, kindOf>>
      /\ \A w \in Workers : Claims(w, g)' => Claims(w, g)
      /\ \A d \in Callers : HasInHand(d, g)' => HasInHand(d, g)
  <2>1. UNCHANGED <<m_todo, game, res, order, storefile, kindOf>>
    BY DEF SendKept, RemoveKept, workerVars, managementVars, storedVars, fileVars
  <2>2. PICK l \in {"sent", "sendall"} : pc' = [pc EXCEPT ![c] = l] /\ pc[c] \in {"sent", "sendall"}
    BY DEF SendKept, RemoveKept, Goto
  <2>3. pc'[c] = l /\ \A d \in Callers \ {c} : pc'[d] = pc[d]
    BY <2>2 DEF TypeInv, TypeOK
  <2>4. QED
    BY <2>1, <2>2, <2>3, AloneAll, Basics DEF Having, Ending, HandPlaces
<1>2. \A f \in FileNames : f \in Stores(g)' => f \in Stores(g)
  BY <1>1, StoresKept
<1>3. CASE RemoveKept(c)
  <2>1. (Kept(g)' => Kept(g)) /\ Uploaded(g)' = Uploaded(g)
    BY <1>3 DEF RemoveKept, Kept, Uploaded
  <2>2. QED
    BY <1>1, <1>2, <2>1, AloneFrame
<1>4. CASE SendKept(c)
  <2>1. PICK h \in curl_save : Send(h) /\ sending' = h
    BY <1>4 DEF SendKept
  <2>2. curl_save' = curl_save /\ pc[c] = "sendall"
    BY <1>4 DEF SendKept
  <2>3. sending = NoGame
    BY <2>2, OneSends DEF SendInv
  <2>4. Kept(g)' => Kept(g) /\ g # h
    BY <2>1, <2>2, <2>3 DEF Kept, GamesStarted, NoGame
  <2>5. Uploaded(g) \in Nat /\ Uploaded(g)' = Uploaded(g) + IF g = h THEN 1 ELSE 0
    BY <1>1, <2>1, SentIs
  <2>6. CASE g # h
    BY <1>1, <1>2, <2>4, <2>5, <2>6, AloneFrame
  <2>7. CASE g = h
    <3>1. Kept(g)
      BY <2>1, <2>3, <2>7 DEF Kept, GamesStarted, NoGame
    <3>2. ~Claimed(g) /\ ~InHand(g) /\ Stores(g) = {} /\ Uploaded(g) = 0
      BY <3>1 DEF Alone
    <3>3. ~Claimed(g)' /\ ~InHand(g)'
      BY <1>1, <3>2 DEF Claimed, InHand
    <3>4. Stores(g)' = {}
      BY <1>2, <3>2 DEF Stores, Files
    <3>5. (\A w \in Workers : ~Claims(w, g)') /\ (\A d \in Callers : ~HasInHand(d, g)')
      BY <3>3 DEF Claimed, InHand
    <3>6. QED
      BY <2>4, <2>5, <2>7, <3>2, <3>3, <3>4, <3>5 DEF Alone
  <2>8. QED
    BY <2>6, <2>7
<1>5. QED
  BY <1>3, <1>4

\* A stored game is taken from its file, and given to a worker.
LEMMA AloneLoad ==
    ASSUME TypeInv, QuitInv, NamesInv, Next, NEW g \in GamesStarted, Alone(g),
           NEW c \in Callers, LoadStored(c)
    PROVE  Alone(g)'
<1>1. /\ UNCHANGED <<m_todo, game, res, storefile, curl_save, sending, uploaded>>
      /\ pc' = [pc EXCEPT ![c] = "remove"] /\ pc[c] = "load"
      /\ order' = [order EXCEPT ![c] = storefile[found[c]]]
  BY DEF LoadStored, Searches, workerVars, serverVars, Goto
<1>2. pc'[c] = "remove" /\ \A d \in Callers \ {c} : pc'[d] = pc[d] /\ order'[d] = order[d]
  BY <1>1 DEF TypeInv, TypeOK
<1>3. /\ \A w \in Workers : Claims(w, g)' => Claims(w, g)
      /\ \A d \in Callers : HasInHand(d, g)' => HasInHand(d, g)
  BY <1>1, <1>2, AloneAll, Basics DEF Having, Ending, HandPlaces
<1>4. \A f \in FileNames : f \in Stores(g)' => f \in Stores(g)
  BY <1>1, StoresKept
<1>5. (Kept(g)' => Kept(g)) /\ Uploaded(g)' = Uploaded(g)
  BY <1>1 DEF Kept, Uploaded
<1>6. QED
  BY <1>3, <1>4, <1>5, AloneFrame

LEMMA AloneRemove ==
    ASSUME TypeInv, QuitInv, NamesInv, LoadInv, Next, NEW g \in GamesStarted, g \notin twice,
           Alone(g), NEW c \in Callers, RemoveStored(c)
    PROVE  Alone(g)'
<1>1. /\ UNCHANGED <<m_todo, game, res, order, saved, curl_save, sending, uploaded>>
      /\ pc' = [pc EXCEPT ![c] = "unlock"] /\ pc[c] = "remove"
      /\ storefile' = [storefile EXCEPT ![found[c]] = NoOrder]
  BY DEF RemoveStored, Searches, workerVars, storedVars, serverVars, Goto
<1>2. pc'[c] = "unlock" /\ \A d \in Callers \ {c} : pc'[d] = pc[d]
  BY <1>1 DEF TypeInv, TypeOK
<1>3. found[c] \in FileNames /\ storefile'[found[c]] = NoOrder
      /\ \A f \in FileNames : storefile'[f] \in {storefile[f], NoOrder}
  BY <1>1 DEF TypeInv, TypeOK, PlaceInv, FilePlaces
<1>4. /\ \A w \in Workers : Claims(w, g)' => Claims(w, g)
      /\ \A d \in Callers \ {c} : HasInHand(d, g)' => HasInHand(d, g)
  BY <1>1, <1>2, ClaimsKept, HandKept, Basics DEF Having, Ending
<1>5. /\ \A f \in FileNames : f \in Stores(g)' => f \in Stores(g)
      /\ found[c] \notin Stores(g)'
  BY <1>3, StoresKept DEF Stores, Files
<1>6. (Kept(g)' <=> Kept(g)) /\ Uploaded(g)' = Uploaded(g)
  BY <1>1 DEF Kept, Uploaded
<1>7. HasInHand(c, g)' => Position(order[c]) = g
  BY <1>1 DEF HasInHand, Position
<1>8. CASE Position(order[c]) # g
  <2>1. \A d \in Callers : HasInHand(d, g)' => HasInHand(d, g)
    BY <1>4, <1>7, <1>8
  <2>2. QED
    BY <1>4, <1>5, <1>6, <2>1, AloneFrame
<1>9. CASE Position(order[c]) = g
  <2>1. order[c] = storefile[found[c]] /\ storefile[found[c]] # NoOrder
    BY <1>1, <1>9 DEF LoadInv, Double, GamesStarted, NoGame
  <2>2. found[c] \in Stores(g)
    BY <1>3, <1>9, <2>1 DEF Stores, Files
  <2>3. /\ ~Claimed(g) /\ ~InHand(g) /\ ~Kept(g) /\ Uploaded(g) = 0
        /\ \A f \in Stores(g) : f = found[c]
    BY <2>2 DEF Alone
  <2>4. Stores(g)' = {}
    BY <1>5, <2>3 DEF Stores, Files
  <2>5. ~Claimed(g)' /\ \A w \in Workers : ~Claims(w, g)'
    BY <1>4, <2>3 DEF Claimed
  <2>6. \A d \in Callers : HasInHand(d, g)' => d = c
    BY <1>4, <2>3 DEF InHand
  <2>7. QED
    BY <1>6, <2>3, <2>4, <2>5, <2>6 DEF Alone
<1>10. QED
  BY <1>8, <1>9

LEMMA AloneDeliver ==
    ASSUME TypeInv, QuitInv, NamesInv, WorkInvs, Next, NEW g \in GamesStarted,
           Alone(g), NEW c \in Callers, GiveStored(c) \/ GetWork(c)
    PROVE  Alone(g)'
<1>1. PICK o \in Orders : /\ Deliver(c, o)
                          /\ \/ GiveStored(c) /\ o = order[c]
                             \/ GetWork(c) /\ o.sgf = NoFile
  <2>1. CASE GiveStored(c)
    <3>1. Deliver(c, order[c]) /\ order[c] \in Orders
      BY <2>1 DEF GiveStored, TypeInv, TypeOK
    <3>2. QED
      BY <2>1, <3>1
  <2>2. CASE GetWork(c)
    <3>1. PICK cmd \in ServerOrders \cup {"selfplay"} : Deliver(c, ServerOrder(cmd))
      BY <2>2 DEF GetWork
    <3>2. QED
      BY <2>2, <3>1, ServerOrderIs
  <2>3. QED
    BY <2>1, <2>2
<1>2. /\ UNCHANGED <<game, res, storefile, saved, curl_save, sending, uploaded>>
      /\ pc[c] \in {"take", "deliver"} /\ (GiveStored(c) => pc[c] = "deliver")
  BY DEF GiveStored, GetWork, FindsNone, fileVars, serverVars
<1>3. PICK r \in Workers : r = Receiver(c)
  BY <1>1, DeliverIs
<1>4. /\ \/ pc[r] = "new" /\ pc'[r] = "execute"
         \/ pc[r] \in {"take", "deliver"} /\ pc'[r] = "loop"
      /\ \A v \in Workers \ {r} : pc'[v] = pc[v]
      /\ pc'[c] \notin HandPlaces
      /\ \A d \in Callers \ {c} : pc'[d] \in HandPlaces => pc'[d] = pc[d]
  BY <1>1, <1>2, <1>3, DeliverIs, ReceiverIs, Basics DEF HandPlaces
<1>5. /\ \A v \in Workers \ {r} : m_todo'[v] = m_todo[v]
      /\ m_todo'[r] = m_todo[r] \/ m_todo'[r] = o
      /\ \A d \in Callers \ {c} : order'[d] = order[d]
  BY <1>1, <1>3, DeliverOrders
<1>6. \A v \in Workers \ {r} : Claims(v, g)' => Claims(v, g)
  BY <1>2, <1>4, <1>5, ClaimsKept
<1>7. \A d \in Callers : HasInHand(d, g)' => d # c /\ HasInHand(d, g)
  BY <1>4, <1>5, HandKept DEF HasInHand, HandPlaces
<1>8. \A f \in FileNames : f \in Stores(g)' => f \in Stores(g)
  BY <1>2, StoresKept
<1>9. (Kept(g)' <=> Kept(g)) /\ Uploaded(g)' = Uploaded(g)
  BY <1>2 DEF Kept, Uploaded
<1>10. Claims(r, g)' => \/ Claims(r, g)
                        \/ Position(o) = g
  <2>1. ASSUME Position(m_todo[r])' = g
        PROVE  Claims(r, g) \/ Position(o) = g
    <3>1. Position(m_todo'[r]) = g
      BY <1>2, <2>1 DEF Position
    <3>2. m_todo'[r] = m_todo[r] => m_todo[r] # NoOrder
      BY <3>1, Basics DEF Position, GamesStarted, NoGame
    <3>3. pc[r] = "new" => m_todo[r] = NoOrder
      BY DEF WorkInvs, WorkInv
    <3>4. QED
      BY <1>4, <1>5, <3>1, <3>2, <3>3 DEF Claims
  <2>2. ASSUME res[r] \in StoreResults, game[r] = g
        PROVE  Claims(r, g)
    BY <1>4, <2>2 DEF WorkInvs, WorkInv, Claims, StoreResults
  <2>3. QED
    BY <1>2, <1>4, <2>1, <2>2 DEF Claims
<1>11. CASE Claims(r, g)' => Claims(r, g)
  BY <1>6, <1>7, <1>8, <1>9, <1>11, AloneFrame
<1>12. CASE Position(o) = g
  <2>1. HasInHand(c, g)
    BY <1>1, <1>2, <1>12 DEF HasInHand, Position, GamesStarted, NoGame
  <2>2. ~Claimed(g) /\ Stores(g) = {} /\ ~Kept(g) /\ Uploaded(g) = 0
        /\ \A d \in Callers : HasInHand(d, g) => d = c
    BY <2>1 DEF Alone, InHand
  <2>3. Stores(g)' = {}
    BY <1>8, <2>2 DEF Stores, Files
  <2>4. ~InHand(g)' /\ \A d \in Callers : ~HasInHand(d, g)'
    BY <1>7, <2>2 DEF InHand
  <2>5. \A v \in Workers : Claims(v, g)' => v = r
    BY <1>6, <2>2 DEF Claimed
  <2>6. QED
    BY <1>9, <2>2, <2>3, <2>4, <2>5 DEF Alone
<1>13. QED
  BY <1>10, <1>11, <1>12

\* A worker with its game.
LEMMA WorkStepIs ==
    ASSUME TypeInv, NEW w \in Workers, WorkStep(w) \/ Upload(w)
    PROVE  /\ UNCHANGED <<m_todo, job, order, found, index, starts, sending, gone, twice>>
           /\ pc[w] \in {"execute", "start", "play", "leave", "upload"}
           /\ pc'[w] \in {"play", "start", "executed", "saving", "sendall"}
           /\ \A d \in Callers \ {w} : pc'[d] = pc[d]
           /\ \A v \in Workers \ {w} : game'[v] = game[v] /\ res'[v] = res[v]
           /\ WorkStep(w) => UNCHANGED <<curl_save, uploaded>>
           /\ ~BeginSave(w) => UNCHANGED storefile
<1>1. UNCHANGED <<m_todo, job, order, found, index, starts, sending, gone, twice>>
      /\ (WorkStep(w) => UNCHANGED <<curl_save, uploaded>>)
      /\ (~BeginSave(w) => UNCHANGED storefile)
  BY DEF WorkStep, StartGame, RemovePosition, EndGame, EngineFails, SleepOver, BeginSave, Upload,
     workerVars, fileVars, managementVars, serverVars, historyVars, storedVars
<1>2. PICK l \in {"play", "start", "executed", "saving", "sendall"} :
          /\ pc' = [pc EXCEPT ![w] = l]
          /\ pc[w] \in {"execute", "start", "play", "leave", "upload"}
  BY DEF WorkStep, StartGame, RemovePosition, EndGame, EngineFails, SleepOver, BeginSave,
     Upload, Goto
<1>3. \A v \in Workers \ {w} : game'[v] = game[v] /\ res'[v] = res[v]
  BY DEF WorkStep, StartGame, RemovePosition, EndGame, EngineFails, SleepOver, BeginSave,
     Upload, Forget, workerVars, TypeInv, TypeOK, GameInv
<1>4. QED
  BY <1>1, <1>2, <1>3, Basics DEF TypeInv, TypeOK

LEMMA AloneWork ==
    ASSUME TypeInv, QuitInv, NamesInv, WorkInvs, Next, NEW g \in GamesStarted, Alone(g),
           NEW w \in Workers, WorkStep(w)
    PROVE  Alone(g)'
<1>1. /\ UNCHANGED <<m_todo, order, curl_save, uploaded, sending, starts>>
      /\ pc[w] \in {"execute", "start", "play", "leave", "upload"}
      /\ pc'[w] \in {"play", "start", "executed", "saving", "sendall"}
      /\ \A d \in Callers \ {w} : pc'[d] = pc[d]
      /\ \A v \in Workers \ {w} : game'[v] = game[v] /\ res'[v] = res[v]
      /\ ~BeginSave(w) => UNCHANGED storefile
  BY WorkStepIs
<1>2. \A v \in Workers \ {w} : Claims(v, g)' => Claims(v, g)
  BY <1>1, ClaimsKept, Basics
<1>3. \A d \in Callers : HasInHand(d, g)' => HasInHand(d, g)
  BY <1>1, HandKept DEF HandPlaces
<1>4. (Kept(g)' <=> Kept(g)) /\ Uploaded(g)' = Uploaded(g)
  BY <1>1 DEF Kept, Uploaded
<1>5. g # NoGame /\ game \in [Workers -> MaybeGame] /\ pc \in [Callers -> Somewhere]
  BY AllPlaces DEF TypeInv, GameInv, GamesStarted, NoGame
<1>6. CASE ~BeginSave(w)
  <2>1. \A f \in FileNames : f \in Stores(g)' => f \in Stores(g)
    BY <1>1, <1>6, StoresKept
  <2>2. Position(m_todo[w])' = g => Claims(w, g)
    <3>1. PICK o \in Orders : o = m_todo[w] /\ o = m_todo'[w] /\ Known(o.sgf)
      BY <1>1 DEF TypeInv, TypeOK, NamesInv
    <3>2. Position(o)' \in {Position(o), NoGame}
      BY <3>1, SavedNext
    <3>3. Position(m_todo[w])' = g => Position(m_todo[w]) = g
      BY <1>5, <3>1, <3>2 DEF Position
    <3>4. QED
      BY <1>1, <3>3 DEF Claims
  <2>3. game'[w] = g => Claims(w, g)
    <3>1. CASE StartGame(w)
      <4>1. CASE m_todo[w].sgf = NoFile
        <5>1. game'[w] = Len(kindOf) + 1
          BY <1>5, <3>1, <4>1 DEF StartGame
        <5>2. QED
          BY <5>1 DEF GamesStarted, TypeInv, GameInv
      <4>2. CASE m_todo[w].sgf # NoFile
        <5>1. game'[w] = Position(m_todo[w])
          BY <1>5, <3>1, <4>2 DEF StartGame
        <5>2. QED
          BY <1>1, <5>1 DEF Claims
      <4>3. QED
        BY <4>1, <4>2
    <3>2. CASE RemovePosition(w) \/ EndGame(w)
      <4>1. game' = game /\ pc[w] \in {"start", "play"}
        BY <3>2 DEF RemovePosition, EndGame, workerVars
      <4>2. QED
        BY <4>1 DEF Claims
    <3>3. CASE EngineFails(w)
      <4>1. game'[w] = IF pc[w] = "play" THEN game[w] ELSE NoGame
        BY <1>5, <3>3 DEF EngineFails
      <4>2. QED
        BY <1>5, <4>1 DEF Claims
    <3>4. CASE SleepOver(w)
      BY <1>5, <3>4 DEF SleepOver
    <3>5. QED
      BY <1>6, <3>1, <3>2, <3>3, <3>4 DEF WorkStep
  <2>4. Claims(w, g)' => Claims(w, g)
    BY <2>2, <2>3 DEF Claims
  <2>5. QED
    BY <1>2, <1>3, <1>4, <2>1, <2>4, AloneFrame
<1>7. CASE BeginSave(w)
  <2>1. /\ storefile' = [storefile EXCEPT ![Name(w)] = StoredOrder(w)]
        /\ UNCHANGED <<game, res, saved>> /\ pc[w] = "leave" /\ pc'[w] = "saving"
    BY <1>5, <1>7, Basics DEF BeginSave, workerVars, Goto
  <2>2. ~Claims(w, g)'
    BY <2>1 DEF Claims
  <2>3. storefile \in [FileNames -> Orders] /\ Name(w) \in FileNames
    BY Names DEF TypeInv, TypeOK
  <2>4. \A f \in FileNames \ {Name(w)} : f \in Stores(g)' => f \in Stores(g)
    BY <2>1, <2>3, StoresKept
  <2>5. Name(w) \in Stores(g)' => Claims(w, g)
    <3>1. PICK n \in FileNames : n = Name(w)
      BY <2>3
    <3>2. PICK o : o = StoredOrder(w) /\ storefile'[n] = o
      BY <2>1, <2>3, <3>1
    <3>3. ASSUME Position(o)' = g
          PROVE  Claims(w, g)
      <4>1. Position(o) = g
        BY <2>1, <3>3 DEF Position
      <4>2. res[w] \in StoreResults /\ saved[Name(w)] = g
        BY <1>5, <3>1, <3>2, <4>1 DEF StoredOrder, Position
      <4>3. game[w] = g
        BY <2>1, <4>2 DEF WorkInvs, WorkInv
      <4>4. QED
        BY <2>1, <4>2, <4>3 DEF Claims
    <3>4. n \in Stores(g)' => Position(o)' = g
      BY <3>2 DEF Stores, Position
    <3>5. QED
      BY <3>1, <3>3, <3>4
  <2>6. CASE ~Claims(w, g)
    <3>1. \A f \in FileNames : f \in Stores(g)' => f \in Stores(g)
      BY <2>4, <2>5, <2>6
    <3>2. QED
      BY <1>2, <1>3, <1>4, <2>2, <3>1, AloneFrame
  <2>7. CASE Claims(w, g)
    <3>1. /\ \A v \in Workers : Claims(v, g) => v = w
          /\ ~InHand(g) /\ Stores(g) = {} /\ ~Kept(g) /\ Uploaded(g) = 0
      BY <2>7 DEF Alone, Claimed
    <3>2. ~Claimed(g)' /\ \A v \in Workers : ~Claims(v, g)'
      BY <1>2, <2>2, <3>1 DEF Claimed
    <3>3. ~InHand(g)' /\ \A d \in Callers : ~HasInHand(d, g)'
      BY <1>3, <3>1 DEF InHand
    <3>4. Stores(g)' \subseteq {Name(w)}
      BY <2>4, <3>1 DEF Stores, Files
    <3>5. QED
      BY <1>4, <3>1, <3>2, <3>3, <3>4 DEF Alone
  <2>8. QED
    BY <2>6, <2>7
<1>8. QED
  BY <1>6, <1>7

LEMMA AloneUpload ==
    ASSUME TypeInv, QuitInv, NamesInv, WorkInvs, Next, NEW g \in GamesStarted, Alone(g),
           NEW w \in Workers, Upload(w)
    PROVE  Alone(g)'
<1>1. /\ UNCHANGED <<m_todo, order, sending, storefile, kindOf, saved>>
      /\ pc[w] = "upload"
      /\ pc'[w] \in {"play", "start", "executed", "saving", "sendall"}
      /\ \A d \in Callers \ {w} : pc'[d] = pc[d]
      /\ \A v \in Workers \ {w} : game'[v] = game[v] /\ res'[v] = res[v]
  BY WorkStepIs DEF Upload, fileVars, BeginSave
<1>2. \A v \in Workers \ {w} : Claims(v, g)' => Claims(v, g)
  BY <1>1, ClaimsKept, Basics
<1>3. \A d \in Callers : HasInHand(d, g)' => HasInHand(d, g)
  BY <1>1, HandKept DEF HandPlaces
<1>4. \A f \in FileNames : f \in Stores(g)' => f \in Stores(g)
  BY <1>1, StoresKept
<1>5. g # NoGame /\ game \in [Workers -> MaybeGame] /\ res \in [Workers -> Results]
      /\ pc \in [Callers -> Somewhere]
  BY AllPlaces DEF TypeInv, TypeOK, GameInv, GamesStarted, NoGame
<1>6. ~Claims(w, g)'
  <2>1. Position(m_todo[w]) = NoGame
    BY <1>1 DEF WorkInvs, WorkInv, Played
  <2>2. Position(m_todo[w])' = NoGame
    BY <1>1, <2>1 DEF Position
  <2>3. res'[w] = "none" /\ pc'[w] = "sendall"
    BY <1>5, Basics DEF Upload, Forget, Goto
  <2>4. QED
    BY <1>5, <2>2, <2>3 DEF Claims, StoreResults
<1>7. CASE g # game[w]
  <2>1. Uploaded(g) \in Nat /\ Uploaded(g)' = Uploaded(g)
    <3>1. CASE Send(game[w])
      BY <1>1, <1>7, <3>1, SentIs
    <3>2. CASE UNCHANGED uploaded
      BY <3>2 DEF Uploaded, TypeInv, GameInv
    <3>3. QED
      BY <3>1, <3>2 DEF Upload
  <2>2. Kept(g)' => Kept(g)
    BY <1>1, <1>7 DEF Upload, Kept
  <2>3. \A v \in Workers : Claims(v, g)' => Claims(v, g)
    BY <1>2, <1>6
  <2>4. QED
    BY <1>3, <1>4, <2>1, <2>2, <2>3, AloneFrame
<1>8. CASE g = game[w]
  <2>1. Claims(w, g)
    BY <1>1, <1>8 DEF Claims
  <2>2. /\ \A v \in Workers : Claims(v, g) => v = w
        /\ ~InHand(g) /\ Stores(g) = {} /\ ~Kept(g) /\ Uploaded(g) = 0
    BY <2>1 DEF Alone, Claimed
  <2>3. ~Claimed(g)' /\ \A v \in Workers : ~Claims(v, g)'
    BY <1>2, <1>6, <2>2 DEF Claimed
  <2>4. ~InHand(g)' /\ \A d \in Callers : ~HasInHand(d, g)'
    BY <1>3, <2>2 DEF InHand
  <2>5. Stores(g)' = {}
    BY <1>4, <2>2 DEF Stores, Files
  <2>6. \/ Uploaded(g)' = 1 /\ ~Kept(g)'
        \/ Uploaded(g)' = 0
    <3>1. CASE Send(game[w]) /\ UNCHANGED curl_save
      BY <1>1, <1>8, <2>2, <3>1, SentIs DEF Kept
    <3>2. CASE UNCHANGED uploaded
      BY <2>2, <3>2 DEF Uploaded
    <3>3. QED
      BY <3>1, <3>2 DEF Upload
  <2>7. QED
    BY <2>3, <2>4, <2>5, <2>6 DEF Alone
<1>9. QED
  BY <1>7, <1>8

LEMMA BegunNext ==
    ASSUME TypeInv, Next
    PROVE  \/ GamesStarted' = GamesStarted
           \/ \E w \in Workers : /\ WorkStep(w) /\ StartGame(w) /\ m_todo[w].sgf = NoFile
                                 /\ GamesStarted' = GamesStarted \cup {Len(kindOf) + 1}
<1>1. \/ kindOf' = kindOf
      \/ \E w \in Workers : /\ WorkStep(w) /\ StartGame(w) /\ m_todo[w].sgf = NoFile
                            /\ kindOf' = Append(kindOf, job[w].kind)
  <2>1. ASSUME NEW c \in Callers, Plain(c)
        PROVE  kindOf' = kindOf
    BY <2>1, PlainIs DEF heldVars
  <2>2. ASSUME NEW c \in Callers, \/ SendKept(c) \/ RemoveKept(c) \/ LoadStored(c)
                                  \/ RemoveStored(c) \/ GiveStored(c) \/ GetWork(c)
        PROVE  kindOf' = kindOf
    BY <2>2 DEF SendKept, RemoveKept, LoadStored, RemoveStored, GiveStored, GetWork, Searches, fileVars
  <2>3. ASSUME NEW w \in Workers, WorkStep(w) \/ Upload(w)
        PROVE  \/ kindOf' = kindOf
               \/ /\ WorkStep(w) /\ StartGame(w) /\ m_todo[w].sgf = NoFile
                  /\ kindOf' = Append(kindOf, job[w].kind)
    <3>1. CASE Upload(w)
      BY <3>1 DEF Upload, fileVars
    <3>2. CASE WorkStep(w) /\ StartGame(w)
      BY <3>2 DEF StartGame
    <3>3. CASE WorkStep(w) /\ ~StartGame(w)
      BY <3>3 DEF WorkStep, RemovePosition, EndGame, EngineFails, SleepOver, BeginSave, fileVars
    <3>4. QED
      BY <2>3, <3>1, <3>2, <3>3
  <2>4. End \/ Start => kindOf' = kindOf
    BY DEF End, Start, fileVars
  <2>5. QED
    BY <2>1, <2>2, <2>3, <2>4, StepCases
<1>2. CASE kindOf' = kindOf
  BY <1>2 DEF GamesStarted
<1>3. ASSUME NEW w \in Workers, StartGame(w), kindOf' = Append(kindOf, job[w].kind)
      PROVE  GamesStarted' = GamesStarted \cup {Len(kindOf) + 1}
  <2>1. job[w].kind \in Kinds /\ kindOf \in Seq(Kinds)
    BY <1>3 DEF StartGame, Kinds, TypeInv, GameInv
  <2>2. Len(kindOf') = Len(kindOf) + 1 /\ Len(kindOf) \in Nat
    BY <1>3, <2>1
  <2>3. QED
    BY <2>2 DEF GamesStarted
<1>4. QED
  BY <1>1, <1>2, <1>3

\* A game that begins.
LEMMA AloneNew ==
    ASSUME TypeInv, Next, NEW g \in GamesStarted' \ GamesStarted
    PROVE  /\ Alone(g)'
           /\ \E w \in Workers : pc'[w] = "play" /\ game'[w] = g
<1>1. PICK w \in Workers : /\ WorkStep(w) /\ StartGame(w) /\ m_todo[w].sgf = NoFile
                           /\ GamesStarted' = GamesStarted \cup {Len(kindOf) + 1}
  BY BegunNext
<1>2. g = Len(kindOf) + 1 /\ g # NoGame /\ g \notin MaybeGame
  BY <1>1 DEF GamesStarted, MaybeGame, NoGame, TypeInv, GameInv
<1>3. /\ UNCHANGED <<m_todo, order, res, saved, storefile, curl_save, uploaded, sending>>
      /\ \A v \in Workers \ {w} : game'[v] = game[v]
  BY <1>1, WorkStepIs DEF StartGame, WorkStep, serverVars
<1>4. pc'[w] = "play" /\ game'[w] = g /\ pc[w] = "execute"
  BY <1>1, <1>2, AllPlaces, Basics DEF StartGame, Goto, TypeInv, GameInv
<1>5. \A o \in Orders : Position(o)' \in MaybeGame
  BY <1>3, PositionType DEF Position
<1>6. /\ \A v \in Workers : m_todo[v] \in Orders
      /\ \A c \in Callers : order[c] \in Orders
      /\ \A f \in FileNames : storefile[f] \in Orders
      /\ game \in [Workers -> MaybeGame] /\ curl_save \subseteq MaybeGame
      /\ DOMAIN uploaded \subseteq MaybeGame
  BY DEF TypeInv, TypeOK, GameInv, MaybeGame
<1>7. /\ \A v \in Workers : Position(m_todo[v])' # g
      /\ \A c \in Callers : Position(order[c])' # g
      /\ \A f \in FileNames : Position(storefile[f])' # g
  BY <1>2, <1>3, <1>5, <1>6 DEF Position
<1>8. \A v \in Workers : Claims(v, g)' => v = w
  BY <1>2, <1>3, <1>6, <1>7 DEF Claims
<1>9. ~InHand(g)' /\ \A c \in Callers : ~HasInHand(c, g)'
  BY <1>7 DEF InHand, HasInHand
<1>10. Stores(g)' = {}
  BY <1>7 DEF Stores, Files
<1>11. ~Kept(g)' /\ Uploaded(g)' = 0
  BY <1>2, <1>3, <1>6 DEF Kept, Uploaded
<1>12. Alone(g)'
  BY <1>8, <1>9, <1>10, <1>11 DEF Alone
<1>13. QED
  BY <1>4, <1>12

LEMMA AloneNext ==
    ASSUME TypeInv, QuitInv, NamesInv, WorkInvs, LoadInv, SendInv, AloneInv, Next
    PROVE  AloneInv'
<1>1. ASSUME NEW g \in GamesStarted, g \notin twice, g \notin twice', Alone(g)
      PROVE  Alone(g)'
  <2>1. CASE End
    <3>1. /\ UNCHANGED <<storefile, curl_save, uploaded, saved>> /\ sending' = NoGame
          /\ g # sending
          /\ \A c \in Callers : pc'[c] \in {"new", "down"}
          /\ \A w \in Workers : pc'[w] = "new"
      BY <1>1, <2>1, Basics DEF End, Fresh, GamesStarted, NoGame
    <3>2. /\ \A w \in Workers : ~Claims(w, g)'
          /\ \A c \in Callers : ~HasInHand(c, g)'
      BY <3>1 DEF Claims, HasInHand
    <3>3. \A f \in FileNames : f \in Stores(g)' => f \in Stores(g)
      BY <3>1, StoresKept
    <3>4. (Kept(g)' => Kept(g)) /\ Uploaded(g)' = Uploaded(g)
      BY <3>1 DEF Kept, Uploaded
    <3>5. QED
      BY <1>1, <3>2, <3>3, <3>4, AloneFrame
  <2>2. CASE Start
    <3>1. UNCHANGED <<storefile, curl_save, uploaded, saved, sending>>
      BY <2>2 DEF Start, fileVars, serverVars
    <3>2. pc' = [pc EXCEPT ![Main] = "sendall"] /\ \A w \in Workers : pc[w] = "new"
      BY <2>2, NoneStarted DEF Start, Goto
    <3>3. pc'[Main] = "sendall" /\ \A w \in Workers : pc'[w] = "new"
      BY <3>2, Basics DEF TypeInv, TypeOK
    <3>4. /\ \A w \in Workers : ~Claims(w, g)'
          /\ \A c \in Callers : ~HasInHand(c, g)'
      BY <3>3, Basics DEF Claims, HasInHand
    <3>5. \A f \in FileNames : f \in Stores(g)' => f \in Stores(g)
      BY <3>1, StoresKept
    <3>6. (Kept(g)' => Kept(g)) /\ Uploaded(g)' = Uploaded(g)
      BY <3>1 DEF Kept, Uploaded
    <3>7. QED
      BY <1>1, <3>4, <3>5, <3>6, AloneFrame
  <2>3. ASSUME NEW c \in Callers
        PROVE  /\ Plain(c) => Alone(g)'
               /\ SendKept(c) \/ RemoveKept(c) => Alone(g)'
               /\ LoadStored(c) => Alone(g)'
               /\ RemoveStored(c) => Alone(g)'
               /\ GiveStored(c) \/ GetWork(c) => Alone(g)'
    BY <1>1, AlonePlain, AloneSend, AloneLoad, AloneRemove, AloneDeliver
  <2>4. ASSUME NEW w \in Workers
        PROVE  /\ WorkStep(w) => Alone(g)'
               /\ Upload(w) => Alone(g)'
    BY <1>1, AloneWork, AloneUpload
  <2>5. QED
    BY <2>1, <2>2, <2>3, <2>4, StepCases
<1>2. twice \subseteq twice'
  <2>1. End => twice \subseteq twice'
    BY DEF End
  <2>2. Start => twice' = twice
    BY DEF Start, historyVars
  <2>3. QED
    BY <2>1, <2>2, StepOnward DEF Onward
<1>3. ASSUME NEW g \in GamesStarted' \ twice'
      PROVE  Alone(g)'
  <2>1. CASE g \in GamesStarted
    BY <1>1, <1>2, <2>1 DEF AloneInv
  <2>2. CASE g \notin GamesStarted
    BY <2>2, AloneNew
  <2>3. QED
    BY <2>1, <2>2
<1>4. QED
  BY <1>3 DEF AloneInv

LEMMA AloneInit == ASSUME Init PROVE AloneInv
<1>1. PICK stored \in Nat : \E kept \in Nat :
          /\ curl_save = (stored + 1) .. (stored + kept)
          /\ uploaded = [g \in GamesStarted |-> 0]
          /\ saved \in [FileNames -> 0 .. stored]
          /\ \A f \in FileNames :
                /\ saved[f] # NoGame => f[1] = 0 /\ f[2] = saved[f]
                /\ \/ saved[f] = NoGame /\ storefile[f] = NoOrder
                   \/ saved[f] # NoGame /\ storefile[f].sgf = f
  BY FilesAtInit
<1>2. /\ \A w \in Workers : pc[w] = "new"
      /\ \A c \in Callers : pc[c] \in {"new", "down"}
  BY Basics DEF Init, Fresh
<1>3. ASSUME NEW g \in GamesStarted
      PROVE  Alone(g)
  <2>1. /\ ~Claimed(g) /\ ~InHand(g) /\ Uploaded(g) = 0
        /\ \A w \in Workers : ~Claims(w, g)
        /\ \A c \in Callers : ~HasInHand(c, g)
    BY <1>1, <1>2 DEF Claimed, Claims, InHand, HasInHand, Uploaded
  <2>2. \A f \in Stores(g) : f \in FileNames /\ saved[f] = g /\ f[1] = 0 /\ f[2] = g
    BY <1>1, Basics DEF Stores, Files, Position, GamesStarted, NoGame
  <2>3. \A e, f \in Stores(g) : e = f
    BY <2>2 DEF FileNames
  <2>4. Stores(g) # {} => ~Kept(g)
    BY <1>1, <2>2 DEF Kept
  <2>5. QED
    BY <2>1, <2>3, <2>4 DEF Alone
<1>4. QED
  BY <1>3 DEF AloneInv

-----------------------------------------------------------------------------
(* Some place for every game, until the program stores.                    *)

\* What a plain step of a worker does to it, or to the counts that stop it.
LEMMA PlainState ==
    ASSUME TypeInv, NEW c \in Callers, Plain(c), ~Storing, ~Storing'
    PROVE  /\ \/ UNCHANGED <<m_state, job>>
              \/ /\ c # Main /\ pc[c] = "decide" /\ pc'[c] = "loop"
                 /\ m_state' = [m_state EXCEPT ![c] = "FINISHING"]
                 /\ job' = [job EXCEPT ![c].state = "FINISHING"]
           /\ c # Main /\ pc[c] = "executed" =>
                 m_state[c] = "STORING" \/ (res[c] # "Error" /\ pc'[c] = "result")
           /\ c # Main /\ pc[c] = "result" =>
                 pc'[c] = IF res[c] \in {"File", "Win"} THEN "upload" ELSE "sendall"
           /\ c # Main /\ pc[c] = "loop" =>
                 pc'[c] = IF m_state[c] = "RUNNING" THEN "execute" ELSE "leave"
<1>1. pc \in [Callers -> Somewhere] /\ Main \in Callers
  BY AllPlaces, Basics DEF TypeInv
<1>2. ~StoreJob /\ ~StoreState
  BY DEF StoreJob, StoreState, Storing
<1>3. CASE Tune \/ Connect \/ Quit
  BY <1>1, <1>3, PlainIs DEF Tune, Connect, Quit, workerVars, Plain, CheckStoring, LoopTest, EndSave, Leave,
     TakeResult, Decide, AllSent, List, TakeStored, TakeLast, NewLock, TryLock, Exists, DeleteLock,
     Dropped, Unlock, Searches, Goto
<1>4. CASE c # Main /\ (CheckStoring(c) \/ LoopTest(c) \/ EndSave(c) \/ Leave(c))
  BY <1>1, <1>4 DEF CheckStoring, LoopTest, EndSave, Leave, workerVars, Goto
<1>5. CASE c # Main /\ TakeResult(c)
  BY <1>1, <1>5 DEF TakeResult, workerVars, Goto
<1>6. CASE c # Main /\ Decide(c)
  <2>1. CASE NoGamesLeft
    BY <1>1, <1>6, <2>1 DEF Decide, EndWorker, DoFinish, Goto
  <2>2. CASE ~NoGamesLeft
    BY <1>6, <2>2 DEF Decide
  <2>3. QED
    BY <2>1, <2>2
<1>7. CASE \/ AllSent(c) \/ List(c) \/ TakeStored(c) \/ TakeLast(c) \/ NewLock(c) \/ TryLock(c)
           \/ Exists(c) \/ DeleteLock(c) \/ Dropped(c) \/ Unlock(c)
  BY <1>7 DEF AllSent, List, TakeStored, TakeLast, NewLock, TryLock, Exists, DeleteLock, Dropped,
     Unlock, Searches, workerVars
<1>8. QED
  BY <1>2, <1>3, <1>4, <1>5, <1>6, <1>7 DEF Plain

Unready == {"loop", "leave", "exited"}

LEMMA IdleFrame ==
    ASSUME NEW v \in Workers, IdleInv(v),
           m_state'[v] = m_state[v], res'[v] = res[v], game'[v] = game[v],
           job'[v].state \in {job[v].state, "RUNNING", "FINISHING"},
           \/ pc'[v] = pc[v]
           \/ /\ pc'[v] \notin {"executed", "result"}
              /\ m_state[v] = "RUNNING" \/ pc'[v] \in Unready
    PROVE  IdleInv(v)'
  BY DEF IdleInv, Unready

\* Nobody is at the result of a store before the program stores.
LEMMA IdleStep ==
    ASSUME TypeInv, QuitInv, NamesInv, WorkInvs, Next, ~End, ~Storing, ~Storing',
           \A v \in Workers : IdleInv(v)
    PROVE  \A v \in Workers : IdleInv(v)'
<1>1. pc \in [Callers -> Somewhere] /\ job \in [Workers -> Jobs] /\ Main \in Callers
  BY AllPlaces, Basics DEF TypeInv, TypeOK, Jobs, JobStates
<1>2. CASE Start
  <2>1. UNCHANGED <<m_state, job, res, game>> /\ \A v \in Workers : pc'[v] = pc[v]
    BY <1>1, <1>2, Basics DEF Start, Goto, workerVars
  <2>2. QED
    BY <2>1, IdleFrame
<1>3. ASSUME NEW c \in Callers, Plain(c)
      PROVE  \A v \in Workers : IdleInv(v)'
  <2>1. /\ UNCHANGED <<res, game>> /\ Moves(pc[c], pc'[c])
        /\ \A d \in Callers \ {c} : pc'[d] = pc[d]
    BY <1>3, PlainIs DEF heldVars
  <2>2. \A v \in Workers \ {c} : m_state'[v] = m_state[v] /\ job'[v] = job[v]
    BY <1>1, <1>3, PlainState DEF TypeInv, TypeOK
  <2>3. \A v \in Workers \ {c} : IdleInv(v)'
    BY <2>1, <2>2, IdleFrame, Basics
  <2>4. ASSUME c \in Workers
        PROVE  IdleInv(c)'
    <3>1. CASE pc[c] = "executed"
      <4>1. UNCHANGED <<m_state, job>> /\ res[c] # "Error" /\ pc'[c] = "result"
        BY <1>3, <2>4, <3>1, PlainState, Basics DEF IdleInv
      <4>2. res[c] \in {"File", "Win", "Waited"}
        BY <2>4, <3>1, <4>1 DEF IdleInv, TypeInv, TypeOK, Results, StoreResults
      <4>3. QED
        BY <2>1, <2>4, <3>1, <4>1, <4>2 DEF IdleInv
    <3>2. CASE pc[c] = "decide" /\ pc'[c] = "loop"
      <4>1. m_state'[c] \in {m_state[c], "FINISHING"} /\ job'[c].state \in {job[c].state, "FINISHING"}
        BY <1>1, <1>3, <2>4, PlainState, Basics DEF TypeInv, TypeOK, Jobs
      <4>2. QED
        BY <2>1, <2>4, <3>2, <4>1 DEF IdleInv
    <3>3. CASE pc[c] # "executed" /\ ~(pc[c] = "decide" /\ pc'[c] = "loop")
      <4>1. UNCHANGED <<m_state, job>>
        BY <1>3, <3>3, PlainState
      <4>2. pc'[c] \notin {"executed", "result"}
        BY <2>1, <3>3 DEF Moves
      <4>3. m_state[c] = "RUNNING" \/ pc'[c] \in Unready
        <5>1. CASE pc[c] \notin Unready
          BY <2>4, <5>1 DEF IdleInv, Unready
        <5>2. CASE pc[c] = "loop"
          BY <1>3, <2>4, <5>2, PlainState, Basics DEF Unready
        <5>3. CASE pc[c] \in {"leave", "exited"}
          BY <2>1, <5>3 DEF Moves, Unready
        <5>4. QED
          BY <5>1, <5>2, <5>3 DEF Unready
      <4>4. QED
        BY <2>1, <2>4, <4>1, <4>2, <4>3, IdleFrame
    <3>4. QED
      BY <3>1, <3>2, <3>3
  <2>5. QED
    BY <2>3, <2>4
<1>4. ASSUME NEW c \in Callers,
             SendKept(c) \/ RemoveKept(c) \/ LoadStored(c) \/ RemoveStored(c)
      PROVE  \A v \in Workers : IdleInv(v)'
  <2>1. UNCHANGED <<m_state, job, res, game>>
    BY <1>4 DEF SendKept, RemoveKept, LoadStored, RemoveStored, Searches, workerVars
  <2>2. PICK l \in {"sent", "sendall", "remove", "unlock"} :
            /\ pc' = [pc EXCEPT ![c] = l]
            /\ pc[c] \in {"sent", "sendall", "load", "remove"}
    BY <1>4 DEF SendKept, RemoveKept, LoadStored, RemoveStored, Goto
  <2>3. ASSUME NEW v \in Workers
        PROVE  IdleInv(v)'
    <3>1. pc'[v] = pc[v] \/ (pc'[v] \notin {"executed", "result"} /\ m_state[v] = "RUNNING")
      BY <1>1, <2>2 DEF IdleInv
    <3>2. QED
      BY <2>1, <3>1, IdleFrame
  <2>4. QED
    BY <2>3
<1>5. ASSUME NEW c \in Callers, GiveStored(c) \/ GetWork(c)
      PROVE  \A v \in Workers : IdleInv(v)'
  <2>1. PICK o \in Orders : Deliver(c, o)
    BY <1>5, ServerOrderIs DEF GiveStored, GetWork, TypeInv, TypeOK
  <2>2. UNCHANGED <<game, res, m_state>> /\ pc[c] \in {"take", "deliver"}
    BY <1>5 DEF GiveStored, GetWork, FindsNone
  <2>3. PICK r \in Workers : r = Receiver(c)
    BY <2>1, DeliverIs
  <2>4. /\ \A v \in Workers \ {r} : pc'[v] = pc[v] /\ job'[v] = job[v]
        /\ job'[r].state \in {job[r].state, "RUNNING", "FINISHING"}
        /\ pc[r] \in {"new", "take", "deliver"} /\ pc'[r] \in {"execute", "loop"}
    BY <2>1, <2>2, <2>3, DeliverIs, OrderIs, ReceiverIs, Basics
  <2>5. ASSUME NEW v \in Workers
        PROVE  IdleInv(v)'
    <3>1. pc'[v] = pc[v] \/ (pc'[v] \notin {"executed", "result"} /\ m_state[v] = "RUNNING")
      BY <2>4 DEF IdleInv
    <3>2. job'[v].state \in {job[v].state, "RUNNING", "FINISHING"}
      BY <2>4
    <3>3. QED
      BY <2>2, <3>1, <3>2, IdleFrame
  <2>6. QED
    BY <2>5
<1>6. ASSUME NEW w \in Workers, WorkStep(w) \/ Upload(w)
      PROVE  \A v \in Workers : IdleInv(v)'
  <2>1. /\ UNCHANGED <<m_state, job>>
        /\ \A v \in Workers \ {w} : pc'[v] = pc[v] /\ game'[v] = game[v] /\ res'[v] = res[v]
    BY <1>6, WorkStepIs, Basics DEF WorkStep, StartGame, RemovePosition, EndGame, EngineFails,
       SleepOver, BeginSave, Upload, workerVars
  <2>2. \A v \in Workers \ {w} : IdleInv(v)'
    BY <2>1, IdleFrame
  <2>3. game \in [Workers -> MaybeGame] /\ res \in [Workers -> Results]
    BY DEF TypeInv, TypeOK, GameInv
  <2>4. ~BeginSave(w) /\ m_state[w] = "RUNNING"
    BY <1>6, WorkStepIs DEF IdleInv, BeginSave, WorkStep, StartGame, RemovePosition, EndGame, EngineFails,
       SleepOver, Upload
  <2>5. CASE StartGame(w) \/ RemovePosition(w)
    <3>1. UNCHANGED res /\ pc'[w] \in {"start", "play"}
      BY <1>1, <2>5, Basics DEF StartGame, RemovePosition, workerVars, Goto
    <3>2. QED
      BY <2>1, <2>2, <2>4, <3>1 DEF IdleInv
  <2>6. CASE EndGame(w)
    <3>1. res'[w] = Conclusion(job[w].kind, job[w].state) /\ pc'[w] = "executed"
      BY <1>1, <2>3, <2>6, Basics DEF EndGame, Goto
    <3>2. job[w].state \in {"RUNNING", "FINISHING"}
      BY <1>1 DEF IdleInv, Jobs, JobStates
    <3>3. res'[w] \in {"File", "Win", "Error"}
      BY <3>1, <3>2 DEF Conclusion
    <3>4. QED
      BY <2>1, <2>2, <2>4, <3>1, <3>3 DEF IdleInv, StoreResults
  <2>7. CASE EngineFails(w)
    <3>1. res'[w] = "Error" /\ pc'[w] = "executed"
      BY <1>1, <2>3, <2>7, Basics DEF EngineFails, Goto
    <3>2. QED
      BY <2>1, <2>2, <2>4, <3>1 DEF IdleInv, StoreResults
  <2>8. CASE SleepOver(w)
    <3>1. res'[w] = "Waited" /\ game'[w] = NoGame /\ pc'[w] = "executed"
      BY <1>1, <2>3, <2>8, Basics DEF SleepOver, Goto
    <3>2. QED
      BY <2>1, <2>2, <2>4, <3>1 DEF IdleInv, StoreResults
  <2>9. CASE Upload(w)
    <3>1. res'[w] = "none" /\ pc'[w] = "sendall"
      BY <1>1, <2>3, <2>9, Basics DEF Upload, Forget, Goto
    <3>2. QED
      BY <2>1, <2>2, <2>4, <3>1 DEF IdleInv, StoreResults
  <2>10. QED
    BY <1>6, <2>4, <2>5, <2>6, <2>7, <2>8, <2>9 DEF WorkStep
<1>7. QED
  BY <1>2, <1>3, <1>4, <1>5, <1>6, StepCases

\* Whoever does not move keeps what it has.
LEMMA HoldsStays ==
    ASSUME TypeInv, NEW g, NEW v \in Workers, Holds(v, g),
           \A o \in Orders : Position(o) = g => Position(o)' = g,
           pc'[v] = pc[v], m_state'[v] = m_state[v], m_todo'[v] = m_todo[v],
           game'[v] = game[v], res'[v] = res[v]
    PROVE  Somebody(g)'
<1>1. m_todo[v] \in Orders
  BY DEF TypeInv, TypeOK
<1>2. Position(m_todo[v]) = g => Position(m_todo[v])' = g
  <2>1. PICK o \in Orders : o = m_todo[v] /\ o = m_todo'[v]
    BY <1>1
  <2>2. Position(o) = g => Position(o)' = g
    OBVIOUS
  <2>3. QED
    BY <2>1, <2>2 DEF Position
<1>3. Holds(v, g)'
  BY <1>2 DEF Holds
<1>4. QED
  BY <1>3 DEF Somebody

LEMMA HandStays ==
    ASSUME TypeInv, NEW g, NEW c \in Callers, HasInHand(c, g),
           \A o \in Orders : Position(o) = g => Position(o)' = g,
           pc'[c] \in HandPlaces, order'[c] = order[c]
    PROVE  Somebody(g)'
<1>1. PICK o \in Orders : o = order[c] /\ o = order'[c]
  BY DEF TypeInv, TypeOK
<1>2. Position(order[c])' = g
  BY <1>1 DEF Position, HasInHand
<1>3. HasInHand(c, g)'
  BY <1>2 DEF HasInHand, HandPlaces
<1>4. QED
  BY <1>3 DEF Somebody

LEMMA StoreStays ==
    ASSUME TypeInv, NEW g, NEW f \in Stores(g),
           \A o \in Orders : Position(o) = g => Position(o)' = g,
           storefile'[f] = storefile[f]
    PROVE  Somebody(g)'
<1>1. PICK o \in Orders : o = storefile[f] /\ o = storefile'[f] /\ o # NoOrder /\ Position(o) = g
  BY DEF TypeInv, TypeOK, Stores, Files
<1>2. Position(storefile[f])' = g
  BY <1>1 DEF Position
<1>3. f \in Stores(g)'
  BY <1>1, <1>2 DEF Stores, Files
<1>4. QED
  BY <1>3 DEF Somebody

LEMMA KeptStays ==
    ASSUME NEW g, Kept(g), g \in curl_save', g # sending'
    PROVE  Somebody(g)'
  BY DEF Kept, Somebody

LEMMA SomebodyFrom ==
    ASSUME TypeInv, Next, NEW g \in GamesStarted, Somebody(g),
           \A w \in Workers : Holds(w, g) => Somebody(g)',
           \A c \in Callers : HasInHand(c, g) => Somebody(g)',
           \A f \in Stores(g) : Somebody(g)',
           Kept(g) => Somebody(g)'
    PROVE  Somebody(g)'
<1>1. Uploaded(g) >= 1 => Somebody(g)'
  BY UploadedNext DEF Somebody
<1>2. QED
  BY <1>1 DEF Somebody

LEMMA PlainSome ==
    ASSUME TypeInv, QuitInv, WorkInvs, Next, ~Storing, ~Storing',
           \A w \in Workers : IdleInv(w),
           NEW g \in GamesStarted, Somebody(g), NEW c \in Callers, Plain(c)
    PROVE  Somebody(g)'
<1>1. /\ UNCHANGED <<m_todo, order, game, res, saved, storefile, curl_save, sending>>
      /\ Moves(pc[c], pc'[c]) /\ \A d \in Callers \ {c} : pc'[d] = pc[d]
  BY PlainIs DEF heldVars
<1>2. \A o \in Orders : Position(o)' = Position(o)
  BY <1>1 DEF Position
<1>3. \A v \in Workers \ {c} : m_state'[v] = m_state[v]
  BY PlainState DEF TypeInv, TypeOK
<1>4. ASSUME NEW v \in Workers \ {c}, Holds(v, g)
      PROVE  Somebody(g)'
  BY <1>1, <1>2, <1>3, <1>4, HoldsStays, Basics
<1>5. ASSUME c \in Workers, Holds(c, g)
      PROVE  Somebody(g)'
  <2>1. g # NoGame /\ IdleInv(c) /\ WorkInv(c) /\ c # Main
    BY <1>5, Basics DEF GamesStarted, NoGame, WorkInvs
  <2>2. pc[c] \in {"executed", "result", "upload", "loop", "start", "play", "execute"}
    BY <1>5, <2>1 DEF Holds, IdleInv
  <2>3. pc[c] \in {"executed", "result", "loop"}
    BY <1>1, <2>2 DEF Moves
  <2>4. UNCHANGED m_state
    BY <2>1, <2>3, PlainState
  <2>5. CASE pc[c] = "executed"
    <3>1. res[c] # "Error" /\ pc'[c] = "result"
      BY <2>1, <2>5, PlainState DEF IdleInv
    <3>2. Position(m_todo[c]) = NoGame
      BY <2>1, <2>5, <3>1 DEF WorkInv, Played
    <3>3. game[c] = g
      BY <1>5, <2>1, <2>5, <3>2 DEF Holds
    <3>4. Holds(c, g)'
      BY <1>1, <3>1, <3>3 DEF Holds
    <3>5. QED
      BY <1>5, <3>4 DEF Somebody
  <2>6. CASE pc[c] = "result"
    <3>1. game[c] = g
      BY <1>5, <2>6 DEF Holds
    <3>2. res[c] \in {"File", "Win"}
      BY <2>1, <2>6, <3>1 DEF IdleInv
    <3>3. pc'[c] = "upload"
      BY <2>1, <2>6, <3>2, PlainState
    <3>4. Holds(c, g)'
      BY <1>1, <3>1, <3>3 DEF Holds
    <3>5. QED
      BY <1>5, <3>4 DEF Somebody
  <2>7. CASE pc[c] = "loop"
    <3>1. m_state[c] = "RUNNING" /\ Position(m_todo[c]) = g
      BY <1>5, <2>1, <2>7 DEF Holds, IdleInv
    <3>2. pc'[c] = "execute" /\ m_todo' = m_todo
      BY <1>1, <2>1, <2>7, <3>1, PlainState
    <3>3. Position(m_todo[c])' = g
      BY <1>1, <3>1 DEF Position
    <3>4. Holds(c, g)'
      BY <2>4, <3>1, <3>2, <3>3 DEF Holds
    <3>5. QED
      BY <1>5, <3>4 DEF Somebody
  <2>8. QED
    BY <2>3, <2>5, <2>6, <2>7
<1>6. ASSUME NEW d \in Callers, HasInHand(d, g)
      PROVE  Somebody(g)'
  <2>1. pc'[d] \in HandPlaces
    BY <1>1, <1>6 DEF Moves, HasInHand, HandPlaces
  <2>2. QED
    BY <1>1, <1>2, <1>6, <2>1, HandStays
<1>7. \A f \in Stores(g) : Somebody(g)'
  BY <1>1, <1>2, StoreStays
<1>8. Kept(g) => Somebody(g)'
  BY <1>1, KeptStays DEF Kept
<1>9. QED
  BY <1>4, <1>5, <1>6, <1>7, <1>8, SomebodyFrom

LEMMA SendSome ==
    ASSUME TypeInv, QuitInv, SendInv, Next, NEW g \in GamesStarted, Somebody(g),
           NEW c \in Callers, SendKept(c) \/ RemoveKept(c)
    PROVE  Somebody(g)'
<1>1. UNCHANGED <<m_state, m_todo, order, game, res, saved, storefile, kindOf>>
  BY DEF SendKept, RemoveKept, workerVars, managementVars, storedVars, fileVars
<1>2. PICK l \in {"sent", "sendall"} : pc' = [pc EXCEPT ![c] = l] /\ pc[c] \in {"sent", "sendall"}
  BY DEF SendKept, RemoveKept, Goto
<1>3. \A o \in Orders : Position(o)' = Position(o)
  BY <1>1 DEF Position
<1>4. pc'[c] = l /\ \A d \in Callers \ {c} : pc'[d] = pc[d]
  BY <1>2 DEF TypeInv, TypeOK
<1>5. ASSUME NEW v \in Workers, Holds(v, g)
      PROVE  Somebody(g)'
  <2>1. v # c
    BY <1>2, <1>5 DEF Holds
  <2>2. QED
    BY <1>1, <1>3, <1>4, <1>5, <2>1, HoldsStays, Basics
<1>6. ASSUME NEW d \in Callers, HasInHand(d, g)
      PROVE  Somebody(g)'
  <2>1. d # c /\ pc'[d] \in HandPlaces
    BY <1>2, <1>4, <1>6 DEF HasInHand, HandPlaces
  <2>2. QED
    BY <1>1, <1>3, <1>6, <2>1, HandStays
<1>7. \A f \in Stores(g) : Somebody(g)'
  BY <1>1, <1>3, StoreStays
<1>8. ASSUME Kept(g)
      PROVE  Somebody(g)'
  <2>1. CASE RemoveKept(c)
    BY <1>8, <2>1, KeptStays DEF RemoveKept, Kept, GamesStarted, NoGame
  <2>2. CASE SendKept(c)
    <3>1. PICK h \in curl_save : Send(h) /\ sending' = h
      BY <2>2 DEF SendKept
    <3>2. CASE g = h
      <4>1. Uploaded(g)' >= 1
        BY <1>1, <3>1, <3>2, SentIs
      <4>2. QED
        BY <4>1 DEF Somebody
    <3>3. CASE g # h
      BY <1>8, <2>2, <3>1, <3>3, KeptStays DEF SendKept, Kept
    <3>4. QED
      BY <3>2, <3>3
  <2>3. QED
    BY <2>1, <2>2
<1>9. QED
  BY <1>5, <1>6, <1>7, <1>8, SomebodyFrom

LEMMA LoadSome ==
    ASSUME TypeInv, QuitInv, LoadInv, Next, NEW g \in GamesStarted, Somebody(g),
           NEW c \in Callers, LoadStored(c) \/ RemoveStored(c)
    PROVE  Somebody(g)'
<1>1. /\ UNCHANGED <<m_state, m_todo, game, res, saved, found, curl_save, sending>>
      /\ \A d \in Callers \ {c} : order'[d] = order[d]
  BY DEF LoadStored, RemoveStored, Searches, workerVars, serverVars, storedVars, TypeInv, TypeOK
<1>2. PICK l \in {"remove", "unlock"} : /\ pc' = [pc EXCEPT ![c] = l] /\ pc[c] \in {"load", "remove"}
                                        /\ RemoveStored(c) => pc[c] = "remove" /\ l = "unlock"
  BY DEF LoadStored, RemoveStored, Goto
<1>3. \A o \in Orders : Position(o)' = Position(o)
  BY <1>1 DEF Position
<1>4. pc'[c] = l /\ \A d \in Callers \ {c} : pc'[d] = pc[d]
  BY <1>2 DEF TypeInv, TypeOK
<1>5. ASSUME NEW v \in Workers, Holds(v, g)
      PROVE  Somebody(g)'
  <2>1. v # c
    BY <1>2, <1>5 DEF Holds
  <2>2. QED
    BY <1>1, <1>3, <1>4, <1>5, <2>1, HoldsStays, Basics
<1>6. ASSUME NEW d \in Callers, HasInHand(d, g)
      PROVE  Somebody(g)'
  <2>1. d # c /\ pc'[d] \in HandPlaces
    BY <1>2, <1>4, <1>6 DEF HasInHand, HandPlaces
  <2>2. QED
    BY <1>1, <1>3, <1>6, <2>1, HandStays
<1>7. ASSUME NEW f \in Stores(g)
      PROVE  Somebody(g)'
  <2>1. f \in FileNames /\ storefile[f] # NoOrder /\ Position(storefile[f]) = g
    BY DEF Stores, Files
  <2>2. CASE storefile'[f] = storefile[f]
    BY <1>3, <2>2, StoreStays
  <2>3. CASE storefile'[f] # storefile[f]
    <3>1. RemoveStored(c) /\ f = found[c]
      BY <2>1, <2>3 DEF LoadStored, RemoveStored, Searches, TypeInv, TypeOK
    <3>2. order[c] = storefile[f] /\ order' = order
      BY <1>2, <2>1, <3>1 DEF LoadInv, RemoveStored, storedVars
    <3>3. PICK o \in Orders : o = order'[c] /\ Position(o) = g
      BY <2>1, <3>2 DEF TypeInv, TypeOK
    <3>4. Position(order[c])' = g
      BY <1>3, <3>3 DEF Position
    <3>5. HasInHand(c, g)'
      BY <1>2, <1>4, <3>1, <3>4 DEF HasInHand
    <3>6. QED
      BY <3>5 DEF Somebody
  <2>4. QED
    BY <2>2, <2>3
<1>8. Kept(g) => Somebody(g)'
  BY <1>1, KeptStays DEF Kept
<1>9. QED
  BY <1>5, <1>6, <1>7, <1>8, SomebodyFrom

LEMMA DeliverSome ==
    ASSUME TypeInv, QuitInv, NamesInv, Next, \A w \in Workers : IdleInv(w),
           NEW g \in GamesStarted, Somebody(g), NEW c \in Callers, GiveStored(c) \/ GetWork(c)
    PROVE  Somebody(g)'
<1>1. PICK o \in Orders : Deliver(c, o) /\ (GiveStored(c) => o = order[c])
  <2>1. CASE GiveStored(c)
    BY <2>1 DEF GiveStored, TypeInv, TypeOK
  <2>2. CASE GetWork(c) /\ ~GiveStored(c)
    BY <2>2, ServerOrderIs DEF GetWork
  <2>3. QED
    BY <2>1, <2>2
<1>2. /\ UNCHANGED <<game, res, m_state, storefile, saved, curl_save, sending>>
      /\ pc[c] \in {"take", "deliver"} /\ (~GiveStored(c) => pc[c] = "take")
  BY DEF GiveStored, GetWork, FindsNone, fileVars, serverVars
<1>3. PICK r \in Workers : r = Receiver(c)
  BY <1>1, DeliverIs
<1>4. /\ \A v \in Workers \ {r} : pc'[v] = pc[v] /\ m_todo'[v] = m_todo[v]
      /\ m_todo'[r] = IF o.type = "Error" THEN m_todo[r] ELSE o
      /\ pc[r] \in {"new", "take", "deliver"} /\ pc'[r] \in {"execute", "loop"}
      /\ \A d \in Callers \ {c} : order'[d] = order[d] /\ (pc'[d] = pc[d] \/ pc[d] = "new")
  <2>1. \A v \in Workers \ {r} : pc'[v] = pc[v]
    BY <1>1, <1>3, DeliverIs, Basics
  <2>2. /\ \A v \in Workers \ {r} : m_todo'[v] = m_todo[v]
        /\ m_todo'[r] = IF o.type = "Error" THEN m_todo[r] ELSE o
        /\ \A d \in Callers \ {c} : order'[d] = order[d]
    BY <1>1, <1>3, DeliverOrders
  <2>3. pc[r] \in {"new", "take", "deliver"} /\ pc'[r] \in {"execute", "loop"}
    BY <1>1, <1>2, <1>3, DeliverIs, ReceiverIs
  <2>4. \A d \in Callers \ {c} : pc'[d] = pc[d] \/ pc[d] = "new"
    BY <1>1, <1>2, <1>3, DeliverIs, ReceiverIs, Basics
  <2>5. QED
    BY <2>1, <2>2, <2>3, <2>4
<1>5. \A p \in Orders : Position(p)' = Position(p)
  BY <1>2 DEF Position
<1>6. ASSUME NEW v \in Workers, Holds(v, g)
      PROVE  Somebody(g)'
  <2>1. v # r
    BY <1>4, <1>6 DEF Holds
  <2>2. QED
    BY <1>2, <1>4, <1>5, <1>6, <2>1, HoldsStays
<1>7. ASSUME NEW d \in Callers, HasInHand(d, g)
      PROVE  Somebody(g)'
  <2>1. CASE d # c
    <3>1. pc'[d] \in HandPlaces
      BY <1>4, <1>7, <2>1 DEF HasInHand, HandPlaces
    <3>2. QED
      BY <1>4, <1>5, <1>7, <2>1, <3>1, HandStays
  <2>2. CASE d = c
    <3>1. GiveStored(c) /\ o = order[c] /\ Position(o) = g
      BY <1>1, <1>2, <1>7, <2>2 DEF HasInHand
    <3>2. o.type # "Error"
      BY <3>1, Basics DEF NamesInv, Restores, Position, GamesStarted, NoGame
    <3>3. m_state'[r] = "RUNNING"
      BY <1>2, <1>4 DEF IdleInv
    <3>4. Position(m_todo[r])' = g
      BY <1>4, <1>5, <3>1, <3>2 DEF Position
    <3>5. Holds(r, g)'
      BY <1>4, <3>3, <3>4 DEF Holds
    <3>6. QED
      BY <3>5 DEF Somebody
  <2>3. QED
    BY <2>1, <2>2
<1>8. \A f \in Stores(g) : Somebody(g)'
  BY <1>2, <1>5, StoreStays
<1>9. Kept(g) => Somebody(g)'
  BY <1>2, KeptStays DEF Kept
<1>10. QED
  BY <1>6, <1>7, <1>8, <1>9, SomebodyFrom

LEMMA WorkSome ==
    ASSUME TypeInv, QuitInv, NamesInv, WorkInvs, Next, \A w \in Workers : IdleInv(w),
           NEW g \in GamesStarted, Somebody(g), NEW w \in Workers, WorkStep(w), IdleInv(w)'
    PROVE  Somebody(g)'
<1>1. /\ UNCHANGED <<m_todo, order, curl_save, sending, m_state, storefile>> /\ ~BeginSave(w)
      /\ \A d \in Callers \ {w} : pc'[d] = pc[d]
      /\ \A v \in Workers \ {w} : game'[v] = game[v] /\ res'[v] = res[v]
  <2>1. ~BeginSave(w)
    BY DEF BeginSave, IdleInv
  <2>2. UNCHANGED m_state
    BY <2>1 DEF WorkStep, StartGame, RemovePosition, EndGame, EngineFails, SleepOver, workerVars
  <2>3. QED
    BY <2>1, <2>2, WorkStepIs
<1>2. /\ pc \in [Callers -> Somewhere] /\ game \in [Workers -> MaybeGame]
      /\ g # NoGame /\ w \in Callers /\ WorkInv(w) /\ res \in [Workers -> Results]
  BY AllPlaces, Basics DEF TypeInv, TypeOK, GameInv, GamesStarted, NoGame, WorkInvs
<1>3. CASE \A o \in Orders : Position(o) = g => Position(o)' = g
  <2>1. ASSUME NEW v \in Workers \ {w}, Holds(v, g)
        PROVE  Somebody(g)'
    BY <1>1, <1>3, <2>1, HoldsStays, Basics
  <2>2. ASSUME Holds(w, g)
        PROVE  Somebody(g)'
    <3>1. m_todo[w] \in Orders
      BY DEF TypeInv, TypeOK
    <3>2. Position(m_todo[w]) = g => Position(m_todo[w])' = g
      <4>1. PICK o \in Orders : o = m_todo[w] /\ o = m_todo'[w]
        BY <1>1, <3>1
      <4>2. QED
        BY <1>3, <4>1 DEF Position
    <3>3. Holds(w, g)'
      <4>1. CASE StartGame(w)
        <5>1. m_state[w] = "RUNNING" /\ Position(m_todo[w]) = g
          BY <2>2, <4>1 DEF Holds, StartGame
        <5>2. m_todo[w].sgf # NoFile
          BY <1>2, <5>1 DEF Position
        <5>3. game'[w] = g /\ pc'[w] = "start"
          BY <1>2, <4>1, <5>1, <5>2 DEF StartGame, Goto
        <5>4. QED
          BY <5>3 DEF Holds
      <4>2. CASE RemovePosition(w)
        BY <1>2, <2>2, <4>2 DEF Holds, RemovePosition, Goto, workerVars
      <4>3. CASE EndGame(w)
        BY <1>2, <2>2, <4>3 DEF Holds, EndGame, Goto
      <4>4. CASE EngineFails(w)
        <5>1. pc'[w] = "executed"
          BY <1>2, <4>4 DEF EngineFails, Goto
        <5>2. CASE pc[w] = "play"
          <6>1. game'[w] = game[w]
            BY <1>2, <4>4, <5>2 DEF EngineFails
          <6>2. QED
            BY <2>2, <5>1, <5>2, <6>1 DEF Holds
        <5>3. CASE pc[w] = "execute"
          BY <1>1, <2>2, <3>2, <5>1, <5>3 DEF Holds
        <5>4. QED
          BY <4>4, <5>2, <5>3 DEF EngineFails
      <4>5. CASE SleepOver(w)
        <5>1. pc'[w] = "executed" /\ pc[w] = "execute"
          BY <1>2, <4>5 DEF SleepOver, Goto
        <5>2. QED
          BY <1>1, <2>2, <3>2, <5>1 DEF Holds
      <4>6. QED
        BY <1>1, <4>1, <4>2, <4>3, <4>4, <4>5 DEF WorkStep
    <3>4. QED
      BY <3>3 DEF Somebody
  <2>3. ASSUME NEW d \in Callers, HasInHand(d, g)
        PROVE  Somebody(g)'
    <3>1. pc'[d] \in HandPlaces
      <4>1. d # w
        BY <2>3, WorkStepIs DEF HasInHand
      <4>2. QED
        BY <1>1, <2>3, <4>1 DEF HasInHand, HandPlaces
    <3>2. QED
      BY <1>1, <1>3, <2>3, <3>1, HandStays
  <2>4. \A f \in Stores(g) : Somebody(g)'
    BY <1>1, <1>3, StoreStays
  <2>5. Kept(g) => Somebody(g)'
    BY <1>1, KeptStays DEF Kept
  <2>6. QED
    BY <2>1, <2>2, <2>3, <2>4, <2>5, SomebodyFrom
<1>4. CASE ~\A o \in Orders : Position(o) = g => Position(o)' = g
  <2>1. PICK o \in Orders : Position(o) = g /\ Position(o)' # g
    BY <1>4
  <2>2. saved' # saved
    BY <2>1 DEF Position
  <2>3. ~EndGame(w)
    <3>1. EndGame(w) => res'[w] \notin StoreResults
      BY DEF IdleInv
    <3>2. QED
      BY <2>2, <3>1 DEF EndGame
  <2>4. RemovePosition(w)
    BY <1>1, <2>2, <2>3 DEF WorkStep, StartGame, EngineFails, SleepOver, fileVars
  <2>5. saved' = [saved EXCEPT ![m_todo[w].sgf] = NoGame] /\ saved \in [FileNames -> MaybeGame]
    BY <2>4 DEF RemovePosition, TypeInv, TypeOK, MaybeGame
  <2>6. o.sgf = m_todo[w].sgf /\ o.sgf # NoFile
    BY <1>2, <2>1, <2>5 DEF Position, Orders
  <2>7. Position(m_todo[w]) = g
    BY <2>1, <2>6 DEF Position
  <2>8. game[w] = g
    BY <1>2, <2>4, <2>7 DEF WorkInv, RemovePosition
  <2>9. pc'[w] = "play" /\ game' = game
    BY <1>2, <2>4 DEF RemovePosition, Goto, workerVars
  <2>10. Holds(w, g)'
    BY <2>8, <2>9 DEF Holds
  <2>11. QED
    BY <2>10 DEF Somebody
<1>5. QED
  BY <1>3, <1>4

LEMMA UploadSome ==
    ASSUME TypeInv, QuitInv, WorkInvs, SendInv, Next,
           NEW g \in GamesStarted, Somebody(g), NEW w \in Workers, Upload(w)
    PROVE  Somebody(g)'
<1>1. /\ UNCHANGED <<m_todo, order, sending, m_state, storefile, saved, kindOf>>
      /\ pc[w] = "upload"
      /\ \A d \in Callers \ {w} : pc'[d] = pc[d]
      /\ \A v \in Workers \ {w} : game'[v] = game[v] /\ res'[v] = res[v]
  BY WorkStepIs DEF Upload, BeginSave, fileVars
<1>2. \A o \in Orders : Position(o)' = Position(o)
  BY <1>1 DEF Position
<1>3. ASSUME NEW v \in Workers \ {w}, Holds(v, g)
      PROVE  Somebody(g)'
  BY <1>1, <1>2, <1>3, HoldsStays, Basics
<1>4. ASSUME Holds(w, g)
      PROVE  Somebody(g)'
  <2>1. game[w] = g
    BY <1>1, <1>4 DEF Holds
  <2>2. CASE Send(game[w])
    <3>1. Uploaded(g)' >= 1
      BY <1>1, <2>1, <2>2, SentIs
    <3>2. QED
      BY <3>1 DEF Somebody
  <2>3. CASE curl_save' = curl_save \cup {game[w]}
    <3>1. sending = NoGame
      <4>1. ASSUME NEW c \in Callers, pc[c] = "sent"
            PROVE  FALSE
        BY <1>1, <4>1, OneSends, Basics
      <4>2. QED
        BY <4>1 DEF SendInv
    <3>2. Kept(g)'
      BY <1>1, <2>1, <2>3, <3>1 DEF Kept, GamesStarted, NoGame
    <3>3. QED
      BY <3>2 DEF Somebody
  <2>4. QED
    BY <2>2, <2>3 DEF Upload
<1>5. ASSUME NEW d \in Callers, HasInHand(d, g)
      PROVE  Somebody(g)'
  <2>1. pc'[d] \in HandPlaces
    BY <1>1, <1>5 DEF HasInHand, HandPlaces
  <2>2. QED
    BY <1>1, <1>2, <1>5, <2>1, HandStays
<1>6. \A f \in Stores(g) : Somebody(g)'
  BY <1>1, <1>2, StoreStays
<1>7. Kept(g) => Somebody(g)'
  BY <1>1, KeptStays DEF Kept, Upload
<1>8. QED
  BY <1>3, <1>4, <1>5, <1>6, <1>7, SomebodyFrom

LEMMA IdleNext ==
    ASSUME TypeInv, QuitInv, NamesInv, WorkInvs, LoadInv, SendInv, IdleInvs, Next
    PROVE  IdleInvs'
<1>1. CASE End
  <2>1. /\ \A w \in Workers : /\ m_state'[w] = "RUNNING" /\ job'[w] = NoJob /\ res'[w] = "none"
                              /\ pc'[w] = "new"
        /\ UNCHANGED <<kindOf, storefile, saved, curl_save, uploaded>> /\ sending' = NoGame
        /\ gone' = {g \in GamesStarted : Stores(g) = {} /\ g \notin curl_save /\ Uploaded(g) = 0}
    BY <1>1, Basics DEF End, Fresh
  <2>2. ASSUME NEW w \in Workers
        PROVE  IdleInv(w)'
    BY <2>1 DEF IdleInv, NoJob, StoreResults
  <2>3. ASSUME NEW g \in GamesStarted' \ gone'
        PROVE  Somebody(g)'
    <3>1. g \in GamesStarted /\ g # NoGame /\ Uploaded(g) \in Nat
      BY <2>1 DEF GamesStarted, NoGame, Uploaded, TypeInv, GameInv
    <3>2. Stores(g) # {} \/ g \in curl_save \/ Uploaded(g) >= 1
      BY <2>1, <3>1
    <3>3. Stores(g)' = Stores(g) /\ Uploaded(g)' = Uploaded(g) /\ (Kept(g)' <=> g \in curl_save)
      BY <2>1, <3>1 DEF Stores, Files, Position, Uploaded, Kept
    <3>4. QED
      BY <3>2, <3>3 DEF Somebody
  <2>4. QED
    BY <2>2, <2>3 DEF IdleInvs
<1>2. CASE ~End /\ ~Storing'
  <2>1. ~Storing /\ gone' = gone
    BY <1>2, StepOnward DEF Onward, Start, Storing, historyVars
  <2>2. /\ \A w \in Workers : IdleInv(w)
        /\ \A g \in GamesStarted \ gone : Somebody(g)
    BY <2>1 DEF IdleInvs
  <2>3. \A w \in Workers : IdleInv(w)'
    BY <1>2, <2>1, <2>2, IdleStep
  <2>4. ASSUME NEW g \in GamesStarted, g \notin gone
        PROVE  Somebody(g)'
    <3>1. Somebody(g)
      BY <2>2, <2>4
    <3>2. CASE Start
      <4>1. UNCHANGED <<storefile, saved, curl_save, uploaded, sending>>
        BY <3>2 DEF Start, fileVars, serverVars
      <4>2. \A w \in Workers : ~Holds(w, g)
        BY <3>2, NoneStarted DEF Start, Holds
      <4>3. \A c \in Callers : ~HasInHand(c, g)
        BY <3>2, NoneStarted, Basics DEF Start, HasInHand
      <4>4. Stores(g)' = Stores(g) /\ Uploaded(g)' = Uploaded(g) /\ (Kept(g)' <=> Kept(g))
        BY <4>1 DEF Stores, Files, Position, Uploaded, Kept
      <4>5. QED
        BY <3>1, <4>2, <4>3, <4>4 DEF Somebody
    <3>3. ASSUME NEW c \in Callers
          PROVE  /\ Plain(c) => Somebody(g)'
                 /\ SendKept(c) \/ RemoveKept(c) => Somebody(g)'
                 /\ LoadStored(c) \/ RemoveStored(c) => Somebody(g)'
                 /\ GiveStored(c) \/ GetWork(c) => Somebody(g)'
      BY <1>2, <2>1, <2>2, <3>1, PlainSome, SendSome, LoadSome, DeliverSome
    <3>4. ASSUME NEW w \in Workers
          PROVE  /\ WorkStep(w) => Somebody(g)'
                 /\ Upload(w) => Somebody(g)'
      BY <2>2, <2>3, <3>1, WorkSome, UploadSome
    <3>5. QED
      BY <1>2, <3>2, <3>3, <3>4, StepCases
  <2>5. ASSUME NEW g \in GamesStarted' \ GamesStarted
        PROVE  Somebody(g)'
    BY AloneNew DEF Somebody, Holds
  <2>6. QED
    BY <2>1, <2>3, <2>4, <2>5 DEF IdleInvs
<1>3. QED
  BY <1>1, <1>2 DEF IdleInvs

LEMMA IdleInit == ASSUME Init PROVE IdleInvs
<1>1. /\ \A w \in Workers : m_state[w] = "RUNNING" /\ job[w] = NoJob /\ res[w] = "none"
      /\ \A w \in Workers : pc[w] = "new"
      /\ sending = NoGame
  BY Basics DEF Init, WorkerInit, Fresh, FilesInit
<1>2. ASSUME NEW w \in Workers
      PROVE  IdleInv(w)
  BY <1>1 DEF IdleInv, NoJob, StoreResults
<1>3. PICK stored \in Nat : \E kept \in Nat :
          /\ stored <= N
          /\ GamesStarted = 1 .. (stored + kept)
          /\ curl_save = (stored + 1) .. (stored + kept)
          /\ \A f \in FileNames :
                /\ f[1] = 0 /\ f[2] <= stored => saved[f] = f[2]
                /\ \/ saved[f] = NoGame /\ storefile[f] = NoOrder
                   \/ saved[f] # NoGame /\ storefile[f].sgf = f
  BY FilesAtInit
<1>4. ASSUME NEW g \in GamesStarted
      PROVE  Somebody(g)
  <2>1. CASE g \in curl_save
    BY <1>1, <2>1 DEF Somebody, Kept, GamesStarted, NoGame
  <2>2. CASE g \notin curl_save
    <3>1. g \in 1 .. stored
      BY <1>3, <2>2
    <3>2. PICK f \in FileNames : f = <<0, g>>
      <4>1. g \in Workers /\ 0 \in 0 .. MaxStarts
        BY <1>3, <3>1, Basics DEF Workers
      <4>2. <<0, g>> \in (0 .. MaxStarts) \X Workers
        BY <4>1
      <4>3. QED
        BY <4>2 DEF FileNames
    <3>3. saved[f] = g /\ g # NoGame
      BY <1>3, <3>1, <3>2 DEF NoGame
    <3>4. storefile[f].sgf = f /\ f # NoFile
      BY <1>3, <3>3, Basics
    <3>5. f \in Stores(g)
      BY <3>3, <3>4, Basics DEF Stores, Files, Position
    <3>6. QED
      BY <3>5 DEF Somebody
  <2>3. QED
    BY <2>1, <2>2
<1>5. QED
  BY <1>2, <1>4 DEF IdleInvs

HeldInv == NamesInv /\ WorkInvs /\ LoadInv /\ SendInv /\ AloneInv /\ IdleInvs

LEMMA HeldNext == TypeInv /\ QuitInv /\ HeldInv /\ [Next]_vars => HeldInv'
<1> SUFFICES ASSUME TypeInv, QuitInv, HeldInv, [Next]_vars
             PROVE  HeldInv'
  OBVIOUS
<1>1. CASE Next
  BY <1>1, NamesNext, WorkNext, LoadNext, SendNext, AloneNext, IdleNext DEF HeldInv
<1>2. CASE UNCHANGED vars
  <2>1. /\ UNCHANGED <<pc, m_state, m_todo, job, game, res, kindOf, saved, storefile, starts>>
        /\ UNCHANGED <<m_storedFiles, found, order, index, curl_save, sending, uploaded, gone, twice>>
    BY <1>2 DEF vars, workerVars, fileVars, managementVars, storedVars, serverVars, historyVars
  <2>2. NamesInv'
    BY <2>1 DEF HeldInv, NamesInv, Known, Made, Restores
  <2>3. WorkInvs' /\ LoadInv'
    BY <2>1 DEF HeldInv, WorkInvs, WorkInv, Played, Position, Name, LoadInv, Double
  <2>4. SendInv'
    BY <2>1 DEF HeldInv, SendInv, Uploaded
  <2>5. /\ \A g : Stores(g)' = Stores(g) /\ Uploaded(g)' = Uploaded(g) /\ (Kept(g)' <=> Kept(g))
        /\ GamesStarted' = GamesStarted /\ (Storing' <=> Storing)
    BY <2>1 DEF Stores, Files, Position, Uploaded, Kept, GamesStarted, Storing
  <2>6. /\ \A g : \A w \in Workers : (Claims(w, g)' <=> Claims(w, g)) /\ (Holds(w, g)' <=> Holds(w, g))
        /\ \A g : \A c \in Callers : HasInHand(c, g)' <=> HasInHand(c, g)
    BY <2>1 DEF Claims, Holds, HasInHand, Position
  <2>7. AloneInv'
    <3>1. \A g : Alone(g)' <=> Alone(g)
      BY <2>5, <2>6 DEF Alone, Claimed, InHand
    <3>2. QED
      BY <2>1, <2>5, <3>1 DEF HeldInv, AloneInv
  <2>8. IdleInvs'
    <3>1. \A g : Somebody(g)' <=> Somebody(g)
      BY <2>5, <2>6 DEF Somebody
    <3>2. \A w \in Workers : IdleInv(w)' <=> IdleInv(w)
      BY <2>1 DEF IdleInv
    <3>3. QED
      BY <2>1, <2>5, <3>1, <3>2 DEF HeldInv, IdleInvs
  <2>9. QED
    BY <2>2, <2>3, <2>4, <2>7, <2>8 DEF HeldInv
<1>3. QED
  BY <1>1, <1>2

LEMMA HeldImplies == TypeInv /\ HeldInv => OneHolder
<1> SUFFICES ASSUME TypeInv, HeldInv, NEW g \in GamesStarted
             PROVE  /\ g \notin twice => \A p, q \in Places(g) : p = q
                    /\ Storing \/ g \in gone \/ Places(g) # {}
  BY DEF OneHolder
<1>1. Uploaded(g) \in Nat
  BY DEF TypeInv, GameInv, Uploaded
<1>2. ASSUME g \notin twice, NEW p \in Places(g), NEW q \in Places(g)
      PROVE  p = q
  <2>1. Alone(g)
    BY <1>2 DEF HeldInv, AloneInv
  <2>2. \A w \in Workers : Holds(w, g) => Claims(w, g)
    BY DEF Holds, Claims
  <2>3. \A r \in Places(g) :
            \/ \E w \in Workers : Claims(w, g) /\ r = <<"worker", w>>
            \/ \E c \in Callers : HasInHand(c, g) /\ r = <<"hand", c>>
            \/ \E f \in Stores(g) : r = <<"file", f>>
            \/ Kept(g) /\ r = <<"kept", g>>
            \/ \E i \in 1 .. Uploaded(g) : r = <<"sent", i>>
    BY <2>2 DEF Places, Kept
  <2>4. CASE Claimed(g)
    BY <2>1, <2>3, <2>4 DEF Alone, InHand
  <2>5. CASE ~Claimed(g) /\ InHand(g)
    BY <2>1, <2>3, <2>5 DEF Alone, Claimed
  <2>6. CASE ~Claimed(g) /\ ~InHand(g) /\ Stores(g) # {}
    BY <2>1, <2>3, <2>6 DEF Alone, Claimed, InHand
  <2>7. CASE ~Claimed(g) /\ ~InHand(g) /\ Stores(g) = {}
    <3>1. \A i \in 1 .. Uploaded(g) : i = 1 /\ ~Kept(g)
      BY <1>1, <2>1 DEF Alone
    <3>2. QED
      BY <2>3, <2>7, <3>1 DEF Claimed, InHand
  <2>8. QED
    BY <2>4, <2>5, <2>6, <2>7
<1>3. ASSUME ~Storing, g \notin gone
      PROVE  Places(g) # {}
  <2>1. Somebody(g)
    BY <1>3 DEF HeldInv, IdleInvs
  <2>2. Uploaded(g) >= 1 => 1 \in 1 .. Uploaded(g)
    BY <1>1
  <2>3. QED
    BY <2>1, <2>2 DEF Somebody, Places, Kept
<1>4. QED
  BY <1>2, <1>3

\* No game is lost by the client, and none is in two places, but for the ways that gone and twice
\* name: a process that dies over the game, or between sending it and removing its file, and two
\* threads that read one stored order before either removes it (getResult(), uploadResult(),
\* sendAllGames(), getNextStored(), getWork() and the end of Worker::run(), run by any number
\* of workers, and by the main thread without the mutex).
THEOREM NoGameLost == Spec => []OneHolder
<1>1. Init => TypeInv /\ QuitInv /\ HeldInv
  BY TypeInit, QuitInit, NamesInit, WorkInit, LoadInit, SendInit, AloneInit, IdleInit DEF HeldInv
<1>2. TypeInv /\ QuitInv /\ HeldInv /\ [Next]_vars => (TypeInv /\ QuitInv /\ HeldInv)'
  BY TypeNext, QuitNext, HeldNext
<1>3. TypeInv /\ HeldInv => OneHolder
  BY HeldImplies
<1>4. QED
  BY <1>1, <1>2, <1>3, PTL DEF Spec

=============================================================================
