# A TLA+ model of Leela Zero

This directory holds a specification of the core of Leela Zero: the concurrent search with its
queue, cache and memory, the board and the game (`src/src`), and the self-play client
(`src/autogtp`), with the TLC runs that check it and the TLAPS proofs about it. Source paths below are relative to the
repository; definitions keep the names of the code where they can. `PROJECT.json` maps every
definition to the lines it stands for, and lists runs, mutants, hazards and theorems.

## 1. The system

| part | state | operations | interacts with |
|---|---|---|---|
| batching queue (`OpenCLScheduler.cpp`) | `m_forward_queue`, `m_draining`, `m_running`, `m_single_eval_in_progress`, one lock and condition variable per entry | `forward`, `batch_worker`, `drain`, `resume`, destructor | search threads call `forward`, GPU threads serve it, the controlling thread drains and resumes |
| search tree (`UCTNode.cpp`, `UCTNodeRoot.cpp`) | per node: expansion state, children, threshold of linked children, visits, virtual loss, status | `create_children`, `uct_select_child`, `update`, `set_active`, `invalidate`, `prepare_root_node` | all workers at once |
| search control (`UCTSearch.cpp`) | `m_run`, `m_playouts`, `m_root`, `m_last_rootstate` | `think`, `ponder`, `play_simulation`, `update_root`, pruning | the tree, the queue, the thread pool |
| network front end (`Network.cpp`) | cache, weights | `get_output`, `probe_cache`, `get_symmetry`, `drain_evals`, `resume_evals` | cache first, then the pipe; search threads and GTP commands call it |
| lazy nodes (`UCTNodePointer.cpp`) | one tagged word, the tree-size account | `inflate`, moves, destruction | tree |
| thread pool (`ThreadPool.h`) | task queue, futures | `add_task`, worker loop, `wait_all`, destructor | search, tree deletion |
| evaluation cache (`NNCache.cpp`) | map, order list, size | `lookup`, `insert`, `resize`, `clear` | network front end |
| game (`GameState.cpp`, `KoState.cpp`, `FastState.cpp`) | position, history, ko hashes, komi, clocks | play, undo, forward, rewind, anchor | GTP, search |
| board (`FastBoard.cpp`, `FullBoard.cpp`) | strings, liberties, hashes | `update_board`, legality, scoring | game |
| time control (`TimeControl.cpp`) | remaining time, stones, periods | `start`, `stop`, `max_time_for_move` | `think` |
| GTP (`GTP.cpp`, `Leela.cpp`) | options, game, search | command loop | everything |
| self-play client (`src/autogtp`) | orders, jobs, stored games, kept uploads, counts of games and threads | `giveAssignments`, `getResult`, `getWork`, `storeGames`, `Worker::run` | main thread, workers, timer, files of earlier processes, server, engines |
| validation (`src/validation`), GUI, SGF, training | | | not concurrent with the engine's core |

What is hard, and what each part must get right:

* **Queue.** Lost wakeups between the push and the wait, a drain that races with pushes and
  deliveries, partial batches that only a timeout moves, the single-evaluation flag, shutdown.
  Correct when every request is answered once with its own evaluation or refused during a
  drain, and nothing is left when the drain ends.
* **Tree and search.** Workers expand, wait, select and back up concurrently; the network may
  refuse in the middle of an expansion; memory may stop or trim an expansion; root moves are
  pruned while they are being selected; the tree is reused. Correct when the expansion lock is
  a lock, children are linked only further down their policies, counters balance after every search, and some move stays
  selectable.
* **Lazy nodes and pool.** Two threads inflate one pointer; trees are deleted in the background.
  Correct when each node has one owner and the account of memory is exact.
* **Cache and symmetries.** Threads miss and insert the same position; a result is found under
  another orientation and turned back. Correct when map and queue of the cache agree and every
  answer belongs, point by point, to the position asked for.
* **Board.** Strings, liberties, ko and hashes are kept move by move. Correct when they are what
  one would compute from the stones, and the stones what the rule of capture says.
* **Game.** Undo, redo and handicap anchors over one history; superko over all of it.
* **Self-play client.** Orders, stored games and retries by several threads and processes. Correct
  when a game is in two places only where the code cannot tell, and never nowhere, and the program
  ends when it should.

`PROJECT.json` lists each hazard at its line with the properties that would catch it.

## 2. Modules

| module | models |
|---|---|
| `OpenCLScheduler` | the queue: state, caller, batch worker, drain, resume, shutdown; one action per step that another thread can observe |
| `SearchHalt` | `OpenCLScheduler` under `think()`/`ponder()`: start, stop, drain, join, resume, destructor; its `Spec`, properties and the refinement to `EvalService` |
| `EvalService` | the abstract service the search relies on: ask, answer, refuse while halting |
| `SearchHaltProofs` | theorems about `SearchHalt` |
| `UCTNode` | the tree: expansion protocol and `play_simulation()`, one thread step at a time |
| `UCTSearch` | `think()`/`ponder()` over `UCTNode`: reuse, workers, pruning, stop, drain, reactivation |
| `UCTSearchProofs` | theorems about `UCTSearch` and `UCTNode` |
| `ThreadPool` | the task queue, its threads, `ThreadGroup` and the destructor |
| `ThreadPoolProofs` | theorems about `ThreadPool` |
| `TreeMemory` | `UCTNodePointer` with its account, and the handing over of the tree between searches |
| `TreeMemoryProofs` | theorems about `TreeMemory` |
| `NNCache` | the evaluation cache: map, queue of keys, size |
| `Network` | search threads in `get_output()` over `NNCache`, symmetries, the commands that write or clear the cache |
| `NetworkProofs` | theorems about `Network` |
| `FullBoard` | the board and a move on it, as operators on a record |
| `FastState` | any sequence of moves, passes and new games on a `FullBoard`, and the refinement of `GoRules` |
| `FastStateProofs` | theorems about `FullBoard` and `FastState` |
| `GoRules` | the abstract game: stones, captures by the rule alone, prisoners |
| `GameState` | the game record over `FullBoard`: undo, forward, rewind, handicap, superko history |
| `GameStateProofs` | theorems about `GameState`, with what `FastStateProofs` proves of a move |
| `Worker` | the client's worker threads and jobs, stored and saved games |
| `Management` | the client around its workers: orders, uploads, counts, storing, exits and restarts |
| `ManagementProofs` | theorems about `Management` and `Worker` |
| `MC...` | instances of these for TLC, with symmetry where it is sound |

A definition under a comment beginning "Fault" is the definition after it with a bug a
programmer could make. Nothing uses these; they serve to confirm that each property can fail.

### `OpenCLScheduler` and `SearchHalt`

An entry is named by its caller, since a thread has one call in progress. `call` is where the
caller is in `forward()`: `pushed` (entry queued, entry lock held), `waiting`, `woken`. A
worker is at `pickup`, `picked`, `copy`, `eval`, `deliver` or `exited`; `inputs` and `index`
are the locals of `batch_worker`; `fq` is the local list of `drain()`. `output` tells whether
the call's output was written, `outcome` how the last call ended. The queue's mutex makes
`Push`, `PickBatch`, `PickSingle` and `TakeQueue` atomic; the entry's mutex is held exactly
while its caller is `pushed`, which is what `EntryUnlocked` says, and delivering takes no lock,
as in the code. `m_waittime` and `m_cv` only decide when a wait ends, and every such wait has a
timeout, so a timeout is possible whenever a worker waits.

`SearchHalt` adds `m_run`, the set of workers inside `UCTWorker` and the place of the
controlling thread. A simulation is any number of `forward()` calls; the tree comes with
`UCTSearch`, which relies on nothing of the queue but what `EvalService` promises. The
controlling thread itself calls `forward()` only between searches (root preparation, training
data), and a cached answer, which does not reach the queue, is no call at all.

### `UCTNode` and `UCTSearch`

Positions are the nodes of a constant tree; `Superko` are those a player may not move to and a
node without children is a finished game. `m_children[c]` counts how often `c` is in its
parent's vector: a child is linked twice, or never, where a later evaluation under another
symmetry gives it another policy (`Policies` is what the network may answer, one of them at each
evaluation), and nothing in the code prevents it. The thresholds of `get_min_psa_ratio()` (0,
0.001, 0.01, 2.0) are levels 0..3 and a child's policy is compared with them by level. `pc[t]`
is where thread `t` is in `play_simulation()`, `at[t]` the node of the innermost call; the outer
calls have no state but the node, which `Parent` gives back. `Subtree[n]` is what
`count_nodes_and_clear_expand_state()` and `play_simulation()` reach from `n`: what every set
holds that has `n` and the children of its members (a closure, where the code recurses). One action covers what one thread
does between two points at which another can see or change the outcome: taking the expansion
lock, evaluating, linking, releasing, waiting, selecting, backing up. Which active child is
selected depends on floating point values, and is left open. `Cancel` undoes all virtual losses
of the path in one step: they are counters nobody decides on before the join.

`PrepareRoot` is `update_root()` with `prepare_root_node()`; they run alone. `StartSearch` keeps
the subtree of a position reached by linked moves, or starts over. `PruneOrKeep` is one turn of
the pruning loop, because workers select between the turns; a move kept for its win rate may be
any visited one.

Left out: evaluations and their sums, sorting, noise, node counts, the time that makes
`think()` stop (it may stop at any poll), and the inflation of lazy nodes.

### `ThreadPool`

`thread[t]` is where a pool thread is in its loop, `running[t]` its task, `future[k]` how far the
task's future is. `add_task` is two steps, `AddTask` under the mutex and `NotifyOne` after it;
between them another thread may take the task. `wait_all` of a group blocks the owner until every
future of `group` is ready. `PutAside` is what the tree deletion does with a group: it keeps it
for later. The wait in the loop has a predicate, so `SpuriousWakeup` is always allowed here.

### `TreeMemory`

An id names a `UCTNodePointer` and the node it inflates to; after `release()` the pointer (now
INVALID) and the node (now a root) live on apart under that id. `made` and `stored` are the two
points inside `inflate()` at which another thread may act: before the compare-and-swap, and
between it and `increment_tree_size`. A deletion frees one pointer per step, children first,
whoever runs it; `deleting` are the trees the main thread deletes itself, and it does nothing else
meanwhile; `m_delete_futures` are the deletions in the pool that have not ended and that the next
`advance_to_new_rootstate()` waits for. A new search may start over or follow any linked moves,
whatever the game did in between. Where a pointer lies in its vector is left out: moving one
transfers its word and leaves the account as it was. A second search at the same time (the free
handicap placement) is not modelled.

### `NNCache` and `Network`

`lookup()` and `insert()` hold the cache's mutex and are one step each; `resize()` and `clear()`
take no lock and are called by the main thread between searches, which `Quiet` says. A thread in
`get_output()` looks up one symmetry per step (`Probe`), so that another may insert in between,
then picks a symmetry (`Forward`), and caches and returns the answer (`Evaluated`) or is halted.
The network's output at a point is a term that names the input planes and the point of that
input: two outputs are the same only when they stand for the same number, for any network. A hash
is the position it is computed from, so hash collisions do not happen. The planes of earlier
positions, which the hash does not cover in the code either, are left out, as are the win rate and
the policy of a pass, which no symmetry moves.

### `FullBoard`, `FastState` and `GoRules`

The record of `FullBoard` has the program's fields; `merge_strings` and `remove_string` follow the
rings of `m_next` and the counters as the code does, and `update_board` goes through the four
neighbours in the code's order. Entries the code leaves behind for points that are no longer
stones or roots become `None`, so that a use of one would be an error of TLC. A Zobrist hash is the
set of keys xored into it. `FastState` lets either colour play any empty point, retaken kos
included, since GTP `play` does not ask for legality. `GoRules` keeps no strings: what is
dead is every set of stones of a colour that holds all of that colour next to it and touches no empty
point. A ring
(`Ring`, where the code walks along `m_next`) and the string of a stone (`Group`) are closures,
the stones that every set with the first stone and the next ones of its members holds.

### `GameState`

`game` is the position played on and `m_game_history` the record, with the hashes for superko in
each entry. `PlayTextMove` is `play_textmove()`, the SGF reader and `genmove`; `Analyze` sets the
colour to move without recording it, so that the position played on may differ from its entry by
that. `PlaceFreeHandicap` makes the present position the first entry of the record, whose
superko hashes may go back further. Boards are at most four wide, where no fixed handicap exists.

`is_move_legal` leaves out the moves that `lz-analyze` and `lz-genmove_analyze` are told to avoid
(`cfg_analyze_tags.is_to_avoid`, `FastState.cpp:78`), which belong to a search and not to the game, and
`RESIGN`, which is not a move on the board; no property depends on either.

### `Worker` and `Management`

`pc` gives the place of each worker, and of the main thread, in `run()`, `getResult()`,
`giveAssignments()` and `storeGames()`. `getResult()` runs in the worker's thread under
`m_syncMutex`; `giveAssignments()` runs in the main thread without it, while the workers it has
started run already, and shares `m_storedFiles` and `m_lockFile` with them. Every step of
`getNextStored()` and `getWork(file)` is an action: the list (`List`), the file taken from it
(`TakeStored`), the new lock object (`NewLock`), `tryLock` (`TryLock`), `exists` (`Exists`), the order read
(`LoadStored`), its file removed (`RemoveStored`), `unlock` (`Unlock`), `delete` (`DeleteLock`), and null
(`Dropped`, `GiveStored`). Between any two of them the other thread may put its own object into
`m_lockFile`, or delete the one that is there; `m_lockFile` is the file and the state of the object
it points to by then. An object that already has the lock says yes to `tryLock()`, and `exists()` may
answer from what the directory list saw. Where the code's behaviour is undefined, the model chooses:
two threads in the list may come to the same file or kill the process, and a null or deleted object kills
it or goes unnoticed (`Crash` and the guards of the steps). At the end of its loop `getNextStored()` returns
the last file it looked at even when it has no lock of it (`TakeLast`).

Sending what was kept is two steps, as in `sendAllGames()`: `SendKept` for a curl that succeeds and
`RemoveKept` for the file that goes after it; the process may die in between, by another worker's
`exit(1)`, which takes no mutex.

A game is the number of its start; `storefile`, `saved` and `curl_save` are the files that outlive a
process, `uploaded` counts what the client took for sent. A name stands for a UUID; one for each
worker and process is enough, since a worker saves its order once. `End` is any end of the process:
`exit(1)` after an engine's error, no order to be had, a null pointer, undefined behaviour, or the
regular end. Two history variables tell what ended badly: `gone` are the games that were only in the
memory of a process when it ended, `twice` those of which it left two copies, because it died between
sending and removing, or because two of its threads had read one file before either removed it.
Kept uploads are games, and a curl that failed after the server took the game is not told apart from one
that failed before: `uploaded` is the client's view. A file is written, or read, in one step.

## 3. Runs

| run | what it shows | distinct states | bound |
|---|---|---|---|
| `search_halt` | queue invariants, refinement of `EvalService`; every call returns, stop and close complete | 44 thousand | 2 search threads + main, 2 batch workers, batches of 2 |
| `tree` | expansion lock, partial expansion and its completion, no read of children being linked, pruning, counters; a stopped search ends | 1.4 million | 2 workers, 2 searches, 3 visits, 3 thresholds, 2 policies |
| `thread_pool` | tasks run once, shutdown; tasks end, the destructor returns | 99 thousand | 3 threads, 4 tasks |
| `tree_memory` | the account, owners, no use of a tree under deletion; what left the tree is deleted | 36 thousand | 4 nodes, 2 workers, any number of searches |
| `network_cache` | map and queue agree; answers and entries belong to their position | 69 thousand | 2 threads, 3 positions on 2x2, caches of 1 and 3 |
| `board` | strings, suicide, ko and hashes are exact; refinement of `GoRules` | 62 thousand | 3x3, 5 stones, 1 prisoner of each colour |
| `game` | the record is a game; superko sees that game | 133 thousand | 2x2, 4 moves |
| `autogtp` | no game is lost, or held twice but where the code cannot help it; the program quits after its results, storing ends | 760 thousand | 2 workers, 3 results, one process after others |
| `cancel_wait`, `pruning_race` (violations) | two assertions of the code that can fail | | |
| `timeout_store` (violation) | a game ending as it is told to store is not kept | | 2 workers |
| `quits_early` (violation) | `--maxgames` counts waits as games | | 2 workers |

A run that checks liveness uses no symmetry, which is not sound there.

Why the bounds are enough. Two search threads with the controlling thread, and batches of two, give
a full batch, a partial batch that only the timeout moves, one thread pushing while another is
drained, delivered or halted; two batch workers contend for the single-evaluation flag and for
the queue. The number of searches is unbounded there. In the tree, two workers meet at one node
(one expands, the other waits), and the second search reuses what the first left; the tree has a
superko reply, a pass after which the game can end, and a finished game at depth one and three.
Three visits of the root reach depth three.

Four tasks for three threads leave a task queued while all threads run, and threads asleep while
another task is added. Four nodes give a tree of depth two, or one that grows next to one that is
being deleted. The sizes 2 and 5 are such that no mistake in the one is made good by the other.

Two by two is the smallest board whose eight symmetries all differ (and 6 is one that is not its
own inverse); two of the three positions are images of each other, so that a lookup under a symmetry
hits, and one is past the opening. A cache of one entry evicts at every second insertion. A memory
limit with no room for an entry is among those tried, and refused as GTP does (`GTP.cpp:1256`), so that no
cache is of size zero. Five stones on three by three give strings of several stones joined from two or more
sides, captures, suicides of one stone and of several, and a ko. On two by two a
handful of moves capture whole sides and repeat positions, which is what superko is about.
Two workers and a main thread that hands out orders while the first worker runs reach every
contention on the stored files; three games for two workers give one game that is looked for after
the first ones; the directory left by earlier processes has a match and a self-play game to go on
with, or nothing. Games this process fails to upload are kept and sent again by it; what an earlier
process kept is not in the run (`LeftKept = 0`), since it multiplies the states by ten. The server asks
for games, for a wait, or sends a command the client does not know, after which a worker without a job meets a
null pointer.

Named bounds: `MaxSearches` (calls of `think`/`ponder`), `MaxVisits` (visits of the root after
which no worker starts a simulation), `Slack` (the largest estimate of playouts left), in the guards
of `StartSearch`, `Again` and `StartPruning`. `MaxStones`, `MaxPrisoners`, `MaxPasses` and
`PassStones` in `FastState`: stones on the board, prisoners of a colour, passes in a row, and the
stones on the board up to which one passes. `MaxMoves` and `MaxOutOfTurn` in `GameState`: moves since
the board was cleared, and the first moves among which the other colour may also play.
`MaxStarts`, `LeftStored` and `LeftKept` in `Management`: how often the program starts, and the games
earlier processes left, which stand for any number of earlier starts.

### Fairness

`SearchHalt!Fairness`: each thread inside `forward()`, each batch worker and the steps that stop
a search are weakly fair. The code justifies it by operating system threads, by `wait_for` timing
out and by the network returning; the queue's mutex is held for short sections. Nothing forces a
worker to leave while `m_run` is set, and `think()` need never stop. `UCTSearch!FairSpec` likewise:
workers, and the controlling thread once it has left the polling loop. `wait_expanded()` is a
spin, modelled as a guard: the spin ends once the state is no longer EXPANDING.

`ThreadPool!FairSpec`: each pool thread, and the owner once it is inside `add_task`, `wait_all` or
the destructor; tasks end. `TreeMemory!FairSpec`: every deletion goes on, since a thread of its own
runs it. `Management!FairSpec`: each thread of the client; a worker waits for its
engine, and curl for the server, without a limit of the code's own, so fairness assumes that engines
answer or end, that a game ends, and that curl returns. The timer is not fair: it need not fire.

### Violations found

1. `cancel_wait`: a node completed under memory pressure by a later search may be halted while
   another worker waits in `wait_expanded()`; the state goes back to INITIAL and the assertion
   there fails; the children may then be read while they are appended to.
2. `pruning_race`: pruning rounds change `m_status` move by move; when a pruned move has caught
   up through simulations in flight, the old contender can be pruned before the new one is active.
3. `quits_early`: `getResult()` counts each result, and a worker told to wait has one too
   (`Management.cpp:165`, 188); the client quits having completed fewer games than `--maxgames`, which
   promises that many (`main.cpp:74`), or none.
4. `timeout_store`: when the timer fires, a game that has just ended is neither reported, since
   its worker is already storing, nor stored, since its job was still running when it ended.

Three further ones need no run of their own. `entry->cv.wait(lk)` has no predicate: with `Spurious =
TRUE` a spurious wakeup returns an unwritten output, and the stale entry breaks the assertion of
`resume()`; the results about the queue say where they assume `Spurious = FALSE`. With memory
almost full the only linked child may be a superko move, and `uct_select_child` is left without a
child. After `clear_board` the assertion that the tree size is zero can fail, because destroying
`m_delete_futures` does not wait for the deletions in the pool.

A search of a finished game also fails `assert(pruned_nodes < m_root->get_children().size())`
(`UCTSearch.cpp:705`), and `size() - 1` wraps there; it takes no interleaving, and no run shows it.

## 4. Proofs

Every theorem holds for any number of threads or workers and any values of the other constants that
the named assumptions of the modules allow. Each safety property is proved the same way: an
invariant that is inductive, one lemma per action or group of actions, and a temporal step at the end.

| module | theorem | says | beyond the assumptions of the modules |
|---|---|---|---|
| `SearchHaltProofs` | `TypeCorrect` | types; no batch exceeds `cfg_batch_size` | |
| | `ReturnsAreEvaluated`, `ResumeSafe`, `NoneLost`, `Refinement` | `ReturnedIsEvaluated`, `ResumeFindsQueueEmpty`, `NoLostRequest`, `ImplementsService` | `Spurious = FALSE` |
| `UCTSearchProofs` | `TypeCorrect` | types; a worker is always below the root of the search | |
| | `Locked` | `ExpandingIsALock` | |
| | `FullStaysExpanded` | `FullNodesStayExpanded` | |
| | `LinksLower` | `LinkLowersThreshold` | |
| | `SelectionsAreCovered` | `NoReadDuringLink`, and `WaitedIsExpanded` where no evaluation was halted | |
| | `RootVectorStable` | `RootUnmodified` | |
| | `ContenderLeft` | `PruningLeavesContender` | |
| | `LeavesNothing` | `NothingLeftBehind` | |
| | `VisitsBalance` | `VisitsConserved` | |
| `ThreadPoolProofs` | `TypeCorrect`, `TasksRunOnce`, `ExitSafe` | `TypeOK`, `EveryTaskOnce`, `ExitRunsEverything` | |
| `TreeMemoryProofs` | `TypeCorrect`, `AccountIsExact`, `OwnerIsUnique`, `WorkersAreInLiveTree` | `TypeOK`, `AccountExact`, `OneOwner`, `WorkersInLiveTree` | |
| `NetworkProofs` | `TypeCorrect`, `CacheStaysOrdered`, `AnswersOriented`, `TurnedBack` | `TypeOK`, `CacheOrdered`, `PolicyOriented`, a fact about the symmetries | |
| `FastStateProofs` | `HashesAgree` | `HashExact` | |
| | `StringsAgree`, `SuicideIsTold`, `KoIsExact`, `BoardPlaysGo` | `StringsExact`, `SuicideExact`, `KoExact`, `ImplementsRules` | |
| `GameStateProofs` | `RecordReplays`, `SuperkoIsExact` | `HistoryReplays`, `SuperkoExact` | |
| `ManagementProofs` | `TypeCorrect`, `QuitsAfterMaxGames`, `NoGameLost` | `TypeOK`, `QuitExact`, `OneHolder` | |

One hypothesis is a choice of the environment and not a fact about the code. `Spurious = FALSE`: no
condition variable wakes by itself, which the wait in `forward()` relies on (section 3 says what
happens otherwise). The assumptions of the modules are `SchedulerAssumption`, `MainAssumption`,
`TreeAssumption`, `PoolAssumption`, `MemoryAssumption`, `CacheAssumption`,
`NetworkAssumption`, `WorkersAssumption`, `ManagementAssumption`, `BoardAssumption`,
`BoundsAssumption` and `SmallBoard`; TLC evaluates each of them on
the instances of the runs. Among them `TreeAssumption` says that the tree of positions hangs
together (`Subtree[Top] = Nodes`) and that the threads are finitely many; the tree itself may be
infinite. `ManagementAssumption` says `MaxGames >= N`, since `main()` lowers the number of workers to that of
the games (`main.cpp:103`).

### The queue

`ReturnedIsEvaluated` is not inductive. `HaltInv` adds what connects the callers with the
controlling thread: `m_draining` is set exactly from `clearing` to `resuming`; after the join no
caller is inside `forward()`; a woken caller without output exists only while draining, since
only `drain()` wakes without writing. `Refinement` maps each action to an action of `EvalService`
under that invariant. `ResumeSafe` needs `HolderInv`: whatever is in the queue, a batch or `fq`
belongs to a caller that is still inside `forward()`, with no repetition; with the join this
empties the queue. That is one half of `NoLostRequest`, that nothing is held twice; the other,
`LossInv`, is that each caller that waits is held somewhere (`SomewhereHeld`), and needs that a
caller whose entry a worker has copied is asleep already (`CopiedSleep`), since copying takes the
entry's lock.

### The tree

Four invariants, each resting on those before it.

* `LockInv`. That at most one thread holds a node (`OneHolder`) is inductive only together with:
  who is inside sees EXPANDING, EXPANDING has a holder, and what the second `expandable()` check
  under the lock has seen stays true until the children are linked (`StillExpandable`), which is
  `LinksLower`. A full
  node stays expanded because `expand_cancel()` can only happen where that check succeeded.
* `WaitInv`, as long as no thread of this search was halted (`NoneHalted`): a thread that descends or waits is at a node that was taken, and only
  `expand_cancel()` would make it INITIAL again.
* `LossInv` and `RootInv`. The virtual loss of a node is three times the number of threads whose path
  goes through it (`VirtualLossCounts`), a count over the paths of all threads that `Cancel` lowers
  along one path at once; with the join it is zero. The root's children are all linked before the
  workers start (`RootComplete`), so that no worker changes that vector (`RootUnmodified`, which
  `think()` relies on without a lock); while pruning, some move with the most visits seen at its
  start is either not yet examined or active (`ContenderRemains`).
* `VisitInv`. While the workers run a visit may be counted at a node and not yet at
  the node above; `Owes` says which thread will count it there, and `Balanced` is the equation with
  those threads in it. A step moves at most one debt (`DebtMoves`), and adds at most one visit
  (`BelowGrows`); the visits below a node are a set of pairs of child and number, so that its size needs
  no sum and no induction. That the first visit of a node is counted once rests on three facts about
  the expansion: a node has children exactly when it was visited, unless the game ended there
  (`VisitedHaveChildren`); what a worker has found where it is (`OnItsWay`); and that what
  `create_children()` saw in `had_children` before it took the lock is still so when it has it
  (`HadChildrenTrue`), since only the holder links children and a node it completes does not become
  INITIAL again, unless its expansion is cancelled, which links nothing.

### The pool, lazy nodes, cache and symmetries

`TasksRunOnce` is inductive with the types. `ExitSafe`: a thread leaves only when `m_exit` is set
and the queue is empty, and nothing is added after the destructor has begun.

The account of `TreeMemory` alone is not inductive: freeing a pointer must take off a pointer that
exists and lies in one vector (`Parents`), and counting a stored node must not count it twice
(`OneAtATime`). With these each action changes both sides of the equation alike (`Account`), which
is the only lemma that does arithmetic. `OwnInv` adds the owners: the tag of a pointer says whether
it owns a node (`WordsTrue`), each pointer has a parent (`HasParent`), and what workers inflate is
in the live tree. `Disjoint` derives from these that the live tree has no node in common with the
trees being deleted, by closure of `Below`.

`CacheStaysOrdered` needs that eviction drops the head of a queue without repetition.
`AnswersOriented` rests on `TurnedBack`: the eight symmetries are a group (`Composition`, with an
inverse for each), so that turning an evaluation of a turned position back gives an evaluation of
the position. `PolicyOriented` alone is not inductive: a thread between `Forward` and `Evaluated`
must have a symmetry of the board and a position of the game (`ThreadsOK`), and entries must be
evaluations of their own key (`EntriesOriented`).

### The board

That a captured string contains only stones, all of the captured colour, is what keeps the hashes
right, and it is a fact about the rings. `RingsInv` says that the stones with one `m_parent` are of
one colour and that `m_next` leads from each of them to all of them (`LeadsAround`: a set closed
under `m_next` holds all stones with the root of each of its members). Swapping two entries of
`m_next` keeps this when, and only when, they belong to different strings (`MergeIs`). As rings are
closures, no induction is needed. With it every operation removes the key of what was at a point
and adds that of what is there now, and `HashesInv` follows by the algebra of exclusive or: a hash is
that of the stones and of `Rest`, which is the prisoners, the colour to move, the ko point and the
passes.

Between moves a board is `Sound`: besides `RingsInv`, the counts count what they stand for
(`Counted`), a string is connected (`Connected`: a set of points closed under neighbours of a stone's
colour holds its string), different strings do not touch (`Separate`), and every string has a liberty
(`Alive`). `Connected` and `Separate` together make the stones with one root the group of a flood
fill, which is `StringsAgree`. Within a move this does not hold: the new stone may touch strings of
its own colour that are not joined yet, and strings may be without liberties. `Progress` says what
does hold in between: `Separate` but for the new stone and the directions still to come; what is
gone are strings of the rival's that had no liberty left; and the rival's strings next to the stone,
in the directions that are done, have one. `MergeCounts` is where the liberties of two strings are
added without counting one twice, and `TakeOffCounts` where a captured string gives liberties back.

After the four directions the stones gone are those that `GoRules` calls dead (`AfterDirections`,
`DeadAre`); what may be without a liberty is the new stone's string, and it is taken off exactly if
it is (`UpdateBoardSound`). `BoardPlaysGo` follows step by step. For `SuicideIsTold` the string that the
new stone will have is found before the move, as the new point with the strings of its colour next
to it (`SuicideIs`). `KoIsExact` is two directions: the move on the ko point takes the one stone just
played and so restores the position (`KoOpen`, `KoRetakes`), and a move that restores it can only be
such a capture in an eye (`OnlyKoRetakes`).

### The game

`HistoryReplays` is not inductive: that an entry follows from the one before needs the move to have
been played from that entry, and it is played from `game`. `GameInv` therefore says that the two
are the same position (`SamePosition`: strings, ko point, number, last move and hashes; the colour to
move, the prisoners and the number of passes are left open, since `lz-analyze` may have set the
colour, and no capture reads any of them), and `MoveAgain` that a move from the one and from the
other leaves the same stones, ko point and hash. It rests on `UpdateBoardSound`, by which the stones
after a move are a function of those before it, however the strings were joined, and on `AfterMove`
for the ko point. A record is changed in two ways only, by a move (`MoveRecorded`) and by a
resignation, which records the present position again (`PositionRecorded`); both cut off what lies
behind. `Remembers` is what `SuperkoExact` needs: entry `n` carries the hashes of all entries up to it, behind
those that the first entry brought along. With `HashesAgree`'s invariant equal hashes are equal stones.
The proof does not use `SmallBoard`, which only says for which boards `PlaceFreeHandicap` is the
code's command, so it holds of the other operations on any board.

### The client

`TypeInv` adds to the types where each thread may be and that a result comes with a game.
`QuitInv` is what `QuitExact` needs: `m_gamesPlayed`, `m_gamesLeft` and `m_threadsLeft` add up to
`MaxGames`, give or take the result under way (`CountInv`), which holds because `getResult()` runs
under `m_syncMutex` (`MutexInv`) and a worker not yet started has no result (`NewInv`); and as many
workers have ended as `m_threadsLeft` says.

`OneHolder` needs `HeldInv`. No order has the name of a position that is still to be saved, so a
worker that saves never overwrites one (`NamesInv`). What a worker's order, game and result are at each
of its places (`WorkInv`): while it plays, or has a result, the position it went on from is gone. A
thread about to remove a file has its order, unless another thread has read the same order, and then the
game is in `twice` (`LoadInv`); nothing here rests on the lock, which two threads may both believe they
hold. Whatever is being removed from `curl_save` has been sent, by the only thread that sends at the time
(`SendInv`, which uses `MutexInv` and that the main thread sends before it starts a worker). Then
`AloneInv`: outside `twice` each game has at most one of a worker, a thread with its order, a file, a kept
upload and an upload. It says so of more than the places of `OneHolder`: a worker counts as soon as its
order names the game (`Claims`), since it may yet come back to it. And until the program stores
(`IdleInvs`) nobody has begun to store (`IdleInv`), and every game that did not go with a process has
somebody (`Somebody`). The steps that move no game are one case (`Plain`); every other one has a lemma
for each of the invariants.

### Only model-checked

All liveness, which is beyond the prover, as `ENABLED` is. Every safety property that a passing run
checks is stated by a theorem.

## 5. Not modelled, and the plan

Not modelled for good: the numerical kernels (OpenCL, BLAS, tuner), SGF and text formatting, the
GUI host and the Python training scripts.

The vendored files `src/gui/webview2/WebView2.h`, `src/src/CL/cl2.hpp` and
`src/src/half/half.hpp` are most of the repository's lines and hold nothing of its own logic.

Left, in this order:

1. `TimeControl`: byo-yomi against a definition by remaining periods.
2. Scoring (`calc_reach_color`, `area_score`) and `is_eye`, against a definition on the stones.
3. Root move choice: `randomize_first_proportionally`, `get_best_move`, `should_resign`.
4. Pruning of `NO_PRUNING` games.
5. Komi, handicap and clocks through undo in `GameState`; `kgs-genmove_cleanup`.
6. `Validation`: its matches and the stopping rule of `SPRT`, as a choice.
