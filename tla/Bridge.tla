-------------------------------- MODULE Bridge --------------------------------
(***************************************************************************)
(* The Cutter plugin's threads: the dock widget on Qt's main thread, the   *)
(* worker of FridaTaskRunner, and rizin's console, meeting in              *)
(* FridaApiBridge on two locks, m_mutex and the core lock, and on the      *)
(* session slot of the rizin plugin's context.                             *)
(*                                                                         *)
(* A bridge call is a kind: the locks it takes, in order, and what it does *)
(* to the slot.  The backend handler inside it is one step, and always     *)
(* ends (AgentChannel!HandlersReturn).                                     *)
(***************************************************************************)
EXTENDS Integers, Sequences

CONSTANTS
  TaskKinds,    \* the kinds of call the dock hands to the worker
  ConsoleKinds, \* the kinds of command typed in the console
  None,         \* no owner of a lock
  MaxTasks,     \* bound: tasks the user starts
  MaxRefreshes, \* bound: refreshAll signals and disconnects
  MaxCommands   \* bound: console commands

Threads == {"worker", "main", "console"}

ASSUME BridgeAssumption ==
  /\ TaskKinds \subseteq {"call", "coreCall", "configCall", "open"}
  /\ ConsoleKinds \subseteq {"consoleCall", "consoleOpen", "consoleClose"}
  /\ None \notin Threads
  /\ MaxTasks \in Nat /\ MaxRefreshes \in Nat /\ MaxCommands \in Nat

VARIABLES
  queue,    \* d->queue: the tasks not yet taken, each [n, kind]
  running,  \* d->running
  quit,     \* d->quit
  task,     \* the task the worker took
  workerAt, \* where the worker's loop is
  posted,   \* callbacks queued for the main thread: [n, kind, ok]
  mainAt,   \* where the main thread is
  goal,     \* what it does there: "refresh", "disconnect" or "destroy"
  hasSession, \* m_hasSession
  api,      \* m_api is not deleted
  at,       \* at[t]: the step of thread t in a bridge call, "out" outside
  kind,     \* kind[t]: the kind of that call
  taken,    \* taken[t]: how many locks of Order(kind[t]) it has taken
  holder,   \* holder[l]: the thread that holds lock l
  ptr,      \* ptr[t]: the session pointer the call read, 0 for NULL
  fine,     \* fine[t]: the call has not thrown
  slot,     \* ctx->session, 0 for NULL
  opened,   \* sessions opened so far, numbered
  live,     \* sessions not freed
  bounds    \* counters of the bounded inputs

runnerVars == <<queue, running, quit, task, workerAt>>
mainVars   == <<posted, mainAt, goal, hasSession, api>>
callVars   == <<at, kind, taken, holder, ptr, fine>>
slotVars   == <<slot, opened, live>>
vars == <<runnerVars, mainVars, callVars, slotVars, bounds>>

LockNames == {"m_mutex", "core"}
NoTask == [n |-> 0, kind |-> "none"]

Opens == {"open", "consoleOpen"}
Closes == {"close", "consoleClose"}

\* Mutant of Order: callBackend does not take m_mutex.
OrderWithoutMutex(k) ==
  CASE k = "configCall" -> <<"core", "m_mutex">>
    [] k \in {"call", "consoleCall", "consoleOpen", "consoleClose"} -> <<"core">>
    [] OTHER -> <<"m_mutex", "core">>

\* Mutant of Order: callBackendWithCore takes the core lock first.
OrderCoreFirst(k) ==
  CASE k \in {"configCall", "coreCall"} -> <<"core", "m_mutex">>
    [] k \in {"consoleCall", "consoleOpen", "consoleClose"} -> <<"core">>
    [] OTHER -> <<"m_mutex", "core">>

\* The locks a call takes.  classes() and wpSet() ("configCall") read the
\* configuration under the core lock and keep it while callBackend runs.
Order(k) ==
  CASE k = "configCall" -> <<"core", "m_mutex">>
    [] k \in {"consoleCall", "consoleOpen", "consoleClose"} -> <<"core">>
    [] OTHER -> <<"m_mutex", "core">>

-----------------------------------------------------------------------------
(* A bridge call.                                                          *)

Step(t, s) == at' = [at EXCEPT ![t] = s]

Begin(t, k) ==
  /\ at' = [at EXCEPT ![t] = "lock"]
  /\ kind' = [kind EXCEPT ![t] = k]
  /\ taken' = [taken EXCEPT ![t] = 0]
  /\ fine' = [fine EXCEPT ![t] = TRUE]
  /\ UNCHANGED <<holder, ptr>>

TakeLock(t) ==
  /\ at[t] = "lock"
  /\ LET l == Order(kind[t])[taken[t] + 1]
     IN  /\ holder[l] = None
         /\ holder' = [holder EXCEPT ![l] = t]
  /\ taken' = [taken EXCEPT ![t] = @ + 1]
  /\ Step(t, IF taken[t] + 1 = Len(Order(kind[t])) THEN "read" ELSE "lock")
  /\ UNCHANGED <<kind, ptr, fine, runnerVars, mainVars, slotVars, bounds>>

\* Mutant of ReadSlot: an open does not look at the slot.
ReadSlotUnchecked(t) ==
  /\ at[t] = "read"
  /\ ptr' = [ptr EXCEPT ![t] = slot]
  /\ IF slot # 0 \/ kind[t] \in Opens
     THEN Step(t, "run") /\ UNCHANGED fine
     ELSE Step(t, "leave") /\ fine' = [fine EXCEPT ![t] = FALSE]
  /\ holder' = IF kind[t] = "call" THEN [holder EXCEPT !["core"] = None] ELSE holder
  /\ UNCHANGED <<kind, taken, runnerVars, mainVars, slotVars, bounds>>

\* An open requires an empty slot, any other call a session; callBackend gives
\* the core lock back once it has the pointer.
ReadSlot(t) ==
  /\ at[t] = "read"
  /\ ptr' = [ptr EXCEPT ![t] = slot]
  /\ IF (slot = 0) = (kind[t] \in Opens)
     THEN Step(t, "run") /\ UNCHANGED fine
     ELSE Step(t, "leave") /\ fine' = [fine EXCEPT ![t] = FALSE]
  /\ holder' = IF kind[t] = "call" THEN [holder EXCEPT !["core"] = None] ELSE holder
  /\ UNCHANGED <<kind, taken, runnerVars, mainVars, slotVars, bounds>>

\* A handler that leaves the slot alone, or an open that failed and freed its
\* session, or a Frc whose detach failed; the call may report an error.
RunCall(t) ==
  /\ at[t] = "run"
  /\ kind[t] # "close"
  /\ \E ok \in (IF kind[t] \in Opens \cup Closes THEN {FALSE} ELSE BOOLEAN) :
        fine' = [fine EXCEPT ![t] = ok]
  /\ Step(t, "leave")
  /\ UNCHANGED <<kind, taken, holder, ptr, runnerVars, mainVars, slotVars, bounds>>

RunOpen(t) ==
  /\ at[t] = "run"
  /\ kind[t] \in Opens
  /\ opened' = opened + 1
  /\ slot' = opened + 1
  /\ live' = live \cup {opened + 1}
  /\ Step(t, "leave")
  /\ UNCHANGED <<kind, taken, holder, ptr, fine, runnerVars, mainVars, bounds>>

\* closeSession clears the slot and frees the session even when the backend
\* could not detach.
RunClose(t) ==
  /\ at[t] = "run"
  /\ kind[t] \in Closes
  /\ slot' = 0
  /\ live' = live \ {ptr[t]}
  /\ Step(t, "leave")
  /\ UNCHANGED <<opened, kind, taken, holder, ptr, fine, runnerVars, mainVars, bounds>>

\* Returning or throwing releases what the call still holds.
Leave(t) ==
  /\ at[t] = "leave"
  /\ holder' = [l \in LockNames |-> IF holder[l] = t THEN None ELSE holder[l]]
  /\ Step(t, "out")
  /\ UNCHANGED <<kind, taken, ptr, fine, runnerVars, mainVars, slotVars, bounds>>

CallStep(t) ==
  TakeLock(t) \/ ReadSlot(t) \/ RunCall(t) \/ RunOpen(t) \/ RunClose(t) \/ Leave(t)

-----------------------------------------------------------------------------
(* FridaTaskRunner.                                                        *)

\* FridaTaskRunner::run, called on the main thread: enqueue and wake the worker.
Enqueue(k) ==
  /\ queue' = Append(queue, [n |-> bounds.tasks + 1, kind |-> k])
  /\ bounds' = [bounds EXCEPT !.tasks = @ + 1]
  /\ workerAt' = IF workerAt = "asleep" THEN "loop" ELSE workerAt
  /\ UNCHANGED <<running, quit, task>>

\* The worker's loop, under d->mutex: quit, sleep, or take a task.
WorkerSleeps ==
  /\ workerAt = "loop"
  /\ queue = <<>> /\ ~quit
  /\ workerAt' = "asleep"
  /\ UNCHANGED <<queue, running, quit, task, mainVars, callVars, slotVars, bounds>>

\* Queued tasks are dropped.
WorkerQuits ==
  /\ workerAt = "loop"
  /\ quit
  /\ workerAt' = "exited"
  /\ UNCHANGED <<queue, running, quit, task, mainVars, callVars, slotVars, bounds>>

\* Mutant of WorkerTakes: running is not set before d->mutex is released.
WorkerTakesQuietly ==
  /\ workerAt = "loop"
  /\ queue # <<>> /\ ~quit
  /\ task' = Head(queue)
  /\ queue' = Tail(queue)
  /\ workerAt' = "task"
  /\ Begin("worker", Head(queue).kind)
  /\ UNCHANGED <<running, quit, mainVars, slotVars, bounds>>

WorkerTakes ==
  /\ workerAt = "loop"
  /\ queue # <<>> /\ ~quit
  /\ running' = TRUE
  /\ task' = Head(queue)
  /\ queue' = Tail(queue)
  /\ workerAt' = "task"
  /\ Begin("worker", Head(queue).kind)
  /\ UNCHANGED <<quit, mainVars, slotVars, bounds>>

\* Mutant of WorkerFinishes: a waiting main thread is not woken.
WorkerFinishesSilently ==
  /\ workerAt = "task"
  /\ at["worker"] = "out"
  /\ running' = FALSE
  /\ workerAt' = "post"
  /\ UNCHANGED <<mainAt, queue, quit, task, posted, goal, hasSession, api, callVars, slotVars, bounds>>

\* Mutant of WorkerFinishes: the task is forgotten before its result is posted.
WorkerFinishesForgets ==
  /\ workerAt = "task"
  /\ at["worker"] = "out"
  /\ running' = FALSE
  /\ task' = NoTask
  /\ mainAt' = IF queue = <<>> /\ mainAt = "asleep" THEN "wait" ELSE mainAt
  /\ workerAt' = "post"
  /\ UNCHANGED <<queue, quit, posted, goal, hasSession, api, callVars, slotVars,
                 bounds>>

\* The task returned or threw: no longer running, and idle if none is queued.
WorkerFinishes ==
  /\ workerAt = "task"
  /\ at["worker"] = "out"
  /\ running' = FALSE
  /\ mainAt' = IF queue = <<>> /\ mainAt = "asleep" THEN "wait" ELSE mainAt
  /\ workerAt' = "post"
  /\ UNCHANGED <<queue, quit, task, posted, goal, hasSession, api, callVars, slotVars, bounds>>

\* The result is posted to the main thread's event loop.
WorkerPosts ==
  /\ workerAt = "post"
  /\ posted' = Append(posted, [n |-> task.n, kind |-> task.kind, ok |-> fine["worker"]])
  /\ workerAt' = "loop"
  /\ UNCHANGED <<queue, running, quit, task, mainAt, goal, hasSession, api, callVars, slotVars, bounds>>

-----------------------------------------------------------------------------
(* The main thread: FridaDockWidget.                                       *)

MainGoes(step) == mainAt' = step

\* A click hands a call to the worker; without a session only an open.
Click(k) ==
  /\ mainAt = "loop"
  /\ k = "open" \/ hasSession
  /\ bounds.tasks < MaxTasks
  /\ Enqueue(k)
  /\ UNCHANGED <<mainVars, callVars, slotVars>>

\* A callback: the open of a spawn starts the resume task; the result of an
\* open or a resume refreshes the session state; others only fill widgets.
Callback ==
  /\ mainAt = "loop"
  /\ posted # <<>>
  /\ posted' = Tail(posted)
  /\ \/ /\ Head(posted).kind = "open" /\ Head(posted).ok
        /\ bounds.tasks < MaxTasks
        /\ Enqueue("call")
        /\ UNCHANGED <<mainAt, goal>>
     \/ /\ Head(posted).kind = "call" \/ (Head(posted).kind = "open" /\ Head(posted).ok)
        /\ MainGoes("hasSession") /\ goal' = "refresh"
        /\ UNCHANGED <<runnerVars, bounds>>
     \/ /\ Head(posted).kind # "open" \/ ~Head(posted).ok
        /\ UNCHANGED <<mainAt, goal, runnerVars, bounds>>
  /\ UNCHANGED <<hasSession, api, callVars, slotVars>>

\* Core()->refreshAll: updateSessionState.
RefreshAll ==
  /\ mainAt = "loop"
  /\ bounds.refreshes < MaxRefreshes
  /\ bounds' = [bounds EXCEPT !.refreshes = @ + 1]
  /\ MainGoes("hasSession") /\ goal' = "refresh"
  /\ UNCHANGED <<posted, hasSession, api, runnerVars, callVars, slotVars>>

\* hasSession reads the slot under the core lock alone; with a session,
\* javaAvailable is called on this thread.
HasSession ==
  /\ mainAt = "hasSession"
  /\ holder["core"] = None
  /\ hasSession' = (slot # 0)
  /\ IF slot = 0
     THEN MainGoes("loop") /\ UNCHANGED callVars
     ELSE MainGoes("call") /\ Begin("main", "call")
  /\ UNCHANGED <<posted, goal, api, runnerVars, slotVars, bounds>>

\* onDisconnectClicked waits for the tasks, closes, and refreshes.
Disconnect ==
  /\ mainAt = "loop"
  /\ bounds.refreshes < MaxRefreshes
  /\ bounds' = [bounds EXCEPT !.refreshes = @ + 1]
  /\ MainGoes("wait") /\ goal' = "disconnect"
  /\ UNCHANGED <<posted, hasSession, api, runnerVars, callVars, slotVars>>

\* ~FridaDockWidget waits for the tasks and deletes the bridge.
Destroy ==
  /\ mainAt = "loop"
  /\ MainGoes("wait") /\ goal' = "destroy"
  /\ UNCHANGED <<posted, hasSession, api, runnerVars, callVars, slotVars, bounds>>

\* waitForAll, under d->mutex: done, or sleep until the worker is idle.
WaitSleeps ==
  /\ mainAt = "wait"
  /\ queue # <<>> \/ running
  /\ MainGoes("asleep")
  /\ UNCHANGED <<posted, goal, hasSession, api, runnerVars, callVars, slotVars, bounds>>

WaitDone ==
  /\ mainAt = "wait"
  /\ queue = <<>> /\ ~running
  /\ MainGoes("drained")
  /\ UNCHANGED <<posted, goal, hasSession, api, runnerVars, callVars, slotVars, bounds>>

CloseSession ==
  /\ mainAt = "drained" /\ goal = "disconnect"
  /\ MainGoes("call")
  /\ Begin("main", "close")
  /\ UNCHANGED <<posted, goal, hasSession, api, runnerVars, slotVars, bounds>>

\* A call on the main thread returned.
MainReturns ==
  /\ mainAt = "call"
  /\ at["main"] = "out"
  /\ MainGoes(IF goal = "disconnect" THEN "hasSession" ELSE "loop")
  /\ goal' = "refresh"
  /\ UNCHANGED <<posted, hasSession, api, runnerVars, callVars, slotVars, bounds>>

\* delete m_api, then ~FridaTaskRunner tells the worker to quit.  Posted
\* callbacks die with the runner, their receiver.
DeleteApi ==
  /\ mainAt = "drained" /\ goal = "destroy"
  /\ api' = FALSE
  /\ posted' = <<>>
  /\ quit' = TRUE
  /\ workerAt' = IF workerAt = "asleep" THEN "loop" ELSE workerAt
  /\ MainGoes("join")
  /\ UNCHANGED <<goal, hasSession, queue, running, task, callVars, slotVars, bounds>>

\* d->thread->wait().
Joined ==
  /\ mainAt = "join"
  /\ workerAt = "exited"
  /\ MainGoes("gone")
  /\ UNCHANGED <<posted, goal, hasSession, api, runnerVars, callVars, slotVars, bounds>>

\* A command typed in the console; rizin holds the core lock around it.
Command(k) ==
  /\ at["console"] = "out"
  /\ bounds.commands < MaxCommands
  /\ bounds' = [bounds EXCEPT !.commands = @ + 1]
  /\ Begin("console", k)
  /\ UNCHANGED <<runnerVars, mainVars, slotVars>>

-----------------------------------------------------------------------------
\* The dock's constructor ends with updateSessionState; the console may have
\* opened a session before.
Init ==
  /\ queue = <<>>
  /\ running = FALSE
  /\ quit = FALSE
  /\ task = NoTask
  /\ workerAt = "loop"
  /\ posted = <<>>
  /\ mainAt = "hasSession"
  /\ goal = "refresh"
  /\ hasSession = FALSE
  /\ api = TRUE
  /\ at = [t \in Threads |-> "out"]
  /\ kind = [t \in Threads |-> "none"]
  /\ taken = [t \in Threads |-> 0]
  /\ holder = [l \in LockNames |-> None]
  /\ ptr = [t \in Threads |-> 0]
  /\ fine = [t \in Threads |-> TRUE]
  /\ slot \in {0, 1}
  /\ opened = slot
  /\ live = {slot} \ {0}
  /\ bounds = [tasks |-> 0, refreshes |-> 0, commands |-> 0]

WorkerStep ==
  WorkerSleeps \/ WorkerQuits \/ WorkerTakes \/ WorkerFinishes \/ WorkerPosts

\* What the main thread does by itself, and what the user makes it do.
MainStep ==
  \/ Callback
  \/ HasSession
  \/ WaitSleeps
  \/ WaitDone
  \/ CloseSession
  \/ MainReturns
  \/ DeleteApi
  \/ Joined

UserStep ==
  \/ \E k \in TaskKinds : Click(k)
  \/ \E k \in ConsoleKinds : Command(k)
  \/ RefreshAll
  \/ Disconnect
  \/ Destroy

\* The dock is gone and the console is at rest.
Rest == mainAt = "gone" /\ at["console"] = "out" /\ UNCHANGED vars

Next == (\E t \in Threads : CallStep(t)) \/ WorkerStep \/ MainStep \/ UserStep \/ Rest

Spec == Init /\ [][Next]_vars

\* The three threads are scheduled; a lock that stays free is granted.  The user
\* is not assumed to do anything.
Fairness ==
  /\ \A t \in Threads : WF_vars(CallStep(t))
  /\ WF_vars(WorkerStep)
  /\ WF_vars(MainStep)

FairSpec == Spec /\ Fairness

-----------------------------------------------------------------------------
(* Correctness.                                                            *)

\* Every variable has its type.
TypeOK ==
  /\ queue \in Seq([n : Nat, kind : TaskKinds \cup {"call"}])
  /\ posted \in Seq([n : Nat, kind : TaskKinds \cup {"call"}, ok : BOOLEAN])
  /\ \A b \in {running, quit, hasSession, api} : b \in BOOLEAN
  /\ workerAt \in {"loop", "asleep", "task", "post", "exited"}
  /\ mainAt \in {"loop", "hasSession", "call", "wait", "asleep", "drained", "join", "gone"}
  /\ goal \in {"refresh", "disconnect", "destroy"}
  /\ at \in [Threads -> {"out", "lock", "read", "run", "leave"}]
  /\ taken \in [Threads -> 0 .. 2]
  /\ holder \in [LockNames -> Threads \cup {None}]
  /\ ptr \in [Threads -> Nat] /\ fine \in [Threads -> BOOLEAN]
  /\ slot \in Nat /\ opened \in Nat /\ live \in SUBSET Nat

\* Exactly the stored session is alive: no open overwrites a session, no close
\* leaves one behind, whether it comes from the dock or from the console.
OneSession == live = {slot} \ {0}

\* The comment on class FridaTaskRunner: the backend assumes one request in
\* flight.  The worker's task and a call of the main thread never overlap.
OneCallAtATime == ~(at["worker"] = "run" /\ at["main"] = "run")

\* The session a backend handler works on is not freed under it: README,
\* "session calls are serialized with a mutex".
SessionOutlivesCall ==
  \A t \in Threads : at[t] = "run" /\ kind[t] \notin Opens => ptr[t] \in live

\* The dock sees the runner as Tasks: a task has run when the worker is done
\* with it, and its result waits until the callback runs.
waiting == (IF workerAt = "task" THEN <<task>> ELSE <<>>) \o queue
results ==
  IF api
  THEN [i \in DOMAIN posted |-> [n |-> posted[i].n, kind |-> posted[i].kind]]
         \o (IF workerAt = "post" THEN <<task>> ELSE <<>>)
  ELSE <<>>
Runner == INSTANCE Tasks WITH
  Batches <- {<<job>> : job \in [n : 1 .. MaxTasks, kind : TaskKinds \cup {"call"}]},
  waiting <- waiting, results <- results, open <- api

\* FridaTaskRunner.h: tasks run one at a time and in order, each callback after
\* its task and in the same order, and waitForAll returns only when none is
\* left, so that the bridge is never deleted under a task and no callback
\* reaches a dock that is gone.
ImplementsTasks == Runner!TasksSpec

Handed(n) == \E i \in DOMAIN (waiting \o results) : (waiting \o results)[i].n = n

\* Every task is answered on the main thread, unless the dock is destroyed first
\* (the comment on class FridaTaskRunner).  As waitForAll sleeps on the main
\* thread only while a task is left, it returns when this holds.
TaskAnswered == \A n \in 1 .. MaxTasks : Handed(n) ~> ~Handed(n)

\* Two threads wait for each other's lock, the worker in classes() or wpSet().
Inverted ==
  /\ kind["worker"] = "configCall"
  /\ holder["core"] = "worker"
  /\ holder["m_mutex"] = "main"
  /\ at["main"] = "lock"

\* Every task is answered, unless the dock is destroyed first or the inverted
\* lock order of classes() and wpSet() bites: no other pair of calls, and no wait
\* of the main thread, is part of a cycle (callBackend, waitForAll).
AnsweredUnlessInverted == \A n \in 1 .. MaxTasks : Handed(n) ~> (~Handed(n) \/ Inverted)

\* Whom a thread waits for: the holder of a lock it needs; waitForAll and the
\* thread's wait() wait for the worker, and only the main thread wakes the
\* worker when it has nothing to do.
WaitsFor(t, u) ==
  \/ at[t] = "lock" /\ holder[Order(kind[t])[taken[t] + 1]] = u
  \/ t = "main" /\ mainAt = "hasSession" /\ holder["core"] = u
  \/ t = "main" /\ u = "worker" /\ mainAt = "asleep"
  \/ t = "main" /\ u = "worker" /\ mainAt = "join" /\ workerAt # "exited"
  \/ t = "worker" /\ u = "main" /\ workerAt = "asleep"

\* Threads never wait for each other, for a lock or for a wake-up that nobody is
\* left to give, but for the inverted lock order of classes() and wpSet().
StuckOnlyInverted ==
  \A stuck \in (SUBSET Threads) \ {{}} :
    (\A t \in stuck : \E u \in stuck : WaitsFor(t, u)) => Inverted
=============================================================================
