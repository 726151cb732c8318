----------------------------- MODULE BridgeProofs -----------------------------
(***************************************************************************)
(* Proofs about Bridge, for any kinds of call and any bounds: a call holds *)
(* the locks of its kind, in the order in which it takes them              *)
(* (LocksHeld), therefore the worker and the main thread are never inside  *)
(* the backend together, the session slot names the one live session, and  *)
(* only an inverted pair of locks leaves threads waiting for each other.   *)
(***************************************************************************)
EXTENDS Bridge, SequenceTheorems, TLAPS

WorkerKinds == TaskKinds \cup {"call"}
MainKinds == {"call", "close"}
Kinds == WorkerKinds \cup MainKinds \cup ConsoleKinds
Job == [n : Nat, kind : WorkerKinds]

Answer == [n : Nat, kind : WorkerKinds, ok : BOOLEAN]

\* TypeOK, and the variables it leaves out.
RunnerTypes ==
  /\ queue \in Seq(Job)
  /\ running \in BOOLEAN
  /\ quit \in BOOLEAN
  /\ task \in Job \cup {NoTask}
  /\ workerAt \in {"loop", "asleep", "task", "post", "exited"}
  /\ workerAt \in {"task", "post"} => task \in Job
MainTypes ==
  /\ posted \in Seq(Answer)
  /\ mainAt \in {"loop", "hasSession", "call", "wait", "asleep", "drained", "join", "gone"}
  /\ goal \in {"refresh", "disconnect", "destroy"}
  /\ hasSession \in BOOLEAN
  /\ api \in BOOLEAN
CallTypes ==
  /\ at \in [Threads -> {"out", "lock", "read", "run", "leave"}]
  /\ kind \in [Threads -> Kinds \cup {"none"}]
  /\ taken \in [Threads -> 0 .. 2]
  /\ holder \in [LockNames -> Threads \cup {None}]
  /\ ptr \in [Threads -> Nat]
  /\ fine \in [Threads -> BOOLEAN]
SlotTypes == slot \in Nat /\ opened \in Nat /\ live \in SUBSET Nat
Bounded == bounds \in [tasks : 0 .. MaxTasks, refreshes : Nat, commands : Nat]

Types == RunnerTypes /\ MainTypes /\ CallTypes /\ SlotTypes /\ Bounded

\* A thread is in a call only where its code calls the bridge, and makes only
\* the calls that code makes.
CallsPlaced ==
  /\ at["worker"] # "out" => workerAt = "task" /\ kind["worker"] \in WorkerKinds
  /\ at["main"] # "out" => mainAt = "call" /\ kind["main"] \in MainKinds
  /\ at["console"] # "out" => kind["console"] \in ConsoleKinds

\* How many locks a call has taken at each step.
LocksTaken ==
  \A t \in Threads :
    /\ at[t] = "lock" => taken[t] < Len(Order(kind[t]))
    /\ at[t] \in {"read", "run", "leave"} => taken[t] = Len(Order(kind[t]))

\* callBackend has given the core lock back once it has read the slot.
GaveBack(t, l) == l = "core" /\ kind[t] = "call" /\ at[t] \in {"run", "leave"}

Holds(t, l) ==
  /\ at[t] # "out"
  /\ \E i \in 1 .. taken[t] : Order(kind[t])[i] = l
  /\ ~GaveBack(t, l)

LocksHeld == \A t \in Threads, l \in LockNames : holder[l] = t <=> Holds(t, l)

LockInv == CallsPlaced /\ LocksTaken /\ LocksHeld

\* An open or a close that is about to run sees the slot as it is.
SlotRead ==
  \A t \in Threads :
    at[t] = "run" /\ kind[t] \in Opens \cup Closes =>
      /\ ptr[t] = slot
      /\ kind[t] \in Opens => slot = 0

SessionInv ==
  /\ OneSession
  /\ SlotRead
  /\ slot <= opened

USE BridgeAssumption DEF Threads, LockNames

-----------------------------------------------------------------------------
(* Locks.                                                                  *)

LEMMA OrderIs ==
  ASSUME NEW k
  PROVE  /\ Order(k) \in {<<"m_mutex", "core">>, <<"core", "m_mutex">>, <<"core">>}
         /\ Len(Order(k)) \in 1 .. 2
         /\ \A i \in 1 .. Len(Order(k)) : Order(k)[i] \in LockNames
         /\ \A i, j \in 1 .. Len(Order(k)) : Order(k)[i] = Order(k)[j] => i = j
         /\ \E i \in 1 .. Len(Order(k)) : Order(k)[i] = "core"
<1>1. Order(k) \in {<<"m_mutex", "core">>, <<"core", "m_mutex">>, <<"core">>}
  BY DEF Order
<1>2. CASE Order(k) = <<"m_mutex", "core">>
  BY <1>2
<1>3. CASE Order(k) = <<"core", "m_mutex">>
  BY <1>3
<1>4. CASE Order(k) = <<"core">>
  BY <1>4
<1>5. QED
  BY <1>1, <1>2, <1>3, <1>4

\* Every call but a console command's takes m_mutex.
LEMMA TakesMutex ==
  ASSUME NEW k \in WorkerKinds \cup MainKinds
  PROVE  \E i \in 1 .. Len(Order(k)) : Order(k)[i] = "m_mutex"
<1>1. k \notin {"consoleCall", "consoleOpen", "consoleClose"}
  BY DEF WorkerKinds, MainKinds
<1>2. Order(k) \in {<<"m_mutex", "core">>, <<"core", "m_mutex">>}
  BY <1>1 DEF Order
<1>3. CASE Order(k) = <<"m_mutex", "core">>
  BY <1>3
<1>4. CASE Order(k) = <<"core", "m_mutex">>
  BY <1>4
<1>5. QED
  BY <1>2, <1>3, <1>4
-----------------------------------------------------------------------------
(* Types.                                                                  *)

LEMMA TypesInit ==
  ASSUME Init
  PROVE  Types
<1>1. RunnerTypes
  BY EmptySeq DEF Init, RunnerTypes
<1>2. MainTypes
  BY EmptySeq DEF Init, MainTypes
<1>3. CallTypes
  BY DEF Init, CallTypes
<1>4. SlotTypes /\ Bounded
  BY DEF Init, SlotTypes, Bounded
<1>5. QED
  BY <1>1, <1>2, <1>3, <1>4 DEF Types

LEMMA TypesSuffice ==
  ASSUME Types
  PROVE  TypeOK
BY DEF Types, RunnerTypes, MainTypes, CallTypes, SlotTypes, TypeOK, Job, Answer, WorkerKinds

LEMMA NextTask ==
  ASSUME Types, queue # <<>>
  PROVE  /\ Head(queue) \in Job /\ Tail(queue) \in Seq(Job)
         /\ Head(queue).kind \in WorkerKinds
<1>1. Head(queue) \in Job /\ Tail(queue) \in Seq(Job)
  BY HeadTailProperties DEF Types, RunnerTypes
<1>2. QED
  BY <1>1 DEF Job

LEMMA BeginTypes ==
  ASSUME CallTypes, NEW t \in Threads, NEW k \in Kinds, Begin(t, k)
  PROVE  CallTypes'
BY DEF CallTypes, Begin

LEMMA EnqueueTypes ==
  ASSUME RunnerTypes, Bounded, NEW k \in WorkerKinds, bounds.tasks < MaxTasks, Enqueue(k)
  PROVE  RunnerTypes' /\ Bounded'
<1>1. [n |-> bounds.tasks + 1, kind |-> k] \in Job
  BY DEF Bounded, Job
<1>2. queue' \in Seq(Job)
  BY <1>1, AppendProperties DEF Enqueue, RunnerTypes
<1>3. RunnerTypes'
  BY <1>2 DEF Enqueue, RunnerTypes
<1>4. Bounded'
  BY DEF Enqueue, Bounded
<1>5. QED
  BY <1>3, <1>4

LEMMA CallStepFrame ==
  ASSUME NEW t \in Threads, CallStep(t)
  PROVE  UNCHANGED <<runnerVars, mainVars, bounds>>
BY DEF CallStep, TakeLock, ReadSlot, RunCall, RunOpen, RunClose, Leave

LEMMA CallStepTypes ==
  ASSUME Types, LocksTaken, NEW t \in Threads, CallStep(t)
  PROVE  Types'
<1>1. RunnerTypes' /\ MainTypes' /\ Bounded'
  BY CallStepFrame DEF Types, RunnerTypes, MainTypes, Bounded, runnerVars, mainVars
<1>2. SlotTypes'
  <2>1. CASE RunOpen(t)
    BY <2>1 DEF RunOpen, Types, SlotTypes
  <2>2. CASE RunClose(t)
    BY <2>2 DEF RunClose, Types, SlotTypes
  <2>3. CASE UNCHANGED slotVars
    BY <2>3 DEF slotVars, Types, SlotTypes
  <2>4. QED
    BY <2>1, <2>2, <2>3 DEF CallStep, TakeLock, ReadSlot, RunCall, Leave
<1>3. CallTypes'
  <2>1. CASE TakeLock(t)
    <3>1. taken[t] + 1 \in 0 .. 2
      BY <2>1, OrderIs DEF TakeLock, LocksTaken, Types, CallTypes
    <3>2. Order(kind[t])[taken[t] + 1] \in LockNames
      BY <2>1, <3>1, OrderIs DEF TakeLock, LocksTaken, Types, CallTypes
    <3>3. QED
      <4>1. taken' \in [Threads -> 0 .. 2]
        BY <2>1, <3>1 DEF TakeLock, Types, CallTypes
      <4>2. holder' \in [LockNames -> Threads \cup {None}]
        BY <2>1, <3>2 DEF TakeLock, Types, CallTypes
      <4>3. at' \in [Threads -> {"out", "lock", "read", "run", "leave"}]
        BY <2>1 DEF TakeLock, Types, CallTypes, Step
      <4>4. QED
        BY <2>1, <4>1, <4>2, <4>3 DEF TakeLock, Types, CallTypes
  <2>2. CASE ReadSlot(t)
    <3>1. holder' \in [LockNames -> Threads \cup {None}] /\ ptr' \in [Threads -> Nat]
      BY <2>2 DEF ReadSlot, Types, CallTypes, SlotTypes
    <3>2. at' \in [Threads -> {"out", "lock", "read", "run", "leave"}]
      BY <2>2 DEF ReadSlot, Types, CallTypes, Step
    <3>3. fine' \in [Threads -> BOOLEAN]
      <4>1. fine' = fine \/ fine' = [fine EXCEPT ![t] = FALSE]
        BY <2>2 DEF ReadSlot
      <4>2. QED
        BY <4>1 DEF Types, CallTypes
    <3>4. QED
      BY <2>2, <3>1, <3>2, <3>3 DEF ReadSlot, Types, CallTypes
  <2>3. CASE RunCall(t)
    <3>1. PICK ok \in BOOLEAN : fine' = [fine EXCEPT ![t] = ok]
      BY <2>3 DEF RunCall
    <3>2. QED
      BY <2>3, <3>1 DEF RunCall, Types, CallTypes, Step
  <2>4. CASE RunOpen(t)
    BY <2>4 DEF RunOpen, Types, CallTypes, Step
  <2>5. CASE RunClose(t)
    BY <2>5 DEF RunClose, Types, CallTypes, Step
  <2>6. CASE Leave(t)
    BY <2>6 DEF Leave, Types, CallTypes, Step
  <2>7. QED
    BY <2>1, <2>2, <2>3, <2>4, <2>5, <2>6 DEF CallStep
<1>4. QED
  BY <1>1, <1>2, <1>3 DEF Types

LEMMA WorkerStepTypes ==
  ASSUME Types, CallsPlaced, WorkerStep
  PROVE  Types'
<1>1. SlotTypes' /\ Bounded'
  BY DEF Types, SlotTypes, Bounded, WorkerStep, WorkerSleeps, WorkerQuits, WorkerTakes,
         WorkerFinishes, WorkerPosts, slotVars
<1>2. CASE WorkerTakes
  <2>1. Head(queue) \in Job /\ Tail(queue) \in Seq(Job)
    BY <1>2, NextTask DEF WorkerTakes
  <2>2. CallTypes'
    BY <1>2, <2>1, BeginTypes DEF WorkerTakes, Types, Job, Kinds
  <2>3. QED
    BY <1>1, <1>2, <2>1, <2>2 DEF WorkerTakes, Types, RunnerTypes, MainTypes, mainVars
<1>3. CASE WorkerPosts
  <2>1. task \in Job
    BY <1>3 DEF WorkerPosts, Types, RunnerTypes
  <2>2. [n |-> task.n, kind |-> task.kind, ok |-> fine["worker"]] \in Answer
    BY <2>1 DEF Types, CallTypes, Job, Answer
  <2>3. posted' \in Seq(Answer)
    BY <1>3, <2>2, AppendProperties DEF WorkerPosts, Types, MainTypes
  <2>4. QED
    BY <1>1, <1>3, <2>3
    DEF WorkerPosts, Types, RunnerTypes, MainTypes, CallTypes, callVars
<1>4. CASE WorkerFinishes
  <2>1. MainTypes'
    BY <1>4 DEF WorkerFinishes, Types, MainTypes
  <2>2. RunnerTypes'
    BY <1>4 DEF WorkerFinishes, Types, RunnerTypes
  <2>3. QED
    BY <1>1, <1>4, <2>1, <2>2 DEF WorkerFinishes, Types, CallTypes, callVars
<1>5. CASE WorkerSleeps \/ WorkerQuits
  BY <1>1, <1>5
  DEF WorkerSleeps, WorkerQuits, Types, RunnerTypes, MainTypes, CallTypes, mainVars, callVars
<1>6. QED
  BY <1>2, <1>3, <1>4, <1>5 DEF WorkerStep

LEMMA CallbackTypes ==
  ASSUME Types, Callback
  PROVE  Types'
<1>1. Tail(posted) \in Seq(Answer)
  BY HeadTailProperties DEF Callback, Types, MainTypes
<1>2. MainTypes'
  BY <1>1 DEF Callback, Types, MainTypes, MainGoes
<1>3. CallTypes' /\ SlotTypes'
  BY DEF Callback, Types, CallTypes, SlotTypes, callVars, slotVars
<1>4. CASE bounds.tasks < MaxTasks /\ Enqueue("call")
  BY <1>2, <1>3, <1>4, EnqueueTypes DEF Types, WorkerKinds
<1>5. CASE UNCHANGED <<runnerVars, bounds>>
  BY <1>2, <1>3, <1>5 DEF Types, RunnerTypes, Bounded, runnerVars
<1>6. QED
  BY <1>4, <1>5 DEF Callback

LEMMA MainStepTypes ==
  ASSUME Types, MainStep
  PROVE  Types'
<1>1. CASE HasSession
  <2>1. MainTypes'
    BY <1>1 DEF HasSession, Types, MainTypes, MainGoes
  <2>2. CallTypes'
    <3>1. CASE Begin("main", "call")
      BY <3>1, BeginTypes DEF Types, Kinds, MainKinds
    <3>2. CASE UNCHANGED callVars
      BY <3>2 DEF Types, CallTypes, callVars
    <3>3. QED
      BY <1>1, <3>1, <3>2 DEF HasSession
  <2>3. QED
    BY <1>1, <2>1, <2>2
    DEF HasSession, Types, RunnerTypes, SlotTypes, Bounded, runnerVars, slotVars
<1>2. CASE CloseSession
  <2>1. CallTypes'
    BY <1>2, BeginTypes DEF CloseSession, Types, Kinds, MainKinds
  <2>2. QED
    BY <1>2, <2>1
    DEF CloseSession, MainGoes, Types, RunnerTypes, MainTypes, SlotTypes, Bounded, runnerVars,
        slotVars
<1>3. CASE DeleteApi
  <2>1. RunnerTypes'
    BY <1>3 DEF DeleteApi, Types, RunnerTypes
  <2>2. MainTypes'
    BY <1>3, EmptySeq DEF DeleteApi, MainGoes, Types, MainTypes
  <2>3. QED
    BY <1>3, <2>1, <2>2
    DEF DeleteApi, Types, CallTypes, SlotTypes, Bounded, callVars, slotVars
<1>4. CASE WaitSleeps \/ WaitDone \/ MainReturns \/ Joined
  <2>1. UNCHANGED <<runnerVars, callVars, slotVars, bounds>>
    BY <1>4 DEF WaitSleeps, WaitDone, MainReturns, Joined
  <2>2. MainTypes'
    BY <1>4 DEF WaitSleeps, WaitDone, MainReturns, Joined, MainGoes, Types, MainTypes
  <2>3. QED
    BY <2>1, <2>2
    DEF Types, RunnerTypes, CallTypes, SlotTypes, Bounded, runnerVars, callVars, slotVars
<1>5. QED
  BY <1>1, <1>2, <1>3, <1>4, CallbackTypes DEF MainStep

LEMMA UserStepTypes ==
  ASSUME Types, UserStep
  PROVE  Types'
<1>1. ASSUME NEW k \in TaskKinds, Click(k)
      PROVE  Types'
  <2>1. RunnerTypes' /\ Bounded'
    BY <1>1, EnqueueTypes DEF Click, Types, WorkerKinds
  <2>2. QED
    BY <1>1, <2>1
    DEF Click, Types, MainTypes, CallTypes, SlotTypes, mainVars, callVars, slotVars
<1>2. ASSUME NEW k \in ConsoleKinds, Command(k)
      PROVE  Types'
  <2>1. CallTypes'
    BY <1>2, BeginTypes DEF Command, Types, Kinds
  <2>2. QED
    BY <1>2, <2>1
    DEF Command, Types, RunnerTypes, MainTypes, SlotTypes, Bounded, runnerVars, mainVars, slotVars
<1>3. CASE RefreshAll \/ Disconnect \/ Destroy
  <2>1. UNCHANGED <<runnerVars, callVars, slotVars>>
    BY <1>3 DEF RefreshAll, Disconnect, Destroy
  <2>2. MainTypes'
    BY <1>3 DEF RefreshAll, Disconnect, Destroy, MainGoes, Types, MainTypes
  <2>3. Bounded'
    BY <1>3 DEF RefreshAll, Disconnect, Destroy, Types, Bounded
  <2>4. QED
    BY <2>1, <2>2, <2>3
    DEF Types, RunnerTypes, CallTypes, SlotTypes, runnerVars, callVars, slotVars
<1>4. QED
  BY <1>1, <1>2, <1>3 DEF UserStep

LEMMA TypesKept ==
  ASSUME Types, LocksTaken, CallsPlaced, [Next]_vars
  PROVE  Types'
<1>1. CASE UNCHANGED vars
  BY <1>1
  DEF vars, runnerVars, mainVars, callVars, slotVars, Types, RunnerTypes, MainTypes, CallTypes,
      SlotTypes, Bounded
<1>2. QED
  BY <1>1, CallStepTypes, WorkerStepTypes, MainStepTypes, UserStepTypes DEF Next, Rest

-----------------------------------------------------------------------------
(* Every call holds the locks of its kind.                                 *)

LEMMA CallsPlacedKept ==
  ASSUME Types, CallsPlaced, [Next]_vars
  PROVE  CallsPlaced'
<1>1. ASSUME NEW t \in Threads, CallStep(t)
      PROVE  CallsPlaced'
  <2>1. UNCHANGED <<kind, workerAt, mainAt>> /\ at[t] # "out"
    BY <1>1
    DEF CallStep, TakeLock, ReadSlot, RunCall, RunOpen, RunClose, Leave, runnerVars, mainVars
  <2>2. \A u \in Threads \ {t} : at'[u] = at[u]
    BY <1>1
    DEF CallStep, TakeLock, ReadSlot, RunCall, RunOpen, RunClose, Leave, Step, Types, CallTypes
  <2>3. \A u \in Threads : at'[u] # "out" => at[u] # "out"
    BY <2>1, <2>2
  <2>4. QED
    BY <2>1, <2>3 DEF CallsPlaced
<1>2. CASE WorkerTakes
  <2>1. Head(queue).kind \in WorkerKinds
    BY <1>2, NextTask DEF WorkerTakes
  <2>2. workerAt' = "task" /\ mainAt' = mainAt
    BY <1>2 DEF WorkerTakes, mainVars
  <2>3. kind' = [kind EXCEPT !["worker"] = Head(queue).kind]
        /\ at' = [at EXCEPT !["worker"] = "lock"]
    BY <1>2 DEF WorkerTakes, Begin
  <2>4. QED
    BY <2>1, <2>2, <2>3 DEF CallsPlaced, Types, CallTypes
<1>3. CASE WorkerSleeps \/ WorkerQuits \/ WorkerFinishes \/ WorkerPosts
  BY <1>3
  DEF WorkerSleeps, WorkerQuits, WorkerFinishes, WorkerPosts, mainVars, callVars, CallsPlaced
<1>4. CASE Callback
  BY <1>4 DEF Callback, Enqueue, MainGoes, runnerVars, callVars, CallsPlaced
<1>5. CASE HasSession
  <2>1. CASE slot # 0
    BY <1>5, <2>1
    DEF HasSession, Begin, MainGoes, runnerVars, CallsPlaced, MainKinds, Types, CallTypes
  <2>2. CASE slot = 0
    BY <1>5, <2>2 DEF HasSession, MainGoes, runnerVars, callVars, CallsPlaced
  <2>3. QED
    BY <2>1, <2>2
<1>6. CASE CloseSession
  BY <1>6 DEF CloseSession, Begin, MainGoes, runnerVars, CallsPlaced, MainKinds, Types, CallTypes
<1>7. CASE WaitSleeps \/ WaitDone \/ MainReturns \/ Joined \/ DeleteApi
  BY <1>7
  DEF WaitSleeps, WaitDone, MainReturns, Joined, DeleteApi, MainGoes, runnerVars, callVars,
      CallsPlaced
<1>8. ASSUME NEW k \in TaskKinds, Click(k)
      PROVE  CallsPlaced'
  BY <1>8 DEF Click, Enqueue, mainVars, callVars, CallsPlaced
<1>9. ASSUME NEW k \in ConsoleKinds, Command(k)
      PROVE  CallsPlaced'
  BY <1>9 DEF Command, Begin, runnerVars, mainVars, CallsPlaced, Types, CallTypes
<1>10. CASE RefreshAll \/ Disconnect \/ Destroy
  BY <1>10 DEF RefreshAll, Disconnect, Destroy, MainGoes, runnerVars, callVars, CallsPlaced
<1>11. CASE UNCHANGED vars
  BY <1>11 DEF vars, runnerVars, mainVars, callVars, CallsPlaced
<1>12. QED
  BY <1>1, <1>2, <1>3, <1>4, <1>5, <1>6, <1>7, <1>8, <1>9, <1>10, <1>11
  DEF Next, WorkerStep, MainStep, UserStep, Rest

\* What a step does to the calls and the slot: a call goes on, one begins, or
\* nothing changes.
LEMMA CallsChange ==
  ASSUME Types, CallsPlaced, [Next]_vars
  PROVE  \/ \E t \in Threads : CallStep(t)
         \/ \E t \in Threads, k \in Kinds : at[t] = "out" /\ Begin(t, k) /\ UNCHANGED slotVars
         \/ UNCHANGED <<callVars, slotVars>>
<1>1. CASE WorkerTakes
  <2>1. Head(queue).kind \in Kinds
    BY <1>1, NextTask DEF WorkerTakes, Kinds
  <2>2. at["worker"] = "out" /\ Begin("worker", Head(queue).kind) /\ UNCHANGED slotVars
    BY <1>1 DEF WorkerTakes, CallsPlaced
  <2>3. QED
    BY <2>1, <2>2
<1>2. CASE HasSession \/ CloseSession
  <2>1. at["main"] = "out"
    BY <1>2 DEF HasSession, CloseSession, CallsPlaced
  <2>2. QED
    BY <1>2, <2>1 DEF HasSession, CloseSession, Kinds, MainKinds
<1>3. ASSUME NEW k \in ConsoleKinds, Command(k)
      PROVE  at["console"] = "out" /\ Begin("console", k) /\ UNCHANGED slotVars /\ k \in Kinds
  BY <1>3 DEF Command, Kinds
<1>4. CASE WorkerSleeps \/ WorkerQuits \/ WorkerFinishes \/ WorkerPosts
  BY <1>4 DEF WorkerSleeps, WorkerQuits, WorkerFinishes, WorkerPosts
<1>5. CASE Callback \/ WaitSleeps \/ WaitDone \/ MainReturns \/ DeleteApi \/ Joined
  BY <1>5 DEF Callback, WaitSleeps, WaitDone, MainReturns, DeleteApi, Joined
<1>6. CASE (\E k \in TaskKinds : Click(k)) \/ RefreshAll \/ Disconnect \/ Destroy
  BY <1>6 DEF Click, RefreshAll, Disconnect, Destroy
<1>7. CASE UNCHANGED vars
  BY <1>7 DEF vars
<1>8. QED
  BY <1>1, <1>2, <1>3, <1>4, <1>5, <1>6, <1>7 DEF Next, WorkerStep, MainStep, UserStep, Rest

LEMMA BeginLocks ==
  ASSUME Types, LocksTaken, LocksHeld,
         NEW t \in Threads, NEW k \in Kinds, at[t] = "out", Begin(t, k)
  PROVE  LocksTaken' /\ LocksHeld'
<1>1. /\ at' = [at EXCEPT ![t] = "lock"] /\ kind' = [kind EXCEPT ![t] = k]
      /\ taken' = [taken EXCEPT ![t] = 0] /\ holder' = holder
  BY DEF Begin
<1>2. at'[t] = "lock" /\ kind'[t] = k /\ taken'[t] = 0
  BY <1>1 DEF Types, CallTypes
<1>3. \A u \in Threads \ {t} : at'[u] = at[u] /\ kind'[u] = kind[u] /\ taken'[u] = taken[u]
  BY <1>1 DEF Types, CallTypes
<1>4. LocksTaken'
  BY <1>2, <1>3, OrderIs DEF LocksTaken
<1>5. \A l \in LockNames : ~Holds(t, l) /\ ~Holds(t, l)'
  BY <1>2 DEF Holds
<1>6. \A u \in Threads \ {t}, l \in LockNames : Holds(u, l)' <=> Holds(u, l)
  BY <1>3 DEF Holds, GaveBack
<1>7. QED
  BY <1>1, <1>4, <1>5, <1>6 DEF LocksHeld

\* A call at its slot holds what its kind takes, and the core lock if it has
\* not given it back.
LEMMA HoldsCore ==
  ASSUME Types, LocksTaken, LocksHeld, NEW t \in Threads,
         at[t] \in {"read", "run", "leave"}, ~GaveBack(t, "core")
  PROVE  holder["core"] = t
<1>1. PICK i \in 1 .. taken[t] : Order(kind[t])[i] = "core"
  BY OrderIs DEF LocksTaken
<1>2. Holds(t, "core")
  BY <1>1 DEF Holds
<1>3. QED
  BY <1>2 DEF LocksHeld

LEMMA TakeLockLocks ==
  ASSUME Types, LocksTaken, LocksHeld, NEW t \in Threads, TakeLock(t)
  PROVE  LocksTaken' /\ LocksHeld'
<1> DEFINE o == Order(kind[t])
           l == o[taken[t] + 1]
           s == IF taken[t] + 1 = Len(o) THEN "read" ELSE "lock"
<1>1. /\ at[t] = "lock" /\ holder[l] = None /\ holder' = [holder EXCEPT ![l] = t]
      /\ taken' = [taken EXCEPT ![t] = @ + 1] /\ at' = [at EXCEPT ![t] = s] /\ kind' = kind
  BY DEF TakeLock, Step
<1>2. taken[t] + 1 \in 1 .. Len(o) /\ l \in LockNames
  BY <1>1, OrderIs DEF LocksTaken, Types, CallTypes
<1>3. at'[t] = s /\ taken'[t] = taken[t] + 1 /\ holder'[l] = t
  BY <1>1, <1>2 DEF Types, CallTypes
<1>4. /\ \A u \in Threads \ {t} : at'[u] = at[u] /\ taken'[u] = taken[u]
      /\ \A m \in LockNames \ {l} : holder'[m] = holder[m]
  BY <1>1 DEF Types, CallTypes
<1>5. LocksTaken'
  <2>1. at'[t] = "lock" => taken'[t] < Len(o)
    BY <1>2, <1>3, OrderIs DEF Types, CallTypes
  <2>2. at'[t] # "lock" => taken'[t] = Len(o)
    BY <1>3
  <2>3. QED
    BY <1>1, <1>3, <1>4, <2>1, <2>2 DEF LocksTaken
<1>6. \A m \in LockNames : Holds(t, m)' <=> Holds(t, m) \/ m = l
  <2>1. at[t] # "out" /\ at'[t] # "out" /\ at[t] = "lock" /\ at'[t] \in {"lock", "read"}
    BY <1>1, <1>3
  <2>2. \A m : ~GaveBack(t, m) /\ ~GaveBack(t, m)'
    BY <2>1 DEF GaveBack
  <2>3. 1 .. taken'[t] = (1 .. taken[t]) \cup {taken[t] + 1}
    BY <1>3 DEF Types, CallTypes
  <2>4. QED
    BY <1>1, <2>1, <2>2, <2>3 DEF Holds
<1>7. \A u \in Threads \ {t}, m \in LockNames : Holds(u, m)' <=> Holds(u, m)
  BY <1>1, <1>4 DEF Holds, GaveBack
<1>8. QED
  <2>1. ASSUME NEW m \in LockNames
        PROVE  holder'[m] = t <=> Holds(t, m)'
    BY <1>3, <1>4, <1>6 DEF LocksHeld
  <2>2. ASSUME NEW u \in Threads \ {t}, NEW m \in LockNames
        PROVE  holder'[m] = u <=> Holds(u, m)'
    <3>1. CASE m = l
      <4>1. ~Holds(u, m)
        BY <1>1, <3>1 DEF LocksHeld
      <4>2. QED
        BY <1>3, <1>7, <3>1, <4>1
    <3>2. CASE m # l
      BY <1>4, <1>7, <3>2 DEF LocksHeld
    <3>3. QED
      BY <3>1, <3>2
  <2>3. QED
    BY <1>5, <2>1, <2>2 DEF LocksHeld

LEMMA ReadSlotLocks ==
  ASSUME Types, LocksTaken, LocksHeld, NEW t \in Threads, ReadSlot(t)
  PROVE  LocksTaken' /\ LocksHeld'
<1>1. at[t] = "read" /\ at'[t] \in {"run", "leave"} /\ UNCHANGED <<kind, taken>>
  BY DEF ReadSlot, Step, Types, CallTypes
<1>2. \A u \in Threads \ {t} : at'[u] = at[u]
  BY DEF ReadSlot, Step, Types, CallTypes
<1>3. LocksTaken'
  BY <1>1, <1>2 DEF LocksTaken
<1>4. \A m \in LockNames : Holds(t, m)' <=> Holds(t, m) /\ ~(kind[t] = "call" /\ m = "core")
  BY <1>1 DEF Holds, GaveBack
<1>5. \A u \in Threads \ {t}, m \in LockNames : Holds(u, m)' <=> Holds(u, m)
  BY <1>1, <1>2 DEF Holds, GaveBack
<1>6. CASE kind[t] = "call"
  <2>1. holder["core"] = t /\ holder' = [holder EXCEPT !["core"] = None]
    BY <1>1, <1>6, HoldsCore DEF ReadSlot, GaveBack
  <2>2. holder'["core"] = None /\ holder'["m_mutex"] = holder["m_mutex"]
    BY <2>1 DEF Types, CallTypes
  <2>3. \A u \in Threads \ {t} : ~Holds(u, "core")
    BY <2>1 DEF LocksHeld
  <2>4. QED
    BY <1>3, <1>4, <1>5, <1>6, <2>2, <2>3 DEF LocksHeld
<1>7. CASE kind[t] # "call"
  BY <1>3, <1>4, <1>5, <1>7 DEF LocksHeld, ReadSlot
<1>8. QED
  BY <1>6, <1>7

LEMMA RunLocks ==
  ASSUME Types, LocksTaken, LocksHeld, NEW t \in Threads,
         RunCall(t) \/ RunOpen(t) \/ RunClose(t)
  PROVE  LocksTaken' /\ LocksHeld'
<1>1. at[t] = "run" /\ at' = [at EXCEPT ![t] = "leave"] /\ UNCHANGED <<kind, taken, holder>>
  BY DEF RunCall, RunOpen, RunClose, Step
<1>2. at'[t] = "leave" /\ \A u \in Threads \ {t} : at'[u] = at[u]
  BY <1>1 DEF Types, CallTypes
<1>3. \A u \in Threads, m \in LockNames : Holds(u, m)' <=> Holds(u, m)
  BY <1>1, <1>2 DEF Holds, GaveBack
<1>4. QED
  BY <1>1, <1>2, <1>3 DEF LocksTaken, LocksHeld

LEMMA LeaveLocks ==
  ASSUME Types, LocksTaken, LocksHeld, NEW t \in Threads, Leave(t)
  PROVE  LocksTaken' /\ LocksHeld'
<1>1. at' = [at EXCEPT ![t] = "out"] /\ UNCHANGED <<kind, taken>>
  BY DEF Leave, Step
<1>2. at'[t] = "out" /\ \A u \in Threads \ {t} : at'[u] = at[u]
  BY <1>1 DEF Types, CallTypes
<1>3. \A m \in LockNames : ~Holds(t, m)'
  BY <1>2 DEF Holds
<1>4. \A u \in Threads \ {t}, m \in LockNames : Holds(u, m)' <=> Holds(u, m)
  BY <1>1, <1>2 DEF Holds, GaveBack
<1>5. \A m \in LockNames : holder'[m] = IF holder[m] = t THEN None ELSE holder[m]
  BY DEF Leave
<1>6. QED
  BY <1>1, <1>2, <1>3, <1>4, <1>5 DEF LocksTaken, LocksHeld

LEMMA LockInvKept ==
  ASSUME Types, LockInv, [Next]_vars
  PROVE  LockInv'
<1>1. CallsPlaced'
  BY CallsPlacedKept DEF LockInv
<1>2. LocksTaken' /\ LocksHeld'
  <2>1. ASSUME NEW t \in Threads, CallStep(t)
        PROVE  LocksTaken' /\ LocksHeld'
    BY <2>1, TakeLockLocks, ReadSlotLocks, RunLocks, LeaveLocks DEF CallStep, LockInv
  <2>2. CASE UNCHANGED <<callVars, slotVars>>
    BY <2>2 DEF callVars, LockInv, LocksTaken, LocksHeld, Holds, GaveBack
  <2>3. QED
    BY <2>1, <2>2, CallsChange, BeginLocks DEF LockInv
<1>3. QED
  BY <1>1, <1>2 DEF LockInv

-----------------------------------------------------------------------------
(* The session slot.                                                       *)

\* Whoever is about to open or close holds the core lock.
LEMMA OpenerHoldsCore ==
  ASSUME Types, LockInv, NEW t \in Threads, at[t] = "run", kind[t] \in Opens \cup Closes
  PROVE  holder["core"] = t
BY HoldsCore DEF LockInv, GaveBack, Opens, Closes

LEMMA SessionInvKept ==
  ASSUME Types, LockInv, SessionInv, [Next]_vars
  PROVE  SessionInv'
<1>1. ASSUME NEW t \in Threads, CallStep(t)
      PROVE  SessionInv'
  <2> DEFINE Writes(u) == at[u] = "run" /\ kind[u] \in Opens \cup Closes
  <2>1. CASE RunOpen(t) \/ RunClose(t)
    <3>1. Writes(t) /\ UNCHANGED <<kind, ptr>>
      BY <2>1 DEF RunOpen, RunClose
    <3>2. \A u \in Threads \ {t} : ~Writes(u)
      BY <3>1, OpenerHoldsCore
    <3>3. at'[t] = "leave" /\ \A u \in Threads \ {t} : at'[u] = at[u]
      BY <2>1 DEF RunOpen, RunClose, Step, Types, CallTypes
    <3>4. SlotRead'
      BY <3>1, <3>2, <3>3 DEF SlotRead
    <3>5. ptr[t] = slot /\ (kind[t] \in Opens => slot = 0)
      BY <3>1 DEF SessionInv, SlotRead
    <3>6. OneSession' /\ slot' <= opened'
      BY <2>1, <3>5 DEF RunOpen, RunClose, SessionInv, OneSession, Types, SlotTypes
    <3>7. QED
      BY <3>4, <3>6 DEF SessionInv
  <2>2. CASE ReadSlot(t)
    <3>1. UNCHANGED <<kind, slot, opened, live>>
      BY <2>2 DEF ReadSlot, slotVars
    <3>2. ptr'[t] = slot /\ (at'[t] = "run" => ((slot = 0) <=> (kind[t] \in Opens)))
      <4>1. ptr'[t] = slot
        BY <2>2 DEF ReadSlot, Types, CallTypes
      <4>2. CASE (slot = 0) = (kind[t] \in Opens)
        BY <4>1, <4>2
      <4>3. CASE (slot = 0) # (kind[t] \in Opens)
        BY <2>2, <4>1, <4>3 DEF ReadSlot, Step, Types, CallTypes
      <4>4. QED
        BY <4>2, <4>3
    <3>3. \A u \in Threads \ {t} : at'[u] = at[u] /\ ptr'[u] = ptr[u]
      BY <2>2 DEF ReadSlot, Step, Types, CallTypes
    <3>4. SlotRead'
      BY <3>1, <3>2, <3>3 DEF SessionInv, SlotRead
    <3>5. QED
      BY <3>1, <3>4 DEF SessionInv, OneSession
  <2>3. CASE TakeLock(t) \/ RunCall(t) \/ Leave(t)
    <3>1. UNCHANGED <<kind, ptr, slot, opened, live>> /\ at'[t] # "run"
      BY <2>3 DEF TakeLock, RunCall, Leave, Step, slotVars, Types, CallTypes
    <3>2. \A u \in Threads \ {t} : at'[u] = at[u]
      BY <2>3 DEF TakeLock, RunCall, Leave, Step, Types, CallTypes
    <3>3. QED
      BY <3>1, <3>2 DEF SessionInv, OneSession, SlotRead
  <2>4. QED
    BY <1>1, <2>1, <2>2, <2>3 DEF CallStep
<1>2. ASSUME NEW t \in Threads, NEW k \in Kinds, at[t] = "out", Begin(t, k), UNCHANGED slotVars
      PROVE  SessionInv'
  <2>1. at'[t] = "lock" /\ ptr' = ptr
    BY <1>2 DEF Begin, Types, CallTypes
  <2>2. \A u \in Threads \ {t} : at'[u] = at[u] /\ kind'[u] = kind[u]
    BY <1>2 DEF Begin, Types, CallTypes
  <2>3. QED
    BY <1>2, <2>1, <2>2 DEF slotVars, SessionInv, OneSession, SlotRead
<1>3. CASE UNCHANGED <<callVars, slotVars>>
  BY <1>3 DEF callVars, slotVars, SessionInv, OneSession, SlotRead
<1>4. QED
  BY <1>1, <1>2, <1>3, CallsChange DEF LockInv

-----------------------------------------------------------------------------
(* The invariants.                                                         *)

LEMMA InvInit ==
  ASSUME Init
  PROVE  LockInv /\ SessionInv
<1>1. /\ at = [t \in Threads |-> "out"] /\ holder = [l \in LockNames |-> None]
      /\ slot \in {0, 1} /\ opened = slot /\ live = {slot} \ {0}
  BY DEF Init
<1>2. QED
  BY <1>1
  DEF LockInv, CallsPlaced, LocksTaken, LocksHeld, Holds, SessionInv, OneSession, SlotRead

\* Every call of every thread holds just the locks of its kind (callBackend and
\* the other calls of FridaApiBridge).
THEOREM BridgeInvariant == Spec => [](Types /\ LockInv /\ SessionInv)
<1>1. Init => Types /\ LockInv /\ SessionInv
  BY TypesInit, InvInit
<1>2. Types /\ LockInv /\ SessionInv /\ [Next]_vars => (Types /\ LockInv /\ SessionInv)'
  BY TypesKept, LockInvKept, SessionInvKept DEF LockInv
<1>3. QED
  BY <1>1, <1>2, PTL DEF Spec

\* Every variable has its type.
THEOREM TypeCorrect == Spec => []TypeOK
BY BridgeInvariant, TypesSuffice, PTL

\* Exactly the session in the slot is alive (openSession, closeSession, Fro, Frc).
THEOREM SlotNamesTheSession == Spec => []OneSession
<1>1. SessionInv => OneSession
  BY DEF SessionInv
<1>2. QED
  BY <1>1, BridgeInvariant, PTL

\* The worker and the main thread are never inside a backend handler together:
\* both would hold m_mutex (callBackend).
THEOREM CallsExcludeEachOther == Spec => []OneCallAtATime
<1>1. ASSUME Types, LockInv, NEW t \in {"worker", "main"}, at[t] = "run"
      PROVE  holder["m_mutex"] = t
  <2>1. kind[t] \in WorkerKinds \cup MainKinds
    BY <1>1 DEF LockInv, CallsPlaced
  <2>2. PICK i \in 1 .. taken[t] : Order(kind[t])[i] = "m_mutex"
    BY <1>1, <2>1, TakesMutex DEF LockInv, LocksTaken
  <2>3. Holds(t, "m_mutex")
    BY <1>1, <2>2 DEF Holds, GaveBack
  <2>4. \A u \in Threads, l \in LockNames : Holds(u, l) => holder[l] = u
    BY <1>1 DEF LockInv, LocksHeld
  <2>5. QED
    BY <2>3, <2>4
<1>2. Types /\ LockInv => OneCallAtATime
  BY <1>1 DEF OneCallAtATime
<1>3. QED
  BY <1>2, BridgeInvariant, PTL

-----------------------------------------------------------------------------
(* The runner is Tasks.                                                    *)

\* waitForAll returns only when the runner is idle, and what comes after it
\* hands over nothing.
Closing ==
  /\ api <=> mainAt \notin {"join", "gone"}
  /\ quit <=> ~api
  /\ running <=> workerAt = "task"
  /\ mainAt \in {"drained", "join", "gone"} => queue = <<>> /\ workerAt # "task"

LEMMA ClosingInit ==
  ASSUME Init
  PROVE  Closing
BY DEF Init, Closing

LEMMA ClosingKept ==
  ASSUME Types, Closing, [Next]_vars
  PROVE  Closing'
<1>1. ASSUME NEW t \in Threads, CallStep(t)
      PROVE  Closing'
  BY <1>1, CallStepFrame DEF runnerVars, mainVars, Closing
<1>2. CASE WorkerStep
  BY <1>2
  DEF WorkerStep, WorkerSleeps, WorkerQuits, WorkerTakes, WorkerFinishes, WorkerPosts, mainVars,
      Closing, Types, RunnerTypes
<1>3. CASE Callback
  BY <1>3 DEF Callback, Enqueue, MainGoes, runnerVars, Closing, Types, RunnerTypes
<1>4. CASE HasSession
  BY <1>4 DEF HasSession, MainGoes, runnerVars, Closing
<1>5. CASE WaitSleeps \/ WaitDone \/ CloseSession \/ MainReturns \/ Joined
  BY <1>5
  DEF WaitSleeps, WaitDone, CloseSession, MainReturns, Joined, MainGoes, runnerVars, Closing,
      Types, MainTypes, RunnerTypes
<1>6. CASE DeleteApi
  BY <1>6 DEF DeleteApi, MainGoes, Closing, Types, RunnerTypes
<1>7. ASSUME NEW k \in TaskKinds, Click(k)
      PROVE  Closing'
  BY <1>7 DEF Click, Enqueue, mainVars, Closing, Types, RunnerTypes
<1>8. CASE (\E k \in ConsoleKinds : Command(k)) \/ RefreshAll \/ Disconnect \/ Destroy
  BY <1>8 DEF Command, RefreshAll, Disconnect, Destroy, MainGoes, runnerVars, mainVars, Closing
<1>9. CASE UNCHANGED vars
  BY <1>9 DEF vars, runnerVars, mainVars, Closing
<1>10. QED
  BY <1>1, <1>2, <1>3, <1>4, <1>5, <1>6, <1>7, <1>8, <1>9 DEF Next, MainStep, UserStep, Rest

\* What the dock sees of an answer is its task.
Stripped(s) == [i \in DOMAIN s |-> [n |-> s[i].n, kind |-> s[i].kind]]

LEMMA StrippedSeq ==
  ASSUME NEW s \in Seq(Answer)
  PROVE  /\ Stripped(s) \in Seq(Job)
         /\ Len(Stripped(s)) = Len(s)
<1>1. Len(s) \in Nat /\ DOMAIN s = 1 .. Len(s) /\ \A i \in 1 .. Len(s) : s[i] \in Answer
  BY LenProperties, ElementOfSeq
<1>2. \A i \in 1 .. Len(s) : [n |-> s[i].n, kind |-> s[i].kind] \in Job
  BY <1>1 DEF Answer, Job
<1>3. Stripped(s) = [i \in 1 .. Len(s) |-> [n |-> s[i].n, kind |-> s[i].kind]]
  BY <1>1 DEF Stripped
<1>4. QED
  BY <1>1, <1>2, <1>3

LEMMA StrippedTail ==
  ASSUME NEW s \in Seq(Answer), s # <<>>
  PROVE  Stripped(s) # <<>> /\ Stripped(Tail(s)) = Tail(Stripped(s))
<1>1. Tail(s) \in Seq(Answer) /\ Len(s) \in Nat \ {0}
  BY HeadTailProperties, EmptySeq
<1>2. Stripped(s) # <<>> /\ Tail(Stripped(s)) \in Seq(Job) /\ Stripped(Tail(s)) \in Seq(Job)
  BY <1>1, StrippedSeq, HeadTailProperties, EmptySeq
<1>3. Len(Stripped(Tail(s))) = Len(s) - 1 /\ Len(Tail(Stripped(s))) = Len(s) - 1
  <2>1. Len(Stripped(Tail(s))) = Len(Tail(s)) /\ Len(Tail(s)) = Len(s) - 1
    BY <1>1, StrippedSeq, HeadTailProperties
  <2>2. Stripped(s) \in Seq(Job) /\ Len(Stripped(s)) = Len(s)
    BY StrippedSeq
  <2>3. Len(Tail(Stripped(s))) = Len(Stripped(s)) - 1
    BY <1>2, <2>2, HeadTailProperties
  <2>4. QED
    BY <2>1, <2>2, <2>3
<1>4. ASSUME NEW i \in 1 .. Len(s) - 1
      PROVE  Stripped(Tail(s))[i] = Tail(Stripped(s))[i]
  <2>1. Tail(s)[i] = s[i + 1] /\ Tail(Stripped(s))[i] = Stripped(s)[i + 1]
    BY <1>2, <1>3, <1>4, StrippedSeq, HeadTailProperties
  <2>2. i \in DOMAIN Tail(s) /\ i + 1 \in DOMAIN s
    BY <1>1, <1>4, HeadTailProperties
  <2>3. QED
    BY <2>1, <2>2 DEF Stripped
<1>5. QED
  BY <1>2, <1>3, <1>4, SeqEqual

LEMMA StrippedAppend ==
  ASSUME NEW s \in Seq(Answer), NEW j \in Job, NEW ok \in BOOLEAN
  PROVE  Stripped(Append(s, [n |-> j.n, kind |-> j.kind, ok |-> ok])) = Append(Stripped(s), j)
<1> DEFINE a == [n |-> j.n, kind |-> j.kind, ok |-> ok]
<1>1. a \in Answer /\ [n |-> a.n, kind |-> a.kind] = j
  BY DEF Answer, Job
<1>2. /\ Append(s, a) \in Seq(Answer) /\ Len(Append(s, a)) = Len(s) + 1
      /\ \A i \in 1 .. Len(s) : Append(s, a)[i] = s[i]
      /\ Append(s, a)[Len(s) + 1] = a
  BY <1>1, AppendProperties
<1>3. /\ Stripped(Append(s, a)) \in Seq(Job) /\ Append(Stripped(s), j) \in Seq(Job)
      /\ Len(Stripped(Append(s, a))) = Len(s) + 1
      /\ Len(Append(Stripped(s), j)) = Len(s) + 1
  <2>1. Stripped(Append(s, a)) \in Seq(Job) /\ Len(Stripped(Append(s, a))) = Len(s) + 1
    BY <1>2, StrippedSeq
  <2>2. Stripped(s) \in Seq(Job) /\ Len(Stripped(s)) = Len(s)
    BY StrippedSeq
  <2>3. Append(Stripped(s), j) \in Seq(Job) /\ Len(Append(Stripped(s), j)) = Len(Stripped(s)) + 1
    BY <2>2, AppendProperties
  <2>4. QED
    BY <2>1, <2>2, <2>3
<1>4. ASSUME NEW i \in 1 .. Len(s) + 1
      PROVE  Stripped(Append(s, a))[i] = Append(Stripped(s), j)[i]
  <2>1. Stripped(Append(s, a))[i] = [n |-> Append(s, a)[i].n, kind |-> Append(s, a)[i].kind]
    BY <1>2 DEF Stripped
  <2>2. CASE i = Len(s) + 1
    BY <1>1, <1>2, <2>1, <2>2, StrippedSeq, AppendProperties
  <2>3. CASE i \in 1 .. Len(s)
    <3>1. Append(Stripped(s), j)[i] = Stripped(s)[i]
      BY <2>3, StrippedSeq, AppendProperties
    <3>2. QED
      BY <1>2, <2>1, <2>3, <3>1 DEF Stripped
  <2>4. Len(s) \in Nat
    BY LenProperties
  <2>5. i = Len(s) + 1 \/ i \in 1 .. Len(s)
    BY <2>4
  <2>6. QED
    BY <2>2, <2>3, <2>5
<1>5. HIDE DEF a
<1>6. QED
  BY <1>3, <1>4, SeqEqual DEF a

LEMMA MapInit ==
  ASSUME Init
  PROVE  Runner!TasksInit
<1>1. workerAt = "loop" /\ queue = <<>> /\ posted = <<>> /\ api = TRUE
  BY DEF Init
<1>2. waiting = <<>>
  BY <1>1, ConcatEmptySeq, EmptySeq DEF waiting
<1>3. results = <<>>
  <2>1. Stripped(posted) = <<>>
    BY <1>1, StrippedSeq, EmptySeq
  <2>2. QED
    BY <1>1, <2>1, ConcatEmptySeq, EmptySeq DEF results, Stripped
<1>4. QED
  BY <1>1, <1>2, <1>3 DEF Runner!TasksInit

\* The variables that the mapping reads.
LEMMA MapStutters ==
  ASSUME UNCHANGED <<queue, task, posted, api, workerAt>>
  PROVE  UNCHANGED <<waiting, results, api>>
BY DEF waiting, results

LEMMA ResultsAre ==
  ASSUME api
  PROVE  results = Stripped(posted) \o (IF workerAt = "post" THEN <<task>> ELSE <<>>)
BY DEF results, Stripped

\* What is handed over is a batch of one task.
LEMMA MapEnqueue ==
  ASSUME Types, NEW k \in WorkerKinds, bounds.tasks < MaxTasks, Enqueue(k)
  PROVE  \E job \in [n : 1 .. MaxTasks, kind : TaskKinds \cup {"call"}] :
           waiting' = waiting \o <<job>>
<1> DEFINE job == [n |-> bounds.tasks + 1, kind |-> k]
<1>1. job \in [n : 1 .. MaxTasks, kind : TaskKinds \cup {"call"}] /\ job \in Job
  BY DEF Types, Bounded, WorkerKinds, Job
<1>2. queue \in Seq(Job) /\ queue' = queue \o <<job>> /\ task' = task
  BY <1>1, AppendIsConcat DEF Enqueue, Types, RunnerTypes
<1>3. workerAt' = "task" <=> workerAt = "task"
  BY DEF Enqueue
<1> HIDE DEF job
<1>4. CASE workerAt = "task"
  <2>1. <<task>> \in Seq(Job) /\ <<job>> \in Seq(Job)
    BY <1>1, <1>4 DEF Types, RunnerTypes
  <2>2. waiting = <<task>> \o queue /\ waiting' = <<task>> \o (queue \o <<job>>)
    BY <1>2, <1>3, <1>4 DEF waiting
  <2>3. waiting' = waiting \o <<job>>
    BY <1>2, <2>1, <2>2, ConcatAssociative
  <2>4. QED
    BY <1>1, <2>3
<1>5. CASE workerAt # "task"
  <2>1. waiting = <<>> \o queue /\ waiting' = <<>> \o (queue \o <<job>>)
    BY <1>2, <1>3, <1>5 DEF waiting
  <2>2. <<job>> \in Seq(Job) /\ queue \o <<job>> \in Seq(Job)
    BY <1>1, <1>2, ConcatProperties
  <2>3. waiting' = waiting \o <<job>>
    BY <1>2, <2>1, <2>2, ConcatEmptySeq
  <2>4. QED
    BY <1>1, <2>3
<1>6. QED
  BY <1>4, <1>5

LEMMA TailOfConcat ==
  ASSUME NEW S, NEW s \in Seq(S), NEW t \in Seq(S), s # <<>>
  PROVE  s \o t # <<>> /\ Tail(s \o t) = Tail(s) \o t
<1>1. s \o t \in Seq(S) /\ Len(s \o t) = Len(s) + Len(t) /\ Len(s) \in Nat \ {0} /\ Len(t) \in Nat
  BY ConcatProperties, EmptySeq, LenProperties
<1>2. s \o t # <<>>
  BY <1>1
<1>3. Tail(s) \in Seq(S) /\ Len(Tail(s)) = Len(s) - 1
  BY HeadTailProperties
<1>4. Tail(s \o t) \in Seq(S) /\ Len(Tail(s \o t)) = Len(s) + Len(t) - 1
  BY <1>1, <1>2, HeadTailProperties
<1>5. Tail(s) \o t \in Seq(S) /\ Len(Tail(s) \o t) = Len(s) + Len(t) - 1
  <2>1. Tail(s) \o t \in Seq(S) /\ Len(Tail(s) \o t) = Len(Tail(s)) + Len(t)
    BY <1>3, ConcatProperties
  <2>2. QED
    BY <1>1, <1>3, <2>1
<1>6. ASSUME NEW i \in 1 .. Len(s) + Len(t) - 1
      PROVE  Tail(s \o t)[i] = (Tail(s) \o t)[i]
  <2>1. i + 1 \in 1 .. Len(s) + Len(t) /\ Tail(s \o t)[i] = (s \o t)[i + 1]
    BY <1>1, <1>2, <1>4, <1>6, HeadTailProperties
  <2>2. (s \o t)[i + 1] = IF i + 1 <= Len(s) THEN s[i + 1] ELSE t[i + 1 - Len(s)]
    BY <2>1, ConcatProperties
  <2>3. (Tail(s) \o t)[i] = IF i <= Len(s) - 1 THEN Tail(s)[i] ELSE t[i - (Len(s) - 1)]
    <3>1. i \in 1 .. Len(Tail(s)) + Len(t)
      BY <1>1, <1>3, <1>6
    <3>2. (Tail(s) \o t)[i] = IF i <= Len(Tail(s)) THEN Tail(s)[i] ELSE t[i - Len(Tail(s))]
      BY <1>3, <3>1, ConcatProperties
    <3>3. QED
      BY <1>3, <3>2
  <2>4. CASE i <= Len(s) - 1
    <3>1. Tail(s)[i] = s[i + 1]
      BY <1>1, <1>3, <1>6, <2>4, HeadTailProperties
    <3>2. QED
      BY <1>1, <2>1, <2>2, <2>3, <2>4, <3>1
  <2>5. CASE i > Len(s) - 1
    <3>1. i + 1 - Len(s) = i - (Len(s) - 1)
      BY <1>1, <1>6
    <3>2. QED
      BY <1>1, <1>6, <2>1, <2>2, <2>3, <2>5, <3>1
  <2>6. QED
    BY <1>1, <1>6, <2>4, <2>5
<1>7. QED
  BY <1>2, <1>4, <1>5, <1>6, SeqEqual

\* A callback takes the oldest result.
LEMMA MapCallback ==
  ASSUME Types, Closing, Callback
  PROVE  results # <<>> /\ results' = Tail(results)
<1> DEFINE last == IF workerAt = "post" THEN <<task>> ELSE <<>>
<1>1. api /\ api' /\ posted # <<>> /\ posted' = Tail(posted) /\ posted \in Seq(Answer)
  BY DEF Callback, Closing, Types, MainTypes
<1>2. task' = task /\ (workerAt' = "post" <=> workerAt = "post")
  BY DEF Callback, Enqueue, runnerVars
<1>3. last \in Seq(Job)
  BY EmptySeq DEF Types, RunnerTypes
<1>4. last' = last
  BY <1>2
<1> HIDE DEF last
<1>5. results = Stripped(posted) \o last
  BY <1>1, ResultsAre DEF last
<1>6. results' = Stripped(Tail(posted)) \o last
  BY <1>1, <1>4 DEF results, Stripped, last
<1>7. Stripped(posted) \in Seq(Job) /\ Stripped(posted) # <<>>
      /\ Stripped(Tail(posted)) = Tail(Stripped(posted))
  BY <1>1, StrippedSeq, StrippedTail
<1>8. QED
  BY <1>3, <1>5, <1>6, <1>7, TailOfConcat

LEMMA MapRun ==
  ASSUME Types, Closing, WorkerFinishes
  PROVE  Runner!Execute
<1>1. /\ workerAt = "task" /\ workerAt' = "post" /\ UNCHANGED <<queue, task, posted, api>>
      /\ task \in Job /\ queue \in Seq(Job) /\ <<task>> \in Seq(Job)
  BY DEF WorkerFinishes, Types, RunnerTypes
<1>2. api /\ api'
  BY <1>1 DEF Closing
<1>3. waiting = <<task>> \o queue /\ waiting' = <<>> \o queue
  BY <1>1 DEF waiting
<1>4. waiting' = queue
  BY <1>1, <1>3, ConcatEmptySeq
<1>5. waiting # <<>> /\ Tail(waiting) = queue /\ Head(waiting) = task
  <2>1. waiting \in Seq(Job) /\ Len(waiting) = 1 + Len(queue) /\ waiting[1] = task
    BY <1>1, <1>3, ConcatProperties, LenProperties
  <2>2. Len(queue) \in Nat
    BY <1>1, LenProperties
  <2>3. waiting # <<>>
    BY <2>1, <2>2
  <2>4. Tail(waiting) = Tail(<<task>>) \o queue
    BY <1>1, <1>3, TailOfConcat
  <2>5. Tail(<<task>>) = <<>>
    BY <1>1
  <2>6. QED
    BY <1>1, <2>1, <2>3, <2>4, <2>5, ConcatEmptySeq
<1>6. results' = Append(results, task)
  <2>1. Stripped(posted) \in Seq(Job)
    BY <1>1, StrippedSeq DEF Types, MainTypes
  <2>2. results = Stripped(posted) \o <<>>
    BY <1>1, <1>2, ResultsAre
  <2>3. results' = Stripped(posted) \o <<task>>
    BY <1>1, <1>2 DEF results, Stripped
  <2>4. QED
    BY <1>1, <2>1, <2>2, <2>3, ConcatEmptySeq, AppendIsConcat
<1>7. QED
  BY <1>1, <1>4, <1>5, <1>6 DEF Runner!Execute

LEMMA MapPost ==
  ASSUME Types, Closing, WorkerPosts
  PROVE  UNCHANGED <<waiting, results, api>>
<1>1. /\ workerAt = "post" /\ workerAt' = "loop" /\ UNCHANGED <<queue, task, api>>
      /\ task \in Job /\ posted \in Seq(Answer) /\ fine["worker"] \in BOOLEAN
      /\ posted' = Append(posted, [n |-> task.n, kind |-> task.kind, ok |-> fine["worker"]])
  BY DEF WorkerPosts, Types, RunnerTypes, MainTypes, CallTypes
<1>2. waiting' = waiting
  BY <1>1 DEF waiting
<1>3. CASE api
  <2>1. results = Append(Stripped(posted), task)
    BY <1>1, <1>3, ResultsAre, StrippedSeq, AppendIsConcat
  <2>2. Stripped(posted)' = Append(Stripped(posted), task)
    <3>1. Stripped(posted)' = Stripped(posted')
      BY DEF Stripped
    <3>2. QED
      BY <1>1, <3>1, StrippedAppend
  <2>3. results' = Stripped(posted)' \o <<>>
    BY <1>1, <1>3 DEF results, Stripped
  <2>4. Append(Stripped(posted), task) \in Seq(Job)
    BY <1>1, StrippedSeq, AppendProperties
  <2>5. QED
    BY <1>1, <1>2, <2>1, <2>2, <2>3, <2>4, ConcatEmptySeq
<1>4. CASE ~api
  BY <1>1, <1>2, <1>4 DEF results
<1>5. QED
  BY <1>3, <1>4

LEMMA MapTake ==
  ASSUME Types, WorkerTakes
  PROVE  UNCHANGED <<waiting, results, api>>
<1>1. /\ workerAt = "loop" /\ workerAt' = "task" /\ queue # <<>> /\ queue \in Seq(Job)
      /\ task' = Head(queue) /\ queue' = Tail(queue) /\ UNCHANGED <<posted, api>>
  BY DEF WorkerTakes, mainVars, Types, RunnerTypes
<1>2. waiting = <<>> \o queue /\ waiting' = <<Head(queue)>> \o Tail(queue)
  BY <1>1 DEF waiting
<1>3. <<Head(queue)>> \o Tail(queue) = queue
  <2>1. /\ Head(queue) \in Job /\ Tail(queue) \in Seq(Job) /\ Len(Tail(queue)) = Len(queue) - 1
        /\ Head(queue) = queue[1]
        /\ \A i \in 1 .. Len(Tail(queue)) : Tail(queue)[i] = queue[i + 1]
    BY <1>1, HeadTailProperties
  <2>2. /\ <<Head(queue)>> \in Seq(Job) /\ Len(<<Head(queue)>>) = 1
        /\ <<Head(queue)>>[1] = Head(queue) /\ Len(queue) \in Nat \ {0}
    BY <1>1, <2>1, EmptySeq
  <2>3. /\ <<Head(queue)>> \o Tail(queue) \in Seq(Job)
        /\ Len(<<Head(queue)>> \o Tail(queue)) = Len(queue)
        /\ \A i \in 1 .. Len(queue) : (<<Head(queue)>> \o Tail(queue))[i] =
             IF i <= 1 THEN <<Head(queue)>>[i] ELSE Tail(queue)[i - 1]
    <3>1. Len(<<Head(queue)>>) + Len(Tail(queue)) = Len(queue)
      BY <2>1, <2>2
    <3>2. QED
      BY <2>1, <2>2, <3>1, ConcatProperties
  <2>4. ASSUME NEW i \in 1 .. Len(queue)
        PROVE  (<<Head(queue)>> \o Tail(queue))[i] = queue[i]
    <3>1. CASE i = 1
      BY <2>1, <2>2, <2>3, <3>1
    <3>2. CASE i # 1
      <4>1. i - 1 \in 1 .. Len(Tail(queue)) /\ ~(i <= 1) /\ (i - 1) + 1 = i
        BY <2>1, <2>2, <3>2
      <4>2. QED
        BY <2>1, <2>3, <4>1
    <3>3. QED
      BY <3>1, <3>2
  <2>5. QED
    BY <1>1, <2>3, <2>4, SeqEqual
<1>4. results' = results
  BY <1>1 DEF results
<1>5. QED
  BY <1>1, <1>2, <1>3, <1>4, ConcatEmptySeq

LEMMA MapClose ==
  ASSUME Types, Closing, DeleteApi
  PROVE  Runner!Close
<1>1. mainAt = "drained" /\ api' = FALSE /\ UNCHANGED <<queue, task>>
  BY DEF DeleteApi
<1>2. api /\ queue = <<>> /\ workerAt # "task" /\ workerAt' # "task"
  BY <1>1 DEF Closing, DeleteApi
<1>3. waiting = <<>> /\ waiting' = <<>>
  BY <1>1, <1>2, ConcatEmptySeq, EmptySeq DEF waiting
<1>4. results' = <<>>
  BY <1>1 DEF results
<1>5. QED
  BY <1>1, <1>2, <1>3, <1>4 DEF Runner!Close

LEMMA MapStep ==
  ASSUME Types, Closing, [Next]_vars
  PROVE  [Runner!TasksNext]_(Runner!taskVars)
<1> DEFINE Jobs == [n : 1 .. MaxTasks, kind : TaskKinds \cup {"call"}]
<1>1. CASE UNCHANGED <<queue, task, posted, api, workerAt>>
  BY <1>1, MapStutters DEF Runner!taskVars
<1>2. ASSUME NEW t \in Threads, CallStep(t)
      PROVE  UNCHANGED <<queue, task, posted, api, workerAt>>
  BY <1>2, CallStepFrame DEF runnerVars, mainVars
<1>3. CASE WorkerSleeps \/ WorkerQuits
  <2>1. workerAt = "loop" /\ workerAt' \in {"asleep", "exited"} /\ UNCHANGED <<queue, posted, api, task>>
    BY <1>3 DEF WorkerSleeps, WorkerQuits, mainVars
  <2>2. QED
    BY <2>1 DEF waiting, results, Runner!taskVars
<1>4. CASE WorkerTakes \/ WorkerPosts
  BY <1>4, MapTake, MapPost DEF Runner!taskVars
<1>5. CASE WorkerFinishes
  BY <1>5, MapRun DEF Runner!TasksNext
<1>6. CASE DeleteApi
  BY <1>6, MapClose DEF Runner!TasksNext
<1>7. CASE Callback
  <2>1. api /\ api' = api /\ results # <<>> /\ results' = Tail(results)
    BY <1>7, MapCallback DEF Callback, Closing
  <2>2. CASE bounds.tasks < MaxTasks /\ Enqueue("call")
    <3>1. "call" \in WorkerKinds
      BY DEF WorkerKinds
    <3>2. PICK job \in Jobs : waiting' = waiting \o <<job>>
      BY <2>2, <3>1, MapEnqueue
    <3>3. Runner!Answer(<<job>>)
      BY <2>1, <3>2 DEF Runner!Answer
    <3>4. QED
      BY <3>3 DEF Runner!TasksNext
  <2>3. CASE UNCHANGED <<runnerVars, bounds>>
    <3>1. waiting' = waiting
      BY <2>3 DEF runnerVars, waiting
    <3>2. waiting \o <<>> = waiting
      <4>1. waiting \in Seq(Job)
        BY EmptySeq, ConcatProperties DEF waiting, Types, RunnerTypes
      <4>2. QED
        BY <4>1, ConcatEmptySeq
    <3>3. Runner!Answer(<<>>)
      BY <2>1, <3>1, <3>2 DEF Runner!Answer
    <3>4. QED
      BY <3>3 DEF Runner!TasksNext
  <2>4. QED
    BY <1>7, <2>2, <2>3 DEF Callback
<1>8. ASSUME NEW k \in TaskKinds, Click(k)
      PROVE  Runner!TasksNext
  <2>1. k \in WorkerKinds /\ bounds.tasks < MaxTasks /\ Enqueue(k) /\ UNCHANGED mainVars
    BY <1>8 DEF Click, WorkerKinds
  <2>2. PICK job \in Jobs : waiting' = waiting \o <<job>>
    BY <2>1, MapEnqueue
  <2>3. api /\ api' = api
    BY <1>8, <2>1 DEF Click, Closing, mainVars
  <2>4. results' = results
    BY <2>1 DEF mainVars, Enqueue, results
  <2>5. Runner!Hand(<<job>>)
    BY <2>2, <2>3, <2>4 DEF Runner!Hand
  <2>6. QED
    BY <2>5 DEF Runner!TasksNext
<1>9. CASE HasSession \/ WaitSleeps \/ WaitDone \/ CloseSession \/ MainReturns \/ Joined
  BY <1>1, <1>9
  DEF HasSession, WaitSleeps, WaitDone, CloseSession, MainReturns, Joined, runnerVars
<1>10. CASE (\E k \in ConsoleKinds : Command(k)) \/ RefreshAll \/ Disconnect \/ Destroy
  BY <1>1, <1>10 DEF Command, RefreshAll, Disconnect, Destroy, runnerVars, mainVars
<1>11. CASE UNCHANGED vars
  BY <1>1, <1>11 DEF vars, runnerVars, mainVars
<1>12. QED
  BY <1>1, <1>2, <1>3, <1>4, <1>5, <1>6, <1>7, <1>8, <1>9, <1>10, <1>11
  DEF Next, WorkerStep, MainStep, UserStep, Rest

\* FridaTaskRunner keeps what Tasks promises: tasks run and are answered one at a
\* time and in order, and the bridge is deleted when none is left.
THEOREM RunnerIsTasks == Spec => ImplementsTasks
<1>1. Init => Types /\ Closing /\ Runner!TasksInit
  BY TypesInit, ClosingInit, MapInit
<1>2. Types /\ Closing /\ [Next]_vars => Closing'
  BY ClosingKept
<1>3. Types /\ Closing /\ [Next]_vars => [Runner!TasksNext]_(Runner!taskVars)
  BY MapStep
<1>4. QED
  BY <1>1, <1>2, <1>3, BridgeInvariant, PTL DEF Spec, ImplementsTasks, Runner!TasksSpec
-----------------------------------------------------------------------------
(* No cycle of waiting, but for the inverted lock order.                   *)

\* Who sleeps has something to wait for: waitForAll tests under d->mutex, as the
\* worker's loop does, and whoever changes what they tested wakes them.
Awake ==
  /\ mainAt = "asleep" => queue # <<>> \/ running
  /\ workerAt = "asleep" => queue = <<>> /\ ~quit

LEMMA AwakeInit ==
  ASSUME Init
  PROVE  Awake
BY DEF Init, Awake

LEMMA AwakeKept ==
  ASSUME Types, Closing, Awake, [Next]_vars
  PROVE  Awake'
<1>1. ASSUME NEW t \in Threads, CallStep(t)
      PROVE  Awake'
  BY <1>1, CallStepFrame DEF runnerVars, mainVars, Awake
<1>2. ASSUME NEW k, Enqueue(k), mainAt = "loop", mainAt' # "asleep"
      PROVE  Awake'
  BY <1>2 DEF Enqueue, Awake, Types, RunnerTypes
<1>3. CASE WorkerStep
  <2>1. CASE WorkerTakes
    BY <2>1 DEF WorkerTakes, mainVars, Awake
  <2>2. CASE WorkerFinishes
    BY <2>2 DEF WorkerFinishes, Awake
  <2>3. CASE WorkerSleeps \/ WorkerQuits \/ WorkerPosts
    BY <2>3 DEF WorkerSleeps, WorkerQuits, WorkerPosts, mainVars, Awake
  <2> QED BY <1>3, <2>1, <2>2, <2>3 DEF WorkerStep
<1>4. CASE Callback
  <2>1. mainAt = "loop" /\ mainAt' # "asleep"
    BY <1>4 DEF Callback, MainGoes
  <2>2. CASE Enqueue("call")
    BY <1>2, <2>1, <2>2
  <2>3. CASE UNCHANGED runnerVars
    BY <2>1, <2>3 DEF runnerVars, Awake
  <2> QED BY <1>4, <2>2, <2>3 DEF Callback
<1>5. CASE HasSession \/ WaitSleeps \/ WaitDone \/ CloseSession \/ MainReturns \/ Joined
  BY <1>5
  DEF HasSession, WaitSleeps, WaitDone, CloseSession, MainReturns, Joined, MainGoes, runnerVars,
      Awake
<1>6. CASE DeleteApi
  BY <1>6 DEF DeleteApi, MainGoes, Awake
<1>7. ASSUME NEW k \in TaskKinds, Click(k)
      PROVE  Awake'
  BY <1>2, <1>7 DEF Click, mainVars
<1>8. CASE (\E k \in ConsoleKinds : Command(k)) \/ RefreshAll \/ Disconnect \/ Destroy
  BY <1>8 DEF Command, RefreshAll, Disconnect, Destroy, MainGoes, runnerVars, mainVars, Awake
<1>9. CASE UNCHANGED vars
  BY <1>9 DEF vars, runnerVars, mainVars, Awake
<1> QED
  BY <1>1, <1>3, <1>4, <1>5, <1>6, <1>7, <1>8, <1>9 DEF Next, MainStep, UserStep, Rest

\* A thread that wants a lock holds only those that it took before.
LEMMA HeldBefore ==
  ASSUME Types, LockInv, NEW t \in Threads, NEW u \in Threads, at[t] = "lock",
         NEW l \in LockNames, holder[l] = t
  PROVE  \E i \in 1 .. taken[t] : Order(kind[t])[i] = l
BY DEF LockInv, LocksHeld, Holds

\* A console command that wants the core lock holds nothing.
LEMMA ConsoleHoldsNothing ==
  ASSUME Types, LockInv, at["console"] = "lock"
  PROVE  \A l \in LockNames : holder[l] # "console"
<1>1. kind["console"] \in {"consoleCall", "consoleOpen", "consoleClose"}
  BY DEF LockInv, CallsPlaced
<1>2. Order(kind["console"]) = <<"core">> /\ Len(<<"core">>) = 1
  BY <1>1 DEF Order
<1>3. taken["console"] < 1 /\ taken["console"] \in 0 .. 2
  BY <1>2 DEF LockInv, LocksTaken, Types, CallTypes
<1>4. 1 .. taken["console"] = {}
  BY <1>3
<1> QED BY <1>4, HeldBefore

\* The lock a thread wants is a lock, and not one it holds.
LEMMA Wants ==
  ASSUME Types, LockInv, NEW t \in Threads, at[t] = "lock"
  PROVE  /\ Order(kind[t])[taken[t] + 1] \in LockNames
         /\ holder[Order(kind[t])[taken[t] + 1]] # t
<1>1. taken[t] + 1 \in 1 .. Len(Order(kind[t])) /\ taken[t] \in Nat
  BY OrderIs DEF LockInv, LocksTaken, Types, CallTypes
<1>2. Order(kind[t])[taken[t] + 1] \in LockNames
  BY <1>1, OrderIs
<1>3. ASSUME holder[Order(kind[t])[taken[t] + 1]] = t PROVE FALSE
  <2>1. PICK i \in 1 .. taken[t] : Order(kind[t])[i] = Order(kind[t])[taken[t] + 1]
    BY <1>2, <1>3, HeldBefore
  <2>2. i \in 1 .. Len(Order(kind[t])) /\ i # taken[t] + 1
    BY <1>1, OrderIs
  <2> QED BY <1>1, <2>1, <2>2, OrderIs
<1> QED BY <1>2, <1>3

\* A thread outside a call holds nothing.
LEMMA OutHoldsNothing ==
  ASSUME LockInv, NEW t \in Threads, at[t] = "out"
  PROVE  \A l \in LockNames : holder[l] # t
BY DEF LockInv, LocksHeld, Holds

\* If the worker and the main thread wait for each other, each holds the lock
\* that the other wants, in the inverted order.
LEMMA PairInverted ==
  ASSUME Types, LockInv, Closing, Awake, WaitsFor("worker", "main"), WaitsFor("main", "worker")
  PROVE  Inverted
<1>1. at["worker"] = "lock"
  <2>1. SUFFICES ASSUME at["worker"] # "lock" PROVE FALSE
    OBVIOUS
  <2>2. workerAt = "asleep" /\ queue = <<>> /\ ~quit /\ ~running
    BY <2>1 DEF WaitsFor, Awake, Closing, Types, RunnerTypes
  <2>3. at["worker"] = "out"
    BY <2>2 DEF LockInv, CallsPlaced
  <2>4. mainAt # "asleep" /\ mainAt # "join"
    BY <2>2 DEF Awake, Closing
  <2>5. \A l \in LockNames : holder[l] # "worker"
    BY <2>3, OutHoldsNothing
  <2>6. at["main"] = "lock" => Order(kind["main"])[taken["main"] + 1] \in LockNames
    BY Wants
  <2> QED BY <2>4, <2>5, <2>6 DEF WaitsFor
<1>2. workerAt = "task"
  BY <1>1 DEF LockInv, CallsPlaced
<1>3. holder[Order(kind["worker"])[taken["worker"] + 1]] = "main"
  BY <1>1, <1>2 DEF WaitsFor
<1>4. at["main"] = "lock"
  <2>1. at["main"] # "out"
    BY <1>1, <1>3, Wants, OutHoldsNothing
  <2>2. mainAt = "call"
    BY <2>1 DEF LockInv, CallsPlaced
  <2> QED BY <2>2 DEF WaitsFor
<1>5. mainAt = "call" /\ kind["main"] \in MainKinds
  BY <1>4 DEF LockInv, CallsPlaced
<1>6. holder[Order(kind["main"])[taken["main"] + 1]] = "worker"
  BY <1>4, <1>5 DEF WaitsFor
<1>7. Order(kind["main"]) = <<"m_mutex", "core">>
  BY <1>5 DEF Order, MainKinds
<1>8. taken["main"] = 1 /\ Order(kind["worker"])[taken["worker"] + 1] = "m_mutex"
  <2>1. PICK i \in 1 .. taken["main"] :
          Order(kind["main"])[i] = Order(kind["worker"])[taken["worker"] + 1]
    BY <1>1, <1>3, <1>4, Wants, HeldBefore
  <2>2. taken["main"] < 2 /\ taken["main"] \in 0 .. 2
    BY <1>4, <1>7 DEF LockInv, LocksTaken, Types, CallTypes
  <2>3. taken["main"] = 1 /\ i = 1
    BY <2>1, <2>2
  <2> QED BY <1>7, <2>1, <2>3
<1>9. holder["m_mutex"] = "main" /\ holder["core"] = "worker"
  <2>1. Order(kind["main"])[taken["main"] + 1] = "core"
    BY <1>7, <1>8
  <2> QED BY <1>3, <1>6, <1>8, <2>1
<1>10. kind["worker"] = "configCall"
  <2>1. PICK i \in 1 .. taken["worker"] : Order(kind["worker"])[i] = "core"
    BY <1>1, <1>9, HeldBefore
  <2>2. taken["worker"] < Len(Order(kind["worker"])) /\ taken["worker"] \in 0 .. 2
    BY <1>1 DEF LockInv, LocksTaken, Types, CallTypes
  <2>3. SUFFICES ASSUME kind["worker"] # "configCall" PROVE FALSE
    OBVIOUS
  <2>4. Order(kind["worker"]) \in {<<"m_mutex", "core">>, <<"core">>}
    BY <2>3 DEF Order
  <2>5. CASE Order(kind["worker"]) = <<"m_mutex", "core">>
    BY <2>1, <2>2, <2>5
  <2>6. CASE Order(kind["worker"]) = <<"core">>
    BY <2>1, <2>2, <2>6
  <2> QED BY <2>4, <2>5, <2>6
<1> QED BY <1>4, <1>9, <1>10 DEF Inverted

\* Nobody waits for a console command that waits, and no thread waits for itself.
LEMMA WaitsForWhom ==
  ASSUME Types, LockInv, NEW t \in Threads, NEW u \in Threads, WaitsFor(t, u)
  PROVE  /\ u # t
         /\ u = "console" => at["console"] # "lock"
<1>1. CASE at[t] = "lock" /\ holder[Order(kind[t])[taken[t] + 1]] = u
  <2>1. Order(kind[t])[taken[t] + 1] \in LockNames /\ u # t
    BY <1>1, Wants
  <2> QED BY <1>1, <2>1, ConsoleHoldsNothing
<1>2. CASE t = "main" /\ mainAt = "hasSession" /\ holder["core"] = u
  <2>1. at["main"] = "out"
    BY <1>2 DEF LockInv, CallsPlaced, Types, CallTypes
  <2>2. u # "main"
    BY <1>2, <2>1, OutHoldsNothing
  <2> QED BY <1>2, <2>2, ConsoleHoldsNothing
<1>3. CASE (t = "main" /\ u = "worker") \/ (t = "worker" /\ u = "main")
  BY <1>3
<1> QED BY <1>1, <1>2, <1>3 DEF WaitsFor

\* No threads wait for each other, for a lock or a wake-up, but for the inverted
\* order of classes() and wpSet(): what AnsweredUnlessInverted says of time, for
\* every kind of call and any number of tasks (callBackend, waitForAll, the
\* worker's loop).
THEOREM OnlyInversionSticks == Spec => []StuckOnlyInverted
<1>1. Init => Closing /\ Awake
  BY ClosingInit, AwakeInit
<1>2. Types /\ Closing /\ Awake /\ [Next]_vars => Closing' /\ Awake'
  BY ClosingKept, AwakeKept
<1>3. Types /\ LockInv /\ Closing /\ Awake => StuckOnlyInverted
  <2> SUFFICES ASSUME Types, LockInv, Closing, Awake,
                      NEW stuck \in (SUBSET Threads) \ {{}},
                      \A t \in stuck : \E u \in stuck : WaitsFor(t, u)
               PROVE  Inverted
    BY DEF StuckOnlyInverted
  <2>1. \A t \in stuck : \E u \in stuck : WaitsFor(t, u) /\ u # t /\ u # "console"
    <3> TAKE t \in stuck
    <3>1. PICK u \in stuck : WaitsFor(t, u)
      OBVIOUS
    <3>2. "console" \in stuck => at["console"] = "lock"
      BY DEF WaitsFor
    <3> QED BY <3>1, <3>2, WaitsForWhom
  <2>2. "worker" \in stuck /\ "main" \in stuck
    <3>1. PICK t \in stuck : TRUE
      OBVIOUS
    <3>2. PICK u \in stuck : u # "console"
      BY <2>1, <3>1
    <3>3. PICK v \in stuck : v # u /\ v # "console"
      BY <2>1, <3>2
    <3> QED BY <3>2, <3>3
  <2> QED BY <2>1, <2>2, PairInverted
<1> QED
  BY <1>1, <1>2, <1>3, BridgeInvariant, PTL DEF Spec

=============================================================================
