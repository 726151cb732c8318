---------------------------- MODULE AgentChannel ----------------------------
(***************************************************************************)
(* The request channel between rizin and the injected agent, as built by   *)
(* backend_ensure_script, backend_request, backend_drain_reply and         *)
(* backend_on_message of rz_frida_backend.c on top of the pending registry *)
(* and the message buffer of rz_frida_message.c.                           *)
(*                                                                         *)
(* Each client is a thread inside a backend handler: the Cutter worker or  *)
(* main thread (holding the bridge's m_mutex) or the rizin console         *)
(* (holding the core lock).  A handler ensures the agent script, then      *)
(* makes one request, or several (rz_frida_backend_continue asks for the   *)
(* parked thread first).  Replies and asynchronous agent messages arrive   *)
(* on Frida's own thread.                                                  *)
(*                                                                         *)
(* A critical section of backend->lock is one atomic action; req_lock is a *)
(* variable because it is held across blocking steps.  Waiting on          *)
(* reply_cond is waiting for a Drain action to be enabled: the loop wakes  *)
(* at least every RZ_FRIDA_DRAIN_POLL_MS and tests the same conditions.    *)
(***************************************************************************)
EXTENDS Integers, Sequences

CONSTANTS
  Clients,        \* threads that call backend handlers
  Interruptible,  \* clients that pushed cancel_on_break (the console)
  Locks,          \* locks a caller may hold around a whole handler
  Holds,          \* Holds[c]: the locks client c holds around a handler
  None,           \* no owner, no reply
  Capacity,       \* RZ_FRIDA_MSGBUF_CAPACITY
  MaxCalls,       \* bound: requests made
  MaxEvents,      \* bound: messages the agent sends by itself
  UserIds,        \* ids that the user's own script puts in its messages
  MaxCancels,     \* bound: Ctrl-C presses
  MaxDeaths,      \* bound: times the agent script is destroyed
  MaxDrains       \* bound: times the user drains the message buffer

ASSUME ClientsAssumption ==
  /\ Interruptible \subseteq Clients
  /\ Holds \in [Clients -> SUBSET Locks]
  /\ None \notin Clients

\* A null pointer is not a request.
ASSUME NoneAssumption == None \notin [client : Clients, call : 1 .. MaxCalls]

ASSUME BoundsAssumption ==
  /\ Capacity \in Nat \ {0}
  /\ MaxCalls \in Nat
  /\ MaxEvents \in Nat
  /\ UserIds \subseteq Nat
  /\ MaxCancels \in Nat
  /\ MaxDeaths \in Nat
  /\ MaxDrains \in Nat

VARIABLES
  pc,         \* pc[c]: the next step of client c in its handler
  id,         \* id[c]: the request id client c drew
  result,     \* result[c]: how the last request of client c ended
  nextId,     \* pending->next_id
  pending,    \* pending->ids
  awaitId,    \* backend->await_id, 0 when none
  replyReady, \* backend->reply_ready
  reply,      \* backend->reply
  reqLock,    \* owner of backend->req_lock
  script,     \* backend->script: "none", "live", or destroyed ("dead")
  attached,   \* backend->session exists and is not detached
  cancelled,  \* session->cancel_requested
  cancellable,\* backend->cancellable is cancelled
  hookDue,    \* request_cancel set the flag and has not called the hook yet
  messages,   \* backend->messages->items, oldest first
  dropped,    \* backend->messages->dropped
  toAgent,    \* requests posted and not yet handled by the agent
  toHost,     \* agent messages not yet handled by backend_on_message
  bounds,     \* counters of the bounded inputs
  \* history, read by the properties and never by a guard
  call,       \* call[c]: the unique number of client c's request
  answer,     \* answer[c]: the call whose reply client c last received
  status,     \* status[k]: "new", "sent" or "executed" by the agent
  arrived,    \* messages pushed to the buffer so far
  raced,      \* two handlers drew an id at once
  seen,       \* value of arrived when the buffer was last drained
  asked,      \* asked[c]: Ctrl-C was pressed since c entered its handler
  torn        \* torn[c]: the clients whose backend_ensure_script dropped a dead
              \* script after c took req_lock in its own, in c's handler

clientVars  == <<pc, id, result, call, answer, raced>>
slotVars    == <<nextId, pending, awaitId, replyReady, reply>>
cancelVars  == <<cancelled, cancellable, hookDue>>
bufferVars  == <<messages, dropped, arrived, seen>>
scriptVars  == <<script, attached, torn>>
wireVars    == <<toAgent, toHost, status>>
vars == <<clientVars, slotVars, reqLock, cancelVars, bufferVars, scriptVars,
          wireVars, bounds, asked>>

-----------------------------------------------------------------------------
(* Steps of a handler.                                                     *)

\* The steps between registering a request and clearing the reply slot.
InFlightSteps == {"post", "drain", "finish"}

\* The steps taken while holding req_lock.
LockedSteps == InFlightSteps \cup {"reset", "load"}

Steps == LockedSteps \cup {"idle", "ensure", "draw", "write", "register", "done"}

Errors == {"cancelled", "gone", "timeout", "refused", "no_script"}

Active(c) == pc[c] # "idle"
InFlight(c) == pc[c] \in InFlightSteps

Calls == 1 .. MaxCalls

\* What travels from the agent: the reply to a call, or a message of its own.
\* Call 0 stands for a message that has a reply's shape, with an id that the
\* user's own script chose.
Replies == [kind : {"reply"}, id : Nat, call : 0 .. MaxCalls]
Event == [kind |-> "event"]

\* A client may enter a handler when no other holds one of its locks.
OuterLocksFree(c) == \A d \in Clients \ {c} : Active(d) => Holds[c] \cap Holds[d] = {}

-----------------------------------------------------------------------------
(* The message buffer.                                                     *)

\* A definition whose comment starts with "Mutant" is a plausible bug in the
\* definition after it; no action uses it, and a property must refute it.

\* Mutant of Newest: keeps the oldest messages.
NewestDropsLatest(buf) == SubSeq(buf, 1, IF Len(buf) > Capacity THEN Capacity ELSE Len(buf))

\* rz_frida_msgbuf_push keeps the newest Capacity items.
Newest(buf) == IF Len(buf) > Capacity
               THEN SubSeq(buf, Len(buf) - Capacity + 1, Len(buf))
               ELSE buf

\* Mutant of Push: the difference is the wrong way round.
PushMiscounts(m) ==
  LET all == Append(messages, [n |-> arrived + 1, kind |-> m.kind])
  IN  /\ messages' = Newest(all)
      /\ dropped' = dropped + (Len(Newest(all)) - Len(all))
      /\ arrived' = arrived + 1
      /\ UNCHANGED seen

Push(m) ==
  LET all == Append(messages, [n |-> arrived + 1, kind |-> m.kind])
  IN  /\ messages' = Newest(all)
      /\ dropped' = dropped + (Len(all) - Len(Newest(all)))
      /\ arrived' = arrived + 1
      /\ UNCHANGED seen

\* rz_frida_backend_messages: report and clear, under backend->lock.
DrainMessages(c) ==
  /\ pc[c] = "idle"
  /\ OuterLocksFree(c)
  /\ bounds.drains < MaxDrains
  /\ bounds' = [bounds EXCEPT !.drains = @ + 1]
  /\ messages' = <<>>
  /\ dropped' = 0
  /\ seen' = arrived
  /\ UNCHANGED <<arrived, clientVars, slotVars, reqLock, cancelVars, scriptVars,
                 wireVars, asked>>

-----------------------------------------------------------------------------
(* backend_ensure_script.                                                  *)

Goto(c, step) == pc' = [pc EXCEPT ![c] = step]
Fail(c, error) == Goto(c, "done") /\ result' = [result EXCEPT ![c] = error]

\* A handler starts: the caller has its outer locks.
Enter(c) ==
  /\ pc[c] = "idle"
  /\ OuterLocksFree(c)
  /\ bounds.calls < MaxCalls
  /\ bounds' = [bounds EXCEPT !.calls = @ + 1]
  /\ call' = [call EXCEPT ![c] = bounds.calls + 1]
  /\ asked' = [asked EXCEPT ![c] = FALSE]
  /\ Goto(c, "ensure")
  /\ UNCHANGED <<id, result, answer, raced, slotVars, reqLock, cancelVars, bufferVars,
                 scriptVars, wireVars>>

\* Lock req_lock and reset the GCancellable.
EnsureLock(c) ==
  /\ pc[c] = "ensure"
  /\ reqLock = None
  /\ reqLock' = c
  /\ cancellable' = FALSE
  /\ Goto(c, "reset")
  /\ UNCHANGED <<id, result, call, answer, raced, slotVars, cancelled, hookDue,
                 bufferVars, scriptVars, wireVars, bounds, asked>>

\* Mutant of ResetFlag: the session flag survives into the next handler.
ResetFlagForgotten == UNCHANGED cancelVars

ResetFlag == cancelled' = FALSE /\ UNCHANGED <<cancellable, hookDue>>

\* backend_script_teardown, called by client c: the slot is emptied and the
\* handler disconnected.  A message whose signal emission has already begun is
\* still handled.
Teardown(c) ==
  /\ script' = "none"
  /\ torn' = [d \in Clients |->
                IF d # c /\ pc[d] \notin {"idle", "ensure"} THEN torn[d] \cup {c} ELSE torn[d]]
  /\ awaitId' = 0
  /\ replyReady' = FALSE
  /\ reply' = None
  /\ \/ toHost' = <<>>
     \/ toHost # <<>> /\ toHost' = <<Head(toHost)>>
  /\ UNCHANGED <<nextId, pending, toAgent, status, attached>>

\* The script is alive: nothing to load.
EnsureLive(c) ==
  /\ pc[c] = "reset"
  /\ script = "live"
  /\ ResetFlag
  /\ reqLock' = None
  /\ Goto(c, "draw")
  /\ UNCHANGED <<id, result, call, answer, raced, slotVars, bufferVars, scriptVars,
                 wireVars, bounds, asked>>

\* No script, or a destroyed one that is dropped before the reload.
EnsureReload(c) ==
  /\ pc[c] = "reset"
  /\ script # "live"
  /\ ResetFlag
  /\ IF script = "dead"
     THEN Teardown(c)
     ELSE UNCHANGED <<slotVars, scriptVars, wireVars>>
  /\ IF attached
     THEN Goto(c, "load") /\ UNCHANGED <<result, reqLock>>
     ELSE Fail(c, "no_script") /\ reqLock' = None
  /\ UNCHANGED <<id, call, answer, raced, bufferVars, bounds, asked>>

\* frida_script_load_sync succeeds; the agent announces itself (agent.ready).
LoadDone(c) ==
  /\ pc[c] = "load"
  /\ attached
  /\ script' = "live"
  /\ toHost' = Append(toHost, Event)
  /\ reqLock' = None
  /\ Goto(c, "draw")
  /\ UNCHANGED <<id, result, call, answer, raced, slotVars, cancelVars, bufferVars,
                 attached, torn, toAgent, status, bounds, asked>>

\* Creating or loading the script fails, or is interrupted.
LoadFailed(c) ==
  /\ pc[c] = "load"
  /\ Fail(c, IF cancellable THEN "cancelled" ELSE "no_script")
  /\ reqLock' = None
  /\ UNCHANGED <<id, call, answer, raced, slotVars, cancelVars, bufferVars, scriptVars,
                 wireVars, bounds, asked>>

-----------------------------------------------------------------------------
(* backend_request.                                                        *)

\* rz_frida_pending_next_id runs before req_lock is taken: its read and its
\* write of next_id are two steps.
DrawId(c) ==
  /\ pc[c] = "draw"
  /\ id' = [id EXCEPT ![c] = nextId]
  /\ raced' = (raced \/ \E d \in Clients \ {c} : pc[d] = "write")
  /\ Goto(c, "write")
  /\ UNCHANGED <<result, call, answer, slotVars, reqLock, cancelVars, bufferVars,
                 scriptVars, wireVars, bounds, asked>>

WriteNextId(c) ==
  /\ pc[c] = "write"
  /\ nextId' = id[c] + 1
  /\ Goto(c, "register")
  /\ UNCHANGED <<id, result, call, answer, raced, pending, awaitId, replyReady, reply,
                 reqLock, cancelVars, bufferVars, scriptVars, wireVars, bounds,
                 asked>>

\* Mutant of Register: req_lock is not taken.
RegisterUnlocked(c) ==
  /\ pc[c] = "register"
  /\ id[c] \notin pending
  /\ pending' = pending \cup {id[c]}
  /\ awaitId' = id[c]
  /\ replyReady' = FALSE
  /\ reply' = None
  /\ status' = [status EXCEPT ![call[c]] = "sent"]
  /\ Goto(c, "post")
  /\ UNCHANGED <<nextId, result, reqLock, id, call, answer, raced, cancelVars,
                 bufferVars, scriptVars, toAgent, toHost, bounds, asked>>

\* Take req_lock, track the id and claim the reply slot.
Register(c) ==
  /\ pc[c] = "register"
  /\ reqLock = None
  /\ IF id[c] \in pending
     THEN /\ Fail(c, "refused")
          /\ UNCHANGED <<slotVars, reqLock, status>>
     ELSE /\ reqLock' = c
          /\ pending' = pending \cup {id[c]}
          /\ awaitId' = id[c]
          /\ replyReady' = FALSE
          /\ reply' = None
          /\ status' = [status EXCEPT ![call[c]] = "sent"]
          /\ Goto(c, "post")
          /\ UNCHANGED <<nextId, result>>
  /\ UNCHANGED <<id, call, answer, raced, cancelVars, bufferVars, scriptVars, toAgent,
                 toHost, bounds, asked>>

\* frida_script_post: a destroyed script swallows the request.
Post(c) ==
  /\ pc[c] = "post"
  /\ toAgent' = IF script = "live"
                THEN Append(toAgent, [id |-> id[c], call |-> call[c]])
                ELSE toAgent
  /\ Goto(c, "drain")
  /\ UNCHANGED <<id, result, call, answer, raced, slotVars, reqLock, cancelVars,
                 bufferVars, scriptVars, toHost, status, bounds, asked>>

\* Leaving the loop of backend_drain_reply.
Drained(c, why) ==
  /\ result' = [result EXCEPT ![c] = why]
  /\ Goto(c, "finish")
  /\ UNCHANGED <<id, call, answer, raced, slotVars, reqLock, cancelVars, bufferVars,
                 scriptVars, wireVars, bounds, asked>>

DrainReply(c) ==
  /\ pc[c] = "drain"
  /\ replyReady
  /\ Drained(c, "reply")

\* Mutant of DrainCancelled: only the session flag is tested.
DrainCancelledByFlag(c) ==
  /\ pc[c] = "drain"
  /\ ~replyReady
  /\ cancelled
  /\ Drained(c, "cancelled")

DrainCancelled(c) ==
  /\ pc[c] = "drain"
  /\ ~replyReady
  /\ cancelled \/ cancellable
  /\ Drained(c, "cancelled")

\* Mutant of DrainGone: a wait that finds the script destroyed drops it at once.
DrainGoneDrops(c) ==
  /\ pc[c] = "drain"
  /\ ~replyReady
  /\ ~cancelled /\ ~cancellable
  /\ script # "live"
  /\ script' = "none"
  /\ result' = [result EXCEPT ![c] = "gone"]
  /\ Goto(c, "finish")
  /\ UNCHANGED <<id, call, answer, raced, slotVars, reqLock, cancelVars, bufferVars,
                 attached, torn, wireVars, bounds, asked>>

DrainGone(c) ==
  /\ pc[c] = "drain"
  /\ ~replyReady
  /\ ~cancelled /\ ~cancellable
  /\ script # "live"
  /\ Drained(c, "gone")

\* The deadline may pass at any moment.
DrainTimeout(c) ==
  /\ pc[c] = "drain"
  /\ ~replyReady
  /\ ~cancelled /\ ~cancellable
  /\ script = "live"
  /\ Drained(c, "timeout")

\* Mutant of Finish: an error path that forgets to unlock req_lock.
FinishKeepsLock(c) ==
  /\ pc[c] = "finish"
  /\ awaitId' = 0
  /\ replyReady' = FALSE
  /\ pending' = pending \ {id[c]}
  /\ reqLock' = IF result[c] = "gone" THEN reqLock ELSE None
  /\ Goto(c, "done")
  /\ UNCHANGED <<reply, answer, raced, id, result, call, nextId, cancelVars, bufferVars,
                 scriptVars, wireVars, bounds, asked>>

\* Release the slot, and hand the reply over when there is one.
Finish(c) ==
  /\ pc[c] = "finish"
  /\ awaitId' = 0
  /\ replyReady' = FALSE
  /\ IF result[c] = "reply"
     THEN /\ answer' = [answer EXCEPT ![c] = reply.call]
          /\ reply' = None
          /\ UNCHANGED pending
     ELSE /\ pending' = pending \ {id[c]}
          /\ UNCHANGED <<answer, reply>>
  /\ reqLock' = None
  /\ Goto(c, "done")
  /\ UNCHANGED <<id, result, call, raced, nextId, cancelVars, bufferVars, scriptVars,
                 wireVars, bounds, asked>>

\* The handler makes its next request with the same script and flags.
RequestAgain(c) ==
  /\ pc[c] = "done"
  /\ result[c] = "reply"
  /\ bounds.calls < MaxCalls
  /\ bounds' = [bounds EXCEPT !.calls = @ + 1]
  /\ call' = [call EXCEPT ![c] = bounds.calls + 1]
  /\ Goto(c, "draw")
  /\ UNCHANGED <<id, result, answer, raced, slotVars, reqLock, cancelVars, bufferVars,
                 scriptVars, wireVars, asked>>

Return(c) ==
  /\ pc[c] = "done"
  /\ Goto(c, "idle")
  /\ torn' = [torn EXCEPT ![c] = {}]
  /\ UNCHANGED <<id, result, call, answer, raced, slotVars, reqLock, cancelVars,
                 bufferVars, script, attached, wireVars, bounds, asked>>

-----------------------------------------------------------------------------
(* Frida's thread, the agent and the environment.                          *)

\* Mutant of OnMessage: any reply answers the request in flight.
OnMessageAnyReply ==
  /\ toHost # <<>>
  /\ toHost' = Tail(toHost)
  /\ LET m == Head(toHost)
     IN  IF m.kind = "reply" /\ awaitId \in pending
         THEN /\ reply' = m
              /\ replyReady' = TRUE
              /\ pending' = pending \ {awaitId}
              /\ UNCHANGED bufferVars
         ELSE Push(m) /\ UNCHANGED <<reply, replyReady, pending>>
  /\ UNCHANGED <<clientVars, nextId, awaitId, reqLock, cancelVars, scriptVars,
                 toAgent, status, bounds, asked>>

\* backend_on_message: the awaited reply fills the slot, anything else is
\* buffered.
OnMessage ==
  /\ toHost # <<>>
  /\ toHost' = Tail(toHost)
  /\ LET m == Head(toHost)
     IN  IF m.kind = "reply" /\ m.id = awaitId /\ m.id \in pending
         THEN /\ reply' = m
              /\ replyReady' = TRUE
              /\ pending' = pending \ {m.id}
              /\ UNCHANGED bufferVars
         ELSE Push(m) /\ UNCHANGED <<reply, replyReady, pending>>
  /\ UNCHANGED <<clientVars, nextId, awaitId, reqLock, cancelVars, scriptVars,
                 toAgent, status, bounds, asked>>

\* Mutant of AgentHandle: a request is handled again.
AgentHandleAgain ==
  /\ script = "live"
  /\ toAgent # <<>>
  /\ LET r == Head(toAgent)
     IN  /\ toHost' = Append(toHost, [kind |-> "reply", id |-> r.id, call |-> r.call])
         /\ status' = [status EXCEPT ![r.call] = IF @ = "sent" THEN "executed" ELSE "new"]
  /\ UNCHANGED <<toAgent, clientVars, slotVars, reqLock, cancelVars, bufferVars,
                 scriptVars, bounds, asked>>

\* The agent handles requests in the order posted and answers each once.
AgentHandle ==
  /\ script = "live"
  /\ toAgent # <<>>
  /\ LET r == Head(toAgent)
     IN  /\ toHost' = Append(toHost, [kind |-> "reply", id |-> r.id, call |-> r.call])
         /\ status' = [status EXCEPT ![r.call] = "executed"]
  /\ toAgent' = Tail(toAgent)
  /\ UNCHANGED <<clientVars, slotVars, reqLock, cancelVars, bufferVars,
                 scriptVars, bounds, asked>>

\* Console output, a breakpoint hit, an uncaught error.
AgentEvent ==
  /\ script = "live"
  /\ bounds.events < MaxEvents
  /\ bounds' = [bounds EXCEPT !.events = @ + 1]
  /\ toHost' = Append(toHost, Event)
  /\ UNCHANGED <<clientVars, slotVars, reqLock, cancelVars, bufferVars,
                 scriptVars, toAgent, status, asked>>

\* Code loaded with `Frej` may send anything, also what looks like a reply.
UserSends(n) ==
  /\ script = "live"
  /\ bounds.events < MaxEvents
  /\ bounds' = [bounds EXCEPT !.events = @ + 1]
  /\ toHost' = Append(toHost, [kind |-> "reply", id |-> n, call |-> 0])
  /\ UNCHANGED <<clientVars, slotVars, reqLock, cancelVars, bufferVars,
                 scriptVars, toAgent, status, asked>>

\* The script is destroyed, alone or because the session detached.
Destroyed ==
  /\ bounds.deaths < MaxDeaths
  /\ bounds' = [bounds EXCEPT !.deaths = @ + 1]
  /\ script' = IF script = "live" THEN "dead" ELSE script
  /\ toAgent' = <<>>
  /\ toHost' \in {toHost, <<>>}
  /\ UNCHANGED <<clientVars, slotVars, reqLock, cancelVars, bufferVars, status,
                 asked, torn>>

ScriptDies == script = "live" /\ Destroyed /\ UNCHANGED attached

SessionDetaches == attached /\ attached' = FALSE /\ Destroyed

\* Ctrl-C during a command: cancel_on_break sets the session flag ...
CancelFlag ==
  /\ \E c \in Interruptible : Active(c)
  /\ ~hookDue
  /\ bounds.cancels < MaxCancels
  /\ bounds' = [bounds EXCEPT !.cancels = @ + 1]
  /\ cancelled' = TRUE
  /\ hookDue' = TRUE
  /\ asked' = [c \in Clients |-> TRUE]
  /\ UNCHANGED <<cancellable, clientVars, slotVars, reqLock, bufferVars,
                 scriptVars, wireVars>>

\* ... then calls backend_cancel_hook.
CancelHook ==
  /\ hookDue
  /\ hookDue' = FALSE
  /\ cancellable' = TRUE
  /\ asked' = [c \in Clients |-> TRUE]
  /\ UNCHANGED <<cancelled, clientVars, slotVars, reqLock, bufferVars,
                 scriptVars, wireVars, bounds>>

-----------------------------------------------------------------------------
Init ==
  /\ pc = [c \in Clients |-> "idle"]
  /\ id = [c \in Clients |-> 0]
  /\ result = [c \in Clients |-> "none"]
  /\ call = [c \in Clients |-> 0]
  /\ answer = [c \in Clients |-> 0]
  /\ raced = FALSE
  /\ nextId = 1
  /\ pending = {}
  /\ awaitId = 0
  /\ replyReady = FALSE
  /\ reply = None
  /\ reqLock = None
  /\ script = "none"
  /\ attached = TRUE
  /\ cancelled = FALSE
  /\ cancellable = FALSE
  /\ hookDue = FALSE
  /\ asked = [c \in Clients |-> FALSE]
  /\ torn = [c \in Clients |-> {}]
  /\ messages = <<>>
  /\ dropped = 0
  /\ arrived = 0
  /\ seen = 0
  /\ toAgent = <<>>
  /\ toHost = <<>>
  /\ status = [k \in Calls |-> "new"]
  /\ bounds = [calls |-> 0, events |-> 0, cancels |-> 0, deaths |-> 0,
               drains |-> 0]

\* The steps a client takes by itself once it has entered a handler.
HandlerStep(c) ==
  \/ EnsureLock(c)
  \/ EnsureLive(c)
  \/ EnsureReload(c)
  \/ LoadDone(c)
  \/ LoadFailed(c)
  \/ DrawId(c)
  \/ WriteNextId(c)
  \/ Register(c)
  \/ Post(c)
  \/ DrainReply(c)
  \/ DrainCancelled(c)
  \/ DrainGone(c)
  \/ Finish(c)
  \/ Return(c)

ClientNext(c) ==
  \/ Enter(c)
  \/ HandlerStep(c)
  \/ DrainTimeout(c)
  \/ RequestAgain(c)
  \/ DrainMessages(c)

Environment ==
  \/ OnMessage
  \/ AgentHandle
  \/ AgentEvent
  \/ \E n \in UserIds : UserSends(n)
  \/ ScriptDies
  \/ SessionDetaches
  \/ CancelFlag
  \/ CancelHook

\* No handler runs and no further input comes: the only way to stop.
Rest == (\A c \in Clients : ~Active(c)) /\ UNCHANGED vars

Next == (\E c \in Clients : ClientNext(c)) \/ Environment \/ Rest

Spec == Init /\ [][Next]_vars

\* A thread inside a handler keeps running.  Time is not assumed to pass, and
\* neither the agent nor Frida's thread is assumed to make progress.
ThreadFairness == \A c \in Clients : WF_vars(HandlerStep(c))

\* The deadline computed by backend_drain_reply is eventually behind.
DeadlineFairness == \A c \in Clients : WF_vars(DrainTimeout(c))

FairSpec == Spec /\ ThreadFairness /\ DeadlineFairness

-----------------------------------------------------------------------------
(* Correctness.                                                            *)

ClientTypes ==
  /\ pc \in [Clients -> Steps]
  /\ id \in [Clients -> Nat]
  /\ result \in [Clients -> Errors \cup {"none", "reply"}]
  /\ call \in [Clients -> 0 .. MaxCalls]
  /\ answer \in [Clients -> 0 .. MaxCalls]
  /\ raced \in BOOLEAN

SlotTypes ==
  /\ nextId \in Nat \ {0}
  /\ pending \in SUBSET Nat
  /\ awaitId \in Nat
  /\ replyReady \in BOOLEAN
  /\ reply \in Replies \cup {None}

CancelTypes ==
  /\ cancelled \in BOOLEAN
  /\ cancellable \in BOOLEAN
  /\ hookDue \in BOOLEAN

BufferTypes ==
  /\ messages \in Seq([n : Nat, kind : {"event", "reply"}])
  /\ dropped \in Nat
  /\ arrived \in Nat
  /\ seen \in Nat

WireTypes ==
  /\ toAgent \in Seq([id : Nat, call : Calls])
  /\ toHost \in Seq(Replies \cup {Event})
  /\ status \in [Calls -> {"new", "sent", "executed"}]

OtherTypes ==
  /\ reqLock \in Clients \cup {None}
  /\ script \in {"none", "live", "dead"}
  /\ attached \in BOOLEAN
  /\ asked \in [Clients -> BOOLEAN]
  /\ torn \in [Clients -> SUBSET Clients]
  /\ bounds \in [calls : 0 .. MaxCalls, events : 0 .. MaxEvents,
                 cancels : 0 .. MaxCancels, deaths : 0 .. MaxDeaths,
                 drains : 0 .. MaxDrains]

\* Every variable has its type.
TypeOK ==
  /\ ClientTypes
  /\ SlotTypes
  /\ CancelTypes
  /\ BufferTypes
  /\ WireTypes
  /\ OtherTypes

\* While one client is in flight the slot, the registry and req_lock are its
\* own; while none is, the slot is empty and no id is left in the registry,
\* whichever of reply, timeout, cancel or script death ended the last request.
SlotOwned ==
  /\ \A c \in Clients : InFlight(c) =>
       /\ reqLock = c
       /\ awaitId = id[c]
       /\ pending = IF replyReady THEN {} ELSE {id[c]}
       /\ result[c] = "reply" /\ pc[c] = "finish" => replyReady
  /\ (\A c \in Clients : ~InFlight(c)) =>
       awaitId = 0 /\ ~replyReady /\ pending = {}

\* A request that succeeded got the agent's reply to that request, never the
\* late reply to an earlier one, or else what the user's script sent under its
\* id.  The one way out of this is the unprotected next_id: two handlers that
\* held no lock in common drew their ids at once (backend_request).
ForeignReplyNeedsRace ==
  \A c \in Clients : pc[c] = "done" /\ result[c] = "reply" =>
    answer[c] \in {0, call[c]} \/ raced

\* backend_request finds no script to post to only if another handler, one that
\* holds no lock in common with it, dropped a destroyed script in its own
\* backend_ensure_script after this one had ensured it (the worker under
\* m_mutex, the console under the core lock).  req_lock does not span the two
\* halves of a handler; what a failed wait or load leaves behind, and what a
\* handler that shares a lock does, never takes the script away.
ScriptPresentAtPost ==
  \A c \in Clients : pc[c] = "post" /\ script = "none" =>
    \E d \in torn[c] : d # c /\ Holds[c] \cap Holds[d] = {}

\* A request is reported cancelled only if Ctrl-C was pressed during its own
\* handler: a cancel left over from an earlier command is never charged to it.
CancelJustified ==
  \A c \in Clients : pc[c] = "done" /\ result[c] = "cancelled" => asked[c]

\* The buffer holds the newest messages, in order and without a gap, and
\* dropped counts every message lost since the user last drained it.
BufferAccounts ==
  /\ Len(messages) <= Capacity
  /\ \A i \in 1 .. Len(messages) : messages[i].n = arrived - Len(messages) + i
  /\ dropped + Len(messages) = arrived - seen

\* A waiting client leaves backend_drain_reply without the help of the deadline
\* once it is cancelled or its script is destroyed.
WaitIsInterruptible ==
  \A c \in Clients :
    (pc[c] = "drain" /\ (cancelled \/ cancellable \/ script # "live"))
      ~> pc[c] = "finish"

\* Every handler returns to its caller, whatever the agent does.
HandlersReturn == \A c \in Clients : Active(c) ~> ~Active(c)

\* The channel implements Rpc: the outstanding request is the one in flight.
InSlot == {c \in Clients : InFlight(c)}
outstanding == IF InSlot = {} THEN None
               ELSE LET c == CHOOSE d \in InSlot : TRUE
                    IN  [client |-> c, call |-> call[c]]
Abstract == INSTANCE Rpc WITH
  Clients <- Clients, MaxCalls <- MaxCalls, None <- None,
  outstanding <- outstanding, status <- status, answer <- answer
ImplementsRpc == Abstract!Spec
=============================================================================
