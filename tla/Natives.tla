-------------------------------- MODULE Natives --------------------------------
(***************************************************************************)
(* RegisterNatives capture: rnSet and rnList of rzfrida_agent.js and the   *)
(* hooks they attach, run by the target's threads.                         *)
(*                                                                         *)
(* The agent's request handlers and the hooks share the JavaScript lock,   *)
(* and give it up inside a NativeFunction: NewGlobalRef in onLeave, and    *)
(* the class name and DeleteGlobalRef in rnFlushPending and rnClearPending.*)
(* One step is the code between two such calls.  rnSet hooks the entries   *)
(* of the JNI table or, if it gave none, the exports of libart, and either *)
(* may give several: a call may pass two hooked entries.                   *)
(***************************************************************************)
EXTENDS Integers, Sequences, FiniteSets

CONSTANTS
  Threads,     \* threads of the target
  Capacity,    \* RN_BUFFER_MAX
  MaxCalls,    \* bound: calls of RegisterNatives
  MaxRequests  \* bound: rnSet and rnList requests

ASSUME NativesAssumption ==
  /\ IsFiniteSet(Threads)
  /\ Capacity \in Nat \ {0}
  /\ MaxCalls \in Nat /\ MaxRequests \in Nat

VARIABLES
  rnHookEnabled,
  generation,    \* which listeners are attached while rnHookEnabled
  rnDepth,
  rnPending,     \* [call, kind]: "methods" with a class handle, or "warning"
  rnBuffer,
  main,          \* what the request handler is doing
  held,          \* the call whose entry rnFlushPending has shifted, 0 if none
  frames,        \* frames[t]: the hooked entries t is in, innermost last
  refs,          \* refs[c]: global references to the class handle of call c
  calls,         \* calls of RegisterNatives so far
  requests,      \* requests so far
  \* history
  captured,      \* calls ever pushed to rnPending
  listed,        \* the last reply of rnList
  late           \* calls whose onLeave was running when the hook was disabled

captureVars == <<rnHookEnabled, generation, rnDepth>>
queueVars == <<rnPending, rnBuffer, refs>>
mainVars == <<main, held, requests>>
history == <<captured, listed, late>>
vars == <<captureVars, queueVars, mainVars, frames, calls, history>>

Calls == 1 .. MaxCalls
Kinds == {"none", "warning", "methods"}
Frame == [call : Calls, generation : Nat, outer : BOOLEAN, capture : Kinds,
          forwarded : BOOLEAN, leaving : BOOLEAN]
Entry == [call : Calls, kind : {"warning", "methods"}]

-----------------------------------------------------------------------------
HasMethods(e) == e.kind = "methods"

\* The calls of the entries with methods, in their order.
CallsOf(entries) ==
  LET first[n \in 0 .. Len(entries)] ==
        IF n = 0 THEN <<>>
        ELSE IF HasMethods(entries[n]) THEN Append(first[n - 1], entries[n].call)
        ELSE first[n - 1]
  IN  first[Len(entries)]

rnQueuedCount == Len(rnBuffer) + Len(CallsOf(rnPending))

Top(t) == frames[t][Len(frames[t])]
Pop(t) == frames' = [frames EXCEPT ![t] = SubSeq(@, 1, Len(@) - 1)]

\* A listener that was detached is not called any more.
Attached(f) == rnHookEnabled /\ f.generation = generation

-----------------------------------------------------------------------------
(* The target's threads.                                                   *)

Outermost(t) == rnHookEnabled /\ ~rnDepth[t]

\* onEnter: only the outermost entry captures.  What it finds decides: no
\* methods, a call it only warns of, or methods while the queues have room.
OnEnter(t, c) ==
  \E capture \in IF rnQueuedCount < Capacity THEN Kinds ELSE {"none", "warning"} :
    LET f == [call |-> c, generation |-> generation, outer |-> Outermost(t),
              capture |-> IF Outermost(t) THEN capture ELSE "none",
              forwarded |-> FALSE, leaving |-> FALSE]
        under == [i \in DOMAIN frames[t] |-> [frames[t][i] EXCEPT !.forwarded = TRUE]]
    IN  /\ frames' = [frames EXCEPT ![t] = Append(under, f)]
        /\ rnDepth' = [rnDepth EXCEPT ![t] = @ \/ Outermost(t)]

\* The target registers native methods.
RegisterNatives(t) ==
  /\ frames[t] = <<>>
  /\ calls < MaxCalls
  /\ calls' = calls + 1
  /\ OnEnter(t, calls + 1)
  /\ UNCHANGED <<rnHookEnabled, generation, queueVars, mainVars, history>>

\* The first entry calls the second.
Forward(t) ==
  /\ Len(frames[t]) = 1
  /\ ~Top(t).leaving /\ ~Top(t).forwarded
  /\ OnEnter(t, Top(t).call)
  /\ UNCHANGED <<rnHookEnabled, generation, queueVars, mainVars, calls, history>>

Push(c, kind) == rnPending' = Append(rnPending, [call |-> c, kind |-> kind])

\* An entry returns and no listener of it captures.
LeaveUnhooked(t) ==
  /\ frames[t] # <<>>
  /\ ~Top(t).leaving
  /\ ~(Attached(Top(t)) /\ Top(t).outer)
  /\ Pop(t)
  /\ UNCHANGED <<captureVars, queueVars, mainVars, calls, history>>

\* Mutant of Leave: the thread is only forgotten when it captured something.
LeaveKeepsDepth(t) ==
  /\ frames[t] # <<>>
  /\ ~Top(t).leaving
  /\ Attached(Top(t)) /\ Top(t).outer
  /\ Top(t).capture \in {"none", "warning"}
  /\ IF Top(t).capture = "warning"
     THEN Push(Top(t).call, "warning") /\ rnDepth' = [rnDepth EXCEPT ![t] = FALSE]
     ELSE UNCHANGED <<rnPending, rnDepth>>
  /\ Pop(t)
  /\ UNCHANGED <<rnHookEnabled, generation, rnBuffer, refs, mainVars, calls, history>>

\* onLeave without methods: queue the warning, if any.
Leave(t) ==
  /\ frames[t] # <<>>
  /\ ~Top(t).leaving
  /\ Attached(Top(t)) /\ Top(t).outer
  /\ Top(t).capture \in {"none", "warning"}
  /\ IF Top(t).capture = "warning" THEN Push(Top(t).call, "warning") ELSE UNCHANGED rnPending
  /\ rnDepth' = [rnDepth EXCEPT ![t] = FALSE]
  /\ Pop(t)
  /\ UNCHANGED <<rnHookEnabled, generation, rnBuffer, refs, mainVars, calls, history>>

\* onLeave with methods: NewGlobalRef gives up the lock ...
LeaveRef(t) ==
  /\ frames[t] # <<>>
  /\ ~Top(t).leaving
  /\ Attached(Top(t)) /\ Top(t).outer
  /\ Top(t).capture = "methods"
  /\ refs' = [refs EXCEPT ![Top(t).call] = @ + 1]
  /\ frames' = [frames EXCEPT ![t][Len(frames[t])].leaving = TRUE]
  /\ UNCHANGED <<captureVars, rnPending, rnBuffer, mainVars, calls, history>>

\* ... and the entry is queued, whatever happened meanwhile.
LeavePush(t) ==
  /\ frames[t] # <<>>
  /\ Top(t).leaving
  /\ Push(Top(t).call, "methods")
  /\ rnDepth' = [rnDepth EXCEPT ![t] = FALSE]
  /\ captured' = captured \cup {Top(t).call}
  /\ Pop(t)
  /\ UNCHANGED <<rnHookEnabled, generation, rnBuffer, refs, mainVars, calls, listed, late>>

-----------------------------------------------------------------------------
(* The request handlers.                                                   *)

Begin ==
  /\ main = "idle"
  /\ requests < MaxRequests
  /\ requests' = requests + 1

\* rnSet with enable: hooks are attached; nothing when they already are, or
\* when no entry is found or can be hooked.
RnEnable ==
  /\ Begin
  /\ ~rnHookEnabled
  /\ rnHookEnabled' = TRUE
  /\ generation' = generation + 1
  /\ UNCHANGED <<rnDepth, queueVars, main, held, frames, calls, history>>

\* rnSet without: the hooks go, the depths are forgotten, the queues cleared.
RnDisable ==
  /\ Begin
  /\ rnHookEnabled' = FALSE
  /\ rnDepth' = [t \in Threads |-> FALSE]
  /\ main' = "clear"
  /\ late' = {Top(t).call : t \in {t \in Threads : frames[t] # <<>> /\ Top(t).leaving}}
  /\ UNCHANGED <<generation, queueVars, held, frames, calls, captured, listed>>

\* Mutant of Unref: deleted after the send and again in the finally block.
UnrefTwice(c) == refs' = [refs EXCEPT ![c] = @ - 2]

Unref(c) == refs' = [refs EXCEPT ![c] = @ - 1]

\* Mutant of ClearPending: the entries go, their references stay.
ClearPendingKeepsRefs ==
  /\ main = "clear"
  /\ rnPending # <<>>
  /\ rnPending' = Tail(rnPending)
  /\ UNCHANGED <<refs, captureVars, rnBuffer, mainVars, frames, calls, history>>

\* rnClearPending, an entry at a time.
ClearPending ==
  /\ main = "clear"
  /\ rnPending # <<>>
  /\ rnPending' = Tail(rnPending)
  /\ IF HasMethods(Head(rnPending)) THEN Unref(Head(rnPending).call) ELSE UNCHANGED refs
  /\ UNCHANGED <<captureVars, rnBuffer, mainVars, frames, calls, history>>

\* Mutant of ClearDone: what waits in rnPending is left there.
ClearDoneEarly ==
  /\ main = "clear"
  /\ rnBuffer' = <<>>
  /\ main' = "idle"
  /\ UNCHANGED <<captureVars, rnPending, refs, held, requests, frames, calls, history>>

ClearDone ==
  /\ main = "clear"
  /\ rnPending = <<>>
  /\ rnBuffer' = <<>>
  /\ main' = "idle"
  /\ UNCHANGED <<captureVars, rnPending, refs, held, requests, frames, calls, history>>

RnList ==
  /\ Begin
  /\ main' = "flush"
  /\ UNCHANGED <<captureVars, queueVars, held, frames, calls, history>>

\* Mutant of FlushShift: the last entry is taken.
FlushPop ==
  /\ main = "flush"
  /\ rnPending # <<>>
  /\ LET last == rnPending[Len(rnPending)]
     IN  /\ rnPending' = SubSeq(rnPending, 1, Len(rnPending) - 1)
         /\ IF HasMethods(last)
            THEN main' = "deliver" /\ held' = last.call
            ELSE UNCHANGED <<main, held>>
  /\ UNCHANGED <<captureVars, rnBuffer, refs, requests, frames, calls, history>>

\* rnFlushPending shifts an entry; a warning is sent at once, for the others
\* the class name is asked for.
FlushShift ==
  /\ main = "flush"
  /\ rnPending # <<>>
  /\ rnPending' = Tail(rnPending)
  /\ IF HasMethods(Head(rnPending))
     THEN main' = "deliver" /\ held' = Head(rnPending).call
     ELSE UNCHANGED <<main, held>>
  /\ UNCHANGED <<captureVars, rnBuffer, refs, requests, frames, calls, history>>

\* Named or "<unknown>", the entry is buffered and sent, its reference deleted.
FlushDeliver ==
  /\ main = "deliver"
  /\ rnBuffer' = Append(rnBuffer, held)
  /\ Unref(held)
  /\ held' = 0
  /\ main' = "flush"
  /\ UNCHANGED <<captureVars, rnPending, requests, frames, calls, history>>

\* The buffer becomes the reply.
FlushDone ==
  /\ main = "flush"
  /\ rnPending = <<>>
  /\ rnBuffer' = <<>>
  /\ listed' = rnBuffer
  /\ main' = "idle"
  /\ UNCHANGED <<captureVars, rnPending, refs, held, requests, frames, calls, captured, late>>

-----------------------------------------------------------------------------
Init ==
  /\ rnHookEnabled = FALSE
  /\ generation = 0
  /\ rnDepth = [t \in Threads |-> FALSE]
  /\ rnPending = <<>>
  /\ rnBuffer = <<>>
  /\ main = "idle"
  /\ held = 0
  /\ frames = [t \in Threads |-> <<>>]
  /\ refs = [c \in Calls |-> 0]
  /\ calls = 0
  /\ requests = 0
  /\ captured = {}
  /\ listed = <<>>
  /\ late = {}

Target == \E t \in Threads :
  RegisterNatives(t) \/ Forward(t) \/ LeaveUnhooked(t) \/ Leave(t) \/ LeaveRef(t) \/ LeavePush(t)

Handler == RnEnable \/ RnDisable \/ ClearPending \/ ClearDone
             \/ RnList \/ FlushShift \/ FlushDeliver \/ FlushDone

\* Nothing more is asked of the agent and the target registers nothing.
Rest == main = "idle" /\ UNCHANGED vars

Next == Target \/ Handler \/ Rest

Spec == Init /\ [][Next]_vars

-----------------------------------------------------------------------------
(* Correctness.                                                            *)

\* Every variable has its type.
TypeOK ==
  /\ rnHookEnabled \in BOOLEAN
  /\ generation \in Nat
  /\ rnDepth \in [Threads -> BOOLEAN]
  /\ rnPending \in Seq(Entry)
  /\ rnBuffer \in Seq(Calls)
  /\ main \in {"idle", "flush", "deliver", "clear"}
  /\ held \in Calls \cup {0}
  /\ frames \in [Threads -> Seq(Frame)]
  /\ refs \in [Calls -> Nat]
  /\ calls \in 0 .. MaxCalls
  /\ requests \in 0 .. MaxRequests
  /\ captured \subseteq Calls
  /\ listed \in Seq(Calls)
  /\ late \subseteq Calls

\* The captures that off has not begun to clear.
Kept ==
  IF main = "clear" THEN <<>>
  ELSE rnBuffer \o (IF main = "deliver" THEN <<held>> ELSE <<>>) \o CallsOf(rnPending)

Queue == INSTANCE Captures WITH
  Room  <- Capacity + Cardinality(Threads),
  armed <- rnHookEnabled,
  kept  <- Kept

\* However captures, listings and clears overlap, a call is captured once, also
\* when it passes through both hooked entries, and a list has every capture kept,
\* in the order the calls returned.  RN_BUFFER_MAX is checked on entry and the
\* entry queued on return, so it can be exceeded, but only by as many calls as
\* there are threads (rnOnEnter, rnOnLeave, rnFlushPending, rnClearPending).
ImplementsCaptures == Queue!CapturesSpec

Leaving == {c \in Calls : \E t \in Threads : \E i \in DOMAIN frames[t] :
              frames[t][i].call = c /\ frames[t][i].leaving}
PendingCalls == {CallsOf(rnPending)[i] : i \in DOMAIN CallsOf(rnPending)}

\* Each global reference to a class has exactly one holder that will delete it:
\* none leaks and none is deleted twice when the hook is disabled in the middle
\* of a call or of a listing (rnNewGlobalRef, rnDeleteGlobalRef).
RefsBalanced ==
  \A c \in Calls :
    refs[c] = IF c \in Leaving \cup PendingCalls \/ (main = "deliver" /\ held = c) THEN 1 ELSE 0

\* No thread is left with its depth set outside RegisterNatives, where it would
\* never be captured again, whenever the hook was disabled or enabled anew.
NoThreadBlind == \A t \in Threads : frames[t] = <<>> => ~rnDepth[t]

\* README: `FrRNj off` disarms the hook and clears the buffer.  Once it has
\* returned, only calls whose onLeave was under way can still be queued.
OffClears ==
  ~rnHookEnabled /\ main = "idle" =>
    rnBuffer = <<>> /\ \A i \in DOMAIN rnPending : rnPending[i].call \in late
=============================================================================
