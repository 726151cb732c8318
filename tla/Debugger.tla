------------------------------ MODULE Debugger ------------------------------
(***************************************************************************)
(* Breakpoints, parked threads and hardware watchpoints: the handlers of   *)
(* rzfrida_agent.js, the target's threads they stop, and the commands of   *)
(* rz_frida_backend.c that drive them.                                     *)
(*                                                                         *)
(* JavaScript runs under one lock, so a request handler, the body of a     *)
(* breakpoint's onEnter up to op.wait(), what follows op.wait(), and the   *)
(* exception handler are each one step; a thread that hit a breakpoint or  *)
(* trapped waits for that lock like any other.  The host has one request   *)
(* outstanding (Rpc); it may give up on it, and the agent handles it all   *)
(* the same.                                                               *)
(***************************************************************************)
EXTENDS Integers, Sequences, FiniteSets, SequencesExt

CONSTANTS
  Threads,      \* threads of the target
  FirstThreads, \* those that exist from the start
  Refusing,     \* those that accept no debug register
  Addresses,    \* target addresses
  Sizes,        \* sizes of a watchpoint
  Slots,        \* frida.hw.watchpoints
  None,         \* no thread, no reply
  All,          \* the "*" of a remove
  MaxCommands,  \* bound: commands typed
  MaxHits       \* bound: breakpoint hits and watched accesses

ASSUME DebuggerAssumption ==
  /\ FirstThreads \subseteq Threads
  /\ Refusing \subseteq Threads
  /\ Addresses \subseteq Nat
  /\ Sizes \subseteq Nat \ {0}
  /\ Slots \in Nat \ {0}
  /\ None \notin Threads
  /\ All \notin Addresses
  /\ MaxCommands \in Nat /\ MaxHits \in Nat

VARIABLES
  breakpoints,      \* breakpoints: [bp, address]
  nextBreakpointId,
  stopped,          \* the Map stopped: [thread, bp, address], oldest first
  watchpoints,      \* the Map watchpoints: [slot, address, size], oldest first
  at,               \* at[t]: "unborn", "run", "parked" in op.wait(), "released"
  context,          \* context[t]: the register t's onEnter context holds
  hw,               \* hw[t]: the watchpoints in t's debug registers
  trap,             \* trap[t]: the address whose access trapped t
  crashed,          \* an unhandled exception ended the target
  waiting,          \* the number of the request the host waits for, 0 if none
  command,          \* the command the host runs
  inbox,            \* requests posted and not yet handled: [n, type, arg]
  reply,            \* the reply to the request the host waits for
  bounds,           \* counters of the bounded inputs
  \* history, read by the properties and never by a guard
  acks,             \* continues answered with resumed: true
  resumes,          \* threads that left onEnter
  written,          \* written[t]: the last register write acknowledged for t
  ran               \* ran[t]: the register t resumed with

agentVars == <<breakpoints, nextBreakpointId, stopped, watchpoints>>
threadVars == <<at, context, ran>>
trapVars == <<hw, trap, crashed>>
hostVars == <<waiting, command, inbox, reply>>
history == <<acks, resumes, written>>
vars == <<agentVars, threadVars, trapVars, hostVars, bounds, history>>

-----------------------------------------------------------------------------
Elements(s) == {s[i] : i \in DOMAIN s}
Least(S) == CHOOSE n \in S : \A m \in S : n <= m

\* Map.delete of the oldest of the entries at found, if there are any.
Delete(s, found) == IF found = {} THEN s ELSE RemoveAt(s, Least(found))

Live == {t \in Threads : at[t] # "unborn"}
Running(t) == at[t] = "run" /\ trap[t] = None
StoppedThreads == {s.thread : s \in Elements(stopped)}

Covers(wp, a) == wp.address <= a /\ a < wp.address + wp.size
Watchpoint == [slot : 0 .. Slots - 1, address : Addresses, size : Sizes]

\* What each command posts.
BpSetRequests == [type : {"bpSet"}, arg : Addresses]
BpRemoveRequests == [type : {"bpRemove"}, arg : Addresses \cup {All}]
ContRequests == [type : {"cont"}, arg : Threads]
RegWriteRequests == [type : {"regWrite"}, arg : Threads]
WpSetRequests == [type : {"wpSet"}, arg : [address : Addresses, size : Sizes]]
WpRemoveRequests == [type : {"wpRemove"}, arg : Addresses \cup {All}]
Request == BpSetRequests \cup BpRemoveRequests \cup ContRequests
             \cup RegWriteRequests \cup WpSetRequests \cup WpRemoveRequests

\* A continue without a thread id asks first.
AskParked == [type |-> "bpParked", arg |-> None]

-----------------------------------------------------------------------------
(* The host: rz_frida_backend_bp_set, _bp_remove, _continue, _reg_write,   *)
(* _wp_set and _wp_remove.                                                 *)

Post(r) ==
  LET n == bounds.requests + 1
  IN  /\ inbox' = Append(inbox, [n |-> n, type |-> r.type, arg |-> r.arg])
      /\ waiting' = n
      /\ reply' = None
      /\ bounds' = [bounds EXCEPT !.requests = n]

\* A command with its arguments posts its one request.
Command(r) ==
  /\ command = "none"
  /\ bounds.commands < MaxCommands
  /\ command' = r.type
  /\ Post(r)
  /\ UNCHANGED <<agentVars, threadVars, trapVars, history>>

\* `Frgj` without a thread id asks which threads are parked.
ContinueAny ==
  /\ command = "none"
  /\ bounds.commands < MaxCommands
  /\ command' = "pick"
  /\ Post(AskParked)
  /\ UNCHANGED <<agentVars, threadVars, trapVars, history>>

\* ... then continues the most recent of them, when there is one.
ContinueRecent ==
  /\ command = "pick"
  /\ reply # None
  /\ reply.recent # None
  /\ command' = "contRecent"
  /\ Post([type |-> "cont", arg |-> reply.recent])
  /\ UNCHANGED <<agentVars, threadVars, trapVars, history>>

\* The command returns, with its reply or without.
EndCommand ==
  /\ command' = "none"
  /\ waiting' = 0
  /\ reply' = None
  /\ bounds' = [bounds EXCEPT !.commands = @ + 1]
  /\ UNCHANGED <<inbox, agentVars, threadVars, trapVars, history>>

Finish ==
  /\ reply # None
  /\ ~(command = "pick" /\ reply.recent # None)
  /\ EndCommand

GiveUp == command # "none" /\ reply = None /\ EndCommand

-----------------------------------------------------------------------------
(* The agent's request handlers.                                           *)

Served == Head(inbox)

\* onRequest: the head of the inbox is handled and answered once.
Serve(type, ok, recent) ==
  /\ ~crashed
  /\ inbox # <<>>
  /\ Served.type = type
  /\ inbox' = Tail(inbox)
  /\ reply' = IF Served.n = waiting THEN [ok |-> ok, recent |-> recent] ELSE reply
  /\ UNCHANGED <<waiting, command, bounds>>

\* An id is drawn unless the address has a breakpoint; Interceptor.attach may
\* still refuse the address.
BpSet ==
  LET a == Served.arg
      known == \E b \in breakpoints : b.address = a
  IN  \E accepted \in BOOLEAN :
        /\ Serve("bpSet", accepted /\ ~known, None)
        /\ nextBreakpointId' = IF known THEN nextBreakpointId ELSE nextBreakpointId + 1
        /\ breakpoints' = IF accepted /\ ~known
                          THEN breakpoints \cup {[bp |-> nextBreakpointId, address |-> a]}
                          ELSE breakpoints
        /\ UNCHANGED <<stopped, watchpoints, threadVars, trapVars, history>>

\* A thread parked at a removed breakpoint stays parked.
BpRemove ==
  LET gone == {b \in breakpoints : Served.arg \in {All, b.address}}
  IN  /\ Serve("bpRemove", gone # {} \/ Served.arg = All, None)
      /\ breakpoints' = breakpoints \ gone
      /\ UNCHANGED <<nextBreakpointId, stopped, watchpoints, threadVars, trapVars, history>>

\* parkedThreads: the recent one is the last key of the Map.
BpParked ==
  /\ Serve("bpParked", TRUE,
           IF stopped = <<>> THEN None ELSE stopped[Len(stopped)].thread)
  /\ UNCHANGED <<agentVars, threadVars, trapVars, history>>

\* Mutant of Continue: whoever is in the Map is told to go on.
ContinueStopped ==
  LET t == Served.arg
      ok == t \in StoppedThreads
  IN  /\ Serve("cont", ok, None)
      /\ at' = IF ok THEN [at EXCEPT ![t] = "released"] ELSE at
      /\ acks' = IF ok THEN acks + 1 ELSE acks
      /\ UNCHANGED <<agentVars, context, ran, trapVars, resumes, written>>

\* frida.cont.<tid>: taken by the recv of that thread if it waits in one, else
\* by onRequest, which knows no such request.
Continue ==
  LET t == Served.arg
      ok == at[t] = "parked"
  IN  /\ Serve("cont", ok, None)
      /\ at' = IF ok THEN [at EXCEPT ![t] = "released"] ELSE at
      /\ acks' = IF ok THEN acks + 1 ELSE acks
      /\ UNCHANGED <<agentVars, context, ran, trapVars, resumes, written>>

\* regWrite changes the live context of a thread found in the Map.
RegWrite ==
  LET t == Served.arg
      ok == t \in StoppedThreads
  IN  /\ Serve("regWrite", ok, None)
      /\ context' = IF ok THEN [context EXCEPT ![t] = Served.n] ELSE context
      /\ written' = IF ok THEN [written EXCEPT ![t] = Served.n] ELSE written
      /\ UNCHANGED <<agentVars, at, ran, trapVars, acks, resumes>>

\* Mutant of Disarm: only threads that run are visited.
DisarmRunning(wps) == [t \in Threads |-> IF Running(t) THEN hw[t] \ wps ELSE hw[t]]

\* eachThreadWatchpoint with no address, for each of wps: the debug registers
\* after the slot is cleared on every thread.
Disarm(wps) == [t \in Threads |-> hw[t] \ wps]

\* eachThreadWatchpoint with an address: the threads that exist now, except
\* those that refuse.
Accepting == Live \ Refusing
Arm(wp) == [t \in Threads |-> IF t \in Accepting THEN hw[t] \cup {wp} ELSE hw[t]]

\* Mutant of FreeSlots: slots counted from one.
FreeSlotsFromOne == (1 .. Slots) \ {wp.slot : wp \in Elements(watchpoints)}

FreeSlots == (0 .. Slots - 1) \ {wp.slot : wp \in Elements(watchpoints)}

WpSet ==
  LET a == Served.arg.address
      known == \E wp \in Elements(watchpoints) : wp.address = a
      wp == [slot |-> Least(FreeSlots), address |-> a, size |-> Served.arg.size]
      ok == ~known /\ FreeSlots # {} /\ Accepting # {}
  IN  /\ Serve("wpSet", ok, None)
      /\ IF ok
         THEN watchpoints' = Append(watchpoints, wp) /\ hw' = Arm(wp)
         ELSE UNCHANGED <<watchpoints, hw>>
      /\ UNCHANGED <<breakpoints, nextBreakpointId, stopped, threadVars, trap, crashed, history>>

WpRemove ==
  LET all == Served.arg = All
      found == {i \in DOMAIN watchpoints : watchpoints[i].address = Served.arg}
  IN  /\ Serve("wpRemove", all \/ found # {}, None)
      /\ watchpoints' = IF all THEN <<>> ELSE Delete(watchpoints, found)
      /\ hw' = Disarm(IF all THEN Elements(watchpoints) ELSE {watchpoints[i] : i \in found})
      /\ UNCHANGED <<breakpoints, nextBreakpointId, stopped, threadVars, trap, crashed, history>>

-----------------------------------------------------------------------------
(* The target's threads.                                                   *)

ThreadStarts(t) ==
  /\ ~crashed
  /\ at[t] = "unborn"
  /\ at' = [at EXCEPT ![t] = "run"]
  /\ UNCHANGED <<agentVars, context, ran, trapVars, hostVars, bounds, history>>

CountHit ==
  /\ bounds.hits < MaxHits
  /\ bounds' = [bounds EXCEPT !.hits = @ + 1]

\* Mutant of BpHit: only the first thread stopped at an address is recorded.
BpHitOnce(t, b) ==
  /\ ~crashed
  /\ Running(t)
  /\ CountHit
  /\ at' = [at EXCEPT ![t] = "parked"]
  /\ context' = [context EXCEPT ![t] = 0]
  /\ ran' = [ran EXCEPT ![t] = 0]
  /\ written' = [written EXCEPT ![t] = 0]
  /\ stopped' = IF \E s \in Elements(stopped) : s.address = b.address
                THEN stopped
                ELSE Append(stopped, [thread |-> t, bp |-> b.bp, address |-> b.address])
  /\ UNCHANGED <<breakpoints, nextBreakpointId, watchpoints, trapVars, hostVars,
                 acks, resumes>>

\* onEnter: report the hit, enter the Map, wait for frida.cont.<tid>.
BpHit(t, b) ==
  /\ ~crashed
  /\ Running(t)
  /\ CountHit
  /\ at' = [at EXCEPT ![t] = "parked"]
  /\ context' = [context EXCEPT ![t] = 0]
  /\ ran' = [ran EXCEPT ![t] = 0]
  /\ written' = [written EXCEPT ![t] = 0]
  /\ stopped' = Append(stopped, [thread |-> t, bp |-> b.bp, address |-> b.address])
  /\ UNCHANGED <<breakpoints, nextBreakpointId, watchpoints, trapVars, hostVars,
                 acks, resumes>>

\* Mutant of Resume: the entry stays in the Map.
ResumeKeepsEntry(t) ==
  /\ ~crashed
  /\ at[t] = "released"
  /\ at' = [at EXCEPT ![t] = "run"]
  /\ ran' = [ran EXCEPT ![t] = context[t]]
  /\ resumes' = resumes + 1
  /\ UNCHANGED <<agentVars, context, trapVars, hostVars, bounds, acks, written>>

\* op.wait() returns to a thread whose continue arrived; it leaves the Map and
\* runs on with its context.
Resume(t) ==
  /\ ~crashed
  /\ at[t] = "released"
  /\ at' = [at EXCEPT ![t] = "run"]
  /\ stopped' = Delete(stopped, {i \in DOMAIN stopped : stopped[i].thread = t})
  /\ ran' = [ran EXCEPT ![t] = context[t]]
  /\ resumes' = resumes + 1
  /\ UNCHANGED <<breakpoints, nextBreakpointId, watchpoints, context, trapVars, hostVars,
                 bounds, acks, written>>

\* A running thread touches a watched address.
Access(t, a) ==
  /\ ~crashed
  /\ Running(t)
  /\ \E wp \in hw[t] : Covers(wp, a)
  /\ CountHit
  /\ trap' = [trap EXCEPT ![t] = a]
  /\ UNCHANGED <<agentVars, threadVars, hw, crashed, hostVars, history>>

\* The exception handler when no address comes with the trap: every watchpoint
\* is disarmed.
HandleTrapAnywhere(t) ==
  /\ watchpoints' = <<>>
  /\ hw' = Disarm(Elements(watchpoints))

\* ... and when it does: the oldest watchpoint that covers it.
HandleTrapAt(t) ==
  LET hit == {i \in DOMAIN watchpoints : Covers(watchpoints[i], trap[t])}
  IN  /\ hit # {}
      /\ watchpoints' = Delete(watchpoints, hit)
      /\ hw' = Disarm({watchpoints[Least(hit)]})

\* The handler recognises the trap and returns true.
TrapHandled(t) ==
  /\ ~crashed
  /\ trap[t] # None
  /\ watchpoints # <<>>
  /\ HandleTrapAnywhere(t) \/ HandleTrapAt(t)
  /\ trap' = [trap EXCEPT ![t] = None]
  /\ UNCHANGED <<breakpoints, nextBreakpointId, stopped, threadVars, crashed, hostVars,
                 bounds, history>>

\* It does not: the watchpoint was disarmed meanwhile.  The trap goes to the
\* target's own handling, which ends it.
TrapUnhandled(t) ==
  /\ ~crashed
  /\ trap[t] # None
  /\ \A wp \in Elements(watchpoints) : ~Covers(wp, trap[t])
  /\ crashed' = TRUE
  /\ UNCHANGED <<agentVars, threadVars, hw, trap, hostVars, bounds, history>>

-----------------------------------------------------------------------------
Init ==
  /\ breakpoints = {}
  /\ nextBreakpointId = 1
  /\ stopped = <<>>
  /\ watchpoints = <<>>
  /\ at = [t \in Threads |-> IF t \in FirstThreads THEN "run" ELSE "unborn"]
  /\ context = [t \in Threads |-> 0]
  /\ ran = [t \in Threads |-> 0]
  /\ hw = [t \in Threads |-> {}]
  /\ trap = [t \in Threads |-> None]
  /\ crashed = FALSE
  /\ waiting = 0
  /\ command = "none"
  /\ inbox = <<>>
  /\ reply = None
  /\ bounds = [commands |-> 0, requests |-> 0, hits |-> 0]
  /\ acks = 0
  /\ resumes = 0
  /\ written = [t \in Threads |-> 0]

Host ==
  \/ \E r \in Request : Command(r)
  \/ ContinueAny
  \/ ContinueRecent
  \/ Finish
  \/ GiveUp

Agent == BpSet \/ BpRemove \/ BpParked \/ Continue \/ RegWrite \/ WpSet \/ WpRemove

Target == \E t \in Threads :
  \/ ThreadStarts(t)
  \/ \E b \in breakpoints : BpHit(t, b)
  \/ Resume(t)
  \/ \E a \in Addresses : Access(t, a)
  \/ TrapHandled(t)
  \/ TrapUnhandled(t)

\* The user types nothing more.
Rest == command = "none" /\ UNCHANGED vars

Next == Host \/ Agent \/ Target \/ Rest

Spec == Init /\ [][Next]_vars

-----------------------------------------------------------------------------
(* Correctness.                                                            *)

\* Every variable has its type.
TypeOK ==
  /\ breakpoints \subseteq [bp : Nat, address : Addresses]
  /\ nextBreakpointId \in Nat
  /\ stopped \in Seq([thread : Threads, bp : Nat, address : Addresses])
  /\ watchpoints \in Seq(Watchpoint)
  /\ at \in [Threads -> {"unborn", "run", "parked", "released"}]
  /\ context \in [Threads -> Nat]
  /\ ran \in [Threads -> Nat]
  /\ hw \in [Threads -> SUBSET Watchpoint]
  /\ trap \in [Threads -> Addresses \cup {None}]
  /\ crashed \in BOOLEAN
  /\ waiting \in Nat
  /\ command \in {r.type : r \in Request} \cup {"none", "pick", "contRecent"}
  /\ reply \in [ok : BOOLEAN, recent : Threads \cup {None}] \cup {None}

\* A thread has one entry in the Map of stopped threads from the hit to the
\* moment it runs on, and only then: no parked thread is lost to `Frgj` when its
\* breakpoint is removed or other threads come and go, and no register write is
\* acknowledged for a thread that no longer waits; and the id it reports never
\* names a breakpoint at another address, however often breakpoints are removed
\* and set while it waits (bpSet, parkedThreads).
StopsAccounted ==
  /\ StoppedThreads = {t \in Threads : at[t] \in {"parked", "released"}}
  /\ \A i, j \in DOMAIN stopped : stopped[i].thread = stopped[j].thread => i = j
  /\ \A s \in Elements(stopped), b \in breakpoints : s.bp = b.bp => s.address = b.address

\* README: one continue releases one parked thread.  Every acknowledged continue
\* releases one stop, and no thread goes on without one.
ContinueReleasesOne ==
  acks = resumes + Cardinality({t \in Threads : at[t] = "released"})

\* README: a register write takes effect when the thread is continued.
WritesTakeEffect == \A t \in Threads : at[t] = "run" => ran[t] = written[t]

\* Every debug register in use belongs to a watchpoint the agent still lists,
\* one per slot: none is left behind on a thread by a remove or by a hit taken
\* on another thread (clearWatchpoint, the exception handler).
HardwareMatches ==
  /\ \A t \in Threads : hw[t] \subseteq Elements(watchpoints)
  /\ \A i, j \in DOMAIN watchpoints :
       watchpoints[i].slot = watchpoints[j].slot
         \/ watchpoints[i].address = watchpoints[j].address => i = j

\* README: an access to a watched address arrives as a frida.wp message; a trap
\* of a watchpoint is never passed on to the target.
TrapsReported == ~crashed
=============================================================================
