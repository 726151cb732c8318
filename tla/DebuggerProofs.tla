----------------------------- MODULE DebuggerProofs -----------------------------
(***************************************************************************)
(* Proofs about Debugger, for any threads, addresses and slots and any     *)
(* number of commands and hits: which threads the Map of stopped threads   *)
(* holds, what a continue releases, what a register write reaches and      *)
(* which watchpoints the debug registers hold.                             *)
(***************************************************************************)
EXTENDS Debugger, FiniteSetTheorems, SequenceTheorems, WellFoundedInduction, TLAPS

\* What the inbox holds: what a command posts, under its number.
Posted ==
  [n : Nat, type : {"bpSet"}, arg : Addresses]
    \cup [n : Nat, type : {"bpRemove", "wpRemove"}, arg : Addresses \cup {All}]
    \cup [n : Nat, type : {"cont", "regWrite"}, arg : Threads]
    \cup [n : Nat, type : {"wpSet"}, arg : [address : Addresses, size : Sizes]]
    \cup [n : Nat, type : {"bpParked"}, arg : {None}]

Stop == [thread : Threads, bp : Nat, address : Addresses]
Reply == [ok : BOOLEAN, recent : Threads \cup {None}] \cup {None}
Commands == {r.type : r \in Request} \cup {"none", "pick", "contRecent"}

\* TypeOK, and the variables it leaves out.
AgentTypes ==
  /\ breakpoints \subseteq [bp : Nat, address : Addresses]
  /\ nextBreakpointId \in Nat
  /\ stopped \in Seq(Stop)
  /\ watchpoints \in Seq(Watchpoint)
ThreadTypes ==
  /\ at \in [Threads -> {"unborn", "run", "parked", "released"}]
  /\ context \in [Threads -> Nat]
  /\ ran \in [Threads -> Nat]
TrapTypes ==
  /\ hw \in [Threads -> SUBSET Watchpoint]
  /\ trap \in [Threads -> Addresses \cup {None}]
  /\ crashed \in BOOLEAN
HostTypes ==
  /\ waiting \in Nat
  /\ command \in Commands
  /\ inbox \in Seq(Posted)
  /\ reply \in Reply
  /\ bounds \in [commands : Nat, requests : Nat, hits : Nat]
HistoryTypes ==
  /\ acks \in Nat
  /\ resumes \in Nat
  /\ written \in [Threads -> Nat]

Types == AgentTypes /\ ThreadTypes /\ TrapTypes /\ HostTypes /\ HistoryTypes

\* Ids are never drawn twice, not even for a thread still parked at a
\* breakpoint that was removed.
Ids ==
  /\ \A b \in breakpoints : b.bp < nextBreakpointId
  /\ \A s \in Elements(stopped) : s.bp < nextBreakpointId
  /\ \A b, c \in breakpoints : b.bp = c.bp => b.address = c.address

Released == {t \in Threads : at[t] = "released"}

\* The register a thread will run on with, or runs with, is the last one
\* acknowledged.
WritesKept ==
  \A t \in Threads :
    /\ at[t] \in {"parked", "released"} => context[t] = written[t]
    /\ at[t] \in {"unborn", "run"} => ran[t] = written[t]

Stops == StopsAccounted /\ Ids
Counts == ContinueReleasesOne /\ IsFiniteSet(Released)

\* The inductive invariant.
DebuggerInv == Types /\ Stops /\ Counts /\ WritesKept /\ HardwareMatches

-----------------------------------------------------------------------------
\* A non-empty set of natural numbers has a least element: the subsets 0 .. n
\* are well-founded under strict inclusion.
LEMMA LeastProperties ==
  ASSUME NEW S \in SUBSET Nat, S # {}
  PROVE  Least(S) \in S /\ \A m \in S : Least(S) <= m
<1> DEFINE Below == {0 .. n : n \in S}
<1>1. Below \subseteq FiniteSubsetsOf(Nat) /\ Below # {}
  <2>1. \A n \in S : 0 .. n \in SUBSET Nat /\ IsFiniteSet(0 .. n)
    BY FS_Interval
  <2> QED BY <2>1 DEF FiniteSubsetsOf
<1>2. IsWellFoundedOn(StrictSubsetOrdering(Nat), FiniteSubsetsOf(Nat))
  BY FS_StrictSubsetOrderingWellFounded
<1>3. PICK b \in Below : \A c \in Below : <<c, b>> \notin StrictSubsetOrdering(Nat)
  <2> HIDE DEF Below
  <2> QED BY <1>1, <1>2, WFMin
<1>4. PICK n \in S : b = 0 .. n
  OBVIOUS
<1>5. ASSUME NEW m \in S PROVE n <= m
  <2>1. SUFFICES ASSUME m < n PROVE FALSE
    OBVIOUS
  <2>2. 0 .. m \in Below
    OBVIOUS
  <2>3. 0 .. m \in SUBSET Nat /\ 0 .. n \in SUBSET Nat /\ 0 .. m \subseteq 0 .. n
    BY <2>1
  <2>4. n \in 0 .. n /\ n \notin 0 .. m
    BY <2>1
  <2>5. <<0 .. m, 0 .. n>> \in StrictSubsetOrdering(Nat)
    BY <2>3, <2>4 DEF StrictSubsetOrdering
  <2> QED BY <1>3, <1>4, <2>2, <2>5
<1> QED BY <1>5 DEF Least

\* What deleting from a Map kept as a sequence leaves.
LEMMA RemoveAtProperties ==
  ASSUME NEW S, NEW s \in Seq(S), NEW i \in DOMAIN s
  PROVE  /\ RemoveAt(s, i) \in Seq(S)
         /\ DOMAIN RemoveAt(s, i) = 1 .. Len(s) - 1
         /\ \A j \in 1 .. Len(s) - 1 :
              RemoveAt(s, i)[j] = IF j < i THEN s[j] ELSE s[j + 1]
<1> DEFINE a == SubSeq(s, 1, i - 1)
           b == SubSeq(s, i + 1, Len(s))
<1>1. i \in 1 .. Len(s) /\ Len(s) \in Nat /\ \A j \in 1 .. Len(s) : s[j] \in S
  BY ElementOfSeq, LenProperties
<1>2. a \in Seq(S) /\ Len(a) = i - 1 /\ \A j \in 1 .. i - 1 : a[j] = s[j]
  <2>1. \A j \in 1 .. i - 1 : s[j] \in S
    BY <1>1
  <2>2. /\ a \in Seq(S)
        /\ Len(a) = IF 1 <= i - 1 THEN (i - 1) - 1 + 1 ELSE 0
        /\ \A j \in 1 .. (i - 1) - 1 + 1 : a[j] = s[1 + j - 1]
    BY <1>1, <2>1, SubSeqProperties
  <2> HIDE DEF a
  <2> QED BY <1>1, <2>2
<1>3. b \in Seq(S) /\ Len(b) = Len(s) - i /\ \A j \in 1 .. Len(s) - i : b[j] = s[i + j]
  <2>1. \A j \in i + 1 .. Len(s) : s[j] \in S
    BY <1>1
  <2>2. /\ b \in Seq(S)
        /\ Len(b) = IF i + 1 <= Len(s) THEN Len(s) - (i + 1) + 1 ELSE 0
        /\ \A j \in 1 .. Len(s) - (i + 1) + 1 : b[j] = s[(i + 1) + j - 1]
    BY <1>1, <2>1, SubSeqProperties
  <2> HIDE DEF b
  <2> QED BY <1>1, <2>2
<1>4. RemoveAt(s, i) = a \o b
  BY DEF RemoveAt
<1> HIDE DEF a, b
<1>5. /\ a \o b \in Seq(S)
      /\ Len(a \o b) = Len(a) + Len(b)
      /\ \A j \in 1 .. Len(a) + Len(b) :
           (a \o b)[j] = IF j <= Len(a) THEN a[j] ELSE b[j - Len(a)]
  BY <1>2, <1>3, ConcatProperties
<1>6. DOMAIN (a \o b) = 1 .. Len(s) - 1
  BY <1>1, <1>2, <1>3, <1>5, LenProperties
<1>7. ASSUME NEW j \in 1 .. Len(s) - 1
      PROVE  (a \o b)[j] = IF j < i THEN s[j] ELSE s[j + 1]
  <2>1. j \in 1 .. Len(a) + Len(b)
    BY <1>1, <1>2, <1>3
  <2>2. CASE j < i
    BY <1>1, <1>2, <1>5, <2>1, <2>2
  <2>3. CASE ~(j < i)
    <3>1. (a \o b)[j] = b[j - (i - 1)]
      BY <1>1, <1>2, <1>5, <2>1, <2>3
    <3>2. j - (i - 1) \in 1 .. Len(s) - i
      BY <1>1, <2>3
    <3>3. b[j - (i - 1)] = s[i + (j - (i - 1))]
      BY <1>3, <3>2
    <3>4. i + (j - (i - 1)) = j + 1
      BY <1>1
    <3> QED BY <2>3, <3>1, <3>3, <3>4
  <2> QED BY <2>2, <2>3
<1> QED BY <1>4, <1>5, <1>6, <1>7

\* Deleting the oldest of the entries found: nothing else leaves, nothing
\* moves past another.
LEMMA DeleteProperties ==
  ASSUME NEW S, NEW s \in Seq(S), NEW found \in SUBSET DOMAIN s
  PROVE  /\ Delete(s, found) \in Seq(S)
         /\ Elements(Delete(s, found)) \subseteq Elements(s)
         /\ \A j, l \in DOMAIN Delete(s, found) : \E m, n \in DOMAIN s :
              /\ Delete(s, found)[j] = s[m] /\ Delete(s, found)[l] = s[n]
              /\ m = n => j = l
              /\ found # {} => m # Least(found) /\ n # Least(found)
         /\ found # {} =>
              /\ Least(found) \in found
              /\ Elements(s) \subseteq Elements(Delete(s, found)) \cup {s[Least(found)]}
<1>1. CASE found = {}
  BY <1>1 DEF Delete
<1>2. CASE found # {}
  <2> DEFINE i == Least(found)
             d == RemoveAt(s, i)
  <2>1. DOMAIN s = 1 .. Len(s) /\ Len(s) \in Nat
    BY LenProperties
  <2>2. i \in found
    BY <1>2, <2>1, LeastProperties
  <2>3. i \in DOMAIN s
    BY <2>2
  <2> HIDE DEF i
  <2>4. /\ d \in Seq(S)
        /\ DOMAIN d = 1 .. Len(s) - 1
        /\ \A j \in 1 .. Len(s) - 1 : d[j] = IF j < i THEN s[j] ELSE s[j + 1]
    BY <2>3, RemoveAtProperties
  <2>5. Delete(s, found) = d
    BY <1>2 DEF Delete, i
  <2> HIDE DEF d
  <2> DEFINE from(j) == IF j < i THEN j ELSE j + 1
  <2>6. \A j \in DOMAIN d : from(j) \in DOMAIN s /\ from(j) # i /\ d[j] = s[from(j)]
    BY <2>1, <2>3, <2>4
  <2>7. \A j, l \in DOMAIN d : from(j) = from(l) => j = l
    BY <2>1, <2>3, <2>4
  <2>8. \A m \in DOMAIN s : m # i => \E j \in DOMAIN d : d[j] = s[m]
    <3>1. ASSUME NEW m \in DOMAIN s, m < i PROVE m \in DOMAIN d /\ d[m] = s[m]
      BY <2>1, <2>3, <2>4, <3>1
    <3>2. ASSUME NEW m \in DOMAIN s, m > i PROVE m - 1 \in DOMAIN d /\ d[m - 1] = s[m]
      <4>1. m - 1 \in 1 .. Len(s) - 1 /\ ~(m - 1 < i) /\ (m - 1) + 1 = m
        BY <2>1, <2>3, <3>2
      <4> QED BY <2>4, <4>1
    <3> QED BY <2>1, <2>3, <3>1, <3>2
  <2> HIDE DEF from
  <2>9. Elements(d) \subseteq Elements(s)
    BY <2>6 DEF Elements
  <2>10. Elements(s) \subseteq Elements(d) \cup {s[i]}
    BY <2>8 DEF Elements
  <2>11. ASSUME NEW j \in DOMAIN d, NEW l \in DOMAIN d
         PROVE  \E m, n \in DOMAIN s :
                  /\ d[j] = s[m] /\ d[l] = s[n]
                  /\ m = n => j = l
                  /\ found # {} => m # i /\ n # i
    BY <2>6, <2>7
  <2> USE DEF i
  <2> QED BY <2>2, <2>4, <2>5, <2>9, <2>10, <2>11
<1> QED BY <1>1, <1>2

LEMMA AppendElements ==
  ASSUME NEW S, NEW s \in Seq(S), NEW e \in S
  PROVE  /\ Append(s, e) \in Seq(S)
         /\ Elements(Append(s, e)) = Elements(s) \cup {e}
         /\ DOMAIN s = 1 .. Len(s) /\ Len(s) \in Nat
         /\ DOMAIN Append(s, e) = 1 .. Len(s) + 1
         /\ \A i \in DOMAIN s : Append(s, e)[i] = s[i]
         /\ Append(s, e)[Len(s) + 1] = e
<1> DEFINE a == Append(s, e)
<1>1. /\ a \in Seq(S)
      /\ Len(a) = Len(s) + 1
      /\ \A i \in 1 .. Len(s) : a[i] = s[i]
      /\ a[Len(s) + 1] = e
  BY AppendProperties
<1>2. DOMAIN s = 1 .. Len(s) /\ Len(s) \in Nat
  BY LenProperties
<1> HIDE DEF a
<1>3. DOMAIN a = 1 .. Len(s) + 1
  BY <1>1, LenProperties
<1>4. Elements(a) = Elements(s) \cup {e}
  BY <1>1, <1>2, <1>3 DEF Elements
<1> USE DEF a
<1> QED BY <1>1, <1>2, <1>3, <1>4

\* No step of the host touches the agent, the threads or the history.
LEMMA HostSteps ==
  ASSUME Types, Host
  PROVE  HostTypes' /\ UNCHANGED <<agentVars, threadVars, trapVars, history>>
<1>1. HostTypes
  BY DEF Types
<1> USE DEF HostTypes
<1>2. ASSUME NEW r \in Request \cup {AskParked}, NEW c \in Commands, command' = c, Post(r)
      PROVE  HostTypes'
  <2> DEFINE n == bounds.requests + 1
             e == [n |-> n, type |-> r.type, arg |-> r.arg]
  <2>1. n \in Nat
    BY <1>1
  <2>2. e \in Posted
    BY <1>2, <2>1 DEF Posted, Request, AskParked, BpSetRequests, BpRemoveRequests,
       ContRequests, RegWriteRequests, WpSetRequests, WpRemoveRequests
  <2> HIDE DEF e
  <2>3. Append(inbox, e) \in Seq(Posted)
    BY <1>1, <2>2, AppendProperties
  <2>4. inbox' \in Seq(Posted)
    BY <1>2, <2>3 DEF Post, e
  <2>5. waiting' \in Nat /\ reply' \in Reply
    BY <1>2, <2>1 DEF Post, Reply
  <2>6. bounds' \in [commands : Nat, requests : Nat, hits : Nat]
    BY <1>1, <1>2, <2>1 DEF Post
  <2> QED BY <1>2, <2>4, <2>5, <2>6
<1>3. ASSUME NEW r \in Request, Command(r)
      PROVE  HostTypes' /\ UNCHANGED <<agentVars, threadVars, trapVars, history>>
  BY <1>2, <1>3 DEF Command, Commands
<1>4. CASE ContinueAny
  BY <1>2, <1>4 DEF ContinueAny, Commands
<1>5. CASE ContinueRecent
  <2>1. reply.recent \in Threads
    BY <1>1, <1>5 DEF ContinueRecent, Reply
  <2>2. [type |-> "cont", arg |-> reply.recent] \in Request
    BY <2>1 DEF Request, ContRequests
  <2> QED BY <1>2, <1>5, <2>2 DEF ContinueRecent, Commands
<1>6. CASE Finish \/ GiveUp
  BY <1>1, <1>6 DEF Finish, GiveUp, EndCommand, Commands, Reply
<1> QED BY <1>3, <1>4, <1>5, <1>6 DEF Host

\* The request at the head of the inbox is one a command posted; answering it
\* touches only what the host sees.
LEMMA ServeSteps ==
  ASSUME HostTypes, NEW type, NEW ok \in BOOLEAN, NEW recent \in Threads \cup {None},
         Serve(type, ok, recent)
  PROVE  HostTypes' /\ Served \in Posted /\ Served.type = type
<1>1. Served \in Posted /\ Tail(inbox) \in Seq(Posted)
  BY HeadTailProperties DEF HostTypes, Serve, Served
<1>2. reply' \in Reply
  BY DEF HostTypes, Serve, Reply
<1> QED BY <1>1, <1>2 DEF HostTypes, Serve

-----------------------------------------------------------------------------
(* Types.                                                                  *)

\* What the arguments of a request are.
LEMMA Arguments ==
  ASSUME Served \in Posted
  PROVE  /\ Served.n \in Nat
         /\ Served.type = "bpSet" => Served.arg \in Addresses
         /\ Served.type \in {"cont", "regWrite"} => Served.arg \in Threads
         /\ Served.type = "wpSet" =>
              /\ Served.arg \in [address : Addresses, size : Sizes]
              /\ Served.arg.address \in Addresses /\ Served.arg.size \in Sizes
BY DEF Posted

LEMMA StoppedElements ==
  ASSUME AgentTypes
  PROVE  /\ Elements(stopped) \subseteq Stop
         /\ StoppedThreads \subseteq Threads
         /\ Elements(watchpoints) \subseteq Watchpoint
<1>1. /\ \A i \in DOMAIN stopped : stopped[i] \in Stop
      /\ \A i \in DOMAIN watchpoints : watchpoints[i] \in Watchpoint
  BY ElementOfSeq, LenProperties DEF AgentTypes
<1> QED BY <1>1 DEF Elements, StoppedThreads, Stop

\* The slot a new watchpoint takes is free.
LEMMA FreeSlot ==
  ASSUME FreeSlots # {}
  PROVE  Least(FreeSlots) \in FreeSlots
<1>1. FreeSlots \in SUBSET Nat
  BY DebuggerAssumption DEF FreeSlots
<1> QED BY <1>1, LeastProperties

LEMMA AgentStepTypes ==
  ASSUME Types, Agent
  PROVE  Types'
<1>1. /\ HostTypes /\ AgentTypes /\ ThreadTypes /\ TrapTypes /\ HistoryTypes
      /\ StoppedThreads \subseteq Threads
  BY StoppedElements DEF Types
<1> USE DEF AgentTypes, ThreadTypes, TrapTypes, HistoryTypes, agentVars, threadVars,
            trapVars, history
<1>2. CASE BpSet
  <2> DEFINE a == Served.arg
             known == \E b \in breakpoints : b.address = a
  <2>1. PICK accepted \in BOOLEAN :
          /\ Serve("bpSet", accepted /\ ~known, None)
          /\ nextBreakpointId' = IF known THEN nextBreakpointId ELSE nextBreakpointId + 1
          /\ breakpoints' = IF accepted /\ ~known
                            THEN breakpoints \cup {[bp |-> nextBreakpointId, address |-> a]}
                            ELSE breakpoints
          /\ UNCHANGED <<stopped, watchpoints, threadVars, trapVars, history>>
    BY <1>2 DEF BpSet
  <2>2. HostTypes' /\ a \in Addresses
    BY <1>1, <2>1, ServeSteps, Arguments
  <2>3. AgentTypes'
    BY <1>1, <2>1, <2>2
  <2> QED BY <1>1, <2>1, <2>2, <2>3 DEF Types
<1>3. CASE BpRemove
  <2> DEFINE gone == {b \in breakpoints : Served.arg \in {All, b.address}}
  <2>1. /\ Serve("bpRemove", gone # {} \/ Served.arg = All, None)
        /\ breakpoints' = breakpoints \ gone
        /\ UNCHANGED <<nextBreakpointId, stopped, watchpoints, threadVars, trapVars, history>>
    BY <1>3 DEF BpRemove
  <2>2. HostTypes'
    BY <1>1, <2>1, ServeSteps
  <2> QED BY <1>1, <2>1, <2>2 DEF Types
<1>4. CASE BpParked
  <2> DEFINE recent == IF stopped = <<>> THEN None ELSE stopped[Len(stopped)].thread
  <2>1. recent \in Threads \cup {None}
    <3>1. ASSUME stopped # <<>> PROVE stopped[Len(stopped)] \in Elements(stopped)
      BY <1>1, <3>1, EmptySeq, LenProperties DEF Elements
    <3> QED BY <1>1, <3>1 DEF StoppedThreads
  <2>2. Serve("bpParked", TRUE, recent) /\ UNCHANGED <<agentVars, threadVars, trapVars, history>>
    BY <1>4 DEF BpParked
  <2> HIDE DEF recent
  <2>3. HostTypes'
    BY <1>1, <2>1, <2>2, ServeSteps
  <2> QED BY <1>1, <2>2, <2>3 DEF Types
<1>5. CASE Continue
  <2> DEFINE t == Served.arg
             ok == at[t] = "parked"
  <2>1. /\ Serve("cont", ok, None)
        /\ at' = IF ok THEN [at EXCEPT ![t] = "released"] ELSE at
        /\ acks' = IF ok THEN acks + 1 ELSE acks
        /\ UNCHANGED <<agentVars, context, ran, trapVars, resumes, written>>
    BY <1>5 DEF Continue
  <2>2. HostTypes' /\ t \in Threads
    BY <1>1, <2>1, ServeSteps, Arguments
  <2> QED BY <1>1, <2>1, <2>2 DEF Types
<1>6. CASE RegWrite
  <2> DEFINE t == Served.arg
             ok == t \in StoppedThreads
  <2>1. /\ Serve("regWrite", ok, None)
        /\ context' = IF ok THEN [context EXCEPT ![t] = Served.n] ELSE context
        /\ written' = IF ok THEN [written EXCEPT ![t] = Served.n] ELSE written
        /\ UNCHANGED <<agentVars, at, ran, trapVars, acks, resumes>>
    BY <1>6 DEF RegWrite
  <2>2. HostTypes' /\ Served \in Posted /\ Served.type = "regWrite"
    <3>1. ok \in BOOLEAN
      OBVIOUS
    <3> HIDE DEF ok
    <3> QED BY <1>1, <2>1, <3>1, ServeSteps
  <2>3. t \in Threads /\ Served.n \in Nat
    BY <2>2, Arguments
  <2> QED BY <1>1, <2>1, <2>2, <2>3 DEF Types
<1>7. CASE WpSet
  <2> DEFINE a == Served.arg.address
             known == \E wp \in Elements(watchpoints) : wp.address = a
             wp == [slot |-> Least(FreeSlots), address |-> a, size |-> Served.arg.size]
             ok == ~known /\ FreeSlots # {} /\ Accepting # {}
  <2>1. /\ Serve("wpSet", ok, None)
        /\ \/ ok /\ watchpoints' = Append(watchpoints, wp) /\ hw' = Arm(wp)
           \/ ~ok /\ UNCHANGED <<watchpoints, hw>>
        /\ UNCHANGED <<breakpoints, nextBreakpointId, stopped, threadVars, trap, crashed, history>>
    BY <1>7 DEF WpSet
  <2>2. HostTypes' /\ a \in Addresses /\ Served.arg.size \in Sizes
    BY <1>1, <2>1, ServeSteps, Arguments
  <2>3. ASSUME ok PROVE wp \in Watchpoint
    BY <2>2, <2>3, FreeSlot DEF Watchpoint, FreeSlots
  <2> HIDE DEF wp
  <2>4. ASSUME ok PROVE Append(watchpoints, wp) \in Seq(Watchpoint)
                        /\ Arm(wp) \in [Threads -> SUBSET Watchpoint]
    BY <1>1, <2>3, <2>4, AppendProperties DEF Arm
  <2> HIDE DEF ok
  <2> QED BY <1>1, <2>1, <2>2, <2>4 DEF Types
<1>8. CASE WpRemove
  <2> DEFINE all == Served.arg = All
             found == {i \in DOMAIN watchpoints : watchpoints[i].address = Served.arg}
             wps == IF all THEN Elements(watchpoints) ELSE {watchpoints[i] : i \in found}
  <2>1. /\ Serve("wpRemove", all \/ found # {}, None)
        /\ watchpoints' = IF all THEN <<>> ELSE Delete(watchpoints, found)
        /\ hw' = Disarm(wps)
        /\ UNCHANGED <<breakpoints, nextBreakpointId, stopped, threadVars, trap, crashed, history>>
    BY <1>8 DEF WpRemove
  <2>2. HostTypes'
    BY <1>1, <2>1, ServeSteps
  <2>3. Delete(watchpoints, found) \in Seq(Watchpoint) /\ <<>> \in Seq(Watchpoint)
    BY <1>1, DeleteProperties, EmptySeq
  <2>4. Disarm(wps) \in [Threads -> SUBSET Watchpoint]
    BY <1>1 DEF Disarm
  <2> HIDE DEF found, wps
  <2> QED BY <1>1, <2>1, <2>2, <2>3, <2>4 DEF Types
<1> QED BY <1>2, <1>3, <1>4, <1>5, <1>6, <1>7, <1>8 DEF Agent

LEMMA HitCounted ==
  ASSUME HostTypes, CountHit
  PROVE  bounds' \in [commands : Nat, requests : Nat, hits : Nat]
BY DEF HostTypes, CountHit

LEMMA TargetStepTypes ==
  ASSUME Types, Target
  PROVE  Types'
<1>1. HostTypes /\ AgentTypes /\ ThreadTypes /\ TrapTypes /\ HistoryTypes
  BY DEF Types
<1>2. Elements(watchpoints) \subseteq Watchpoint
  BY <1>1, StoppedElements
<1> USE DEF AgentTypes, ThreadTypes, TrapTypes, HistoryTypes, agentVars, threadVars,
            trapVars, history, hostVars, HostTypes
<1>3. PICK t \in Threads :
        \/ ThreadStarts(t)
        \/ \E b \in breakpoints : BpHit(t, b)
        \/ Resume(t)
        \/ \E a \in Addresses : Access(t, a)
        \/ TrapHandled(t)
        \/ TrapUnhandled(t)
  BY DEF Target
<1>4. CASE ThreadStarts(t)
  BY <1>1, <1>4 DEF Types, ThreadStarts
<1>5. ASSUME NEW b \in breakpoints, BpHit(t, b)
      PROVE  Types'
  <2> DEFINE e == [thread |-> t, bp |-> b.bp, address |-> b.address]
  <2>1. e \in Stop
    BY <1>1 DEF Stop
  <2> HIDE DEF e
  <2>2. Append(stopped, e) \in Seq(Stop)
    BY <1>1, <2>1, AppendProperties
  <2>3. stopped' = Append(stopped, e)
    BY <1>5 DEF BpHit, e
  <2>4. bounds' \in [commands : Nat, requests : Nat, hits : Nat]
    BY <1>1, <1>5, HitCounted DEF BpHit
  <2> QED BY <1>1, <1>5, <2>2, <2>3, <2>4 DEF Types, BpHit
<1>6. CASE Resume(t)
  <2> DEFINE found == {i \in DOMAIN stopped : stopped[i].thread = t}
  <2>1. Delete(stopped, found) \in Seq(Stop)
    BY <1>1, DeleteProperties
  <2>2. stopped' = Delete(stopped, found)
    BY <1>6 DEF Resume
  <2> HIDE DEF found
  <2> QED BY <1>1, <1>6, <2>1, <2>2 DEF Types, Resume
<1>7. ASSUME NEW a \in Addresses, Access(t, a)
      PROVE  Types'
  <2>1. bounds' \in [commands : Nat, requests : Nat, hits : Nat]
    BY <1>1, <1>7, HitCounted DEF Access
  <2> QED BY <1>1, <1>7, <2>1 DEF Types, Access
<1>8. CASE TrapHandled(t)
  <2> DEFINE hit == {i \in DOMAIN watchpoints : Covers(watchpoints[i], trap[t])}
  <2>1. Delete(watchpoints, hit) \in Seq(Watchpoint) /\ <<>> \in Seq(Watchpoint)
    BY <1>1, DeleteProperties, EmptySeq
  <2>2. watchpoints' = <<>> \/ watchpoints' = Delete(watchpoints, hit)
    BY <1>8 DEF TrapHandled, HandleTrapAnywhere, HandleTrapAt
  <2>3. \A wps : Disarm(wps) \in [Threads -> SUBSET Watchpoint]
    BY <1>1 DEF Disarm
  <2>4. hw' \in [Threads -> SUBSET Watchpoint]
    BY <1>8, <2>3 DEF TrapHandled, HandleTrapAnywhere, HandleTrapAt
  <2> HIDE DEF hit
  <2>5. watchpoints' \in Seq(Watchpoint)
    BY <2>1, <2>2
  <2> QED BY <1>1, <1>8, <2>4, <2>5 DEF Types, TrapHandled
<1>9. CASE TrapUnhandled(t)
  BY <1>1, <1>9 DEF Types, TrapUnhandled
<1> QED BY <1>3, <1>4, <1>5, <1>6, <1>7, <1>8, <1>9

-----------------------------------------------------------------------------
(* Stops.                                                                  *)

\* What a step must keep of the Map's entries and the ids.
LEMMA StopsFrame ==
  ASSUME Stops, UNCHANGED <<breakpoints, nextBreakpointId, stopped, at>>
  PROVE  Stops'
BY DEF Stops, StopsAccounted, Ids, StoppedThreads, Elements

LEMMA HostStepStops ==
  ASSUME Types, Stops, Host
  PROVE  Stops'
BY HostSteps, StopsFrame DEF agentVars, threadVars

LEMMA AgentStepStops ==
  ASSUME Types, Stops, Agent
  PROVE  Stops'
<1>1. /\ HostTypes /\ AgentTypes /\ ThreadTypes
      /\ StoppedThreads \subseteq Threads /\ Elements(stopped) \subseteq Stop
  BY StoppedElements DEF Types
<1>2. CASE BpSet
  <2> DEFINE a == Served.arg
             known == \E b \in breakpoints : b.address = a
             new == [bp |-> nextBreakpointId, address |-> a]
  <2>1. /\ nextBreakpointId' = IF known THEN nextBreakpointId ELSE nextBreakpointId + 1
        /\ \/ breakpoints' = breakpoints
           \/ ~known /\ breakpoints' = breakpoints \cup {new}
        /\ UNCHANGED <<stopped, at>>
    BY <1>2 DEF BpSet, threadVars
  <2>2. StoppedThreads' = StoppedThreads /\ Elements(stopped)' = Elements(stopped)
    BY <2>1 DEF StoppedThreads, Elements
  <2>3. Ids'
    BY <1>1, <2>1, <2>2 DEF Stops, Ids, AgentTypes, Stop
  <2>4. \A s \in Elements(stopped), b \in breakpoints' : s.bp = b.bp => s.address = b.address
    BY <1>1, <2>1 DEF Stops, StopsAccounted, Ids, AgentTypes, Stop
  <2>5. StopsAccounted'
    BY <2>1, <2>2, <2>4 DEF Stops, StopsAccounted
  <2> QED BY <2>3, <2>5 DEF Stops
<1>3. CASE BpRemove
  <2>1. breakpoints' \subseteq breakpoints /\ UNCHANGED <<nextBreakpointId, stopped, at>>
    BY <1>3 DEF BpRemove, threadVars
  <2> QED BY <2>1 DEF Stops, StopsAccounted, Ids, StoppedThreads, Elements
<1>4. CASE Continue
  <2> DEFINE t == Served.arg
  <2>1. Serve("cont", at[t] = "parked", None)
    BY <1>4 DEF Continue
  <2>2. t \in Threads
    BY <1>1, <2>1, ServeSteps, Arguments
  <2>3. /\ UNCHANGED <<breakpoints, nextBreakpointId, stopped>>
        /\ \/ at' = at
           \/ at[t] = "parked" /\ at' = [at EXCEPT ![t] = "released"]
    BY <1>4 DEF Continue, agentVars
  <2>4. {u \in Threads : at'[u] \in {"parked", "released"}}
          = {u \in Threads : at[u] \in {"parked", "released"}}
    BY <1>1, <2>2, <2>3 DEF ThreadTypes
  <2> QED BY <2>3, <2>4 DEF Stops, StopsAccounted, Ids, StoppedThreads, Elements
<1>5. CASE BpParked \/ RegWrite \/ WpSet \/ WpRemove
  <2>1. UNCHANGED <<breakpoints, nextBreakpointId, stopped, at>>
    BY <1>5 DEF BpParked, RegWrite, WpSet, WpRemove, agentVars, threadVars
  <2> QED BY <2>1, StopsFrame
<1> QED BY <1>2, <1>3, <1>4, <1>5 DEF Agent

LEMMA TargetStepStops ==
  ASSUME Types, Stops, Target
  PROVE  Stops'
<1>1. /\ AgentTypes /\ ThreadTypes
      /\ StoppedThreads \subseteq Threads /\ Elements(stopped) \subseteq Stop
  BY StoppedElements DEF Types
<1>2. PICK t \in Threads :
        \/ ThreadStarts(t)
        \/ \E b \in breakpoints : BpHit(t, b)
        \/ Resume(t)
        \/ \E a \in Addresses : Access(t, a)
        \/ TrapHandled(t)
        \/ TrapUnhandled(t)
  BY DEF Target
<1>3. CASE ThreadStarts(t)
  <2>1. /\ UNCHANGED <<breakpoints, nextBreakpointId, stopped>>
        /\ at[t] = "unborn" /\ at' = [at EXCEPT ![t] = "run"]
    BY <1>3 DEF ThreadStarts, agentVars
  <2>2. {u \in Threads : at'[u] \in {"parked", "released"}}
          = {u \in Threads : at[u] \in {"parked", "released"}}
    BY <1>1, <2>1 DEF ThreadTypes
  <2> QED BY <2>1, <2>2 DEF Stops, StopsAccounted, Ids, StoppedThreads, Elements
<1>4. ASSUME NEW b \in breakpoints, BpHit(t, b)
      PROVE  Stops'
  <2> DEFINE e == [thread |-> t, bp |-> b.bp, address |-> b.address]
  <2>1. /\ UNCHANGED <<breakpoints, nextBreakpointId>>
        /\ at[t] = "run" /\ at' = [at EXCEPT ![t] = "parked"]
        /\ stopped' = Append(stopped, e)
    BY <1>4 DEF BpHit, Running
  <2>2. e \in Stop /\ e.thread = t /\ e.bp = b.bp /\ e.address = b.address
    BY <1>1 DEF Stop, AgentTypes
  <2> HIDE DEF e
  <2>3. /\ Elements(stopped') = Elements(stopped) \cup {e}
        /\ DOMAIN stopped = 1 .. Len(stopped) /\ Len(stopped) \in Nat
        /\ DOMAIN stopped' = 1 .. Len(stopped) + 1
        /\ \A i \in DOMAIN stopped : stopped'[i] = stopped[i]
        /\ stopped'[Len(stopped) + 1] = e
    BY <1>1, <2>1, <2>2, AppendElements DEF AgentTypes
  <2>4. {s.thread : s \in Elements(stopped')} = StoppedThreads \cup {t}
    BY <2>2, <2>3 DEF StoppedThreads
  <2>5. {u \in Threads : at'[u] \in {"parked", "released"}}
          = {u \in Threads : at[u] \in {"parked", "released"}} \cup {t}
    BY <1>1, <2>1 DEF ThreadTypes
  <2>6. t \notin StoppedThreads
    BY <2>1 DEF Stops, StopsAccounted
  <2>7. \A i \in DOMAIN stopped : stopped[i].thread # t
    BY <2>6 DEF StoppedThreads, Elements
  <2>8. \A i, j \in DOMAIN stopped' : stopped'[i].thread = stopped'[j].thread => i = j
    BY <2>2, <2>3, <2>7 DEF Stops, StopsAccounted
  <2>9. Ids'
    BY <2>1, <2>2, <2>3 DEF Stops, Ids
  <2>10. \A s \in Elements(stopped'), c \in breakpoints' : s.bp = c.bp => s.address = c.address
    BY <2>1, <2>2, <2>3 DEF Stops, StopsAccounted, Ids
  <2>11. StoppedThreads' = {u \in Threads : at'[u] \in {"parked", "released"}}
    BY <2>4, <2>5 DEF Stops, StopsAccounted, StoppedThreads
  <2> QED BY <2>8, <2>9, <2>10, <2>11 DEF Stops, StopsAccounted
<1>5. CASE Resume(t)
  <2> DEFINE found == {i \in DOMAIN stopped : stopped[i].thread = t}
             d == Delete(stopped, found)
  <2>1. /\ UNCHANGED <<breakpoints, nextBreakpointId>>
        /\ at[t] = "released" /\ at' = [at EXCEPT ![t] = "run"]
        /\ stopped' = d
    BY <1>5 DEF Resume
  <2>2. t \in StoppedThreads
    BY <2>1 DEF Stops, StopsAccounted
  <2>3. found # {} /\ found \in SUBSET DOMAIN stopped
    BY <2>2 DEF StoppedThreads, Elements
  <2> DEFINE k == Least(found)
  <2>4. /\ Elements(d) \subseteq Elements(stopped)
        /\ \A j, l \in DOMAIN d : \E m, n \in DOMAIN stopped :
             /\ d[j] = stopped[m] /\ d[l] = stopped[n]
             /\ m = n => j = l
             /\ m # k /\ n # k
        /\ k \in found
        /\ Elements(stopped) \subseteq Elements(d) \cup {stopped[k]}
    <3> HIDE DEF found
    <3> QED BY <1>1, <2>3, DeleteProperties DEF AgentTypes
  <2> HIDE DEF d, k
  <2>5. k \in DOMAIN stopped /\ stopped[k].thread = t
    BY <2>4
  <2>6. \A j, l \in DOMAIN d : d[j].thread = d[l].thread => j = l
    BY <2>4 DEF Stops, StopsAccounted
  <2>7. \A j \in DOMAIN d : d[j].thread # t
    BY <2>4, <2>5 DEF Stops, StopsAccounted
  <2>8. {s.thread : s \in Elements(d)} = StoppedThreads \ {t}
    <3>1. \A s \in Elements(d) : s.thread # t
      BY <2>7 DEF Elements
    <3> QED BY <2>4, <2>5, <3>1 DEF StoppedThreads
  <2>9. {u \in Threads : at'[u] \in {"parked", "released"}}
          = {u \in Threads : at[u] \in {"parked", "released"}} \ {t}
    BY <1>1, <2>1 DEF ThreadTypes
  <2>10. Ids'
    BY <2>1, <2>4 DEF Stops, Ids
  <2>11. \A s \in Elements(stopped'), c \in breakpoints' : s.bp = c.bp => s.address = c.address
    BY <2>1, <2>4 DEF Stops, StopsAccounted
  <2>12. StoppedThreads' = {u \in Threads : at'[u] \in {"parked", "released"}}
    BY <2>1, <2>8, <2>9 DEF Stops, StopsAccounted, StoppedThreads
  <2> QED BY <2>1, <2>6, <2>10, <2>11, <2>12 DEF Stops, StopsAccounted
<1>6. CASE (\E a \in Addresses : Access(t, a)) \/ TrapHandled(t) \/ TrapUnhandled(t)
  <2>1. UNCHANGED <<breakpoints, nextBreakpointId, stopped, at>>
    BY <1>6 DEF Access, TrapHandled, TrapUnhandled, agentVars, threadVars
  <2> QED BY <2>1, StopsFrame
<1> QED BY <1>2, <1>3, <1>4, <1>5, <1>6

-----------------------------------------------------------------------------
(* Continues.                                                              *)

LEMMA CountsFrame ==
  ASSUME Counts, acks' = acks, resumes' = resumes, Released' = Released
  PROVE  Counts'
BY DEF Counts, ContinueReleasesOne, Released

LEMMA InitCounts ==
  ASSUME Init
  PROVE  Counts
<1>1. Released = {}
  BY DEF Init, Released
<1>2. acks = 0 /\ resumes = 0
  BY DEF Init
<1> QED BY <1>1, <1>2, FS_EmptySet DEF Counts, ContinueReleasesOne, Released

LEMMA StepCounts ==
  ASSUME Types, Counts, [Next]_vars
  PROVE  Counts'
<1>1. /\ HostTypes /\ at \in [Threads -> {"unborn", "run", "parked", "released"}]
      /\ acks \in Nat /\ resumes \in Nat
  BY DEF Types, ThreadTypes, HistoryTypes
<1>2. IsFiniteSet(Released) /\ acks = resumes + Cardinality(Released)
  BY DEF Counts, ContinueReleasesOne, Released
<1>3. Cardinality(Released) \in Nat
  BY <1>2, FS_CardinalityType
<1>4. CASE UNCHANGED <<at, acks, resumes>>
  BY <1>4, CountsFrame DEF Released
<1>5. CASE Continue
  <2> DEFINE t == Served.arg
  <2>1. Serve("cont", at[t] = "parked", None)
    BY <1>5 DEF Continue
  <2>2. t \in Threads
    BY <1>1, <2>1, ServeSteps, Arguments
  <2>3. CASE at[t] = "parked"
    <3>1. at' = [at EXCEPT ![t] = "released"] /\ acks' = acks + 1 /\ resumes' = resumes
      BY <1>5, <2>3 DEF Continue
    <3>2. Released' = Released \cup {t} /\ t \notin Released
      BY <1>1, <2>2, <2>3, <3>1 DEF Released
    <3>3. IsFiniteSet(Released') /\ Cardinality(Released') = Cardinality(Released) + 1
      BY <1>2, <3>2, FS_AddElement
    <3> QED BY <1>1, <1>2, <1>3, <3>1, <3>3 DEF Counts, ContinueReleasesOne, Released
  <2>4. CASE at[t] # "parked"
    <3>1. UNCHANGED <<at, acks, resumes>>
      BY <1>5, <2>4 DEF Continue
    <3> QED BY <1>4, <3>1
  <2> QED BY <2>3, <2>4
<1>6. ASSUME NEW t \in Threads, Resume(t)
      PROVE  Counts'
  <2>1. at[t] = "released" /\ at' = [at EXCEPT ![t] = "run"]
        /\ acks' = acks /\ resumes' = resumes + 1
    BY <1>6 DEF Resume
  <2>2. Released' = Released \ {t} /\ t \in Released
    BY <1>1, <1>6, <2>1 DEF Released
  <2>3. IsFiniteSet(Released') /\ Cardinality(Released') = Cardinality(Released) - 1
    BY <1>2, <2>2, FS_RemoveElement
  <2> QED BY <1>1, <1>2, <1>3, <2>1, <2>3 DEF Counts, ContinueReleasesOne, Released
<1>7. ASSUME NEW t \in Threads, ThreadStarts(t)
      PROVE  Counts'
  <2>1. at[t] = "unborn" /\ at' = [at EXCEPT ![t] = "run"] /\ UNCHANGED <<acks, resumes>>
    BY <1>7 DEF ThreadStarts, history
  <2> QED BY <1>1, <1>7, <2>1, CountsFrame DEF Released
<1>8. ASSUME NEW t \in Threads, NEW b \in breakpoints, BpHit(t, b)
      PROVE  Counts'
  <2>1. at[t] = "run" /\ at' = [at EXCEPT ![t] = "parked"] /\ UNCHANGED <<acks, resumes>>
    BY <1>8 DEF BpHit, Running
  <2> QED BY <1>1, <1>8, <2>1, CountsFrame DEF Released
<1>9. CASE Host
  <2>1. UNCHANGED <<at, acks, resumes>>
    BY <1>9, HostSteps DEF threadVars, history
  <2> QED BY <1>4, <2>1
<1>10. CASE BpSet \/ BpRemove \/ BpParked \/ RegWrite \/ WpSet \/ WpRemove
  <2>1. UNCHANGED <<at, acks, resumes>>
    BY <1>10 DEF BpSet, BpRemove, BpParked, RegWrite, WpSet, WpRemove, threadVars, history
  <2> QED BY <1>4, <2>1
<1>11. ASSUME NEW t \in Threads,
              (\E a \in Addresses : Access(t, a)) \/ TrapHandled(t) \/ TrapUnhandled(t)
       PROVE  Counts'
  <2>1. UNCHANGED <<at, acks, resumes>>
    BY <1>11 DEF Access, TrapHandled, TrapUnhandled, threadVars, history
  <2> QED BY <1>4, <2>1
<1>12. CASE Rest \/ UNCHANGED vars
  BY <1>4, <1>12 DEF Rest, vars, threadVars, history
<1> QED BY <1>5, <1>6, <1>7, <1>8, <1>9, <1>10, <1>11, <1>12 DEF Next, Agent, Target

-----------------------------------------------------------------------------
(* Register writes.                                                        *)

LEMMA StepWrites ==
  ASSUME Types, StopsAccounted, WritesKept, [Next]_vars
  PROVE  WritesKept'
<1>1. HostTypes /\ ThreadTypes /\ written \in [Threads -> Nat]
  BY DEF Types, HistoryTypes
<1> USE DEF ThreadTypes
<1>2. CASE UNCHANGED <<at, context, ran, written>>
  BY <1>2 DEF WritesKept
<1>3. CASE Continue
  <2> DEFINE t == Served.arg
  <2>1. Serve("cont", at[t] = "parked", None)
    BY <1>3 DEF Continue
  <2>2. t \in Threads
    BY <1>1, <2>1, ServeSteps, Arguments
  <2>3. /\ \/ at' = at
           \/ at[t] = "parked" /\ at' = [at EXCEPT ![t] = "released"]
        /\ UNCHANGED <<context, ran, written>>
    BY <1>3 DEF Continue
  <2> QED BY <1>1, <2>2, <2>3 DEF WritesKept
<1>4. CASE RegWrite
  <2> DEFINE t == Served.arg
  <2>1. CASE t \in StoppedThreads
    <3>1. t \in Threads /\ at[t] \in {"parked", "released"}
      BY <2>1 DEF StopsAccounted
    <3>2. /\ context' = [context EXCEPT ![t] = Served.n]
          /\ written' = [written EXCEPT ![t] = Served.n]
          /\ UNCHANGED <<at, ran>>
      BY <1>4, <2>1 DEF RegWrite
    <3>3. ASSUME NEW u \in Threads
          PROVE  /\ at'[u] \in {"parked", "released"} => context'[u] = written'[u]
                 /\ at'[u] \in {"unborn", "run"} => ran'[u] = written'[u]
      BY <1>1, <3>1, <3>2 DEF WritesKept
    <3> QED BY <3>3 DEF WritesKept
  <2>2. CASE t \notin StoppedThreads
    <3>1. UNCHANGED <<at, context, ran, written>>
      BY <1>4, <2>2 DEF RegWrite
    <3> QED BY <1>2, <3>1
  <2> QED BY <2>1, <2>2
<1>5. ASSUME NEW t \in Threads, ThreadStarts(t)
      PROVE  WritesKept'
  <2>1. at[t] = "unborn" /\ at' = [at EXCEPT ![t] = "run"] /\ UNCHANGED <<context, ran, written>>
    BY <1>5 DEF ThreadStarts, history
  <2> QED BY <1>1, <1>5, <2>1 DEF WritesKept
<1>6. ASSUME NEW t \in Threads, NEW b \in breakpoints, BpHit(t, b)
      PROVE  WritesKept'
  <2>1. /\ at' = [at EXCEPT ![t] = "parked"]
        /\ context' = [context EXCEPT ![t] = 0]
        /\ ran' = [ran EXCEPT ![t] = 0]
        /\ written' = [written EXCEPT ![t] = 0]
    BY <1>6 DEF BpHit
  <2> QED BY <1>1, <1>6, <2>1 DEF WritesKept
<1>7. ASSUME NEW t \in Threads, Resume(t)
      PROVE  WritesKept'
  <2>1. /\ at[t] = "released" /\ at' = [at EXCEPT ![t] = "run"]
        /\ ran' = [ran EXCEPT ![t] = context[t]]
        /\ UNCHANGED <<context, written>>
    BY <1>7 DEF Resume
  <2> QED BY <1>1, <1>7, <2>1 DEF WritesKept
<1>8. CASE Host
  BY <1>2, <1>8, HostSteps DEF threadVars, history
<1>9. CASE BpSet \/ BpRemove \/ BpParked \/ WpSet \/ WpRemove
  <2>1. UNCHANGED <<at, context, ran, written>>
    BY <1>9 DEF BpSet, BpRemove, BpParked, WpSet, WpRemove, threadVars, history
  <2> QED BY <1>2, <2>1
<1>10. ASSUME NEW t \in Threads,
              (\E a \in Addresses : Access(t, a)) \/ TrapHandled(t) \/ TrapUnhandled(t)
       PROVE  WritesKept'
  <2>1. UNCHANGED <<at, context, ran, written>>
    BY <1>10 DEF Access, TrapHandled, TrapUnhandled, threadVars, history
  <2> QED BY <1>2, <2>1
<1>11. CASE Rest \/ UNCHANGED vars
  BY <1>2, <1>11 DEF Rest, vars, threadVars, history
<1> QED BY <1>3, <1>4, <1>5, <1>6, <1>7, <1>8, <1>9, <1>10, <1>11 DEF Next, Agent, Target

-----------------------------------------------------------------------------
(* Watchpoints.                                                            *)

\* Each slot and each address has one watchpoint.
Distinct(s) ==
  \A i, j \in DOMAIN s : s[i].slot = s[j].slot \/ s[i].address = s[j].address => i = j

LEMMA HardwareFrame ==
  ASSUME HardwareMatches, UNCHANGED <<watchpoints, hw>>
  PROVE  HardwareMatches'
BY DEF HardwareMatches, Elements

\* Deleting a watchpoint and disarming it on every thread.
LEMMA DeleteDisarms ==
  ASSUME Types, HardwareMatches, NEW found \in SUBSET DOMAIN watchpoints, NEW wps,
         watchpoints' = Delete(watchpoints, found), hw' = Disarm(wps),
         found # {} => watchpoints[Least(found)] \in wps
  PROVE  HardwareMatches'
<1> DEFINE d == Delete(watchpoints, found)
           k == Least(found)
<1>1. watchpoints \in Seq(Watchpoint) /\ hw \in [Threads -> SUBSET Watchpoint]
  BY DEF Types, AgentTypes, TrapTypes
<1>2. /\ Elements(d) \subseteq Elements(watchpoints)
      /\ \A j, l \in DOMAIN d : \E m, n \in DOMAIN watchpoints :
           /\ d[j] = watchpoints[m] /\ d[l] = watchpoints[n]
           /\ m = n => j = l
      /\ found # {} => Elements(watchpoints) \subseteq Elements(d) \cup {watchpoints[k]}
      /\ found = {} => d = watchpoints
  BY <1>1, DeleteProperties DEF Delete
<1>3. watchpoints' = d
  OBVIOUS
<1> HIDE DEF d, k
<1>4. Distinct(d)
  BY <1>2 DEF HardwareMatches, Distinct
<1>5. ASSUME NEW t \in Threads PROVE hw'[t] \subseteq Elements(d)
  <2>1. hw'[t] = hw[t] \ wps
    BY DEF Disarm
  <2>2. hw[t] \subseteq Elements(watchpoints)
    BY DEF HardwareMatches
  <2>3. CASE found = {}
    BY <1>2, <2>1, <2>2, <2>3
  <2>4. CASE found # {}
    BY <1>2, <2>1, <2>2, <2>4 DEF k
  <2> QED BY <2>3, <2>4
<1> QED BY <1>3, <1>4, <1>5 DEF HardwareMatches, Distinct

\* Deleting every watchpoint and disarming them on every thread.
LEMMA ClearDisarms ==
  ASSUME HardwareMatches, watchpoints' = <<>>, hw' = Disarm(Elements(watchpoints))
  PROVE  HardwareMatches'
<1>1. DOMAIN watchpoints' = {}
  BY EmptySeq, LenProperties
<1>2. \A t \in Threads : hw'[t] = {}
  BY DEF HardwareMatches, Disarm
<1> QED BY <1>1, <1>2 DEF HardwareMatches

LEMMA StepHardware ==
  ASSUME Types, HardwareMatches, [Next]_vars
  PROVE  HardwareMatches'
<1>1. HostTypes /\ watchpoints \in Seq(Watchpoint) /\ hw \in [Threads -> SUBSET Watchpoint]
  BY DEF Types, AgentTypes, TrapTypes
<1>2. CASE WpSet
  <2> DEFINE a == Served.arg.address
             known == \E wp \in Elements(watchpoints) : wp.address = a
             e == [slot |-> Least(FreeSlots), address |-> a, size |-> Served.arg.size]
             ok == ~known /\ FreeSlots # {} /\ Accepting # {}
  <2>1. /\ Serve("wpSet", ok, None)
        /\ \/ ok /\ watchpoints' = Append(watchpoints, e) /\ hw' = Arm(e)
           \/ ~ok /\ UNCHANGED <<watchpoints, hw>>
    BY <1>2 DEF WpSet
  <2>2. a \in Addresses /\ Served.arg.size \in Sizes
    BY <1>1, <2>1, ServeSteps, Arguments
  <2>3. CASE ok
    <3>1. e.slot \in FreeSlots /\ e.address = a /\ e \in Watchpoint
      BY <2>2, <2>3, FreeSlot DEF Watchpoint, FreeSlots
    <3>2. \A i \in DOMAIN watchpoints :
            watchpoints[i].slot # e.slot /\ watchpoints[i].address # e.address
      BY <2>3, <3>1 DEF FreeSlots, Elements
    <3>3. watchpoints' = Append(watchpoints, e) /\ hw' = Arm(e)
      BY <2>1, <2>3
    <3> HIDE DEF e, ok, known
    <3>4. /\ Elements(watchpoints') = Elements(watchpoints) \cup {e}
          /\ DOMAIN watchpoints = 1 .. Len(watchpoints) /\ Len(watchpoints) \in Nat
          /\ DOMAIN watchpoints' = 1 .. Len(watchpoints) + 1
          /\ \A i \in DOMAIN watchpoints : watchpoints'[i] = watchpoints[i]
          /\ watchpoints'[Len(watchpoints) + 1] = e
      BY <1>1, <3>1, <3>3, AppendElements
    <3>5. Distinct(watchpoints')
      BY <3>2, <3>4 DEF HardwareMatches, Distinct
    <3>6. ASSUME NEW t \in Threads PROVE hw'[t] \subseteq Elements(watchpoints')
      BY <3>3, <3>4 DEF Arm, HardwareMatches
    <3> QED BY <3>5, <3>6 DEF HardwareMatches, Distinct
  <2>4. CASE ~ok
    <3>1. UNCHANGED <<watchpoints, hw>>
      BY <2>1, <2>4
    <3> QED BY <3>1, HardwareFrame
  <2> QED BY <2>3, <2>4
<1>3. CASE WpRemove
  <2> DEFINE found == {i \in DOMAIN watchpoints : watchpoints[i].address = Served.arg}
             wps == {watchpoints[i] : i \in found}
  <2>1. \/ watchpoints' = <<>> /\ hw' = Disarm(Elements(watchpoints))
        \/ watchpoints' = Delete(watchpoints, found) /\ hw' = Disarm(wps)
    BY <1>3 DEF WpRemove
  <2>2. found \in SUBSET DOMAIN watchpoints
    OBVIOUS
  <2>3. found # {} => Least(found) \in found
    <3> HIDE DEF found
    <3> QED BY <1>1, <2>2, DeleteProperties
  <2>4. found # {} => watchpoints[Least(found)] \in wps
    <3> HIDE DEF found
    <3> QED BY <2>3
  <2> HIDE DEF found, wps
  <2> QED BY <2>1, <2>2, <2>4, DeleteDisarms, ClearDisarms
<1>4. ASSUME NEW t \in Threads, TrapHandled(t)
      PROVE  HardwareMatches'
  <2> DEFINE hit == {i \in DOMAIN watchpoints : Covers(watchpoints[i], trap[t])}
  <2>1. \/ watchpoints' = <<>> /\ hw' = Disarm(Elements(watchpoints))
        \/ /\ watchpoints' = Delete(watchpoints, hit)
           /\ hw' = Disarm({watchpoints[Least(hit)]})
    BY <1>4 DEF TrapHandled, HandleTrapAnywhere, HandleTrapAt
  <2>2. hit \in SUBSET DOMAIN watchpoints
    OBVIOUS
  <2> HIDE DEF hit
  <2> QED BY <2>1, <2>2, DeleteDisarms, ClearDisarms
<1>5. CASE Host
  <2>1. UNCHANGED <<watchpoints, hw>>
    BY <1>5, HostSteps DEF agentVars, trapVars
  <2> QED BY <2>1, HardwareFrame
<1>6. CASE BpSet \/ BpRemove \/ BpParked \/ Continue \/ RegWrite
  <2>1. UNCHANGED <<watchpoints, hw>>
    BY <1>6 DEF BpSet, BpRemove, BpParked, Continue, RegWrite, agentVars, trapVars
  <2> QED BY <2>1, HardwareFrame
<1>7. ASSUME NEW t \in Threads,
             \/ ThreadStarts(t)
             \/ \E b \in breakpoints : BpHit(t, b)
             \/ Resume(t)
             \/ \E a \in Addresses : Access(t, a)
             \/ TrapUnhandled(t)
      PROVE  HardwareMatches'
  <2>1. UNCHANGED <<watchpoints, hw>>
    BY <1>7 DEF ThreadStarts, BpHit, Resume, Access, TrapUnhandled, agentVars, trapVars
  <2> QED BY <2>1, HardwareFrame
<1>8. CASE Rest \/ UNCHANGED vars
  BY <1>8, HardwareFrame DEF Rest, vars, agentVars, trapVars
<1> QED BY <1>2, <1>3, <1>4, <1>5, <1>6, <1>7, <1>8 DEF Next, Agent, Target

-----------------------------------------------------------------------------
LEMMA InitHolds ==
  ASSUME Init
  PROVE  DebuggerInv
<1>1. stopped = <<>> /\ watchpoints = <<>> /\ breakpoints = {}
  BY DEF Init
<1>2. Elements(stopped) = {} /\ Elements(watchpoints) = {}
  BY <1>1, EmptySeq, LenProperties DEF Elements
<1>3. DOMAIN stopped = {} /\ DOMAIN watchpoints = {}
  BY <1>1, EmptySeq, LenProperties
<1>4. Types
  BY DebuggerAssumption, EmptySeq DEF Init, Types, AgentTypes, ThreadTypes, TrapTypes, HostTypes,
     HistoryTypes, Commands, Reply
<1>5. Stops
  BY <1>1, <1>2, <1>3 DEF Init, Stops, StopsAccounted, Ids, StoppedThreads
<1>6. Counts
  BY InitCounts
<1>7. WritesKept
  BY DebuggerAssumption DEF Init, WritesKept
<1>8. HardwareMatches
  BY <1>2, <1>3 DEF Init, HardwareMatches
<1> QED BY <1>4, <1>5, <1>6, <1>7, <1>8 DEF DebuggerInv

LEMMA StepHolds ==
  ASSUME DebuggerInv, [Next]_vars
  PROVE  DebuggerInv'
<1> USE DEF DebuggerInv
<1>1. CASE Rest \/ UNCHANGED vars
  <2> USE <1>1 DEF Rest, vars, agentVars, threadVars, trapVars, hostVars, history
  <2>1. Types'
    BY DEF Types, AgentTypes, ThreadTypes, TrapTypes, HostTypes, HistoryTypes
  <2>2. Stops'
    BY StopsFrame
  <2> QED BY <2>1, <2>2, StepCounts, StepWrites, StepHardware DEF Stops
<1>2. CASE Host \/ Agent \/ Target
  <2>1. Next
    BY <1>2 DEF Next
  <2>2. Types'
    <3>1. Host => Types'
      BY HostSteps DEF Types, AgentTypes, ThreadTypes, TrapTypes, HistoryTypes,
         agentVars, threadVars, trapVars, history
    <3> QED BY <1>2, <3>1, AgentStepTypes, TargetStepTypes
  <2>3. Stops'
    BY <1>2, HostStepStops, AgentStepStops, TargetStepStops
  <2> QED BY <2>1, <2>2, <2>3, StepCounts, StepWrites, StepHardware DEF Stops
<1> QED BY <1>1, <1>2 DEF Next

\* The inductive invariant holds of every state Debugger reaches.
THEOREM DebuggerInvariant == Spec => []DebuggerInv
BY InitHolds, StepHolds, PTL DEF Spec

\* Every variable of the host, the agent and the threads keeps its type,
\* whatever requests arrive and in whatever order threads hit, trap and resume.
THEOREM TypeCorrect == Spec => []TypeOK
<1>1. DebuggerInv => TypeOK
  BY DEF DebuggerInv, Types, AgentTypes, ThreadTypes, TrapTypes, HostTypes, Stop, Reply,
     Commands, TypeOK
<1> QED BY <1>1, DebuggerInvariant, PTL

\* A thread has one entry in the Map of stopped threads from its hit to the
\* moment it runs on, and only then; the id in it never names a breakpoint at
\* another address.
THEOREM EveryStopAccounted == Spec => []StopsAccounted
<1>1. DebuggerInv => StopsAccounted
  BY DEF DebuggerInv, Stops
<1> QED BY <1>1, DebuggerInvariant, PTL

\* Every acknowledged continue releases one stop, and no thread leaves onEnter
\* without one.
THEOREM OneReleaseEach == Spec => []ContinueReleasesOne
<1>1. DebuggerInv => ContinueReleasesOne
  BY DEF DebuggerInv, Counts
<1> QED BY <1>1, DebuggerInvariant, PTL

\* A thread that runs on has the register of the last write acknowledged for it.
THEOREM RegisterWritesKept == Spec => []WritesTakeEffect
<1>1. DebuggerInv => WritesTakeEffect
  BY DEF DebuggerInv, WritesKept, WritesTakeEffect
<1> QED BY <1>1, DebuggerInvariant, PTL

\* Every debug register in use belongs to a watchpoint the agent lists, one for
\* each slot and address.
THEOREM NoWatchpointLeftBehind == Spec => []HardwareMatches
<1>1. DebuggerInv => HardwareMatches
  BY DEF DebuggerInv
<1> QED BY <1>1, DebuggerInvariant, PTL

=============================================================================
