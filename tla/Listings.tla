-------------------------------- MODULE Listings --------------------------------
(***************************************************************************)
(* What the agent caches of the target: rangeCache and moduleCache of      *)
(* rzfrida_agent.js, the memory requests that rely on the first, the code  *)
(* of Frej and Frlj that makes both stale, and the class-load monitor.     *)
(*                                                                         *)
(* The agent handles one request at a time; the target maps memory, loads  *)
(* modules and loads classes whenever it likes.  One step of a request is  *)
(* the code between two looks at the target.                               *)
(***************************************************************************)
EXTENDS Integers, FiniteSets

CONSTANTS
  Items,        \* pieces of memory, and modules
  Classes,      \* Java classes
  None,         \* no list cached, no request, no reply
  MaxRequests,  \* bound: requests handled
  MaxChanges    \* bound: changes of the target's mappings and modules

ASSUME ListingsAssumption ==
  /\ \A S \in SUBSET Items : None # S
  /\ MaxRequests \in Nat /\ MaxChanges \in Nat

Lists == {"ranges", "modules"}

VARIABLES
  content,  \* content[l]: what the target has mapped, and loaded
  cache,    \* rangeCache and moduleCache
  loaded,   \* the classes loaded
  seen,     \* seenLoadedClasses
  monitor,  \* loadClassMonitorEnabled
  request,  \* the request being handled
  step,     \* where its handler is
  reply,    \* the last reply
  bounds,   \* counters of the bounded inputs
  \* history
  absent,   \* items unmapped at some moment of the current memory request
  running,  \* running[l]: items the evaluated code has changed so far
  byEval,   \* byEval[l]: items last changed by evaluated code that returned
  reports,  \* reports[c]: how often class c was listed as newly loaded
  baseline  \* classes that were there when the monitor was started

cacheVars == <<content, cache>>
monitorVars == <<loaded, seen, monitor, reports, baseline>>
evalVars == <<running, byEval>>
vars == <<cacheVars, monitorVars, request, step, reply, bounds, absent, evalVars>>

-----------------------------------------------------------------------------
(* Requests, as the host's handlers send them.                             *)

MemReadRequests == [type : {"memRead"}, item : Items]
MemWriteRequests == [type : {"memWrite"}, item : Items]
RangesRequests == [type : {"list"}, list : {"ranges"}, refresh : BOOLEAN]
ModulesRequests == [type : {"list"}, list : {"modules"}, refresh : BOOLEAN]
EvalRequests == [type : {"eval"}]
MonitorRequests == [type : {"monitor"}, enable : BOOLEAN]
NewlyLoadedRequests == [type : {"newlyLoaded"}]

Memory == MemReadRequests \cup MemWriteRequests
Request == Memory \cup RangesRequests \cup ModulesRequests \cup EvalRequests
             \cup MonitorRequests \cup NewlyLoadedRequests

Receive(r) ==
  /\ request = None
  /\ bounds.requests < MaxRequests
  /\ bounds' = [bounds EXCEPT !.requests = @ + 1]
  /\ request' = r
  /\ step' = "start"
  /\ reply' = None
  /\ absent' = Items \ content["ranges"]
  /\ UNCHANGED <<cacheVars, monitorVars, evalVars>>

Serving(requests) == request # None /\ request \in requests

\* onRequest sends the reply and the handler is done.
Answer(r) ==
  /\ reply' = r
  /\ request' = None
  /\ step' = "start"
  /\ UNCHANGED <<bounds, absent>>

Ok == [ok |-> TRUE]
Failed(why, item) == [ok |-> FALSE, why |-> why, item |-> item]

-----------------------------------------------------------------------------
(* memRead and memWrite.                                                   *)

\* Mutant of RequireCache: the list is looked into though there is none.
RequireCacheNever ==
  /\ Serving(Memory) /\ step = "start"
  /\ step' = "look"
  /\ UNCHANGED <<cacheVars, monitorVars, request, reply, bounds, absent, evalVars>>

\* requireMapped enumerates when nothing is cached ...
RequireCache ==
  /\ Serving(Memory) /\ step = "start"
  /\ cache' = IF cache["ranges"] = None
              THEN [cache EXCEPT !["ranges"] = content["ranges"]] ELSE cache
  /\ step' = "look"
  /\ UNCHANGED <<content, monitorVars, request, reply, bounds, absent, evalVars>>

\* Mutant of RequireMapped: what is not cached is taken to be unmapped.
RequireCached ==
  /\ Serving(Memory) /\ step = "look"
  /\ IF request.item \in cache["ranges"]
     THEN step' = "access" /\ UNCHANGED <<request, reply, bounds, absent>>
     ELSE Answer(Failed("not mapped", request.item))
  /\ UNCHANGED <<cacheVars, monitorVars, evalVars>>

\* ... and once more when the address is not in it.
RequireMapped ==
  LET fresh == IF request.item \in cache["ranges"] THEN cache["ranges"] ELSE content["ranges"]
  IN  /\ Serving(Memory) /\ step = "look"
      /\ cache' = [cache EXCEPT !["ranges"] = fresh]
      /\ IF request.item \in fresh
         THEN step' = "access" /\ UNCHANGED <<request, reply, bounds, absent>>
         ELSE Answer(Failed("not mapped", request.item))
      /\ UNCHANGED <<content, monitorVars, evalVars>>

\* The bytes are copied; the access faults when the memory is gone, and may
\* when its protection forbids it.
Access ==
  /\ Serving(Memory) /\ step = "access"
  /\ \/ request.item \in content["ranges"] /\ Answer(Ok)
     \/ Answer(Failed("access", request.item))
  /\ UNCHANGED <<cacheVars, monitorVars, evalVars>>

-----------------------------------------------------------------------------
(* ranges, modules and eval.                                               *)

List ==
  /\ Serving(RangesRequests \cup ModulesRequests)
  /\ LET l == request.list
         cached == ~request.refresh /\ cache[l] # None
         items == IF cached THEN cache[l] ELSE content[l]
     IN  /\ cache' = [cache EXCEPT ![l] = items]
         /\ Answer([ok |-> TRUE, list |-> l, items |-> items, cached |-> cached])
  /\ UNCHANGED <<content, monitorVars, evalVars>>

Toggle(l, i) ==
  content' = [content EXCEPT ![l] = IF i \in @ THEN @ \ {i} ELSE @ \cup {i}]

\* The evaluated code maps or unmaps memory, or loads or unloads a module.
EvalChanges(l, i) ==
  /\ Serving(EvalRequests)
  /\ bounds.changes < MaxChanges
  /\ bounds' = [bounds EXCEPT !.changes = @ + 1]
  /\ Toggle(l, i)
  /\ running' = [running EXCEPT ![l] = @ \cup {i}]
  /\ byEval' = [byEval EXCEPT ![l] = @ \ {i}]
  /\ UNCHANGED <<cache, monitorVars, request, step, reply, absent>>

\* Mutant of invalidateCaches: the module list is kept.
invalidateRanges == cache' = [cache EXCEPT !["ranges"] = None]

invalidateCaches == cache' = [l \in Lists |-> None]

\* The code returns a value: both caches go.
EvalReturns ==
  /\ Serving(EvalRequests)
  /\ invalidateCaches
  /\ byEval' = [l \in Lists |-> byEval[l] \cup running[l]]
  /\ running' = [l \in Lists |-> {}]
  /\ Answer(Ok)
  /\ UNCHANGED <<content, monitorVars>>

\* It throws: they stay.
EvalThrows ==
  /\ Serving(EvalRequests)
  /\ running' = [l \in Lists |-> {}]
  /\ Answer(Failed("threw", None))
  /\ UNCHANGED <<cacheVars, monitorVars, byEval>>

-----------------------------------------------------------------------------
(* classLoadMonitor and newlyLoadedClasses.                                *)

\* Mutant of StartMonitor: the classes loaded before are not noted.
StartMonitorEmpty ==
  /\ Serving(MonitorRequests) /\ request.enable
  /\ monitor' = TRUE
  /\ baseline' = IF monitor THEN baseline ELSE baseline \cup (loaded \ seen)
  /\ Answer(Ok)
  /\ UNCHANGED <<cacheVars, loaded, seen, reports, evalVars>>

\* Only a start while disabled takes a snapshot.
StartMonitor ==
  /\ Serving(MonitorRequests) /\ request.enable
  /\ monitor' = TRUE
  /\ IF monitor
     THEN UNCHANGED <<seen, baseline>>
     ELSE seen' = seen \cup loaded /\ baseline' = baseline \cup (loaded \ seen)
  /\ Answer(Ok)
  /\ UNCHANGED <<cacheVars, loaded, reports, evalVars>>

\* The set of seen classes survives a stop.
StopMonitor ==
  /\ Serving(MonitorRequests) /\ ~request.enable
  /\ monitor' = FALSE
  /\ Answer(Ok)
  /\ UNCHANGED <<cacheVars, loaded, seen, reports, baseline, evalVars>>

\* Without a snapshot there is nothing to compare with.
NewlyLoadedClasses ==
  /\ Serving(NewlyLoadedRequests)
  /\ LET new == IF seen = {} THEN {} ELSE loaded \ seen
     IN  /\ seen' = seen \cup new
         /\ reports' = [c \in Classes |-> IF c \in new THEN reports[c] + 1 ELSE reports[c]]
         /\ Answer([ok |-> TRUE, new |-> new, monitor |-> seen # {} /\ monitor])
  /\ UNCHANGED <<cacheVars, loaded, monitor, baseline, evalVars>>

-----------------------------------------------------------------------------
(* The target.                                                             *)

TargetChanges(l, i) ==
  /\ bounds.changes < MaxChanges
  /\ bounds' = [bounds EXCEPT !.changes = @ + 1]
  /\ Toggle(l, i)
  /\ absent' = IF l = "ranges" /\ i \in content[l] THEN absent \cup {i} ELSE absent
  /\ running' = [running EXCEPT ![l] = @ \ {i}]
  /\ byEval' = [byEval EXCEPT ![l] = @ \ {i}]
  /\ UNCHANGED <<cache, monitorVars, request, step, reply>>

ClassLoads(c) ==
  /\ c \notin loaded
  /\ loaded' = loaded \cup {c}
  /\ UNCHANGED <<cacheVars, seen, monitor, reports, baseline, request, step, reply, bounds,
                 absent, evalVars>>

-----------------------------------------------------------------------------
Init ==
  /\ content \in [Lists -> SUBSET Items]
  /\ cache = [l \in Lists |-> None]
  /\ loaded \in SUBSET Classes
  /\ seen = {}
  /\ monitor = FALSE
  /\ request = None
  /\ step = "start"
  /\ reply = None
  /\ bounds = [requests |-> 0, changes |-> 0]
  /\ absent = {}
  /\ running = [l \in Lists |-> {}]
  /\ byEval = [l \in Lists |-> {}]
  /\ reports = [c \in Classes |-> 0]
  /\ baseline = {}

Handle ==
  \/ RequireCache \/ RequireMapped \/ Access
  \/ List
  \/ \E l \in Lists, i \in Items : EvalChanges(l, i)
  \/ EvalReturns \/ EvalThrows
  \/ StartMonitor \/ StopMonitor \/ NewlyLoadedClasses

Target ==
  \/ \E l \in Lists, i \in Items : TargetChanges(l, i)
  \/ \E c \in Classes : ClassLoads(c)

\* No request is left and the target does nothing.
Rest == request = None /\ UNCHANGED vars

Next == (\E r \in Request : Receive(r)) \/ Handle \/ Target \/ Rest

Spec == Init /\ [][Next]_vars

-----------------------------------------------------------------------------
(* Correctness.                                                            *)

Replies ==
  {Ok} \cup [ok : {FALSE}, why : {"not mapped", "access", "threw"}, item : Items \cup {None}]
    \cup [ok : {TRUE}, list : Lists, items : SUBSET Items, cached : BOOLEAN]
    \cup [ok : {TRUE}, new : SUBSET Classes, monitor : BOOLEAN]

StateTypes ==
  /\ content \in [Lists -> SUBSET Items]
  /\ cache \in [Lists -> {None} \cup SUBSET Items]
  /\ loaded \subseteq Classes /\ seen \subseteq Classes /\ baseline \subseteq Classes
  /\ monitor \in BOOLEAN
  /\ request \in {None} \cup Request
  /\ step \in {"start", "look", "access"}
  /\ step # "start" => Serving(Memory) /\ cache["ranges"] # None
  /\ bounds \in [requests : 0 .. MaxRequests, changes : 0 .. MaxChanges]
  /\ absent \subseteq Items
  /\ running \in [Lists -> SUBSET Items] /\ byEval \in [Lists -> SUBSET Items]
  /\ reports \in [Classes -> Nat]

\* Every variable has its type, and a memory request past requireMapped's first
\* lines has a list to look into.
TypeOK == StateTypes /\ reply \in {None} \cup Replies

\* Memory is reported as not mapped only when it was unmapped at some moment of
\* the request, however old the cached ranges are and whatever was mapped since
\* (requireMapped's second enumeration).
UnmappedIsTrue ==
  reply # None /\ ~reply.ok /\ reply.why = "not mapped" => reply.item \in absent

\* README: the caches are dropped after code runs in the target, so a listing
\* stays current.  What the code of a Frej or Frlj that returned has mapped,
\* unmapped, loaded or unloaded shows in every later listing, cached or not.
ListingsShowEvals ==
  reply # None /\ reply.ok /\ "list" \in DOMAIN reply =>
    \A i \in byEval[reply.list] : i \in reply.items <=> i \in content[reply.list]

\* README: FrNj lists the classes that appeared since the snapshot.  Each is
\* listed once, and none that a snapshot has noted, however often the monitor
\* is started and stopped (seenLoadedClasses).
NewOnce ==
  /\ \A c \in Classes : reports[c] <= 1 /\ (c \in baseline => reports[c] = 0)
  /\ seen = baseline \cup {c \in Classes : reports[c] > 0}
=============================================================================
