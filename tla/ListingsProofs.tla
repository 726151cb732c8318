------------------------------ MODULE ListingsProofs ------------------------------
(***************************************************************************)
(* Proofs about Listings, for any items and classes and any bounds.        *)
(*                                                                         *)
(* NewOnce is inductive as it stands.  ListingsShowEvals speaks of replies,*)
(* which may come from a cache: CacheShowsEvals says the same of what is   *)
(* cached.  UnmappedIsTrue speaks of the moment a request ended:           *)
(* AbsentCovers carries it through the request.                            *)
(***************************************************************************)
EXTENDS Listings, TLAPS

CacheShowsEvals ==
  \A l \in Lists : cache[l] # None =>
    \A i \in byEval[l] : i \in cache[l] <=> i \in content[l]

AbsentCovers == Serving(Memory) => Items \ content["ranges"] \subseteq absent

USE ListingsAssumption DEF Lists

-----------------------------------------------------------------------------
(* The parts of a request that matter.                                     *)

LEMMA MemoryItem ==
  ASSUME Serving(Memory)
  PROVE  request # None /\ request.item \in Items /\ request \in Request
BY DEF Serving, Memory, Request, MemReadRequests, MemWriteRequests

LEMMA OtherRequest ==
  ASSUME Serving(EvalRequests \cup RangesRequests \cup ModulesRequests
                   \cup MonitorRequests \cup NewlyLoadedRequests)
  PROVE  ~Serving(Memory)
BY DEF Serving, Memory, MemReadRequests, MemWriteRequests, RangesRequests, ModulesRequests,
       EvalRequests, MonitorRequests, NewlyLoadedRequests

LEMMA ListedList ==
  ASSUME Serving(RangesRequests \cup ModulesRequests)
  PROVE  request.list \in Lists
BY DEF Serving, RangesRequests, ModulesRequests

-----------------------------------------------------------------------------
(* Types.                                                                  *)

LEMMA TypesInit ==
  ASSUME Init
  PROVE  TypeOK
<1>1. content \in [Lists -> SUBSET Items] /\ cache \in [Lists -> {None} \cup SUBSET Items]
  BY DEF Init
<1>2. running \in [Lists -> SUBSET Items] /\ byEval \in [Lists -> SUBSET Items]
  BY DEF Init
<1>3. bounds \in [requests : 0 .. MaxRequests, changes : 0 .. MaxChanges]
  BY DEF Init
<1>4. reports \in [Classes -> Nat]
  BY DEF Init
<1>5. QED
  BY <1>1, <1>2, <1>3, <1>4 DEF Init, TypeOK, StateTypes

LEMMA StateTypesKept ==
  ASSUME StateTypes, [Next]_vars
  PROVE  StateTypes'
<1>1. ASSUME NEW r \in Request, Receive(r)
      PROVE  StateTypes'
  BY <1>1
  DEF StateTypes, Serving, Receive, cacheVars, monitorVars, evalVars
<1>2. CASE RequireCache
  BY <1>2, MemoryItem
  DEF StateTypes, Serving, RequireCache, cacheVars, monitorVars, evalVars
<1>3. CASE RequireMapped
  <2>1. request # None /\ request \in Memory /\ request.item \in Items
    BY <1>3, MemoryItem DEF RequireMapped, Serving
  <2>3. cache' \in [Lists -> {None} \cup SUBSET Items]
    BY <1>3 DEF StateTypes, RequireMapped, cacheVars
  <2>4. step' # "start" => (Serving(Memory))' /\ cache'["ranges"] # None
    <3>1. cache["ranges"] # None /\ content["ranges"] \in SUBSET Items
      BY <1>3 DEF StateTypes, RequireMapped
    <3>2. cache'["ranges"] # None
      <4>1. cache'["ranges"] \in {cache["ranges"], content["ranges"]}
        BY <1>3 DEF StateTypes, RequireMapped
      <4>2. QED
        BY <3>1, <4>1
    <3>3. step' # "start" => request' = request
      BY <1>3 DEF RequireMapped, Answer
    <3>4. QED
      BY <2>1, <3>2, <3>3 DEF Serving
  <2>5. QED
    BY <1>3, <2>1, <2>3, <2>4
    DEF StateTypes, RequireMapped, Answer, cacheVars, monitorVars, evalVars
<1>4. CASE Access
  <2>1. request # None /\ request \in Memory /\ request.item \in Items
    BY <1>4, MemoryItem DEF Access, Serving
  <2>3. cache' \in [Lists -> {None} \cup SUBSET Items]
    BY <1>4 DEF StateTypes, Access, cacheVars
  <2>4. step' # "start" => (Serving(Memory))' /\ cache'["ranges"] # None
    <3>1. step' = "start"
      BY <1>4 DEF Access, Answer
    <3>2. QED
      BY <3>1
  <2>5. QED
    BY <1>4, <2>1, <2>3, <2>4
    DEF StateTypes, Access, Answer, cacheVars, monitorVars, evalVars
<1>5. CASE List
  BY <1>5, ListedList, OtherRequest
  DEF StateTypes, Serving, List, Answer, cacheVars, monitorVars, evalVars
<1>6. ASSUME NEW l \in Lists, NEW i \in Items, EvalChanges(l, i)
      PROVE  StateTypes'
  BY <1>6
  DEF StateTypes, Serving, EvalChanges, Toggle, cacheVars, monitorVars, evalVars
<1>7. CASE EvalReturns
  BY <1>7
  DEF StateTypes, Serving, EvalReturns, invalidateCaches, Answer, cacheVars, monitorVars, evalVars
<1>8. CASE EvalThrows
  BY <1>8
  DEF StateTypes, Serving, EvalThrows, Answer, cacheVars, monitorVars, evalVars
<1>9. CASE StartMonitor
  BY <1>9
  DEF StateTypes, Serving, StartMonitor, Answer, cacheVars, monitorVars, evalVars
<1>10. CASE StopMonitor
  BY <1>10
  DEF StateTypes, Serving, StopMonitor, Answer, cacheVars, monitorVars, evalVars
<1>11. CASE NewlyLoadedClasses
  BY <1>11
  DEF StateTypes, Serving, NewlyLoadedClasses, Answer, cacheVars, monitorVars, evalVars
<1>12. ASSUME NEW l \in Lists, NEW i \in Items, TargetChanges(l, i)
      PROVE  StateTypes'
  BY <1>12
  DEF StateTypes, Serving, TargetChanges, Toggle, cacheVars, monitorVars, evalVars
<1>13. ASSUME NEW c \in Classes, ClassLoads(c)
      PROVE  StateTypes'
  BY <1>13
  DEF StateTypes, Serving, ClassLoads, cacheVars, monitorVars, evalVars
<1>14. CASE UNCHANGED vars
  BY <1>14 DEF StateTypes, Serving, vars, cacheVars, monitorVars, evalVars
<1>15. QED
  BY <1>1, <1>2, <1>3, <1>4, <1>5, <1>6, <1>7, <1>8, <1>9, <1>10, <1>11, <1>12, <1>13, <1>14
  DEF Next, Handle, Target, Rest

(* Replies.                                                                *)

LEMMA FailedReply ==
  ASSUME NEW why \in {"not mapped", "access", "threw"}, NEW item \in Items \cup {None}
  PROVE  Failed(why, item) \in Replies
BY DEF Failed, Replies

LEMMA ListReply ==
  ASSUME NEW l \in Lists, NEW S \in SUBSET Items, NEW b \in BOOLEAN
  PROVE  [ok |-> TRUE, list |-> l, items |-> S, cached |-> b] \in Replies
BY DEF Replies

LEMMA NewReply ==
  ASSUME NEW S \in SUBSET Classes, NEW b \in BOOLEAN
  PROVE  [ok |-> TRUE, new |-> S, monitor |-> b] \in Replies
BY DEF Replies

LEMMA TypesKept ==
  ASSUME TypeOK, [Next]_vars
  PROVE  TypeOK'
<1> DEFINE Typed == reply \in {None} \cup Replies
<1> SUFFICES Typed'
  BY StateTypesKept DEF TypeOK
<1> Typed /\ StateTypes
  BY DEF TypeOK
<1>1. ASSUME NEW r \in Request, Receive(r)
      PROVE  Typed'
  BY <1>1 DEF Receive
<1>2. CASE RequireCache
  BY <1>2 DEF RequireCache
<1>3. CASE RequireMapped
  BY <1>3, MemoryItem, FailedReply DEF RequireMapped, Answer
<1>4. CASE Access
  <2>1. Serving(Memory) /\ reply' \in {Ok, Failed("access", request.item)}
    BY <1>4 DEF Access, Answer
  <2>2. Ok \in Replies
    BY DEF Replies
  <2>3. request.item \in Items \cup {None}
    BY <2>1, MemoryItem
  <2>4. Failed("access", request.item) \in Replies
    BY <2>3, FailedReply
  <2>5. QED
    BY <2>1, <2>2, <2>4
<1>5. CASE List
  <2> DEFINE hit == ~request.refresh /\ cache[request.list] # None
             items == IF hit THEN cache[request.list] ELSE content[request.list]
  <2>1. reply' = [ok |-> TRUE, list |-> request.list, items |-> items, cached |-> hit]
    BY <1>5 DEF List, Answer
  <2>2. request.list \in Lists
    BY <1>5, ListedList DEF List
  <2>3. items \in SUBSET Items
    BY <2>2 DEF StateTypes
  <2>4. hit \in BOOLEAN
    OBVIOUS
  <2> HIDE DEF hit, items
  <2>5. QED
    BY <2>1, <2>2, <2>3, <2>4, ListReply
<1>6. ASSUME NEW l \in Lists, NEW i \in Items, EvalChanges(l, i)
      PROVE  Typed'
  BY <1>6 DEF EvalChanges
<1>7. CASE EvalReturns
  BY <1>7 DEF EvalReturns, Answer, Replies
<1>8. CASE EvalThrows
  BY <1>8, FailedReply DEF EvalThrows, Answer
<1>9. CASE StartMonitor
  BY <1>9 DEF StartMonitor, Answer, Replies
<1>10. CASE StopMonitor
  BY <1>10 DEF StopMonitor, Answer, Replies
<1>11. CASE NewlyLoadedClasses
  <2> DEFINE new == IF seen = {} THEN {} ELSE loaded \ seen
             on == seen # {} /\ monitor
  <2>1. reply' = [ok |-> TRUE, new |-> new, monitor |-> on]
    BY <1>11 DEF NewlyLoadedClasses, Answer
  <2>2. new \in SUBSET Classes
    BY DEF StateTypes
  <2>3. on \in BOOLEAN
    OBVIOUS
  <2> HIDE DEF new, on
  <2>4. QED
    BY <2>1, <2>2, <2>3, NewReply
<1>12. ASSUME NEW l \in Lists, NEW i \in Items, TargetChanges(l, i)
       PROVE  Typed'
  BY <1>12 DEF TargetChanges
<1>13. ASSUME NEW c \in Classes, ClassLoads(c)
       PROVE  Typed'
  BY <1>13 DEF ClassLoads
<1>14. CASE UNCHANGED vars
  BY <1>14 DEF vars
<1>15. QED
  BY <1>1, <1>2, <1>3, <1>4, <1>5, <1>6, <1>7, <1>8, <1>9, <1>10, <1>11, <1>12, <1>13, <1>14
  DEF Next, Handle, Target, Rest

-----------------------------------------------------------------------------
(* The cached lists and the replies show what evaluated code has changed.  *)

LEMMA CacheShown ==
  ASSUME StateTypes, CacheShowsEvals, [Next]_vars
  PROVE  CacheShowsEvals'
<1>1. ASSUME NEW r \in Request, Receive(r)
      PROVE  CacheShowsEvals'
  BY <1>1 DEF StateTypes, CacheShowsEvals, Receive, cacheVars, evalVars
<1>2. CASE RequireCache
  BY <1>2 DEF StateTypes, CacheShowsEvals, RequireCache, evalVars
<1>3. CASE RequireMapped
  BY <1>3 DEF StateTypes, CacheShowsEvals, RequireMapped, evalVars
<1>4. CASE Access
  BY <1>4 DEF StateTypes, CacheShowsEvals, Access, cacheVars, evalVars
<1>5. CASE List
  BY <1>5, ListedList DEF StateTypes, CacheShowsEvals, List, evalVars
<1>6. ASSUME NEW l \in Lists, NEW i \in Items, EvalChanges(l, i)
      PROVE  CacheShowsEvals'
  BY <1>6 DEF StateTypes, CacheShowsEvals, EvalChanges, Toggle
<1>7. CASE EvalReturns
  BY <1>7 DEF StateTypes, CacheShowsEvals, EvalReturns, invalidateCaches
<1>8. CASE EvalThrows
  BY <1>8 DEF StateTypes, CacheShowsEvals, EvalThrows, cacheVars
<1>9. CASE StartMonitor
  BY <1>9 DEF StateTypes, CacheShowsEvals, StartMonitor, cacheVars, evalVars
<1>10. CASE StopMonitor
  BY <1>10 DEF StateTypes, CacheShowsEvals, StopMonitor, cacheVars, evalVars
<1>11. CASE NewlyLoadedClasses
  BY <1>11 DEF StateTypes, CacheShowsEvals, NewlyLoadedClasses, cacheVars, evalVars
<1>12. ASSUME NEW l \in Lists, NEW i \in Items, TargetChanges(l, i)
       PROVE  CacheShowsEvals'
  BY <1>12 DEF StateTypes, CacheShowsEvals, TargetChanges, Toggle
<1>13. ASSUME NEW c \in Classes, ClassLoads(c)
       PROVE  CacheShowsEvals'
  BY <1>13 DEF StateTypes, CacheShowsEvals, ClassLoads, cacheVars, evalVars
<1>14. CASE UNCHANGED vars
  BY <1>14 DEF StateTypes, CacheShowsEvals, vars, cacheVars, monitorVars, evalVars
<1>15. QED
  BY <1>1, <1>2, <1>3, <1>4, <1>5, <1>6, <1>7, <1>8, <1>9, <1>10, <1>11, <1>12, <1>13, <1>14
  DEF Next, Handle, Target, Rest

LEMMA ListingsShown ==
  ASSUME StateTypes, reply \in {None} \cup Replies, CacheShowsEvals, ListingsShowEvals, [Next]_vars
  PROVE  ListingsShowEvals'
<1>1. ASSUME NEW r \in Request, Receive(r)
      PROVE  ListingsShowEvals'
  BY <1>1 DEF StateTypes, ListingsShowEvals, Receive, cacheVars, evalVars
<1>2. CASE RequireCache
  BY <1>2 DEF StateTypes, ListingsShowEvals, RequireCache, evalVars
<1>3. CASE RequireMapped
  <2>1. reply' = reply \/ reply' = Failed("not mapped", request.item)
    BY <1>3 DEF RequireMapped, Answer
  <2>2. UNCHANGED <<content, byEval>>
    BY <1>3 DEF RequireMapped, evalVars
  <2>3. ~Failed("not mapped", request.item).ok
    BY DEF Failed
  <2>4. QED
    BY <2>1, <2>2, <2>3 DEF ListingsShowEvals
<1>4. CASE Access
  BY <1>4 DEF StateTypes, ListingsShowEvals, Access, cacheVars, evalVars, Answer, Ok, Failed
<1>5. CASE List
  BY <1>5, ListedList DEF StateTypes, ListingsShowEvals, List, evalVars, Answer, CacheShowsEvals
<1>6. ASSUME NEW l \in Lists, NEW i \in Items, EvalChanges(l, i)
      PROVE  ListingsShowEvals'
  BY <1>6 DEF StateTypes, ListingsShowEvals, EvalChanges, Toggle
<1>7. CASE EvalReturns
  BY <1>7 DEF StateTypes, ListingsShowEvals, EvalReturns, invalidateCaches, Answer, Ok
<1>8. CASE EvalThrows
  BY <1>8 DEF StateTypes, ListingsShowEvals, EvalThrows, cacheVars, Answer, Failed
<1>9. CASE StartMonitor
  BY <1>9 DEF StateTypes, ListingsShowEvals, StartMonitor, cacheVars, evalVars, Answer, Ok
<1>10. CASE StopMonitor
  BY <1>10 DEF StateTypes, ListingsShowEvals, StopMonitor, cacheVars, evalVars, Answer, Ok
<1>11. CASE NewlyLoadedClasses
  BY <1>11 DEF StateTypes, ListingsShowEvals, NewlyLoadedClasses, cacheVars, evalVars, Answer
<1>12. ASSUME NEW l \in Lists, NEW i \in Items, TargetChanges(l, i)
       PROVE  ListingsShowEvals'
  BY <1>12 DEF StateTypes, ListingsShowEvals, TargetChanges, Toggle
<1>13. ASSUME NEW c \in Classes, ClassLoads(c)
       PROVE  ListingsShowEvals'
  BY <1>13 DEF StateTypes, ListingsShowEvals, ClassLoads, cacheVars, evalVars
<1>14. CASE UNCHANGED vars
  BY <1>14 DEF StateTypes, ListingsShowEvals, vars, cacheVars, monitorVars, evalVars
<1>15. QED
  BY <1>1, <1>2, <1>3, <1>4, <1>5, <1>6, <1>7, <1>8, <1>9, <1>10, <1>11, <1>12, <1>13, <1>14
  DEF Next, Handle, Target, Rest

-----------------------------------------------------------------------------
(* What is refused as not mapped was unmapped during the request.          *)

LEMMA AbsentKept ==
  ASSUME StateTypes, AbsentCovers, [Next]_vars
  PROVE  AbsentCovers'
<1>1. ASSUME NEW r \in Request, Receive(r)
      PROVE  AbsentCovers'
  BY <1>1 DEF StateTypes, AbsentCovers, Receive, cacheVars, Serving
<1>2. CASE RequireCache
  BY <1>2 DEF StateTypes, AbsentCovers, RequireCache, Serving
<1>3. CASE RequireMapped
  BY <1>3 DEF StateTypes, AbsentCovers, RequireMapped, Answer, Serving
<1>4. CASE Access
  BY <1>4 DEF StateTypes, AbsentCovers, Access, cacheVars, Answer, Serving
<1>5. CASE List
  BY <1>5 DEF StateTypes, AbsentCovers, List, Answer, Serving
<1>6. ASSUME NEW l \in Lists, NEW i \in Items, EvalChanges(l, i)
      PROVE  AbsentCovers'
  BY <1>6, OtherRequest DEF StateTypes, AbsentCovers, EvalChanges, Toggle, Serving
<1>7. CASE EvalReturns
  BY <1>7 DEF StateTypes, AbsentCovers, EvalReturns, Answer, Serving
<1>8. CASE EvalThrows
  BY <1>8 DEF StateTypes, AbsentCovers, EvalThrows, cacheVars, Answer, Serving
<1>9. CASE StartMonitor
  BY <1>9 DEF StateTypes, AbsentCovers, StartMonitor, cacheVars, Answer, Serving
<1>10. CASE StopMonitor
  BY <1>10 DEF StateTypes, AbsentCovers, StopMonitor, cacheVars, Answer, Serving
<1>11. CASE NewlyLoadedClasses
  BY <1>11 DEF StateTypes, AbsentCovers, NewlyLoadedClasses, cacheVars, Answer, Serving
<1>12. ASSUME NEW l \in Lists, NEW i \in Items, TargetChanges(l, i)
       PROVE  AbsentCovers'
  BY <1>12 DEF StateTypes, AbsentCovers, TargetChanges, Toggle, Serving
<1>13. ASSUME NEW c \in Classes, ClassLoads(c)
       PROVE  AbsentCovers'
  BY <1>13 DEF StateTypes, AbsentCovers, ClassLoads, cacheVars, Serving
<1>14. CASE UNCHANGED vars
  BY <1>14 DEF StateTypes, AbsentCovers, Serving, vars, cacheVars, monitorVars, evalVars
<1>15. QED
  BY <1>1, <1>2, <1>3, <1>4, <1>5, <1>6, <1>7, <1>8, <1>9, <1>10, <1>11, <1>12, <1>13, <1>14
  DEF Next, Handle, Target, Rest

LEMMA UnmappedKept ==
  ASSUME StateTypes, AbsentCovers, UnmappedIsTrue, [Next]_vars
  PROVE  UnmappedIsTrue'
<1>1. ASSUME NEW r \in Request, Receive(r)
      PROVE  UnmappedIsTrue'
  BY <1>1 DEF StateTypes, UnmappedIsTrue, Receive
<1>2. CASE RequireCache
  BY <1>2 DEF StateTypes, UnmappedIsTrue, RequireCache
<1>3. CASE RequireMapped
  <2>1. \/ reply' = reply /\ absent' = absent
        \/ /\ reply' = Failed("not mapped", request.item) /\ absent' = absent
           /\ request.item \notin content["ranges"]
    BY <1>3 DEF RequireMapped, Answer
  <2>2. Serving(Memory)
    BY <1>3 DEF RequireMapped
  <2>3. Items \ content["ranges"] \subseteq absent /\ request.item \in Items
    BY <2>2, MemoryItem DEF AbsentCovers
  <2>4. Failed("not mapped", request.item).item = request.item
    BY DEF Failed
  <2>5. CASE reply' = reply /\ absent' = absent
    BY <2>5 DEF UnmappedIsTrue
  <2>6. CASE /\ reply' = Failed("not mapped", request.item) /\ absent' = absent
             /\ request.item \notin content["ranges"]
    <3>1. reply'.item \in absent'
      BY <2>3, <2>4, <2>6
    <3>2. QED
      BY <3>1 DEF UnmappedIsTrue
  <2>7. QED
    BY <2>1, <2>5, <2>6
<1>4. CASE Access
  <2>1. reply' = Ok \/ reply' = Failed("access", request.item)
    BY <1>4 DEF Access, Answer
  <2>2. Ok.ok /\ Failed("access", request.item).why = "access"
    BY DEF Ok, Failed
  <2>3. QED
    BY <2>1, <2>2 DEF UnmappedIsTrue
<1>5. CASE List
  BY <1>5 DEF StateTypes, UnmappedIsTrue, List, Answer
<1>6. ASSUME NEW l \in Lists, NEW i \in Items, EvalChanges(l, i)
      PROVE  UnmappedIsTrue'
  BY <1>6 DEF StateTypes, UnmappedIsTrue, EvalChanges
<1>7. CASE EvalReturns
  BY <1>7 DEF StateTypes, UnmappedIsTrue, EvalReturns, Answer, Ok
<1>8. CASE EvalThrows
  BY <1>8 DEF StateTypes, UnmappedIsTrue, EvalThrows, Answer, Failed
<1>9. CASE StartMonitor
  BY <1>9 DEF StateTypes, UnmappedIsTrue, StartMonitor, Answer, Ok
<1>10. CASE StopMonitor
  BY <1>10 DEF StateTypes, UnmappedIsTrue, StopMonitor, Answer, Ok
<1>11. CASE NewlyLoadedClasses
  BY <1>11 DEF StateTypes, UnmappedIsTrue, NewlyLoadedClasses, Answer
<1>12. ASSUME NEW l \in Lists, NEW i \in Items, TargetChanges(l, i)
       PROVE  UnmappedIsTrue'
  BY <1>12 DEF StateTypes, UnmappedIsTrue, TargetChanges
<1>13. ASSUME NEW c \in Classes, ClassLoads(c)
       PROVE  UnmappedIsTrue'
  BY <1>13 DEF StateTypes, UnmappedIsTrue, ClassLoads
<1>14. CASE UNCHANGED vars
  BY <1>14 DEF StateTypes, UnmappedIsTrue, vars, cacheVars, monitorVars, evalVars
<1>15. QED
  BY <1>1, <1>2, <1>3, <1>4, <1>5, <1>6, <1>7, <1>8, <1>9, <1>10, <1>11, <1>12, <1>13, <1>14
  DEF Next, Handle, Target, Rest

-----------------------------------------------------------------------------
(* A class is new once.                                                    *)

LEMMA NewOnceKept ==
  ASSUME StateTypes, NewOnce, [Next]_vars
  PROVE  NewOnce'
<1>1. ASSUME NEW r \in Request, Receive(r)
      PROVE  NewOnce'
  BY <1>1 DEF StateTypes, NewOnce, Receive, monitorVars
<1>2. CASE RequireCache
  BY <1>2 DEF StateTypes, NewOnce, RequireCache, monitorVars
<1>3. CASE RequireMapped
  BY <1>3 DEF StateTypes, NewOnce, RequireMapped, monitorVars
<1>4. CASE Access
  BY <1>4 DEF StateTypes, NewOnce, Access, monitorVars
<1>5. CASE List
  BY <1>5 DEF StateTypes, NewOnce, List, monitorVars
<1>6. ASSUME NEW l \in Lists, NEW i \in Items, EvalChanges(l, i)
      PROVE  NewOnce'
  BY <1>6 DEF StateTypes, NewOnce, EvalChanges, monitorVars
<1>7. CASE EvalReturns
  BY <1>7 DEF StateTypes, NewOnce, EvalReturns, monitorVars
<1>8. CASE EvalThrows
  BY <1>8 DEF StateTypes, NewOnce, EvalThrows, monitorVars
<1>9. CASE StartMonitor
  BY <1>9 DEF StateTypes, NewOnce, StartMonitor
<1>10. CASE StopMonitor
  BY <1>10 DEF StateTypes, NewOnce, StopMonitor
<1>11. CASE NewlyLoadedClasses
  BY <1>11 DEF StateTypes, NewOnce, NewlyLoadedClasses
<1>12. ASSUME NEW l \in Lists, NEW i \in Items, TargetChanges(l, i)
       PROVE  NewOnce'
  BY <1>12 DEF StateTypes, NewOnce, TargetChanges, monitorVars
<1>13. ASSUME NEW c \in Classes, ClassLoads(c)
       PROVE  NewOnce'
  BY <1>13 DEF StateTypes, NewOnce, ClassLoads
<1>14. CASE UNCHANGED vars
  BY <1>14 DEF StateTypes, NewOnce, vars, cacheVars, monitorVars, evalVars
<1>15. QED
  BY <1>1, <1>2, <1>3, <1>4, <1>5, <1>6, <1>7, <1>8, <1>9, <1>10, <1>11, <1>12, <1>13, <1>14
  DEF Next, Handle, Target, Rest

-----------------------------------------------------------------------------
(* The theorems.                                                           *)

\* What the properties rest on, all of it kept by every step.
ListingsInv ==
  TypeOK /\ CacheShowsEvals /\ AbsentCovers
  /\ UnmappedIsTrue /\ ListingsShowEvals /\ NewOnce

LEMMA ListingsInvInit == Init => ListingsInv
<1> SUFFICES ASSUME Init
             PROVE  ListingsInv
  OBVIOUS
<1>1. TypeOK
  BY TypesInit
<1>2. CacheShowsEvals /\ UnmappedIsTrue /\ ListingsShowEvals
  BY DEF Init, CacheShowsEvals, UnmappedIsTrue, ListingsShowEvals
<1>3. AbsentCovers
  BY DEF Init, AbsentCovers, Serving
<1>4. NewOnce
  BY DEF Init, NewOnce
<1>5. QED
  BY <1>1, <1>2, <1>3, <1>4 DEF ListingsInv

\* The invariant holds in every reachable state.
THEOREM ListingsInvariant == Spec => []ListingsInv
<1>1. ListingsInv /\ [Next]_vars => ListingsInv'
  BY TypesKept, CacheShown, ListingsShown, AbsentKept, UnmappedKept, NewOnceKept
  DEF ListingsInv, TypeOK
<1>2. QED BY ListingsInvInit, <1>1, PTL DEF Spec

\* The agent's caches, its requests and its replies have their types.
THEOREM TypeCorrect == Spec => []TypeOK
<1>1. ListingsInv => TypeOK
  BY DEF ListingsInv
<1>2. QED BY ListingsInvariant, <1>1, PTL

\* memRead and memWrite refuse an address as not mapped only if it was unmapped
\* while they ran, however old rangeCache was.
THEOREM RefusedIsUnmapped == Spec => []UnmappedIsTrue
<1>1. ListingsInv => UnmappedIsTrue
  BY DEF ListingsInv
<1>2. QED BY ListingsInvariant, <1>1, PTL

\* A listing, cached or not, shows what the code of an eval that returned did.
THEOREM EvalsAreShown == Spec => []ListingsShowEvals
<1>1. ListingsInv => ListingsShowEvals
  BY DEF ListingsInv
<1>2. QED BY ListingsInvariant, <1>1, PTL

\* newlyLoadedClasses lists a class once, and none that a snapshot has noted.
THEOREM ClassesAreNewOnce == Spec => []NewOnce
<1>1. ListingsInv => NewOnce
  BY DEF ListingsInv
<1>2. QED BY ListingsInvariant, <1>1, PTL
=============================================================================
