---------------------------- MODULE ConsoleProofs ----------------------------
(***************************************************************************)
(* Proofs about Console, for any classes, entries and bounds: what becomes *)
(* of a captured registration, that an import never writes what is older   *)
(* than what an earlier one wrote, and that the two ways to a session URI  *)
(* agree, whatever the length of its text and of its selector.             *)
(***************************************************************************)
EXTENDS Console, FiniteSetTheorems, SequenceTheorems, WellFoundedInduction, TLAPS

Commands == {"idle", "names", "prefix", "flags", "class"} \cup RnOps
Ops == {"on", "off", "rnList", "classList", "classDescribe", "flagModules"}
Requests == [call : Nat, op : Ops, class : Classes \cup {None}]

Types ==
  /\ queue \in Seq(Nat)
  /\ inbox \in Seq(Requests)
  /\ base \in Nat /\ flag \in Nat
  /\ command \in Commands
  /\ names \in Seq(Classes)
  /\ address \in [Classes -> Nat]
  /\ requests \in Nat /\ awaiting \in 0 .. requests
  /\ captured \in Seq(Classes)
  /\ failed \subseteq 1 .. requests
  /\ \A t \in took : t.call \in 1 .. requests

\* The request that the command waits for.
OpAwaited == IF command = "names" THEN "classDescribe" ELSE Request(command)

\* A command waits for one request, which has not failed.
Waits ==
  /\ awaiting = 0 => reply = None
  /\ command = "idle" => awaiting = 0
  /\ command = "names" /\ awaiting = 0 => names # <<>>
  /\ awaiting \notin failed

\* The agent will run each request once, the ones given up included.
Inbox ==
  /\ \A i \in DOMAIN inbox : inbox[i].call \in 1 .. requests
  /\ \A i, j \in DOMAIN inbox : inbox[i].call = inbox[j].call => i = j
  /\ \A i \in DOMAIN inbox : inbox[i].call # awaiting => inbox[i].call \in failed
  /\ \A i \in DOMAIN inbox : inbox[i].call = awaiting => inbox[i].op = OpAwaited /\ reply = None
  /\ \A i \in DOMAIN inbox : \A t \in took : t.call # inbox[i].call

Taken == UNION {t.captures : t \in took}
Out == Taken \cup shown \cup imported \cup cleared

\* The queue holds the latest captures, in order.
Ordered ==
  /\ \A i \in DOMAIN queue : queue[i] \in DOMAIN captured
  /\ \A i, j \in DOMAIN queue : i < j => queue[i] < queue[j]
  /\ Out \subseteq DOMAIN captured
  /\ \A n \in Out : \A i \in DOMAIN queue : n < queue[i]

\* A reply with captures is the one list that emptied the queue for it.
Takes ==
  /\ \A t, u \in took : t # u => t.captures \cap u.captures = {}
  /\ \A t \in took : t.call = awaiting =>
       /\ reply # None
       /\ command \in {"list", "import"}
       /\ t.captures = ToSet(reply.value)

\* A reply is the one that the command asked for.
Fits ==
  /\ reply # None /\ command \in {"list", "import"} =>
       /\ reply.value \in Seq(Nat)
       /\ \A i, j \in DOMAIN reply.value : i < j => reply.value[i] < reply.value[j]
       /\ \A n \in imported : \A i \in DOMAIN reply.value : n < reply.value[i]
       /\ \E t \in took : t.call = awaiting
  /\ reply # None /\ command = "prefix" => reply.value \in Seq(Classes)
  /\ reply # None /\ command = "flags" => reply.value \in Nat /\ flag <= reply.value /\ reply.value <= base
  /\ flag <= base

\* CapturesAccounted, but for the queue, which Ordered keeps apart.
Accounted ==
  /\ \A n \in DOMAIN captured : n \in ToSet(queue) \cup shown \cup imported \cup cleared \cup InFailedOrInReply
  /\ \A n \in shown : n \notin imported \cup cleared \cup InFailedOrInReply
  /\ \A n \in imported : n \notin cleared \cup InFailedOrInReply
  /\ \A n \in cleared : n \notin InFailedOrInReply

\* The inductive invariant.
ConsoleInv == Types /\ Waits /\ Inbox /\ Ordered /\ Takes /\ Fits /\ Accounted
-----------------------------------------------------------------------------
(* Sequences and sets of numbers.                                          *)

LEMMA AppendElements ==
  ASSUME NEW S, NEW s \in Seq(S), NEW e \in S
  PROVE  /\ Append(s, e) \in Seq(S)
         /\ Len(s) \in Nat /\ DOMAIN s = 1 .. Len(s)
         /\ DOMAIN Append(s, e) = 1 .. Len(s) + 1
         /\ \A i \in DOMAIN s : Append(s, e)[i] = s[i]
         /\ Append(s, e)[Len(s) + 1] = e
         /\ ToSet(Append(s, e)) = ToSet(s) \cup {e}
<1> DEFINE a == Append(s, e)
<1>1. Len(s) \in Nat /\ DOMAIN s = 1 .. Len(s)
  BY LenProperties
<1>2. a \in Seq(S) /\ Len(a) = Len(s) + 1 /\ a[Len(s) + 1] = e
      /\ \A i \in 1 .. Len(s) : a[i] = s[i]
  BY AppendProperties
<1>3. DOMAIN a = 1 .. Len(s) + 1
  BY <1>2, LenProperties
<1> HIDE DEF a
<1>4. ToSet(a) = ToSet(s) \cup {e}
  <2>1. \A i \in DOMAIN a : i \in DOMAIN s \/ i = Len(s) + 1
    BY <1>1, <1>3
  <2>2. Len(s) + 1 \in DOMAIN a /\ \A i \in DOMAIN s : i \in DOMAIN a
    BY <1>1, <1>3
  <2> QED BY <1>1, <1>2, <2>1, <2>2 DEF ToSet
<1> USE DEF a
<1> QED BY <1>1, <1>2, <1>3, <1>4

LEMMA TailElements ==
  ASSUME NEW S, NEW s \in Seq(S), s # <<>>
  PROVE  /\ Head(s) \in S /\ Tail(s) \in Seq(S)
         /\ 1 \in DOMAIN s /\ Head(s) = s[1]
         /\ \A i \in DOMAIN Tail(s) :
              i \in Nat \ {0} /\ i + 1 \in DOMAIN s /\ Tail(s)[i] = s[i + 1]
<1>1. Len(s) \in Nat /\ DOMAIN s = 1 .. Len(s) /\ Len(s) # 0
  BY EmptySeq, LenProperties
<1>2. /\ Head(s) = s[1] /\ Head(s) \in S
      /\ Tail(s) \in Seq(S) /\ Len(Tail(s)) = Len(s) - 1
      /\ \A i \in 1 .. Len(Tail(s)) : Tail(s)[i] = s[i + 1]
  BY HeadTailProperties
<1>3. DOMAIN Tail(s) = 1 .. Len(s) - 1
  BY <1>2, LenProperties
<1>4. \A i \in DOMAIN Tail(s) : i \in Nat \ {0} /\ i + 1 \in DOMAIN s /\ Tail(s)[i] = s[i + 1]
  BY <1>1, <1>2, <1>3
<1> QED BY <1>1, <1>2, <1>4

LEMMA NoElements == DOMAIN <<>> = {} /\ ToSet(<<>>) = {}
BY DEF ToSet

\* Max is the greatest of some indices of a sequence: the intervals up to its
\* end are well-founded under strict inclusion.
LEMMA MaxProperties ==
  ASSUME NEW n \in Nat, NEW S \in SUBSET (1 .. n), S # {}
  PROVE  Max(S) \in S /\ \A m \in S : m <= Max(S)
<1> DEFINE Above == {i .. n : i \in S}
<1>1. Above \subseteq FiniteSubsetsOf(Nat) /\ Above # {}
  <2>1. \A i \in S : i .. n \in SUBSET Nat /\ IsFiniteSet(i .. n)
    BY FS_Interval
  <2> QED BY <2>1 DEF FiniteSubsetsOf
<1>2. IsWellFoundedOn(StrictSubsetOrdering(Nat), FiniteSubsetsOf(Nat))
  BY FS_StrictSubsetOrderingWellFounded
<1>3. PICK b \in Above : \A c \in Above : <<c, b>> \notin StrictSubsetOrdering(Nat)
  <2> HIDE DEF Above
  <2> QED BY <1>1, <1>2, WFMin
<1>4. PICK i \in S : b = i .. n
  OBVIOUS
<1>5. ASSUME NEW m \in S PROVE m <= i
  <2>1. SUFFICES ASSUME m > i PROVE FALSE
    OBVIOUS
  <2>2. m .. n \in Above
    OBVIOUS
  <2>3. m .. n \in SUBSET Nat /\ i .. n \in SUBSET Nat /\ m .. n \subseteq i .. n
    BY <2>1
  <2>4. i \in i .. n /\ i \notin m .. n
    BY <2>1
  <2>5. <<m .. n, i .. n>> \in StrictSubsetOrdering(Nat)
    BY <2>3, <2>4 DEF StrictSubsetOrdering
  <2> QED BY <1>3, <1>4, <2>2, <2>5
<1>6. i \in S /\ \A m \in S : i >= m
  BY <1>5
<1> QED BY <1>6 DEF Max

\* Min is the least of some indices of a sequence.
LEMMA MinProperties ==
  ASSUME NEW n \in Nat, NEW S \in SUBSET (1 .. n), S # {}
  PROVE  Min(S) \in S /\ \A m \in S : Min(S) <= m
<1> DEFINE Below == {1 .. i : i \in S}
<1>1. Below \subseteq FiniteSubsetsOf(Nat) /\ Below # {}
  <2>1. \A i \in S : 1 .. i \in SUBSET Nat /\ IsFiniteSet(1 .. i)
    BY FS_Interval
  <2> QED BY <2>1 DEF FiniteSubsetsOf
<1>2. PICK b \in Below : \A c \in Below : <<c, b>> \notin StrictSubsetOrdering(Nat)
  <2>1. IsWellFoundedOn(StrictSubsetOrdering(Nat), FiniteSubsetsOf(Nat))
    BY FS_StrictSubsetOrderingWellFounded
  <2> HIDE DEF Below
  <2> QED BY <1>1, <2>1, WFMin
<1>3. PICK i \in S : b = 1 .. i
  OBVIOUS
<1>4. ASSUME NEW m \in S PROVE i <= m
  <2>1. SUFFICES ASSUME i > m PROVE FALSE
    OBVIOUS
  <2>2. 1 .. m \in Below
    OBVIOUS
  <2>3. 1 .. m \in SUBSET Nat /\ 1 .. i \in SUBSET Nat /\ 1 .. m \subseteq 1 .. i
    BY <2>1
  <2>4. i \in 1 .. i /\ i \notin 1 .. m
    BY <2>1
  <2>5. <<1 .. m, 1 .. i>> \in StrictSubsetOrdering(Nat)
    BY <2>3, <2>4 DEF StrictSubsetOrdering
  <2> QED BY <1>2, <1>3, <2>2, <2>5
<1>5. i \in S /\ \A m \in S : i =< m
  BY <1>4
<1> QED BY <1>5 DEF Min

-----------------------------------------------------------------------------
(* ConsoleInv is preserved, action by action.                              *)

\* A step of the user's hands, of Open or of the target's mappings.
LEMMA OthersKept ==
  ASSUME ConsoleInv, base' \in Nat, base <= base',
         UNCHANGED <<queue, inbox, waitVars, databaseVars, requests, history>>
  PROVE  ConsoleInv'
<1> USE DEF ConsoleInv, waitVars, databaseVars, history
<1>1. Types' /\ Waits'
  BY DEF Types, Waits
<1>2. Inbox' /\ Ordered' /\ Takes'
  BY DEF Inbox, Ordered, Takes, OpAwaited, Out, Taken
<1>3. Fits'
  <2>1. base \in Nat /\ flag \in Nat
    BY DEF Types
  <2>2. flag <= base'
    BY <2>1 DEF Fits
  <2>3. reply # None /\ command = "flags" => reply.value <= base'
    BY <2>1 DEF Fits
  <2> QED BY <2>2, <2>3 DEF Fits
<1>4. Accounted'
  BY DEF Accounted, InFailedOrInReply
<1> QED BY <1>1, <1>2, <1>3, <1>4

\* The end of the agent, or rn off: what the queue held is dropped.
LEMMA Dropped ==
  ASSUME ConsoleInv, queue' = <<>>, inbox' = <<>>,
         cleared' = cleared \cup ToSet(queue),
         UNCHANGED <<base, waitVars, databaseVars, requests, captured, shown, imported, took,
                     failed>>
  PROVE  ConsoleInv'
<1> USE DEF ConsoleInv, waitVars, databaseVars
<1>0. DOMAIN <<>> = {} /\ ToSet(<<>>) = {}
  BY NoElements
<1>1. Types' /\ Waits'
  BY DEF Types, Waits
<1>2. Inbox' /\ Takes' /\ Fits'
  BY <1>0 DEF Inbox, Takes, Fits
<1>3. ToSet(queue) \subseteq DOMAIN captured /\ \A n \in ToSet(queue) : n \notin Out
  BY DEF Ordered, ToSet, Types
<1>4. Ordered'
  BY <1>0, <1>3 DEF Ordered, Out, Taken
<1>5. InFailedOrInReply' = InFailedOrInReply
  BY DEF InFailedOrInReply
<1>6. InFailedOrInReply \subseteq Out
  BY DEF InFailedOrInReply, Out, Taken
<1>7. Accounted'
  BY <1>0, <1>3, <1>5, <1>6 DEF Accounted, Out
<1> QED BY <1>1, <1>2, <1>4, <1>7

\* A capture takes the next number.
LEMMA CaptureKept ==
  ASSUME ConsoleInv, NEW c \in Classes, Register(c)
  PROVE  ConsoleInv'
<1> DEFINE n == Len(captured) + 1
<1> USE DEF ConsoleInv
<1>0. /\ captured' = Append(captured, c)
      /\ queue' = Append(queue, Len(captured'))
      /\ UNCHANGED <<inbox, base, waitVars, databaseVars, requests, shown, imported, cleared,
                     took, failed>>
  BY DEF Register, countVars
<1>1. /\ Len(captured) \in Nat /\ DOMAIN captured = 1 .. Len(captured)
      /\ captured' \in Seq(Classes) /\ DOMAIN captured' = 1 .. n
      /\ Len(captured') = n
  <2>1. captured \in Seq(Classes)
    BY DEF Types
  <2> QED BY <1>0, <2>1, AppendElements, AppendProperties
<1>2. /\ queue' \in Seq(Nat) /\ ToSet(queue') = ToSet(queue) \cup {n}
      /\ Len(queue) \in Nat /\ DOMAIN queue = 1 .. Len(queue)
      /\ DOMAIN queue' = 1 .. Len(queue) + 1
      /\ \A i \in DOMAIN queue : queue'[i] = queue[i]
      /\ queue'[Len(queue) + 1] = n
  <2>1. queue \in Seq(Nat) /\ queue' = Append(queue, n) /\ n \in Nat
    BY <1>0, <1>1 DEF Types
  <2> HIDE DEF n
  <2> QED BY <2>1, AppendElements
<1>3. Types' /\ Waits' /\ Inbox'
  BY <1>0, <1>1, <1>2 DEF Types, Waits, Inbox, OpAwaited, waitVars, databaseVars
<1>4. Takes' /\ Fits'
  BY <1>0 DEF Takes, Fits, waitVars, databaseVars
<1>5. Out' = Out
  BY <1>0 DEF Out, Taken
<1>6. /\ \A i \in DOMAIN queue' : i \in DOMAIN queue \/ i = Len(queue) + 1
      /\ \A m \in DOMAIN captured : m < n /\ m \in DOMAIN captured'
      /\ n \in DOMAIN captured' /\ n \notin DOMAIN captured
      /\ \A m \in DOMAIN captured' : m \in DOMAIN captured \/ m = n
  BY <1>1, <1>2
<1>7. Ordered'
  <2>1. \A i \in DOMAIN queue' : queue'[i] \in DOMAIN captured'
    BY <1>2, <1>6 DEF Ordered
  <2>2. ASSUME NEW i \in DOMAIN queue', NEW j \in DOMAIN queue', i < j
        PROVE  queue'[i] < queue'[j]
    <3>1. i \in DOMAIN queue
      BY <1>2, <1>6, <2>2
    <3> HIDE DEF n
    <3> QED BY <1>2, <1>6, <2>2, <3>1 DEF Ordered
  <2>3. Out' \subseteq DOMAIN captured'
    BY <1>5, <1>6 DEF Ordered
  <2>4. ASSUME NEW m \in Out', NEW i \in DOMAIN queue'
        PROVE  m < queue'[i]
    <3> HIDE DEF n
    <3> QED BY <1>2, <1>5, <1>6, <2>4 DEF Ordered
  <2> QED BY <2>1, <2>2, <2>3, <2>4 DEF Ordered
<1>8. InFailedOrInReply' = InFailedOrInReply
  <2>1. \A t \in took : t.captures \subseteq DOMAIN captured
    BY DEF Ordered, Out, Taken
  <2> QED BY <1>0, <1>6, <2>1 DEF InFailedOrInReply, waitVars
<1>9. Accounted'
  <2> HIDE DEF n
  <2> QED BY <1>0, <1>2, <1>6, <1>8 DEF Accounted
<1> QED BY <1>3, <1>4, <1>7, <1>9

\* What a request does to the queue, and what it answers if it is awaited.
LEMMA ExecuteIs ==
  ASSUME ConsoleInv, Execute
  PROVE  LET r == Head(inbox) IN
         /\ inbox # <<>> /\ inbox' = Tail(inbox) /\ r \in Requests
         /\ 1 \in DOMAIN inbox /\ r = inbox[1]
         /\ r.call \in 1 .. requests
         /\ \/ r.op = "rnList" /\ queue' = <<>> /\ UNCHANGED cleared
               /\ took' = took \cup {[call |-> r.call, captures |-> ToSet(queue)]}
            \/ r.op # "rnList" /\ queue' = <<>> /\ cleared' = cleared \cup ToSet(queue)
               /\ UNCHANGED took
            \/ r.op # "rnList" /\ UNCHANGED <<queue, cleared, took>>
         /\ IF r.call = awaiting
            THEN \E value \in Answers(r) : reply' = [value |-> value]
            ELSE UNCHANGED reply
         /\ UNCHANGED <<base, command, awaiting, names, databaseVars, requests, captured,
                        shown, imported, failed>>
<1> DEFINE r == Head(inbox)
<1>1. inbox # <<>>
  BY DEF Execute
<1>2. r \in Requests /\ 1 \in DOMAIN inbox /\ r = inbox[1]
  <2>1. inbox \in Seq(Requests)
    BY DEF ConsoleInv, Types
  <2> QED BY <1>1, <2>1, TailElements
<1>3. r.call \in 1 .. requests
  BY <1>2 DEF ConsoleInv, Inbox
<1>4. /\ inbox' = Tail(inbox)
      /\ IF r.call = awaiting
         THEN \E value \in Answers(r) : reply' = [value |-> value]
         ELSE UNCHANGED reply
      /\ UNCHANGED <<base, command, awaiting, names, databaseVars, requests, captured,
                     shown, imported, failed>>
  BY DEF Execute, countVars
<1>5. CASE r.op = "rnList"
  <2>1. RnList(r.call)
    BY <1>5 DEF Execute
  <2> QED BY <1>1, <1>2, <1>3, <1>4, <1>5, <2>1 DEF RnList
<1>6. CASE r.op = "off"
  <2>1. RnOff
    BY <1>6 DEF Execute
  <2> QED BY <1>1, <1>2, <1>3, <1>4, <1>6, <2>1 DEF RnOff
<1>7. CASE r.op \notin {"off", "rnList"}
  <2>1. UNCHANGED <<queue, cleared, took>>
    BY <1>7 DEF Execute, RnOn
  <2> QED BY <1>1, <1>2, <1>3, <1>4, <1>7, <2>1
<1> QED BY <1>5, <1>6, <1>7

\* An awaited reply is of the kind that the command asked for.
LEMMA AnswerFits ==
  ASSUME ConsoleInv, NEW r \in Requests, r.op = OpAwaited, NEW value \in Answers(r)
  PROVE  /\ command \in {"list", "import"} <=> r.op = "rnList"
         /\ command \in {"list", "import"} => value = queue
         /\ command = "prefix" => value \in Seq(Classes)
         /\ command = "flags" => value = base
<1>1. command \in Commands
  BY DEF ConsoleInv, Types
<1>2. /\ command \in {"list", "import"} <=> r.op = "rnList"
      /\ command = "prefix" => r.op = "classList"
      /\ command = "flags" => r.op = "flagModules"
  BY <1>1 DEF OpAwaited, Request, Commands, RnOps
<1>3. command \in {"list", "import"} => value = queue
  BY <1>2 DEF Answers
<1>4. command = "flags" => value = base
  BY <1>2 DEF Answers
<1>5. ASSUME command = "prefix" PROVE value \in Seq(Classes)
  <2>1. value \in Listings
    BY <1>2, <1>5 DEF Answers
  <2>2. PICK n \in 0 .. JavaMax : value \in [1 .. n -> Classes]
    BY <2>1 DEF Listings
  <2>3. n \in Nat
    BY ConsoleAssumption
  <2> QED BY <2>2, <2>3
<1> QED BY <1>2, <1>3, <1>4, <1>5

LEMMA ExecuteKept ==
  ASSUME ConsoleInv, Execute
  PROVE  ConsoleInv'
<1> DEFINE r == Head(inbox)
           new == [call |-> r.call, captures |-> ToSet(queue)]
<1>0. /\ Types /\ Waits /\ Inbox /\ Ordered /\ Takes /\ Fits /\ Accounted
      /\ DOMAIN <<>> = {} /\ ToSet(<<>>) = {}
  BY NoElements DEF ConsoleInv
<1>1. /\ inbox # <<>> /\ inbox' = Tail(inbox) /\ r \in Requests
      /\ 1 \in DOMAIN inbox /\ r = inbox[1] /\ r.call \in 1 .. requests
  BY ExecuteIs
<1>2. /\ UNCHANGED <<base, command, awaiting, names, databaseVars, requests, captured,
                     shown, imported, failed>>
      /\ r.call # awaiting => reply' = reply
  BY ExecuteIs
<1>3. \/ r.op = "rnList" /\ queue' = <<>> /\ UNCHANGED cleared /\ took' = took \cup {new}
      \/ r.op # "rnList" /\ queue' = <<>> /\ cleared' = cleared \cup ToSet(queue)
         /\ UNCHANGED took
      \/ r.op # "rnList" /\ UNCHANGED <<queue, cleared, took>>
  BY ExecuteIs
<1>4. r.call = awaiting => r.op = OpAwaited /\ reply = None
  BY <1>0, <1>1 DEF Inbox
<1>5. ASSUME r.call = awaiting
      PROVE  \E value : /\ reply' = [value |-> value]
                        /\ command \in {"list", "import"} <=> r.op = "rnList"
                        /\ command \in {"list", "import"} => value = queue
                        /\ command = "prefix" => value \in Seq(Classes)
                        /\ command = "flags" => value = base
  <2>1. PICK value \in Answers(r) : reply' = [value |-> value]
    BY <1>5, ExecuteIs
  <2>2. r.op = OpAwaited
    BY <1>4, <1>5
  <2> HIDE DEF r
  <2> QED BY <1>1, <2>1, <2>2, AnswerFits
<1>6. /\ inbox' \in Seq(Requests)
      /\ \A i \in DOMAIN inbox' : i \in Nat \ {0} /\ i + 1 \in DOMAIN inbox /\ inbox'[i] = inbox[i + 1]
  <2>1. inbox \in Seq(Requests)
    BY <1>0 DEF Types
  <2> QED BY <1>1, <2>1, TailElements
<1>7. \A i \in DOMAIN inbox' : inbox'[i].call # r.call
  <2>1. \A i \in DOMAIN inbox' : i + 1 # 1 /\ i + 1 \in DOMAIN inbox
    BY <1>6
  <2> QED BY <1>0, <1>1, <1>6, <2>1 DEF Inbox
<1>8. \A t \in took : t.call # r.call
  BY <1>0, <1>1 DEF Inbox
<1>9. r.op = "rnList" /\ r.call = awaiting => reply' = [value |-> queue] /\ reply' # None
  BY <1>0, <1>5, ConsoleAssumption DEF Types
<1>10. ToSet(queue) \subseteq DOMAIN captured /\ \A n \in ToSet(queue) : n \notin Out
  BY <1>0 DEF Ordered, ToSet, Types
<1>11. Types'
  <2>1. new.call = r.call
    OBVIOUS
  <2>2. \A t \in took' : t.call \in 1 .. requests
    <3> HIDE DEF new, r
    <3> QED BY <1>0, <1>1, <1>3, <2>1 DEF Types
  <2>3. queue' \in Seq(Nat)
    <3>1. <<>> \in Seq(Nat) /\ queue \in Seq(Nat)
      BY <1>0 DEF Types
    <3> QED BY <1>3, <3>1
  <2> QED BY <1>0, <1>2, <1>6, <2>2, <2>3 DEF Types, databaseVars
<1>12. Waits'
  <2>1. r.call # 0
    BY <1>1
  <2>2. awaiting = 0 => reply' = None
    BY <1>0, <1>2, <2>1 DEF Waits
  <2> QED BY <1>0, <1>2, <2>2 DEF Waits
<1>13. Inbox'
  <2>1. \A i \in DOMAIN inbox' : inbox'[i].call \in 1 .. requests'
    BY <1>0, <1>2, <1>6 DEF Inbox
  <2>2. ASSUME NEW i \in DOMAIN inbox', NEW j \in DOMAIN inbox', inbox'[i].call = inbox'[j].call
        PROVE  i = j
    <3>1. i + 1 = j + 1 /\ i \in Nat /\ j \in Nat
      BY <1>0, <1>6, <2>2 DEF Inbox
    <3> QED BY <3>1
  <2>3. \A i \in DOMAIN inbox' : inbox'[i].call # awaiting => inbox'[i].call \in failed
    BY <1>0, <1>6 DEF Inbox
  <2>4. \A i \in DOMAIN inbox' : inbox'[i].call = awaiting =>
           inbox'[i].op = OpAwaited /\ reply' = None
    <3> HIDE DEF r
    <3> QED BY <1>0, <1>2, <1>6, <1>7 DEF Inbox
  <2>5. \A i \in DOMAIN inbox' : \A t \in took' : t.call # inbox'[i].call
    <3>1. new.call = r.call
      OBVIOUS
    <3> HIDE DEF new, r
    <3> QED BY <1>0, <1>3, <1>6, <1>7, <3>1 DEF Inbox
  <2>6. OpAwaited' = OpAwaited
    BY <1>2 DEF OpAwaited
  <2> QED BY <1>2, <2>1, <2>2, <2>3, <2>4, <2>5, <2>6 DEF Inbox
<1>14. Ordered'
  <2>1. Taken' \subseteq Taken \cup ToSet(queue)
    <3>1. new.captures = ToSet(queue)
      OBVIOUS
    <3> HIDE DEF new, r
    <3> QED BY <1>3, <3>1 DEF Taken
  <2>2. Out' \subseteq Out \cup ToSet(queue)
    BY <1>2, <1>3, <2>1 DEF Out
  <2>3. CASE queue' = <<>>
    BY <1>0, <1>2, <1>10, <2>2, <2>3 DEF Ordered
  <2>4. CASE UNCHANGED <<queue, cleared, took>>
    BY <1>0, <1>2, <2>4 DEF Ordered, Out, Taken
  <2> QED BY <1>3, <2>3, <2>4
<1>15. Takes'
  <2>1. CASE r.op = "rnList"
    <3>1. took' = took \cup {new} /\ new.call = r.call /\ new.captures = ToSet(queue)
      BY <1>3, <2>1
    <3>2. \A t \in took : t.captures \cap new.captures = {}
      BY <1>10, <3>1 DEF Out, Taken
    <3>3. \A t, u \in took' : t # u => t.captures \cap u.captures = {}
      <4> HIDE DEF new, r
      <4> QED BY <1>0, <3>1, <3>2 DEF Takes
    <3>4. r.call = awaiting => /\ reply' # None /\ command \in {"list", "import"}
                               /\ ToSet(reply'.value) = ToSet(queue)
      BY <1>5, <1>9, <2>1
    <3>5. \A t \in took' : t.call = awaiting =>
            reply' # None /\ command \in {"list", "import"} /\ t.captures = ToSet(reply'.value)
      <4> HIDE DEF new, r
      <4> QED BY <1>0, <1>2, <1>8, <3>1, <3>4 DEF Takes
    <3> QED BY <1>2, <3>3, <3>5 DEF Takes
  <2>2. CASE r.op # "rnList"
    <3>1. took' = took
      BY <1>3, <2>2
    <3> HIDE DEF r
    <3> QED BY <1>0, <1>2, <1>8, <3>1 DEF Takes
  <2> QED BY <2>1, <2>2
<1>16. Fits'
  <2>1. CASE r.call # awaiting
    <3>1. \A t \in took : t \in took'
      BY <1>3
    <3>2. reply' = reply
      BY <1>2, <2>1
    <3> HIDE DEF r
    <3> QED BY <1>0, <1>2, <3>1, <3>2 DEF Fits, databaseVars
  <2>2. CASE r.call = awaiting
    <3>1. PICK value : /\ reply' = [value |-> value]
                       /\ command \in {"list", "import"} <=> r.op = "rnList"
                       /\ command \in {"list", "import"} => value = queue
                       /\ command = "prefix" => value \in Seq(Classes)
                       /\ command = "flags" => value = base
      BY <1>5, <2>2
    <3>2. reply'.value = value
      BY <3>1
    <3>3. ASSUME command \in {"list", "import"}
          PROVE  \E t \in took' : t.call = awaiting
      <4>1. new \in took' /\ new.call = r.call
        BY <1>3, <3>1, <3>3
      <4> HIDE DEF new, r
      <4> QED BY <2>2, <4>1
    <3>4. imported \subseteq Out
      BY DEF Out
    <3>5. base \in Nat /\ queue \in Seq(Nat)
      BY <1>0 DEF Types
    <3> HIDE DEF r
    <3>6. command \in {"list", "import"} =>
            /\ value \in Seq(Nat)
            /\ \A i, j \in DOMAIN value : i < j => value[i] < value[j]
            /\ \A n \in imported : \A i \in DOMAIN value : n < value[i]
      BY <1>0, <3>1, <3>4, <3>5 DEF Ordered
    <3>7. command = "flags" => value \in Nat /\ flag <= value /\ value <= base
      BY <1>0, <3>1, <3>5 DEF Fits
    <3> QED BY <1>0, <1>2, <3>1, <3>2, <3>3, <3>6, <3>7 DEF Fits, databaseVars
  <2> QED BY <2>1, <2>2
<1>17. InFailedOrInReply' = IF r.op = "rnList" THEN InFailedOrInReply \cup ToSet(queue)
                            ELSE InFailedOrInReply
  <2>1. \A t \in took : (t.call = awaiting /\ reply' # None) <=> (t.call = awaiting /\ reply # None)
    <3> HIDE DEF r
    <3> QED BY <1>2, <1>8
  <2>2. r.call \in failed \/ (r.call = awaiting /\ (r.op = "rnList" => reply' # None))
    BY <1>0, <1>1, <1>9 DEF Inbox
  <2>3. new.call = r.call /\ new.captures = ToSet(queue)
    OBVIOUS
  <2> HIDE DEF new, r
  <2>4. CASE r.op # "rnList"
    BY <1>2, <1>3, <2>1, <2>4 DEF InFailedOrInReply
  <2>5. CASE r.op = "rnList"
    <3>1. took' = took \cup {new} /\ captured' = captured /\ awaiting' = awaiting /\ failed' = failed
      BY <1>2, <1>3, <2>5
    <3>2. r.call \in failed \/ (r.call = awaiting /\ reply' # None)
      BY <2>2, <2>5
    <3> QED BY <1>10, <2>1, <2>3, <2>5, <3>1, <3>2 DEF InFailedOrInReply
  <2> QED BY <2>4, <2>5
<1>18. Accounted'
  <2>1. InFailedOrInReply \subseteq Out
    BY DEF InFailedOrInReply, Out, Taken
  <2> HIDE DEF new, r
  <2> QED BY <1>0, <1>2, <1>3, <1>10, <1>17, <2>1 DEF Accounted, Out
<1> QED BY <1>11, <1>12, <1>13, <1>14, <1>15, <1>16, <1>18 DEF ConsoleInv

\* A request is posted under the next number.
LEMMA AskKept ==
  ASSUME ConsoleInv, awaiting = 0, NEW op \in Ops, NEW class \in Classes \cup {None},
         op = OpAwaited', command' \in Commands \ {"idle"}, names' \in Seq(Classes),
         Ask(op, class)
  PROVE  ConsoleInv'
<1> DEFINE n == requests + 1
           new == [call |-> n, op |-> op, class |-> class]
<1>0. /\ Types /\ Waits /\ Inbox /\ Ordered /\ Takes /\ Fits /\ Accounted
  BY DEF ConsoleInv
<1>1. /\ requests' = n /\ awaiting' = n /\ inbox' = Append(inbox, new)
      /\ UNCHANGED <<queue, base, reply, databaseVars, captured, shown, imported, cleared,
                     took, failed>>
  BY DEF Ask, history
<1>2. /\ n \in Nat /\ n # 0 /\ requests \in Nat
      /\ \A k \in 1 .. requests : k \in 1 .. n /\ k # n /\ k # 0
      /\ n \in 1 .. n
  BY <1>0 DEF Types
<1>3. new \in Requests /\ new.call = n /\ new.op = op
  BY <1>2 DEF Requests
<1> HIDE DEF new, n
<1>4. /\ inbox' \in Seq(Requests)
      /\ DOMAIN inbox' = 1 .. Len(inbox) + 1 /\ DOMAIN inbox = 1 .. Len(inbox)
      /\ Len(inbox) \in Nat
      /\ \A i \in DOMAIN inbox : inbox'[i] = inbox[i]
      /\ inbox'[Len(inbox) + 1] = new
  <2>1. inbox \in Seq(Requests)
    BY <1>0 DEF Types
  <2> QED BY <1>1, <1>3, <2>1, AppendElements
<1>5. \A i \in DOMAIN inbox' : \/ i \in DOMAIN inbox /\ inbox'[i] = inbox[i]
                               \/ i = Len(inbox) + 1 /\ inbox'[i] = new
  BY <1>4
<1>6. reply = None /\ \A t \in took : t.call # awaiting /\ t.call # awaiting'
  BY <1>0, <1>1, <1>2 DEF Waits, Types
<1>7. Types'
  <2>1. awaiting' \in 0 .. requests'
    BY <1>1, <1>2
  <2>2. failed' \subseteq 1 .. requests' /\ \A t \in took' : t.call \in 1 .. requests'
    BY <1>0, <1>1, <1>2 DEF Types
  <2> QED BY <1>0, <1>1, <1>2, <1>4, <2>1, <2>2 DEF Types, databaseVars
<1>8. Waits'
  <2>1. awaiting' \notin failed'
    BY <1>0, <1>1, <1>2 DEF Types
  <2> QED BY <1>1, <1>2, <2>1 DEF Waits
<1>9. Inbox'
  <2>1. \A i \in DOMAIN inbox : inbox[i].call \in 1 .. requests /\ inbox[i].call \in failed
    BY <1>0, <1>2 DEF Inbox
  <2>2. \A i \in DOMAIN inbox' : inbox'[i].call \in 1 .. requests'
    BY <1>1, <1>2, <1>3, <1>5, <2>1
  <2>3. \A i, j \in DOMAIN inbox' : inbox'[i].call = inbox'[j].call => i = j
    BY <1>0, <1>2, <1>3, <1>5, <2>1 DEF Inbox
  <2>4. \A i \in DOMAIN inbox' : inbox'[i].call # awaiting' => inbox'[i].call \in failed'
    BY <1>1, <1>3, <1>5, <2>1
  <2>5. \A i \in DOMAIN inbox' : inbox'[i].call = awaiting' =>
          inbox'[i].op = OpAwaited' /\ reply' = None
    BY <1>1, <1>2, <1>3, <1>5, <1>6, <2>1
  <2>6. \A i \in DOMAIN inbox' : \A t \in took' : t.call # inbox'[i].call
    BY <1>0, <1>1, <1>3, <1>5, <1>6 DEF Inbox
  <2> QED BY <2>2, <2>3, <2>4, <2>5, <2>6 DEF Inbox
<1>10. Ordered'
  BY <1>0, <1>1 DEF Ordered, Out, Taken
<1>11. Takes' /\ Fits'
  BY <1>0, <1>1, <1>6 DEF Takes, Fits, databaseVars
<1>12. InFailedOrInReply' = InFailedOrInReply
  BY <1>1, <1>6 DEF InFailedOrInReply
<1>13. Accounted'
  BY <1>0, <1>1, <1>12 DEF Accounted
<1> QED BY <1>7, <1>8, <1>9, <1>10, <1>11, <1>13 DEF ConsoleInv

LEMMA RunKept ==
  ASSUME ConsoleInv, NEW c \in Commands \ {"idle", "names"}, NEW class \in Classes \cup {None},
         Run(c, class)
  PROVE  ConsoleInv'
<1>1. /\ command = "idle" /\ command' = c /\ names' = names /\ Ask(Request(c), class)
  BY DEF Run
<1>2. awaiting = 0 /\ names \in Seq(Classes)
  BY <1>1 DEF ConsoleInv, Waits, Types
<1>3. Request(c) \in Ops /\ OpAwaited' = Request(c)
  BY <1>1 DEF Request, Ops, OpAwaited, Commands, RnOps
<1> QED BY <1>1, <1>2, <1>3, AskKept

LEMMA NamesKept ==
  ASSUME ConsoleInv, AskNextName \/ SkipName
  PROVE  ConsoleInv'
<1>1. /\ command = "names" /\ awaiting = 0 /\ names # <<>> /\ names \in Seq(Classes)
      /\ names' = Tail(names)
  BY DEF ConsoleInv, Waits, Types, AskNextName, SkipName
<1>2. Head(names) \in Classes /\ names' \in Seq(Classes)
  BY <1>1, HeadTailProperties
<1>3. CASE AskNextName
  <2>1. command' = "names" /\ Ask("classDescribe", Head(names))
    BY <1>1, <1>3 DEF AskNextName
  <2>2. OpAwaited' = "classDescribe"
    BY <2>1 DEF OpAwaited
  <2> QED BY <1>1, <1>2, <2>1, <2>2, AskKept DEF Ops, Commands
<1>4. CASE SkipName
  <2>1. /\ command' = IF names' = <<>> THEN "idle" ELSE "names"
        /\ UNCHANGED <<queue, inbox, base, awaiting, reply, databaseVars, requests, history>>
    BY <1>4 DEF SkipName, agentVars, countVars
  <2>2. reply = None /\ \A t \in took : t.call # awaiting
    BY <1>1 DEF ConsoleInv, Waits, Types
  <2>3. Types'
    BY <1>2, <2>1 DEF ConsoleInv, Types, Commands, databaseVars, history
  <2>4. Waits'
    BY <1>1, <2>1 DEF ConsoleInv, Waits, history
  <2>5. \A i \in DOMAIN inbox : inbox[i].call # awaiting
    BY <1>1 DEF ConsoleInv, Inbox
  <2>6. Inbox'
    BY <2>1, <2>5 DEF ConsoleInv, Inbox, history
  <2>7. Ordered'
    BY <2>1 DEF ConsoleInv, Ordered, Out, Taken, history
  <2>8. Takes' /\ Fits'
    BY <2>1, <2>2 DEF ConsoleInv, Takes, Fits, databaseVars, history
  <2>9. Accounted'
    BY <2>1 DEF ConsoleInv, Accounted, InFailedOrInReply, history
  <2> QED BY <2>3, <2>4, <2>6, <2>7, <2>8, <2>9 DEF ConsoleInv
<1> QED BY <1>3, <1>4

\* A request given up is reported to have failed.
LEMMA GiveUpKept ==
  ASSUME ConsoleInv, GiveUp
  PROVE  ConsoleInv'
<1>0. /\ Types /\ Waits /\ Inbox /\ Ordered /\ Takes /\ Fits /\ Accounted
  BY DEF ConsoleInv
<1>1. /\ awaiting # 0 /\ failed' = failed \cup {awaiting}
      /\ awaiting' = 0 /\ reply' = None /\ names' = names
      /\ command' = IF names' = <<>> THEN "idle" ELSE "names"
      /\ UNCHANGED <<queue, inbox, base, databaseVars, requests, captured, shown, imported,
                     cleared, took>>
  BY DEF GiveUp, Finish, agentVars, countVars
<1>2. /\ awaiting \in 1 .. requests /\ 0 \notin 1 .. requests
      /\ \A t \in took : t.call \in 1 .. requests
  BY <1>0, <1>1 DEF Types
<1>3. Types'
  <2>1. 0 \in 0 .. requests
    BY <1>0 DEF Types
  <2> QED BY <1>0, <1>1, <1>2, <2>1 DEF Types, Commands, databaseVars
<1>4. Waits'
  <2>1. 0 \notin failed'
    BY <1>0, <1>1, <1>2 DEF Types
  <2> QED BY <1>1, <2>1 DEF Waits
<1>5. Inbox'
  <2>1. \A i \in DOMAIN inbox : inbox[i].call # awaiting'
    BY <1>0, <1>1, <1>2 DEF Inbox
  <2> QED BY <1>0, <1>1, <2>1 DEF Inbox
<1>6. Ordered'
  BY <1>0, <1>1 DEF Ordered, Out, Taken
<1>7. Takes' /\ Fits'
  BY <1>0, <1>1, <1>2 DEF Takes, Fits, databaseVars
<1>8. InFailedOrInReply' = InFailedOrInReply
  <2>1. \A t \in took : /\ t.call # awaiting'
                        /\ t.call \in failed' <=>
                             t.call \in failed \/ (t.call = awaiting /\ reply # None)
    BY <1>0, <1>1, <1>2 DEF Takes
  <2> QED BY <1>1, <2>1 DEF InFailedOrInReply
<1>9. Accounted'
  BY <1>0, <1>1, <1>8 DEF Accounted
<1> QED BY <1>3, <1>4, <1>5, <1>6, <1>7, <1>9 DEF ConsoleInv

\* An import of captures in their order writes the latest one of each class.
LEMMA ImportWrites ==
  ASSUME address \in [Classes -> Nat], NEW captures \in Seq(Nat),
         \A i, j \in DOMAIN captures : i < j => captures[i] < captures[j],
         ImportNatives(captures)
  PROVE  /\ address' \in [Classes -> Nat]
         /\ imported' = imported \cup ToSet(captures)
         /\ \A c \in Classes :
              \/ /\ address'[c] = address[c]
                 /\ \A n \in ToSet(captures) : captured[n] # c
              \/ /\ address'[c] \in ToSet(captures)
                 /\ \A n \in ToSet(captures) : captured[n] = c => n <= address'[c]
<1> DEFINE Of(c) == {i \in DOMAIN captures : captured[captures[i]] = c}
<1>1. Len(captures) \in Nat /\ DOMAIN captures = 1 .. Len(captures)
      /\ \A i \in DOMAIN captures : captures[i] \in Nat
  BY ElementOfSeq, LenProperties
<1>2. /\ address' = [c \in Classes |-> IF Of(c) = {} THEN address[c] ELSE captures[Max(Of(c))]]
      /\ imported' = imported \cup ToSet(captures)
  BY DEF ImportNatives
<1>3. \A n \in ToSet(captures) : \E i \in DOMAIN captures : n = captures[i]
  BY DEF ToSet
<1>4. ASSUME NEW c \in Classes, Of(c) # {}
      PROVE  /\ captures[Max(Of(c))] \in ToSet(captures) \cap Nat
             /\ \A n \in ToSet(captures) : captured[n] = c => n <= captures[Max(Of(c))]
  <2>1. Max(Of(c)) \in Of(c) /\ \A i \in Of(c) : i <= Max(Of(c))
    <3>1. Of(c) \in SUBSET (1 .. Len(captures))
      BY <1>1
    <3> HIDE DEF Of
    <3> QED BY <1>1, <1>4, <3>1, MaxProperties
  <2> DEFINE m == Max(Of(c))
  <2>2. m \in DOMAIN captures
    BY <2>1
  <2>3. captures[m] \in ToSet(captures) \cap Nat
    <3> HIDE DEF m
    <3> QED BY <1>1, <2>2 DEF ToSet
  <2>4. \A i \in Of(c) : i \in DOMAIN captures /\ i <= m
    BY <2>1
  <2>5. \A i \in Of(c) : captures[i] <= captures[m]
    <3> HIDE DEF m, Of
    <3> QED BY <1>1, <2>2, <2>4
  <2> QED BY <1>3, <2>3, <2>5
<1>5. ASSUME NEW c \in Classes
      PROVE  /\ address'[c] \in Nat
             /\ \/ /\ address'[c] = address[c]
                   /\ \A n \in ToSet(captures) : captured[n] # c
                \/ /\ address'[c] \in ToSet(captures)
                   /\ \A n \in ToSet(captures) : captured[n] = c => n <= address'[c]
  <2>1. CASE Of(c) = {}
    BY <1>2, <1>3, <2>1
  <2>2. CASE Of(c) # {}
    <3>1. address'[c] = captures[Max(Of(c))]
      BY <1>2, <2>2
    <3> QED BY <1>4, <2>2, <3>1
  <2> QED BY <2>1, <2>2
<1>6. address' \in [Classes -> Nat]
  <2>1. address' = [c \in Classes |-> address'[c]]
    BY <1>2
  <2> QED BY <1>5, <2>1
<1> QED BY <1>2, <1>5, <1>6

\* The captures of the reply that has come, if it is one with captures.
InReply == IF command \in {"list", "import"} THEN ToSet(reply.value) ELSE {}

LEMMA ReceiveIs ==
  ASSUME ConsoleInv, Receive
  PROVE  /\ reply # None /\ awaiting # 0 /\ awaiting' = 0 /\ reply' = None
         /\ names' = IF command = "prefix" THEN reply.value ELSE names
         /\ command' = IF names' = <<>> THEN "idle" ELSE "names"
         /\ shown' = IF command = "list" THEN shown \cup InReply ELSE shown
         /\ imported' = IF command = "import" THEN imported \cup InReply ELSE imported
         /\ flag' = IF command = "flags" THEN reply.value ELSE flag
         /\ address' \in [Classes -> Nat]
         /\ \A c \in Classes :
              address'[c] \notin {0, address[c]} =>
                /\ command = "import" /\ address'[c] \in InReply
                /\ \A n \in InReply : captured[n] = c => n <= address'[c]
         /\ UNCHANGED <<queue, inbox, base, requests, captured, cleared, took, failed>>
<1>1. /\ reply # None /\ awaiting' = 0 /\ reply' = None
      /\ names' = IF command = "prefix" THEN reply.value ELSE names
      /\ command' = IF names' = <<>> THEN "idle" ELSE "names"
      /\ shown' = IF command = "list" THEN shown \cup InReply ELSE shown
      /\ flag' = IF command = "flags" THEN reply.value ELSE flag
      /\ UNCHANGED <<queue, inbox, base, requests, captured, cleared, took, failed>>
  BY DEF Receive, Finish, InReply, agentVars, countVars
<1>2. awaiting # 0 /\ address \in [Classes -> Nat]
  BY <1>1 DEF ConsoleInv, Waits, Types
<1>3. CASE command = "import"
  <2>1. /\ ImportNatives(reply.value) /\ InReply = ToSet(reply.value)
    BY <1>3 DEF Receive, InReply
  <2>2. /\ reply.value \in Seq(Nat)
        /\ \A i, j \in DOMAIN reply.value : i < j => reply.value[i] < reply.value[j]
    BY <1>1, <1>3 DEF ConsoleInv, Fits
  <2>3. /\ address' \in [Classes -> Nat]
        /\ imported' = imported \cup ToSet(reply.value)
        /\ \A c \in Classes :
             \/ address'[c] = address[c]
             \/ /\ address'[c] \in ToSet(reply.value)
                /\ \A n \in ToSet(reply.value) : captured[n] = c => n <= address'[c]
    BY <1>2, <2>1, <2>2, ImportWrites
  <2> QED BY <1>1, <1>2, <1>3, <2>1, <2>3
<1>4. CASE command \in {"class", "names"}
  <2>1. ImportClasses(reply.value)
    BY <1>4 DEF Receive
  <2>2. /\ address' = [c \in Classes |-> IF c \in reply.value THEN 0 ELSE address[c]]
        /\ imported' = imported
    BY <2>1 DEF ImportClasses
  <2>3. address' \in [Classes -> Nat]
        /\ \A c \in Classes : address'[c] \in {0, address[c]}
    BY <1>2, <2>2
  <2> QED BY <1>1, <1>2, <1>4, <2>2, <2>3
<1>5. CASE command \notin {"import", "class", "names"}
  <2>1. UNCHANGED <<address, imported>>
    BY <1>5 DEF Receive
  <2> QED BY <1>1, <1>2, <1>5, <2>1
<1> QED BY <1>3, <1>4, <1>5

LEMMA ReceiveKept ==
  ASSUME ConsoleInv, Receive
  PROVE  ConsoleInv'
<1>0. /\ Types /\ Waits /\ Inbox /\ Ordered /\ Takes /\ Fits /\ Accounted
  BY DEF ConsoleInv
<1>1. /\ reply # None /\ awaiting # 0 /\ awaiting' = 0 /\ reply' = None
      /\ names' = IF command = "prefix" THEN reply.value ELSE names
      /\ command' = IF names' = <<>> THEN "idle" ELSE "names"
      /\ shown' = IF command = "list" THEN shown \cup InReply ELSE shown
      /\ imported' = IF command = "import" THEN imported \cup InReply ELSE imported
      /\ flag' = IF command = "flags" THEN reply.value ELSE flag
      /\ address' \in [Classes -> Nat]
      /\ UNCHANGED <<queue, inbox, base, requests, captured, cleared, took, failed>>
  BY ReceiveIs
<1>2. /\ 0 \notin 1 .. requests /\ 0 \in 0 .. requests
      /\ failed \subseteq 1 .. requests /\ \A t \in took : t.call \in 1 .. requests
  BY <1>0 DEF Types
<1>3. InReply = UNION {t.captures : t \in {u \in took : u.call = awaiting}}
  <2>1. \A t \in took : t.call = awaiting => t.captures = InReply
    BY <1>0 DEF Takes, InReply
  <2>2. InReply # {} => \E t \in took : t.call = awaiting
    BY <1>0, <1>1 DEF Fits, InReply
  <2> QED BY <2>1, <2>2
<1>4. Types'
  <2>1. names' \in Seq(Classes) /\ flag' \in Nat
    BY <1>0, <1>1 DEF Types, Fits
  <2> QED BY <1>0, <1>1, <1>2, <2>1 DEF Types, Commands
<1>5. Waits'
  BY <1>1, <1>2 DEF Waits
<1>6. Inbox'
  <2>1. \A i \in DOMAIN inbox : inbox[i].call # awaiting /\ inbox[i].call # awaiting'
    BY <1>0, <1>1, <1>2 DEF Inbox
  <2> QED BY <1>0, <1>1, <2>1 DEF Inbox
<1>7. Ordered'
  <2>1. Out' \subseteq Out
    BY <1>1, <1>3 DEF Out, Taken
  <2> QED BY <1>0, <1>1, <2>1 DEF Ordered
<1>8. Takes' /\ Fits'
  BY <1>0, <1>1, <1>2 DEF Takes, Fits
<1>9. InReply \subseteq InFailedOrInReply
  BY <1>0, <1>1, <1>3 DEF InFailedOrInReply, Ordered, Out, Taken
<1>10. InFailedOrInReply' = InFailedOrInReply \ InReply
  <2>1. ASSUME NEW t \in took, t.call \in failed PROVE t.captures \cap InReply = {}
    <3>1. \A u \in took : u.call = awaiting => u # t /\ t.captures \cap u.captures = {}
      BY <1>0, <2>1 DEF Takes, Waits
    <3> QED BY <1>3, <3>1
  <2>2. \A t \in took : t.call # awaiting'
    BY <1>1, <1>2
  <2>3. \A t \in took : t.call = awaiting => t.captures \subseteq InReply
    BY <1>3
  <2> QED BY <1>1, <2>1, <2>2, <2>3 DEF InFailedOrInReply
<1>11. Accounted'
  <2>1. CASE command \in {"list", "import"}
    <3>1. \/ shown' = shown \cup InReply /\ imported' = imported
          \/ imported' = imported \cup InReply /\ shown' = shown
      BY <1>1, <2>1
    <3> QED BY <1>0, <1>1, <1>9, <1>10, <3>1 DEF Accounted
  <2>2. CASE command \notin {"list", "import"}
    <3>1. InReply = {} /\ UNCHANGED <<shown, imported>>
      BY <1>1, <2>2 DEF InReply
    <3> QED BY <1>0, <1>1, <1>10, <3>1 DEF Accounted
  <2> QED BY <2>1, <2>2
<1> QED BY <1>4, <1>5, <1>6, <1>7, <1>8, <1>11 DEF ConsoleInv

-----------------------------------------------------------------------------
(* The theorems.                                                           *)

LEMMA ConsoleInit == ASSUME Init PROVE ConsoleInv
<1>0. DOMAIN <<>> = {} /\ ToSet(<<>>) = {}
  BY NoElements
<1>1. <<>> \in Seq(Nat) /\ <<>> \in Seq(Requests) /\ <<>> \in Seq(Classes)
  OBVIOUS
<1> USE <1>0, <1>1 DEF Init
<1>2. Types /\ Waits
  BY DEF Types, Waits, Commands
<1>3. Inbox /\ Takes /\ Fits
  BY DEF Inbox, Takes, Fits
<1>4. Out = {}
  BY DEF Out, Taken
<1>5. InFailedOrInReply = {}
  BY DEF InFailedOrInReply
<1>6. Ordered /\ Accounted
  BY <1>4, <1>5 DEF Ordered, Accounted
<1> QED BY <1>2, <1>3, <1>6 DEF ConsoleInv

LEMMA ConsoleStep == ConsoleInv /\ [Next]_vars => ConsoleInv'
<1> SUFFICES ASSUME ConsoleInv, [Next]_vars PROVE ConsoleInv'
  OBVIOUS
<1>0. base \in Nat /\ base <= base /\ base + 1 \in Nat /\ base <= base + 1
  BY DEF ConsoleInv, Types
<1>1. CASE EnterUri \/ Open
  BY <1>0, <1>1, OthersKept DEF EnterUri, Open, agentVars, countVars
<1>2. CASE ModuleMoves
  BY <1>0, <1>2, OthersKept DEF ModuleMoves, agentVars, countVars
<1>3. CASE Frc \/ ScriptGone
  BY <1>3, Dropped DEF Frc, ScriptGone, AgentGone, countVars
<1>4. CASE \E c \in Classes : Register(c)
  BY <1>4, CaptureKept
<1>5. CASE Execute
  BY <1>5, ExecuteKept
<1>6. CASE \/ \E c \in RnOps \cup {"prefix", "flags"} : Run(c, None)
           \/ \E class \in Classes : Run("class", class)
  <2>1. RnOps \cup {"prefix", "flags", "class"} \subseteq Commands \ {"idle", "names"}
    BY DEF Commands, RnOps
  <2> QED BY <1>6, <2>1, RunKept
<1>7. CASE AskNextName \/ SkipName
  BY <1>7, NamesKept
<1>8. CASE Receive
  BY <1>8, ReceiveKept
<1>9. CASE GiveUp
  BY <1>9, GiveUpKept
<1>10. CASE UNCHANGED vars
  BY <1>0, <1>10, OthersKept DEF vars, agentVars, countVars
<1> QED BY <1>1, <1>2, <1>3, <1>4, <1>5, <1>6, <1>7, <1>8, <1>9, <1>10 DEF Next

\* What holds of the queue, the requests, the reply and the database in every
\* reachable state (import_rn_methods, rnList and the commands around them).
THEOREM ConsoleInvariant == Spec => []ConsoleInv
BY ConsoleInit, ConsoleStep, PTL DEF Spec

\* A captured registration is listed or imported once, or lost only where the
\* user was told, for any Capacity and any number of commands that are given up
\* (rnList of the agent, FrRNj and FrRNj import).
THEOREM EveryCaptureAccounted == Spec => []CapturesAccounted
<1>1. ConsoleInv => CapturesAccounted
  <2> SUFFICES ASSUME ConsoleInv, NEW n \in DOMAIN captured
               PROVE  \E i \in DOMAIN Places : \A j \in DOMAIN Places : n \in Places[j] <=> j = i
    BY DEF CapturesAccounted
  <2>1. DOMAIN Places = 1 .. 5
    BY DEF Places
  <2>2. /\ Places[1] = ToSet(queue) /\ Places[2] = shown /\ Places[3] = imported
        /\ Places[4] = cleared /\ Places[5] = InFailedOrInReply
    BY DEF Places
  <2>3. n \in ToSet(queue) => n \notin shown \cup imported \cup cleared \cup InFailedOrInReply
    <3>1. n \in ToSet(queue) => n \notin Out
      BY DEF ConsoleInv, Ordered, ToSet, Types
    <3> QED BY <3>1 DEF Out, Taken, InFailedOrInReply
  <2>4. \E i \in 1 .. 5 : \A j \in 1 .. 5 : n \in Places[j] <=> j = i
    <3>1. n \in Places[1] \cup Places[2] \cup Places[3] \cup Places[4] \cup Places[5]
      BY <2>2 DEF ConsoleInv, Accounted
    <3>2. \A j \in 1 .. 5 : j = 1 \/ j = 2 \/ j = 3 \/ j = 4 \/ j = 5
      OBVIOUS
    <3>3. \A i, j \in 1 .. 5 : n \in Places[i] /\ n \in Places[j] => i = j
      BY <2>2, <2>3, <3>2 DEF ConsoleInv, Accounted
    <3>4. \E i \in 1 .. 5 : n \in Places[i]
      BY <3>1
    <3> QED BY <3>3, <3>4
  <2> QED BY <2>1, <2>4
<1>2. QED
  BY <1>1, ConsoleInvariant, PTL

\* No import overwrites what a later capture or a later mapping gave
\* (import_rn_methods, import_class and the flags of Frfj).
THEOREM NeverBack == Spec => DatabaseNeverGoesBack
<1> DEFINE Forward ==
      /\ \A c \in Classes :
           address'[c] \notin {0, address[c]} =>
             \A n \in imported' : captured[n] = c => n <= address'[c]
      /\ flag' >= flag
<1>1. ConsoleInv /\ [Next]_vars => [Forward]_vars
  <2> SUFFICES ASSUME ConsoleInv, Next PROVE Forward
    OBVIOUS
  <2>0. flag \in Nat /\ flag >= flag
    BY DEF ConsoleInv, Types
  <2>1. CASE Receive
    <3>1. flag' >= flag
      BY <2>0, <2>1, ReceiveIs DEF ConsoleInv, Fits
    <3>2. ASSUME NEW c \in Classes, address'[c] \notin {0, address[c]},
                 NEW n \in imported', captured[n] = c
          PROVE  n <= address'[c]
      <4>1. /\ command = "import" /\ reply # None /\ address'[c] \in InReply
            /\ \A m \in InReply : captured[m] = c => m <= address'[c]
            /\ imported' = imported \cup InReply /\ InReply = ToSet(reply.value)
        BY <2>1, <3>2, ReceiveIs DEF InReply
      <4>2. CASE n \in InReply
        BY <3>2, <4>1, <4>2
      <4>3. CASE n \in imported
        <5>1. n < address'[c]
          BY <4>1, <4>3 DEF ConsoleInv, Fits, ToSet
        <5>2. n \in Nat /\ address'[c] \in Nat
          <6>1. imported \subseteq DOMAIN captured /\ captured \in Seq(Classes)
            BY DEF ConsoleInv, Ordered, Out, Types
          <6>2. address' \in [Classes -> Nat]
            BY <2>1, ReceiveIs
          <6> QED BY <4>3, <6>1, <6>2
        <5> QED BY <5>1, <5>2
      <4> QED BY <3>2, <4>1, <4>2, <4>3
    <3> QED BY <3>1, <3>2
  <2>2. CASE ~Receive
    <3>1. UNCHANGED <<address, flag>>
      BY <2>2 DEF Next, EnterUri, Open, Frc, ScriptGone, AgentGone, Register, ModuleMoves,
         Execute, Run, AskNextName, Ask, SkipName, GiveUp, databaseVars
    <3> QED BY <2>0, <3>1
  <2> QED BY <2>1, <2>2
<1>2. QED
  BY <1>1, ConsoleInvariant, PTL DEF Spec, DatabaseNeverGoesBack

-----------------------------------------------------------------------------
(* The fields of a text.                                                   *)

NoSlash(text) == \A i \in DOMAIN text : text[i] # "/"
Slash == <<"/">>
Join(field, rest) == field \o Slash \o rest

\* The provers do not know a literal for a string.
Chars == STRING \cup {"/"}

LEMMA Texts ==
  /\ Slash \in Seq(Chars) /\ Len(Slash) = 1 /\ Slash[1] = "/"
  /\ Empty \in Seq(Chars) /\ Len(Empty) = 0 /\ DOMAIN Empty = {}
  /\ \A s \in Seq(Chars) : /\ Len(s) \in Nat /\ DOMAIN s = 1 .. Len(s)
                            /\ \A i \in 1 .. Len(s) : s[i] \in Chars
<1>1. \A s \in Seq(Chars) : Len(s) \in Nat /\ DOMAIN s = 1 .. Len(s)
  BY LenProperties
<1>2. \A s \in Seq(Chars) : \A i \in 1 .. Len(s) : s[i] \in Chars
  BY ElementOfSeq
<1>3. Slash \in Seq(Chars) /\ Len(Slash) = 1 /\ Slash[1] = "/"
  <2>1. <<>> \in Seq(Chars) /\ "/" \in Chars
    <3>1. <<>> \in Seq(Chars)
      BY EmptySeq
    <3>2. "/" \in Chars
      BY DEF Chars
    <3> QED BY <3>1, <3>2
  <2>2. Append(<<>>, "/") = Slash
    BY DEF Slash
  <2>3. /\ Append(<<>>, "/") \in Seq(Chars) /\ Len(Append(<<>>, "/")) = Len(<<>>) + 1
        /\ Append(<<>>, "/")[Len(<<>>) + 1] = "/"
    BY <2>1, AppendProperties
  <2>4. Len(<<>>) + 1 = 1
    BY EmptySeq
  <2> QED BY <2>2, <2>3, <2>4
<1>4. Empty \in Seq(Chars) /\ Len(Empty) = 0 /\ DOMAIN Empty = {}
  BY EmptySeq DEF Empty
<1> QED BY <1>1, <1>2, <1>3, <1>4

\* A field, a slash and what follows it.
LEMMA Joined ==
  ASSUME NEW a \in Seq(Chars), NEW r \in Seq(Chars)
  PROVE  LET c == Join(a, r)
         IN  /\ c \in Seq(Chars) /\ Len(c) = Len(a) + 1 + Len(r)
             /\ \A i \in 1 .. Len(a) : c[i] = a[i]
             /\ c[Len(a) + 1] = "/"
             /\ \A i \in 1 .. Len(r) : c[Len(a) + 1 + i] = r[i]
<1> DEFINE h == a \o Slash
           c == h \o r
<1>1. Len(a) \in Nat /\ Len(r) \in Nat
  BY Texts
<1>2. /\ h \in Seq(Chars) /\ Len(h) = Len(a) + 1
      /\ \A i \in 1 .. Len(a) + 1 : h[i] = IF i <= Len(a) THEN a[i] ELSE Slash[i - Len(a)]
  <2>1. a \in Seq(Chars) /\ Slash \in Seq(Chars) /\ Len(Slash) = 1
    BY Texts
  <2>2. /\ a \o Slash \in Seq(Chars) /\ Len(a \o Slash) = Len(a) + Len(Slash)
        /\ \A i \in 1 .. Len(a) + Len(Slash) :
             (a \o Slash)[i] = IF i <= Len(a) THEN a[i] ELSE Slash[i - Len(a)]
    BY <2>1, ConcatProperties
  <2> QED BY <2>1, <2>2
<1>3. h[Len(a) + 1] = "/" /\ \A i \in 1 .. Len(a) : h[i] = a[i]
  BY <1>1, <1>2, Texts
<1> HIDE DEF h
<1>4. /\ c \in Seq(Chars) /\ Len(c) = Len(h) + Len(r)
      /\ \A i \in 1 .. Len(h) + Len(r) : c[i] = IF i <= Len(h) THEN h[i] ELSE r[i - Len(h)]
  <2>1. h \in Seq(Chars)
    BY <1>2
  <2> QED BY <2>1, ConcatProperties
<1> HIDE DEF c
<1>5. \A i \in 1 .. Len(a) + 1 : c[i] = h[i]
  BY <1>1, <1>2, <1>4
<1>6. ASSUME NEW i \in 1 .. Len(r) PROVE c[Len(a) + 1 + i] = r[i]
  <2>1. /\ Len(a) + 1 + i \in 1 .. Len(h) + Len(r)
        /\ ~(Len(a) + 1 + i <= Len(h)) /\ Len(a) + 1 + i - Len(h) = i
    BY <1>1, <1>2
  <2> QED BY <1>4, <2>1
<1>7. /\ c \in Seq(Chars) /\ Len(c) = Len(a) + 1 + Len(r)
      /\ \A i \in 1 .. Len(a) : c[i] = a[i]
      /\ c[Len(a) + 1] = "/"
  BY <1>1, <1>2, <1>3, <1>4, <1>5
<1> QED BY <1>6, <1>7 DEF c, h, Join

\* AssignPart cuts a text at its first slash, if it has one.
LEMMA PartAssigned ==
  ASSUME NEW cursor \in Seq(Chars)
  PROVE  LET cut == AssignPart(cursor)
         IN  /\ cut.part \in Seq(Chars) /\ NoSlash(cut.part) /\ cut.rest \in Seq(Chars)
             /\ \/ cut.part = cursor /\ cut.rest = Empty
                \/ cursor = Join(cut.part, cut.rest)
<1> DEFINE slashes == {i \in DOMAIN cursor : cursor[i] = "/"}
           slash == IF slashes = {} THEN Len(cursor) + 1 ELSE Min(slashes)
           part == SubSeq(cursor, 1, slash - 1)
           rest == SubSeq(cursor, slash + 1, Len(cursor))
<1>1. /\ Len(cursor) \in Nat /\ DOMAIN cursor = 1 .. Len(cursor)
      /\ \A i \in 1 .. Len(cursor) : cursor[i] \in Chars
  BY Texts
<1>2. /\ slash \in 1 .. Len(cursor) + 1
      /\ \A i \in 1 .. Len(cursor) : i < slash => cursor[i] # "/"
      /\ slash # Len(cursor) + 1 => cursor[slash] = "/"
  <2>1. CASE slashes = {}
    <3>1. slash = Len(cursor) + 1
      BY <2>1
    <3> QED BY <1>1, <2>1, <3>1
  <2>2. CASE slashes # {}
    <3>1. slashes \in SUBSET (1 .. Len(cursor)) /\ slash = Min(slashes)
      BY <1>1, <2>2
    <3> DEFINE m == Min(slashes)
    <3>2. m \in slashes /\ \A i \in slashes : m <= i
      <4> HIDE DEF slashes
      <4> QED BY <1>1, <2>2, <3>1, MinProperties
    <3> HIDE DEF m
    <3>3. m \in 1 .. Len(cursor) /\ cursor[m] = "/"
      BY <1>1, <3>2
    <3>4. \A i \in 1 .. Len(cursor) : i < m => cursor[i] # "/"
      BY <1>1, <3>2, <3>3
    <3>5. slash = m
      BY <3>1 DEF m
    <3> HIDE DEF slash
    <3> QED BY <1>1, <3>3, <3>4, <3>5
  <2> QED BY <2>1, <2>2
<1>3. AssignPart(cursor).part = part /\ AssignPart(cursor).rest = rest
  BY DEF AssignPart
<1> HIDE DEF slash, slashes
<1>4. /\ part \in Seq(Chars) /\ Len(part) = slash - 1
      /\ \A i \in 1 .. slash - 1 : part[i] = cursor[i]
  <2>1. slash - 1 \in Int /\ \A i \in 1 .. slash - 1 : i \in 1 .. Len(cursor)
    BY <1>1, <1>2
  <2>2. \A i \in 1 .. slash - 1 : cursor[i] \in Chars
    BY <1>1, <2>1
  <2>3. /\ part \in Seq(Chars) /\ Len(part) = IF 1 <= slash - 1 THEN slash - 1 - 1 + 1 ELSE 0
        /\ \A i \in 1 .. slash - 1 - 1 + 1 : part[i] = cursor[1 + i - 1]
    BY <2>1, <2>2, SubSeqProperties
  <2> HIDE DEF part
  <2>4. Len(part) = slash - 1
    BY <1>1, <1>2, <2>3
  <2>5. ASSUME NEW i \in 1 .. slash - 1 PROVE part[i] = cursor[i]
    <3>1. i \in 1 .. slash - 1 - 1 + 1 /\ 1 + i - 1 = i
      BY <1>1, <1>2
    <3> QED BY <2>3, <3>1
  <2> QED BY <2>3, <2>4, <2>5
<1>5. /\ rest \in Seq(Chars)
      /\ slash # Len(cursor) + 1 => Len(rest) = Len(cursor) - slash
      /\ \A i \in 1 .. Len(cursor) - slash : rest[i] = cursor[slash + i]
      /\ slash = Len(cursor) + 1 => rest = Empty
  <2>1. /\ slash + 1 \in Int /\ Len(cursor) \in Int
        /\ \A i \in slash + 1 .. Len(cursor) : i \in 1 .. Len(cursor)
    BY <1>1, <1>2
  <2>2. \A i \in slash + 1 .. Len(cursor) : cursor[i] \in Chars
    BY <1>1, <2>1
  <2>3. /\ rest \in Seq(Chars)
        /\ Len(rest) = IF slash + 1 <= Len(cursor) THEN Len(cursor) - (slash + 1) + 1 ELSE 0
        /\ \A i \in 1 .. Len(cursor) - (slash + 1) + 1 : rest[i] = cursor[slash + 1 + i - 1]
    BY <2>1, <2>2, SubSeqProperties
  <2>4. slash = Len(cursor) + 1 => rest = Empty
    <3>1. slash = Len(cursor) + 1 => Len(cursor) < slash + 1
      BY <1>1
    <3> QED BY <2>1, <3>1, SubSeqEmpty DEF Empty
  <2> HIDE DEF rest
  <2>5. slash # Len(cursor) + 1 => Len(rest) = Len(cursor) - slash
    <3>1. slash \in Int /\ slash <= Len(cursor) + 1 /\ Len(cursor) \in Nat
      BY <1>1, <1>2
    <3>2. Len(rest) = IF slash + 1 <= Len(cursor) THEN Len(cursor) - (slash + 1) + 1 ELSE 0
      BY <2>3
    <3> QED BY <3>1, <3>2
  <2>6. ASSUME NEW i \in 1 .. Len(cursor) - slash PROVE rest[i] = cursor[slash + i]
    <3>1. i \in 1 .. Len(cursor) - (slash + 1) + 1 /\ slash + 1 + i - 1 = slash + i
      BY <1>1, <1>2
    <3> QED BY <2>3, <3>1
  <2> QED BY <2>3, <2>4, <2>5, <2>6
<1> HIDE DEF part, rest
<1>6. NoSlash(part)
  <2>1. DOMAIN part = 1 .. slash - 1
    BY <1>4, Texts
  <2>2. \A i \in 1 .. slash - 1 : i \in 1 .. Len(cursor) /\ i < slash
    BY <1>1, <1>2
  <2> QED BY <1>2, <1>4, <2>1, <2>2 DEF NoSlash
<1>7. CASE slash = Len(cursor) + 1
  <2>1. Len(part) = Len(cursor) /\ \A i \in 1 .. Len(part) : part[i] = cursor[i]
    BY <1>1, <1>4, <1>7
  <2>2. part = cursor
    BY <1>4, <2>1, SeqEqual
  <2> QED BY <1>3, <1>4, <1>5, <1>6, <1>7, <2>2
<1>8. CASE slash # Len(cursor) + 1
  <2> DEFINE c == Join(part, rest)
  <2>1. /\ c \in Seq(Chars) /\ Len(c) = Len(part) + 1 + Len(rest)
        /\ \A i \in 1 .. Len(part) : c[i] = part[i]
        /\ c[Len(part) + 1] = "/"
        /\ \A i \in 1 .. Len(rest) : c[Len(part) + 1 + i] = rest[i]
    BY <1>4, <1>5, Joined
  <2> HIDE DEF c
  <2>2. Len(part) = slash - 1 /\ Len(rest) = Len(cursor) - slash
    BY <1>4, <1>5, <1>8
  <2>3. Len(c) = Len(cursor)
    BY <1>1, <1>2, <2>1, <2>2
  <2>4. ASSUME NEW i \in 1 .. Len(c) PROVE c[i] = cursor[i]
    <3>1. CASE i < slash
      <4>1. i \in 1 .. slash - 1
        BY <1>1, <1>2, <3>1
      <4> QED BY <1>4, <2>1, <2>2, <4>1
    <3>2. CASE i = slash
      <4>1. slash - 1 + 1 = slash
        BY <1>2
      <4> QED BY <1>2, <1>8, <2>1, <2>2, <3>2, <4>1
    <3>3. CASE i > slash
      <4>1. PICK j \in 1 .. Len(cursor) - slash : i = slash + j
        <5>1. i - slash \in 1 .. Len(cursor) - slash /\ i = slash + (i - slash)
          BY <1>1, <1>2, <2>3, <3>3
        <5> QED BY <5>1
      <4>2. slash - 1 + 1 + j = i
        BY <1>2, <4>1
      <4> QED BY <1>5, <2>1, <2>2, <4>1, <4>2
    <3> QED BY <1>1, <1>2, <3>1, <3>2, <3>3
  <2>5. c = cursor
    BY <2>1, <2>3, <2>4, SeqEqual
  <2> QED BY <1>3, <1>4, <1>5, <1>6, <2>5 DEF c
<1> QED BY <1>7, <1>8

\* A text cut at its first slash is cut there only.
LEMMA CutAtFirst ==
  ASSUME NEW a \in Seq(Chars), NEW r \in Seq(Chars), NoSlash(a),
         NEW b \in Seq(Chars), NEW q \in Seq(Chars), NoSlash(b),
         Join(a, r) = Join(b, q)
  PROVE  a = b /\ r = q
<1> DEFINE c == Join(a, r)
           d == Join(b, q)
<1>1. /\ Len(a) \in Nat /\ DOMAIN a = 1 .. Len(a) /\ Len(b) \in Nat /\ DOMAIN b = 1 .. Len(b)
      /\ Len(r) \in Nat /\ Len(q) \in Nat
  BY Texts
<1>2. /\ Len(c) = Len(a) + 1 + Len(r)
      /\ \A i \in 1 .. Len(a) : c[i] = a[i]
      /\ c[Len(a) + 1] = "/"
      /\ \A i \in 1 .. Len(r) : c[Len(a) + 1 + i] = r[i]
  BY Joined
<1>3. /\ Len(d) = Len(b) + 1 + Len(q)
      /\ \A i \in 1 .. Len(b) : d[i] = b[i]
      /\ d[Len(b) + 1] = "/"
      /\ \A i \in 1 .. Len(q) : d[Len(b) + 1 + i] = q[i]
  BY Joined
<1>4. c = d
  OBVIOUS
<1> HIDE DEF c, d
<1>5. ~(Len(a) < Len(b))
  <2>1. Len(a) < Len(b) => Len(a) + 1 \in 1 .. Len(b)
    BY <1>1
  <2> QED BY <1>1, <1>2, <1>3, <1>4, <2>1 DEF NoSlash
<1>6. ~(Len(b) < Len(a))
  <2>1. Len(b) < Len(a) => Len(b) + 1 \in 1 .. Len(a)
    BY <1>1
  <2> QED BY <1>1, <1>2, <1>3, <1>4, <2>1 DEF NoSlash
<1>7. Len(a) = Len(b)
  <2>1. Len(a) \in Nat /\ Len(b) \in Nat
    BY <1>1
  <2> QED BY <2>1, <1>5, <1>6
<1>8. Len(r) = Len(q)
  BY <1>1, <1>2, <1>3, <1>4, <1>7
<1>9. a = b
  BY <1>2, <1>3, <1>4, <1>7, SeqEqual
<1>10. r = q
  BY <1>2, <1>3, <1>4, <1>7, <1>8, SeqEqual
<1> QED BY <1>9, <1>10

\* A field and what follows the slash after it are cut there.
LEMMA Cut ==
  ASSUME NEW a \in Seq(Chars), NEW r \in Seq(Chars), NoSlash(a)
  PROVE  LET cut == AssignPart(Join(a, r)) IN cut.part = a /\ cut.rest = r
<1> DEFINE c == Join(a, r)
           part == AssignPart(c).part
           rest == AssignPart(c).rest
<1>1. c \in Seq(Chars) /\ Len(a) + 1 \in DOMAIN c /\ c[Len(a) + 1] = "/"
  <2>1. /\ c \in Seq(Chars) /\ Len(c) = Len(a) + 1 + Len(r) /\ c[Len(a) + 1] = "/"
    BY Joined
  <2>2. Len(a) \in Nat /\ Len(r) \in Nat /\ DOMAIN c = 1 .. Len(c)
    BY <2>1, Texts
  <2> HIDE DEF c
  <2> QED BY <2>1, <2>2
<1>2. /\ part \in Seq(Chars) /\ NoSlash(part) /\ rest \in Seq(Chars)
      /\ part = c \/ c = Join(part, rest)
  <2> HIDE DEF c
  <2> QED BY <1>1, PartAssigned
<1>3. part # c
  BY <1>1, <1>2 DEF NoSlash
<1>4. Join(a, r) = Join(part, rest)
  BY <1>2, <1>3
<1> HIDE DEF part, rest
<1>5. a = part /\ r = rest
  BY <1>2, <1>4, CutAtFirst
<1> QED BY <1>5 DEF part, rest

-----------------------------------------------------------------------------
(* Parse and FromParts.                                                    *)

LEMMA Words ==
  ASSUME NEW words, "/" \notin words, NEW text, Named(words, text)
  PROVE  text # Empty /\ NoSlash(text)
<1>1. PICK name \in words : text = <<name>>
  BY DEF Named
<1>2. DOMAIN text = {1} /\ text[1] = name /\ name # "/"
  BY <1>1
<1> QED BY <1>1, <1>2 DEF NoSlash, Empty

\* rz_frida_uri_parse and rz_frida_uri_from_parts obey the same rules.
LEMMA SameRules ==
  ASSUME NEW action, NEW transport, NEW device, NEW target
  PROVE  Parsed(action, transport, device, target) = FromParts(action, transport, device, target)
<1>1. /\ Named(Actions, action) => action # Empty
      /\ Named(Transports, transport) => transport # Empty
  <2>1. "/" \notin Actions /\ "/" \notin Transports
    BY DEF Actions, TargetActions, Transports
  <2> QED BY <2>1, Words
<1>2. HasColon(device) => device # Empty
  BY Texts DEF HasColon
<1>3. transport = <<"local">> => transport # <<"remote">>
  OBVIOUS
<1> QED BY <1>1, <1>2, <1>3 DEF Parsed, FromParts

LEMMA Accepted ==
  ASSUME NEW action, NEW transport, NEW device, NEW target,
         FromParts(action, transport, device, target).ok
  PROVE  /\ FromParts(action, transport, device, target) = UriOf(action, transport, device, target)
         /\ NoSlash(action) /\ NoSlash(transport) /\ action # Empty /\ transport # Empty
<1>1. "/" \notin Actions /\ "/" \notin Transports
  BY DEF Actions, TargetActions, Transports
<1>2. Named(Actions, action) /\ Named(Transports, transport)
      /\ FromParts(action, transport, device, target) = UriOf(action, transport, device, target)
  <2>1. ~Invalid.ok
    BY DEF Invalid
  <2> QED BY <2>1 DEF FromParts
<1> QED BY <1>1, <1>2, Words

\* The fields of a text that Parse accepts, and the text they came from.
LEMMA ParsedFields ==
  ASSUME NEW text \in Seq(Chars), Parse(text).ok
  PROVE  \E a, t, d, g \in Seq(Chars) :
           /\ Parse(text) = UriOf(a, t, d, g) /\ FromParts(a, t, d, g) = UriOf(a, t, d, g)
           /\ NoSlash(a) /\ NoSlash(t) /\ NoSlash(d)
           /\ \/ text = Join(a, Join(t, Join(d, g)))
              \/ text = Join(a, Join(t, d)) /\ g = Empty
              \/ text = Join(a, t) /\ d = Empty /\ g = Empty
<1> DEFINE A == AssignPart(text)
           T == AssignPart(A.rest)
           D == AssignPart(T.rest)
<1>1. Empty \in Seq(Chars)
  BY Texts
<1>2. /\ A.part \in Seq(Chars) /\ NoSlash(A.part) /\ A.rest \in Seq(Chars)
      /\ \/ A.part = text /\ A.rest = Empty
         \/ text = Join(A.part, A.rest)
  BY PartAssigned
<1>3. /\ T.part \in Seq(Chars) /\ NoSlash(T.part) /\ T.rest \in Seq(Chars)
      /\ \/ T.part = A.rest /\ T.rest = Empty
         \/ A.rest = Join(T.part, T.rest)
  <2> HIDE DEF A
  <2>1. A.rest \in Seq(Chars)
    BY <1>2
  <2> QED BY <2>1, PartAssigned
<1>4. /\ D.part \in Seq(Chars) /\ NoSlash(D.part) /\ D.rest \in Seq(Chars)
      /\ \/ D.part = T.rest /\ D.rest = Empty
         \/ T.rest = Join(D.part, D.rest)
  <2> HIDE DEF T
  <2>1. T.rest \in Seq(Chars)
    BY <1>3
  <2> QED BY <2>1, PartAssigned
<1>5. Parse(text) = Parsed(A.part, T.part, D.part, D.rest)
  BY DEF Parse
<1> HIDE DEF A, T, D
<1>6. Parse(text) = FromParts(A.part, T.part, D.part, D.rest)
  BY <1>5, SameRules
<1>7. /\ Parse(text) = UriOf(A.part, T.part, D.part, D.rest)
      /\ A.part # Empty /\ T.part # Empty
  BY <1>6, Accepted
<1>8. \A x, y \in Seq(Chars) : Empty # Join(x, y)
  <2> TAKE x, y \in Seq(Chars)
  <2>1. Len(Join(x, y)) = Len(x) + 1 + Len(y) /\ Len(x) \in Nat /\ Len(y) \in Nat
    BY Joined, Texts
  <2>2. Len(Empty) = 0
    BY Texts
  <2> QED BY <2>1, <2>2
<1>9. text = Join(A.part, A.rest)
  <2>1. A.rest # Empty
    BY <1>3, <1>7, <1>8
  <2> QED BY <1>2, <2>1
<1>10. \/ text = Join(A.part, Join(T.part, Join(D.part, D.rest)))
       \/ text = Join(A.part, Join(T.part, D.part)) /\ D.rest = Empty
       \/ text = Join(A.part, T.part) /\ D.part = Empty /\ D.rest = Empty
  <2>1. T.rest = Empty => D.part = Empty /\ D.rest = Empty
    BY <1>4, <1>8
  <2>2. CASE A.rest = Join(T.part, T.rest) /\ T.rest = Join(D.part, D.rest)
    BY <1>9, <2>2
  <2>3. CASE A.rest = Join(T.part, T.rest) /\ T.rest = D.part /\ D.rest = Empty
    BY <1>9, <2>3
  <2>4. CASE A.rest = T.part /\ T.rest = Empty
    BY <1>9, <2>1, <2>4
  <2> QED BY <1>3, <1>4, <2>2, <2>3, <2>4
<1>11. FromParts(A.part, T.part, D.part, D.rest) = UriOf(A.part, T.part, D.part, D.rest)
  BY <1>6, <1>7
<1>12. /\ A.part \in Seq(Chars) /\ T.part \in Seq(Chars) /\ D.part \in Seq(Chars)
       /\ D.rest \in Seq(Chars) /\ NoSlash(A.part) /\ NoSlash(T.part) /\ NoSlash(D.part)
  BY <1>2, <1>3, <1>4
<1> QED BY <1>7, <1>10, <1>11, <1>12

\* Fields joined from the left are joined from the right.
LEMMA JoinAssociative ==
  ASSUME NEW x \in Seq(Chars), NEW y \in Seq(Chars), NEW r \in Seq(Chars)
  PROVE  Join(Join(x, y), r) = Join(x, Join(y, r))
<1> DEFINE h == x \o Slash
           e == y \o Slash
<1>1. Slash \in Seq(Chars)
  BY Texts
<1>2. h \in Seq(Chars) /\ e \in Seq(Chars)
  BY <1>1, ConcatProperties
<1>3. \A u, v, w \in Seq(Chars) : (u \o v) \o w = u \o (v \o w)
  <2> TAKE u, v, w \in Seq(Chars)
  <2> QED BY ConcatAssociative
<1>4. Join(Join(x, y), r) = ((h \o y) \o Slash) \o r /\ Join(x, Join(y, r)) = h \o (e \o r)
  BY DEF Join
<1>5. (h \o y) \o Slash = h \o e
  <2> HIDE DEF h
  <2> QED BY <1>1, <1>2, <1>3
<1> HIDE DEF h, e
<1>6. (h \o e) \o r = h \o (e \o r)
  BY <1>2, <1>3
<1> QED BY <1>4, <1>5, <1>6, Zenon

\* TextOf, with the slashes grouped as Parse meets them.
LEMMA TextGrouped ==
  ASSUME NEW a \in Seq(Chars), NEW t \in Seq(Chars), NEW d \in Seq(Chars), NEW g \in Seq(Chars)
  PROVE  TextOf(UriOf(a, t, d, g)) = Join(a, Join(t, Join(d, g)))
<1>1. TextOf(UriOf(a, t, d, g)) = Join(Join(Join(a, t), d), g)
  BY DEF TextOf, UriOf, Slash, Join
<1>2. Join(a, t) \in Seq(Chars) /\ Join(d, g) \in Seq(Chars)
  BY Joined
<1>3. Join(Join(Join(a, t), d), g) = Join(Join(a, t), Join(d, g))
  BY <1>2, JoinAssociative
<1>4. Join(Join(a, t), Join(d, g)) = Join(a, Join(t, Join(d, g)))
  BY <1>2, JoinAssociative
<1> QED BY <1>1, <1>3, <1>4

\* What a field that is missing adds.
LEMMA JoinedToNothing ==
  ASSUME NEW x \in Seq(Chars)
  PROVE  /\ Join(x, Empty) = x \o <<"/">>
         /\ Join(x, Join(Empty, Empty)) = x \o <<"/", "/">>
<1> DEFINE s == Slash
<1>1. s \in Seq(Chars) /\ Empty \in Seq(Chars)
  BY Texts
<1>2. s = <<"/">> /\ s \o s = <<"/", "/">>
  <2>1. Append(s, "/") = <<"/", "/">>
    <3> DEFINE u == Append(s, "/")
               v == <<"/", "/">>
    <3>1. "/" \in Chars /\ Len(s) = 1 /\ s[1] = "/"
      BY Texts DEF Chars
    <3>2. u \in Seq(Chars) /\ Len(u) = 2 /\ u[1] = "/" /\ u[2] = "/"
      <4>1. /\ u \in Seq(Chars) /\ Len(u) = Len(s) + 1 /\ u[Len(s) + 1] = "/"
            /\ \A i \in 1 .. Len(s) : u[i] = s[i]
        BY <1>1, <3>1, AppendProperties
      <4> HIDE DEF u, s
      <4> QED BY <3>1, <4>1
    <3>3. v \in Seq(Chars) /\ Len(v) = 2 /\ v[1] = "/" /\ v[2] = "/"
      BY <3>1
    <3> HIDE DEF u, v
    <3>4. u = v
      BY <3>2, <3>3, SeqEqual
    <3> QED BY <3>4 DEF u, v
  <2>2. Append(s, "/") = s \o <<"/">>
    BY <1>1, AppendIsConcat DEF Chars
  <2> QED BY <2>1, <2>2 DEF Slash
<1> HIDE DEF s
<1>3. x \o s \in Seq(Chars)
  BY <1>1, ConcatProperties
<1>4. /\ (x \o s) \o Empty = x \o s /\ Empty \o s = s /\ s \o Empty = s
  BY <1>1, <1>3, ConcatEmptySeq DEF Empty
<1>5. (x \o s) \o s = x \o (s \o s)
  BY <1>1, ConcatAssociative
<1>6. Join(x, Empty) = x \o s /\ Join(Empty, Empty) = s /\ Join(x, s) = (x \o s) \o s
  BY <1>4, Zenon DEF Join, s
<1> QED BY <1>2, <1>5, <1>6, Zenon

\* rz_frida_uri_parse drops and adds nothing but slashes at the end.
THEOREM ParseIsTyped == \A text \in Seq(STRING) : IsTyped(text)
<1> SUFFICES ASSUME NEW text \in Seq(Chars), Parse(text).ok
             PROVE  \E slashes \in {<<>>, <<"/">>, <<"/", "/">>} :
                      TextOf(Parse(text)) = text \o slashes
  <2>1. \A text \in Seq(STRING) : text \in Seq(Chars)
    BY SeqMonotonic DEF Chars
  <2> QED BY <2>1 DEF IsTyped
<1>1. PICK a, t, d, g \in Seq(Chars) :
           /\ Parse(text) = UriOf(a, t, d, g) /\ FromParts(a, t, d, g) = UriOf(a, t, d, g)
           /\ NoSlash(a) /\ NoSlash(t) /\ NoSlash(d)
           /\ \/ text = Join(a, Join(t, Join(d, g)))
              \/ text = Join(a, Join(t, d)) /\ g = Empty
              \/ text = Join(a, t) /\ d = Empty /\ g = Empty
  BY ParsedFields
<1>2. TextOf(Parse(text)) = Join(a, Join(t, Join(d, g)))
  <2>1. TextOf(UriOf(a, t, d, g)) = Join(a, Join(t, Join(d, g)))
    BY TextGrouped
  <2> QED BY <1>1, <2>1
<1>3. Empty \in Seq(Chars)
  BY Texts
<1>4. CASE text = Join(a, Join(t, Join(d, g)))
  <2>1. text \o <<>> = text
    BY ConcatEmptySeq
  <2> QED BY <1>2, <1>4, <2>1
<1>5. CASE text = Join(a, Join(t, d)) /\ g = Empty
  <2>1. Join(t, d) \in Seq(Chars)
    BY Joined
  <2>2. Join(t, Join(d, g)) = Join(Join(t, d), g)
    BY JoinAssociative
  <2>3. Join(a, Join(Join(t, d), g)) = Join(text, g)
    BY <1>5, <2>1, JoinAssociative
  <2>4. TextOf(Parse(text)) = Join(text, Empty)
    BY <1>2, <1>5, <2>2, <2>3
  <2>5. Join(text, Empty) = text \o <<"/">>
    BY JoinedToNothing
  <2> QED BY <2>4, <2>5
<1>6. CASE text = Join(a, t) /\ d = Empty /\ g = Empty
  <2>1. Join(d, g) \in Seq(Chars)
    BY Joined
  <2>2. Join(a, Join(t, Join(d, g))) = Join(text, Join(d, g))
    BY <1>6, <2>1, JoinAssociative
  <2>3. TextOf(Parse(text)) = Join(text, Join(Empty, Empty))
    BY <1>2, <1>6, <2>2
  <2>4. Join(text, Join(Empty, Empty)) = text \o <<"/", "/">>
    BY JoinedToNothing
  <2> QED BY <2>3, <2>4
<1> QED BY <1>1, <1>4, <1>5, <1>6

LEMMA FieldsParse ==
  ASSUME NEW a \in Seq(Chars), NEW t \in Seq(Chars), NEW d \in Seq(Chars), NEW g \in Seq(Chars),
         FromParts(a, t, d, g) = UriOf(a, t, d, g)
  PROVE  AsFieldsAndText(UriOf(a, t, d, g))
<1> DEFINE uri == UriOf(a, t, d, g)
<1>1. uri.action = a /\ uri.transport = t /\ uri.device = d /\ uri.target = g /\ uri.ok
  BY DEF UriOf
<1> SUFFICES ASSUME NoSlash(d) PROVE Parse(TextOf(uri)) = uri
  BY <1>1 DEF AsFieldsAndText, NoSlash
<1>2. NoSlash(a) /\ NoSlash(t)
  BY <1>1, Accepted
<1> DEFINE after == Join(d, g)
           later == Join(t, after)
           text == Join(a, later)
<1>3. after \in Seq(Chars)
  BY Joined
<1>4. later \in Seq(Chars)
  <2> HIDE DEF after
  <2> QED BY <1>3, Joined
<1>5. AssignPart(after).part = d /\ AssignPart(after).rest = g
  BY Cut
<1>6. AssignPart(later).part = t /\ AssignPart(later).rest = after
  <2> HIDE DEF after
  <2> QED BY <1>2, <1>3, Cut
<1>7. AssignPart(text).part = a /\ AssignPart(text).rest = later
  <2> HIDE DEF later
  <2> QED BY <1>2, <1>4, Cut
<1>8. TextOf(uri) = text
  <2>1. TextOf(UriOf(a, t, d, g)) = Join(a, Join(t, Join(d, g)))
    BY TextGrouped
  <2> QED BY <2>1
<1> HIDE DEF uri, text, later, after
<1>9. Parse(TextOf(uri)) = Parsed(a, t, d, g)
  BY <1>5, <1>6, <1>7, <1>8 DEF Parse
<1> QED BY <1>9, SameRules DEF uri

\* A URI that either of them accepts is accepted as its fields, and as their
\* text if its device has no slash.
THEOREM FieldsAndTextAgree ==
  /\ \A text \in Seq(STRING) : AsFieldsAndText(Parse(text))
  /\ \A a, t, d, g \in Seq(STRING) : AsFieldsAndText(FromParts(a, t, d, g))
<1>1. \A text \in Seq(STRING) : text \in Seq(Chars)
  BY SeqMonotonic DEF Chars
<1>2. ASSUME NEW text \in Seq(STRING) PROVE AsFieldsAndText(Parse(text))
  <2>1. CASE Parse(text).ok
    <3>1. PICK a, t, d, g \in Seq(Chars) :
             Parse(text) = UriOf(a, t, d, g) /\ FromParts(a, t, d, g) = UriOf(a, t, d, g)
      BY <1>1, <2>1, ParsedFields
    <3> QED BY <3>1, FieldsParse
  <2>2. CASE ~Parse(text).ok
    BY <2>2 DEF AsFieldsAndText
  <2> QED BY <2>1, <2>2
<1>3. ASSUME NEW a \in Seq(STRING), NEW t \in Seq(STRING),
             NEW d \in Seq(STRING), NEW g \in Seq(STRING)
      PROVE  AsFieldsAndText(FromParts(a, t, d, g))
  <2>1. CASE FromParts(a, t, d, g).ok
    <3>1. FromParts(a, t, d, g) = UriOf(a, t, d, g)
      BY <2>1, Accepted
    <3>2. AsFieldsAndText(UriOf(a, t, d, g))
      BY <1>1, <3>1, FieldsParse
    <3> QED BY <3>1, <3>2
  <2>2. CASE ~FromParts(a, t, d, g).ok
    BY <2>2 DEF AsFieldsAndText
  <2> QED BY <2>1, <2>2
<1> QED BY <1>2, <1>3

-----------------------------------------------------------------------------
(* TargetPid.                                                              *)

LEMMA UpTo ==
  ASSUME NEW N \in Nat, NEW G, 0 \in G, \A n \in 1 .. N : n - 1 \in G => n \in G
  PROVE  0 .. N \subseteq G
<1> SUFFICES ASSUME {n \in 0 .. N : n \notin G} # {} PROVE FALSE
  OBVIOUS
<1> DEFINE Bad == {n + 1 : n \in {m \in 0 .. N : m \notin G}}
<1>1. Bad \in SUBSET (1 .. N + 1) /\ Bad # {}
  OBVIOUS
<1>2. Min(Bad) \in Bad /\ \A m \in Bad : Min(Bad) <= m
  <2> HIDE DEF Bad
  <2>1. N + 1 \in Nat
    OBVIOUS
  <2> QED BY <1>1, <2>1, MinProperties
<1>3. PICK n \in 0 .. N : n \notin G /\ Min(Bad) = n + 1
  BY <1>2
<1>4. n # 0 /\ n - 1 \in 0 .. N /\ n - 1 \notin G
  BY <1>3
<1>5. n \in Bad
  BY <1>4
<1> HIDE DEF Bad
<1>6. n + 1 <= n
  BY <1>2, <1>3, <1>5
<1> QED BY <1>6

LEMMA DigitValues ==
  \A c : IsDigit(c) => DigitValue(c) \in 0 .. 9
<1> SUFFICES ASSUME NEW c, IsDigit(c) PROVE DigitValue(c) \in 0 .. 9
  OBVIOUS
<1>1. DOMAIN Digits = 1 .. 10
  BY DEF Digits
<1>2. PICK i \in 1 .. 10 : Digits[i] = c
  BY <1>1 DEF IsDigit, ToSet
<1>3. PICK v \in 0 .. 9 : v + 1 = i
  <2>1. i - 1 \in 0 .. 9 /\ i - 1 + 1 = i
    OBVIOUS
  <2> QED BY <2>1
<1>4. Digits[v + 1] = c
  BY <1>2, <1>3
<1> QED BY <1>4 DEF DigitValue

\* The equations of TargetPid and of NumberOf: f gives what the first n
\* characters of s come to.
NextPid(f, s, n) ==
  IF n = 0 THEN 0
  ELSE IF f[n - 1] = NoPid \/ ~IsDigit(s[n]) THEN NoPid
  ELSE LET value == Ut64(f[n - 1] * 10 + DigitValue(s[n]))
       IN  IF value > UT32_MAX THEN NoPid ELSE value
ReadsPid(f, s) == f = [n \in 0 .. Len(s) |-> NextPid(f, s, n)]

NextNumber(f, s, n) == IF n = 0 THEN 0 ELSE f[n - 1] * 10 + DigitValue(s[n])
ReadsNumber(f, s) == f = [n \in 0 .. Len(s) |-> NextNumber(f, s, n)]

LEMMA PidRead ==
  ASSUME NEW s, NEW g, ReadsPid(g, s)
  PROVE  \E f : ReadsPid(f, s) /\ TargetPid(s) = IF s = Empty THEN NoPid ELSE f[Len(s)]
<1>1. TargetPid(s) = IF s = Empty THEN NoPid ELSE (CHOOSE f : ReadsPid(f, s))[Len(s)]
  BY DEF TargetPid, ReadsPid, NextPid
<1>2. ReadsPid(CHOOSE f : ReadsPid(f, s), s)
  <2> HIDE DEF ReadsPid
  <2> QED OBVIOUS
<1> QED BY <1>1, <1>2

LEMMA NumberRead ==
  ASSUME NEW s, NEW g, ReadsNumber(g, s)
  PROVE  \E f : ReadsNumber(f, s) /\ NumberOf(s) = f[Len(s)]
<1>1. NumberOf(s) = (CHOOSE f : ReadsNumber(f, s))[Len(s)]
  BY DEF NumberOf, ReadsNumber, NextNumber
<1>2. ReadsNumber(CHOOSE f : ReadsNumber(f, s), s)
  <2> HIDE DEF ReadsNumber
  <2> QED OBVIOUS
<1> QED BY <1>1, <1>2

Pids == {NoPid} \cup Nat

LEMMA NextPids ==
  ASSUME NEW f, NEW s, NEW n \in Nat, n = 0 \/ f[n - 1] \in Pids
  PROVE  NextPid(f, s, n) \in Pids
<1>1. CASE n = 0
  BY <1>1 DEF NextPid, Pids
<1>2. CASE n # 0 /\ f[n - 1] \in Nat /\ IsDigit(s[n])
  <2> DEFINE v == Ut64(f[n - 1] * 10 + DigitValue(s[n]))
  <2>1. v \in Nat
    <3>1. f[n - 1] * 10 + DigitValue(s[n]) \in Nat
      BY <1>2, DigitValues
    <3>2. (UT32_MAX + 1) * (UT32_MAX + 1) \in Nat \ {0}
      BY UriAssumption
    <3> QED BY <3>1, <3>2 DEF Ut64
  <2>2. NextPid(f, s, n) = v \/ NextPid(f, s, n) = NoPid
    BY <1>2 DEF NextPid, NoPid
  <2> QED BY <2>1, <2>2 DEF Pids
<1>3. CASE n # 0 /\ ~(f[n - 1] \in Nat /\ IsDigit(s[n]))
  <2>1. f[n - 1] = NoPid \/ ~IsDigit(s[n])
    BY <1>3 DEF Pids
  <2> QED BY <1>3, <2>1 DEF NextPid, Pids
<1> QED BY <1>1, <1>2, <1>3

LEMMA PidsReadable ==
  ASSUME NEW s, Len(s) \in Nat
  PROVE  \E f : ReadsPid(f, s)
<1> DEFINE N == Len(s)
           Reads(f, n) == \A m \in 0 .. n : f[m] = NextPid(f, s, m)
           G == {n \in 0 .. N : \E f \in [0 .. n -> Pids] : Reads(f, n)}
<1>1. 0 \in G
  <2> DEFINE f == [n \in 0 .. 0 |-> 0]
  <2>1. f \in [0 .. 0 -> Pids] /\ Reads(f, 0) /\ 0 \in 0 .. N
    BY DEF Pids, NextPid
  <2> HIDE DEF f
  <2> QED BY <2>1
<1>2. ASSUME NEW n \in 1 .. N, n - 1 \in G PROVE n \in G
  <2>1. PICK f \in [0 .. n - 1 -> Pids] : Reads(f, n - 1)
    BY <1>2
  <2> DEFINE v == NextPid(f, s, n)
             g == [m \in 0 .. n |-> IF m = n THEN v ELSE f[m]]
  <2>2. v \in Pids
    <3>1. n \in Nat /\ f[n - 1] \in Pids
      BY <2>1
    <3> QED BY <3>1, NextPids
  <2>3. g \in [0 .. n -> Pids]
    <3> HIDE DEF v
    <3>1. \A m \in 0 .. n : m # n => m \in 0 .. n - 1
      OBVIOUS
    <3> QED BY <2>1, <2>2, <3>1
  <2>4. ASSUME NEW m \in 0 .. n PROVE g[m] = NextPid(g, s, m)
    <3>1. CASE m = n
      BY <3>1 DEF NextPid
    <3>2. CASE m # n
      <4>1. m \in 0 .. n - 1 /\ g[m] = f[m]
        BY <3>2
      <4>2. m # 0 => g[m - 1] = f[m - 1]
        BY <3>2
      <4>3. f[m] = NextPid(f, s, m)
        BY <2>1, <4>1
      <4> QED BY <4>1, <4>2, <4>3 DEF NextPid
    <3> QED BY <3>1, <3>2
  <2>5. Reads(g, n)
    BY <2>4
  <2> HIDE DEF g
  <2> QED BY <2>3, <2>5
<1> HIDE DEF G
<1>3. N \in G
  <2>1. 0 .. N \subseteq G
    BY <1>1, <1>2, UpTo
  <2> QED BY <2>1
<1>4. PICK f \in [0 .. N -> Pids] : Reads(f, N)
  BY <1>3 DEF G
<1>5. f = [n \in 0 .. N |-> NextPid(f, s, n)]
  BY <1>4
<1> QED BY <1>5 DEF ReadsPid

LEMMA NumbersReadable ==
  ASSUME NEW s, Len(s) \in Nat, \A n \in 1 .. Len(s) : IsDigit(s[n])
  PROVE  \E f : ReadsNumber(f, s)
<1> DEFINE N == Len(s)
           Reads(f, n) == \A m \in 0 .. n : f[m] = NextNumber(f, s, m)
           G == {n \in 0 .. N : \E f \in [0 .. n -> Nat] : Reads(f, n)}
<1>1. 0 \in G
  <2> DEFINE f == [n \in 0 .. 0 |-> 0]
  <2>1. f \in [0 .. 0 -> Nat] /\ Reads(f, 0) /\ 0 \in 0 .. N
    BY DEF NextNumber
  <2> HIDE DEF f
  <2> QED BY <2>1
<1>2. ASSUME NEW n \in 1 .. N, n - 1 \in G PROVE n \in G
  <2>1. PICK f \in [0 .. n - 1 -> Nat] : Reads(f, n - 1)
    BY <1>2
  <2> DEFINE v == f[n - 1] * 10 + DigitValue(s[n])
             g == [m \in 0 .. n |-> IF m = n THEN v ELSE f[m]]
  <2>2. v \in Nat
    <3>1. f[n - 1] \in Nat /\ DigitValue(s[n]) \in 0 .. 9
      BY <2>1, DigitValues
    <3> QED BY <3>1
  <2>3. g \in [0 .. n -> Nat]
    <3> HIDE DEF v
    <3>1. \A m \in 0 .. n : m # n => m \in 0 .. n - 1
      OBVIOUS
    <3> QED BY <2>1, <2>2, <3>1
  <2>4. ASSUME NEW m \in 0 .. n PROVE g[m] = NextNumber(g, s, m)
    <3>1. CASE m = n
      BY <3>1 DEF NextNumber
    <3>2. CASE m # n
      <4>1. m \in 0 .. n - 1 /\ g[m] = f[m]
        BY <3>2
      <4>2. m # 0 => g[m - 1] = f[m - 1]
        BY <3>2
      <4>3. f[m] = NextNumber(f, s, m)
        BY <2>1, <4>1
      <4> QED BY <4>1, <4>2, <4>3 DEF NextNumber
    <3> QED BY <3>1, <3>2
  <2>5. Reads(g, n)
    BY <2>4
  <2> HIDE DEF g
  <2> QED BY <2>3, <2>5
<1> HIDE DEF G
<1>3. N \in G
  <2>1. 0 .. N \subseteq G
    BY <1>1, <1>2, UpTo
  <2> QED BY <2>1
<1>4. PICK f \in [0 .. N -> Nat] : Reads(f, N)
  BY <1>3 DEF G
<1>5. f = [n \in 0 .. N |-> NextNumber(f, s, n)]
  BY <1>4
<1> QED BY <1>5 DEF ReadsNumber

\* A ut64 holds ten times a ut32 and a digit.
LEMMA NoWrap ==
  ASSUME NEW x \in 0 .. UT32_MAX, NEW d \in 0 .. 9
  PROVE  Ut64(x * 10 + d) = x * 10 + d
<1> DEFINE M == (UT32_MAX + 1) * (UT32_MAX + 1)
           v == x * 10 + d
<1>1. UT32_MAX \in Nat /\ UT32_MAX >= 9
  BY UriAssumption
<1>2. M = UT32_MAX * UT32_MAX + 2 * UT32_MAX + 1
  BY <1>1
<1>3. UT32_MAX * UT32_MAX >= 9 * UT32_MAX /\ UT32_MAX * UT32_MAX \in Nat
  BY <1>1
<1>4. v \in Nat /\ v <= UT32_MAX * 10 + 9
  BY <1>1
<1>5. M \in Nat \ {0} /\ v < M
  <2> DEFINE q == UT32_MAX * UT32_MAX
  <2>1. q >= 9 * UT32_MAX /\ q \in Nat /\ M = q + 2 * UT32_MAX + 1
    BY <1>2, <1>3
  <2> HIDE DEF q, M, v
  <2> QED BY <1>1, <1>4, <2>1
<1>6. Ut64(v) = v % M
  BY DEF Ut64
<1> HIDE DEF v, M
<1>7. v % M = v
  BY <1>4, <1>5
<1> QED BY <1>6, <1>7 DEF v

\* While the number fits it is what has been read, and once it does not it
\* never does again.
LEMMA PidIsNumber ==
  ASSUME NEW s, NEW N \in Nat, N = Len(s), \A n \in 1 .. N : IsDigit(s[n]),
         NEW f, ReadsPid(f, s), NEW g, ReadsNumber(g, s)
  PROVE  g[N] \in Nat /\ f[N] = IF g[N] <= UT32_MAX THEN g[N] ELSE NoPid
<1> DEFINE G == {n \in 0 .. N : g[n] \in Nat /\ f[n] = IF g[n] <= UT32_MAX THEN g[n] ELSE NoPid}
<1>0. UT32_MAX \in Nat
  BY UriAssumption
<1>1. 0 \in G
  <2>1. f[0] = 0 /\ g[0] = 0
    BY DEF ReadsPid, ReadsNumber, NextPid, NextNumber
  <2> QED BY <1>0, <2>1
<1>2. ASSUME NEW n \in 1 .. N, n - 1 \in G PROVE n \in G
  <2> DEFINE x == g[n - 1]
             d == DigitValue(s[n])
  <2>1. x \in Nat /\ f[n - 1] = IF x <= UT32_MAX THEN x ELSE NoPid
    BY <1>2
  <2>2. d \in 0 .. 9 /\ IsDigit(s[n])
    BY DigitValues
  <2>3. g[n] = x * 10 + d
    BY DEF ReadsNumber, NextNumber
  <2>4. f[n] = IF f[n - 1] = NoPid \/ ~IsDigit(s[n]) THEN NoPid
               ELSE LET value == Ut64(f[n - 1] * 10 + d)
                    IN  IF value > UT32_MAX THEN NoPid ELSE value
    BY DEF ReadsPid, NextPid
  <2> HIDE DEF x, d
  <2>5. g[n] \in Nat
    BY <2>1, <2>2, <2>3
  <2>6. CASE x <= UT32_MAX
    <3>1. f[n - 1] = x /\ x # NoPid
      BY <2>1, <2>6 DEF NoPid
    <3>2. Ut64(x * 10 + d) = g[n]
      <4>1. x \in 0 .. UT32_MAX
        BY <1>0, <2>1, <2>6
      <4> QED BY <2>2, <2>3, <4>1, NoWrap
    <3>3. f[n] = IF g[n] > UT32_MAX THEN NoPid ELSE g[n]
      BY <2>2, <2>4, <3>1, <3>2
    <3> QED BY <1>0, <2>5, <3>3
  <2>7. CASE ~(x <= UT32_MAX)
    <3>1. f[n] = NoPid
      BY <2>1, <2>4, <2>7
    <3>2. ~(g[n] <= UT32_MAX)
      BY <1>0, <2>1, <2>2, <2>3, <2>7
    <3> QED BY <2>5, <3>1, <3>2
  <2> QED BY <2>6, <2>7
<1> HIDE DEF G
<1>3. N \in G
  <2>1. 0 .. N \subseteq G
    BY <1>1, <1>2, UpTo
  <2> QED BY <2>1
<1> QED BY <1>3 DEF G

\* After a character that is no digit there is no process id.
LEMMA NoPidLater ==
  ASSUME NEW s, NEW N \in Nat, N = Len(s), NEW k \in 1 .. N, ~IsDigit(s[k]),
         NEW f, ReadsPid(f, s)
  PROVE  f[N] = NoPid
<1> DEFINE G == {n \in 0 .. N : n >= k => f[n] = NoPid}
<1>1. 0 \in G
  OBVIOUS
<1>2. ASSUME NEW n \in 1 .. N, n - 1 \in G PROVE n \in G
  <2>1. f[n - 1] = NoPid \/ ~IsDigit(s[n]) => f[n] = NoPid
    BY DEF ReadsPid, NextPid
  <2>2. CASE n - 1 >= k
    BY <1>2, <2>1, <2>2
  <2>3. CASE n = k
    BY <2>1, <2>3
  <2>4. CASE n < k
    BY <2>4
  <2> QED BY <2>2, <2>3, <2>4
<1> HIDE DEF G
<1>3. N \in G
  <2>1. 0 .. N \subseteq G
    BY <1>1, <1>2, UpTo
  <2> QED BY <2>1
<1> QED BY <1>3 DEF G

\* rz_frida_uri_target_pid takes a selector, however long, for a process id
\* exactly when it is a decimal number that fits in a ut32, and then for that
\* number: the ut64 it is read in never wraps before the range is tested.
THEOREM PidsAreDecimals ==
  ASSUME NEW S, NEW target \in Seq(S)
  PROVE  PidOfDecimal(target)
<1> SUFFICES TargetPid(target) =
               IF IsDecimal(target) /\ NumberOf(target) <= UT32_MAX THEN NumberOf(target) ELSE NoPid
  BY DEF PidOfDecimal
<1> DEFINE N == Len(target)
<1>1. N \in Nat /\ DOMAIN target = 1 .. N
  BY LenProperties
<1>2. PICK f : ReadsPid(f, target) /\ TargetPid(target) = IF target = Empty THEN NoPid ELSE f[N]
  <2>1. \E f : ReadsPid(f, target)
    BY <1>1, PidsReadable
  <2> QED BY <2>1, PidRead
<1>3. CASE target = Empty
  BY <1>2, <1>3 DEF IsDecimal
<1>4. CASE target # Empty /\ IsDecimal(target)
  <2>1. \A n \in 1 .. N : IsDigit(target[n])
    BY <1>1, <1>4 DEF IsDecimal
  <2>2. PICK g : ReadsNumber(g, target) /\ NumberOf(target) = g[N]
    <3>1. \E g : ReadsNumber(g, target)
      BY <1>1, <2>1, NumbersReadable
    <3> QED BY <3>1, NumberRead
  <2>3. f[N] = IF g[N] <= UT32_MAX THEN g[N] ELSE NoPid
    BY <1>1, <1>2, <2>1, <2>2, PidIsNumber
  <2> QED BY <1>2, <1>4, <2>2, <2>3
<1>5. CASE target # Empty /\ ~IsDecimal(target)
  <2>1. PICK k \in 1 .. N : ~IsDigit(target[k])
    BY <1>1, <1>5 DEF IsDecimal
  <2>2. f[N] = NoPid
    BY <1>1, <1>2, <2>1, NoPidLater
  <2> QED BY <1>2, <1>5, <2>2
<1> QED BY <1>3, <1>4, <1>5

-----------------------------------------------------------------------------
(* What is entered for a session.                                          *)

EntryInv == entry # None => entry \in FirstEntries \cup Entries

\* Whatever the user enters, the two ways to a session URI agree on it and a
\* process id is read as the number it is (rz_frida_uri_parse, _from_parts and
\* _target_pid): for texts and selectors of any length.
THEOREM UrisAlwaysAgree == Spec => []UrisAgree
<1>1. Init => EntryInv
  BY DEF Init, EntryInv
<1>2. EntryInv /\ [Next]_vars => EntryInv'
  <2> SUFFICES ASSUME EntryInv, [Next]_vars PROVE EntryInv'
    OBVIOUS
  <2>1. CASE EnterUri
    BY <2>1 DEF EnterUri, EntryInv
  <2>2. CASE Open
    BY <2>2 DEF Open, EntryInv
  <2>3. CASE ~EnterUri /\ ~Open
    <3>1. UNCHANGED entry
      BY <2>3 DEF Next, vars, Frc, ScriptGone, AgentGone, Register, ModuleMoves, Execute,
         Run, AskNextName, Ask, SkipName, Receive, GiveUp
    <3> QED BY <3>1 DEF EntryInv
  <2> QED BY <2>1, <2>2, <2>3
<1>3. EntryInv => UrisAgree
  <2> SUFFICES ASSUME EntryInv, entry # None
               PROVE  /\ AsFieldsAndText(UriEntered)
                      /\ entry.kind = "text" => IsTyped(entry.text)
                      /\ UriEntered.ok => PidOfDecimal(UriEntered.target)
    BY DEF UrisAgree
  <2>1. \/ entry.kind = "text" /\ entry.text \in Seq(STRING)
        \/ /\ entry.kind = "fields"
           /\ {entry.action, entry.transport, entry.device, entry.target} \subseteq Seq(STRING)
    BY EntriesAssumption DEF EntryInv
  <2>2. CASE entry.kind = "text" /\ entry.text \in Seq(STRING)
    <3>1. UriEntered = Parse(entry.text)
      BY <2>2 DEF UriEntered
    <3>2. AsFieldsAndText(Parse(entry.text)) /\ IsTyped(entry.text)
      BY <2>2, FieldsAndTextAgree, ParseIsTyped
    <3>3. ASSUME Parse(entry.text).ok PROVE PidOfDecimal(Parse(entry.text).target)
      <4>1. entry.text \in Seq(Chars)
        BY <2>2, SeqMonotonic DEF Chars
      <4>2. PICK a, t, d, g \in Seq(Chars) : Parse(entry.text) = UriOf(a, t, d, g)
        BY <3>3, <4>1, ParsedFields
      <4>3. Parse(entry.text).target = g
        BY <4>2 DEF UriOf
      <4> QED BY <4>3, PidsAreDecimals
    <3> QED BY <3>1, <3>2, <3>3
  <2>3. CASE /\ entry.kind = "fields"
             /\ {entry.action, entry.transport, entry.device, entry.target} \subseteq Seq(STRING)
    <3> DEFINE uri == FromParts(entry.action, entry.transport, entry.device, entry.target)
    <3>1. UriEntered = uri /\ entry.kind # "text"
      BY <2>3 DEF UriEntered
    <3>2. /\ entry.action \in Seq(STRING) /\ entry.transport \in Seq(STRING)
          /\ entry.device \in Seq(STRING) /\ entry.target \in Seq(STRING)
      BY <2>3
    <3>3. AsFieldsAndText(uri)
      BY <3>2, FieldsAndTextAgree
    <3>4. ASSUME uri.ok PROVE PidOfDecimal(uri.target)
      <4>1. uri.target = entry.target
        BY <3>4, Accepted DEF UriOf
      <4> QED BY <3>2, <4>1, PidsAreDecimals
    <3> HIDE DEF uri
    <3> QED BY <3>1, <3>3, <3>4
  <2> QED BY <2>1, <2>2, <2>3
<1>4. QED
  BY <1>1, <1>2, <1>3, PTL DEF Spec

=============================================================================
