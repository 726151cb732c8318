----------------------------- MODULE NativesProofs -----------------------------
(***************************************************************************)
(* Proofs about Natives, for any threads, any capacity and any number of   *)
(* calls and requests: who deletes each global reference, which threads    *)
(* are captured, what off leaves behind, and that the queues of the agent  *)
(* keep what Captures promises.                                            *)
(***************************************************************************)
EXTENDS Natives, FiniteSetTheorems, SequenceTheorems, WellFoundedInduction, TLAPS

Members(s) == {s[i] : i \in DOMAIN s}

\* A frame whose return will capture its call or is doing so, and one whose
\* call may still be captured further in.
Live(f) == f.leaving \/ (f.outer /\ Attached(f))
Open(f) == Live(f) \/ ~f.forwarded

\* A thread is in the two hooked entries at most, for one call.
Nested(s) ==
  /\ Len(s) <= 2
  /\ \A i \in DOMAIN s :
       /\ s[i].call <= calls
       /\ s[i].generation <= generation
       /\ s[i].leaving => i = Len(s) /\ s[i].outer /\ s[i].capture = "methods"
  /\ \A i, j \in DOMAIN s : i < j =>
       /\ s[i].forwarded
       /\ s[i].call = s[j].call
       /\ s[i].generation <= s[j].generation
       /\ s[i].outer /\ s[j].outer => s[i].generation < s[j].generation

\* The depth of a thread tells that an entry it is in was outermost when the
\* present listeners saw it.
DepthKnown(t) ==
  rnDepth[t] <=>
    \E i \in DOMAIN frames[t] : frames[t][i].outer /\ Attached(frames[t][i])

FramesInv ==
  /\ \A t \in Threads : Nested(frames[t]) /\ DepthKnown(t)
  /\ \A t, u \in Threads : \A i \in DOMAIN frames[t], j \in DOMAIN frames[u] :
       frames[t][i].call = frames[u][j].call => t = u
  /\ \A t \in Threads : \A i \in DOMAIN frames[t] :
       Open(frames[t][i]) => frames[t][i].call \notin captured
  /\ \A c \in captured : c <= calls

\* The captures that hold a global reference, in their order.
Referring == (IF main = "deliver" THEN <<held>> ELSE <<>>) \o CallsOf(rnPending)

RefsInv ==
  /\ main = "deliver" => held \in Calls
  /\ Members(Referring) \subseteq captured
  /\ \A i, j \in DOMAIN Referring : Referring[i] = Referring[j] => i = j
  /\ \A c \in Calls : refs[c] = IF c \in Leaving \cup Members(Referring) THEN 1 ELSE 0

\* Disabling knows of every call that can still be queued.
OffInv ==
  /\ rnHookEnabled => main # "clear"
  /\ ~rnHookEnabled =>
       /\ Leaving \subseteq late
       /\ main # "clear" => \A i \in DOMAIN rnPending : rnPending[i].call \in late
       /\ main = "idle" => rnBuffer = <<>>

\* The threads that will queue a capture.
Capturing == {t \in Threads : \E i \in DOMAIN frames[t] :
                Live(frames[t][i]) /\ frames[t][i].capture = "methods"}

\* Room is left for each of them.
RoomInv == Len(Kept) + Cardinality(Capturing) <= Capacity + Cardinality(Threads)

\* The inductive invariant.
NativesInv == TypeOK /\ FramesInv /\ RefsInv /\ OffInv /\ RoomInv

-----------------------------------------------------------------------------
(* Induction up to a bound, for a set of numbers: what CallsOf computes    *)
(* follows from it.                                                        *)

LEMMA UpTo ==
  ASSUME NEW N \in Nat, NEW G, 0 \in G, \A n \in 1 .. N : n - 1 \in G => n \in G
  PROVE  0 .. N \subseteq G
<1> SUFFICES ASSUME NEW k \in 0 .. N, k \notin G PROVE FALSE
  OBVIOUS
<1> DEFINE Bad == {n \in 0 .. N : n \notin G}
           Below == {0 .. n : n \in Bad}
<1>1. Below \subseteq FiniteSubsetsOf(Nat) /\ Below # {}
  <2>1. \A n \in Bad : 0 .. n \in SUBSET Nat /\ IsFiniteSet(0 .. n)
    BY FS_Interval
  <2> QED BY <2>1 DEF FiniteSubsetsOf
<1>2. PICK b \in Below : \A c \in Below : <<c, b>> \notin StrictSubsetOrdering(Nat)
  <2>1. IsWellFoundedOn(StrictSubsetOrdering(Nat), FiniteSubsetsOf(Nat))
    BY FS_StrictSubsetOrderingWellFounded
  <2> HIDE DEF Below
  <2> QED BY <1>1, <2>1, WFMin
<1>3. PICK n \in Bad : b = 0 .. n
  OBVIOUS
<1>4. n \in 1 .. N /\ n - 1 \in Bad
  OBVIOUS
<1>5. 0 .. n - 1 \in Below
  BY <1>4
<1>6. 0 .. n - 1 \in SUBSET Nat /\ 0 .. n \in SUBSET Nat /\ 0 .. n - 1 \subseteq 0 .. n
  BY <1>4
<1>7. n \in 0 .. n /\ n \notin 0 .. n - 1
  BY <1>4
<1>8. <<0 .. n - 1, 0 .. n>> \in StrictSubsetOrdering(Nat)
  BY <1>6, <1>7 DEF StrictSubsetOrdering
<1> QED BY <1>2, <1>3, <1>5, <1>8

-----------------------------------------------------------------------------
(* CallsOf.                                                                *)

\* The definition of CallsOf: f gives the calls of the first n entries.
Next1(f, s, n) ==
  IF n = 0 THEN <<>>
  ELSE IF HasMethods(s[n]) THEN Append(f[n - 1], s[n].call)
  ELSE f[n - 1]
IsFirst(f, s) == f = [n \in 0 .. Len(s) |-> Next1(f, s, n)]
Computes(f, s, N) == \A n \in 0 .. N : f[n] = Next1(f, s, n)

LEMMA CallsOfFirst ==
  ASSUME NEW s, NEW g, IsFirst(g, s)
  PROVE  \E f : IsFirst(f, s) /\ CallsOf(s) = f[Len(s)]
<1>1. CallsOf(s) = (CHOOSE f : IsFirst(f, s))[Len(s)]
  BY DEF CallsOf, IsFirst, Next1
<1>2. IsFirst(CHOOSE f : IsFirst(f, s), s)
  <2> HIDE DEF IsFirst
  <2> QED OBVIOUS
<1> QED BY <1>1, <1>2

\* Two sequences that agree on their first entries have the same calls there.
LEMMA ComputesOnce ==
  ASSUME NEW N \in Nat, NEW f, NEW g, NEW s, NEW u,
         Computes(f, s, N), Computes(g, u, N), \A n \in 1 .. N : s[n] = u[n]
  PROVE  f[N] = g[N]
<1> DEFINE G == {n \in 0 .. N : f[n] = g[n]}
<1>1. 0 \in G
  BY DEF Computes, Next1
<1>2. ASSUME NEW n \in 1 .. N, n - 1 \in G PROVE n \in G
  BY <1>2 DEF Computes, Next1
<1> HIDE DEF G
<1>3. 0 .. N \subseteq G
  BY <1>1, <1>2, UpTo
<1> QED BY <1>3 DEF G

LEMMA Entries ==
  ASSUME NEW s \in Seq(Entry)
  PROVE  /\ Len(s) \in Nat /\ DOMAIN s = 1 .. Len(s)
         /\ \A n \in 1 .. Len(s) : s[n] \in Entry /\ s[n].call \in Calls
<1>1. Len(s) \in Nat /\ DOMAIN s = 1 .. Len(s)
  BY LenProperties
<1>2. \A n \in 1 .. Len(s) : s[n] \in Entry
  BY <1>1, ElementOfSeq
<1> QED BY <1>1, <1>2 DEF Entry

LEMMA ComputesSomething ==
  ASSUME NEW s \in Seq(Entry)
  PROVE  \E f \in [0 .. Len(s) -> Seq(Calls)] : Computes(f, s, Len(s))
<1> DEFINE N == Len(s)
           G == {n \in 0 .. N : \E f \in [0 .. n -> Seq(Calls)] : Computes(f, s, n)}
<1>1. 0 \in G
  <2> DEFINE f == [n \in 0 .. 0 |-> <<>>]
  <2>1. f \in [0 .. 0 -> Seq(Calls)] /\ Computes(f, s, 0)
    BY EmptySeq DEF Computes, Next1
  <2>2. 0 \in 0 .. N
    BY Entries
  <2> HIDE DEF f
  <2> QED BY <2>1, <2>2
<1>2. ASSUME NEW n \in 1 .. N, n - 1 \in G PROVE n \in G
  <2>1. PICK f \in [0 .. n - 1 -> Seq(Calls)] : Computes(f, s, n - 1)
    BY <1>2
  <2> DEFINE v == Next1(f, s, n)
             g == [m \in 0 .. n |-> IF m = n THEN v ELSE f[m]]
  <2>2. f[n - 1] \in Seq(Calls) /\ s[n].call \in Calls
    BY Entries
  <2>3. v \in Seq(Calls)
    BY <2>2, AppendProperties DEF Next1
  <2>4. g \in [0 .. n -> Seq(Calls)]
    <3> HIDE DEF v
    <3>1. \A m \in 0 .. n : m # n => m \in 0 .. n - 1
      OBVIOUS
    <3> QED BY <2>3, <3>1
  <2>5. ASSUME NEW m \in 0 .. n PROVE g[m] = Next1(g, s, m)
    <3>1. CASE m = n
      BY <3>1 DEF Next1
    <3>2. CASE m # n
      <4>1. m \in 0 .. n - 1 /\ g[m] = f[m]
        BY <3>2
      <4>2. m # 0 => g[m - 1] = f[m - 1]
        BY <3>2
      <4> QED BY <2>1, <4>1, <4>2 DEF Computes, Next1
    <3> QED BY <3>1, <3>2
  <2>6. Computes(g, s, n)
    BY <2>5 DEF Computes
  <2> HIDE DEF g
  <2> QED BY <2>4, <2>6
<1> HIDE DEF G
<1>3. 0 .. N \subseteq G
  BY <1>1, <1>2, UpTo, Entries
<1> QED BY <1>3, Entries DEF G

\* What CallsOf gives is what the equation computes, and is a sequence of calls.
LEMMA CallsOfComputed ==
  ASSUME NEW s \in Seq(Entry)
  PROVE  \E f : Computes(f, s, Len(s)) /\ CallsOf(s) = f[Len(s)] /\ CallsOf(s) \in Seq(Calls)
<1>1. PICK g \in [0 .. Len(s) -> Seq(Calls)] : Computes(g, s, Len(s))
  BY ComputesSomething
<1>2. IsFirst(g, s)
  BY <1>1 DEF IsFirst, Computes
<1>3. PICK f : IsFirst(f, s) /\ CallsOf(s) = f[Len(s)]
  BY <1>2, CallsOfFirst
<1>4. Computes(f, s, Len(s))
  BY <1>3 DEF IsFirst, Computes
<1>5. f[Len(s)] = g[Len(s)]
  BY <1>1, <1>4, Entries, ComputesOnce
<1>6. g[Len(s)] \in Seq(Calls)
  BY Entries
<1> QED BY <1>3, <1>4, <1>5, <1>6

LEMMA CallsOfEmpty == CallsOf(<<>>) = <<>>
<1>1. <<>> \in Seq(Entry) /\ Len(<<>>) = 0
  BY EmptySeq
<1>2. PICK f : Computes(f, <<>>, 0) /\ CallsOf(<<>>) = f[0]
  BY <1>1, CallsOfComputed
<1> QED BY <1>2 DEF Computes, Next1

LEMMA CallsOfAppend ==
  ASSUME NEW s \in Seq(Entry), NEW e \in Entry
  PROVE  CallsOf(Append(s, e))
           = IF HasMethods(e) THEN Append(CallsOf(s), e.call) ELSE CallsOf(s)
<1> DEFINE u == Append(s, e)
           N == Len(s)
<1>1. /\ u \in Seq(Entry) /\ Len(u) = N + 1 /\ N \in Nat
      /\ \A n \in 1 .. N : u[n] = s[n]
      /\ u[N + 1] = e
  BY AppendProperties, LenProperties
<1> HIDE DEF u
<1>2. PICK f : Computes(f, s, N) /\ CallsOf(s) = f[N]
  BY CallsOfComputed
<1>3. PICK g : Computes(g, u, N + 1) /\ CallsOf(u) = g[N + 1]
  BY <1>1, CallsOfComputed
<1>4. Computes(g, u, N)
  BY <1>1, <1>3 DEF Computes
<1>5. g[N] = f[N]
  BY <1>1, <1>2, <1>4, ComputesOnce
<1>6. g[N + 1] = Next1(g, u, N + 1)
  BY <1>1, <1>3 DEF Computes
<1>7. Next1(g, u, N + 1) = IF HasMethods(e) THEN Append(g[N], e.call) ELSE g[N]
  BY <1>1 DEF Next1
<1> QED BY <1>2, <1>3, <1>5, <1>6, <1>7 DEF u

-----------------------------------------------------------------------------
(* Sequences.                                                              *)

LEMMA SequenceInduction ==
  ASSUME NEW S, NEW G, <<>> \in G,
         \A s \in Seq(S), e \in S : s \in G => Append(s, e) \in G
  PROVE  Seq(S) \subseteq G
<1> SUFFICES ASSUME NEW s \in Seq(S) PROVE s \in G
  OBVIOUS
<1> DEFINE H == {n \in Nat : \A u \in Seq(S) : Len(u) = n => u \in G}
<1>1. 0 \in H
  <2>1. \A u \in Seq(S) : Len(u) = 0 => u = <<>>
    BY EmptySeq
  <2> QED BY <2>1
<1>2. ASSUME NEW n \in 1 .. Len(s), n - 1 \in H PROVE n \in H
  <2>1. n \in Nat /\ n # 0
    BY LenProperties
  <2>2. ASSUME NEW u \in Seq(S), Len(u) = n PROVE u \in G
    <3>1. u # <<>>
      BY <2>1, <2>2, EmptySeq
    <3>2. PICK v \in Seq(S), e \in S : u = Append(v, e)
      BY <3>1, SequenceEmptyOrAppend
    <3>3. Len(v) = n - 1
      <4>1. Len(u) = Len(v) + 1 /\ Len(v) \in Nat
        BY <3>2, AppendProperties, LenProperties
      <4> QED BY <2>2, <4>1
    <3>4. v \in G
      BY <1>2, <3>3
    <3> QED BY <3>2, <3>4
  <2> QED BY <2>1, <2>2
<1> HIDE DEF H
<1>3. Len(s) \in Nat
  BY LenProperties
<1>4. 0 .. Len(s) \subseteq H
  BY <1>1, <1>2, <1>3, UpTo
<1> QED BY <1>3, <1>4 DEF H

\* The calls of a queue begin with its head's.
LEMMA CallsOfHead ==
  ASSUME NEW s \in Seq(Entry), s # <<>>
  PROVE  CallsOf(s) = (IF HasMethods(Head(s)) THEN <<Head(s).call>> ELSE <<>>) \o CallsOf(Tail(s))
<1> DEFINE H(u) == IF HasMethods(Head(u)) THEN <<Head(u).call>> ELSE <<>>
           G == {u \in Seq(Entry) : u # <<>> => CallsOf(u) = H(u) \o CallsOf(Tail(u))}
<1>1. <<>> \in G
  BY EmptySeq
<1>2. ASSUME NEW u \in Seq(Entry), NEW e \in Entry, u \in G
      PROVE  Append(u, e) \in G
  <2>1. Append(u, e) \in Seq(Entry) /\ e.call \in Calls
    BY AppendProperties DEF Entry
  <2>2. /\ Head(Append(u, e)) = IF u = <<>> THEN e ELSE Head(u)
        /\ Tail(Append(u, e)) = IF u = <<>> THEN <<>> ELSE Append(Tail(u), e)
    BY HeadTailAppend
  <2>3. CallsOf(Append(u, e)) = IF HasMethods(e) THEN Append(CallsOf(u), e.call) ELSE CallsOf(u)
    BY CallsOfAppend
  <2>4. CASE u = <<>>
    <3>1. H(Append(u, e)) = IF HasMethods(e) THEN <<e.call>> ELSE <<>>
      BY <2>2, <2>4
    <3>2. CallsOf(Append(u, e)) = IF HasMethods(e) THEN Append(<<>>, e.call) ELSE <<>>
      BY <2>3, <2>4, CallsOfEmpty
    <3>3. <<>> \in Seq(Calls) /\ <<e.call>> \in Seq(Calls)
      BY <2>1, EmptySeq, AppendProperties
    <3>4. Append(<<>>, e.call) = <<e.call>> /\ <<e.call>> \o <<>> = <<e.call>> /\ <<>> \o <<>> = <<>>
      BY <3>3, ConcatEmptySeq, AppendIsConcat, <2>1
    <3>5. CallsOf(Tail(Append(u, e))) = <<>>
      BY <2>2, <2>4, CallsOfEmpty
    <3> HIDE DEF H
    <3> QED BY <2>1, <3>1, <3>2, <3>4, <3>5
  <2>5. CASE u # <<>>
    <3> DEFINE h == H(u)
               q == CallsOf(Tail(u))
    <3>1. Tail(u) \in Seq(Entry) /\ Head(u) \in Entry
      BY <2>5, HeadTailProperties
    <3>2. q \in Seq(Calls)
      BY <3>1, CallsOfComputed
    <3>3. h \in Seq(Calls)
      <4>1. Head(u).call \in Calls
        BY <3>1 DEF Entry
      <4>2. <<Head(u).call>> \in Seq(Calls) /\ <<>> \in Seq(Calls)
        BY <4>1, EmptySeq, AppendProperties
      <4> QED BY <4>2
    <3>4. H(Append(u, e)) = h
      BY <2>2, <2>5
    <3>5. CallsOf(Tail(Append(u, e))) = IF HasMethods(e) THEN Append(q, e.call) ELSE q
      BY <2>2, <2>5, <3>1, CallsOfAppend
    <3>6. CallsOf(u) = h \o q
      BY <1>2, <2>5
    <3> HIDE DEF h, q, H
    <3>7. h \o q \in Seq(Calls) /\ <<e.call>> \in Seq(Calls)
      BY <2>1, <3>2, <3>3, ConcatProperties, AppendProperties, EmptySeq
    <3>8. Append(h \o q, e.call) = h \o Append(q, e.call)
      <4>1. Append(h \o q, e.call) = (h \o q) \o <<e.call>>
        BY <2>1, <3>7, AppendIsConcat
      <4>2. Append(q, e.call) = q \o <<e.call>>
        BY <2>1, <3>2, AppendIsConcat
      <4>3. (h \o q) \o <<e.call>> = h \o (q \o <<e.call>>)
        BY <3>2, <3>3, <3>7, ConcatAssociative
      <4> QED BY <4>1, <4>2, <4>3
    <3> QED BY <2>1, <2>3, <3>4, <3>5, <3>6, <3>8
  <2> QED BY <2>4, <2>5
<1> HIDE DEF G
<1>3. Seq(Entry) \subseteq G
  BY <1>1, <1>2, SequenceInduction
<1> QED BY <1>3 DEF G

\* What an append adds.
LEMMA AppendMembers ==
  ASSUME NEW S, NEW s \in Seq(S), NEW e \in S
  PROVE  /\ Append(s, e) \in Seq(S)
         /\ Members(Append(s, e)) = Members(s) \cup {e}
         /\ Len(Append(s, e)) = Len(s) + 1
         /\ DOMAIN s = 1 .. Len(s) /\ Len(s) \in Nat
         /\ DOMAIN Append(s, e) = 1 .. Len(s) + 1
         /\ \A i \in DOMAIN s : Append(s, e)[i] = s[i]
         /\ Append(s, e)[Len(s) + 1] = e
<1> DEFINE a == Append(s, e)
<1>1. /\ a \in Seq(S)
      /\ Len(a) = Len(s) + 1
      /\ \A i \in 1 .. Len(s) : a[i] = s[i]
      /\ a[Len(s) + 1] = e
  BY AppendProperties
<1>2. DOMAIN s = 1 .. Len(s) /\ Len(s) \in Nat
  BY LenProperties
<1> HIDE DEF a
<1>3. DOMAIN a = 1 .. Len(s) + 1
  BY <1>1, LenProperties
<1>4. Members(a) = Members(s) \cup {e}
  BY <1>1, <1>2, <1>3 DEF Members
<1> USE DEF a
<1> QED BY <1>1, <1>2, <1>3, <1>4

LEMMA ConcatMembers ==
  ASSUME NEW S, NEW e \in S, NEW s \in Seq(S)
  PROVE  /\ <<e>> \o s \in Seq(S)
         /\ <<e>> \in Seq(S)
         /\ Len(<<e>> \o s) = Len(s) + 1
         /\ DOMAIN s = 1 .. Len(s) /\ Len(s) \in Nat
         /\ DOMAIN (<<e>> \o s) = 1 .. Len(s) + 1
         /\ (<<e>> \o s)[1] = e
         /\ \A i \in DOMAIN s : (<<e>> \o s)[i + 1] = s[i]
         /\ Members(<<e>> \o s) = {e} \cup Members(s)
<1> DEFINE a == <<e>> \o s
<1>1. <<e>> \in Seq(S) /\ Len(<<e>>) = 1 /\ <<e>>[1] = e
  BY EmptySeq, AppendProperties
<1>2. DOMAIN s = 1 .. Len(s) /\ Len(s) \in Nat
  BY LenProperties
<1>3. /\ a \in Seq(S)
      /\ Len(a) = 1 + Len(s)
      /\ \A i \in 1 .. 1 + Len(s) : a[i] = IF i <= 1 THEN <<e>>[i] ELSE s[i - 1]
  BY <1>1, ConcatProperties
<1> HIDE DEF a
<1>4. DOMAIN a = 1 .. Len(s) + 1
  BY <1>2, <1>3, LenProperties
<1>5. a[1] = e
  BY <1>1, <1>2, <1>3
<1>6. ASSUME NEW i \in DOMAIN s PROVE a[i + 1] = s[i]
  <2>1. i + 1 \in 1 .. 1 + Len(s) /\ ~(i + 1 <= 1) /\ (i + 1) - 1 = i
    BY <1>2
  <2> QED BY <1>3, <2>1
<1>7. Members(a) = {e} \cup Members(s)
  <2>1. ASSUME NEW i \in 1 .. Len(s) + 1 PROVE a[i] \in {e} \cup Members(s)
    <3>1. CASE i = 1
      BY <1>5, <3>1
    <3>2. CASE i # 1
      <4>1. i - 1 \in DOMAIN s /\ (i - 1) + 1 = i
        BY <1>2, <3>2
      <4> QED BY <1>6, <4>1 DEF Members
    <3> QED BY <3>1, <3>2
  <2>2. ASSUME NEW i \in DOMAIN s PROVE s[i] \in Members(a)
    <3>1. i + 1 \in DOMAIN a
      BY <1>2, <1>4
    <3> QED BY <1>6, <3>1 DEF Members
  <2>3. 1 \in DOMAIN a
    BY <1>2, <1>4
  <2> QED BY <1>4, <1>5, <2>1, <2>2, <2>3 DEF Members
<1> USE DEF a
<1> QED BY <1>1, <1>2, <1>3, <1>4, <1>5, <1>6, <1>7

-----------------------------------------------------------------------------
(* Frames.                                                                 *)

LEMMA PopProperties ==
  ASSUME NEW S, NEW s \in Seq(S), s # <<>>
  PROVE  /\ Len(s) \in Nat /\ Len(s) > 0 /\ DOMAIN s = 1 .. Len(s)
         /\ SubSeq(s, 1, Len(s) - 1) \in Seq(S)
         /\ Len(SubSeq(s, 1, Len(s) - 1)) = Len(s) - 1
         /\ DOMAIN SubSeq(s, 1, Len(s) - 1) = 1 .. Len(s) - 1
         /\ \A i \in 1 .. Len(s) - 1 : SubSeq(s, 1, Len(s) - 1)[i] = s[i]
         /\ s[Len(s)] \in S
<1>1. Len(s) \in Nat /\ Len(s) > 0 /\ DOMAIN s = 1 .. Len(s)
  BY EmptySeq, LenProperties
<1>2. \A i \in 1 .. Len(s) : s[i] \in S
  BY ElementOfSeq
<1> DEFINE N == Len(s) - 1
           p == SubSeq(s, 1, N)
<1>3. /\ p \in Seq(S)
      /\ Len(p) = IF 1 <= N THEN N - 1 + 1 ELSE 0
      /\ \A i \in 1 .. N - 1 + 1 : p[i] = s[1 + i - 1]
  BY <1>1, <1>2, SubSeqProperties
<1> HIDE DEF p
<1>4. Len(p) = N /\ \A i \in 1 .. N : p[i] = s[i]
  <2>1. N \in Nat
    BY <1>1
  <2> HIDE DEF N
  <2>2. \A i \in 1 .. N : 1 + i - 1 = i
    OBVIOUS
  <2>3. N - 1 + 1 = N
    BY <2>1
  <2> QED BY <1>3, <2>1, <2>2, <2>3
<1>5. DOMAIN p = 1 .. N
  BY <1>3, <1>4, LenProperties
<1> USE DEF p
<1> QED BY <1>1, <1>2, <1>3, <1>4, <1>5

\* A thread's frames after it entered a hooked entry once more.
Under(s) == [i \in DOMAIN s |-> [s[i] EXCEPT !.forwarded = TRUE]]

LEMMA EnterProperties ==
  ASSUME NEW s \in Seq(Frame), NEW f \in Frame
  PROVE  /\ Len(s) \in Nat /\ DOMAIN s = 1 .. Len(s)
         /\ Append(Under(s), f) \in Seq(Frame)
         /\ Len(Append(Under(s), f)) = Len(s) + 1
         /\ DOMAIN Append(Under(s), f) = 1 .. Len(s) + 1
         /\ \A i \in DOMAIN s : Append(Under(s), f)[i] = [s[i] EXCEPT !.forwarded = TRUE]
         /\ Append(Under(s), f)[Len(s) + 1] = f
<1>1. Len(s) \in Nat /\ DOMAIN s = 1 .. Len(s)
  BY LenProperties
<1>2. \A i \in 1 .. Len(s) : s[i] \in Frame
  BY ElementOfSeq
<1>3. \A i \in 1 .. Len(s) : [s[i] EXCEPT !.forwarded = TRUE] \in Frame
  BY <1>2 DEF Frame
<1>4. Under(s) \in [1 .. Len(s) -> Frame]
  BY <1>1, <1>3 DEF Under
<1>5. Under(s) \in Seq(Frame)
  BY <1>1, <1>4, SeqDef
<1>6. DOMAIN Under(s) = 1 .. Len(s)
  BY <1>1 DEF Under
<1>7. Len(Under(s)) = Len(s)
  BY <1>1, <1>5, <1>6, LenProperties
<1>8. \A i \in 1 .. Len(s) : Under(s)[i] = [s[i] EXCEPT !.forwarded = TRUE]
  BY <1>1 DEF Under
<1> HIDE DEF Under
<1>9. /\ Append(Under(s), f) \in Seq(Frame)
      /\ Len(Append(Under(s), f)) = Len(s) + 1
      /\ \A i \in 1 .. Len(s) : Append(Under(s), f)[i] = Under(s)[i]
      /\ Append(Under(s), f)[Len(s) + 1] = f
  BY <1>5, <1>7, AppendProperties
<1>10. DOMAIN Append(Under(s), f) = 1 .. Len(s) + 1
  BY <1>9, LenProperties
<1> QED BY <1>1, <1>8, <1>9, <1>10

\* The frames of a thread have their type.
LEMMA FrameTypes ==
  ASSUME TypeOK, NEW t \in Threads
  PROVE  /\ frames[t] \in Seq(Frame)
         /\ Len(frames[t]) \in Nat /\ DOMAIN frames[t] = 1 .. Len(frames[t])
         /\ \A i \in DOMAIN frames[t] :
              /\ frames[t][i] \in Frame
              /\ frames[t][i].call \in Calls
              /\ frames[t][i].generation \in Nat
              /\ frames[t][i].outer \in BOOLEAN
              /\ frames[t][i].capture \in Kinds
              /\ frames[t][i].forwarded \in BOOLEAN
              /\ frames[t][i].leaving \in BOOLEAN
<1>1. frames[t] \in Seq(Frame)
  BY DEF TypeOK
<1>2. Len(frames[t]) \in Nat /\ DOMAIN frames[t] = 1 .. Len(frames[t])
  BY <1>1, LenProperties
<1>3. \A i \in DOMAIN frames[t] : frames[t][i] \in Frame
  BY <1>1, <1>2, ElementOfSeq
<1> QED BY <1>1, <1>2, <1>3 DEF Frame

\* What entering adds to the frames of t.
EnterStep(t, c) ==
  \E f \in Frame :
    /\ f.call = c /\ f.generation = generation /\ f.outer = Outermost(t)
    /\ ~f.leaving
    /\ f.capture = "methods" => rnQueuedCount < Capacity /\ Outermost(t)
    /\ frames' = [frames EXCEPT ![t] = Append(Under(frames[t]), f)]
    /\ rnDepth' = [rnDepth EXCEPT ![t] = @ \/ Outermost(t)]

LEMMA Enters ==
  ASSUME TypeOK, NEW t \in Threads, NEW c \in Calls, OnEnter(t, c)
  PROVE  EnterStep(t, c)
<1>1. PICK capture \in IF rnQueuedCount < Capacity THEN Kinds ELSE {"none", "warning"} :
        LET f == [call |-> c, generation |-> generation, outer |-> Outermost(t),
                  capture |-> IF Outermost(t) THEN capture ELSE "none",
                  forwarded |-> FALSE, leaving |-> FALSE]
        IN  /\ frames' = [frames EXCEPT ![t] = Append(Under(frames[t]), f)]
            /\ rnDepth' = [rnDepth EXCEPT ![t] = @ \/ Outermost(t)]
  BY DEF OnEnter, Under
<1> DEFINE kind == IF Outermost(t) THEN capture ELSE "none"
           f == [call |-> c, generation |-> generation, outer |-> Outermost(t),
                 capture |-> kind, forwarded |-> FALSE, leaving |-> FALSE]
<1>2. capture \in Kinds /\ (capture = "methods" => rnQueuedCount < Capacity)
  BY <1>1 DEF Kinds
<1>3. kind \in Kinds
  BY <1>2 DEF Kinds
<1>4. generation \in Nat /\ Outermost(t) \in BOOLEAN
  BY DEF TypeOK, Outermost
<1>5. f \in Frame
  <2> HIDE DEF kind, Outermost
  <2> QED BY <1>3, <1>4 DEF Frame
<1>6. f.capture = "methods" => rnQueuedCount < Capacity /\ Outermost(t)
  BY <1>2
<1> QED BY <1>1, <1>5, <1>6 DEF EnterStep

LEMMA FramesChange ==
  ASSUME TypeOK, NEW t \in Threads, NEW s \in Seq(Frame), frames' = [frames EXCEPT ![t] = s]
  PROVE  /\ frames' \in [Threads -> Seq(Frame)]
         /\ frames'[t] = s
         /\ \A u \in Threads : u # t => frames'[u] = frames[u]
BY DEF TypeOK

LEMMA TargetTypes ==
  ASSUME TypeOK, Target
  PROVE  TypeOK'
<1>1. PICK t \in Threads :
        RegisterNatives(t) \/ Forward(t) \/ LeaveUnhooked(t) \/ Leave(t) \/ LeaveRef(t)
          \/ LeavePush(t)
  BY DEF Target
<1> DEFINE s == frames[t]
           p == SubSeq(s, 1, Len(s) - 1)
<1>2. /\ s \in Seq(Frame) /\ rnDepth \in [Threads -> BOOLEAN]
      /\ s # <<>> => /\ Top(t) \in Frame /\ Top(t).call \in Calls
                     /\ p \in Seq(Frame)
                     /\ Len(s) \in 1 .. Len(s) /\ Len(s) \in DOMAIN s
  <2>1. s \in Seq(Frame) /\ rnDepth \in [Threads -> BOOLEAN]
    BY FrameTypes DEF TypeOK
  <2>2. s # <<>> => s[Len(s)] \in Frame /\ p \in Seq(Frame)
                    /\ Len(s) \in Nat /\ Len(s) > 0 /\ DOMAIN s = 1 .. Len(s)
    BY <2>1, PopProperties
  <2> HIDE DEF s, p
  <2> QED BY <2>1, <2>2 DEF Top, Frame, s
<1>3. ASSUME NEW c \in Calls, OnEnter(t, c)
      PROVE  frames' \in [Threads -> Seq(Frame)] /\ rnDepth' \in [Threads -> BOOLEAN]
  <2>1. PICK f \in Frame :
          /\ frames' = [frames EXCEPT ![t] = Append(Under(frames[t]), f)]
          /\ rnDepth' = [rnDepth EXCEPT ![t] = @ \/ Outermost(t)]
    BY <1>3, Enters DEF EnterStep
  <2>2. Append(Under(s), f) \in Seq(Frame)
    BY <1>2, EnterProperties
  <2>3. frames' \in [Threads -> Seq(Frame)]
    BY <2>1, <2>2, FramesChange
  <2>4. Outermost(t) \in BOOLEAN
    BY DEF Outermost, TypeOK
  <2> HIDE DEF Outermost
  <2> QED BY <1>2, <2>1, <2>3, <2>4
<1>4. ASSUME s # <<>>, Pop(t)
      PROVE  frames' \in [Threads -> Seq(Frame)]
  <2>1. frames' = [frames EXCEPT ![t] = p]
    BY <1>4 DEF Pop
  <2> HIDE DEF p
  <2> QED BY <1>2, <1>4, <2>1, FramesChange
<1>5. ASSUME s # <<>>, NEW kind \in {"warning", "methods"}, Push(Top(t).call, kind)
      PROVE  rnPending' \in Seq(Entry)
  <2> DEFINE e == [call |-> Top(t).call, kind |-> kind]
  <2>1. e \in Entry
    BY <1>2, <1>5 DEF Entry
  <2>2. rnPending' = Append(rnPending, e)
    BY <1>5 DEF Push
  <2> HIDE DEF e
  <2> QED BY <2>1, <2>2, AppendProperties DEF TypeOK
<1> HIDE DEF s, p
<1> USE DEF TypeOK, captureVars, queueVars, mainVars, history
<1>6. CASE RegisterNatives(t)
  <2>1. calls + 1 \in Calls /\ calls' = calls + 1 /\ calls' \in 0 .. MaxCalls
    BY <1>6, NativesAssumption DEF RegisterNatives, Calls
  <2> QED BY <1>3, <1>6, <2>1 DEF RegisterNatives
<1>7. CASE Forward(t)
  <2>1. s # <<>>
    <3>1. Len(s) = 1
      BY <1>7 DEF Forward, s
    <3>2. ASSUME s = <<>> PROVE Len(s) = 0
      BY <3>2, EmptySeq
    <3> QED BY <3>1, <3>2
  <2> QED BY <1>2, <1>3, <1>7, <2>1 DEF Forward
<1>8. CASE LeaveUnhooked(t)
  <2>1. s # <<>> /\ Pop(t)
    BY <1>8 DEF LeaveUnhooked, s
  <2> QED BY <1>4, <1>8, <2>1 DEF LeaveUnhooked
<1>9. CASE Leave(t)
  <2>1. s # <<>> /\ Pop(t)
    BY <1>9 DEF Leave, s
  <2>2. rnPending' \in Seq(Entry)
    BY <1>5, <1>9, <2>1 DEF Leave
  <2> QED BY <1>4, <1>9, <2>1, <2>2 DEF Leave
<1>10. CASE LeaveRef(t)
  <2>1. s # <<>>
    BY <1>10 DEF LeaveRef, s
  <2> DEFINE g == [s EXCEPT ![Len(s)] = [@ EXCEPT !.leaving = TRUE]]
  <2>2. [s[Len(s)] EXCEPT !.leaving = TRUE] \in Frame
    BY <1>2, <2>1 DEF Top, Frame, s
  <2>3. g \in Seq(Frame)
    BY <1>2, <2>1, <2>2, ExceptSeq
  <2>4. frames' = [frames EXCEPT ![t] = g]
    BY <1>10 DEF LeaveRef, s
  <2> HIDE DEF g
  <2>5. frames' \in [Threads -> Seq(Frame)]
    BY <2>3, <2>4, FramesChange
  <2>6. refs' \in [Calls -> Nat]
    BY <1>2, <1>10, <2>1 DEF LeaveRef
  <2> QED BY <1>10, <2>5, <2>6 DEF LeaveRef
<1>11. CASE LeavePush(t)
  <2>1. s # <<>> /\ Pop(t) /\ Push(Top(t).call, "methods")
    BY <1>11 DEF LeavePush, s
  <2>2. rnPending' \in Seq(Entry)
    BY <1>5, <2>1
  <2> QED BY <1>2, <1>4, <1>11, <2>1, <2>2 DEF LeavePush
<1> QED BY <1>1, <1>6, <1>7, <1>8, <1>9, <1>10, <1>11

LEMMA HandlerTypes ==
  ASSUME TypeOK, RefsInv, Handler
  PROVE  TypeOK'
<1>1. rnPending # <<>> => /\ Head(rnPending) \in Entry /\ Head(rnPending).call \in Calls
                          /\ Tail(rnPending) \in Seq(Entry)
  <2>1. rnPending # <<>> => Head(rnPending) \in Entry /\ Tail(rnPending) \in Seq(Entry)
    BY HeadTailProperties DEF TypeOK
  <2> QED BY <2>1 DEF Entry
<1>2. main = "deliver" => held \in Calls
  BY DEF RefsInv
<1>3. <<>> \in Seq(Calls) /\ (main = "deliver" => Append(rnBuffer, held) \in Seq(Calls))
  BY <1>2, EmptySeq, AppendProperties DEF TypeOK
<1>4. ASSUME Begin PROVE requests' \in 0 .. MaxRequests
  BY <1>4, NativesAssumption DEF Begin, TypeOK
<1> USE DEF TypeOK, captureVars, queueVars, mainVars, history
<1>5. CASE RnEnable
  BY <1>4, <1>5 DEF RnEnable
<1>6. CASE RnDisable
  <2>1. late' \subseteq Calls
    <3>1. ASSUME NEW t \in Threads, frames[t] # <<>> PROVE Top(t).call \in Calls
      <4>1. frames[t][Len(frames[t])] \in Frame
        BY <3>1, PopProperties
      <4> QED BY <4>1 DEF Top, Frame
    <3> QED BY <1>6, <3>1 DEF RnDisable
  <2> QED BY <1>4, <1>6, <2>1 DEF RnDisable
<1>7. CASE ClearPending
  <2>1. rnPending' \in Seq(Entry)
    BY <1>1, <1>7 DEF ClearPending
  <2>2. ASSUME HasMethods(Head(rnPending)) PROVE refs' \in [Calls -> Nat]
    <3> DEFINE c == Head(rnPending).call
    <3>1. refs' = [refs EXCEPT ![c] = @ - 1]
      BY <1>7, <2>2 DEF ClearPending, Unref
    <3>2. refs[c] = 1
      <4>1. CallsOf(rnPending) = <<c>> \o CallsOf(Tail(rnPending))
        BY <1>7, <2>2, CallsOfHead DEF ClearPending
      <4>2. CallsOf(Tail(rnPending)) \in Seq(Calls) /\ c \in Calls
        BY <1>1, <1>7, CallsOfComputed DEF ClearPending
      <4>3. CallsOf(rnPending) \in Seq(Calls)
        BY CallsOfComputed
      <4>4. Referring = CallsOf(rnPending)
        BY <1>7, <4>3, ConcatEmptySeq DEF ClearPending, Referring
      <4>5. c \in Members(Referring)
        BY <4>1, <4>2, <4>4, ConcatMembers
      <4> QED BY <4>2, <4>5 DEF RefsInv
    <3>3. c \in Calls
      BY <1>1, <1>7 DEF ClearPending
    <3> HIDE DEF c
    <3> QED BY <3>1, <3>2, <3>3
  <2>3. refs' \in [Calls -> Nat]
    BY <1>7, <2>2 DEF ClearPending
  <2> QED BY <1>7, <2>1, <2>3 DEF ClearPending
<1>8. CASE ClearDone
  BY <1>3, <1>8 DEF ClearDone
<1>9. CASE RnList
  BY <1>4, <1>9 DEF RnList
<1>10. CASE FlushShift
  BY <1>1, <1>10 DEF FlushShift
<1>11. CASE FlushDeliver
  <2>1. refs[held] = 1
    <3>1. CallsOf(rnPending) \in Seq(Calls)
      BY CallsOfComputed
    <3>2. Referring = <<held>> \o CallsOf(rnPending)
      BY <1>11 DEF FlushDeliver, Referring
    <3>3. held \in Calls
      BY <1>2, <1>11 DEF FlushDeliver
    <3>4. held \in Members(Referring)
      BY <3>1, <3>2, <3>3, ConcatMembers
    <3> QED BY <3>3, <3>4 DEF RefsInv
  <2>2. refs' \in [Calls -> Nat]
    BY <1>2, <1>11, <2>1 DEF FlushDeliver, Unref
  <2> QED BY <1>3, <1>11, <2>2 DEF FlushDeliver
<1>12. CASE FlushDone
  BY <1>3, <1>12 DEF FlushDone
<1> QED BY <1>5, <1>6, <1>7, <1>8, <1>9, <1>10, <1>11, <1>12 DEF Handler

-----------------------------------------------------------------------------
(* The invariant of the frames.                                            *)

\* A step of one thread keeps what holds of the others.
LEMMA FramesStep ==
  ASSUME TypeOK, TypeOK', FramesInv, NEW t \in Threads,
         UNCHANGED <<rnHookEnabled, generation>>,
         \A u \in Threads : u # t => frames'[u] = frames[u] /\ rnDepth'[u] = rnDepth[u],
         calls' = calls \/ calls' = calls + 1,
         Nested(frames[t])', DepthKnown(t)',
         \A j \in DOMAIN frames'[t] :
           \/ calls' = calls + 1 /\ frames'[t][j].call = calls'
           \/ \E i \in DOMAIN frames[t] : frames'[t][j].call = frames[t][i].call,
         \/ captured' = captured
         \/ \E i \in DOMAIN frames[t] : captured' = captured \cup {frames[t][i].call},
         \A j \in DOMAIN frames'[t] :
           Open(frames[t][j])' => frames'[t][j].call \notin captured'
  PROVE  FramesInv'
<1>1. calls \in Nat /\ calls' \in Nat
  BY NativesAssumption DEF TypeOK
<1>2. \A u \in Threads : \A i \in DOMAIN frames[u] :
        frames[u][i].call \in Nat /\ frames[u][i].call <= calls
  <2>1. \A u \in Threads : \A i \in DOMAIN frames[u] : frames[u][i].call \in Nat
    BY FrameTypes DEF Calls
  <2> QED BY <2>1 DEF FramesInv, Nested
<1>3. ASSUME NEW u \in Threads, u # t
      PROVE  Nested(frames[u])' /\ DepthKnown(u)'
  <2>1. Nested(frames[u]) /\ DepthKnown(u)
    BY DEF FramesInv
  <2>2. frames'[u] = frames[u] /\ rnDepth'[u] = rnDepth[u]
    BY <1>3
  <2>3. \A i \in DOMAIN frames[u] : frames[u][i].call <= calls'
    BY <1>1, <1>2
  <2> QED BY <2>1, <2>2, <2>3 DEF Nested, DepthKnown, Attached
<1>4. ASSUME NEW u \in Threads, u # t, NEW i \in DOMAIN frames[u], NEW j \in DOMAIN frames'[t]
      PROVE  frames[u][i].call # frames'[t][j].call
  <2>1. CASE calls' = calls + 1 /\ frames'[t][j].call = calls'
    BY <1>1, <1>2, <2>1
  <2>2. CASE \E k \in DOMAIN frames[t] : frames'[t][j].call = frames[t][k].call
    BY <1>4, <2>2 DEF FramesInv
  <2> QED BY <2>1, <2>2
<1>5. ASSUME NEW u \in Threads, NEW v \in Threads,
             NEW i \in DOMAIN frames'[u], NEW j \in DOMAIN frames'[v],
             frames'[u][i].call = frames'[v][j].call
      PROVE  u = v
  <2>1. CASE u # t /\ v # t
    BY <1>5, <2>1 DEF FramesInv
  <2>2. CASE u = t /\ v # t
    BY <1>4, <1>5, <2>2
  <2>3. CASE u # t /\ v = t
    BY <1>4, <1>5, <2>3
  <2> QED BY <2>1, <2>2, <2>3
<1>6. ASSUME NEW u \in Threads, u # t, NEW i \in DOMAIN frames'[u], Open(frames[u][i])'
      PROVE  frames'[u][i].call \notin captured'
  <2>1. frames'[u] = frames[u] /\ Open(frames[u][i])
    BY <1>6 DEF Open, Live, Attached
  <2>2. frames[u][i].call \notin captured
    BY <1>6, <2>1 DEF FramesInv
  <2>3. \A k \in DOMAIN frames[t] : frames[t][k].call # frames[u][i].call
    BY <1>6, <2>1 DEF FramesInv
  <2> QED BY <2>1, <2>2, <2>3
<1>7. \A c \in captured' : c <= calls'
  <2>1. \A c \in captured : c \in Nat /\ c <= calls
    BY DEF FramesInv, TypeOK, Calls
  <2> QED BY <1>1, <1>2, <2>1
<1>8. \A u \in Threads : Nested(frames[u])' /\ DepthKnown(u)'
  BY <1>3
<1>9. \A u \in Threads : \A i \in DOMAIN frames'[u] :
        Open(frames[u][i])' => frames'[u][i].call \notin captured'
  BY <1>6
<1> QED BY <1>5, <1>7, <1>8, <1>9 DEF FramesInv

LEMMA EnterFrames ==
  ASSUME TypeOK, TypeOK', FramesInv, NEW t \in Threads, NEW c \in Calls, EnterStep(t, c),
         UNCHANGED <<rnHookEnabled, generation, captured>>,
         calls' = calls \/ calls' = calls + 1,
         c <= calls',
         Len(frames[t]) <= 1,
         \A i \in DOMAIN frames[t] : frames[t][i].call = c /\ ~frames[t][i].leaving,
         frames[t] = <<>> => c = calls',
         frames[t] = <<>> => calls' = calls + 1,
         c \notin captured
  PROVE  FramesInv'
<1>1. PICK f \in Frame :
        /\ f.call = c /\ f.generation = generation /\ f.outer = Outermost(t)
        /\ ~f.leaving
        /\ frames' = [frames EXCEPT ![t] = Append(Under(frames[t]), f)]
        /\ rnDepth' = [rnDepth EXCEPT ![t] = @ \/ Outermost(t)]
  BY DEF EnterStep
<1> DEFINE s == frames[t]
           n == Append(Under(s), f)
<1>2. /\ s \in Seq(Frame) /\ Len(s) \in Nat /\ DOMAIN s = 1 .. Len(s)
      /\ \A i \in DOMAIN s : s[i] \in Frame /\ s[i].call \in Calls /\ s[i].generation \in Nat
                             /\ s[i].outer \in BOOLEAN /\ s[i].leaving \in BOOLEAN
  BY FrameTypes
<1>3. /\ n \in Seq(Frame) /\ Len(n) = Len(s) + 1 /\ DOMAIN n = 1 .. Len(s) + 1
      /\ \A i \in DOMAIN s : n[i] = [s[i] EXCEPT !.forwarded = TRUE]
      /\ n[Len(s) + 1] = f
  BY <1>2, EnterProperties
<1> HIDE DEF n
<1>4. \A i \in DOMAIN s : /\ n[i].call = s[i].call /\ n[i].generation = s[i].generation
                          /\ n[i].outer = s[i].outer /\ n[i].leaving = s[i].leaving
                          /\ n[i].forwarded
  BY <1>2, <1>3 DEF Frame
<1>5. frames'[t] = n /\ (\A u \in Threads : u # t => frames'[u] = frames[u])
  BY <1>1, <1>3, FramesChange DEF n
<1>6. /\ rnDepth'[t] = (rnDepth[t] \/ Outermost(t))
      /\ \A u \in Threads : u # t => rnDepth'[u] = rnDepth[u]
  BY <1>1 DEF TypeOK
<1>7. generation \in Nat /\ rnHookEnabled \in BOOLEAN /\ rnDepth[t] \in BOOLEAN
  BY DEF TypeOK
<1>8. Nested(s) /\ DepthKnown(t)
  BY DEF FramesInv
<1>9. Outermost(t) => rnHookEnabled /\ \A i \in DOMAIN s : s[i].outer => s[i].generation < generation
  <2>1. ASSUME Outermost(t), NEW i \in DOMAIN s, s[i].outer PROVE s[i].generation < generation
    <3>1. s[i].generation # generation
      BY <1>8, <2>1 DEF Outermost, DepthKnown, Attached
    <3>2. s[i].generation <= generation
      BY <1>8 DEF Nested
    <3> QED BY <1>2, <1>7, <3>1, <3>2
  <2> QED BY <2>1 DEF Outermost
<1>10. Nested(frames[t])'
  <2>1. Len(n) <= 2
    BY <1>2, <1>3
  <2>2. ASSUME NEW i \in DOMAIN n
        PROVE  /\ n[i].call <= calls'
               /\ n[i].generation <= generation
               /\ ~n[i].leaving
    BY <1>1, <1>2, <1>3, <1>4, <1>7, <1>8 DEF Nested
  <2>3. ASSUME NEW i \in DOMAIN n, NEW j \in DOMAIN n, i < j
        PROVE  /\ n[i].forwarded
               /\ n[i].call = n[j].call
               /\ n[i].generation <= n[j].generation
               /\ n[i].outer /\ n[j].outer => n[i].generation < n[j].generation
    <3>1. i \in DOMAIN s /\ j = Len(s) + 1
      BY <1>2, <1>3, <2>3
    <3>2. n[j] = f /\ n[i].call = c
      BY <1>3, <1>4, <3>1
    <3>3. n[i].generation <= generation
      BY <2>2
    <3>4. n[i].outer /\ f.outer => n[i].generation < generation
      BY <1>1, <1>4, <1>9, <3>1
    <3>5. n[i].forwarded
      BY <1>4, <3>1
    <3> QED BY <1>1, <3>2, <3>3, <3>4, <3>5
  <2> QED BY <1>5, <2>1, <2>2, <2>3 DEF Nested
<1>11. DepthKnown(t)'
  <2>1. Len(s) + 1 \in DOMAIN n
    BY <1>2, <1>3
  <2>2. CASE Outermost(t)
    <3>1. n[Len(s) + 1].outer /\ n[Len(s) + 1].generation = generation /\ rnHookEnabled
      BY <1>1, <1>3, <1>9, <2>2
    <3> QED BY <1>5, <1>6, <2>1, <2>2, <3>1 DEF DepthKnown, Attached
  <2>3. CASE ~Outermost(t)
    <3>1. (\E i \in DOMAIN n : n[i].outer /\ rnHookEnabled /\ n[i].generation = generation)
            <=> (\E i \in DOMAIN s : s[i].outer /\ rnHookEnabled /\ s[i].generation = generation)
      BY <1>1, <1>2, <1>3, <1>4, <2>3
    <3>2. rnDepth'[t] = rnDepth[t]
      BY <1>6, <1>7, <2>3
    <3> QED BY <1>5, <1>8, <3>1, <3>2 DEF DepthKnown, Attached
  <2> QED BY <2>2, <2>3
<1>12. ASSUME NEW j \in DOMAIN n
       PROVE  \/ calls' = calls + 1 /\ n[j].call = calls'
              \/ \E i \in DOMAIN s : n[j].call = s[i].call
  <2>1. CASE j \in DOMAIN s
    BY <1>4, <2>1
  <2>2. CASE j = Len(s) + 1
    <3>1. n[j].call = c
      BY <1>1, <1>3, <2>2
    <3>2. CASE s = <<>>
      BY <3>1, <3>2
    <3>3. CASE s # <<>>
      <4>1. 1 \in DOMAIN s
        BY <1>2, <3>3, EmptySeq
      <4> QED BY <3>1, <4>1
    <3> QED BY <3>2, <3>3
  <2> QED BY <1>2, <1>3, <2>1, <2>2
<1>13. ASSUME NEW j \in DOMAIN n, Open(frames[t][j])'
       PROVE  n[j].call \notin captured
  <2>1. CASE j \in DOMAIN s
    <3>1. Live(s[j])
      BY <1>4, <1>5, <1>13, <2>1 DEF Open, Live, Attached
    <3> QED BY <1>4, <2>1, <3>1 DEF FramesInv, Open
  <2>2. CASE j = Len(s) + 1
    BY <1>1, <1>3, <2>2
  <2> QED BY <1>2, <1>3, <2>1, <2>2
<1>14. \A j \in DOMAIN frames'[t] : Open(frames[t][j])' => frames'[t][j].call \notin captured'
  BY <1>5, <1>13
<1>15. \A j \in DOMAIN frames'[t] :
         \/ calls' = calls + 1 /\ frames'[t][j].call = calls'
         \/ \E i \in DOMAIN frames[t] : frames'[t][j].call = frames[t][i].call
  BY <1>5, <1>12
<1> HIDE DEF s
<1> QED BY <1>5, <1>6, <1>10, <1>11, <1>14, <1>15, FramesStep

\* What is under a capture was overtaken by it.
LEMMA UnderLive ==
  ASSUME TypeOK, FramesInv, NEW t \in Threads, frames[t] # <<>>, Live(Top(t)),
         NEW i \in DOMAIN frames[t], i < Len(frames[t])
  PROVE  ~Live(frames[t][i])
<1> DEFINE s == frames[t]
           N == Len(s)
<1>1. /\ s \in Seq(Frame) /\ Len(s) \in Nat /\ DOMAIN s = 1 .. Len(s)
      /\ \A j \in DOMAIN s : s[j].generation \in Nat /\ s[j].outer \in BOOLEAN
                             /\ s[j].leaving \in BOOLEAN
  BY FrameTypes
<1>2. N \in DOMAIN s /\ Top(t) = s[N] /\ Nested(s)
  BY <1>1, PopProperties DEF Top, FramesInv
<1>3. generation \in Nat
  BY DEF TypeOK
<1>4. s[N].outer /\ ~s[i].leaving
  BY <1>1, <1>2 DEF Live, Nested
<1>5. s[i].outer => s[i].generation < s[N].generation
  BY <1>2, <1>4 DEF Nested
<1>6. s[N].generation <= generation
  BY <1>2 DEF Nested
<1>7. s[i].outer => s[i].generation # generation
  BY <1>1, <1>2, <1>3, <1>5, <1>6
<1> QED BY <1>4, <1>7 DEF Live, Attached

LEMMA PopFrames ==
  ASSUME TypeOK, TypeOK', FramesInv, NEW t \in Threads, frames[t] # <<>>, Pop(t),
         UNCHANGED <<rnHookEnabled, generation, calls>>,
         \/ /\ rnDepth' = rnDepth
            /\ captured' = captured
            /\ ~(Top(t).outer /\ Attached(Top(t)))
         \/ /\ rnDepth' = [rnDepth EXCEPT ![t] = FALSE]
            /\ Live(Top(t))
            /\ captured' = captured \/ captured' = captured \cup {Top(t).call}
  PROVE  FramesInv'
<1> DEFINE s == frames[t]
           N == Len(s)
           p == SubSeq(s, 1, N - 1)
<1>1. /\ s \in Seq(Frame) /\ Len(s) \in Nat /\ DOMAIN s = 1 .. Len(s)
      /\ \A i \in DOMAIN s : s[i] \in Frame /\ s[i].call \in Calls /\ s[i].generation \in Nat
                             /\ s[i].outer \in BOOLEAN /\ s[i].leaving \in BOOLEAN
  BY FrameTypes
<1>2. /\ N > 0 /\ p \in Seq(Frame) /\ Len(p) = N - 1 /\ DOMAIN p = 1 .. N - 1
      /\ \A i \in 1 .. N - 1 : p[i] = s[i]
  BY <1>1, PopProperties
<1>3. Top(t) = s[N]
  BY DEF Top
<1>4. frames' = [frames EXCEPT ![t] = p]
  BY DEF Pop
<1> HIDE DEF p
<1>5. frames'[t] = p /\ \A u \in Threads : u # t => frames'[u] = frames[u]
  BY <1>2, <1>4, FramesChange
<1>6. Nested(s) /\ DepthKnown(t)
  BY DEF FramesInv
<1>7. \A u \in Threads : u # t => rnDepth'[u] = rnDepth[u]
  BY DEF TypeOK
<1>8. \A i \in DOMAIN p : i \in DOMAIN s /\ i < N /\ p[i] = s[i] /\ N \in DOMAIN s
  BY <1>1, <1>2
<1>9. generation \in Nat /\ rnHookEnabled \in BOOLEAN /\ rnDepth[t] \in BOOLEAN
  BY DEF TypeOK
<1>10. Nested(frames[t])'
  <2>1. Len(p) <= 2
    BY <1>1, <1>2, <1>6 DEF Nested
  <2>2. \A i \in DOMAIN p : p[i].call <= calls /\ p[i].generation <= generation /\ ~p[i].leaving
    BY <1>1, <1>6, <1>8 DEF Nested
  <2>3. \A i, j \in DOMAIN p : i < j =>
          /\ p[i].forwarded
          /\ p[i].call = p[j].call
          /\ p[i].generation <= p[j].generation
          /\ p[i].outer /\ p[j].outer => p[i].generation < p[j].generation
    BY <1>6, <1>8 DEF Nested
  <2> QED BY <1>5, <2>1, <2>2, <2>3 DEF Nested
<1>11. ASSUME Live(Top(t)), NEW i \in DOMAIN p
       PROVE  ~(p[i].outer /\ rnHookEnabled /\ p[i].generation = generation) /\ ~p[i].leaving
  <2>1. ~Live(p[i])
    BY <1>8, <1>11, UnderLive
  <2> QED BY <2>1 DEF Live, Attached
<1>12. DepthKnown(t)'
  <2>1. CASE rnDepth' = rnDepth /\ ~(Top(t).outer /\ Attached(Top(t)))
    <3>1. (\E i \in DOMAIN p : p[i].outer /\ rnHookEnabled /\ p[i].generation = generation)
            <=> (\E i \in DOMAIN s : s[i].outer /\ rnHookEnabled /\ s[i].generation = generation)
      <4>1. ~(s[N].outer /\ rnHookEnabled /\ s[N].generation = generation)
        BY <1>3, <2>1 DEF Attached
      <4>2. \A i \in DOMAIN s : i = N \/ i \in DOMAIN p
        BY <1>1, <1>2
      <4> QED BY <1>8, <4>1, <4>2
    <3> QED BY <1>5, <1>6, <2>1, <3>1 DEF DepthKnown, Attached
  <2>2. CASE rnDepth' = [rnDepth EXCEPT ![t] = FALSE] /\ Live(Top(t))
    <3>1. ~rnDepth'[t]
      BY <2>2 DEF TypeOK
    <3> QED BY <1>5, <1>11, <2>2, <3>1 DEF DepthKnown, Attached
  <2> QED BY <2>1, <2>2
<1>13. ASSUME NEW j \in DOMAIN p, Open(frames[t][j])'
       PROVE  p[j].call \notin captured'
  <2>1. j \in DOMAIN s /\ p[j] = s[j] /\ s[j].forwarded
    BY <1>6, <1>8 DEF Nested
  <2>2. p[j].leaving \/ (p[j].outer /\ rnHookEnabled /\ p[j].generation = generation)
    BY <1>5, <1>13, <2>1 DEF Open, Live, Attached
  <2>3. captured' = captured
    BY <1>11, <2>2
  <2>4. Live(s[j])
    BY <2>1, <2>2 DEF Live, Attached
  <2> QED BY <2>1, <2>3, <2>4 DEF FramesInv, Open
<1>14. \A j \in DOMAIN frames'[t] : Open(frames[t][j])' => frames'[t][j].call \notin captured'
  BY <1>5, <1>13
<1>15. \A j \in DOMAIN frames'[t] : \E i \in DOMAIN frames[t] : frames'[t][j].call = frames[t][i].call
  BY <1>5, <1>8
<1>16. \/ captured' = captured
       \/ \E i \in DOMAIN frames[t] : captured' = captured \cup {frames[t][i].call}
  <2>1. N \in DOMAIN s
    BY <1>1, <1>2
  <2> QED BY <1>3, <2>1
<1> HIDE DEF s, N
<1> QED BY <1>5, <1>7, <1>10, <1>12, <1>14, <1>15, <1>16, FramesStep

LEMMA RefFrames ==
  ASSUME TypeOK, TypeOK', FramesInv, NEW t \in Threads, LeaveRef(t)
  PROVE  FramesInv'
<1> DEFINE s == frames[t]
           N == Len(s)
           g == [s EXCEPT ![N] = [@ EXCEPT !.leaving = TRUE]]
<1>1. /\ s # <<>> /\ ~Top(t).leaving /\ Attached(Top(t)) /\ Top(t).outer
      /\ Top(t).capture = "methods"
      /\ frames' = [frames EXCEPT ![t] = g]
      /\ UNCHANGED <<rnHookEnabled, generation, rnDepth, captured, calls>>
  BY DEF LeaveRef, captureVars, history
<1>2. /\ s \in Seq(Frame) /\ Len(s) \in Nat /\ DOMAIN s = 1 .. Len(s)
      /\ \A i \in DOMAIN s : s[i] \in Frame /\ s[i].leaving \in BOOLEAN
  BY FrameTypes
<1>3. N > 0 /\ N \in DOMAIN s /\ Top(t) = s[N]
  BY <1>1, <1>2, PopProperties DEF Top
<1>4. [s[N] EXCEPT !.leaving = TRUE] \in Frame
  BY <1>2, <1>3 DEF Frame
<1>5. g \in Seq(Frame) /\ Len(g) = N /\ DOMAIN g = DOMAIN s
  BY <1>2, <1>3, <1>4, ExceptSeq
<1>6. \A i \in DOMAIN s : /\ g[i].call = s[i].call /\ g[i].generation = s[i].generation
                          /\ g[i].outer = s[i].outer /\ g[i].capture = s[i].capture
                          /\ g[i].forwarded = s[i].forwarded
                          /\ g[i].leaving => i = N \/ s[i].leaving
  BY <1>2, <1>3 DEF Frame
<1> HIDE DEF g
<1>7. frames'[t] = g /\ (\A u \in Threads : u # t => frames'[u] = frames[u])
  BY <1>1, <1>5, FramesChange
<1>8. Nested(s) /\ DepthKnown(t)
  BY DEF FramesInv
<1>9. Nested(frames[t])'
  <2>1. Len(g) <= 2
    BY <1>5, <1>8 DEF Nested
  <2>2. ASSUME NEW i \in DOMAIN g
        PROVE  /\ g[i].call <= calls
               /\ g[i].generation <= generation
               /\ g[i].leaving => i = Len(g) /\ g[i].outer /\ g[i].capture = "methods"
    BY <1>1, <1>3, <1>5, <1>6, <1>8 DEF Nested
  <2>3. \A i, j \in DOMAIN g : i < j =>
          /\ g[i].forwarded
          /\ g[i].call = g[j].call
          /\ g[i].generation <= g[j].generation
          /\ g[i].outer /\ g[j].outer => g[i].generation < g[j].generation
    BY <1>5, <1>6, <1>8 DEF Nested
  <2> QED BY <1>1, <1>7, <2>1, <2>2, <2>3 DEF Nested
<1>10. DepthKnown(t)'
  BY <1>1, <1>5, <1>6, <1>7, <1>8 DEF DepthKnown, Attached
<1>11. ASSUME NEW j \in DOMAIN g, Open(frames[t][j])'
       PROVE  g[j].call \notin captured
  <2>1. j \in DOMAIN s /\ Open(s[j])
    BY <1>1, <1>3, <1>5, <1>6, <1>7, <1>11 DEF Open, Live, Attached
  <2> QED BY <1>6, <2>1 DEF FramesInv
<1>12. \A j \in DOMAIN frames'[t] : Open(frames[t][j])' => frames'[t][j].call \notin captured'
  BY <1>1, <1>7, <1>11
<1>13. \A j \in DOMAIN frames'[t] : \E i \in DOMAIN frames[t] : frames'[t][j].call = frames[t][i].call
  BY <1>5, <1>6, <1>7
<1> HIDE DEF s, N
<1> QED BY <1>1, <1>7, <1>9, <1>10, <1>12, <1>13, FramesStep

LEMMA TargetFrames ==
  ASSUME TypeOK, TypeOK', FramesInv, Target
  PROVE  FramesInv'
<1>1. PICK t \in Threads :
        RegisterNatives(t) \/ Forward(t) \/ LeaveUnhooked(t) \/ Leave(t) \/ LeaveRef(t)
          \/ LeavePush(t)
  BY DEF Target
<1>2. /\ frames[t] \in Seq(Frame) /\ Len(frames[t]) \in Nat
      /\ DOMAIN frames[t] = 1 .. Len(frames[t])
      /\ \A i \in DOMAIN frames[t] : /\ frames[t][i].call \in Calls
                                     /\ frames[t][i].leaving \in BOOLEAN
                                     /\ frames[t][i].generation \in Nat
                                     /\ frames[t][i].outer \in BOOLEAN
  BY FrameTypes
<1>3. calls \in Nat
  BY NativesAssumption DEF TypeOK
<1>4. CASE RegisterNatives(t)
  <2>1. calls + 1 \in Calls /\ calls' = calls + 1
    BY <1>4, NativesAssumption DEF RegisterNatives, Calls, TypeOK
  <2>2. EnterStep(t, calls + 1)
    BY <1>4, <2>1, Enters DEF RegisterNatives
  <2>3. frames[t] = <<>> /\ UNCHANGED <<rnHookEnabled, generation, captured>>
    BY <1>4 DEF RegisterNatives, history
  <2>4. Len(frames[t]) = 0 /\ DOMAIN frames[t] = {}
    BY <2>3, EmptySeq
  <2>5. calls + 1 \notin captured
    <3>1. \A c \in captured : c \in Nat /\ c <= calls
      BY DEF FramesInv, TypeOK, Calls
    <3> QED BY <1>3, <3>1
  <2> QED BY <1>3, <2>1, <2>2, <2>3, <2>4, <2>5, EnterFrames
<1>5. CASE Forward(t)
  <2>1. Len(frames[t]) = 1 /\ DOMAIN frames[t] = {1} /\ Top(t) = frames[t][1]
    BY <1>2, <1>5 DEF Forward, Top
  <2>2. Top(t).call \in Calls /\ ~Top(t).leaving
    BY <1>2, <1>5, <2>1 DEF Forward
  <2>3. EnterStep(t, Top(t).call)
    BY <1>5, <2>2, Enters DEF Forward
  <2>4. UNCHANGED <<rnHookEnabled, generation, captured, calls>>
    BY <1>5 DEF Forward, history
  <2>5. frames[t] # <<>>
    <3>1. ASSUME frames[t] = <<>> PROVE Len(frames[t]) = 0
      BY <3>1, EmptySeq
    <3> QED BY <2>1, <3>1
  <2>6. Top(t).call <= calls'
    BY <2>1, <2>4 DEF FramesInv, Nested
  <2>7. Top(t).call \notin captured
    BY <1>5, <2>1 DEF Forward, FramesInv, Open
  <2>8. \A i \in DOMAIN frames[t] : frames[t][i].call = Top(t).call /\ ~frames[t][i].leaving
    BY <2>1, <2>2
  <2>9. Len(frames[t]) <= 1
    BY <2>1
  <2> QED BY <2>2, <2>3, <2>4, <2>5, <2>6, <2>7, <2>8, <2>9, EnterFrames
<1>6. CASE LeaveUnhooked(t)
  <2>1. /\ frames[t] # <<>> /\ Pop(t) /\ ~(Top(t).outer /\ Attached(Top(t)))
        /\ UNCHANGED <<rnHookEnabled, generation, calls, rnDepth, captured>>
    BY <1>6 DEF LeaveUnhooked, captureVars, history
  <2> QED BY <2>1, PopFrames
<1>7. CASE Leave(t)
  <2>1. /\ frames[t] # <<>> /\ Pop(t) /\ Live(Top(t))
        /\ rnDepth' = [rnDepth EXCEPT ![t] = FALSE]
        /\ UNCHANGED <<rnHookEnabled, generation, calls, captured>>
    BY <1>7 DEF Leave, Live, history
  <2> QED BY <2>1, PopFrames
<1>8. CASE LeavePush(t)
  <2>1. /\ frames[t] # <<>> /\ Pop(t) /\ Live(Top(t))
        /\ rnDepth' = [rnDepth EXCEPT ![t] = FALSE]
        /\ captured' = captured \cup {Top(t).call}
        /\ UNCHANGED <<rnHookEnabled, generation, calls>>
    BY <1>8 DEF LeavePush, Live
  <2> QED BY <2>1, PopFrames
<1>9. CASE LeaveRef(t)
  BY <1>9, RefFrames
<1> QED BY <1>1, <1>4, <1>5, <1>6, <1>7, <1>8, <1>9

LEMMA HandlerFrames ==
  ASSUME TypeOK, FramesInv, Handler
  PROVE  FramesInv'
<1>1. /\ generation \in Nat /\ rnDepth \in [Threads -> BOOLEAN]
      /\ \A t \in Threads : \A i \in DOMAIN frames[t] : frames[t][i].generation \in Nat
  BY FrameTypes DEF TypeOK
<1>2. CASE UNCHANGED <<frames, rnHookEnabled, generation, rnDepth, captured, calls>>
  BY <1>2 DEF FramesInv, Nested, DepthKnown, Open, Live, Attached
<1>3. CASE RnEnable
  <2>1. /\ ~rnHookEnabled /\ generation' = generation + 1
        /\ UNCHANGED <<frames, rnDepth, captured, calls>>
    BY <1>3 DEF RnEnable, history
  <2>2. \A t \in Threads : \A i \in DOMAIN frames[t] : frames[t][i].generation <= generation
    BY DEF FramesInv, Nested
  <2>3. \A t \in Threads : \A i \in DOMAIN frames[t] :
          frames[t][i].generation <= generation' /\ frames[t][i].generation # generation'
    BY <1>1, <2>1, <2>2
  <2>4. \A t \in Threads : ~rnDepth[t]
    BY <2>1 DEF FramesInv, DepthKnown, Attached
  <2>5. \A t \in Threads : Nested(frames[t])'
    BY <2>1, <2>3 DEF FramesInv, Nested
  <2>6. \A t \in Threads : DepthKnown(t)'
    BY <2>1, <2>3, <2>4 DEF DepthKnown, Attached
  <2>7. \A t \in Threads : \A i \in DOMAIN frames[t] :
          Open(frames[t][i])' => Open(frames[t][i])
    BY <2>1, <2>3 DEF Open, Live, Attached
  <2>8. \A t \in Threads : \A i \in DOMAIN frames'[t] :
          Open(frames[t][i])' => frames'[t][i].call \notin captured'
    BY <2>1, <2>7 DEF FramesInv
  <2> QED BY <2>1, <2>5, <2>6, <2>8 DEF FramesInv
<1>4. CASE RnDisable
  <2>1. /\ ~rnHookEnabled' /\ rnDepth' = [t \in Threads |-> FALSE]
        /\ UNCHANGED <<frames, generation, captured, calls>>
    BY <1>4 DEF RnDisable
  <2>2. \A t \in Threads : Nested(frames[t])'
    BY <2>1 DEF FramesInv, Nested
  <2>3. \A t \in Threads : DepthKnown(t)'
    BY <2>1 DEF DepthKnown, Attached
  <2>4. \A t \in Threads : \A i \in DOMAIN frames'[t] :
          Open(frames[t][i])' => frames'[t][i].call \notin captured'
    BY <2>1 DEF FramesInv, Open, Live, Attached
  <2> QED BY <2>1, <2>2, <2>3, <2>4 DEF FramesInv
<1>5. CASE ClearPending \/ ClearDone \/ RnList \/ FlushShift \/ FlushDeliver \/ FlushDone
  <2>1. UNCHANGED <<frames, rnHookEnabled, generation, rnDepth, captured, calls>>
    BY <1>5 DEF ClearPending, ClearDone, RnList, FlushShift, FlushDeliver, FlushDone,
       captureVars, history
  <2> QED BY <1>2, <2>1
<1> QED BY <1>3, <1>4, <1>5 DEF Handler

-----------------------------------------------------------------------------
(* The calls whose onLeave has taken a reference and not queued it yet.    *)

LEMMA EnterLeaving ==
  ASSUME TypeOK, NEW t \in Threads, NEW c \in Calls, EnterStep(t, c)
  PROVE  Leaving' = Leaving
<1>1. PICK f \in Frame :
        ~f.leaving /\ frames' = [frames EXCEPT ![t] = Append(Under(frames[t]), f)]
  BY DEF EnterStep
<1> DEFINE s == frames[t]
           n == Append(Under(s), f)
<1>2. /\ s \in Seq(Frame) /\ Len(s) \in Nat /\ DOMAIN s = 1 .. Len(s)
      /\ \A i \in DOMAIN s : s[i] \in Frame
  BY FrameTypes
<1>3. /\ n \in Seq(Frame) /\ DOMAIN n = 1 .. Len(s) + 1
      /\ \A i \in DOMAIN s : n[i] = [s[i] EXCEPT !.forwarded = TRUE]
      /\ n[Len(s) + 1] = f
  BY <1>2, EnterProperties
<1> HIDE DEF n
<1>4. \A i \in DOMAIN s : n[i].call = s[i].call /\ n[i].leaving = s[i].leaving
  BY <1>2, <1>3 DEF Frame
<1>5. frames'[t] = n /\ (\A u \in Threads : u # t => frames'[u] = frames[u])
  BY <1>1, <1>3, FramesChange DEF n
<1>6. ASSUME NEW d
      PROVE  (\E i \in DOMAIN n : n[i].call = d /\ n[i].leaving)
               <=> (\E i \in DOMAIN s : s[i].call = d /\ s[i].leaving)
  <2>1. \A i \in DOMAIN n : i \in DOMAIN s \/ i = Len(s) + 1
    BY <1>2, <1>3
  <2>2. \A i \in DOMAIN s : i \in DOMAIN n
    BY <1>2, <1>3
  <2> QED BY <1>1, <1>3, <1>4, <2>1, <2>2
<1>7. ASSUME NEW d, NEW u \in Threads
      PROVE  (\E i \in DOMAIN frames'[u] : frames'[u][i].call = d /\ frames'[u][i].leaving)
               <=> (\E i \in DOMAIN frames[u] : frames[u][i].call = d /\ frames[u][i].leaving)
  BY <1>5, <1>6
<1> QED BY <1>7 DEF Leaving

LEMMA PopLeaving ==
  ASSUME TypeOK, FramesInv, NEW t \in Threads, frames[t] # <<>>, Pop(t)
  PROVE  Leaving' = IF Top(t).leaving THEN Leaving \ {Top(t).call} ELSE Leaving
<1> DEFINE s == frames[t]
           N == Len(s)
           p == SubSeq(s, 1, N - 1)
<1>1. s \in Seq(Frame) /\ Len(s) \in Nat /\ DOMAIN s = 1 .. Len(s)
  BY FrameTypes
<1>2. /\ N > 0 /\ p \in Seq(Frame) /\ DOMAIN p = 1 .. N - 1
      /\ \A i \in 1 .. N - 1 : p[i] = s[i]
  BY <1>1, PopProperties
<1>3. Top(t) = s[N] /\ N \in DOMAIN s
  BY <1>1, <1>2 DEF Top
<1>4. frames' = [frames EXCEPT ![t] = p]
  BY DEF Pop
<1> HIDE DEF p
<1>5. frames'[t] = p /\ \A u \in Threads : u # t => frames'[u] = frames[u]
  BY <1>2, <1>4, FramesChange
<1>6. \A i \in DOMAIN p : ~p[i].leaving
  BY <1>1, <1>2 DEF FramesInv, Nested
<1>7. \A i \in DOMAIN s : s[i].leaving => i = N
  BY DEF FramesInv, Nested
<1>8. ASSUME NEW c \in Calls
      PROVE  c \in Leaving' <=>
               \E u \in Threads : u # t /\ \E i \in DOMAIN frames[u] :
                 frames[u][i].call = c /\ frames[u][i].leaving
  BY <1>5, <1>6 DEF Leaving
<1>9. \A u \in Threads : u # t => \A i \in DOMAIN frames[u] : frames[u][i].call # Top(t).call
  BY <1>3 DEF FramesInv
<1>10. ASSUME NEW c \in Calls
       PROVE  c \in Leaving <=>
                \/ c = Top(t).call /\ Top(t).leaving
                \/ \E u \in Threads : u # t /\ \E i \in DOMAIN frames[u] :
                     frames[u][i].call = c /\ frames[u][i].leaving
  BY <1>3, <1>7 DEF Leaving
<1>11. Leaving \subseteq Calls /\ Leaving' \subseteq Calls
  BY DEF Leaving
<1>12. \A c \in Calls : c \in Leaving' <=> c \in Leaving /\ ~(Top(t).leaving /\ c = Top(t).call)
  BY <1>8, <1>9, <1>10
<1>13. CASE Top(t).leaving
  BY <1>11, <1>12, <1>13
<1>14. CASE ~Top(t).leaving
  BY <1>11, <1>12, <1>14
<1> QED BY <1>13, <1>14

LEMMA RefLeaving ==
  ASSUME TypeOK, FramesInv, NEW t \in Threads, LeaveRef(t)
  PROVE  /\ Top(t).call \in Calls
         /\ Top(t).call \notin Leaving
         /\ Top(t).call \notin captured
         /\ Leaving' = Leaving \cup {Top(t).call}
<1> DEFINE s == frames[t]
           N == Len(s)
           g == [s EXCEPT ![N] = [@ EXCEPT !.leaving = TRUE]]
<1>1. /\ s # <<>> /\ ~Top(t).leaving /\ Attached(Top(t)) /\ Top(t).outer
      /\ frames' = [frames EXCEPT ![t] = g]
  BY DEF LeaveRef
<1>2. /\ s \in Seq(Frame) /\ Len(s) \in Nat /\ DOMAIN s = 1 .. Len(s)
      /\ \A i \in DOMAIN s : s[i] \in Frame /\ s[i].call \in Calls
  BY FrameTypes
<1>3. N > 0 /\ N \in DOMAIN s /\ Top(t) = s[N]
  BY <1>1, <1>2, PopProperties DEF Top
<1>4. [s[N] EXCEPT !.leaving = TRUE] \in Frame
  BY <1>2, <1>3 DEF Frame
<1>5. g \in Seq(Frame) /\ DOMAIN g = DOMAIN s
  BY <1>2, <1>3, <1>4, ExceptSeq
<1>6. /\ \A i \in DOMAIN s : g[i].call = s[i].call
      /\ \A i \in DOMAIN s : i # N => g[i].leaving = s[i].leaving
      /\ g[N].leaving
  BY <1>2, <1>3 DEF Frame
<1> HIDE DEF g
<1>7. frames'[t] = g /\ (\A u \in Threads : u # t => frames'[u] = frames[u])
  BY <1>1, <1>5, FramesChange
<1>8. \A i \in DOMAIN s : ~s[i].leaving
  BY <1>1, <1>3 DEF FramesInv, Nested
<1>9. ASSUME NEW c \in Calls
      PROVE  c \in Leaving <=>
               \E u \in Threads : u # t /\ \E i \in DOMAIN frames[u] :
                 frames[u][i].call = c /\ frames[u][i].leaving
  BY <1>8 DEF Leaving
<1>10. ASSUME NEW c \in Calls
       PROVE  c \in Leaving' <=>
                \/ c = Top(t).call
                \/ \E u \in Threads : u # t /\ \E i \in DOMAIN frames[u] :
                     frames[u][i].call = c /\ frames[u][i].leaving
  <2>1. (\E i \in DOMAIN g : g[i].call = c /\ g[i].leaving) <=> c = Top(t).call
    BY <1>3, <1>5, <1>6, <1>8
  <2>2. c \in Leaving' <=>
          \/ \E i \in DOMAIN g : g[i].call = c /\ g[i].leaving
          \/ \E u \in Threads : u # t /\ \E i \in DOMAIN frames[u] :
               frames[u][i].call = c /\ frames[u][i].leaving
    BY <1>7 DEF Leaving
  <2> QED BY <2>1, <2>2
<1>11. Top(t).call \in Calls
  BY <1>2, <1>3
<1>12. Top(t).call \notin Leaving
  BY <1>3, <1>9, <1>11 DEF FramesInv
<1>13. Top(t).call \notin captured
  BY <1>1, <1>3 DEF FramesInv, Open, Live
<1>14. Leaving \subseteq Calls /\ Leaving' \subseteq Calls
  BY DEF Leaving
<1> QED BY <1>9, <1>10, <1>11, <1>12, <1>13, <1>14

-----------------------------------------------------------------------------
(* References.                                                             *)

LEMMA ReferringIs ==
  ASSUME TypeOK, RefsInv
  PROVE  /\ CallsOf(rnPending) \in Seq(Calls)
         /\ main # "deliver" => Referring = CallsOf(rnPending)
         /\ main = "deliver" => Referring = <<held>> \o CallsOf(rnPending) /\ held \in Calls
         /\ Referring \in Seq(Calls)
<1>1. CallsOf(rnPending) \in Seq(Calls)
  BY CallsOfComputed DEF TypeOK
<1>2. main # "deliver" => Referring = CallsOf(rnPending)
  BY <1>1, ConcatEmptySeq DEF Referring
<1>3. main = "deliver" => Referring = <<held>> \o CallsOf(rnPending) /\ held \in Calls
  BY DEF Referring, RefsInv
<1>4. main = "deliver" => Referring \in Seq(Calls)
  BY <1>1, <1>3, ConcatMembers
<1> QED BY <1>1, <1>2, <1>3, <1>4

\* Adding a new call at the end of a sequence of distinct calls, and taking the
\* first.
LEMMA DistinctAppend ==
  ASSUME NEW S, NEW q \in Seq(S), NEW c \in S, c \notin Members(q),
         \A i, j \in DOMAIN q : q[i] = q[j] => i = j
  PROVE  \A i, j \in DOMAIN Append(q, c) : Append(q, c)[i] = Append(q, c)[j] => i = j
<1> DEFINE a == Append(q, c)
<1>1. /\ DOMAIN q = 1 .. Len(q) /\ Len(q) \in Nat
      /\ DOMAIN a = 1 .. Len(q) + 1
      /\ \A i \in DOMAIN q : a[i] = q[i]
      /\ a[Len(q) + 1] = c
  BY AppendMembers
<1> HIDE DEF a
<1>2. \A i \in DOMAIN q : a[i] # c
  BY <1>1 DEF Members
<1>3. \A i, j \in DOMAIN a : a[i] = a[j] => i = j
  BY <1>1, <1>2
<1> USE DEF a
<1> QED BY <1>3

LEMMA DistinctHead ==
  ASSUME NEW S, NEW q \in Seq(S), NEW c \in S,
         \A i, j \in DOMAIN (<<c>> \o q) : (<<c>> \o q)[i] = (<<c>> \o q)[j] => i = j
  PROVE  /\ c \notin Members(q)
         /\ \A i, j \in DOMAIN q : q[i] = q[j] => i = j
<1> DEFINE a == <<c>> \o q
<1>1. /\ DOMAIN q = 1 .. Len(q) /\ Len(q) \in Nat
      /\ DOMAIN a = 1 .. Len(q) + 1
      /\ a[1] = c
      /\ \A i \in DOMAIN q : a[i + 1] = q[i]
  BY ConcatMembers
<1>2. \A i, j \in DOMAIN a : a[i] = a[j] => i = j
  OBVIOUS
<1> HIDE DEF a
<1>3. \A i \in DOMAIN q : i + 1 \in DOMAIN a /\ 1 \in DOMAIN a /\ i + 1 # 1
  BY <1>1
<1>4. c \notin Members(q)
  BY <1>1, <1>2, <1>3 DEF Members
<1>5. ASSUME NEW i \in DOMAIN q, NEW j \in DOMAIN q, q[i] = q[j] PROVE i = j
  <2>1. i + 1 = j + 1
    BY <1>1, <1>2, <1>3, <1>5
  <2> QED BY <1>1, <2>1
<1> QED BY <1>4, <1>5

LEMMA RefsFrame ==
  ASSUME RefsInv, UNCHANGED <<main, held, refs>>, captured \subseteq captured',
         CallsOf(rnPending)' = CallsOf(rnPending), Leaving' = Leaving
  PROVE  RefsInv'
<1>1. Referring' = Referring
  BY DEF Referring
<1> QED BY <1>1 DEF RefsInv

LEMMA PushCalls ==
  ASSUME TypeOK, NEW c \in Calls, NEW kind \in {"warning", "methods"}, Push(c, kind)
  PROVE  CallsOf(rnPending)'
           = IF kind = "methods" THEN Append(CallsOf(rnPending), c) ELSE CallsOf(rnPending)
<1> DEFINE e == [call |-> c, kind |-> kind]
<1>1. e \in Entry /\ e.call = c /\ (HasMethods(e) <=> kind = "methods")
  BY DEF Entry, HasMethods
<1>2. rnPending' = Append(rnPending, e)
  BY DEF Push
<1> HIDE DEF e
<1>3. CallsOf(Append(rnPending, e))
        = IF HasMethods(e) THEN Append(CallsOf(rnPending), e.call) ELSE CallsOf(rnPending)
  BY <1>1, CallsOfAppend DEF TypeOK
<1> QED BY <1>1, <1>2, <1>3

LEMMA TargetRefs ==
  ASSUME TypeOK, FramesInv, RefsInv, Target
  PROVE  RefsInv'
<1>1. PICK t \in Threads :
        RegisterNatives(t) \/ Forward(t) \/ LeaveUnhooked(t) \/ Leave(t) \/ LeaveRef(t)
          \/ LeavePush(t)
  BY DEF Target
<1>2. frames[t] # <<>> => Top(t) \in Frame /\ Top(t).call \in Calls
  <2>1. frames[t] \in Seq(Frame)
    BY FrameTypes
  <2>2. frames[t] # <<>> => frames[t][Len(frames[t])] \in Frame
    BY <2>1, PopProperties
  <2> QED BY <2>2 DEF Top, Frame
<1>3. CASE RegisterNatives(t)
  <2>1. calls + 1 \in Calls
    BY <1>3, NativesAssumption DEF RegisterNatives, Calls, TypeOK
  <2>2. EnterStep(t, calls + 1)
    BY <1>3, <2>1, Enters DEF RegisterNatives
  <2>3. Leaving' = Leaving
    BY <2>1, <2>2, EnterLeaving
  <2>4. UNCHANGED <<main, held, refs, captured, rnPending>>
    BY <1>3 DEF RegisterNatives, history, queueVars, mainVars
  <2> QED BY <2>3, <2>4, RefsFrame
<1>4. CASE Forward(t)
  <2>1. Len(frames[t]) = 1 /\ OnEnter(t, Top(t).call)
    BY <1>4 DEF Forward
  <2>2. frames[t] # <<>>
    <3>1. ASSUME frames[t] = <<>> PROVE Len(frames[t]) = 0
      BY <3>1, EmptySeq
    <3> QED BY <2>1, <3>1
  <2>3. EnterStep(t, Top(t).call)
    BY <1>2, <2>1, <2>2, Enters
  <2>4. Leaving' = Leaving
    BY <1>2, <2>2, <2>3, EnterLeaving
  <2>5. UNCHANGED <<main, held, refs, captured, rnPending>>
    BY <1>4 DEF Forward, history, queueVars, mainVars
  <2> QED BY <2>4, <2>5, RefsFrame
<1>5. CASE LeaveUnhooked(t)
  <2>1. frames[t] # <<>> /\ Pop(t) /\ ~Top(t).leaving
    BY <1>5 DEF LeaveUnhooked
  <2>2. Leaving' = Leaving
    BY <2>1, PopLeaving
  <2>3. UNCHANGED <<main, held, refs, captured, rnPending>>
    BY <1>5 DEF LeaveUnhooked, history, queueVars, mainVars
  <2> QED BY <2>2, <2>3, RefsFrame
<1>6. CASE Leave(t)
  <2>1. frames[t] # <<>> /\ Pop(t) /\ ~Top(t).leaving
    BY <1>6 DEF Leave
  <2>2. Leaving' = Leaving
    BY <2>1, PopLeaving
  <2>3. CallsOf(rnPending)' = CallsOf(rnPending)
    <3>1. CASE Push(Top(t).call, "warning")
      BY <1>2, <2>1, <3>1, PushCalls
    <3>2. CASE UNCHANGED rnPending
      BY <3>2
    <3> QED BY <1>6, <3>1, <3>2 DEF Leave
  <2>4. UNCHANGED <<main, held, refs, captured>>
    BY <1>6 DEF Leave, history, mainVars
  <2> QED BY <2>2, <2>3, <2>4, RefsFrame
<1>7. CASE LeaveRef(t)
  <2> DEFINE c == Top(t).call
  <2>1. /\ refs' = [refs EXCEPT ![c] = @ + 1]
        /\ UNCHANGED <<main, held, captured, rnPending>>
    BY <1>7 DEF LeaveRef, history, mainVars
  <2>2. c \in Calls /\ c \notin Leaving /\ c \notin captured /\ Leaving' = Leaving \cup {c}
    BY <1>7, RefLeaving
  <2> HIDE DEF c
  <2>3. Referring' = Referring
    BY <2>1 DEF Referring
  <2>4. c \notin Members(Referring)
    BY <2>2 DEF RefsInv
  <2>5. refs[c] = 0
    BY <2>2, <2>4 DEF RefsInv
  <2>6. \A d \in Calls : refs'[d] = IF d \in Leaving' \cup Members(Referring)' THEN 1 ELSE 0
    BY <2>1, <2>2, <2>3, <2>5 DEF RefsInv, TypeOK
  <2> QED BY <2>1, <2>3, <2>6 DEF RefsInv
<1>8. CASE LeavePush(t)
  <2> DEFINE c == Top(t).call
             q == CallsOf(rnPending)
  <2>1. /\ frames[t] # <<>> /\ Pop(t) /\ Top(t).leaving
        /\ Push(c, "methods")
        /\ captured' = captured \cup {c}
        /\ UNCHANGED <<main, held, refs>>
    BY <1>8 DEF LeavePush, mainVars
  <2>2. Leaving' = Leaving \ {c}
    BY <2>1, PopLeaving
  <2>3. c \in Calls
    BY <1>2, <2>1
  <2>4. c \in Leaving /\ c \notin captured
    <3>1. Len(frames[t]) \in DOMAIN frames[t]
      BY <2>1, FrameTypes, PopProperties
    <3> QED BY <2>1, <2>3, <3>1 DEF Leaving, Top, FramesInv, Open, Live
  <2>5. CallsOf(rnPending)' = Append(q, c)
    BY <2>1, <2>3, PushCalls
  <2> HIDE DEF c
  <2>6. Referring' = Append(Referring, c)
    <3>1. q \in Seq(Calls) /\ Referring \in Seq(Calls)
      BY ReferringIs
    <3>2. CASE main # "deliver"
      <4>1. Append(q, c) \in Seq(Calls)
        BY <2>3, <3>1, AppendProperties
      <4>2. Referring' = <<>> \o Append(q, c)
        BY <2>1, <2>5, <3>2 DEF Referring
      <4>3. Referring' = Append(q, c)
        BY <4>1, <4>2, ConcatEmptySeq
      <4> QED BY <3>2, <4>3, ReferringIs
    <3>3. CASE main = "deliver"
      <4>1. Referring = <<held>> \o q /\ held \in Calls
        BY <3>3, ReferringIs
      <4>2. Referring' = <<held>> \o Append(q, c)
        BY <2>1, <2>5, <3>3 DEF Referring
      <4>3. <<held>> \in Seq(Calls) /\ <<c>> \in Seq(Calls)
        BY <2>3, <4>1, ConcatMembers, <3>1
      <4>4. Append(q, c) = q \o <<c>>
        BY <2>3, <3>1, AppendIsConcat
      <4>5. Append(Referring, c) = Referring \o <<c>>
        BY <2>3, <3>1, AppendIsConcat
      <4>6. (<<held>> \o q) \o <<c>> = <<held>> \o (q \o <<c>>)
        BY <3>1, <4>3, ConcatAssociative
      <4> QED BY <4>1, <4>2, <4>4, <4>5, <4>6
    <3> QED BY <3>2, <3>3
  <2>7. Referring \in Seq(Calls)
    BY ReferringIs
  <2>8. c \notin Members(Referring)
    BY <2>4 DEF RefsInv
  <2>9. Members(Referring)' = Members(Referring) \cup {c}
    BY <2>3, <2>6, <2>7, AppendMembers DEF Members
  <2>10. \A i, j \in DOMAIN Referring' : Referring'[i] = Referring'[j] => i = j
    BY <2>3, <2>6, <2>7, <2>8, DistinctAppend DEF RefsInv
  <2>11. Members(Referring)' \subseteq captured'
    BY <2>1, <2>9 DEF RefsInv
  <2>12. \A d \in Calls : refs'[d] = IF d \in Leaving' \cup Members(Referring)' THEN 1 ELSE 0
    BY <2>1, <2>2, <2>4, <2>9 DEF RefsInv
  <2> QED BY <2>1, <2>10, <2>11, <2>12 DEF RefsInv
<1> QED BY <1>1, <1>3, <1>4, <1>5, <1>6, <1>7, <1>8

\* Taking the first of the captures that hold a reference, and deleting it.
LEMMA UnrefFirst ==
  ASSUME TypeOK, FramesInv, RefsInv, NEW c \in Calls, NEW q \in Seq(Calls),
         Referring = <<c>> \o q, Unref(c), Referring' = q,
         UNCHANGED <<frames, captured>>,
         main' # "deliver"
  PROVE  RefsInv'
<1>1. refs' = [refs EXCEPT ![c] = @ - 1] /\ Leaving' = Leaving
  BY DEF Unref, Leaving
<1>2. Members(Referring) = {c} \cup Members(q)
  BY ConcatMembers
<1>3. c \notin Members(q) /\ \A i, j \in DOMAIN q : q[i] = q[j] => i = j
  BY DistinctHead DEF RefsInv
<1>4. c \notin Leaving
  BY <1>2 DEF RefsInv, Leaving, FramesInv, Open, Live
<1>5. refs[c] = 1
  BY <1>2 DEF RefsInv
<1>6. Members(Referring)' = Members(q)
  BY DEF Members
<1>7. \A d \in Calls : refs'[d] = IF d \in Leaving' \cup Members(Referring)' THEN 1 ELSE 0
  <2> SUFFICES ASSUME NEW d \in Calls
               PROVE  refs'[d] = IF d \in Leaving' \cup Members(Referring)' THEN 1 ELSE 0
    OBVIOUS
  <2>1. refs'[d] = IF d = c THEN 0 ELSE refs[d]
    BY <1>1, <1>5 DEF TypeOK
  <2>2. refs[d] = IF d \in Leaving \cup Members(Referring) THEN 1 ELSE 0
    BY DEF RefsInv
  <2>3. CASE d = c
    BY <1>1, <1>3, <1>4, <1>6, <2>1, <2>3
  <2>4. CASE d # c
    BY <1>1, <1>2, <1>6, <2>1, <2>2, <2>4
  <2> QED BY <2>3, <2>4
<1>8. Members(Referring)' \subseteq captured'
  BY <1>2, <1>6 DEF RefsInv
<1> QED BY <1>3, <1>7, <1>8 DEF RefsInv

LEMMA HandlerRefs ==
  ASSUME TypeOK, FramesInv, RefsInv, Handler
  PROVE  RefsInv'
<1>1. rnPending # <<>> =>
        /\ Head(rnPending) \in Entry /\ Head(rnPending).call \in Calls
        /\ Tail(rnPending) \in Seq(Entry)
        /\ CallsOf(Tail(rnPending)) \in Seq(Calls)
  <2>1. rnPending # <<>> => Head(rnPending) \in Entry /\ Tail(rnPending) \in Seq(Entry)
    BY HeadTailProperties DEF TypeOK
  <2> QED BY <2>1, CallsOfComputed DEF Entry
<1>2. rnPending # <<>> =>
        CallsOf(rnPending)
          = IF HasMethods(Head(rnPending)) THEN <<Head(rnPending).call>> \o CallsOf(Tail(rnPending))
            ELSE CallsOf(Tail(rnPending))
  <2>1. rnPending # <<>> => <<>> \o CallsOf(Tail(rnPending)) = CallsOf(Tail(rnPending))
    BY <1>1, ConcatEmptySeq
  <2>2. rnPending # <<>> =>
          CallsOf(rnPending) = (IF HasMethods(Head(rnPending)) THEN <<Head(rnPending).call>> ELSE <<>>)
                                 \o CallsOf(Tail(rnPending))
    BY CallsOfHead DEF TypeOK
  <2> QED BY <2>1, <2>2
<1>3. ASSUME main # "deliver", main' # "deliver", CallsOf(rnPending)' = CallsOf(rnPending),
             UNCHANGED <<refs, frames, captured>>
      PROVE  RefsInv'
  <2>1. Referring = CallsOf(rnPending)
    BY <1>3, ReferringIs
  <2>2. CallsOf(rnPending) \in Seq(Calls)
    BY CallsOfComputed DEF TypeOK
  <2>3. Referring' = <<>> \o CallsOf(rnPending)'
    BY <1>3 DEF Referring
  <2>4. Referring' = Referring
    BY <1>3, <2>1, <2>2, <2>3, ConcatEmptySeq
  <2>5. Leaving' = Leaving
    BY <1>3 DEF Leaving
  <2> QED BY <1>3, <2>4, <2>5 DEF RefsInv
<1>4. CASE RnEnable \/ RnDisable \/ RnList \/ ClearDone \/ FlushDone
  <2>1. /\ main # "deliver" /\ main' # "deliver"
        /\ UNCHANGED <<rnPending, refs, frames, captured>>
    BY <1>4 DEF RnEnable, RnDisable, RnList, ClearDone, FlushDone, Begin, queueVars, history
  <2> QED BY <1>3, <2>1
<1>5. CASE ClearPending
  <2>1. /\ main = "clear" /\ main' = "clear" /\ rnPending # <<>>
        /\ rnPending' = Tail(rnPending)
        /\ UNCHANGED <<frames, captured>>
    BY <1>5 DEF ClearPending, mainVars, history
  <2>2. CASE ~HasMethods(Head(rnPending))
    <3>1. refs' = refs
      BY <1>5, <2>2 DEF ClearPending
    <3> QED BY <1>2, <1>3, <2>1, <2>2, <3>1
  <2>3. CASE HasMethods(Head(rnPending))
    <3> DEFINE c == Head(rnPending).call
               q == CallsOf(Tail(rnPending))
    <3>1. Unref(c) /\ c \in Calls /\ q \in Seq(Calls)
      BY <1>1, <1>5, <2>1, <2>3 DEF ClearPending
    <3>2. Referring = <<c>> \o q
      BY <1>2, <2>1, <2>3, ReferringIs
    <3>3. Referring' = q
      <4>1. Referring' = <<>> \o q
        BY <2>1 DEF Referring
      <4> QED BY <3>1, <4>1, ConcatEmptySeq
    <3> HIDE DEF c, q
    <3> QED BY <2>1, <3>1, <3>2, <3>3, UnrefFirst
  <2> QED BY <2>2, <2>3
<1>6. CASE FlushShift
  <2>1. /\ main = "flush" /\ rnPending # <<>>
        /\ rnPending' = Tail(rnPending)
        /\ UNCHANGED <<refs, frames, captured>>
    BY <1>6 DEF FlushShift, history
  <2>2. CASE ~HasMethods(Head(rnPending))
    <3>1. main' = "flush"
      BY <1>6, <2>1, <2>2 DEF FlushShift
    <3> QED BY <1>2, <1>3, <2>1, <2>2, <3>1
  <2>3. CASE HasMethods(Head(rnPending))
    <3>1. main' = "deliver" /\ held' = Head(rnPending).call
      BY <1>6, <2>3 DEF FlushShift
    <3>2. Referring' = <<Head(rnPending).call>> \o CallsOf(Tail(rnPending))
      BY <2>1, <3>1 DEF Referring
    <3>3. Referring' = Referring
      BY <1>2, <2>1, <2>3, <3>2, ReferringIs
    <3>4. Leaving' = Leaving
      BY <2>1 DEF Leaving
    <3>5. held' \in Calls
      BY <1>1, <2>1, <3>1
    <3> QED BY <2>1, <3>3, <3>4, <3>5 DEF RefsInv
  <2> QED BY <2>2, <2>3
<1>7. CASE FlushDeliver
  <2>1. /\ main = "deliver" /\ main' = "flush" /\ Unref(held)
        /\ UNCHANGED <<rnPending, frames, captured>>
    BY <1>7 DEF FlushDeliver, history
  <2> DEFINE q == CallsOf(rnPending)
  <2>2. q \in Seq(Calls) /\ held \in Calls /\ Referring = <<held>> \o q
    BY <2>1, ReferringIs
  <2>3. Referring' = q
    <3>1. Referring' = <<>> \o q
      BY <2>1 DEF Referring
    <3> QED BY <2>2, <3>1, ConcatEmptySeq
  <2> HIDE DEF q
  <2> QED BY <2>1, <2>2, <2>3, UnrefFirst
<1> QED BY <1>4, <1>5, <1>6, <1>7 DEF Handler

-----------------------------------------------------------------------------
(* Off.                                                                    *)

LEMMA TargetOff ==
  ASSUME TypeOK, FramesInv, OffInv, Target
  PROVE  OffInv'
<1>1. PICK t \in Threads :
        RegisterNatives(t) \/ Forward(t) \/ LeaveUnhooked(t) \/ Leave(t) \/ LeaveRef(t)
          \/ LeavePush(t)
  BY DEF Target
<1>2. frames[t] # <<>> => Top(t) \in Frame /\ Top(t).call \in Calls
  <2>1. frames[t] \in Seq(Frame)
    BY FrameTypes
  <2>2. frames[t] # <<>> => frames[t][Len(frames[t])] \in Frame
    BY <2>1, PopProperties
  <2> QED BY <2>2 DEF Top, Frame
<1>3. ASSUME UNCHANGED <<rnHookEnabled, main, late, rnPending, rnBuffer>>, Leaving' \subseteq Leaving
      PROVE  OffInv'
  BY <1>3 DEF OffInv
<1>4. ASSUME rnHookEnabled, UNCHANGED <<rnHookEnabled, main>>
      PROVE  OffInv'
  BY <1>4 DEF OffInv
<1>5. CASE RegisterNatives(t)
  <2>1. calls + 1 \in Calls
    BY <1>5, NativesAssumption DEF RegisterNatives, Calls, TypeOK
  <2>2. EnterStep(t, calls + 1)
    BY <1>5, <2>1, Enters DEF RegisterNatives
  <2>3. Leaving' = Leaving
    BY <2>1, <2>2, EnterLeaving
  <2> QED BY <1>3, <1>5, <2>3 DEF RegisterNatives, history, queueVars, mainVars
<1>6. CASE Forward(t)
  <2>1. Len(frames[t]) = 1 /\ OnEnter(t, Top(t).call)
    BY <1>6 DEF Forward
  <2>2. frames[t] # <<>>
    <3>1. ASSUME frames[t] = <<>> PROVE Len(frames[t]) = 0
      BY <3>1, EmptySeq
    <3> QED BY <2>1, <3>1
  <2>3. EnterStep(t, Top(t).call)
    BY <1>2, <2>1, <2>2, Enters
  <2>4. Leaving' = Leaving
    BY <1>2, <2>2, <2>3, EnterLeaving
  <2> QED BY <1>3, <1>6, <2>4 DEF Forward, history, queueVars, mainVars
<1>7. CASE LeaveUnhooked(t)
  <2>1. frames[t] # <<>> /\ Pop(t)
    BY <1>7 DEF LeaveUnhooked
  <2>2. Leaving' \subseteq Leaving
    BY <2>1, PopLeaving
  <2> QED BY <1>3, <1>7, <2>2 DEF LeaveUnhooked, captureVars, history, queueVars, mainVars
<1>8. CASE Leave(t) \/ LeaveRef(t)
  BY <1>4, <1>8 DEF Leave, LeaveRef, Attached, captureVars, mainVars
<1>9. CASE LeavePush(t)
  <2> DEFINE e == [call |-> Top(t).call, kind |-> "methods"]
  <2>1. /\ frames[t] # <<>> /\ Pop(t) /\ Top(t).leaving
        /\ rnPending' = Append(rnPending, e)
        /\ UNCHANGED <<rnHookEnabled, main, late, rnBuffer>>
    BY <1>9 DEF LeavePush, Push, mainVars
  <2>2. Leaving' \subseteq Leaving
    BY <2>1, PopLeaving
  <2>3. Top(t).call \in Leaving
    <3>1. Len(frames[t]) \in DOMAIN frames[t]
      BY <2>1, FrameTypes, PopProperties
    <3> QED BY <1>2, <2>1, <3>1 DEF Leaving, Top
  <2>4. e \in Entry /\ e.call = Top(t).call
    BY <1>2, <2>1 DEF Entry
  <2> HIDE DEF e
  <2>5. /\ DOMAIN rnPending = 1 .. Len(rnPending) /\ Len(rnPending) \in Nat
        /\ DOMAIN rnPending' = 1 .. Len(rnPending) + 1
        /\ \A i \in DOMAIN rnPending : rnPending'[i] = rnPending[i]
        /\ rnPending'[Len(rnPending) + 1] = e
    BY <2>1, <2>4, AppendMembers DEF TypeOK
  <2>6. ASSUME ~rnHookEnabled, main # "clear", NEW i \in DOMAIN rnPending'
        PROVE  rnPending'[i].call \in late
    BY <2>3, <2>4, <2>5, <2>6 DEF OffInv
  <2> QED BY <2>1, <2>2, <2>6 DEF OffInv
<1> QED BY <1>1, <1>5, <1>6, <1>7, <1>8, <1>9

LEMMA HandlerOff ==
  ASSUME TypeOK, FramesInv, OffInv, Handler
  PROVE  OffInv'
<1>1. rnPending # <<>> =>
        \A i \in DOMAIN Tail(rnPending) : \E j \in DOMAIN rnPending : Tail(rnPending)[i] = rnPending[j]
  <2>1. ASSUME rnPending # <<>>, NEW i \in DOMAIN Tail(rnPending)
        PROVE  \E j \in DOMAIN rnPending : Tail(rnPending)[i] = rnPending[j]
    <3>1. /\ Tail(rnPending) \in Seq(Entry) /\ Len(Tail(rnPending)) = Len(rnPending) - 1
          /\ \A k \in 1 .. Len(Tail(rnPending)) : Tail(rnPending)[k] = rnPending[k + 1]
      BY <2>1, HeadTailProperties DEF TypeOK
    <3>2. /\ DOMAIN Tail(rnPending) = 1 .. Len(Tail(rnPending))
          /\ DOMAIN rnPending = 1 .. Len(rnPending) /\ Len(rnPending) \in Nat
      BY <3>1, LenProperties DEF TypeOK
    <3>3. i + 1 \in DOMAIN rnPending
      BY <3>1, <3>2
    <3> QED BY <3>1, <3>2, <3>3
  <2> QED BY <2>1
<1>2. ASSUME UNCHANGED frames PROVE Leaving' = Leaving
  BY <1>2 DEF Leaving
<1>3. DOMAIN <<>> = {}
  BY EmptySeq, LenProperties
<1> USE DEF OffInv, Begin
<1>4. CASE RnEnable
  BY <1>4 DEF RnEnable
<1>5. CASE RnDisable
  <2>1. Leaving' \subseteq late'
    <3>1. ASSUME NEW t \in Threads, NEW i \in DOMAIN frames[t], frames[t][i].leaving
          PROVE  frames[t] # <<>> /\ Top(t).leaving /\ Top(t).call = frames[t][i].call
      <4>1. i = Len(frames[t])
        BY <3>1 DEF FramesInv, Nested
      <4>2. frames[t] # <<>>
        BY <1>3
      <4> QED BY <3>1, <4>1, <4>2 DEF Top
    <3>2. late' = {Top(t).call : t \in {u \in Threads : frames[u] # <<>> /\ Top(u).leaving}}
      BY <1>5 DEF RnDisable
    <3>3. UNCHANGED frames
      BY <1>5 DEF RnDisable
    <3> QED BY <1>2, <3>1, <3>2, <3>3 DEF Leaving
  <2> QED BY <1>5, <2>1 DEF RnDisable
<1>6. CASE ClearPending
  BY <1>2, <1>6 DEF ClearPending, captureVars, mainVars, history
<1>7. CASE ClearDone
  <2>1. rnPending' = <<>> /\ rnBuffer' = <<>> /\ UNCHANGED <<frames, late, rnHookEnabled>>
    BY <1>7 DEF ClearDone, captureVars, history
  <2>2. main = "clear" /\ main' = "idle"
    BY <1>7 DEF ClearDone
  <2>3. DOMAIN rnPending' = {}
    BY <1>3, <2>1
  <2> QED BY <1>2, <2>1, <2>2, <2>3
<1>8. CASE RnList
  BY <1>2, <1>8 DEF RnList, captureVars, queueVars, history
<1>9. CASE FlushShift
  <2>1. /\ main = "flush" /\ main' \in {"flush", "deliver"}
        /\ rnPending # <<>> /\ rnPending' = Tail(rnPending)
        /\ UNCHANGED <<frames, late, rnHookEnabled, rnBuffer>>
    BY <1>9 DEF FlushShift, captureVars, history
  <2> QED BY <1>1, <1>2, <2>1
<1>10. CASE FlushDeliver
  BY <1>2, <1>10 DEF FlushDeliver, captureVars, history
<1>11. CASE FlushDone
  BY <1>2, <1>11 DEF FlushDone, captureVars
<1> QED BY <1>4, <1>5, <1>6, <1>7, <1>8, <1>9, <1>10, <1>11 DEF Handler

-----------------------------------------------------------------------------
(* What is kept, and the room for it.                                      *)

LEMMA KeptIs ==
  ASSUME TypeOK, RefsInv
  PROVE  /\ rnBuffer \in Seq(Calls) /\ CallsOf(rnPending) \in Seq(Calls)
         /\ main = "clear" => Kept = <<>>
         /\ main = "deliver" => held \in Calls /\ Kept = (rnBuffer \o <<held>>) \o CallsOf(rnPending)
         /\ main \in {"idle", "flush"} => Kept = rnBuffer \o CallsOf(rnPending)
         /\ Kept \in Seq(Calls)
         /\ Len(Kept) \in Nat
         /\ main # "clear" => Len(Kept) <= rnQueuedCount + 1
         /\ rnQueuedCount \in Nat
<1> DEFINE q == CallsOf(rnPending)
<1>1. rnBuffer \in Seq(Calls) /\ q \in Seq(Calls) /\ main \in {"idle", "flush", "deliver", "clear"}
  BY CallsOfComputed DEF TypeOK
<1>2. Len(rnBuffer) \in Nat /\ Len(q) \in Nat
  BY <1>1, LenProperties
<1> HIDE DEF q
<1>3. rnQueuedCount = Len(rnBuffer) + Len(q)
  BY DEF rnQueuedCount, q
<1>4. CASE main = "clear"
  <2>1. Kept = <<>>
    BY <1>4 DEF Kept
  <2>2. Kept \in Seq(Calls) /\ Len(Kept) = 0
    BY <2>1, EmptySeq
  <2> QED BY <1>1, <1>2, <1>3, <1>4, <2>1, <2>2 DEF q
<1>5. CASE main = "deliver"
  <2>1. held \in Calls /\ Kept = (rnBuffer \o <<held>>) \o q
    BY <1>5 DEF RefsInv, Kept, q
  <2>2. <<held>> \in Seq(Calls) /\ Len(<<held>>) = 1
    BY <2>1, <1>1, ConcatMembers, AppendProperties, EmptySeq
  <2>3. rnBuffer \o <<held>> \in Seq(Calls) /\ Len(rnBuffer \o <<held>>) = Len(rnBuffer) + 1
    BY <1>1, <2>2, ConcatProperties
  <2>4. (rnBuffer \o <<held>>) \o q \in Seq(Calls)
        /\ Len((rnBuffer \o <<held>>) \o q) = Len(rnBuffer \o <<held>>) + Len(q)
    BY <1>1, <2>3, ConcatProperties
  <2> QED BY <1>1, <1>2, <1>3, <1>5, <2>1, <2>3, <2>4 DEF q
<1>6. CASE main \in {"idle", "flush"}
  <2>1. Kept = (rnBuffer \o <<>>) \o q
    BY <1>6 DEF Kept, q
  <2>2. Kept = rnBuffer \o q
    BY <1>1, <2>1, ConcatEmptySeq
  <2>3. rnBuffer \o q \in Seq(Calls) /\ Len(rnBuffer \o q) = Len(rnBuffer) + Len(q)
    BY <1>1, ConcatProperties
  <2> QED BY <1>1, <1>2, <1>3, <1>6, <2>2, <2>3 DEF q
<1> QED BY <1>1, <1>4, <1>5, <1>6

LEMMA PushKept ==
  ASSUME TypeOK, RefsInv, NEW c \in Calls,
         CallsOf(rnPending)' = Append(CallsOf(rnPending), c),
         UNCHANGED <<main, held, rnBuffer>>
  PROVE  Kept' = IF main = "clear" THEN <<>> ELSE Append(Kept, c)
<1> DEFINE q == CallsOf(rnPending)
           b == rnBuffer \o (IF main = "deliver" THEN <<held>> ELSE <<>>)
<1>1. CASE main = "clear"
  BY <1>1 DEF Kept
<1>2. CASE main # "clear"
  <2>1. rnBuffer \in Seq(Calls) /\ q \in Seq(Calls) /\ Kept \in Seq(Calls)
    BY KeptIs
  <2>2. b \in Seq(Calls)
    <3>1. (IF main = "deliver" THEN <<held>> ELSE <<>>) \in Seq(Calls)
      <4>1. CASE main = "deliver"
        <5>1. held \in Calls
          BY <4>1 DEF RefsInv
        <5> QED BY <4>1, <5>1, <2>1, ConcatMembers
      <4>2. CASE main # "deliver"
        BY <4>2, EmptySeq
      <4> QED BY <4>1, <4>2
    <3> QED BY <2>1, <3>1, ConcatProperties
  <2>3. Kept = b \o q
    BY <1>2 DEF Kept
  <2>4. Kept' = b \o Append(q, c)
    BY <1>2 DEF Kept
  <2> HIDE DEF b, q
  <2>5. <<c>> \in Seq(Calls)
    BY <2>1, ConcatMembers
  <2>6. Append(q, c) = q \o <<c>> /\ Append(Kept, c) = Kept \o <<c>>
    BY <2>1, AppendIsConcat
  <2>7. (b \o q) \o <<c>> = b \o (q \o <<c>>)
    BY <2>1, <2>2, <2>5, ConcatAssociative
  <2> QED BY <1>2, <2>3, <2>4, <2>6, <2>7
<1> QED BY <1>1, <1>2

LEMMA HandlerKept ==
  ASSUME TypeOK, RefsInv, Handler
  PROVE  /\ RnDisable => Kept' = <<>>
         /\ FlushDone => Kept' = <<>> /\ listed' = Kept
         /\ RnEnable \/ ClearPending \/ ClearDone \/ RnList \/ FlushShift \/ FlushDeliver
              => Kept' = Kept
<1> DEFINE q == CallsOf(rnPending)
<1>1. rnBuffer \in Seq(Calls) /\ q \in Seq(Calls) /\ <<>> \in Seq(Calls)
  BY KeptIs, EmptySeq
<1>2. ASSUME RnDisable PROVE Kept' = <<>>
  BY <1>2 DEF RnDisable, Kept
<1>3. ASSUME FlushDone PROVE Kept' = <<>> /\ listed' = Kept
  <2>1. /\ main = "flush" /\ main' = "idle" /\ rnPending = <<>> /\ rnPending' = <<>>
        /\ rnBuffer' = <<>> /\ listed' = rnBuffer
    BY <1>3 DEF FlushDone
  <2>2. q = <<>> /\ q' = <<>>
    BY <2>1, CallsOfEmpty
  <2>3. Kept = rnBuffer \o q
    BY <2>1, KeptIs
  <2>4. Kept' = (<<>> \o <<>>) \o <<>>
    BY <2>1, <2>2 DEF Kept
  <2>5. rnBuffer \o <<>> = rnBuffer /\ <<>> \o <<>> = <<>>
    BY <1>1, ConcatEmptySeq
  <2> QED BY <2>1, <2>2, <2>3, <2>4, <2>5
<1>4. ASSUME RnEnable PROVE Kept' = Kept
  BY <1>4 DEF RnEnable, Kept, queueVars
<1>5. ASSUME ClearPending PROVE Kept' = Kept
  BY <1>5 DEF ClearPending, Kept, mainVars
<1>6. ASSUME ClearDone PROVE Kept' = Kept
  <2>1. /\ main = "clear" /\ main' = "idle" /\ rnBuffer' = <<>> /\ rnPending' = <<>>
    BY <1>6 DEF ClearDone
  <2>2. Kept' = (<<>> \o <<>>) \o q' /\ q' = <<>>
    BY <2>1, CallsOfEmpty DEF Kept
  <2>3. <<>> \o <<>> = <<>>
    BY <1>1, ConcatEmptySeq
  <2> QED BY <2>1, <2>2, <2>3, KeptIs
<1>7. ASSUME RnList PROVE Kept' = Kept
  BY <1>7 DEF RnList, Begin, Kept, queueVars
<1>8. ASSUME FlushShift PROVE Kept' = Kept
  <2> DEFINE r == CallsOf(Tail(rnPending))
             c == Head(rnPending).call
  <2>1. /\ main = "flush" /\ rnPending # <<>> /\ rnPending' = Tail(rnPending)
        /\ rnBuffer' = rnBuffer
    BY <1>8 DEF FlushShift
  <2>2. /\ Tail(rnPending) \in Seq(Entry) /\ r \in Seq(Calls) /\ c \in Calls
        /\ q = (IF HasMethods(Head(rnPending)) THEN <<c>> ELSE <<>>) \o r
    <3>1. Head(rnPending) \in Entry /\ Tail(rnPending) \in Seq(Entry)
      BY <2>1, HeadTailProperties DEF TypeOK
    <3>2. q = (IF HasMethods(Head(rnPending)) THEN <<c>> ELSE <<>>) \o r
      BY <2>1, CallsOfHead DEF TypeOK
    <3> QED BY <3>1, <3>2, CallsOfComputed DEF Entry
  <2>3. Kept = rnBuffer \o q
    BY <2>1, KeptIs
  <2>4. CASE HasMethods(Head(rnPending))
    <3>1. main' = "deliver" /\ held' = c
      BY <1>8, <2>4 DEF FlushShift
    <3>2. Kept' = (rnBuffer \o <<c>>) \o r
      BY <2>1, <3>1 DEF Kept
    <3>3. q = <<c>> \o r
      BY <2>2, <2>4
    <3> HIDE DEF q, r, c
    <3>4. <<c>> \in Seq(Calls)
      BY <2>2, ConcatMembers
    <3>5. (rnBuffer \o <<c>>) \o r = rnBuffer \o (<<c>> \o r)
      BY <1>1, <2>2, <3>4, ConcatAssociative
    <3> QED BY <2>3, <3>2, <3>3, <3>5
  <2>5. CASE ~HasMethods(Head(rnPending))
    <3>1. main' = "flush"
      BY <1>8, <2>1, <2>5 DEF FlushShift
    <3>2. Kept' = (rnBuffer \o <<>>) \o r
      BY <2>1, <3>1 DEF Kept
    <3>3. q = <<>> \o r
      BY <2>2, <2>5
    <3> HIDE DEF q, r
    <3>4. <<>> \o r = r /\ rnBuffer \o <<>> = rnBuffer
      BY <1>1, <2>2, ConcatEmptySeq
    <3> QED BY <2>3, <3>2, <3>3, <3>4
  <2> QED BY <2>4, <2>5
<1>9. ASSUME FlushDeliver PROVE Kept' = Kept
  <2>1. /\ main = "deliver" /\ main' = "flush" /\ rnBuffer' = Append(rnBuffer, held)
        /\ rnPending' = rnPending
    BY <1>9 DEF FlushDeliver
  <2>2. held \in Calls /\ Kept = (rnBuffer \o <<held>>) \o q
    BY <2>1, KeptIs
  <2>3. Kept' = (Append(rnBuffer, held) \o <<>>) \o q
    BY <2>1 DEF Kept
  <2> HIDE DEF q
  <2>4. Append(rnBuffer, held) = rnBuffer \o <<held>> /\ Append(rnBuffer, held) \in Seq(Calls)
    BY <1>1, <2>2, AppendIsConcat, AppendProperties
  <2>5. Append(rnBuffer, held) \o <<>> = Append(rnBuffer, held)
    BY <2>4, ConcatEmptySeq
  <2> QED BY <2>2, <2>3, <2>4, <2>5
<1> QED BY <1>2, <1>3, <1>4, <1>5, <1>6, <1>7, <1>8, <1>9

LEMMA CapturingFinite ==
  /\ IsFiniteSet(Threads) /\ Cardinality(Threads) \in Nat
  /\ IsFiniteSet(Capturing) /\ Cardinality(Capturing) \in Nat
  /\ Cardinality(Capturing) <= Cardinality(Threads)
<1>1. IsFiniteSet(Threads)
  BY NativesAssumption
<1>2. Capturing \subseteq Threads
  BY DEF Capturing
<1>3. IsFiniteSet(Capturing) /\ Cardinality(Capturing) <= Cardinality(Threads)
  BY <1>1, <1>2, FS_Subset
<1> QED BY <1>1, <1>3, FS_CardinalityType

LEMMA RoomKept ==
  ASSUME TypeOK, RefsInv, RoomInv, Kept' = Kept \/ Kept' = <<>>, Capturing' \subseteq Capturing
  PROVE  RoomInv'
<1>1. /\ IsFiniteSet(Capturing) /\ Cardinality(Capturing) \in Nat
      /\ Cardinality(Threads) \in Nat
  BY CapturingFinite
<1>2. Cardinality(Capturing') <= Cardinality(Capturing) /\ IsFiniteSet(Capturing')
  BY <1>1, FS_Subset
<1>3. Cardinality(Capturing') \in Nat
  BY <1>2, FS_CardinalityType
<1>4. Len(Kept) \in Nat
  BY KeptIs
<1>5. Len(Kept') <= Len(Kept) /\ Len(Kept') \in Nat
  <2>1. Len(<<>>) = 0
    BY EmptySeq
  <2> QED BY <1>4, <2>1
<1> QED BY <1>1, <1>2, <1>3, <1>4, <1>5, NativesAssumption DEF RoomInv

\* A target step keeps the queues, but for the call it pushes.
LEMMA TargetKept ==
  ASSUME TypeOK, RefsInv, UNCHANGED <<main, held, rnBuffer>>,
         CallsOf(rnPending)' = CallsOf(rnPending)
  PROVE  Kept' = Kept
BY DEF Kept

\* A thread that enters: it takes room while there is some.
LEMMA EnterRoom ==
  ASSUME TypeOK, RefsInv, RoomInv, NEW t \in Threads, NEW c \in Calls, EnterStep(t, c),
         UNCHANGED <<rnHookEnabled, generation, main, held, rnBuffer, rnPending>>
  PROVE  RoomInv'
<1>1. PICK f \in Frame :
        /\ ~f.leaving
        /\ f.capture = "methods" => rnQueuedCount < Capacity
        /\ frames' = [frames EXCEPT ![t] = Append(Under(frames[t]), f)]
  BY DEF EnterStep
<1>2. Kept' = Kept
  BY TargetKept
<1>3. CASE f.capture = "methods"
  <2>1. Len(Kept) \in Nat /\ Len(Kept) <= Capacity
    <3>1. CASE main = "clear"
      <4>1. Kept = <<>> /\ Len(<<>>) = 0
        BY <3>1, KeptIs, EmptySeq
      <4> QED BY <4>1, NativesAssumption
    <3>2. CASE main # "clear"
      BY <1>1, <1>3, <3>2, KeptIs, NativesAssumption
    <3> QED BY <3>1, <3>2
  <2>2. /\ Cardinality(Capturing') \in Nat /\ Cardinality(Capturing') <= Cardinality(Threads)
        /\ Cardinality(Threads) \in Nat
    <3>1. Capturing' \subseteq Threads /\ IsFiniteSet(Threads)
      BY NativesAssumption DEF Capturing
    <3> QED BY <3>1, FS_Subset, FS_CardinalityType
  <2> QED BY <1>2, <2>1, <2>2, NativesAssumption DEF RoomInv
<1>4. CASE f.capture # "methods"
  <2> DEFINE s == frames[t]
             n == Append(Under(s), f)
  <2>1. /\ s \in Seq(Frame) /\ Len(s) \in Nat /\ DOMAIN s = 1 .. Len(s)
        /\ \A i \in DOMAIN s : s[i] \in Frame
    BY FrameTypes
  <2>2. /\ n \in Seq(Frame) /\ DOMAIN n = 1 .. Len(s) + 1
        /\ \A i \in DOMAIN s : n[i] = [s[i] EXCEPT !.forwarded = TRUE]
        /\ n[Len(s) + 1] = f
    BY <2>1, EnterProperties
  <2> HIDE DEF n
  <2>3. frames'[t] = n /\ (\A u \in Threads : u # t => frames'[u] = frames[u])
    BY <1>1, <2>2, FramesChange DEF n
  <2>4. \A i \in DOMAIN s : /\ n[i].outer = s[i].outer /\ n[i].leaving = s[i].leaving
                            /\ n[i].generation = s[i].generation
                            /\ n[i].capture = s[i].capture
    BY <2>1, <2>2 DEF Frame
  <2>5. ASSUME NEW i \in DOMAIN n, Live(frames[t][i])', n[i].capture = "methods"
        PROVE  i \in DOMAIN s /\ Live(s[i]) /\ s[i].capture = "methods"
    <3>1. i \in DOMAIN s
      BY <1>4, <2>1, <2>2, <2>5
    <3>2. n[i].leaving \/ (n[i].outer /\ rnHookEnabled /\ n[i].generation = generation)
      BY <2>3, <2>5 DEF Live, Attached
    <3> QED BY <2>4, <2>5, <3>1, <3>2 DEF Live, Attached
  <2>6. ASSUME NEW u \in Threads, u # t, NEW i \in DOMAIN frames[u], Live(frames[u][i])'
        PROVE  Live(frames[u][i])
    BY <2>3, <2>6 DEF Live, Attached
  <2>7. ASSUME NEW u \in Capturing' PROVE u \in Capturing
    <3>1. PICK i \in DOMAIN frames'[u] : Live(frames[u][i])' /\ frames'[u][i].capture = "methods"
      BY <2>7 DEF Capturing
    <3>2. u \in Threads
      BY <2>7 DEF Capturing
    <3>3. CASE u = t
      BY <2>3, <2>5, <3>1, <3>2, <3>3 DEF Capturing
    <3>4. CASE u # t
      BY <2>3, <2>6, <3>1, <3>2, <3>4 DEF Capturing
    <3> QED BY <3>3, <3>4
  <2> QED BY <1>2, <2>7, RoomKept
<1> QED BY <1>3, <1>4

LEMMA PopCapturing ==
  ASSUME TypeOK, FramesInv, NEW t \in Threads, frames[t] # <<>>, Pop(t),
         UNCHANGED <<rnHookEnabled, generation>>
  PROVE  Capturing' \subseteq IF Live(Top(t)) THEN Capturing \ {t} ELSE Capturing
<1> DEFINE s == frames[t]
           N == Len(s)
           p == SubSeq(s, 1, N - 1)
<1>1. s \in Seq(Frame) /\ Len(s) \in Nat /\ DOMAIN s = 1 .. Len(s)
  BY FrameTypes
<1>2. /\ N > 0 /\ p \in Seq(Frame) /\ DOMAIN p = 1 .. N - 1
      /\ \A i \in 1 .. N - 1 : p[i] = s[i]
  BY <1>1, PopProperties
<1>3. frames' = [frames EXCEPT ![t] = p]
  BY DEF Pop
<1> HIDE DEF p
<1>4. frames'[t] = p /\ \A u \in Threads : u # t => frames'[u] = frames[u]
  BY <1>2, <1>3, FramesChange
<1>5. ASSUME NEW u \in Capturing'
      PROVE  u \in Capturing /\ (Live(Top(t)) => u # t)
  <2>1. PICK i \in DOMAIN frames'[u] : Live(frames[u][i])' /\ frames'[u][i].capture = "methods"
    BY <1>5 DEF Capturing
  <2>2. u \in Threads
    BY <1>5 DEF Capturing
  <2>3. i \in DOMAIN frames[u] /\ frames'[u][i] = frames[u][i]
    BY <1>1, <1>2, <1>4, <2>1, <2>2
  <2>4. Live(frames[u][i])
    BY <2>1, <2>3 DEF Live, Attached
  <2>5. ASSUME u = t PROVE ~Live(Top(t))
    <3>1. i < Len(frames[t])
      BY <1>1, <1>2, <1>4, <2>1, <2>5
    <3> QED BY <2>3, <2>4, <2>5, <3>1, UnderLive
  <2> QED BY <2>1, <2>2, <2>3, <2>4, <2>5 DEF Capturing
<1> QED BY <1>5

LEMMA RefCapturing ==
  ASSUME TypeOK, NEW t \in Threads, LeaveRef(t)
  PROVE  Capturing' \subseteq Capturing
<1> DEFINE s == frames[t]
           N == Len(s)
           g == [s EXCEPT ![N] = [@ EXCEPT !.leaving = TRUE]]
<1>1. /\ s # <<>> /\ Attached(Top(t)) /\ Top(t).outer
      /\ frames' = [frames EXCEPT ![t] = g]
      /\ UNCHANGED <<rnHookEnabled, generation>>
  BY DEF LeaveRef, captureVars
<1>2. /\ s \in Seq(Frame) /\ Len(s) \in Nat /\ DOMAIN s = 1 .. Len(s)
      /\ \A i \in DOMAIN s : s[i] \in Frame /\ s[i].leaving \in BOOLEAN
  BY FrameTypes
<1>3. N > 0 /\ N \in DOMAIN s /\ Top(t) = s[N]
  BY <1>1, <1>2, PopProperties DEF Top
<1>4. [s[N] EXCEPT !.leaving = TRUE] \in Frame
  BY <1>2, <1>3 DEF Frame
<1>5. g \in Seq(Frame) /\ Len(g) = N /\ DOMAIN g = DOMAIN s
  BY <1>2, <1>3, <1>4, ExceptSeq
<1>6. \A i \in DOMAIN s : /\ g[i].generation = s[i].generation
                          /\ g[i].outer = s[i].outer /\ g[i].capture = s[i].capture
                          /\ g[i].leaving => i = N \/ s[i].leaving
  BY <1>2, <1>3 DEF Frame
<1> HIDE DEF g
<1>7. frames'[t] = g /\ (\A u \in Threads : u # t => frames'[u] = frames[u])
  BY <1>1, <1>5, FramesChange
<1>8. ASSUME NEW i \in DOMAIN g, Live(frames[t][i])'
      PROVE  i \in DOMAIN s /\ Live(s[i]) /\ g[i].capture = s[i].capture
  <2>1. g[i].leaving \/ (g[i].outer /\ rnHookEnabled /\ g[i].generation = generation)
    BY <1>1, <1>7, <1>8 DEF Live, Attached
  <2> QED BY <1>1, <1>3, <1>5, <1>6, <2>1 DEF Live, Attached
<1>9. ASSUME NEW u \in Capturing' PROVE u \in Capturing
  <2>1. PICK i \in DOMAIN frames'[u] : Live(frames[u][i])' /\ frames'[u][i].capture = "methods"
    BY <1>9 DEF Capturing
  <2>2. u \in Threads
    BY <1>9 DEF Capturing
  <2>3. CASE u = t
    BY <1>7, <1>8, <2>1, <2>2, <2>3 DEF Capturing
  <2>4. CASE u # t
    <3>1. frames'[u] = frames[u] /\ Live(frames[u][i])
      BY <1>1, <1>7, <2>1, <2>2, <2>4 DEF Live, Attached
    <3> QED BY <2>1, <2>2, <3>1 DEF Capturing
  <2> QED BY <2>3, <2>4
<1> QED BY <1>9

\* Pushing a capture takes the room that its thread held.
LEMMA PushRoom ==
  ASSUME TypeOK, FramesInv, RefsInv, RoomInv, NEW t \in Threads, LeavePush(t)
  PROVE  /\ RoomInv'
         /\ Kept' = IF main = "clear" THEN <<>> ELSE Append(Kept, Top(t).call)
         /\ main # "clear" => Len(Kept) < Capacity + Cardinality(Threads)
<1>1. /\ frames[t] # <<>> /\ Pop(t) /\ Top(t).leaving /\ Push(Top(t).call, "methods")
      /\ UNCHANGED <<rnHookEnabled, generation, main, held, rnBuffer>>
  BY DEF LeavePush, mainVars
<1>2. Top(t) = frames[t][Len(frames[t])] /\ Len(frames[t]) \in DOMAIN frames[t]
  BY <1>1, FrameTypes, PopProperties DEF Top
<1>3. Top(t).call \in Calls /\ Top(t).capture = "methods" /\ Live(Top(t))
  BY <1>1, <1>2, FrameTypes DEF Live, FramesInv, Nested
<1>4. t \in Capturing
  BY <1>2, <1>3 DEF Capturing
<1>5. Capturing' \subseteq Capturing \ {t}
  BY <1>1, <1>3, PopCapturing
<1>6. Kept' = IF main = "clear" THEN <<>> ELSE Append(Kept, Top(t).call)
  <2>1. CallsOf(rnPending)' = Append(CallsOf(rnPending), Top(t).call)
    BY <1>1, <1>3, PushCalls
  <2> QED BY <1>1, <1>3, <2>1, PushKept
<1>7. /\ IsFiniteSet(Capturing) /\ Cardinality(Capturing) \in Nat
      /\ Cardinality(Threads) \in Nat
  BY CapturingFinite
<1>8. /\ IsFiniteSet(Capturing \ {t})
      /\ Cardinality(Capturing \ {t}) = Cardinality(Capturing) - 1
  BY <1>4, <1>7, FS_RemoveElement
<1>9. /\ Cardinality(Capturing') \in Nat
      /\ Cardinality(Capturing') <= Cardinality(Capturing) - 1
  BY <1>5, <1>8, FS_Subset, FS_CardinalityType
<1>10. Kept \in Seq(Calls) /\ Len(Kept) \in Nat
  BY KeptIs
<1>11. Len(Kept') \in Nat /\ Len(Kept') <= Len(Kept) + 1
  <2>1. Len(Append(Kept, Top(t).call)) = Len(Kept) + 1
    BY <1>3, <1>10, AppendProperties
  <2>2. Len(<<>>) = 0
    BY EmptySeq
  <2> QED BY <1>6, <1>10, <2>1, <2>2
<1>12. Len(Kept) + Cardinality(Capturing) <= Capacity + Cardinality(Threads)
  BY DEF RoomInv
<1>13. Len(Kept) < Capacity + Cardinality(Threads)
  BY <1>7, <1>9, <1>10, <1>12, NativesAssumption
<1>14. RoomInv'
  BY <1>7, <1>9, <1>10, <1>11, <1>12, NativesAssumption DEF RoomInv
<1> QED BY <1>6, <1>13, <1>14

\* But for LeavePush, the target's steps keep what is kept.
LEMMA OtherKept ==
  ASSUME TypeOK, RefsInv, NEW t \in Threads,
         RegisterNatives(t) \/ Forward(t) \/ LeaveUnhooked(t) \/ Leave(t) \/ LeaveRef(t)
  PROVE  /\ Kept' = Kept
         /\ UNCHANGED <<rnHookEnabled, generation, main, held, rnBuffer, captured, listed>>
<1>1. UNCHANGED <<rnHookEnabled, generation, main, held, rnBuffer, captured, listed>>
  BY DEF RegisterNatives, Forward, LeaveUnhooked, Leave, LeaveRef, captureVars, queueVars,
     mainVars, history
<1>2. CallsOf(rnPending)' = CallsOf(rnPending)
  <2>1. CASE Leave(t) /\ Top(t).capture = "warning"
    <3>1. Push(Top(t).call, "warning") /\ frames[t] # <<>>
      BY <2>1 DEF Leave
    <3>2. Top(t).call \in Calls
      <4>1. Len(frames[t]) \in DOMAIN frames[t]
        BY <3>1, FrameTypes, PopProperties
      <4> QED BY <4>1, FrameTypes DEF Top
    <3> QED BY <3>1, <3>2, PushCalls
  <2>2. CASE ~(Leave(t) /\ Top(t).capture = "warning")
    <3>1. rnPending' = rnPending
      BY <2>2 DEF RegisterNatives, Forward, LeaveUnhooked, Leave, LeaveRef, queueVars
    <3> QED BY <3>1
  <2> QED BY <2>1, <2>2
<1> QED BY <1>1, <1>2, TargetKept

LEMMA TargetRoom ==
  ASSUME TypeOK, FramesInv, RefsInv, RoomInv, Target
  PROVE  RoomInv'
<1>1. PICK t \in Threads :
        RegisterNatives(t) \/ Forward(t) \/ LeaveUnhooked(t) \/ Leave(t) \/ LeaveRef(t)
          \/ LeavePush(t)
  BY DEF Target
<1>2. CASE RegisterNatives(t)
  <2>1. calls + 1 \in Calls
    BY <1>2, NativesAssumption DEF RegisterNatives, Calls, TypeOK
  <2>2. EnterStep(t, calls + 1)
    BY <1>2, <2>1, Enters DEF RegisterNatives
  <2>3. UNCHANGED <<rnHookEnabled, generation, main, held, rnBuffer, rnPending>>
    BY <1>2 DEF RegisterNatives, queueVars, mainVars
  <2> QED BY <2>1, <2>2, <2>3, EnterRoom
<1>3. CASE Forward(t)
  <2>1. Len(frames[t]) = 1 /\ OnEnter(t, Top(t).call)
    BY <1>3 DEF Forward
  <2>2. Top(t).call \in Calls
    <3>1. 1 \in DOMAIN frames[t] /\ Top(t) = frames[t][1]
      BY <2>1, FrameTypes DEF Top
    <3> QED BY <3>1, FrameTypes
  <2>3. EnterStep(t, Top(t).call)
    BY <2>1, <2>2, Enters
  <2>4. UNCHANGED <<rnHookEnabled, generation, main, held, rnBuffer, rnPending>>
    BY <1>3 DEF Forward, queueVars, mainVars
  <2> QED BY <2>2, <2>3, <2>4, EnterRoom
<1>4. CASE LeaveUnhooked(t) \/ Leave(t)
  <2>1. frames[t] # <<>> /\ Pop(t)
    BY <1>4 DEF LeaveUnhooked, Leave
  <2>2. Kept' = Kept /\ UNCHANGED <<rnHookEnabled, generation>>
    BY <1>4, OtherKept
  <2>3. Capturing' \subseteq Capturing
    BY <2>1, <2>2, PopCapturing
  <2> QED BY <2>2, <2>3, RoomKept
<1>5. CASE LeaveRef(t)
  <2>1. Kept' = Kept
    BY <1>5, OtherKept
  <2> QED BY <1>5, <2>1, RefCapturing, RoomKept
<1>6. CASE LeavePush(t)
  BY <1>6, PushRoom
<1> QED BY <1>1, <1>2, <1>3, <1>4, <1>5, <1>6

LEMMA HandlerRoom ==
  ASSUME TypeOK, FramesInv, RefsInv, RoomInv, Handler
  PROVE  RoomInv'
<1>1. Kept' = Kept \/ Kept' = <<>>
  BY HandlerKept DEF Handler
<1>2. frames' = frames
  BY DEF Handler, RnEnable, RnDisable, ClearPending, ClearDone, RnList, FlushShift,
     FlushDeliver, FlushDone
<1>3. ASSUME NEW t \in Threads, NEW i \in DOMAIN frames[t], Live(frames[t][i])'
      PROVE  Live(frames[t][i])
  <2>1. frames[t][i].leaving \/ (frames[t][i].outer /\ rnHookEnabled' /\ frames[t][i].generation = generation')
    BY <1>2, <1>3 DEF Live, Attached
  <2>2. CASE RnEnable
    <3>1. frames[t][i].generation \in Nat /\ generation \in Nat
      BY FrameTypes DEF TypeOK
    <3>2. frames[t][i].generation <= generation /\ generation' = generation + 1
      BY <2>2 DEF RnEnable, FramesInv, Nested
    <3>3. frames[t][i].generation # generation'
      BY <3>1, <3>2
    <3> QED BY <2>1, <3>3 DEF Live
  <2>3. CASE RnDisable
    BY <2>1, <2>3 DEF RnDisable, Live
  <2>4. CASE ClearPending \/ ClearDone \/ RnList \/ FlushShift \/ FlushDeliver \/ FlushDone
    <3>1. UNCHANGED <<rnHookEnabled, generation>>
      BY <2>4 DEF ClearPending, ClearDone, RnList, FlushShift, FlushDeliver, FlushDone,
         captureVars
    <3> QED BY <2>1, <3>1 DEF Live, Attached
  <2> QED BY <2>2, <2>3, <2>4 DEF Handler
<1>4. Capturing' \subseteq Capturing
  BY <1>2, <1>3 DEF Capturing
<1> QED BY <1>1, <1>4, RoomKept

-----------------------------------------------------------------------------
(* The invariant.                                                          *)

LEMMA InitHolds ==
  ASSUME Init
  PROVE  NativesInv
<1> USE DEF Init
<1>1. <<>> \in Seq(Entry) /\ <<>> \in Seq(Calls) /\ <<>> \in Seq(Frame)
  BY EmptySeq
<1>2. DOMAIN <<>> = {} /\ Len(<<>>) = 0
  BY EmptySeq, LenProperties
<1>3. TypeOK
  <2>1. /\ rnDepth \in [Threads -> BOOLEAN] /\ frames \in [Threads -> Seq(Frame)]
        /\ refs \in [Calls -> Nat]
    BY <1>1
  <2>2. /\ rnPending \in Seq(Entry) /\ rnBuffer \in Seq(Calls) /\ listed \in Seq(Calls)
        /\ calls \in 0 .. MaxCalls /\ requests \in 0 .. MaxRequests
    BY <1>1, NativesAssumption
  <2>3. /\ rnHookEnabled \in BOOLEAN /\ generation \in Nat
        /\ main \in {"idle", "flush", "deliver", "clear"} /\ held \in Calls \cup {0}
        /\ captured \subseteq Calls /\ late \subseteq Calls
    OBVIOUS
  <2> QED BY <2>1, <2>2, <2>3 DEF TypeOK
<1>4. FramesInv
  BY <1>2 DEF FramesInv, Nested, DepthKnown
<1>5. CallsOf(rnPending) = <<>>
  BY CallsOfEmpty
<1>6. Leaving = {} /\ Capturing = {}
  BY <1>2 DEF Leaving, Capturing
<1>7. RefsInv
  <2>1. Referring = <<>>
    BY <1>1, <1>5, ConcatEmptySeq DEF Referring
  <2>2. Members(Referring) = {}
    BY <1>2, <2>1 DEF Members
  <2> QED BY <1>2, <1>6, <2>1, <2>2 DEF RefsInv
<1>8. OffInv
  BY <1>2, <1>6 DEF OffInv
<1>9. RoomInv
  <2>1. Kept = <<>>
    BY <1>1, <1>5, ConcatEmptySeq DEF Kept
  <2>2. Cardinality(Capturing) = 0
    BY <1>6, FS_EmptySet
  <2> QED BY <1>2, <2>1, <2>2, CapturingFinite, NativesAssumption DEF RoomInv
<1> QED BY <1>3, <1>4, <1>7, <1>8, <1>9 DEF NativesInv

LEMMA StepHolds ==
  ASSUME NativesInv, [Next]_vars
  PROVE  NativesInv'
<1> USE DEF NativesInv
<1>1. CASE Target
  <2>1. TypeOK'
    BY <1>1, TargetTypes
  <2> QED BY <1>1, <2>1, TargetFrames, TargetRefs, TargetOff, TargetRoom
<1>2. CASE Handler
  <2>1. TypeOK'
    BY <1>2, HandlerTypes
  <2> QED BY <1>2, <2>1, HandlerFrames, HandlerRefs, HandlerOff, HandlerRoom
<1>3. CASE UNCHANGED vars
  <2>1. /\ UNCHANGED <<rnHookEnabled, generation, rnDepth, rnPending, rnBuffer, main, held>>
        /\ UNCHANGED <<frames, refs, calls, requests, captured, listed, late>>
    BY <1>3 DEF vars, captureVars, queueVars, mainVars, history
  <2>2. TypeOK'
    BY <2>1 DEF TypeOK
  <2>3. FramesInv'
    BY <2>1 DEF FramesInv, Nested, DepthKnown, Open, Live, Attached
  <2>4. Leaving' = Leaving /\ Capturing' = Capturing /\ Kept' = Kept
    BY <2>1 DEF Leaving, Capturing, Kept, Live, Attached
  <2>5. RefsInv'
    BY <2>1, <2>4, RefsFrame
  <2>6. OffInv'
    BY <2>1, <2>4 DEF OffInv
  <2>7. RoomInv'
    BY <2>4, RoomKept
  <2> QED BY <2>2, <2>3, <2>5, <2>6, <2>7
<1> QED BY <1>1, <1>2, <1>3 DEF Next, Rest

\* Every reachable state has the parts of NativesInv (rnSet, rnOnEnter, rnOnLeave,
\* rnFlushPending, rnClearPending).
THEOREM NativesInvariant == Spec => []NativesInv
<1>1. Init => NativesInv
  BY InitHolds
<1>2. NativesInv /\ [Next]_vars => NativesInv'
  BY StepHolds
<1>3. QED
  BY <1>1, <1>2, PTL DEF Spec

\* Every variable has its type.
THEOREM TypeCorrect == Spec => []TypeOK
<1>1. NativesInv => TypeOK
  BY DEF NativesInv
<1>2. QED
  BY <1>1, NativesInvariant, PTL

\* Each global reference to a class has one holder that will delete it, when the
\* hook is disabled in the middle of a call or of a listing too (rnNewGlobalRef,
\* rnDeleteGlobalRef).
THEOREM ReferencesBalanced == Spec => []RefsBalanced
<1>1. ASSUME NativesInv PROVE RefsBalanced
  <2> USE DEF NativesInv
  <2>1. PendingCalls = Members(CallsOf(rnPending))
    BY DEF PendingCalls, Members
  <2>2. /\ main # "deliver" => Members(Referring) = PendingCalls
        /\ main = "deliver" => Members(Referring) = {held} \cup PendingCalls
    <3> DEFINE q == CallsOf(rnPending)
    <3>1. /\ q \in Seq(Calls)
          /\ main # "deliver" => Referring = q
          /\ main = "deliver" => Referring = <<held>> \o q /\ held \in Calls
      BY <1>1, ReferringIs
    <3> HIDE DEF q
    <3>2. PendingCalls = Members(q)
      BY <2>1 DEF q
    <3>3. main = "deliver" => Members(<<held>> \o q) = {held} \cup Members(q)
      BY <3>1, ConcatMembers
    <3> QED BY <3>1, <3>2, <3>3
  <2>3. \A c \in Calls : refs[c] = IF c \in Leaving \cup Members(Referring) THEN 1 ELSE 0
    BY <1>1 DEF RefsInv
  <2>4. \A c \in Calls : c \in Leaving \cup Members(Referring)
          <=> c \in Leaving \cup PendingCalls \/ (main = "deliver" /\ held = c)
    BY <2>2
  <2> QED BY <2>3, <2>4 DEF RefsBalanced
<1>2. QED
  BY <1>1, NativesInvariant, PTL

\* No thread is blind: outside RegisterNatives its depth is not set, whenever the
\* hook was disabled or enabled anew (rnOnEnter, rnOnLeave, rnSet).
THEOREM NobodyBlind == Spec => []NoThreadBlind
<1>1. ASSUME NativesInv PROVE NoThreadBlind
  <2>1. DOMAIN <<>> = {}
    BY EmptySeq, LenProperties
  <2> QED BY <1>1, <2>1 DEF NativesInv, FramesInv, DepthKnown, NoThreadBlind
<1>2. QED
  BY <1>1, NativesInvariant, PTL

\* Once off has returned, only calls whose onLeave was under way can still be
\* queued (rnSet, rnClearPending).
THEOREM OffLeavesNothing == Spec => []OffClears
<1>1. NativesInv => OffClears
  BY DEF NativesInv, OffInv, OffClears
<1>2. QED
  BY <1>1, NativesInvariant, PTL

-----------------------------------------------------------------------------
(* The queues implement Captures.                                          *)

LEMMA QueueInit ==
  ASSUME Init
  PROVE  Queue!CapturesInit
<1>1. CallsOf(rnPending) = <<>>
  BY CallsOfEmpty DEF Init
<1>2. Kept = <<>>
  BY <1>1, EmptySeq, ConcatEmptySeq DEF Init, Kept
<1> QED BY <1>2 DEF Init, Queue!CapturesInit

LEMMA PushMaps ==
  ASSUME NativesInv, NEW t \in Threads, LeavePush(t)
  PROVE  \E c \in Calls : Queue!Capture(c) \/ Queue!Drop(c)
<1> DEFINE c == Top(t).call
<1>1. /\ frames[t] # <<>> /\ Top(t).leaving
      /\ captured' = captured \cup {c}
      /\ UNCHANGED <<rnHookEnabled, main, listed>>
  BY DEF LeavePush, mainVars
<1>2. Len(frames[t]) \in DOMAIN frames[t] /\ Top(t) = frames[t][Len(frames[t])]
  BY <1>1, FrameTypes, PopProperties DEF NativesInv, Top
<1>3. c \in Calls
  BY <1>2, FrameTypes DEF NativesInv
<1>4. c \notin captured
  BY <1>1, <1>2 DEF NativesInv, FramesInv, Open, Live
<1>5. /\ Kept' = IF main = "clear" THEN <<>> ELSE Append(Kept, c)
      /\ main # "clear" => Len(Kept) < Capacity + Cardinality(Threads)
  BY PushRoom DEF NativesInv
<1>6. CASE main = "clear"
  <2>1. ~rnHookEnabled /\ Kept = <<>>
    BY <1>6 DEF NativesInv, OffInv, Kept
  <2>2. Queue!Drop(c)
    BY <1>1, <1>4, <1>5, <1>6, <2>1 DEF Queue!Drop
  <2> QED BY <1>3, <2>2
<1>7. CASE main # "clear"
  <2>1. Queue!Capture(c)
    BY <1>1, <1>4, <1>5, <1>7 DEF Queue!Capture
  <2> QED BY <1>3, <2>1
<1> QED BY <1>6, <1>7

LEMMA QueueStep ==
  ASSUME NativesInv, [Next]_vars
  PROVE  [Queue!CapturesNext]_(Queue!captureVars)
<1> SUFFICES Queue!CapturesNext \/ UNCHANGED <<rnHookEnabled, Kept, captured, listed>>
  BY DEF Queue!captureVars
<1>1. CASE Target
  <2>1. PICK t \in Threads :
          RegisterNatives(t) \/ Forward(t) \/ LeaveUnhooked(t) \/ Leave(t) \/ LeaveRef(t)
            \/ LeavePush(t)
    BY <1>1 DEF Target
  <2>2. CASE LeavePush(t)
    <3>1. \E c \in Calls : Queue!Capture(c) \/ Queue!Drop(c)
      BY <2>2, PushMaps
    <3> QED BY <3>1 DEF Queue!CapturesNext
  <2>3. CASE ~LeavePush(t)
    BY <2>1, <2>3, OtherKept DEF NativesInv
  <2> QED BY <2>2, <2>3
<1>2. CASE Handler
  <2> USE HandlerKept DEF NativesInv
  <2>1. CASE RnEnable
    <3>1. Kept' = Kept
      BY <1>2, <2>1
    <3>2. Queue!On
      BY <2>1, <3>1 DEF RnEnable, history, Queue!On
    <3> QED BY <3>2 DEF Queue!CapturesNext
  <2>2. CASE RnDisable
    <3>1. Kept' = <<>>
      BY <1>2, <2>2
    <3>2. Queue!Off
      BY <2>2, <3>1 DEF RnDisable, Queue!Off
    <3> QED BY <3>2 DEF Queue!CapturesNext
  <2>3. CASE FlushDone
    <3>1. Kept' = <<>> /\ listed' = Kept
      BY <1>2, <2>3
    <3>2. Queue!List
      BY <2>3, <3>1 DEF FlushDone, captureVars, Queue!List
    <3> QED BY <3>2 DEF Queue!CapturesNext
  <2>4. CASE ClearPending \/ ClearDone \/ RnList \/ FlushShift \/ FlushDeliver
    <3>1. Kept' = Kept
      BY <1>2, <2>4
    <3>2. UNCHANGED <<rnHookEnabled, captured, listed>>
      BY <2>4 DEF ClearPending, ClearDone, RnList, FlushShift, FlushDeliver, captureVars,
         history
    <3> QED BY <3>1, <3>2
  <2> QED BY <1>2, <2>1, <2>2, <2>3, <2>4 DEF Handler
<1>3. CASE UNCHANGED vars
  BY <1>3 DEF vars, captureVars, queueVars, mainVars, history, Kept
<1> QED BY <1>1, <1>2, <1>3 DEF Next, Rest

\* However captures, listings and clears overlap, a call is captured once, a list
\* has every capture kept, in order, and there is room for each: what is kept
\* exceeds RN_BUFFER_MAX by as many calls as there are threads at most (rnOnEnter,
\* rnOnLeave, rnFlushPending, rnClearPending).
THEOREM QueuesAreCaptures == Spec => ImplementsCaptures
<1>1. Init => Queue!CapturesInit
  BY QueueInit
<1>2. NativesInv /\ [Next]_vars => [Queue!CapturesNext]_(Queue!captureVars)
  BY QueueStep
<1>3. QED
  BY <1>1, <1>2, NativesInvariant, PTL DEF Spec, ImplementsCaptures, Queue!CapturesSpec

=============================================================================
