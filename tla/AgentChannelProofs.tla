-------------------------- MODULE AgentChannelProofs --------------------------
(***************************************************************************)
(* Theorems about AgentChannel for every set of clients, every assignment  *)
(* of outer locks and every value of the bounds.                           *)
(***************************************************************************)
EXTENDS AgentChannel, SequenceTheorems, TLAPS

\* req_lock is held exactly by the client whose step is a locked one.
LockOwned == \A c \in Clients : pc[c] \in LockedSteps <=> reqLock = c

\* A reply that is ready is there.
ReplyThere == replyReady => reply \in Replies

\* A client inside a handler has a numbered call.
CallNumbered == \A c \in Clients : Active(c) => call[c] # 0

\* The inductive invariant behind TypeOK and SlotOwned.
SlotRest == LockOwned /\ SlotOwned /\ ReplyThere /\ CallNumbered
SlotInv == TypeOK /\ SlotRest

-----------------------------------------------------------------------------
(* The message buffer.                                                     *)

\* Newest keeps at most Capacity items, the last ones, in their order.
LEMMA NewestKeeps ==
  ASSUME NEW S, NEW buf \in Seq(S)
  PROVE  /\ Newest(buf) \in Seq(S)
         /\ Len(Newest(buf)) = IF Len(buf) > Capacity THEN Capacity ELSE Len(buf)
         /\ \A i \in 1 .. Len(Newest(buf)) :
              Newest(buf)[i] = buf[Len(buf) - Len(Newest(buf)) + i]
<1>0. Capacity \in Nat \ {0}
  BY BoundsAssumption
<1>1. CASE Len(buf) > Capacity
  <2> DEFINE low == Len(buf) - Capacity + 1
  <2>1. low \in Int /\ Len(buf) \in Int /\ low >= 1 /\ low <= Len(buf)
    BY <1>0, <1>1
  <2>2. \A i \in low .. Len(buf) : buf[i] \in S
    BY <2>1
  <2>3. /\ SubSeq(buf, low, Len(buf)) \in Seq(S)
        /\ Len(SubSeq(buf, low, Len(buf))) = Capacity
        /\ \A i \in 1 .. Capacity : SubSeq(buf, low, Len(buf))[i] = buf[low + i - 1]
    <3>1. Len(buf) - low + 1 = Capacity
      BY <1>0, <2>1
    <3>2. QED BY <2>1, <2>2, <3>1, SubSeqProperties
  <2>4. QED BY <1>0, <1>1, <2>1, <2>3 DEF Newest
<1>2. CASE ~(Len(buf) > Capacity)
  BY <1>0, <1>2 DEF Newest
<1>3. QED BY <1>1, <1>2

\* The types of the buffer variables after a push.
LEMMA PushTypes ==
  ASSUME TypeOK, NEW m, m.kind \in {"event", "reply"}, Push(m)
  PROVE  BufferTypes'
<1> DEFINE Item == [n : Nat, kind : {"event", "reply"}]
           all == Append(messages, [n |-> arrived + 1, kind |-> m.kind])
<1>1. all \in Seq(Item) /\ Len(all) \in Nat
  BY DEF TypeOK, BufferTypes
<1>2. Newest(all) \in Seq(Item) /\ Len(Newest(all)) <= Len(all)
  <2>1. Newest(all) \in Seq(Item)
        /\ Len(Newest(all)) = IF Len(all) > Capacity THEN Capacity ELSE Len(all)
    BY <1>1, NewestKeeps
  <2>2. QED BY <1>1, <2>1, BoundsAssumption
<1>3. Len(Newest(all)) \in Nat
  BY <1>2
<1>4. QED BY <1>1, <1>2, <1>3 DEF Push, TypeOK, BufferTypes

-----------------------------------------------------------------------------
(* TypeOK is preserved.                                                    *)

\* A group of variables that does not change keeps its types.
LEMMA Frame ==
  ASSUME TypeOK
  PROVE  /\ UNCHANGED clientVars => ClientTypes'
         /\ UNCHANGED slotVars => SlotTypes'
         /\ UNCHANGED cancelVars => CancelTypes'
         /\ UNCHANGED bufferVars => BufferTypes'
         /\ UNCHANGED wireVars => WireTypes'
         /\ UNCHANGED <<reqLock, scriptVars, asked, bounds>> => OtherTypes'
BY DEF TypeOK, ClientTypes, SlotTypes, CancelTypes, BufferTypes, WireTypes, OtherTypes,
       clientVars, slotVars, cancelVars, bufferVars, wireVars, scriptVars

\* Leaving the wait loop changes the client's step and its result.
LEMMA DrainTypes ==
  ASSUME TypeOK, NEW c \in Clients,
         NEW why \in {"reply", "cancelled", "gone", "timeout"}, Drained(c, why)
  PROVE  TypeOK'
<1>1. ClientTypes'
  BY DEF Drained, Goto, TypeOK, ClientTypes, Steps, LockedSteps, InFlightSteps, Errors
<1>2. QED BY <1>1, Frame DEF Drained, TypeOK

LEMMA HandlerTypes ==
  ASSUME SlotInv, NEW c \in Clients, HandlerStep(c)
  PROVE  TypeOK'
<1> USE DEF Goto, Fail, Steps, LockedSteps, InFlightSteps, Errors
<1>0. TypeOK
  BY DEF SlotInv
<1>1. CASE EnsureLock(c)
  <2>1. ClientTypes' /\ CancelTypes' /\ OtherTypes'
    BY <1>0, <1>1 DEF EnsureLock, TypeOK, ClientTypes, CancelTypes, OtherTypes, scriptVars
  <2>2. QED BY <1>0, <1>1, <2>1, Frame DEF EnsureLock, TypeOK
<1>2. CASE EnsureLive(c)
  <2>1. ClientTypes' /\ CancelTypes' /\ OtherTypes'
    BY <1>0, <1>2 DEF EnsureLive, ResetFlag, TypeOK, ClientTypes, CancelTypes, OtherTypes,
                      scriptVars
  <2>2. QED BY <1>0, <1>2, <2>1, Frame DEF EnsureLive, TypeOK
<1>3. CASE EnsureReload(c)
  <2>1. ClientTypes' /\ CancelTypes'
    BY <1>0, <1>3 DEF EnsureReload, ResetFlag, TypeOK, ClientTypes, CancelTypes
  <2>2. CASE script = "dead"
    <3>1. Teardown(c)
      BY <1>3, <2>2 DEF EnsureReload
    <3>2. SlotTypes'
      BY <1>0, <3>1 DEF Teardown, TypeOK, SlotTypes
    <3>3. toHost' \in Seq(Replies \cup {Event})
      <4> DEFINE Wire == Replies \cup {Event}
      <4>1. toHost \in Seq(Wire)
        BY <1>0 DEF TypeOK, WireTypes
      <4>2. toHost # <<>> => <<Head(toHost)>> \in Seq(Wire)
        <5> HIDE DEF Wire
        <5>1. toHost # <<>> => Head(toHost) \in Wire
          BY <4>1, HeadTailProperties
        <5>2. QED BY <5>1
      <4>3. toHost' = <<>> \/ (toHost # <<>> /\ toHost' = <<Head(toHost)>>)
        BY <3>1 DEF Teardown
      <4>4. <<>> \in Seq(Wire)
        OBVIOUS
      <4> HIDE DEF Wire
      <4>5. toHost' \in Seq(Wire)
        BY <4>2, <4>3, <4>4
      <4>6. QED BY <4>5 DEF Wire
    <3>4. WireTypes'
      BY <1>0, <3>1, <3>3 DEF Teardown, TypeOK, WireTypes
    <3>5. OtherTypes'
      BY <1>0, <1>3, <3>1 DEF EnsureReload, Teardown, TypeOK, OtherTypes
    <3>6. QED BY <1>0, <1>3, <2>1, <3>2, <3>4, <3>5, Frame DEF EnsureReload, TypeOK
  <2>3. CASE script # "dead"
    <3>1. UNCHANGED <<slotVars, scriptVars, wireVars>>
      BY <1>3, <2>3 DEF EnsureReload
    <3>2. OtherTypes'
      BY <1>0, <1>3, <3>1 DEF EnsureReload, TypeOK, OtherTypes, scriptVars
    <3>3. QED BY <1>0, <1>3, <2>1, <3>1, <3>2, Frame DEF EnsureReload, TypeOK
  <2>4. QED BY <2>2, <2>3
<1>4. CASE LoadDone(c)
  <2>1. ClientTypes' /\ OtherTypes'
    BY <1>0, <1>4 DEF LoadDone, TypeOK, ClientTypes, OtherTypes
  <2>2. WireTypes'
    BY <1>0, <1>4 DEF LoadDone, TypeOK, WireTypes
  <2>3. QED BY <1>0, <1>4, <2>1, <2>2, Frame DEF LoadDone, TypeOK
<1>5. CASE LoadFailed(c)
  <2>1. ClientTypes' /\ OtherTypes'
    BY <1>0, <1>5 DEF LoadFailed, TypeOK, ClientTypes, OtherTypes, scriptVars
  <2>2. QED BY <1>0, <1>5, <2>1, Frame DEF LoadFailed, TypeOK
<1>6. CASE DrawId(c)
  <2>1. ClientTypes'
    BY <1>0, <1>6 DEF DrawId, TypeOK, ClientTypes, SlotTypes
  <2>2. QED BY <1>0, <1>6, <2>1, Frame DEF DrawId, TypeOK
<1>7. CASE WriteNextId(c)
  <2>1. ClientTypes' /\ SlotTypes'
    BY <1>0, <1>7 DEF WriteNextId, TypeOK, ClientTypes, SlotTypes
  <2>2. QED BY <1>0, <1>7, <2>1, Frame DEF WriteNextId, TypeOK
<1>8. CASE Register(c)
  <2>1. ClientTypes' /\ OtherTypes'
    BY <1>0, <1>8 DEF Register, TypeOK, ClientTypes, OtherTypes, scriptVars
  <2>2. SlotTypes'
    <3>1. CASE id[c] \in pending
      BY <1>0, <1>8, <3>1, Frame DEF Register
    <3>2. CASE id[c] \notin pending
      <4>1. id[c] \in Nat
        BY <1>0 DEF TypeOK, ClientTypes
      <4>2. /\ pending' = pending \cup {id[c]} /\ awaitId' = id[c]
            /\ replyReady' = FALSE /\ reply' = None /\ nextId' = nextId
        BY <1>8, <3>2 DEF Register
      <4>3. QED BY <1>0, <4>1, <4>2 DEF TypeOK, SlotTypes
    <3>3. QED BY <3>1, <3>2
  <2>3. WireTypes'
    <3>1. status' \in [Calls -> {"new", "sent", "executed"}]
      BY <1>0, <1>8 DEF Register, TypeOK, WireTypes
    <3>2. QED BY <1>0, <1>8, <3>1 DEF Register, TypeOK, WireTypes
  <2>4. QED BY <1>0, <1>8, <2>1, <2>2, <2>3, Frame DEF Register, TypeOK
<1>9. CASE Post(c)
  <2>1. call[c] \in Calls /\ id[c] \in Nat
    BY <1>9 DEF Post, SlotInv, SlotRest, TypeOK, ClientTypes, Calls, CallNumbered, Active
  <2>2. ClientTypes'
    BY <1>0, <1>9 DEF Post, TypeOK, ClientTypes
  <2>3. WireTypes'
    <3> DEFINE r == [id |-> id[c], call |-> call[c]]
    <3>1. r \in [id : Nat, call : Calls]
      BY <2>1
    <3>2. toAgent' \in Seq([id : Nat, call : Calls])
      <4> DEFINE R == [id : Nat, call : Calls]
      <4>1. toAgent' = Append(toAgent, r) \/ toAgent' = toAgent
        BY <1>9 DEF Post
      <4>2. toAgent \in Seq(R) /\ r \in R
        BY <1>0, <3>1 DEF TypeOK, WireTypes
      <4> HIDE DEF r, R
      <4>3. toAgent' \in Seq(R)
        BY <4>1, <4>2, AppendProperties
      <4>4. QED BY <4>3 DEF R
    <3>3. QED BY <1>0, <1>9, <3>2 DEF Post, TypeOK, WireTypes
  <2>4. QED BY <1>0, <1>9, <2>2, <2>3, Frame DEF Post, TypeOK
<1>10. CASE DrainReply(c) \/ DrainCancelled(c) \/ DrainGone(c)
  BY <1>10, DrainTypes, <1>0 DEF DrainReply, DrainCancelled, DrainGone
<1>11. CASE Finish(c)
  <2>1. result[c] = "reply" => reply \in Replies
    BY <1>11 DEF Finish, SlotInv, SlotRest, SlotOwned, ReplyThere, InFlight
  <2>2. ClientTypes'
    <3>1. result[c] = "reply" => reply.call \in 0 .. MaxCalls
      BY <2>1, BoundsAssumption DEF Replies, Calls
    <3>2. answer' \in [Clients -> 0 .. MaxCalls]
      BY <1>0, <1>11, <3>1 DEF Finish, TypeOK, ClientTypes
    <3>3. QED BY <1>0, <1>11, <3>2 DEF Finish, TypeOK, ClientTypes
  <2>3. SlotTypes' /\ OtherTypes'
    BY <1>0, <1>11 DEF Finish, TypeOK, SlotTypes, OtherTypes, scriptVars
  <2>4. QED BY <1>0, <1>11, <2>2, <2>3, Frame DEF Finish, TypeOK
<1>12. CASE Return(c)
  <2>1. ClientTypes' /\ OtherTypes'
    BY <1>0, <1>12 DEF Return, TypeOK, ClientTypes, OtherTypes
  <2>2. QED BY <1>0, <1>12, <2>1, Frame DEF Return, TypeOK
<1>13. QED
  BY <1>1, <1>2, <1>3, <1>4, <1>5, <1>6, <1>7, <1>8, <1>9, <1>10, <1>11, <1>12
     DEF HandlerStep

LEMMA ClientTypesKept ==
  ASSUME SlotInv, NEW c \in Clients, ClientNext(c)
  PROVE  TypeOK'
<1> USE DEF Goto, Steps, LockedSteps, InFlightSteps
<1>0. TypeOK
  BY DEF SlotInv
<1>1. CASE Enter(c)
  <2>1. ClientTypes' /\ OtherTypes'
    BY <1>0, <1>1, BoundsAssumption DEF Enter, TypeOK, ClientTypes, OtherTypes, scriptVars
  <2>2. QED BY <1>0, <1>1, <2>1, Frame DEF Enter, TypeOK
<1>2. CASE HandlerStep(c)
  BY <1>2, HandlerTypes
<1>3. CASE DrainTimeout(c)
  BY <1>0, <1>3, DrainTypes DEF DrainTimeout
<1>4. CASE RequestAgain(c)
  <2>1. ClientTypes' /\ OtherTypes'
    BY <1>0, <1>4, BoundsAssumption DEF RequestAgain, TypeOK, ClientTypes, OtherTypes, scriptVars
  <2>2. QED BY <1>0, <1>4, <2>1, Frame DEF RequestAgain, TypeOK
<1>5. CASE DrainMessages(c)
  <2>1. BufferTypes'
    BY <1>0, <1>5 DEF DrainMessages, TypeOK, BufferTypes
  <2>2. OtherTypes'
    BY <1>0, <1>5, BoundsAssumption DEF DrainMessages, TypeOK, OtherTypes, scriptVars
  <2>3. QED BY <1>0, <1>5, <2>1, <2>2, Frame DEF DrainMessages, TypeOK
<1>6. QED BY <1>1, <1>2, <1>3, <1>4, <1>5 DEF ClientNext

\* The first message on the wire and the rest of the wire.
LEMMA WireHead ==
  ASSUME TypeOK, toHost # <<>>
  PROVE  /\ Head(toHost) \in Replies \cup {Event}
         /\ Head(toHost).kind \in {"event", "reply"}
         /\ Head(toHost).kind = "reply" => Head(toHost) \in Replies
         /\ Tail(toHost) \in Seq(Replies \cup {Event})
<1>1. toHost \in Seq(Replies \cup {Event})
  BY DEF TypeOK, WireTypes
<1> DEFINE Wire == Replies \cup {Event}
<1>2. Head(toHost) \in Wire /\ Tail(toHost) \in Seq(Wire)
  <2> HIDE DEF Wire
  <2>1. toHost \in Seq(Wire)
    BY <1>1 DEF Wire
  <2>2. QED BY <2>1, HeadTailProperties
<1>3. QED BY <1>2 DEF Replies, Event

LEMMA EnvironmentTypes ==
  ASSUME SlotInv, Environment
  PROVE  TypeOK'
<1>0. TypeOK
  BY DEF SlotInv
<1>1. CASE OnMessage
  <2> DEFINE m == Head(toHost)
             own == m.kind = "reply" /\ m.id = awaitId /\ m.id \in pending
  <2>1. /\ m.kind \in {"event", "reply"}
        /\ m.kind = "reply" => m \in Replies
        /\ toHost' \in Seq(Replies \cup {Event})
    BY <1>0, <1>1, WireHead DEF OnMessage
  <2>2. WireTypes'
    BY <1>0, <1>1, <2>1 DEF OnMessage, TypeOK, WireTypes
  <2>3. SlotTypes' /\ BufferTypes'
    <3>1. CASE own
      <4>1. /\ reply' = m /\ replyReady' = TRUE /\ pending' = pending \ {m.id}
            /\ UNCHANGED <<nextId, awaitId, bufferVars>>
        BY <1>1, <3>1 DEF OnMessage
      <4>2. SlotTypes'
        BY <1>0, <2>1, <3>1, <4>1 DEF TypeOK, SlotTypes
      <4>3. QED BY <1>0, <4>1, <4>2, Frame
    <3>2. CASE ~own
      <4>1. Push(m) /\ UNCHANGED slotVars
        BY <1>1, <3>2 DEF OnMessage, slotVars
      <4>2. BufferTypes'
        BY <1>0, <2>1, <4>1, PushTypes
      <4>3. QED BY <1>0, <4>1, <4>2, Frame
    <3>3. QED BY <3>1, <3>2
  <2>4. QED BY <1>0, <1>1, <2>2, <2>3, Frame DEF OnMessage, TypeOK
<1>2. CASE AgentHandle
  <2> DEFINE R == [id : Nat, call : Calls]
             r == Head(toAgent)
             m == [kind |-> "reply", id |-> r.id, call |-> r.call]
             Wire == Replies \cup {Event}
  <2>1. r \in R /\ Tail(toAgent) \in Seq(R)
    <3>1. toAgent \in Seq(R) /\ toAgent # <<>>
      BY <1>0, <1>2 DEF AgentHandle, TypeOK, WireTypes
    <3> HIDE DEF R
    <3>2. QED BY <3>1, HeadTailProperties
  <2>2. m \in Wire
    BY <2>1, BoundsAssumption DEF Replies, Calls
  <2>3. toHost' \in Seq(Wire)
    <3>1. toHost \in Seq(Wire) /\ toHost' = Append(toHost, m)
      BY <1>0, <1>2 DEF AgentHandle, TypeOK, WireTypes
    <3> HIDE DEF Wire, m
    <3>2. QED BY <2>2, <3>1, AppendProperties
  <2>4. status' \in [Calls -> {"new", "sent", "executed"}]
    BY <1>0, <1>2 DEF AgentHandle, TypeOK, WireTypes
  <2>5. WireTypes'
    BY <1>2, <2>1, <2>3, <2>4 DEF AgentHandle, WireTypes
  <2>6. QED BY <1>0, <1>2, <2>5, Frame DEF AgentHandle, TypeOK
<1>3. CASE AgentEvent
  <2>1. OtherTypes'
    <3>1. /\ bounds.events < MaxEvents /\ bounds' = [bounds EXCEPT !.events = @ + 1]
          /\ UNCHANGED <<reqLock, script, attached, asked, torn>>
      BY <1>3 DEF AgentEvent, scriptVars
    <3>2. QED BY <1>0, <3>1, BoundsAssumption DEF TypeOK, OtherTypes
  <2>2. WireTypes'
    BY <1>0, <1>3 DEF AgentEvent, TypeOK, WireTypes
  <2>3. QED BY <1>0, <1>3, <2>1, <2>2, Frame DEF AgentEvent, TypeOK
<1>4. CASE ScriptDies \/ SessionDetaches
  <2>1. Destroyed /\ (attached' = attached \/ attached' = FALSE)
    BY <1>4 DEF ScriptDies, SessionDetaches
  <2>2. OtherTypes'
    <3>1. /\ bounds.deaths < MaxDeaths /\ bounds' = [bounds EXCEPT !.deaths = @ + 1]
          /\ script' \in {script, "dead"}
          /\ UNCHANGED <<reqLock, asked, torn>>
      BY <2>1 DEF Destroyed
    <3>2. attached' \in BOOLEAN
      BY <1>0, <2>1, Zenon DEF TypeOK, OtherTypes
    <3>3. /\ reqLock' \in Clients \cup {None} /\ script' \in {"none", "live", "dead"}
          /\ asked' \in [Clients -> BOOLEAN] /\ torn' \in [Clients -> SUBSET Clients]
      BY <1>0, <3>1 DEF TypeOK, OtherTypes
    <3>4. bounds' \in [calls : 0 .. MaxCalls, events : 0 .. MaxEvents,
                       cancels : 0 .. MaxCancels, deaths : 0 .. MaxDeaths,
                       drains : 0 .. MaxDrains]
      BY <1>0, <3>1, BoundsAssumption DEF TypeOK, OtherTypes
    <3>5. QED BY <3>2, <3>3, <3>4 DEF OtherTypes
  <2>3. WireTypes'
    <3>1. toHost' = toHost \/ toHost' = <<>>
      BY <2>1 DEF Destroyed
    <3>2. toHost' \in Seq(Replies \cup {Event})
      <4> DEFINE Wire == Replies \cup {Event}
      <4>1. toHost \in Seq(Wire) /\ <<>> \in Seq(Wire)
        BY <1>0 DEF TypeOK, WireTypes
      <4> HIDE DEF Wire
      <4>2. toHost' \in Seq(Wire)
        BY <3>1, <4>1
      <4>3. QED BY <4>2 DEF Wire
    <3>3. QED BY <1>0, <2>1, <3>2 DEF Destroyed, TypeOK, WireTypes
  <2>4. QED BY <1>0, <2>1, <2>2, <2>3, Frame DEF Destroyed, TypeOK
<1>5. CASE CancelFlag
  <2>1. CancelTypes' /\ OtherTypes'
    BY <1>0, <1>5, BoundsAssumption DEF CancelFlag, TypeOK, CancelTypes, OtherTypes, scriptVars
  <2>2. QED BY <1>0, <1>5, <2>1, Frame DEF CancelFlag, TypeOK
<1>6. CASE CancelHook
  <2>1. CancelTypes' /\ OtherTypes'
    BY <1>0, <1>6 DEF CancelHook, TypeOK, CancelTypes, OtherTypes, scriptVars
  <2>2. QED BY <1>0, <1>6, <2>1, Frame DEF CancelHook, TypeOK
<1>7. ASSUME NEW n \in UserIds, UserSends(n)
      PROVE  TypeOK'
  <2> DEFINE m == [kind |-> "reply", id |-> n, call |-> 0]
             Wire == Replies \cup {Event}
  <2>1. OtherTypes'
    <3>1. /\ bounds.events < MaxEvents /\ bounds' = [bounds EXCEPT !.events = @ + 1]
          /\ UNCHANGED <<reqLock, script, attached, asked, torn>>
      BY <1>7 DEF UserSends, scriptVars
    <3>2. QED BY <1>0, <3>1, BoundsAssumption DEF TypeOK, OtherTypes
  <2>2. m \in Wire
    BY BoundsAssumption DEF Replies
  <2>3. toHost' \in Seq(Wire)
    <3>1. toHost \in Seq(Wire) /\ toHost' = Append(toHost, m)
      BY <1>0, <1>7 DEF UserSends, TypeOK, WireTypes
    <3> HIDE DEF Wire, m
    <3>2. QED BY <3>1, <2>2, AppendProperties
  <2>4. WireTypes'
    BY <1>0, <1>7, <2>3 DEF UserSends, TypeOK, WireTypes
  <2>5. QED BY <1>0, <1>7, <2>1, <2>4, Frame DEF UserSends, TypeOK
<1>8. QED BY <1>1, <1>2, <1>3, <1>4, <1>5, <1>6, <1>7 DEF Environment

-----------------------------------------------------------------------------
(* The slot has one owner.                                                 *)

\* A step that touches neither the clients' handlers nor the slot.
LEMMA SlotFrame ==
  ASSUME SlotRest, UNCHANGED <<pc, id, result, call, slotVars, reqLock>>
  PROVE  SlotRest'
BY DEF SlotRest, LockOwned, SlotOwned, ReplyThere, CallNumbered, InFlight, Active, slotVars

\* A step of client c outside its time in the slot that leaves the slot alone
\* and takes or releases req_lock as its next step requires.
LEMMA SlotOutside ==
  ASSUME TypeOK, SlotRest, NEW c \in Clients, NEW step \in Steps \ InFlightSteps,
         pc[c] \notin InFlightSteps,
         pc' = [pc EXCEPT ![c] = step],
         UNCHANGED <<pending, awaitId, replyReady, reply>>,
         \A d \in Clients \ {c} : /\ id'[d] = id[d] /\ result'[d] = result[d]
                                  /\ call'[d] = call[d] /\ (reqLock' = d <=> reqLock = d),
         step \in LockedSteps <=> reqLock' = c,
         step # "idle" => call'[c] # 0
  PROVE  SlotRest'
<1>1. pc'[c] = step /\ \A d \in Clients \ {c} : pc'[d] = pc[d]
  BY DEF TypeOK, ClientTypes
<1>2. LockOwned'
  BY <1>1 DEF SlotRest, LockOwned
<1>3. CallNumbered'
  BY <1>1 DEF SlotRest, CallNumbered, Active
<1>4. ReplyThere'
  BY DEF SlotRest, ReplyThere
<1>5. SlotOwned'
  <2>1. InFlightSteps \subseteq LockedSteps
    BY DEF LockedSteps
  <2>2. ASSUME NEW d \in Clients, InFlight(d)'
        PROVE  /\ reqLock' = d
               /\ awaitId' = id'[d]
               /\ pending' = IF replyReady' THEN {} ELSE {id'[d]}
               /\ result'[d] = "reply" /\ pc'[d] = "finish" => replyReady'
    <3>1. d # c /\ InFlight(d)
      BY <1>1, <2>2 DEF InFlight
    <3>2. QED BY <1>1, <3>1 DEF SlotRest, SlotOwned, InFlight
  <2>3. ASSUME \A d \in Clients : ~InFlight(d)'
        PROVE  awaitId' = 0 /\ ~replyReady' /\ pending' = {}
    <3>1. \A d \in Clients : ~InFlight(d)
      BY <1>1, <2>3 DEF InFlight
    <3>2. QED BY <3>1 DEF SlotRest, SlotOwned
  <2>4. QED BY <2>2, <2>3 DEF SlotOwned
<1>6. QED BY <1>2, <1>3, <1>4, <1>5 DEF SlotRest

\* A step of the client in flight that keeps it in flight.
LEMMA SlotInside ==
  ASSUME TypeOK, SlotRest, NEW c \in Clients, InFlight(c),
         NEW step \in InFlightSteps,
         pc' = [pc EXCEPT ![c] = step],
         UNCHANGED <<id, call, reqLock, slotVars>>,
         \A d \in Clients \ {c} : result'[d] = result[d],
         step = "finish" /\ result'[c] = "reply" => replyReady
  PROVE  SlotRest'
<1>1. pc'[c] = step /\ \A d \in Clients \ {c} : pc'[d] = pc[d]
  BY DEF TypeOK, ClientTypes
<1>2. LockOwned'
  BY <1>1 DEF SlotRest, LockOwned, InFlight, LockedSteps
<1>3. CallNumbered' /\ ReplyThere'
  BY <1>1 DEF SlotRest, CallNumbered, ReplyThere, Active, InFlight, InFlightSteps, slotVars
<1>4. SlotOwned'
  BY <1>1 DEF SlotRest, SlotOwned, InFlight, slotVars
<1>5. QED BY <1>2, <1>3, <1>4 DEF SlotRest

\* While req_lock is free, or held by a client that is not in flight, no
\* client is in flight and the slot is empty.
LEMMA SlotEmpty ==
  ASSUME SlotRest, NEW o \in Clients \cup {None}, reqLock = o,
         o \in Clients => ~InFlight(o)
  PROVE  /\ \A c \in Clients : ~InFlight(c)
         /\ awaitId = 0 /\ ~replyReady /\ pending = {}
<1>1. ASSUME NEW c \in Clients, InFlight(c)
      PROVE  FALSE
  <2>1. reqLock = c
    BY <1>1 DEF SlotRest, SlotOwned
  <2>2. QED BY <1>1, <2>1
<1>2. \A c \in Clients : ~InFlight(c)
  BY <1>1
<1>3. QED BY <1>2 DEF SlotRest, SlotOwned

LEMMA HandlerSlot ==
  ASSUME SlotInv, NEW c \in Clients, HandlerStep(c)
  PROVE  SlotRest'
<1> USE DEF Goto, Fail, Steps, LockedSteps, InFlightSteps
<1>0. TypeOK /\ SlotRest /\ None # c
  BY ClientsAssumption DEF SlotInv
<1>a. Active(c) => call[c] # 0
  BY <1>0 DEF SlotRest, CallNumbered
<1>b. \A d \in Clients \ {c} : d # None
  BY ClientsAssumption
<1>c. pc[c] \in LockedSteps <=> reqLock = c
  BY <1>0 DEF SlotRest, LockOwned
<1>1. CASE EnsureLock(c)
  BY <1>0, <1>a, <1>b, <1>1, SlotOutside DEF EnsureLock, slotVars, Active
<1>2. CASE EnsureLive(c)
  BY <1>0, <1>a, <1>b, <1>c, <1>2, SlotOutside DEF EnsureLive, slotVars, Active
<1>3. CASE EnsureReload(c)
  <2>1. pc[c] = "reset" /\ reqLock = c
    BY <1>3, <1>c DEF EnsureReload
  <2>2. awaitId = 0 /\ ~replyReady /\ pending = {}
    BY <1>0, <2>1, SlotEmpty DEF InFlight
  <2>3. pending' = pending /\ awaitId' = 0 /\ replyReady' = FALSE
        /\ (reply' = reply \/ reply' = None)
    <3>1. Teardown(c) \/ UNCHANGED slotVars
      BY <1>3 DEF EnsureReload
    <3>2. QED BY <1>0, <2>2, <3>1 DEF Teardown, slotVars, TypeOK, SlotTypes
  <2>4. \E step \in {"load", "done"} :
           /\ pc' = [pc EXCEPT ![c] = step]
           /\ step = "load" => reqLock' = c
           /\ step = "done" => reqLock' = None
    BY <1>3, <2>1 DEF EnsureReload
  <2>5. PICK step \in {"load", "done"} :
           /\ pc' = [pc EXCEPT ![c] = step]
           /\ step = "load" => reqLock' = c
           /\ step = "done" => reqLock' = None
    BY <2>4
  <2>6. pc'[c] = step /\ \A d \in Clients \ {c} : pc'[d] = pc[d] /\ pc[d] \notin LockedSteps
    BY <1>0, <2>1, <2>5 DEF TypeOK, ClientTypes, SlotRest, LockOwned
  <2>7. LockOwned'
    BY <1>0, <1>b, <2>5, <2>6 DEF LockOwned
  <2>8. \A d \in Clients : ~InFlight(d)'
    BY <2>6 DEF InFlight
  <2>9. SlotOwned' /\ ReplyThere'
    BY <2>2, <2>3, <2>8 DEF SlotOwned, ReplyThere
  <2>10. CallNumbered'
    BY <1>0, <1>3, <2>1, <2>6 DEF SlotRest, CallNumbered, Active, EnsureReload
  <2>11. QED BY <2>7, <2>9, <2>10 DEF SlotRest
<1>4. CASE LoadDone(c)
  BY <1>0, <1>a, <1>b, <1>c, <1>4, SlotOutside DEF LoadDone, slotVars, Active
<1>5. CASE LoadFailed(c)
  <2>1. result' = [result EXCEPT ![c] = IF cancellable THEN "cancelled" ELSE "no_script"]
    BY <1>5 DEF LoadFailed
  <2>2. \A d \in Clients \ {c} : result'[d] = result[d]
    BY <1>0, <2>1 DEF TypeOK, ClientTypes
  <2>3. /\ pc[c] = "load" /\ pc' = [pc EXCEPT ![c] = "done"] /\ reqLock' = None
        /\ UNCHANGED <<id, call, pending, awaitId, replyReady, reply>>
    BY <1>5 DEF LoadFailed, slotVars
  <2>4. QED BY <1>0, <1>a, <1>b, <1>c, <2>2, <2>3, SlotOutside DEF Active
<1>6. CASE DrawId(c)
  <2>1. \A d \in Clients \ {c} : id'[d] = id[d]
    BY <1>0, <1>6 DEF DrawId, TypeOK, ClientTypes
  <2>2. QED BY <1>0, <1>a, <1>b, <1>c, <1>6, <2>1, SlotOutside DEF DrawId, slotVars, Active
<1>7. CASE WriteNextId(c)
  BY <1>0, <1>a, <1>b, <1>c, <1>7, SlotOutside DEF WriteNextId, Active
<1>8. CASE Register(c)
  <2>1. reqLock = None /\ pc[c] = "register"
    BY <1>8 DEF Register
  <2>2. /\ \A d \in Clients : ~InFlight(d)
        /\ awaitId = 0 /\ ~replyReady /\ pending = {}
    BY <1>0, <2>1, SlotEmpty, ClientsAssumption
  <2>3. /\ pc' = [pc EXCEPT ![c] = "post"] /\ reqLock' = c
        /\ pending' = {id[c]} /\ awaitId' = id[c] /\ replyReady' = FALSE
        /\ UNCHANGED <<id, call>>
    BY <1>8, <2>2 DEF Register
  <2>4. pc'[c] = "post" /\ \A d \in Clients \ {c} : pc'[d] = pc[d] /\ pc[d] \notin LockedSteps
    BY <1>0, <1>b, <2>1, <2>3 DEF TypeOK, ClientTypes, SlotRest, LockOwned
  <2>5. LockOwned' /\ ReplyThere'
    BY <2>3, <2>4 DEF LockOwned, ReplyThere
  <2>6. CallNumbered'
    BY <1>0, <2>1, <2>3, <2>4 DEF SlotRest, CallNumbered, Active
  <2>7. SlotOwned'
    <3>1. \A d \in Clients : InFlight(d)' => d = c
      BY <2>2, <2>4 DEF InFlight
    <3>2. InFlight(c)' /\ pc'[c] # "finish"
      BY <2>4 DEF InFlight
    <3>3. QED BY <2>3, <3>1, <3>2 DEF SlotOwned
  <2>8. QED BY <2>5, <2>6, <2>7 DEF SlotRest
<1>9. CASE Post(c)
  BY <1>0, <1>9, SlotInside DEF Post, InFlight
<1>10. CASE DrainReply(c) \/ DrainCancelled(c) \/ DrainGone(c)
  <2>1. PICK why \in {"reply", "cancelled", "gone"} :
          pc[c] = "drain" /\ Drained(c, why) /\ (why = "reply" => replyReady)
    BY <1>10 DEF DrainReply, DrainCancelled, DrainGone
  <2>2. result'[c] = why /\ \A d \in Clients \ {c} : result'[d] = result[d]
    BY <1>0, <2>1 DEF Drained, TypeOK, ClientTypes
  <2>3. QED BY <1>0, <2>1, <2>2, SlotInside DEF Drained, InFlight
<1>11. CASE Finish(c)
  <2>1. /\ pc[c] = "finish" /\ pc' = [pc EXCEPT ![c] = "done"] /\ reqLock' = None
        /\ awaitId' = 0 /\ replyReady' = FALSE
        /\ call' = call
    BY <1>11 DEF Finish
  <2>2. pc'[c] = "done" /\ \A d \in Clients \ {c} : pc'[d] = pc[d] /\ pc[d] \notin LockedSteps
    BY <1>0, <1>c, <2>1 DEF TypeOK, ClientTypes, SlotRest, LockOwned
  <2>3. pending' = {}
    <3>1. /\ pending = IF replyReady THEN {} ELSE {id[c]}
          /\ result[c] = "reply" => replyReady
      BY <1>0, <2>1 DEF SlotRest, SlotOwned, InFlight
    <3>2. QED BY <1>11, <3>1 DEF Finish
  <2>4. \A d \in Clients : ~InFlight(d)'
    BY <2>2 DEF InFlight
  <2>5. LockOwned'
    BY <1>b, <1>0, <2>1, <2>2 DEF LockOwned
  <2>6. SlotOwned' /\ ReplyThere'
    BY <2>1, <2>3, <2>4 DEF SlotOwned, ReplyThere
  <2>7. CallNumbered'
    BY <1>0, <2>1, <2>2 DEF SlotRest, CallNumbered, Active
  <2>8. QED BY <2>5, <2>6, <2>7 DEF SlotRest
<1>12. CASE Return(c)
  BY <1>0, <1>b, <1>c, <1>12, SlotOutside DEF Return, slotVars
<1>13. QED
  BY <1>1, <1>2, <1>3, <1>4, <1>5, <1>6, <1>7, <1>8, <1>9, <1>10, <1>11, <1>12
     DEF HandlerStep

LEMMA ClientSlot ==
  ASSUME SlotInv, NEW c \in Clients, ClientNext(c)
  PROVE  SlotRest'
<1> USE DEF Goto, Steps, LockedSteps, InFlightSteps
<1>0. TypeOK /\ SlotRest /\ bounds.calls \in Nat
  BY BoundsAssumption DEF SlotInv, TypeOK, OtherTypes
<1>c. /\ pc[c] \in LockedSteps <=> reqLock = c
      /\ \A d \in Clients : call \in [Clients -> 0 .. MaxCalls]
  BY <1>0 DEF SlotRest, LockOwned, TypeOK, ClientTypes
<1>1. CASE Enter(c)
  <2>1. call'[c] # 0 /\ \A d \in Clients \ {c} : call'[d] = call[d]
    BY <1>0, <1>c, <1>1 DEF Enter
  <2>2. QED BY <1>0, <1>c, <1>1, <2>1, SlotOutside DEF Enter, slotVars
<1>2. CASE HandlerStep(c)
  BY <1>2, HandlerSlot
<1>3. CASE DrainTimeout(c)
  <2>1. pc[c] = "drain" /\ Drained(c, "timeout")
    BY <1>3 DEF DrainTimeout
  <2>2. result'[c] = "timeout" /\ \A d \in Clients \ {c} : result'[d] = result[d]
    BY <1>0, <2>1 DEF Drained, TypeOK, ClientTypes
  <2>3. QED BY <1>0, <2>1, <2>2, SlotInside DEF Drained, InFlight
<1>4. CASE RequestAgain(c)
  <2>1. call'[c] # 0 /\ \A d \in Clients \ {c} : call'[d] = call[d]
    BY <1>0, <1>c, <1>4 DEF RequestAgain
  <2>2. QED BY <1>0, <1>c, <1>4, <2>1, SlotOutside DEF RequestAgain, slotVars
<1>5. CASE DrainMessages(c)
  BY <1>0, <1>5, SlotFrame DEF DrainMessages, clientVars
<1>6. QED BY <1>1, <1>2, <1>3, <1>4, <1>5 DEF ClientNext

LEMMA EnvironmentSlot ==
  ASSUME SlotInv, Environment
  PROVE  SlotRest'
<1>0. TypeOK /\ SlotRest
  BY DEF SlotInv
<1>1. CASE OnMessage
  <2> DEFINE m == Head(toHost)
             own == m.kind = "reply" /\ m.id = awaitId /\ m.id \in pending
  <2>1. UNCHANGED <<pc, id, result, call, reqLock, awaitId, nextId>>
    BY <1>1 DEF OnMessage, clientVars
  <2>2. CASE own
    <3>1. /\ reply' = m /\ replyReady' = TRUE /\ pending' = pending \ {m.id}
          /\ m \in Replies
      BY <1>0, <1>1, <2>2, WireHead DEF OnMessage
    <3>2. PICK c \in Clients : InFlight(c)
      BY <1>0, <2>2 DEF SlotRest, SlotOwned
    <3>3. pending = {m.id}
      BY <1>0, <2>2, <3>2 DEF SlotRest, SlotOwned
    <3>4. SlotOwned' /\ ReplyThere'
      BY <1>0, <2>1, <3>1, <3>2, <3>3 DEF SlotRest, SlotOwned, ReplyThere, InFlight
    <3>5. LockOwned' /\ CallNumbered'
      BY <1>0, <2>1 DEF SlotRest, LockOwned, CallNumbered, Active
    <3>6. QED BY <3>4, <3>5 DEF SlotRest
  <2>3. CASE ~own
    <3>1. UNCHANGED slotVars
      BY <1>1, <2>1, <2>3 DEF OnMessage, slotVars
    <3>2. QED BY <1>0, <2>1, <3>1, SlotFrame
  <2>4. QED BY <2>2, <2>3
<1>2. CASE AgentHandle \/ AgentEvent
  BY <1>0, <1>2, SlotFrame DEF AgentHandle, AgentEvent, clientVars
<1>3. CASE ScriptDies \/ SessionDetaches
  BY <1>0, <1>3, SlotFrame DEF ScriptDies, SessionDetaches, Destroyed, clientVars
<1>4. CASE CancelFlag \/ CancelHook
  BY <1>0, <1>4, SlotFrame DEF CancelFlag, CancelHook, clientVars
<1>5. ASSUME NEW n \in UserIds, UserSends(n)
      PROVE  SlotRest'
  BY <1>0, <1>5, SlotFrame DEF UserSends, clientVars
<1>6. QED BY <1>1, <1>2, <1>3, <1>4, <1>5 DEF Environment

-----------------------------------------------------------------------------
(* The theorems.                                                           *)

LEMMA SlotInvInit == Init => SlotInv
<1> SUFFICES ASSUME Init PROVE SlotInv
  OBVIOUS
<1> USE DEF Init
<1>1. ClientTypes
  <2>1. raced \in BOOLEAN
    BY Zenon
  <2>2. QED BY <2>1, BoundsAssumption DEF ClientTypes, Steps
<1>2. SlotTypes /\ CancelTypes /\ BufferTypes
  <2>1. CancelTypes /\ replyReady \in BOOLEAN
    BY Zenon DEF CancelTypes
  <2>2. nextId \in Nat \ {0} /\ pending \in SUBSET Nat /\ awaitId \in Nat
    OBVIOUS
  <2>3. SlotTypes
    BY <2>1, <2>2 DEF SlotTypes
  <2>4. BufferTypes
    <3> DEFINE Item == [n : Nat, kind : {"event", "reply"}]
    <3>1. <<>> \in Seq(Item)
      OBVIOUS
    <3> HIDE DEF Item
    <3>2. messages \in Seq(Item)
      BY <3>1, Zenon
    <3>3. QED BY <3>2 DEF BufferTypes, Item
  <2>5. QED BY <2>1, <2>3, <2>4
<1>3. WireTypes
  BY DEF WireTypes
<1>4. OtherTypes
  BY BoundsAssumption DEF OtherTypes
<1>5. SlotRest
  <2>1. \A c \in Clients : pc[c] \notin LockedSteps /\ c # None
    BY ClientsAssumption DEF LockedSteps, InFlightSteps
  <2>2. QED BY <2>1 DEF SlotRest, LockOwned, SlotOwned, ReplyThere, CallNumbered, Active,
                        InFlight, InFlightSteps, LockedSteps
<1>6. QED BY <1>1, <1>2, <1>3, <1>4, <1>5 DEF SlotInv, TypeOK

LEMMA SlotInvNext == SlotInv /\ [Next]_vars => SlotInv'
<1> SUFFICES ASSUME SlotInv, [Next]_vars PROVE SlotInv'
  OBVIOUS
<1>1. CASE \E c \in Clients : ClientNext(c)
  BY <1>1, ClientTypesKept, ClientSlot DEF SlotInv
<1>2. CASE Environment
  BY <1>2, EnvironmentTypes, EnvironmentSlot DEF SlotInv
<1>3. CASE UNCHANGED vars
  <2>1. UNCHANGED <<clientVars, slotVars, cancelVars, bufferVars, wireVars, reqLock,
                    scriptVars, asked, bounds>>
    BY <1>3 DEF vars
  <2>2. TypeOK'
    BY <2>1, Frame DEF SlotInv, TypeOK
  <2>3. SlotRest'
    BY <2>1, SlotFrame DEF SlotInv, clientVars
  <2>4. QED BY <2>2, <2>3 DEF SlotInv
<1>4. QED BY <1>1, <1>2, <1>3 DEF Next, Rest

THEOREM SlotInvAlways == Spec => []SlotInv
<1>1. QED BY SlotInvInit, SlotInvNext, PTL DEF Spec

\* The channel's variables keep their types.
THEOREM TypeCorrect == Spec => []TypeOK
<1>1. SlotInv => TypeOK
  BY DEF SlotInv
<1>2. QED BY <1>1, SlotInvAlways, PTL

\* At any time one client at most is in flight, and it owns req_lock, the reply
\* slot and the registry of backend_request; between requests all are empty.
\* No outer lock is assumed: req_lock alone is enough.
THEOREM SlotHasOneOwner == Spec => []SlotOwned
<1>1. SlotInv => SlotOwned
  BY DEF SlotInv, SlotRest
<1>2. QED BY <1>1, SlotInvAlways, PTL

-----------------------------------------------------------------------------
(* The message buffer accounts for every message.                          *)

LEMMA PushAccounts ==
  ASSUME TypeOK, BufferAccounts, NEW m, m.kind \in {"event", "reply"}, Push(m)
  PROVE  BufferAccounts'
<1> DEFINE Item == [n : Nat, kind : {"event", "reply"}]
           item == [n |-> arrived + 1, kind |-> m.kind]
           all == Append(messages, item)
<1>1. /\ messages \in Seq(Item) /\ item \in Item /\ item.n = arrived + 1
      /\ arrived \in Nat /\ dropped \in Nat /\ seen \in Nat
  BY DEF TypeOK, BufferTypes
<1>2. /\ messages' = Newest(all) /\ dropped' = dropped + (Len(all) - Len(Newest(all)))
      /\ arrived' = arrived + 1 /\ seen' = seen
  BY DEF Push
<1> HIDE DEF Item, item
<1>3. /\ all \in Seq(Item) /\ Len(all) = Len(messages) + 1 /\ Len(messages) \in Nat
      /\ \A i \in 1 .. Len(messages) : all[i] = messages[i]
      /\ all[Len(messages) + 1] = item
  BY <1>1, AppendProperties, LenProperties
<1>4. \A i \in 1 .. Len(all) : all[i].n = arrived - Len(messages) + i
  <2>1. ASSUME NEW i \in 1 .. Len(all)
        PROVE  all[i].n = arrived - Len(messages) + i
    <3>1. CASE i = Len(messages) + 1
      BY <1>1, <1>3, <3>1
    <3>2. CASE i # Len(messages) + 1
      BY <1>3, <2>1, <3>2 DEF BufferAccounts
    <3> QED BY <3>1, <3>2
  <2> QED BY <2>1
<1> HIDE DEF all
<1>5. /\ Newest(all) \in Seq(Item)
      /\ Len(Newest(all)) = IF Len(all) > Capacity THEN Capacity ELSE Len(all)
      /\ \A i \in 1 .. Len(Newest(all)) : Newest(all)[i] = all[Len(all) - Len(Newest(all)) + i]
  BY <1>3, NewestKeeps
<1>6. Len(Newest(all)) \in Nat /\ Len(Newest(all)) <= Len(all) /\ Len(Newest(all)) <= Capacity
  BY <1>3, <1>5, BoundsAssumption
<1> DEFINE N == Len(Newest(all))
<1>7. ASSUME NEW i \in 1 .. N
      PROVE  Newest(all)[i].n = arrived + 1 - N + i
  <2> DEFINE j == Len(all) - N + i
  <2>1. j \in 1 .. Len(all)
    BY <1>3, <1>6
  <2>2. Newest(all)[i] = all[j]
    BY <1>5
  <2>3. j = Len(messages) + 1 - N + i
    BY <1>3
  <2> HIDE DEF j
  <2>4. all[j].n = arrived - Len(messages) + j
    BY <1>4, <2>1
  <2>5. N \in Nat /\ i \in Int /\ Len(messages) \in Nat /\ arrived \in Nat
    BY <1>1, <1>3, <1>6
  <2> HIDE DEF N
  <2>6. arrived - Len(messages) + j = arrived + 1 - N + i
    BY <2>3, <2>5
  <2> QED BY <2>2, <2>4, <2>6
<1>8. dropped + Len(messages) = arrived - seen
  BY DEF BufferAccounts
<1>9. dropped' + N = arrived' - seen'
  BY <1>1, <1>2, <1>3, <1>6, <1>8
<1>10. Len(messages') = N /\ N <= Capacity
  BY <1>2, <1>6
<1> HIDE DEF N
<1>11. ASSUME NEW i \in 1 .. N PROVE messages'[i].n = arrived' - N + i
  <2>1. messages'[i].n = arrived + 1 - N + i
    BY <1>2, <1>7
  <2>2. arrived' = arrived + 1 /\ arrived \in Nat /\ N \in Nat /\ i \in Int
    BY <1>1, <1>2, <1>6 DEF N
  <2> QED BY <2>1, <2>2
<1> QED BY <1>9, <1>10, <1>11 DEF BufferAccounts

LEMMA BufferKept ==
  ASSUME TypeOK, BufferAccounts, [Next]_vars
  PROVE  BufferAccounts'
<1>1. ASSUME UNCHANGED bufferVars PROVE BufferAccounts'
  BY <1>1 DEF bufferVars, BufferAccounts
<1>2. CASE OnMessage
  <2> DEFINE m == Head(toHost)
  <2>1. m.kind \in {"event", "reply"}
    BY <1>2, WireHead DEF OnMessage
  <2>2. Push(m) \/ UNCHANGED bufferVars
    BY <1>2 DEF OnMessage
  <2> QED BY <1>1, <2>1, <2>2, PushAccounts
<1>3. CASE Environment /\ ~OnMessage
  BY <1>1, <1>3 DEF Environment, AgentHandle, AgentEvent, UserSends, ScriptDies,
     SessionDetaches, Destroyed, CancelFlag, CancelHook
<1>4. ASSUME NEW c \in Clients, ClientNext(c) PROVE BufferAccounts'
  <2>1. CASE DrainMessages(c)
    <3>1. messages' = <<>> /\ dropped' = 0 /\ seen' = arrived /\ arrived' = arrived
      BY <2>1 DEF DrainMessages
    <3>2. Len(<<>>) = 0
      BY EmptySeq
    <3> QED BY <3>1, <3>2, BoundsAssumption DEF BufferAccounts, TypeOK, BufferTypes
  <2>2. CASE HandlerStep(c)
    <3>1. UNCHANGED bufferVars
      BY <2>2 DEF HandlerStep, EnsureLock, EnsureLive, EnsureReload, LoadDone, LoadFailed,
         DrawId, WriteNextId, Register, Post, DrainReply, DrainCancelled, DrainGone, Drained,
         Finish, Return
    <3> QED BY <1>1, <3>1
  <2>3. CASE Enter(c) \/ DrainTimeout(c) \/ RequestAgain(c)
    BY <1>1, <2>3 DEF Enter, DrainTimeout, Drained, RequestAgain
  <2> QED BY <1>4, <2>1, <2>2, <2>3 DEF ClientNext
<1>5. CASE UNCHANGED vars
  BY <1>1, <1>5 DEF vars
<1> QED BY <1>2, <1>3, <1>4, <1>5 DEF Next, Rest

\* However messages arrive and the user drains them, the buffer holds the newest
\* and dropped counts the rest (rz_frida_msgbuf_push, rz_frida_backend_messages).
THEOREM BufferComplete == Spec => []BufferAccounts
<1>1. ASSUME Init PROVE BufferAccounts
  <2>1. Len(<<>>) = 0
    BY EmptySeq
  <2> QED BY <1>1, <2>1, BoundsAssumption DEF Init, BufferAccounts
<1>2. TypeOK /\ BufferAccounts /\ [Next]_vars => BufferAccounts'
  BY BufferKept
<1>3. QED
  BY <1>1, <1>2, TypeCorrect, PTL DEF Spec

-----------------------------------------------------------------------------
(* Cancels.                                                                *)

\* The step that resets the flag, and those that come after.
Flagged == Steps \ {"idle", "ensure", "reset"}

\* A flag that is set when a client may see it was set in its own handler.
CancelInv ==
  \A c \in Clients :
    /\ pc[c] = "reset" /\ cancellable => asked[c]
    /\ pc[c] \in Flagged /\ (cancelled \/ cancellable) => asked[c]
    /\ pc[c] \in {"finish", "done"} /\ result[c] = "cancelled" => asked[c]

LEMMA CancelStep ==
  ASSUME TypeOK, CancelInv, NEW c \in Clients, NEW step \in Steps,
         pc' = [pc EXCEPT ![c] = step],
         \A d \in Clients \ {c} : result'[d] = result[d] /\ asked'[d] = asked[d],
         cancelled' => cancelled, cancellable' => cancellable,
         step = "reset" => ~cancellable',
         step \in Flagged /\ (cancelled' \/ cancellable') => asked'[c],
         step \in {"finish", "done"} /\ result'[c] = "cancelled" => asked'[c]
  PROVE  CancelInv'
<1>1. pc'[c] = step /\ \A d \in Clients \ {c} : pc'[d] = pc[d]
  BY DEF TypeOK, ClientTypes
<1>2. ASSUME NEW d \in Clients \ {c}
      PROVE  /\ pc'[d] = "reset" /\ cancellable' => asked'[d]
             /\ pc'[d] \in Flagged /\ (cancelled' \/ cancellable') => asked'[d]
             /\ pc'[d] \in {"finish", "done"} /\ result'[d] = "cancelled" => asked'[d]
  BY <1>1, <1>2 DEF CancelInv
<1> QED BY <1>1, <1>2 DEF CancelInv

LEMMA CancelKept ==
  ASSUME TypeOK, CancelInv, [Next]_vars
  PROVE  CancelInv'
<1> USE DEF Steps, LockedSteps, InFlightSteps, Goto, Fail, Flagged
<1>1. CASE UNCHANGED <<pc, result, asked, cancelled, cancellable>>
  BY <1>1 DEF CancelInv
<1>2. CASE CancelFlag \/ CancelHook
  <2>1. asked' = [c \in Clients |-> TRUE]
    BY <1>2 DEF CancelFlag, CancelHook
  <2>2. \A c \in Clients : asked'[c]
    BY <2>1
  <2> QED BY <2>2 DEF CancelInv
<1>3. CASE Environment /\ ~(CancelFlag \/ CancelHook)
  <2>1. UNCHANGED <<pc, result, asked, cancelled, cancellable>>
    BY <1>3 DEF Environment, OnMessage, AgentHandle, AgentEvent, UserSends, ScriptDies,
       SessionDetaches, Destroyed, clientVars, cancelVars
  <2> QED BY <1>1, <2>1
<1>4. ASSUME NEW c \in Clients, ClientNext(c) PROVE CancelInv'
  <2>0. /\ result \in [Clients -> Errors \cup {"none", "reply"}]
        /\ asked \in [Clients -> BOOLEAN]
    BY DEF TypeOK, ClientTypes, OtherTypes
  <2>1. CASE Enter(c)
    <3>1. \A d \in Clients \ {c} : asked'[d] = asked[d]
      BY <2>0, <2>1 DEF Enter
    <3> QED BY <2>1, <3>1, CancelStep DEF Enter, cancelVars
  <2>2. CASE EnsureLock(c)
    BY <2>2, CancelStep DEF EnsureLock
  <2>3. CASE EnsureLive(c)
    BY <2>3, CancelStep DEF EnsureLive, ResetFlag, CancelInv
  <2>4. CASE EnsureReload(c)
    <3>1. /\ pc[c] = "reset" /\ ~cancelled' /\ cancellable' = cancellable /\ asked' = asked
          /\ (cancellable => asked[c])
      BY <2>4 DEF EnsureReload, ResetFlag, CancelInv
    <3>2. CASE attached
      <4>1. pc' = [pc EXCEPT ![c] = "load"] /\ result' = result
        BY <2>4, <3>2 DEF EnsureReload
      <4> QED BY <3>1, <4>1, CancelStep
    <3>3. CASE ~attached
      <4>1. pc' = [pc EXCEPT ![c] = "done"] /\ result' = [result EXCEPT ![c] = "no_script"]
        BY <2>4, <3>3 DEF EnsureReload
      <4>2. result'[c] = "no_script" /\ \A d \in Clients \ {c} : result'[d] = result[d]
        BY <2>0, <4>1
      <4> QED BY <3>1, <4>1, <4>2, CancelStep
    <3> QED BY <3>2, <3>3
  <2>5. CASE LoadDone(c)
    BY <2>5, CancelStep DEF LoadDone, cancelVars, CancelInv
  <2>6. CASE LoadFailed(c)
    <3>1. /\ pc[c] = "load" /\ pc' = [pc EXCEPT ![c] = "done"]
          /\ UNCHANGED <<cancelled, cancellable, asked>>
          /\ result' = [result EXCEPT ![c] = IF cancellable THEN "cancelled" ELSE "no_script"]
      BY <2>6 DEF LoadFailed, cancelVars
    <3>2. /\ \A d \in Clients \ {c} : result'[d] = result[d]
          /\ result'[c] = IF cancellable THEN "cancelled" ELSE "no_script"
      BY <2>0, <3>1
    <3>3. (cancelled \/ cancellable) => asked[c]
      BY <3>1 DEF CancelInv
    <3>4. result'[c] = "cancelled" => asked'[c]
      BY <3>1, <3>2, <3>3
    <3>5. cancelled' \/ cancellable' => asked'[c]
      BY <3>1, <3>3
    <3> QED BY <3>1, <3>2, <3>4, <3>5, CancelStep
  <2>7. CASE DrawId(c) \/ WriteNextId(c) \/ Post(c) \/ RequestAgain(c)
    <3>1. /\ pc[c] \in {"draw", "write", "post", "done"}
          /\ UNCHANGED <<result, cancelled, cancellable, asked>>
          /\ \/ pc' = [pc EXCEPT ![c] = "write"]
             \/ pc' = [pc EXCEPT ![c] = "register"]
             \/ pc' = [pc EXCEPT ![c] = "drain"]
             \/ pc' = [pc EXCEPT ![c] = "draw"]
      BY <2>7 DEF DrawId, WriteNextId, Post, RequestAgain, cancelVars
    <3>2. (cancelled \/ cancellable) => asked[c]
      BY <3>1 DEF CancelInv
    <3> QED BY <3>1, <3>2, CancelStep
  <2>8. CASE Register(c)
    <3>1. pc[c] = "register" /\ UNCHANGED <<cancelled, cancellable, asked>>
      BY <2>8 DEF Register, cancelVars
    <3>2. (cancelled \/ cancellable) => asked[c]
      BY <3>1 DEF CancelInv
    <3>3. CASE id[c] \in pending
      <4>1. pc' = [pc EXCEPT ![c] = "done"] /\ result' = [result EXCEPT ![c] = "refused"]
        BY <2>8, <3>3 DEF Register
      <4>2. result'[c] = "refused" /\ \A d \in Clients \ {c} : result'[d] = result[d]
        BY <2>0, <4>1
      <4> QED BY <3>1, <3>2, <4>1, <4>2, CancelStep
    <3>4. CASE id[c] \notin pending
      <4>1. pc' = [pc EXCEPT ![c] = "post"] /\ result' = result
        BY <2>8, <3>4 DEF Register
      <4> QED BY <3>1, <3>2, <4>1, CancelStep
    <3> QED BY <3>3, <3>4
  <2>9. CASE DrainReply(c) \/ DrainCancelled(c) \/ DrainGone(c) \/ DrainTimeout(c)
    <3>1. PICK why \in {"reply", "cancelled", "gone", "timeout"} :
            pc[c] = "drain" /\ Drained(c, why) /\ (why = "cancelled" => cancelled \/ cancellable)
      BY <2>9 DEF DrainReply, DrainCancelled, DrainGone, DrainTimeout
    <3>2. result'[c] = why /\ \A d \in Clients \ {c} : result'[d] = result[d]
      BY <2>0, <3>1 DEF Drained
    <3>3. (cancelled \/ cancellable) => asked[c]
      BY <3>1 DEF CancelInv
    <3> QED BY <3>1, <3>2, <3>3, CancelStep DEF Drained, cancelVars
  <2>10. CASE Finish(c)
    <3>1. /\ pc[c] = "finish" /\ pc' = [pc EXCEPT ![c] = "done"]
          /\ UNCHANGED <<result, cancelled, cancellable, asked>>
      BY <2>10 DEF Finish, cancelVars
    <3> QED BY <3>1, CancelStep DEF CancelInv
  <2>11. CASE Return(c)
    BY <2>11, CancelStep DEF Return, cancelVars
  <2>12. CASE DrainMessages(c)
    <3>1. UNCHANGED <<pc, result, asked, cancelled, cancellable>>
      BY <2>12 DEF DrainMessages, clientVars, cancelVars
    <3> QED BY <1>1, <3>1
  <2> QED BY <1>4, <2>1, <2>2, <2>3, <2>4, <2>5, <2>6, <2>7, <2>8, <2>9, <2>10, <2>11, <2>12
       DEF ClientNext, HandlerStep
<1>5. CASE UNCHANGED vars
  <2>1. UNCHANGED <<pc, result, asked, cancelled, cancellable>>
    BY <1>5 DEF vars, clientVars, cancelVars
  <2> QED BY <1>1, <2>1
<1> QED BY <1>2, <1>3, <1>4, <1>5 DEF Next, Rest

\* Whichever threads share the backend, a request is reported cancelled only if
\* Ctrl-C was pressed during its own handler (backend_ensure_script resets both
\* the flag and the GCancellable, backend_cancel_hook sets them in two steps).
THEOREM CancelsAreOwn == Spec => []CancelJustified
<1>1. Init => CancelInv
  BY DEF Init, CancelInv, Flagged
<1>2. TypeOK /\ CancelInv /\ [Next]_vars => CancelInv'
  BY CancelKept
<1>3. CancelInv => CancelJustified
  BY DEF CancelInv, CancelJustified
<1>4. QED
  BY <1>1, <1>2, <1>3, TypeCorrect, PTL DEF Spec

-----------------------------------------------------------------------------
(* Callers that hold a lock in common.                                     *)

\* Any two clients hold one lock around their handlers, as the worker and the
\* main thread of Cutter hold m_mutex (FridaApiBridge).
OneLockForAll == \A c, d \in Clients : c # d => Holds[c] \cap Holds[d] # {}

\* One handler runs at a time, and nobody else draws an id.
OneHandler ==
  /\ \A c, d \in Clients : Active(c) /\ Active(d) => c = d
  /\ ~raced

LEMMA StepOfOne ==
  ASSUME TypeOK, OneLockForAll, OneHandler, [Next]_vars
  PROVE  OneHandler'
<1>1. CASE UNCHANGED <<pc, raced>>
  BY <1>1 DEF OneHandler, Active
<1>2. ASSUME NEW c \in Clients, ClientNext(c) PROVE OneHandler'
  <2>1. (\E step \in Steps : pc' = [pc EXCEPT ![c] = step]) \/ pc' = pc
    BY <1>2 DEF ClientNext, HandlerStep, Enter, EnsureLock, EnsureLive, EnsureReload, LoadDone,
       LoadFailed, DrawId, WriteNextId, Register, Post, DrainReply, DrainCancelled, DrainGone,
       DrainTimeout, Drained, Finish, Return, RequestAgain, DrainMessages, Goto, Fail,
       clientVars, Steps, LockedSteps, InFlightSteps
  <2>2. \A d \in Clients \ {c} : pc'[d] = pc[d]
    BY <2>1 DEF TypeOK, ClientTypes
  <2>3. CASE Enter(c)
    <3>1. \A d \in Clients \ {c} : ~Active(d)
      BY <2>3 DEF Enter, OuterLocksFree, OneLockForAll
    <3>2. raced' = raced
      BY <2>3 DEF Enter
    <3> QED BY <2>2, <3>1, <3>2 DEF OneHandler, Active
  <2>4. CASE Active(c)
    <3>1. \A d \in Clients \ {c} : ~Active(d)
      BY <2>4 DEF OneHandler
    <3>2. ~raced'
      <4>1. CASE DrawId(c)
        <5>1. ~(\E d \in Clients \ {c} : pc[d] = "write")
          BY <3>1 DEF Active
        <5>2. raced' = (raced \/ \E d \in Clients \ {c} : pc[d] = "write")
          BY <4>1 DEF DrawId
        <5> QED BY <5>1, <5>2, Zenon DEF OneHandler
      <4>2. CASE ~DrawId(c)
        <5>1. raced' = raced
          BY <1>2, <4>2 DEF ClientNext, HandlerStep, Enter, EnsureLock, EnsureLive,
             EnsureReload, LoadDone, LoadFailed, WriteNextId, Register, Post, DrainReply,
             DrainCancelled, DrainGone, DrainTimeout, Drained, Finish, Return, RequestAgain,
             DrainMessages, clientVars
        <5> QED BY <5>1 DEF OneHandler
      <4> QED BY <4>1, <4>2
    <3> QED BY <2>2, <3>1, <3>2 DEF OneHandler, Active
  <2>5. CASE ~Enter(c) /\ ~Active(c)
    <3>1. DrainMessages(c)
      BY <1>2, <2>5 DEF ClientNext, HandlerStep, EnsureLock, EnsureLive, EnsureReload, LoadDone,
         LoadFailed, DrawId, WriteNextId, Register, Post, DrainReply, DrainCancelled, DrainGone,
         DrainTimeout, Finish, Return, RequestAgain, Active
    <3> QED BY <1>1, <3>1 DEF DrainMessages, clientVars
  <2> QED BY <2>3, <2>4, <2>5
<1>3. CASE Environment
  <2>1. UNCHANGED <<pc, raced>>
    BY <1>3 DEF Environment, OnMessage, AgentHandle, AgentEvent, UserSends, ScriptDies,
       SessionDetaches, Destroyed, CancelFlag, CancelHook, clientVars
  <2> QED BY <1>1, <2>1
<1>4. CASE UNCHANGED vars
  BY <1>1, <1>4 DEF vars, clientVars
<1> QED BY <1>2, <1>3, <1>4 DEF Next, Rest

LEMMA OneHandlerAlways ==
  ASSUME OneLockForAll
  PROVE  Spec => []OneHandler
<1>1. Init => OneHandler
  BY DEF Init, OneHandler, Active
<1>2. TypeOK /\ OneHandler /\ [Next]_vars => OneHandler'
  BY StepOfOne
<1>3. QED
  BY <1>1, <1>2, TypeCorrect, PTL DEF Spec

-----------------------------------------------------------------------------
(* Who can take a script away that a handler has ensured.                  *)

\* A handler that has ensured a script and still counts on it.
Ensured(c) ==
  \/ pc[c] \in {"draw", "write", "register", "post", "drain", "finish"}
  \/ pc[c] = "done" /\ result[c] = "reply"

\* Handlers that run at once share no lock; a script dropped in the middle of a
\* handler was dropped by one of those; a handler that counts on a script and has
\* none lost it so.
NoSharedLock ==
  \A c, d \in Clients : c # d /\ Active(c) /\ Active(d) => Holds[c] \cap Holds[d] = {}
TornByLockless ==
  \A c \in Clients : \A d \in torn[c] : d # c /\ Holds[c] \cap Holds[d] = {}
LostIsTorn == \A c \in Clients : Ensured(c) /\ script = "none" => torn[c] # {}
TornInv == NoSharedLock /\ TornByLockless /\ LostIsTorn

\* A step that drops no script and lets no handler count on a missing one.
LEMMA TornRest ==
  ASSUME TypeOK, TornInv, torn' = torn, script' = "none" => script = "none",
         \A c \in Clients : Active(c)' => Active(c),
         \A c \in Clients : Ensured(c)' => Ensured(c) \/ script' # "none"
  PROVE  TornInv'
<1>1. NoSharedLock'
  BY DEF TornInv, NoSharedLock
<1>2. TornByLockless'
  BY DEF TornInv, TornByLockless
<1>3. LostIsTorn'
  BY DEF TornInv, LostIsTorn
<1> QED BY <1>1, <1>2, <1>3 DEF TornInv

LEMMA TornReload ==
  ASSUME TypeOK, TornInv, NEW c \in Clients, EnsureReload(c)
  PROVE  TornInv'
<1>0. /\ pc \in [Clients -> Steps] /\ result \in [Clients -> Errors \cup {"none", "reply"}]
      /\ torn \in [Clients -> SUBSET Clients]
  BY DEF TypeOK, ClientTypes, OtherTypes
<1>1. pc[c] = "reset"
  BY DEF EnsureReload
<1>2. \/ pc' = [pc EXCEPT ![c] = "load"] /\ result' = result
      \/ pc' = [pc EXCEPT ![c] = "done"] /\ result' = [result EXCEPT ![c] = "no_script"]
  BY DEF EnsureReload, Goto, Fail
<1>3. /\ pc'[c] = "load" \/ (pc'[c] = "done" /\ result'[c] = "no_script")
      /\ \A d \in Clients \ {c} : pc'[d] = pc[d] /\ result'[d] = result[d]
  BY <1>0, <1>2
<1>4. \A d \in Clients : Active(d)' <=> Active(d)
  BY <1>1, <1>3 DEF Active
<1>5. \A d \in Clients : Ensured(d)' => d # c /\ Ensured(d)
  BY <1>3 DEF Ensured
<1>6. CASE script # "dead"
  <2>1. torn' = torn /\ script' = script
    BY <1>6 DEF EnsureReload, scriptVars
  <2> QED BY <1>4, <1>5, <2>1, TornRest
<1>7. CASE script = "dead"
  <2>1. torn' = [d \in Clients |-> IF d # c /\ pc[d] \notin {"idle", "ensure"}
                                   THEN torn[d] \cup {c} ELSE torn[d]]
    BY <1>7 DEF EnsureReload, Teardown
  <2>2. NoSharedLock'
    BY <1>4 DEF TornInv, NoSharedLock
  <2>3. ASSUME NEW d \in Clients, NEW e \in torn'[d]
        PROVE  e # d /\ Holds[d] \cap Holds[e] = {}
    <3>1. CASE e \in torn[d]
      BY <3>1 DEF TornInv, TornByLockless
    <3>2. CASE e = c /\ d # c /\ pc[d] \notin {"idle", "ensure"}
      <4>1. Active(c) /\ Active(d)
        BY <1>1, <3>2 DEF Active
      <4> QED BY <3>2, <4>1 DEF TornInv, NoSharedLock
    <3> QED BY <2>1, <2>3, <3>1, <3>2
  <2>4. ASSUME NEW d \in Clients, Ensured(d)'
        PROVE  torn'[d] # {}
    <3>1. d # c /\ Ensured(d)
      BY <1>5, <2>4
    <3>2. pc[d] \notin {"idle", "ensure"}
      BY <3>1 DEF Ensured
    <3> QED BY <2>1, <3>1, <3>2
  <2> QED BY <2>2, <2>3, <2>4 DEF TornInv, TornByLockless, LostIsTorn
<1> QED BY <1>6, <1>7

LEMMA TornStep ==
  ASSUME TypeOK, TornInv, [Next]_vars
  PROVE  TornInv'
<1>0. /\ pc \in [Clients -> Steps] /\ result \in [Clients -> Errors \cup {"none", "reply"}]
      /\ torn \in [Clients -> SUBSET Clients]
  BY DEF TypeOK, ClientTypes, OtherTypes
<1>1. CASE UNCHANGED <<pc, result, torn>> /\ (script' = "none" => script = "none")
  BY <1>1, TornRest DEF Active, Ensured
<1>2. ASSUME NEW c \in Clients, ClientNext(c) PROVE TornInv'
  <2>1. CASE DrainMessages(c)
    BY <1>1, <2>1 DEF DrainMessages, clientVars, scriptVars
  <2>2. CASE Enter(c)
    <3>1. /\ pc' = [pc EXCEPT ![c] = "ensure"] /\ UNCHANGED <<result, script, torn>>
          /\ \A d \in Clients \ {c} : Active(d) => Holds[c] \cap Holds[d] = {}
      BY <2>2 DEF Enter, Goto, scriptVars, OuterLocksFree
    <3>2. pc'[c] = "ensure" /\ \A d \in Clients \ {c} : pc'[d] = pc[d]
      BY <1>0, <3>1
    <3>3. NoSharedLock'
      <4> SUFFICES ASSUME NEW a \in Clients, NEW b \in Clients, a # b, Active(a)', Active(b)'
                   PROVE  Holds[a] \cap Holds[b] = {}
        BY DEF NoSharedLock
      <4>1. CASE a = c
        BY <3>1, <3>2, <4>1 DEF Active
      <4>2. CASE b = c
        BY <3>1, <3>2, <4>2 DEF Active
      <4>3. CASE a # c /\ b # c
        BY <3>2, <4>3 DEF Active, TornInv, NoSharedLock
      <4> QED BY <4>1, <4>2, <4>3
    <3>4. TornByLockless' /\ LostIsTorn'
      BY <3>1, <3>2 DEF TornInv, TornByLockless, LostIsTorn, Ensured
    <3> QED BY <3>3, <3>4 DEF TornInv
  <2>3. CASE EnsureReload(c)
    BY <2>3, TornReload
  <2>4. CASE EnsureLock(c) \/ EnsureLive(c) \/ LoadDone(c)
    <3>1. /\ Active(c) /\ UNCHANGED <<result, torn>>
          /\ \/ pc' = [pc EXCEPT ![c] = "reset"] /\ script' = script
             \/ pc' = [pc EXCEPT ![c] = "draw"] /\ script' = "live"
      BY <2>4 DEF EnsureLock, EnsureLive, LoadDone, Goto, scriptVars, Active
    <3>2. \A d \in Clients : /\ Active(d)' => Active(d)
                             /\ Ensured(d)' => Ensured(d) \/ script' # "none"
      BY <1>0, <3>1 DEF Active, Ensured
    <3> QED BY <3>1, <3>2, TornRest
  <2>5. CASE LoadFailed(c)
    <3>1. /\ pc[c] = "load" /\ pc' = [pc EXCEPT ![c] = "done"] /\ UNCHANGED <<script, torn>>
          /\ result' = [result EXCEPT ![c] = IF cancellable THEN "cancelled" ELSE "no_script"]
      BY <2>5 DEF LoadFailed, Goto, Fail, scriptVars
    <3>2. result'[c] # "reply" /\ \A d \in Clients \ {c} : result'[d] = result[d]
      BY <1>0, <3>1
    <3>3. \A d \in Clients : /\ Active(d)' => Active(d)
                             /\ Ensured(d)' => Ensured(d)
      BY <1>0, <3>1, <3>2 DEF Active, Ensured
    <3> QED BY <3>1, <3>3, TornRest
  <2>6. CASE \/ DrawId(c) \/ WriteNextId(c) \/ Register(c) \/ Post(c) \/ DrainReply(c)
             \/ DrainCancelled(c) \/ DrainGone(c) \/ DrainTimeout(c) \/ Finish(c)
             \/ RequestAgain(c)
    <3>1. Ensured(c) /\ Active(c) /\ UNCHANGED <<script, torn>>
      BY <2>6 DEF DrawId, WriteNextId, Register, Post, DrainReply, DrainCancelled, DrainGone,
         DrainTimeout, Drained, Finish, RequestAgain, Ensured, Active, scriptVars
    <3>2. \A d \in Clients \ {c} : pc'[d] = pc[d] /\ result'[d] = result[d]
      BY <1>0, <2>6 DEF DrawId, WriteNextId, Register, Post, DrainReply, DrainCancelled,
         DrainGone, DrainTimeout, Drained, Finish, RequestAgain, Goto, Fail
    <3>3. \A d \in Clients : /\ Active(d)' => Active(d)
                             /\ Ensured(d)' => Ensured(d)
      BY <3>1, <3>2 DEF Active, Ensured
    <3> QED BY <3>1, <3>3, TornRest
  <2>7. CASE Return(c)
    <3>1. /\ pc' = [pc EXCEPT ![c] = "idle"] /\ UNCHANGED <<result, script>>
          /\ torn' = [torn EXCEPT ![c] = {}]
      BY <2>7 DEF Return, Goto
    <3>2. /\ pc'[c] = "idle" /\ torn'[c] = {}
          /\ \A d \in Clients \ {c} : pc'[d] = pc[d] /\ torn'[d] = torn[d]
      BY <1>0, <3>1
    <3>3. NoSharedLock'
      BY <3>2 DEF TornInv, NoSharedLock, Active
    <3>4. TornByLockless'
      BY <3>2 DEF TornInv, TornByLockless
    <3>5. LostIsTorn'
      BY <3>1, <3>2 DEF TornInv, LostIsTorn, Ensured
    <3> QED BY <3>3, <3>4, <3>5 DEF TornInv
  <2> QED BY <1>2, <2>1, <2>2, <2>3, <2>4, <2>5, <2>6, <2>7 DEF ClientNext, HandlerStep
<1>3. CASE Environment
  <2>1. UNCHANGED <<pc, result, torn>>
    BY <1>3 DEF Environment, OnMessage, AgentHandle, AgentEvent, UserSends, ScriptDies,
       SessionDetaches, Destroyed, CancelFlag, CancelHook, clientVars, scriptVars
  <2>2. script' = script \/ script' = "dead"
    BY <1>3 DEF Environment, OnMessage, AgentHandle, AgentEvent, UserSends, ScriptDies,
       SessionDetaches, Destroyed, CancelFlag, CancelHook, scriptVars
  <2> QED BY <1>1, <2>1, <2>2
<1>4. CASE UNCHANGED vars
  BY <1>1, <1>4 DEF vars, clientVars, scriptVars
<1> QED BY <1>2, <1>3, <1>4 DEF Next, Rest

\* Whatever locks the callers hold, backend_request posts without a script only
\* after a handler that shares no lock with it dropped the one it had ensured
\* (backend_ensure_script gives req_lock back before backend_request takes it).
THEOREM ScriptTakenByLockless == Spec => []ScriptPresentAtPost
<1>1. Init => TornInv
  BY DEF Init, TornInv, NoSharedLock, TornByLockless, LostIsTorn, Active, Ensured
<1>2. TypeOK /\ TornInv /\ [Next]_vars => TornInv'
  BY TornStep
<1>3. TornInv => ScriptPresentAtPost
  <2> SUFFICES ASSUME TornInv, NEW c \in Clients, pc[c] = "post", script = "none"
               PROVE  \E d \in torn[c] : d # c /\ Holds[c] \cap Holds[d] = {}
    BY DEF ScriptPresentAtPost
  <2>1. torn[c] # {}
    BY DEF TornInv, LostIsTorn, Ensured
  <2> QED BY <2>1 DEF TornInv, TornByLockless
<1>4. QED
  BY <1>1, <1>2, <1>3, TypeCorrect, PTL DEF Spec

-----------------------------------------------------------------------------
(* Whose reply a request gets.                                             *)

Members(s) == {s[i] : i \in DOMAIN s}

LEMMA MembersAppend ==
  ASSUME NEW S, NEW s \in Seq(S), NEW e \in S
  PROVE  /\ Len(s) \in Nat /\ DOMAIN s = 1 .. Len(s)
         /\ DOMAIN Append(s, e) = 1 .. Len(s) + 1
         /\ \A i \in DOMAIN s : Append(s, e)[i] = s[i]
         /\ Append(s, e)[Len(s) + 1] = e
         /\ Members(Append(s, e)) = Members(s) \cup {e}
<1> DEFINE a == Append(s, e)
<1>1. Len(s) \in Nat /\ DOMAIN s = 1 .. Len(s)
  BY LenProperties
<1>2. a \in Seq(S) /\ Len(a) = Len(s) + 1 /\ a[Len(s) + 1] = e
      /\ \A i \in 1 .. Len(s) : a[i] = s[i]
  BY AppendProperties
<1>3. DOMAIN a = 1 .. Len(s) + 1
  BY <1>2, LenProperties
<1> HIDE DEF a
<1>4. Members(a) = Members(s) \cup {e}
  <2>1. \A i \in DOMAIN a : i \in DOMAIN s \/ i = Len(s) + 1
    BY <1>1, <1>3
  <2>2. Len(s) + 1 \in DOMAIN a /\ \A i \in DOMAIN s : i \in DOMAIN a
    BY <1>1, <1>3
  <2> QED BY <1>1, <1>2, <2>1, <2>2 DEF Members
<1> USE DEF a
<1> QED BY <1>1, <1>2, <1>3, <1>4

LEMMA MembersTail ==
  ASSUME NEW S, NEW s \in Seq(S), s # <<>>
  PROVE  /\ Len(s) \in Nat /\ DOMAIN s = 1 .. Len(s)
         /\ 1 \in DOMAIN s /\ Head(s) = s[1]
         /\ \A i \in DOMAIN Tail(s) : i \in Nat /\ i + 1 \in DOMAIN s /\ Tail(s)[i] = s[i + 1]
         /\ Head(s) \in Members(s) /\ Members(Tail(s)) \subseteq Members(s)
         /\ Members(<<Head(s)>>) \subseteq Members(s)
<1>1. Len(s) \in Nat /\ DOMAIN s = 1 .. Len(s) /\ Len(s) # 0
  BY EmptySeq, LenProperties
<1>2. /\ Head(s) = s[1]
      /\ Tail(s) \in Seq(S) /\ Len(Tail(s)) = Len(s) - 1
      /\ \A i \in 1 .. Len(Tail(s)) : Tail(s)[i] = s[i + 1]
  BY HeadTailProperties
<1>3. DOMAIN Tail(s) = 1 .. Len(s) - 1
  BY <1>2, LenProperties
<1>4. \A i \in DOMAIN Tail(s) : i \in Nat /\ i + 1 \in DOMAIN s /\ Tail(s)[i] = s[i + 1]
  BY <1>1, <1>2, <1>3
<1>5. 1 \in DOMAIN s
  BY <1>1
<1>6. DOMAIN <<Head(s)>> = {1} /\ <<Head(s)>>[1] = Head(s)
  OBVIOUS
<1> QED BY <1>1, <1>2, <1>4, <1>5, <1>6 DEF Members

\* The steps between writing next_id and leaving the slot.
Numbered == {"register", "post", "drain", "finish"}

\* No other request goes by the id of r.
Belongs(r) ==
  /\ r.id \in 0 .. nextId - 1
  /\ \A c \in Clients : pc[c] \in Numbered /\ id[c] = r.id => call[c] = r.call

\* Ids are drawn one at a time and used once.
IdsDrawn ==
  /\ \A c \in Clients : pc[c] = "write" => id[c] = nextId
  /\ \A c, d \in Clients : pc[c] = "write" /\ pc[d] = "write" => c = d
  /\ \A c \in Clients : pc[c] \in Numbered => id[c] < nextId
  /\ \A c, d \in Clients : pc[c] \in Numbered /\ pc[d] \in Numbered /\ id[c] = id[d] => c = d

FromAgent(m) == m.kind = "reply" /\ m.call # 0

WireBelongs ==
  /\ \A r \in Members(toAgent) : Belongs(r)
  /\ \A m \in Members(toHost) : FromAgent(m) => Belongs(m)

OwnAnswers ==
  /\ \A c \in Clients : InFlight(c) /\ replyReady => reply.call \in {0, call[c]}
  /\ \A c \in Clients : pc[c] = "done" /\ result[c] = "reply" => answer[c] \in {0, call[c]}

IdsInv == ~raced => IdsDrawn /\ WireBelongs /\ OwnAnswers

LEMMA IdsStep ==
  ASSUME TypeOK, IdsDrawn, WireBelongs, OwnAnswers,
         NEW c \in Clients, NEW step \in Steps \ {"write"},
         pc' = [pc EXCEPT ![c] = step],
         \A d \in Clients \ {c} : /\ id'[d] = id[d] /\ call'[d] = call[d]
                                  /\ result'[d] = result[d] /\ answer'[d] = answer[d],
         step \in Numbered => pc[c] \in Numbered /\ id'[c] = id[c] /\ call'[c] = call[c],
         step \in InFlightSteps => pc[c] \in InFlightSteps \/ ~replyReady',
         nextId' = nextId,
         \A r \in Members(toAgent') : r \in Members(toAgent) \/ Belongs(r),
         Members(toHost') \subseteq Members(toHost) \cup {Event},
         replyReady' => replyReady /\ reply' = reply,
         step = "done" /\ result'[c] = "reply" => answer'[c] \in {0, call'[c]}
  PROVE  IdsDrawn' /\ WireBelongs' /\ OwnAnswers'
<1> USE DEF Numbered, InFlightSteps
<1>1. pc'[c] = step /\ \A d \in Clients \ {c} : pc'[d] = pc[d]
  BY DEF TypeOK, ClientTypes
<1>2. \A d \in Clients : pc'[d] \in Numbered =>
        pc[d] \in Numbered /\ id'[d] = id[d] /\ call'[d] = call[d]
  BY <1>1
<1>3. \A d \in Clients : pc'[d] = "write" => pc[d] = "write" /\ id'[d] = id[d]
  BY <1>1
<1>4. IdsDrawn'
  <2>1. \A d \in Clients : pc'[d] = "write" => id'[d] = nextId'
    BY <1>3 DEF IdsDrawn
  <2>2. \A d, e \in Clients : pc'[d] = "write" /\ pc'[e] = "write" => d = e
    BY <1>3 DEF IdsDrawn
  <2>3. \A d \in Clients : pc'[d] \in Numbered => id'[d] < nextId'
    BY <1>2 DEF IdsDrawn
  <2>4. \A d, e \in Clients : pc'[d] \in Numbered /\ pc'[e] \in Numbered /\ id'[d] = id'[e]
          => d = e
    BY <1>2 DEF IdsDrawn
  <2> QED BY <2>1, <2>2, <2>3, <2>4 DEF IdsDrawn
<1>5. ASSUME NEW r, Belongs(r) PROVE Belongs(r)'
  BY <1>2, <1>5 DEF Belongs
<1>6. WireBelongs'
  <2>1. ~FromAgent(Event)
    BY DEF FromAgent, Event
  <2>2. \A m \in Members(toHost') : FromAgent(m) => m \in Members(toHost)
    BY <2>1
  <2> QED BY <1>5, <2>2 DEF WireBelongs
<1>7. OwnAnswers'
  <2>1. ASSUME NEW d \in Clients, pc'[d] \in InFlightSteps, replyReady'
        PROVE  reply'.call \in {0, call'[d]}
    <3>1. pc[d] \in InFlightSteps /\ call'[d] = call[d]
      BY <1>1, <1>2, <2>1
    <3> QED BY <2>1, <3>1 DEF OwnAnswers, InFlight
  <2>2. ASSUME NEW d \in Clients, pc'[d] = "done", result'[d] = "reply"
        PROVE  answer'[d] \in {0, call'[d]}
    <3>1. CASE d = c
      BY <1>1, <2>2, <3>1
    <3>2. CASE d # c
      BY <1>1, <2>2, <3>2 DEF OwnAnswers
    <3> QED BY <3>1, <3>2
  <2> QED BY <2>1, <2>2 DEF OwnAnswers, InFlight
<1> QED BY <1>4, <1>6, <1>7

\* A step that changes no client, no id and nothing that was answered, and adds
\* to the wires only what belongs.
LEMMA IdsFrame ==
  ASSUME IdsDrawn, WireBelongs, OwnAnswers,
         UNCHANGED <<pc, id, call, result, answer, nextId, replyReady, reply>>,
         \A r \in Members(toAgent') : r \in Members(toAgent) \/ Belongs(r),
         \A m \in Members(toHost') : m \in Members(toHost) \/ (FromAgent(m) => Belongs(m))
  PROVE  IdsDrawn' /\ WireBelongs' /\ OwnAnswers'
<1>1. IdsDrawn' /\ OwnAnswers'
  BY DEF IdsDrawn, OwnAnswers, InFlight
<1>2. ASSUME NEW r, Belongs(r) PROVE Belongs(r)'
  BY <1>2 DEF Belongs
<1> QED BY <1>1, <1>2 DEF WireBelongs

LEMMA EnvironmentIds ==
  ASSUME SlotInv, IdsDrawn, WireBelongs, OwnAnswers, Environment
  PROVE  IdsDrawn' /\ WireBelongs' /\ OwnAnswers'
<1>0. /\ TypeOK
      /\ toHost \in Seq(Replies \cup {Event})
      /\ toAgent \in Seq([id : Nat, call : Calls])
  BY DEF SlotInv, TypeOK, WireTypes
<1> USE DEF clientVars, slotVars, wireVars
<1>1. CASE OnMessage
  <2> DEFINE m == Head(toHost)
             own == m.kind = "reply" /\ m.id = awaitId /\ m.id \in pending
  <2>1. /\ toHost # <<>> /\ toHost' = Tail(toHost)
        /\ UNCHANGED <<pc, id, call, result, answer, nextId, toAgent>>
    BY <1>1 DEF OnMessage
  <2> DEFINE Wire == Replies \cup {Event}
  <2> HIDE DEF Wire
  <2>2. Members(toHost') \subseteq Members(toHost) /\ m \in Members(toHost)
    <3>1. toHost \in Seq(Wire)
      BY <1>0 DEF Wire
    <3> QED BY <2>1, <3>1, MembersTail
  <2>3. CASE ~own
    <3>1. UNCHANGED <<replyReady, reply>>
      BY <1>1, <2>3 DEF OnMessage
    <3> QED BY <2>1, <2>2, <3>1, IdsFrame
  <2>4. CASE own
    <3>1. reply' = m /\ replyReady' = TRUE /\ m.kind = "reply" /\ m.id = awaitId
      BY <1>1, <2>4 DEF OnMessage
    <3>2. IdsDrawn'
      BY <2>1 DEF IdsDrawn
    <3>3. WireBelongs'
      <4>1. ASSUME NEW r, Belongs(r) PROVE Belongs(r)'
        BY <2>1, <4>1 DEF Belongs
      <4> QED BY <2>1, <2>2, <4>1 DEF WireBelongs
    <3>4. ASSUME NEW c \in Clients, InFlight(c) PROVE m.call \in {0, call[c]}
      <4>1. id[c] = m.id /\ pc[c] \in Numbered
        BY <3>1, <3>4 DEF SlotInv, SlotRest, SlotOwned, Numbered, InFlight, InFlightSteps
      <4>2. CASE m.call # 0
        <5>1. Belongs(m)
          BY <2>2, <3>1, <4>2 DEF WireBelongs, FromAgent
        <5> QED BY <4>1, <5>1 DEF Belongs
      <4> QED BY <4>2
    <3>5. OwnAnswers'
      BY <2>1, <3>1, <3>4 DEF OwnAnswers, InFlight
    <3> QED BY <3>2, <3>3, <3>5
  <2> QED BY <2>3, <2>4
<1>2. CASE AgentHandle
  <2> DEFINE R == [id : Nat, call : Calls]
             r == Head(toAgent)
             m == [kind |-> "reply", id |-> r.id, call |-> r.call]
             Wire == Replies \cup {Event}
  <2>1. /\ toAgent # <<>> /\ toAgent' = Tail(toAgent) /\ toHost' = Append(toHost, m)
        /\ UNCHANGED <<pc, id, call, result, answer, nextId, replyReady, reply>>
    BY <1>2 DEF AgentHandle
  <2>2. Members(toAgent') \subseteq Members(toAgent) /\ r \in Members(toAgent) /\ r \in R
    <3> HIDE DEF R
    <3>1. toAgent \in Seq(R)
      BY <1>0 DEF R
    <3> QED BY <2>1, <3>1, MembersTail, HeadTailProperties
  <2>3. Members(toHost') = Members(toHost) \cup {m}
    <3>1. m \in Wire
      BY <2>2, BoundsAssumption DEF Replies, Calls
    <3> HIDE DEF Wire, m
    <3>2. toHost \in Seq(Wire)
      BY <1>0 DEF Wire
    <3> QED BY <2>1, <3>1, <3>2, MembersAppend
  <2>4. Belongs(m)
    <3>1. Belongs(r)
      BY <2>2 DEF WireBelongs
    <3> QED BY <3>1 DEF Belongs
  <2> HIDE DEF m
  <2> QED BY <2>1, <2>2, <2>3, <2>4, IdsFrame
<1>3. CASE AgentEvent \/ \E n \in UserIds : UserSends(n)
  <2>1. PICK m \in Replies \cup {Event} : toHost' = Append(toHost, m) /\ ~FromAgent(m)
    <3>1. CASE AgentEvent
      BY <3>1 DEF AgentEvent, FromAgent, Event
    <3>2. ASSUME NEW n \in UserIds, UserSends(n)
          PROVE  \E m \in Replies \cup {Event} : toHost' = Append(toHost, m) /\ ~FromAgent(m)
      <4>1. [kind |-> "reply", id |-> n, call |-> 0] \in Replies
        BY BoundsAssumption DEF Replies
      <4> QED BY <3>2, <4>1 DEF UserSends, FromAgent
    <3> QED BY <1>3, <3>1, <3>2
  <2>2. UNCHANGED <<pc, id, call, result, answer, nextId, replyReady, reply, toAgent>>
    BY <1>3 DEF AgentEvent, UserSends
  <2>3. Members(toHost') = Members(toHost) \cup {m}
    BY <1>0, <2>1, MembersAppend
  <2> QED BY <2>1, <2>2, <2>3, IdsFrame
<1>4. CASE ScriptDies \/ SessionDetaches
  <2>1. /\ toAgent' = <<>> /\ toHost' \in {toHost, <<>>}
        /\ UNCHANGED <<pc, id, call, result, answer, nextId, replyReady, reply>>
    BY <1>4 DEF ScriptDies, SessionDetaches, Destroyed
  <2>2. Members(<<>>) = {}
    BY DEF Members
  <2> QED BY <2>1, <2>2, IdsFrame
<1>5. CASE CancelFlag \/ CancelHook
  BY <1>5, IdsFrame DEF CancelFlag, CancelHook
<1> QED BY <1>1, <1>2, <1>3, <1>4, <1>5 DEF Environment

LEMMA ClientIds ==
  ASSUME SlotInv, IdsDrawn, WireBelongs, OwnAnswers, NEW c \in Clients, ClientNext(c), ~raced'
  PROVE  IdsDrawn' /\ WireBelongs' /\ OwnAnswers'
<1>0. /\ TypeOK
      /\ toHost \in Seq(Replies \cup {Event})
      /\ toAgent \in Seq([id : Nat, call : Calls])
      /\ id \in [Clients -> Nat] /\ call \in [Clients -> 0 .. MaxCalls]
      /\ result \in [Clients -> Errors \cup {"none", "reply"}]
      /\ answer \in [Clients -> 0 .. MaxCalls]
      /\ pc \in [Clients -> Steps]
      /\ nextId \in Nat
  BY DEF SlotInv, TypeOK, WireTypes, ClientTypes, SlotTypes
<1> USE DEF clientVars, slotVars, wireVars, Goto, Fail
<1>a. \A step \in {"idle", "ensure", "reset", "load", "draw", "register", "post", "drain",
                  "finish", "done"} : step \in Steps \ {"write"}
  BY DEF Steps, LockedSteps, InFlightSteps
<1>1. CASE Enter(c)
  <2>1. \A d \in Clients \ {c} : call'[d] = call[d]
    BY <1>0, <1>1 DEF Enter
  <2> QED BY <1>0, <1>a, <1>1, <2>1, IdsStep DEF Enter, Numbered, InFlightSteps
<1>2. CASE EnsureLock(c) \/ EnsureLive(c) \/ Return(c)
  <2>1. /\ \E step \in {"reset", "draw", "idle"} : pc' = [pc EXCEPT ![c] = step]
        /\ UNCHANGED <<id, call, result, answer, nextId, toAgent, toHost, replyReady, reply>>
    BY <1>2 DEF EnsureLock, EnsureLive, Return
  <2>2. PICK step \in {"reset", "draw", "idle"} : pc' = [pc EXCEPT ![c] = step]
    BY <2>1
  <2> QED BY <1>0, <1>a, <2>1, <2>2, IdsStep DEF Numbered, InFlightSteps
<1>3. CASE EnsureReload(c)
  <2>1. Members(toHost') \subseteq Members(toHost)
    <3>1. toHost' = toHost \/ toHost' = <<>> \/ (toHost # <<>> /\ toHost' = <<Head(toHost)>>)
      BY <1>3 DEF EnsureReload, Teardown
    <3>2. Members(<<>>) = {}
      BY DEF Members
    <3> DEFINE Wire == Replies \cup {Event}
    <3> HIDE DEF Wire
    <3>3. toHost \in Seq(Wire)
      BY <1>0 DEF Wire
    <3> QED BY <3>1, <3>2, <3>3, MembersTail
  <2>2. /\ UNCHANGED <<id, call, answer, nextId, toAgent>>
        /\ replyReady' => replyReady /\ reply' = reply
    BY <1>3 DEF EnsureReload, Teardown
  <2>3. \/ pc' = [pc EXCEPT ![c] = "load"] /\ result' = result
        \/ pc' = [pc EXCEPT ![c] = "done"] /\ result' = [result EXCEPT ![c] = "no_script"]
    BY <1>3 DEF EnsureReload
  <2>4. CASE pc' = [pc EXCEPT ![c] = "load"] /\ result' = result
    BY <1>0, <1>a, <2>1, <2>2, <2>4, IdsStep DEF Numbered, InFlightSteps
  <2>5. CASE pc' = [pc EXCEPT ![c] = "done"] /\ result' = [result EXCEPT ![c] = "no_script"]
    <3>1. result'[c] = "no_script" /\ \A d \in Clients \ {c} : result'[d] = result[d]
      BY <1>0, <2>5
    <3> QED BY <1>0, <1>a, <2>1, <2>2, <2>5, <3>1, IdsStep DEF Numbered, InFlightSteps
  <2> QED BY <2>3, <2>4, <2>5
<1>4. CASE LoadDone(c)
  <2> DEFINE Wire == Replies \cup {Event}
  <2>1. Event \in Wire
    OBVIOUS
  <2>2. Members(toHost') = Members(toHost) \cup {Event}
    <3> HIDE DEF Wire
    <3>1. toHost \in Seq(Wire) /\ toHost' = Append(toHost, Event)
      BY <1>0, <1>4 DEF LoadDone, Wire
    <3>2. Members(Append(toHost, Event)) = Members(toHost) \cup {Event}
      BY <2>1, <3>1, MembersAppend
    <3> QED BY <3>1, <3>2
  <2> QED BY <1>0, <1>a, <1>4, <2>2, IdsStep DEF LoadDone, Numbered, InFlightSteps
<1>5. CASE LoadFailed(c)
  <2>1. result' = [result EXCEPT ![c] = IF cancellable THEN "cancelled" ELSE "no_script"]
    BY <1>5 DEF LoadFailed
  <2>2. result'[c] # "reply" /\ \A d \in Clients \ {c} : result'[d] = result[d]
    BY <1>0, <2>1
  <2> QED BY <1>0, <1>a, <1>5, <2>2, IdsStep DEF LoadFailed, Numbered, InFlightSteps
<1>6. CASE DrawId(c)
  <2>1. /\ pc' = [pc EXCEPT ![c] = "write"] /\ id' = [id EXCEPT ![c] = nextId]
        /\ UNCHANGED <<call, result, answer, nextId, toAgent, toHost, replyReady, reply>>
    BY <1>6 DEF DrawId
  <2>2. \A d \in Clients \ {c} : pc[d] # "write"
    <3>1. raced' = (raced \/ \E d \in Clients \ {c} : pc[d] = "write")
      BY <1>6 DEF DrawId
    <3> QED BY <3>1, Zenon
  <2>3. /\ pc'[c] = "write" /\ id'[c] = nextId
        /\ \A d \in Clients \ {c} : pc'[d] = pc[d] /\ id'[d] = id[d]
    BY <1>0, <2>1
  <2>4. IdsDrawn'
    BY <2>1, <2>2, <2>3 DEF IdsDrawn, Numbered
  <2>5. ASSUME NEW r, Belongs(r) PROVE Belongs(r)'
    BY <2>1, <2>3, <2>5 DEF Belongs, Numbered
  <2>6. WireBelongs'
    BY <2>1, <2>5 DEF WireBelongs
  <2>7. OwnAnswers'
    BY <2>1, <2>3 DEF OwnAnswers, InFlight, InFlightSteps
  <2> QED BY <2>4, <2>6, <2>7
<1>7. CASE WriteNextId(c)
  <2>1. /\ pc[c] = "write" /\ pc' = [pc EXCEPT ![c] = "register"] /\ nextId' = id[c] + 1
        /\ UNCHANGED <<id, call, result, answer, toAgent, toHost, replyReady, reply>>
    BY <1>7 DEF WriteNextId
  <2>2. id[c] = nextId /\ \A d \in Clients \ {c} : pc[d] # "write"
    BY <2>1 DEF IdsDrawn
  <2>3. pc'[c] = "register" /\ \A d \in Clients \ {c} : pc'[d] = pc[d]
    BY <1>0, <2>1
  <2>4. \A d \in Clients \ {c} : pc[d] \in Numbered => id[d] < nextId /\ id[d] # id[c]
    BY <1>0, <2>2 DEF IdsDrawn
  <2>5. nextId' = nextId + 1 /\ nextId < nextId'
    BY <1>0, <2>1, <2>2
  <2>6. IdsDrawn'
    <3>1. \A d \in Clients : pc'[d] # "write"
      BY <2>2, <2>3
    <3>2. \A d \in Clients : pc'[d] \in Numbered => id'[d] < nextId'
      <4>1. \A d \in Clients \ {c} : pc[d] \in Numbered => id[d] < nextId'
        BY <1>0, <2>4, <2>5
      <4> QED BY <2>1, <2>2, <2>3, <2>5, <4>1
    <3>3. \A d, e \in Clients : pc'[d] \in Numbered /\ pc'[e] \in Numbered /\ id'[d] = id'[e]
            => d = e
      BY <2>1, <2>3, <2>4 DEF IdsDrawn
    <3> QED BY <3>1, <3>2, <3>3 DEF IdsDrawn
  <2>7. ASSUME NEW r, Belongs(r) PROVE Belongs(r)'
    <3>1. r.id \in 0 .. nextId' - 1 /\ r.id # id[c]
      BY <1>0, <2>2, <2>5, <2>7 DEF Belongs
    <3> QED BY <2>1, <2>3, <2>7, <3>1 DEF Belongs
  <2>8. WireBelongs'
    BY <2>1, <2>7 DEF WireBelongs
  <2>9. OwnAnswers'
    BY <2>1, <2>3 DEF OwnAnswers, InFlight, InFlightSteps
  <2> QED BY <2>6, <2>8, <2>9
<1>8. CASE Register(c)
  <2>1. pc[c] = "register" /\ UNCHANGED <<id, call, answer, nextId, toAgent, toHost>>
    BY <1>8 DEF Register
  <2>2. CASE id[c] \in pending
    <3>1. /\ pc' = [pc EXCEPT ![c] = "done"] /\ result' = [result EXCEPT ![c] = "refused"]
          /\ UNCHANGED <<replyReady, reply>>
      BY <1>8, <2>2 DEF Register
    <3>2. result'[c] = "refused" /\ \A d \in Clients \ {c} : result'[d] = result[d]
      BY <1>0, <3>1
    <3> QED BY <1>0, <1>a, <2>1, <3>1, <3>2, IdsStep DEF Numbered, InFlightSteps
  <2>3. CASE id[c] \notin pending
    <3>1. pc' = [pc EXCEPT ![c] = "post"] /\ result' = result /\ ~replyReady'
      BY <1>8, <2>3 DEF Register
    <3> QED BY <1>0, <1>a, <2>1, <3>1, IdsStep DEF Numbered, InFlightSteps
  <2> QED BY <2>2, <2>3
<1>9. CASE Post(c)
  <2> DEFINE R == [id : Nat, call : Calls]
             r == [id |-> id[c], call |-> call[c]]
  <2>1. /\ pc[c] = "post" /\ pc' = [pc EXCEPT ![c] = "drain"]
        /\ toAgent' = Append(toAgent, r) \/ toAgent' = toAgent
        /\ UNCHANGED <<id, call, result, answer, nextId, toHost, replyReady, reply>>
    BY <1>9 DEF Post
  <2>2. call[c] \in Calls
    BY <1>0, <2>1, BoundsAssumption DEF SlotInv, SlotRest, CallNumbered, Active, Calls
  <2>3. r \in R
    BY <1>0, <2>2
  <2>4. Belongs(r)
    <3>1. id[c] < nextId /\ id[c] \in Nat
      BY <1>0, <2>1 DEF IdsDrawn, Numbered
    <3>2. \A d \in Clients : pc[d] \in Numbered /\ id[d] = id[c] => call[d] = call[c]
      BY <2>1 DEF IdsDrawn, Numbered
    <3> QED BY <1>0, <3>1, <3>2 DEF Belongs
  <2>5. \A q \in Members(toAgent') : q \in Members(toAgent) \/ q = r
    <3> HIDE DEF r, R
    <3>1. toAgent \in Seq(R)
      BY <1>0 DEF R
    <3>2. Members(Append(toAgent, r)) = Members(toAgent) \cup {r}
      BY <2>3, <3>1, MembersAppend
    <3> QED BY <2>1, <3>2
  <2> HIDE DEF r
  <2> QED BY <1>0, <1>a, <2>1, <2>4, <2>5, IdsStep DEF Numbered, InFlightSteps
<1>10. CASE DrainReply(c) \/ DrainCancelled(c) \/ DrainGone(c) \/ DrainTimeout(c)
  <2>1. PICK why \in {"reply", "cancelled", "gone", "timeout"} : pc[c] = "drain" /\ Drained(c, why)
    BY <1>10 DEF DrainReply, DrainCancelled, DrainGone, DrainTimeout
  <2>2. /\ pc' = [pc EXCEPT ![c] = "finish"]
        /\ UNCHANGED <<id, call, answer, nextId, toAgent, toHost, replyReady, reply>>
        /\ \A d \in Clients \ {c} : result'[d] = result[d]
    BY <1>0, <2>1 DEF Drained
  <2> QED BY <1>0, <1>a, <2>1, <2>2, IdsStep DEF Numbered, InFlightSteps
<1>11. CASE Finish(c)
  <2>1. /\ pc[c] = "finish" /\ pc' = [pc EXCEPT ![c] = "done"] /\ ~replyReady'
        /\ UNCHANGED <<id, call, result, nextId, toAgent, toHost>>
    BY <1>11 DEF Finish
  <2>2. \A d \in Clients \ {c} : answer'[d] = answer[d]
    BY <1>0, <1>11 DEF Finish
  <2>3. result[c] = "reply" => answer'[c] \in {0, call[c]}
    <3>1. result[c] = "reply" => replyReady
      BY <2>1 DEF SlotInv, SlotRest, SlotOwned, InFlight, InFlightSteps
    <3>2. replyReady => reply.call \in {0, call[c]}
      BY <2>1 DEF OwnAnswers, InFlight, InFlightSteps
    <3>3. result[c] = "reply" => answer'[c] = reply.call
      BY <1>0, <1>11 DEF Finish
    <3> QED BY <3>1, <3>2, <3>3
  <2> QED BY <1>0, <1>a, <2>1, <2>2, <2>3, IdsStep DEF Numbered, InFlightSteps
<1>12. CASE RequestAgain(c)
  <2>1. \A d \in Clients \ {c} : call'[d] = call[d]
    BY <1>0, <1>12 DEF RequestAgain
  <2> QED BY <1>0, <1>a, <1>12, <2>1, IdsStep DEF RequestAgain, Numbered, InFlightSteps
<1>13. CASE DrainMessages(c)
  BY <1>13, IdsFrame DEF DrainMessages
<1> QED BY <1>1, <1>2, <1>3, <1>4, <1>5, <1>6, <1>7, <1>8, <1>9, <1>10, <1>11, <1>12, <1>13
        DEF ClientNext, HandlerStep

LEMMA IdsKept ==
  ASSUME SlotInv, IdsInv, [Next]_vars
  PROVE  IdsInv'
<1> SUFFICES ASSUME ~raced' PROVE IdsDrawn' /\ WireBelongs' /\ OwnAnswers'
  BY DEF IdsInv
<1>1. ~raced
  <2>1. \/ raced' = raced
        \/ \E c \in Clients : DrawId(c)
    BY DEF Next, Rest, vars, clientVars, ClientNext, HandlerStep, Enter, EnsureLock, EnsureLive,
       EnsureReload, LoadDone, LoadFailed, WriteNextId, Register, Post, DrainReply,
       DrainCancelled, DrainGone, DrainTimeout, Drained, Finish, Return, RequestAgain,
       DrainMessages, Environment, OnMessage, AgentHandle, AgentEvent, UserSends, ScriptDies,
       SessionDetaches, Destroyed, CancelFlag, CancelHook
  <2>2. ASSUME NEW c \in Clients, DrawId(c) PROVE ~raced
    <3>1. raced' = (raced \/ \E d \in Clients \ {c} : pc[d] = "write")
      BY <2>2 DEF DrawId
    <3> QED BY <3>1, Zenon
  <2> QED BY <2>1, <2>2
<1>2. IdsDrawn /\ WireBelongs /\ OwnAnswers
  BY <1>1 DEF IdsInv
<1>3. CASE UNCHANGED vars
  BY <1>2, <1>3, IdsFrame DEF vars, clientVars, slotVars, wireVars
<1> QED BY <1>2, <1>3, ClientIds, EnvironmentIds DEF Next, Rest

LEMMA IdsAlways == Spec => []IdsInv
<1>1. Init => IdsInv
  <2>1. Members(<<>>) = {}
    BY DEF Members
  <2> QED BY <2>1 DEF Init, IdsInv, IdsDrawn, WireBelongs, OwnAnswers, InFlight, InFlightSteps,
     Numbered
<1>2. SlotInv /\ IdsInv /\ [Next]_vars => IdsInv'
  BY IdsKept
<1>3. QED
  BY <1>1, <1>2, SlotInvAlways, PTL DEF Spec

\* Whoever shares the backend: unless two handlers drew their ids at once, a
\* request that succeeded has its own reply (backend_request, backend_on_message).
THEOREM OwnReplies == Spec => []ForeignReplyNeedsRace
<1>1. IdsInv => ForeignReplyNeedsRace
  BY DEF IdsInv, OwnAnswers, ForeignReplyNeedsRace
<1>2. QED
  BY <1>1, IdsAlways, PTL

-----------------------------------------------------------------------------
(* The agent runs a request once.                                          *)

\* The steps of a handler before its request is registered.
Before == {"ensure", "reset", "load", "draw", "write", "register"}

\* Each handler has a call of its own, that nobody has sent before it does.
RunsNumbered ==
  /\ \A k \in Calls : k > bounds.calls => status[k] = "new"
  /\ \A c \in Clients : call[c] <= bounds.calls
  /\ \A c, d \in Clients : Active(c) /\ Active(d) /\ call[c] = call[d] => c = d
  /\ \A c \in Clients : pc[c] \in Before => status[call[c]] = "new"

\* A posted request waits once for the agent, which has not run it.
RunsPosted ==
  /\ \A c \in Clients : pc[c] = "post" => status[call[c]] = "sent"
  /\ \A i \in DOMAIN toAgent : status[toAgent[i].call] = "sent"
  /\ \A i, j \in DOMAIN toAgent : toAgent[i].call = toAgent[j].call => i = j
  /\ \A i \in DOMAIN toAgent : \A c \in Clients : pc[c] = "post" => toAgent[i].call # call[c]

\* What was answered was run.
RunsAnswered ==
  /\ \A m \in Members(toHost) : FromAgent(m) => status[m.call] = "executed"
  /\ replyReady /\ reply.call # 0 => status[reply.call] = "executed"

RunsInv == RunsNumbered /\ RunsPosted /\ RunsAnswered

\* A step of a client that neither takes a call nor sends it.
LEMMA RunsStep ==
  ASSUME TypeOK, RunsInv, NEW c \in Clients, NEW step \in Steps \ {"post"},
         pc[c] # "idle",
         pc' = [pc EXCEPT ![c] = step],
         step \in Before => pc[c] \in Before,
         UNCHANGED <<call, status, bounds, toAgent>>,
         Members(toHost') \subseteq Members(toHost) \cup {Event},
         replyReady' => replyReady /\ reply' = reply
  PROVE  RunsInv'
<1>1. pc'[c] = step /\ \A d \in Clients \ {c} : pc'[d] = pc[d]
  BY DEF TypeOK, ClientTypes
<1>2. \A d \in Clients : /\ Active(d)' => Active(d)
                         /\ pc'[d] \in Before => pc[d] \in Before
                         /\ pc'[d] = "post" => pc[d] = "post"
  BY <1>1 DEF Active
<1>3. RunsNumbered'
  BY <1>2 DEF RunsInv, RunsNumbered
<1>4. RunsPosted'
  BY <1>2 DEF RunsInv, RunsPosted
<1>5. RunsAnswered'
  <2>1. ~FromAgent(Event)
    BY DEF FromAgent, Event
  <2> QED BY <2>1 DEF RunsInv, RunsAnswered
<1> QED BY <1>3, <1>4, <1>5 DEF RunsInv

\* A step that changes no client and sends nothing.
LEMMA RunsFrame ==
  ASSUME RunsInv, UNCHANGED <<pc, call, status, replyReady, reply>>,
         bounds'.calls = bounds.calls,
         toAgent' = toAgent \/ toAgent' = <<>>,
         \A m \in Members(toHost') : FromAgent(m) => m \in Members(toHost)
  PROVE  RunsInv'
<1>1. RunsNumbered'
  BY DEF RunsInv, RunsNumbered, Active
<1>2. RunsPosted'
  <2>1. DOMAIN <<>> = {}
    BY EmptySeq, LenProperties
  <2>2. CASE toAgent' = toAgent
    BY <2>2 DEF RunsInv, RunsPosted
  <2>3. CASE toAgent' = <<>>
    BY <2>1, <2>3 DEF RunsInv, RunsPosted
  <2> QED BY <2>2, <2>3
<1>3. RunsAnswered'
  BY DEF RunsInv, RunsAnswered
<1> QED BY <1>1, <1>2, <1>3 DEF RunsInv

\* A client takes its next call.
LEMMA RunsTake ==
  ASSUME TypeOK, RunsInv, NEW c \in Clients, NEW step \in {"ensure", "draw"},
         pc' = [pc EXCEPT ![c] = step],
         bounds.calls < MaxCalls,
         bounds' = [bounds EXCEPT !.calls = @ + 1],
         call' = [call EXCEPT ![c] = bounds.calls + 1],
         UNCHANGED <<status, toAgent, toHost, replyReady, reply>>
  PROVE  RunsInv'
<1>1. /\ pc'[c] = step /\ call'[c] = bounds.calls + 1
      /\ \A d \in Clients \ {c} : pc'[d] = pc[d] /\ call'[d] = call[d]
      /\ \A d \in Clients : call[d] \in Nat
      /\ bounds.calls \in Nat /\ bounds'.calls = bounds.calls + 1
  BY BoundsAssumption DEF TypeOK, ClientTypes, OtherTypes
<1>2. bounds.calls + 1 \in Calls /\ \A d \in Clients : call[d] <= bounds.calls
  BY <1>1, BoundsAssumption DEF Calls, RunsInv, RunsNumbered
<1>3. RunsNumbered'
  <2>1. \A k \in Calls : k > bounds'.calls => status'[k] = "new"
    BY <1>1, BoundsAssumption DEF RunsInv, RunsNumbered, Calls
  <2>2. \A d \in Clients : call'[d] <= bounds'.calls
    BY <1>1, <1>2
  <2>3. ASSUME NEW d \in Clients, NEW e \in Clients, Active(d)', Active(e)', call'[d] = call'[e]
        PROVE  d = e
    BY <1>1, <1>2, <2>3 DEF RunsInv, RunsNumbered, Active
  <2>4. status[bounds.calls + 1] = "new"
    BY <1>1, <1>2 DEF RunsInv, RunsNumbered
  <2>5. \A d \in Clients : pc'[d] \in Before => status'[call'[d]] = "new"
    BY <1>1, <2>4 DEF RunsInv, RunsNumbered
  <2> QED BY <2>1, <2>2, <2>3, <2>5 DEF RunsNumbered
<1>4. \A d \in Clients : pc'[d] = "post" => pc[d] = "post" /\ call'[d] = call[d]
  BY <1>1
<1>5. RunsPosted' /\ RunsAnswered'
  BY <1>4 DEF RunsInv, RunsPosted, RunsAnswered
<1> QED BY <1>3, <1>5 DEF RunsInv

LEMMA WireCalls ==
  ASSUME TypeOK
  PROVE  /\ \A i \in DOMAIN toAgent : toAgent[i].call \in Calls
         /\ \A m \in Members(toHost) : FromAgent(m) => m.call \in Calls
<1> DEFINE R == [id : Nat, call : Calls]
           Wire == Replies \cup {Event}
<1>1. toAgent \in Seq(R) /\ toHost \in Seq(Wire)
  BY DEF TypeOK, WireTypes
<1> HIDE DEF R, Wire
<1>2. \A i \in DOMAIN toAgent : toAgent[i] \in R
  BY <1>1, ElementOfSeq, LenProperties
<1>3. \A m \in Members(toHost) : m \in Wire
  BY <1>1, ElementOfSeq, LenProperties DEF Members
<1>4. \A m \in Wire : FromAgent(m) => m.call \in Calls
  BY BoundsAssumption DEF Wire, Replies, Event, FromAgent, Calls
<1> QED BY <1>2, <1>3, <1>4 DEF R

LEMMA ClientRuns ==
  ASSUME SlotInv, RunsInv, NEW c \in Clients, ClientNext(c)
  PROVE  RunsInv'
<1>0. /\ TypeOK
      /\ toHost \in Seq(Replies \cup {Event})
      /\ toAgent \in Seq([id : Nat, call : Calls])
      /\ id \in [Clients -> Nat] /\ call \in [Clients -> 0 .. MaxCalls]
      /\ pc \in [Clients -> Steps]
      /\ status \in [Calls -> {"new", "sent", "executed"}]
      /\ \A d \in Clients : Active(d) => call[d] \in Calls
  BY BoundsAssumption DEF SlotInv, SlotRest, CallNumbered, TypeOK, WireTypes, ClientTypes, Calls
<1> USE DEF clientVars, slotVars, wireVars, Goto, Fail
<1>a. \A step \in {"idle", "ensure", "reset", "load", "draw", "write", "register", "drain",
                  "finish", "done"} : step \in Steps \ {"post"}
  BY DEF Steps, LockedSteps, InFlightSteps
<1>1. CASE Enter(c) \/ RequestAgain(c)
  <2>1. /\ \E step \in {"ensure", "draw"} : pc' = [pc EXCEPT ![c] = step]
        /\ bounds.calls < MaxCalls
        /\ bounds' = [bounds EXCEPT !.calls = @ + 1]
        /\ call' = [call EXCEPT ![c] = bounds.calls + 1]
        /\ UNCHANGED <<status, toAgent, toHost, replyReady, reply>>
    BY <1>1 DEF Enter, RequestAgain
  <2> QED BY <1>0, <2>1, RunsTake
<1>2. CASE EnsureLock(c) \/ EnsureLive(c) \/ DrawId(c) \/ WriteNextId(c) \/ Return(c)
  <2>1. /\ \/ pc[c] \in Before /\ \E step \in Before \cup {"idle"} : pc' = [pc EXCEPT ![c] = step]
           \/ pc[c] = "done" /\ pc' = [pc EXCEPT ![c] = "idle"]
        /\ UNCHANGED <<call, status, bounds, toAgent, toHost, replyReady, reply>>
    BY <1>2 DEF EnsureLock, EnsureLive, DrawId, WriteNextId, Return, Before
  <2>2. PICK step \in Before \cup {"idle"} :
          pc' = [pc EXCEPT ![c] = step] /\ (step \in Before => pc[c] \in Before)
    BY <2>1 DEF Before
  <2>3. pc[c] # "idle"
    BY <2>1 DEF Before
  <2> QED BY <1>0, <1>a, <2>1, <2>2, <2>3, RunsStep DEF Before
<1>3. CASE EnsureReload(c)
  <2>1. Members(toHost') \subseteq Members(toHost)
    <3>1. toHost' = toHost \/ toHost' = <<>> \/ (toHost # <<>> /\ toHost' = <<Head(toHost)>>)
      BY <1>3 DEF EnsureReload, Teardown
    <3>2. Members(<<>>) = {}
      BY DEF Members
    <3> DEFINE Wire == Replies \cup {Event}
    <3> HIDE DEF Wire
    <3>3. toHost \in Seq(Wire)
      BY <1>0 DEF Wire
    <3> QED BY <3>1, <3>2, <3>3, MembersTail
  <2>2. /\ UNCHANGED <<call, status, bounds, toAgent>>
        /\ replyReady' => replyReady /\ reply' = reply
        /\ pc[c] = "reset"
    BY <1>3 DEF EnsureReload, Teardown
  <2>3. PICK step \in {"load", "done"} : pc' = [pc EXCEPT ![c] = step]
    BY <1>3 DEF EnsureReload
  <2> QED BY <1>0, <1>a, <2>1, <2>2, <2>3, RunsStep DEF Before
<1>4. CASE LoadDone(c)
  <2> DEFINE Wire == Replies \cup {Event}
  <2>1. Event \in Wire
    OBVIOUS
  <2>2. Members(toHost') = Members(toHost) \cup {Event}
    <3> HIDE DEF Wire
    <3>1. toHost \in Seq(Wire) /\ toHost' = Append(toHost, Event)
      BY <1>0, <1>4 DEF LoadDone, Wire
    <3>2. Members(Append(toHost, Event)) = Members(toHost) \cup {Event}
      BY <2>1, <3>1, MembersAppend
    <3> QED BY <3>1, <3>2
  <2>3. /\ pc[c] = "load" /\ pc' = [pc EXCEPT ![c] = "draw"]
        /\ UNCHANGED <<call, status, bounds, toAgent, replyReady, reply>>
    BY <1>4 DEF LoadDone
  <2> QED BY <1>0, <1>a, <2>2, <2>3, RunsStep DEF Before
<1>5. CASE LoadFailed(c) \/ Finish(c)
  <2>1. /\ pc[c] \in {"load", "finish"} /\ pc' = [pc EXCEPT ![c] = "done"]
        /\ UNCHANGED <<call, status, bounds, toAgent, toHost>>
        /\ replyReady' => replyReady /\ reply' = reply
    BY <1>5 DEF LoadFailed, Finish
  <2> QED BY <1>0, <1>a, <2>1, RunsStep DEF Before
<1>6. CASE DrainReply(c) \/ DrainCancelled(c) \/ DrainGone(c) \/ DrainTimeout(c)
  <2>1. /\ pc[c] = "drain" /\ pc' = [pc EXCEPT ![c] = "finish"]
        /\ UNCHANGED <<call, status, bounds, toAgent, toHost, replyReady, reply>>
    BY <1>6 DEF DrainReply, DrainCancelled, DrainGone, DrainTimeout, Drained
  <2> QED BY <1>0, <1>a, <2>1, RunsStep DEF Before
<1>7. CASE Register(c)
  <2>1. CASE id[c] \in pending
    <3>1. /\ pc[c] = "register" /\ pc' = [pc EXCEPT ![c] = "done"]
          /\ UNCHANGED <<call, status, bounds, toAgent, toHost, replyReady, reply>>
      BY <1>7, <2>1 DEF Register
    <3> QED BY <1>0, <1>a, <3>1, RunsStep DEF Before
  <2>2. CASE id[c] \notin pending
    <3>1. /\ pc[c] = "register" /\ pc' = [pc EXCEPT ![c] = "post"] /\ ~replyReady'
          /\ status' = [status EXCEPT ![call[c]] = "sent"]
          /\ UNCHANGED <<call, bounds, toAgent, toHost>>
      BY <1>7, <2>2 DEF Register
    <3>2. pc'[c] = "post" /\ \A d \in Clients \ {c} : pc'[d] = pc[d]
      BY <1>0, <3>1
    <3>3. call[c] \in Calls /\ status[call[c]] = "new"
      BY <1>0, <3>1 DEF Active, RunsInv, RunsNumbered, Before
    <3>4. /\ status'[call[c]] = "sent"
          /\ \A k \in Calls : k # call[c] => status'[k] = status[k]
      BY <1>0, <3>1, <3>3
    <3>5. \A d \in Clients \ {c} : Active(d) => call[d] # call[c]
      BY <3>1 DEF RunsInv, RunsNumbered, Active
    <3>6. RunsNumbered'
      <4>1. \A k \in Calls : k > bounds'.calls => status'[k] = "new"
        <5>1. call[c] <= bounds.calls
          BY DEF RunsInv, RunsNumbered
        <5>2. \A k \in Calls : k > bounds.calls => k # call[c]
          BY <1>0, <3>3, <5>1, BoundsAssumption DEF Calls, TypeOK, OtherTypes
        <5> QED BY <3>1, <3>4, <5>2 DEF RunsInv, RunsNumbered
      <4>2. \A d, e \in Clients : Active(d)' /\ Active(e)' /\ call'[d] = call'[e] => d = e
        BY <3>1, <3>2 DEF RunsInv, RunsNumbered, Active
      <4>3. ASSUME NEW d \in Clients, pc'[d] \in Before PROVE status'[call'[d]] = "new"
        <5>1. d # c /\ pc[d] \in Before /\ Active(d)
          BY <3>2, <4>3 DEF Before, Active
        <5> QED BY <1>0, <3>1, <3>4, <3>5, <5>1 DEF RunsInv, RunsNumbered
      <4> QED BY <3>1, <4>1, <4>2, <4>3 DEF RunsInv, RunsNumbered
    <3>7. \A i \in DOMAIN toAgent : toAgent[i].call \in Calls /\ toAgent[i].call # call[c]
      <4>1. \A i \in DOMAIN toAgent : toAgent[i].call \in Calls
        BY <1>0, WireCalls
      <4> QED BY <3>3, <4>1 DEF RunsInv, RunsPosted
    <3>8. RunsPosted'
      <4>1. ASSUME NEW d \in Clients, pc'[d] = "post" PROVE status'[call'[d]] = "sent"
        <5>1. CASE d = c
          BY <3>1, <3>4, <5>1
        <5>2. CASE d # c
          <6>1. pc[d] = "post" /\ call[d] \in Calls /\ call[d] # call[c]
            BY <1>0, <3>2, <3>5, <4>1, <5>2 DEF Active
          <6> QED BY <3>1, <3>4, <6>1 DEF RunsInv, RunsPosted
        <5> QED BY <5>1, <5>2
      <4>2. \A i \in DOMAIN toAgent' : status'[toAgent'[i].call] = "sent"
        BY <3>1, <3>4, <3>7 DEF RunsInv, RunsPosted
      <4>3. \A i \in DOMAIN toAgent' : \A d \in Clients : pc'[d] = "post" => toAgent'[i].call # call'[d]
        BY <3>1, <3>2, <3>7 DEF RunsInv, RunsPosted
      <4> QED BY <3>1, <4>1, <4>2, <4>3 DEF RunsInv, RunsPosted
    <3>9. RunsAnswered'
      <4>1. ASSUME NEW m \in Members(toHost), FromAgent(m) PROVE status'[m.call] = "executed"
        <5>1. m.call \in Calls
          BY <1>0, <4>1, WireCalls
        <5>2. status[m.call] = "executed"
          BY <4>1 DEF RunsInv, RunsAnswered
        <5> QED BY <3>3, <3>4, <5>1, <5>2
      <4> QED BY <3>1, <4>1 DEF RunsAnswered
    <3> QED BY <3>6, <3>8, <3>9 DEF RunsInv
  <2> QED BY <2>1, <2>2
<1>8. CASE Post(c)
  <2> DEFINE R == [id : Nat, call : Calls]
             r == [id |-> id[c], call |-> call[c]]
  <2>1. /\ pc[c] = "post" /\ pc' = [pc EXCEPT ![c] = "drain"]
        /\ toAgent' = Append(toAgent, r) \/ toAgent' = toAgent
        /\ UNCHANGED <<call, status, bounds, toHost, replyReady, reply>>
    BY <1>8 DEF Post
  <2>2. r \in R /\ r.call = call[c]
    BY <1>0, <2>1 DEF Active
  <2> HIDE DEF r, R
  <2>3. /\ Len(toAgent) \in Nat /\ DOMAIN toAgent = 1 .. Len(toAgent)
        /\ DOMAIN Append(toAgent, r) = 1 .. Len(toAgent) + 1
        /\ \A i \in DOMAIN toAgent : Append(toAgent, r)[i] = toAgent[i]
        /\ Append(toAgent, r)[Len(toAgent) + 1] = r
    <3>1. toAgent \in Seq(R)
      BY <1>0 DEF R
    <3> QED BY <2>2, <3>1, MembersAppend
  <2>4. pc'[c] = "drain" /\ \A d \in Clients \ {c} : pc'[d] = pc[d]
    BY <1>0, <2>1
  <2>5. RunsNumbered' /\ RunsAnswered'
    BY <2>1, <2>4 DEF RunsInv, RunsNumbered, RunsAnswered, Active, Before
  <2>6. status[call[c]] = "sent" /\ \A i \in DOMAIN toAgent : toAgent[i].call # call[c]
    BY <2>1 DEF RunsInv, RunsPosted
  <2>7. \A d \in Clients : pc'[d] = "post" => pc[d] = "post" /\ call[d] # call[c]
    BY <2>1, <2>4 DEF RunsInv, RunsNumbered, Active
  <2>8. \A i \in DOMAIN toAgent' : \/ i \in DOMAIN toAgent /\ toAgent'[i] = toAgent[i]
                                   \/ i = Len(toAgent) + 1 /\ toAgent'[i] = r
    BY <2>1, <2>3
  <2>9. RunsPosted'
    <3>1. \A i \in DOMAIN toAgent' : status'[toAgent'[i].call] = "sent"
      BY <2>1, <2>2, <2>6, <2>8 DEF RunsInv, RunsPosted
    <3>2. \A i, j \in DOMAIN toAgent' : toAgent'[i].call = toAgent'[j].call => i = j
      BY <2>2, <2>6, <2>8 DEF RunsInv, RunsPosted
    <3>3. \A i \in DOMAIN toAgent' : \A d \in Clients :
            pc'[d] = "post" => toAgent'[i].call # call'[d]
      BY <2>1, <2>2, <2>7, <2>8 DEF RunsInv, RunsPosted
    <3> QED BY <2>1, <2>7, <3>1, <3>2, <3>3 DEF RunsInv, RunsPosted
  <2> QED BY <2>5, <2>9 DEF RunsInv
<1>9. CASE DrainMessages(c)
  <2>1. bounds'.calls = bounds.calls
    BY <1>0, <1>9 DEF DrainMessages, TypeOK, OtherTypes
  <2> QED BY <1>9, <2>1, RunsFrame DEF DrainMessages
<1> QED BY <1>1, <1>2, <1>3, <1>4, <1>5, <1>6, <1>7, <1>8, <1>9 DEF ClientNext, HandlerStep

LEMMA EnvironmentRuns ==
  ASSUME SlotInv, RunsInv, Environment
  PROVE  RunsInv'
<1>0. /\ TypeOK
      /\ toHost \in Seq(Replies \cup {Event})
      /\ toAgent \in Seq([id : Nat, call : Calls])
      /\ status \in [Calls -> {"new", "sent", "executed"}]
      /\ \A d \in Clients : Active(d) => call[d] \in Calls
  BY BoundsAssumption DEF SlotInv, SlotRest, CallNumbered, TypeOK, WireTypes, ClientTypes, Calls
<1> USE DEF clientVars, slotVars, wireVars
<1>1. CASE OnMessage
  <2> DEFINE m == Head(toHost)
             own == m.kind = "reply" /\ m.id = awaitId /\ m.id \in pending
             Wire == Replies \cup {Event}
  <2>1. /\ toHost # <<>> /\ toHost' = Tail(toHost)
        /\ UNCHANGED <<pc, call, status, bounds, toAgent>>
    BY <1>1 DEF OnMessage
  <2>2. Members(toHost') \subseteq Members(toHost) /\ m \in Members(toHost)
    <3> HIDE DEF Wire
    <3>1. toHost \in Seq(Wire)
      BY <1>0 DEF Wire
    <3> QED BY <2>1, <3>1, MembersTail
  <2>3. CASE ~own
    <3>1. UNCHANGED <<replyReady, reply>>
      BY <1>1, <2>3 DEF OnMessage
    <3> QED BY <2>1, <2>2, <3>1, RunsFrame
  <2>4. CASE own
    <3>1. reply' = m /\ m.kind = "reply"
      BY <1>1, <2>4 DEF OnMessage
    <3>2. m.call # 0 => status[m.call] = "executed"
      BY <2>2, <3>1 DEF RunsInv, RunsAnswered, FromAgent
    <3>3. RunsAnswered'
      BY <2>1, <2>2, <3>1, <3>2 DEF RunsInv, RunsAnswered
    <3>4. RunsNumbered' /\ RunsPosted'
      BY <2>1 DEF RunsInv, RunsNumbered, RunsPosted, Active
    <3> QED BY <3>3, <3>4 DEF RunsInv
  <2> QED BY <2>3, <2>4
<1>2. CASE AgentHandle
  <2> DEFINE R == [id : Nat, call : Calls]
             r == Head(toAgent)
             m == [kind |-> "reply", id |-> r.id, call |-> r.call]
             Wire == Replies \cup {Event}
  <2>1. /\ toAgent # <<>> /\ toAgent' = Tail(toAgent) /\ toHost' = Append(toHost, m)
        /\ status' = [status EXCEPT ![r.call] = "executed"]
        /\ UNCHANGED <<pc, call, bounds, replyReady, reply>>
    BY <1>2 DEF AgentHandle
  <2>2. /\ 1 \in DOMAIN toAgent /\ r = toAgent[1] /\ r \in R
        /\ \A i \in DOMAIN Tail(toAgent) :
             i \in Nat /\ i + 1 \in DOMAIN toAgent /\ Tail(toAgent)[i] = toAgent[i + 1]
        /\ DOMAIN toAgent = 1 .. Len(toAgent)
    <3> HIDE DEF R
    <3>1. toAgent \in Seq(R)
      BY <1>0 DEF R
    <3> QED BY <2>1, <3>1, MembersTail, HeadTailProperties
  <2>3. Members(toHost') = Members(toHost) \cup {m}
    <3>1. m \in Wire
      BY <2>2, BoundsAssumption DEF Replies, Calls
    <3> HIDE DEF Wire, m
    <3>2. toHost \in Seq(Wire)
      BY <1>0 DEF Wire
    <3> QED BY <2>1, <3>1, <3>2, MembersAppend
  <2>4. /\ r.call \in Calls /\ status[r.call] = "sent"
        /\ status'[r.call] = "executed"
        /\ \A k \in Calls : k # r.call => status'[k] = status[k]
    BY <1>0, <2>1, <2>2 DEF RunsInv, RunsPosted
  <2>5. \A i \in DOMAIN toAgent : i # 1 => toAgent[i].call # r.call
    BY <2>2 DEF RunsInv, RunsPosted
  <2>6. \A i \in DOMAIN toAgent : toAgent[i].call \in Calls
    BY <1>0, WireCalls
  <2>7. RunsNumbered'
    <3>1. \A k \in Calls : status[k] = "new" => status'[k] = "new"
      BY <2>4
    <3>2. \A k \in Calls : k > bounds'.calls => status'[k] = "new"
      BY <2>1, <3>1 DEF RunsInv, RunsNumbered
    <3>3. \A d \in Clients : pc'[d] \in Before => status'[call'[d]] = "new"
      BY <1>0, <2>1, <3>1 DEF RunsInv, RunsNumbered, Before, Active
    <3> QED BY <2>1, <3>2, <3>3 DEF RunsInv, RunsNumbered, Active
  <2>8. RunsPosted'
    <3> DEFINE T == toAgent'
    <3>1. \A i \in DOMAIN T : /\ i \in Nat /\ i + 1 \in DOMAIN toAgent /\ i + 1 # 1
                              /\ T[i] = toAgent[i + 1]
      <4>1. \A i \in DOMAIN Tail(toAgent) : i \in DOMAIN toAgent' /\ i # 0
        BY <2>1, <2>2
      <4> QED BY <2>1, <2>2, <4>1
    <3>2. \A i \in DOMAIN T : status'[T[i].call] = "sent"
      BY <2>4, <2>5, <2>6, <3>1 DEF RunsInv, RunsPosted
    <3>3. \A i, j \in DOMAIN T : T[i].call = T[j].call => i = j
      <4>1. ASSUME NEW i \in DOMAIN T, NEW j \in DOMAIN T, T[i].call = T[j].call
            PROVE  i + 1 = j + 1 /\ i \in Nat /\ j \in Nat
        BY <3>1, <4>1 DEF RunsInv, RunsPosted
      <4> QED BY <4>1
    <3>4. \A i \in DOMAIN T : \A d \in Clients : pc'[d] = "post" => T[i].call # call'[d]
      BY <2>1, <3>1 DEF RunsInv, RunsPosted
    <3>5. ASSUME NEW d \in Clients, pc'[d] = "post" PROVE status'[call'[d]] = "sent"
      <4>1. call[d] \in Calls /\ pc[d] = "post"
        BY <1>0, <2>1, <3>5 DEF Active
      <4>2. call[d] # r.call
        BY <2>2, <4>1 DEF RunsInv, RunsPosted
      <4> QED BY <2>1, <2>4, <4>1, <4>2 DEF RunsInv, RunsPosted
    <3> QED BY <3>2, <3>3, <3>4, <3>5 DEF RunsPosted
  <2>9. RunsAnswered'
    <3>1. ASSUME NEW n \in Members(toHost), FromAgent(n) PROVE status'[n.call] = "executed"
      <4>1. n.call \in Calls /\ status[n.call] = "executed"
        BY <1>0, <3>1, WireCalls DEF RunsInv, RunsAnswered
      <4> QED BY <2>4, <4>1
    <3>2. status'[m.call] = "executed"
      BY <2>4
    <3>3. replyReady /\ reply.call # 0 => status'[reply.call] = "executed"
      <4>1. replyReady /\ reply.call # 0 => reply.call \in Calls
        BY BoundsAssumption DEF SlotInv, SlotRest, ReplyThere, Replies, Calls
      <4> QED BY <2>4, <4>1 DEF RunsInv, RunsAnswered
    <3> HIDE DEF m
    <3> QED BY <2>1, <2>3, <3>1, <3>2, <3>3 DEF RunsAnswered
  <2> QED BY <2>7, <2>8, <2>9 DEF RunsInv
<1>3. CASE AgentEvent \/ \E n \in UserIds : UserSends(n)
  <2>1. PICK m \in Replies \cup {Event} : toHost' = Append(toHost, m) /\ ~FromAgent(m)
    <3>1. CASE AgentEvent
      BY <3>1 DEF AgentEvent, FromAgent, Event
    <3>2. ASSUME NEW n \in UserIds, UserSends(n)
          PROVE  \E m \in Replies \cup {Event} : toHost' = Append(toHost, m) /\ ~FromAgent(m)
      <4>1. [kind |-> "reply", id |-> n, call |-> 0] \in Replies
        BY BoundsAssumption DEF Replies
      <4> QED BY <3>2, <4>1 DEF UserSends, FromAgent
    <3> QED BY <1>3, <3>1, <3>2
  <2>2. /\ UNCHANGED <<pc, call, status, replyReady, reply, toAgent>>
        /\ bounds'.calls = bounds.calls
    BY <1>0, <1>3 DEF AgentEvent, UserSends, TypeOK, OtherTypes
  <2>3. Members(toHost') = Members(toHost) \cup {m}
    BY <1>0, <2>1, MembersAppend
  <2> QED BY <2>1, <2>2, <2>3, RunsFrame
<1>4. CASE ScriptDies \/ SessionDetaches
  <2>1. /\ toAgent' = <<>> /\ toHost' \in {toHost, <<>>}
        /\ UNCHANGED <<pc, call, status, replyReady, reply>>
        /\ bounds'.calls = bounds.calls
    BY <1>0, <1>4 DEF ScriptDies, SessionDetaches, Destroyed, TypeOK, OtherTypes
  <2>2. Members(<<>>) = {}
    BY DEF Members
  <2> QED BY <2>1, <2>2, RunsFrame
<1>5. CASE CancelFlag \/ CancelHook
  <2>1. bounds'.calls = bounds.calls
    BY <1>0, <1>5 DEF CancelFlag, CancelHook, TypeOK, OtherTypes
  <2> QED BY <1>5, <2>1, RunsFrame DEF CancelFlag, CancelHook
<1> QED BY <1>1, <1>2, <1>3, <1>4, <1>5 DEF Environment

LEMMA RunsAlways == Spec => []RunsInv
<1>1. ASSUME Init PROVE RunsInv
  <2>1. Members(<<>>) = {} /\ DOMAIN <<>> = {}
    BY EmptySeq, LenProperties DEF Members
  <2> USE <1>1 DEF Init
  <2>2. RunsNumbered
    BY BoundsAssumption DEF RunsNumbered, Active, Before
  <2>3. RunsPosted /\ RunsAnswered
    BY <2>1 DEF RunsPosted, RunsAnswered
  <2> QED BY <2>2, <2>3 DEF RunsInv
<1>2. SlotInv /\ RunsInv /\ [Next]_vars => RunsInv'
  <2> SUFFICES ASSUME SlotInv, RunsInv, [Next]_vars PROVE RunsInv'
    OBVIOUS
  <2>1. CASE UNCHANGED vars
    BY <2>1, RunsFrame DEF vars, clientVars, slotVars, wireVars
  <2> QED BY <2>1, ClientRuns, EnvironmentRuns DEF Next, Rest
<1>3. QED
  BY <1>1, <1>2, SlotInvAlways, PTL DEF Spec

-----------------------------------------------------------------------------
(* The channel is an Rpc.                                                  *)

\* Outstanding in the sense of Rpc is the request in flight.
SlotShown ==
  /\ \A c \in Clients : InFlight(c) => outstanding = [client |-> c, call |-> call[c]]
  /\ (\A c \in Clients : ~InFlight(c)) => outstanding = None

LEMMA OutstandingIs == SlotRest => SlotShown
<1> SUFFICES ASSUME SlotRest PROVE SlotShown
  OBVIOUS
<1>1. ASSUME NEW c \in Clients, InFlight(c)
      PROVE  outstanding = [client |-> c, call |-> call[c]]
  <2>1. InSlot = {c}
    BY <1>1 DEF SlotRest, SlotOwned, InSlot
  <2>2. (CHOOSE d \in InSlot : TRUE) = c
    BY <2>1
  <2> QED BY <2>1, <2>2 DEF outstanding
<1>2. (\A c \in Clients : ~InFlight(c)) => InSlot = {}
  BY DEF InSlot
<1> QED BY <1>1, <1>2 DEF SlotShown, outstanding

LEMMA OutstandingBecomes == SlotRest' => SlotShown'
BY OutstandingIs, PTL

LEMMA OutstandingKept ==
  ASSUME SlotRest, SlotRest',
         \A c \in Clients : InFlight(c)' <=> InFlight(c),
         \A c \in Clients : InFlight(c) => call'[c] = call[c]
  PROVE  outstanding' = outstanding
<1>1. CASE \E c \in Clients : InFlight(c)
  <2>1. PICK c \in Clients : InFlight(c)
    BY <1>1
  <2> QED BY <2>1, OutstandingIs, OutstandingBecomes DEF SlotShown
<1>2. CASE \A c \in Clients : ~InFlight(c)
  BY <1>2, OutstandingIs, OutstandingBecomes DEF SlotShown
<1> QED BY <1>1, <1>2

LEMMA ChannelRpcInit == ASSUME Init PROVE Abstract!Init
<1>1. InSlot = {}
  BY DEF Init, InSlot, InFlight, InFlightSteps
<1> QED BY <1>1 DEF Init, Abstract!Init, outstanding, Abstract!Calls, Calls

\* Most steps show nothing of themselves to Rpc.
LEMMA ChannelRpcStutter ==
  ASSUME SlotRest, SlotRest', UNCHANGED <<status, answer>>,
         \A c \in Clients : InFlight(c)' <=> InFlight(c),
         \A c \in Clients : InFlight(c) => call'[c] = call[c]
  PROVE  UNCHANGED Abstract!rpcVars
BY OutstandingKept DEF Abstract!rpcVars

LEMMA ClientRpc ==
  ASSUME SlotInv, SlotInv', OneHandler, IdsInv, RunsInv, NEW c \in Clients, ClientNext(c)
  PROVE  Abstract!Next \/ UNCHANGED Abstract!rpcVars
<1>0. /\ SlotRest /\ SlotRest' /\ TypeOK
      /\ pc \in [Clients -> Steps] /\ call \in [Clients -> 0 .. MaxCalls]
      /\ answer \in [Clients -> 0 .. MaxCalls]
      /\ status \in [Calls -> {"new", "sent", "executed"}]
      /\ Abstract!Calls = Calls
  BY DEF SlotInv, TypeOK, ClientTypes, WireTypes, Abstract!Calls, Calls
<1> USE DEF Goto, Fail
<1>1. CASE \/ Enter(c) \/ EnsureLock(c) \/ EnsureLive(c) \/ EnsureReload(c) \/ LoadDone(c)
           \/ LoadFailed(c) \/ DrawId(c) \/ WriteNextId(c) \/ Return(c) \/ RequestAgain(c)
           \/ (Register(c) /\ id[c] \in pending)
  <2>1. /\ pc[c] \notin InFlightSteps
        /\ \E step \in Steps \ InFlightSteps : pc' = [pc EXCEPT ![c] = step]
        /\ \A d \in Clients \ {c} : call'[d] = call[d]
        /\ UNCHANGED <<status, answer>>
    BY <1>0, <1>1 DEF Enter, EnsureLock, EnsureLive, EnsureReload, Teardown, LoadDone, LoadFailed,
       DrawId, WriteNextId, Return, RequestAgain, Register, wireVars, Steps, LockedSteps,
       InFlightSteps
  <2> QED BY <1>0, <2>1, ChannelRpcStutter DEF InFlight
<1>2. CASE \/ Post(c) \/ DrainReply(c) \/ DrainCancelled(c) \/ DrainGone(c) \/ DrainTimeout(c)
  <2>1. /\ pc[c] \in InFlightSteps
        /\ \E step \in InFlightSteps : pc' = [pc EXCEPT ![c] = step]
        /\ UNCHANGED <<call, status, answer>>
    BY <1>2 DEF Post, DrainReply, DrainCancelled, DrainGone, DrainTimeout, Drained, wireVars,
       InFlightSteps
  <2> QED BY <1>0, <2>1, ChannelRpcStutter DEF InFlight
<1>3. CASE DrainMessages(c)
  BY <1>0, <1>3, ChannelRpcStutter DEF DrainMessages, InFlight, clientVars, wireVars
<1>4. CASE Register(c) /\ id[c] \notin pending
  <2>1. /\ pc[c] = "register" /\ reqLock = None /\ pc' = [pc EXCEPT ![c] = "post"]
        /\ status' = [status EXCEPT ![call[c]] = "sent"] /\ UNCHANGED <<call, answer>>
    BY <1>4 DEF Register
  <2>2. outstanding = None
    <3>1. \A d \in Clients : ~InFlight(d)
      BY <1>0, <2>1, SlotEmpty, ClientsAssumption
    <3> QED BY <1>0, <3>1, OutstandingIs DEF SlotShown
  <2>3. call[c] \in Calls /\ status[call[c]] = "new"
    BY <1>0, <2>1, BoundsAssumption DEF SlotRest, CallNumbered, Active, Calls, RunsInv,
       RunsNumbered, Before
  <2>4. outstanding' = [client |-> c, call |-> call[c]]
    BY <1>0, <2>1, OutstandingBecomes DEF SlotShown, InFlight, InFlightSteps
  <2>5. Abstract!Issue(c, call[c])
    BY <2>1, <2>2, <2>3, <2>4 DEF Abstract!Issue
  <2> QED BY <1>0, <2>3, <2>5 DEF Abstract!Next
<1>5. CASE Finish(c)
  <2>1. /\ pc[c] = "finish" /\ pc' = [pc EXCEPT ![c] = "done"] /\ InFlight(c)
        /\ UNCHANGED <<call, status>>
    BY <1>5 DEF Finish, InFlight, InFlightSteps, wireVars
  <2>2. outstanding = [client |-> c, call |-> call[c]]
    BY <1>0, <2>1, OutstandingIs DEF SlotShown
  <2>3. outstanding # None
    <3>1. call[c] \in 1 .. MaxCalls
      BY <1>0, <2>1, BoundsAssumption DEF SlotRest, CallNumbered, Active
    <3> QED BY <2>2, <3>1, NoneAssumption
  <2>4. outstanding' = None
    <3>1. \A d \in Clients : ~InFlight(d)'
      BY <1>0, <2>1 DEF SlotRest, SlotOwned, InFlight, InFlightSteps
    <3> QED BY <1>0, <3>1, OutstandingBecomes DEF SlotShown
  <2>5. CASE result[c] # "reply"
    <3>1. Abstract!GiveUp(c)
      BY <1>5, <2>1, <2>2, <2>3, <2>4, <2>5 DEF Finish, Abstract!GiveUp
    <3> QED BY <3>1 DEF Abstract!Next
  <2>6. CASE result[c] = "reply"
    <3>1. replyReady /\ answer' = [answer EXCEPT ![c] = reply.call]
      BY <1>0, <1>5, <2>1, <2>6 DEF Finish, SlotRest, SlotOwned
    <3>2. reply.call \in {0, call[c]}
      BY <2>1, <3>1 DEF IdsInv, OneHandler, OwnAnswers
    <3>3. CASE reply.call = 0
      <4>1. Abstract!SucceedOtherwise(c)
        BY <2>1, <2>2, <2>3, <2>4, <3>1, <3>3 DEF Abstract!SucceedOtherwise
      <4> QED BY <4>1 DEF Abstract!Next
    <3>4. CASE reply.call # 0
      <4>1. reply.call = call[c] /\ status[call[c]] = "executed"
        BY <3>1, <3>2, <3>4 DEF RunsInv, RunsAnswered
      <4>2. Abstract!Succeed(c)
        BY <2>1, <2>2, <2>3, <2>4, <3>1, <4>1 DEF Abstract!Succeed
      <4> QED BY <4>2 DEF Abstract!Next
    <3> QED BY <3>3, <3>4
  <2> QED BY <2>5, <2>6
<1> QED BY <1>1, <1>2, <1>3, <1>4, <1>5 DEF ClientNext, HandlerStep

LEMMA EnvironmentRpc ==
  ASSUME SlotInv, SlotInv', RunsInv, Environment
  PROVE  Abstract!Next \/ UNCHANGED Abstract!rpcVars
<1>0. /\ SlotRest /\ SlotRest' /\ TypeOK
      /\ toAgent \in Seq([id : Nat, call : Calls])
      /\ Abstract!Calls = Calls
  BY DEF SlotInv, TypeOK, WireTypes, Abstract!Calls, Calls
<1>1. UNCHANGED <<pc, call, answer>>
  BY DEF Environment, OnMessage, AgentHandle, AgentEvent, UserSends, ScriptDies,
     SessionDetaches, Destroyed, CancelFlag, CancelHook, clientVars
<1>2. CASE UNCHANGED status
  BY <1>0, <1>1, <1>2, ChannelRpcStutter DEF InFlight
<1>3. CASE AgentHandle
  <2> DEFINE R == [id : Nat, call : Calls]
             k == Head(toAgent).call
  <2>1. toAgent # <<>> /\ status' = [status EXCEPT ![k] = "executed"]
    BY <1>3 DEF AgentHandle
  <2>2. 1 \in DOMAIN toAgent /\ Head(toAgent) = toAgent[1] /\ Head(toAgent) \in R
    <3> HIDE DEF R
    <3>1. toAgent \in Seq(R)
      BY <1>0 DEF R
    <3> QED BY <2>1, <3>1, MembersTail, HeadTailProperties
  <2>3. k \in Calls /\ status[k] = "sent"
    BY <2>2 DEF RunsInv, RunsPosted
  <2>4. outstanding' = outstanding
    BY <1>0, <1>1, OutstandingKept DEF InFlight
  <2>5. Abstract!Execute(k)
    BY <1>1, <2>1, <2>3, <2>4 DEF Abstract!Execute
  <2> QED BY <1>0, <2>3, <2>5 DEF Abstract!Next
<1>4. AgentHandle \/ UNCHANGED status
  BY DEF Environment, OnMessage, AgentEvent, UserSends, ScriptDies, SessionDetaches,
     Destroyed, CancelFlag, CancelHook, wireVars
<1> QED BY <1>2, <1>3, <1>4

\* Callers that hold a lock in common see an Rpc: one request outstanding, run at
\* most once, and answered by its own reply or by what the user's script sent
\* under its id (backend_request, backend_drain_reply, backend_on_message).
THEOREM ChannelIsRpc ==
  ASSUME OneLockForAll
  PROVE  Spec => ImplementsRpc
<1>1. Init => Abstract!Init
  BY ChannelRpcInit
<1>2. SlotInv /\ SlotInv' /\ OneHandler /\ IdsInv /\ RunsInv /\ [Next]_vars
        => [Abstract!Next]_(Abstract!rpcVars)
  <2> SUFFICES ASSUME SlotInv, SlotInv', OneHandler, IdsInv, RunsInv, [Next]_vars
               PROVE  Abstract!Next \/ UNCHANGED Abstract!rpcVars
    OBVIOUS
  <2>1. CASE UNCHANGED vars
    <3>1. UNCHANGED <<pc, call, status, answer>>
      BY <2>1 DEF vars, clientVars, wireVars
    <3> QED BY <3>1, ChannelRpcStutter DEF SlotInv, InFlight
  <2> QED BY <2>1, ClientRpc, EnvironmentRpc DEF Next, Rest
<1>3. QED
  BY <1>1, <1>2, SlotInvAlways, OneHandlerAlways, IdsAlways, RunsAlways, PTL
     DEF Spec, ImplementsRpc, Abstract!Spec

=============================================================================
