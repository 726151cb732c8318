----------------------------- MODULE SessionProofs -----------------------------
(***************************************************************************)
(* Theorems about Session for any number of sessions, one after the other. *)
(***************************************************************************)
EXTENDS Session, TLAPS

\* The handles backend_open has acquired by each step before it stores them.
HeldAt ==
  /\ pc = "create" => mine = {}
  /\ pc = "check" => mine = {"cancellable"}
  /\ pc = "device" => mine = {"cancellable", "manager"}
  /\ pc \in {"target", "attach"} => mine = {"cancellable", "manager", "device"}
  /\ pc \in {"launch", "store"} => mine = Handles

\* How far the handler is tells what is allocated and who refers to it.
Shape ==
  /\ pc = "idle" => (object <=> slot)
  /\ slot => hasBackend
  /\ hasBackend => object /\ owned = Handles /\ mine = {}
  /\ ~hasBackend => owned = {}
  /\ ~object => pc = "idle" /\ mine = {}
  /\ object => opens > 0
  /\ pc \in OpenSteps \cup {"cleanup", "free"} => ~slot
  /\ pc \in ConnectSteps \cup {"create", "check", "store"} => ~hasBackend
  /\ HeldAt
  /\ pc \in {"arm", "arming", "arm_resume", "armed"} => hasBackend
  /\ pc = "free" => mine = {}
  /\ pc \in {"resume", "rn", "rn_resume", "detach"} => slot

\* A reference is counted once.
Counted == \A h \in Handles : refs[h] = IF h \in mine \cup owned THEN 1 ELSE 0

\* From its creation on the cancellable hears of every Ctrl-C; the flag keeps one
\* that came before.
HookSet ==
  /\ hook => "cancellable" \in mine \cup owned
  /\ pc \in ConnectSteps \cup {"check", "store"} => hook
  /\ hasBackend => hook
  /\ pc \in {"create", "check"} /\ pressed => cancelled
  /\ CancelNotLost

\* Of the targets whose pid is known only the current one can be suspended, and
\* then whoever gives up the device knows that it was spawned and not resumed.
Targets ==
  /\ \A n \in Opens : n > opens => proc[n] = "none" /\ ~reported[n] /\ ~told[n]
  /\ \A n \in Opens : proc[n] = "suspended" /\ told[n]
       => n = opens /\ spawned /\ ~resumed /\ "device" \in mine \cup owned
  /\ pc \in {"create", "check", "device", "target"} => ~resumed /\ ~told[opens]

\* A target is reported running only when it was resumed and its open is over.
Reports ==
  opens > 0 /\ reported[opens] => resumed /\ pc \notin OpenSteps \cup {"cleanup"}

\* What the properties need beyond the types: they are not inductive without
\* knowing how far the handler is, which pointer holds each handle and which
\* target can still be suspended.
Consistent == Shape /\ Counted /\ HookSet /\ Targets /\ Reports

\* The inductive invariant.
SessionInv == TypeOK /\ Consistent

\* Disposing of a session releases each of its references once, and leaves no
\* suspended target behind.
LEMMA DisposeEnds ==
  ASSUME SessionInv, mine = {}, Dispose
  PROVE  /\ object' = FALSE /\ slot' = FALSE /\ hasBackend' = FALSE /\ hook' = FALSE
         /\ mine' = {} /\ owned' = {} /\ refs' = [h \in Handles |-> 0]
         /\ TargetTypes' /\ HandleTypes' /\ Counted'
         /\ \A n \in Opens : /\ told[n] => proc'[n] # "suspended"
                             /\ n > opens => proc'[n] = "none"
         /\ UNCHANGED <<opens, action, transport, spawned, resumed, reported, told, detached,
                        cancelled, hookDue, cancellable, pressed>>
<1> USE DEF SessionInv, Consistent, Dispose, openVars, Handles, Opens
<1>1. /\ object' = FALSE /\ slot' = FALSE /\ hasBackend' = FALSE /\ mine' = {}
      /\ UNCHANGED <<opens, action, transport, spawned, resumed, reported, told, detached,
                     cancelled, hookDue, cancellable, pressed>>
  OBVIOUS
<1>2. hook' = FALSE /\ owned' = {}
  <2>1. CASE hasBackend
    BY <2>1
  <2>2. CASE ~hasBackend
    <3>1. owned = {} /\ ~hook
      BY <2>2 DEF Shape, HookSet
    <3>2. QED BY <2>2, <3>1 DEF TypeOK, FlagTypes
  <2>3. QED BY <2>1, <2>2
<1>3. refs' = [h \in Handles |-> 0]
  <2>1. CASE hasBackend
    BY <2>1 DEF Released, Shape, Counted
  <2>2. CASE ~hasBackend
    BY <2>2 DEF TypeOK, HandleTypes, Shape, Counted
  <2>3. QED BY <2>1, <2>2
<1>4. TargetTypes' /\ \A n \in Opens : /\ told[n] => proc'[n] # "suspended"
                                       /\ n > opens => proc'[n] = "none"
  <2>1. CASE hasBackend /\ spawned /\ ~resumed
    BY <2>1 DEF Kill, TypeOK, TargetTypes, ControlTypes, Targets, Alive, Shape
  <2>2. CASE hasBackend /\ ~(spawned /\ ~resumed)
    BY <2>2 DEF TypeOK, TargetTypes, Targets
  <2>3. CASE ~hasBackend
    BY <2>3 DEF TypeOK, TargetTypes, Targets, Shape
  <2>4. QED BY <2>1, <2>2, <2>3
<1>5. HandleTypes' /\ Counted'
  BY <1>1, <1>2, <1>3 DEF HandleTypes, Counted
<1>6. QED BY <1>1, <1>2, <1>3, <1>4, <1>5

\* Every step keeps the types.
LEMMA TypesKept ==
  ASSUME SessionInv, [Next]_vars
  PROVE  TypeOK'
<1> USE MaxOpensAssumption
    DEF Goto, SessionInv, openVars, objectVars, handleVars, targetVars, cancelVars,
        Handles, Opens, Alive, ConnectSteps, OpenSteps, Steps
<1>1. CASE \E who \in {"console", "cutter"}, a \in {"attach", "spawn", "launch"},
              t \in {"local", "remote"} : Open(who, a, t)
  <2>1. ControlTypes'
    BY <1>1 DEF Open, TypeOK, ControlTypes, Consistent
  <2>2. FlagTypes'
    BY <1>1 DEF Open, TypeOK, FlagTypes, Consistent
  <2>3. HandleTypes'
    BY <1>1 DEF Open, TypeOK, HandleTypes, Counted, Consistent
  <2>4. TargetTypes'
    BY <1>1 DEF Open, TypeOK, TargetTypes, ControlTypes, Shape, Consistent
  <2>5. QED BY <2>1, <2>2, <2>3, <2>4 DEF TypeOK
<1>2. CASE \E who \in {"console", "cutter"} : ResumeBegin(who)
  <2>1. ControlTypes'
    BY <1>2 DEF ResumeBegin, TypeOK, ControlTypes, Consistent
  <2>2. FlagTypes'
    BY <1>2 DEF ResumeBegin, TypeOK, FlagTypes, Consistent
  <2>3. HandleTypes'
    BY <1>2 DEF ResumeBegin, TypeOK, HandleTypes, Counted, Consistent
  <2>4. TargetTypes'
    BY <1>2 DEF ResumeBegin, TypeOK, TargetTypes, ControlTypes, Shape, Consistent
  <2>5. QED BY <2>1, <2>2, <2>3, <2>4 DEF TypeOK
<1>3. CASE \E who \in {"console", "cutter"} : RnBegin(who)
  <2>1. ControlTypes'
    BY <1>3 DEF RnBegin, TypeOK, ControlTypes, Consistent
  <2>2. FlagTypes'
    BY <1>3 DEF RnBegin, TypeOK, FlagTypes, Consistent
  <2>3. HandleTypes'
    BY <1>3 DEF RnBegin, TypeOK, HandleTypes, Counted, Consistent
  <2>4. TargetTypes'
    BY <1>3 DEF RnBegin, TypeOK, TargetTypes, ControlTypes, Shape, Consistent
  <2>5. QED BY <2>1, <2>2, <2>3, <2>4 DEF TypeOK
<1>4. CASE \E who \in {"console", "cutter"} : CloseBegin(who)
  <2>1. ControlTypes'
    BY <1>4 DEF CloseBegin, TypeOK, ControlTypes, Consistent
  <2>2. FlagTypes'
    BY <1>4 DEF CloseBegin, TypeOK, FlagTypes, Consistent
  <2>3. HandleTypes'
    BY <1>4 DEF CloseBegin, TypeOK, HandleTypes, Counted, Consistent
  <2>4. TargetTypes'
    BY <1>4 DEF CloseBegin, TypeOK, TargetTypes, ControlTypes, Shape, Consistent
  <2>5. QED BY <2>1, <2>2, <2>3, <2>4 DEF TypeOK
<1>5. CASE CreateCancellable
  BY <1>5 DEF CreateCancellable, Acquire, TypeOK, ControlTypes, FlagTypes, HandleTypes,
              TargetTypes, Shape, HeldAt, Counted, Consistent
<1>6. CASE CheckCancelled
  BY <1>6 DEF CheckCancelled, Acquire, TypeOK, ControlTypes, FlagTypes, HandleTypes,
              TargetTypes, Shape, HeldAt, Counted, Consistent
<1>7. CASE ResolveDevice
  BY <1>7 DEF ResolveDevice, Acquire, TypeOK, ControlTypes, FlagTypes, HandleTypes,
              TargetTypes, Shape, HeldAt, Counted, Consistent
<1>8. CASE ResolveTarget
  <2>1. ControlTypes'
    BY <1>8 DEF ResolveTarget, TypeOK, ControlTypes, Consistent
  <2>2. FlagTypes'
    BY <1>8 DEF ResolveTarget, TypeOK, FlagTypes, Consistent
  <2>3. HandleTypes'
    BY <1>8 DEF ResolveTarget, TypeOK, HandleTypes, Counted, Consistent
  <2>4. TargetTypes'
    BY <1>8 DEF ResolveTarget, TypeOK, TargetTypes, ControlTypes, Shape, Consistent
  <2>5. QED BY <2>1, <2>2, <2>3, <2>4 DEF TypeOK
<1>9. CASE Attach
  <2>1. ControlTypes'
    BY <1>9 DEF Attach, Acquire, TypeOK, ControlTypes, Consistent
  <2>2. FlagTypes'
    BY <1>9 DEF Attach, Acquire, TypeOK, FlagTypes, Consistent
  <2>3. HandleTypes'
    BY <1>9 DEF Attach, Acquire, TypeOK, HandleTypes, Counted, Consistent
  <2>4. TargetTypes'
    BY <1>9 DEF Attach, Acquire, TypeOK, TargetTypes, ControlTypes, Shape, Consistent
  <2>5. QED BY <2>1, <2>2, <2>3, <2>4 DEF TypeOK
<1>10. CASE Launch
  BY <1>10 DEF Launch, Resume, TypeOK, ControlTypes, FlagTypes, HandleTypes, TargetTypes,
               Shape, HeldAt, Counted, Consistent
<1>11. CASE Store
  BY <1>11 DEF Store, TypeOK, ControlTypes, FlagTypes, HandleTypes, TargetTypes, Shape,
               HeldAt, Counted, Consistent
<1>12. CASE ArmAndResume
  BY <1>12 DEF ArmAndResume, Resume, TypeOK, ControlTypes, FlagTypes, HandleTypes,
               TargetTypes, Shape, HeldAt, Counted, Consistent
<1>31. CASE ArmBegin
  <2>1. ControlTypes'
    BY <1>31 DEF ArmBegin, TypeOK, ControlTypes, Consistent
  <2>2. FlagTypes'
    BY <1>31 DEF ArmBegin, TypeOK, FlagTypes, Consistent
  <2>3. HandleTypes'
    BY <1>31 DEF ArmBegin, TypeOK, HandleTypes, Counted, Consistent
  <2>4. TargetTypes'
    BY <1>31 DEF ArmBegin, TypeOK, TargetTypes, ControlTypes, Shape, Consistent
  <2>5. QED BY <2>1, <2>2, <2>3, <2>4 DEF TypeOK
<1>33. CASE Armed
  <2>1. ControlTypes'
    BY <1>33 DEF Armed, TypeOK, ControlTypes, Consistent
  <2>2. FlagTypes'
    BY <1>33 DEF Armed, TypeOK, FlagTypes, Consistent
  <2>3. HandleTypes'
    BY <1>33 DEF Armed, TypeOK, HandleTypes, Counted, Consistent
  <2>4. TargetTypes'
    BY <1>33 DEF Armed, TypeOK, TargetTypes, ControlTypes, Shape, Consistent
  <2>5. QED BY <2>1, <2>2, <2>3, <2>4 DEF TypeOK
<1>13. CASE OpenDone
  BY <1>13 DEF OpenDone, TypeOK, ControlTypes, FlagTypes, HandleTypes, TargetTypes, Shape,
               HeldAt, Counted, Consistent
<1>14. CASE OpenFails
  BY <1>14 DEF OpenFails, TypeOK, ControlTypes, FlagTypes, HandleTypes, TargetTypes, Shape,
               HeldAt, Counted, Consistent
<1>15. CASE Cleanup
  <2>1. ControlTypes'
    BY <1>15 DEF Cleanup, Kill, Released, TypeOK, ControlTypes, Consistent
  <2>2. FlagTypes'
    BY <1>15 DEF Cleanup, Kill, Released, TypeOK, FlagTypes, Consistent
  <2>3. HandleTypes'
    BY <1>15 DEF Cleanup, Kill, Released, TypeOK, HandleTypes, Counted, Consistent
  <2>4. TargetTypes'
    BY <1>15 DEF Cleanup, Kill, Released, TypeOK, TargetTypes, ControlTypes, Shape,
                 Consistent
  <2>5. QED BY <2>1, <2>2, <2>3, <2>4 DEF TypeOK
<1>16. CASE FreeFailed
  <2>1. mine = {} /\ Dispose
    BY <1>16 DEF FreeFailed, Consistent, Shape
  <2>2. ControlTypes'
    BY <1>16, <2>1, DisposeEnds DEF FreeFailed, TypeOK, ControlTypes, Consistent
  <2>3. FlagTypes'
    BY <1>16, <2>1, DisposeEnds DEF FreeFailed, TypeOK, FlagTypes, Consistent
  <2>4. HandleTypes'
    BY <1>16, <2>1, DisposeEnds DEF FreeFailed, TypeOK, HandleTypes, Counted, Consistent
  <2>5. TargetTypes'
    BY <1>16, <2>1, DisposeEnds DEF FreeFailed, TypeOK, TargetTypes, ControlTypes, Shape,
                                    Consistent
  <2>6. QED BY <2>2, <2>3, <2>4, <2>5 DEF TypeOK
<1>17. CASE ResumeDone
  BY <1>17 DEF ResumeDone, Resume, TypeOK, ControlTypes, FlagTypes, HandleTypes,
               TargetTypes, Shape, HeldAt, Counted, Consistent
<1>18. CASE ResumeFails
  BY <1>18 DEF ResumeFails, TypeOK, ControlTypes, FlagTypes, HandleTypes, TargetTypes,
               Shape, HeldAt, Counted, Consistent
<1>19. CASE RnArmed
  BY <1>19 DEF RnArmed, TypeOK, ControlTypes, FlagTypes, HandleTypes, TargetTypes, Shape,
               HeldAt, Counted, Consistent
<1>20. CASE RnReturn
  BY <1>20 DEF RnReturn, TypeOK, ControlTypes, FlagTypes, HandleTypes, TargetTypes, Shape,
               HeldAt, Counted, Consistent
<1>21. CASE CloseDone
  <2>1. mine = {} /\ Dispose
    BY <1>21 DEF CloseDone, Consistent, Shape
  <2>2. ControlTypes'
    BY <1>21, <2>1, DisposeEnds DEF CloseDone, TypeOK, ControlTypes, Consistent
  <2>3. FlagTypes'
    BY <1>21, <2>1, DisposeEnds DEF CloseDone, TypeOK, FlagTypes, Consistent
  <2>4. HandleTypes'
    BY <1>21, <2>1, DisposeEnds DEF CloseDone, TypeOK, HandleTypes, Counted, Consistent
  <2>5. TargetTypes'
    BY <1>21, <2>1, DisposeEnds DEF CloseDone, TypeOK, TargetTypes, ControlTypes, Shape,
                                    Consistent
  <2>6. QED BY <2>2, <2>3, <2>4, <2>5 DEF TypeOK
<1>22. CASE CloseFails
  <2>1. CASE caller = "console"
    <3>1. ControlTypes'
      BY <1>22, <2>1 DEF CloseFails, TypeOK, ControlTypes, Consistent
    <3>2. FlagTypes'
      BY <1>22, <2>1 DEF CloseFails, TypeOK, FlagTypes, Consistent
    <3>3. HandleTypes'
      BY <1>22, <2>1 DEF CloseFails, TypeOK, HandleTypes, Counted, Consistent
    <3>4. TargetTypes'
      BY <1>22, <2>1 DEF CloseFails, TypeOK, TargetTypes, ControlTypes, Shape, Consistent
    <3>5. QED BY <3>1, <3>2, <3>3, <3>4 DEF TypeOK
  <2>2. CASE caller # "console"
    <3>1. mine = {} /\ Dispose
      BY <1>22, <2>2 DEF CloseFails, Consistent, Shape
    <3>2. ControlTypes'
      BY <1>22, <2>2, <3>1, DisposeEnds DEF CloseFails, TypeOK, ControlTypes, Consistent
    <3>3. FlagTypes'
      BY <1>22, <2>2, <3>1, DisposeEnds DEF CloseFails, TypeOK, FlagTypes, Consistent
    <3>4. HandleTypes'
      BY <1>22, <2>2, <3>1, DisposeEnds DEF CloseFails, TypeOK, HandleTypes, Counted, Consistent
    <3>5. TargetTypes'
      BY <1>22, <2>2, <3>1, DisposeEnds DEF CloseFails, TypeOK, TargetTypes, ControlTypes,
                                        Shape, Consistent
    <3>6. QED BY <3>2, <3>3, <3>4, <3>5 DEF TypeOK
  <2>3. QED BY <2>1, <2>2
<1>23. CASE Unload
  <2>1. mine = {} /\ Dispose
    BY <1>23 DEF Unload, Consistent, Shape
  <2>2. ControlTypes'
    BY <1>23, <2>1, DisposeEnds DEF Unload, TypeOK, ControlTypes, Consistent
  <2>3. FlagTypes'
    BY <1>23, <2>1, DisposeEnds DEF Unload, TypeOK, FlagTypes, Consistent
  <2>4. HandleTypes'
    BY <1>23, <2>1, DisposeEnds DEF Unload, TypeOK, HandleTypes, Counted, Consistent
  <2>5. TargetTypes'
    BY <1>23, <2>1, DisposeEnds DEF Unload, TypeOK, TargetTypes, ControlTypes, Shape,
                                    Consistent
  <2>6. QED BY <2>2, <2>3, <2>4, <2>5 DEF TypeOK
<1>24. CASE TargetExits
  BY <1>24 DEF TargetExits, TypeOK, ControlTypes, FlagTypes, HandleTypes, TargetTypes,
               Shape, HeldAt, Counted, Consistent
<1>30. CASE ResumeTakesEffect
  BY <1>30 DEF ResumeTakesEffect, TypeOK, ControlTypes, FlagTypes, HandleTypes, TargetTypes,
               Shape, HeldAt, Counted, Consistent
<1>32. CASE SpawnTakesEffect
  BY <1>32 DEF SpawnTakesEffect, TypeOK, ControlTypes, FlagTypes, HandleTypes, TargetTypes,
               Shape, HeldAt, Counted, Consistent
<1>25. CASE SessionDrops
  BY <1>25 DEF SessionDrops, TypeOK, ControlTypes, FlagTypes, HandleTypes, TargetTypes,
               Shape, HeldAt, Counted, Consistent
<1>26. CASE CancelFlag
  BY <1>26 DEF CancelFlag, TypeOK, ControlTypes, FlagTypes, HandleTypes, TargetTypes, Shape,
               HeldAt, Counted, Consistent
<1>27. CASE CancelHook
  <2>1. cancellable' \in BOOLEAN
    <3>1. cancellable' = (cancellable \/ hook)
      BY <1>27 DEF CancelHook
    <3>2. cancellable \in BOOLEAN /\ hook \in BOOLEAN
      BY DEF TypeOK, FlagTypes
    <3>3. QED BY <3>1, <3>2, Zenon
  <2>2. hookDue' = FALSE /\ UNCHANGED <<object, slot, hasBackend, spawned, resumed, detached,
                                     cancelled, hook>>
    BY <1>27 DEF CancelHook
  <2>3. FlagTypes'
    BY <1>27, <2>1, <2>2, Zenon DEF CancelHook, TypeOK, FlagTypes
  <2>4. ControlTypes' /\ HandleTypes' /\ TargetTypes'
    BY <1>27 DEF CancelHook, TypeOK, ControlTypes, HandleTypes, TargetTypes
  <2>5. QED BY <2>3, <2>4 DEF TypeOK
<1>28. CASE UNCHANGED vars
  BY <1>28 DEF vars, TypeOK, ControlTypes, FlagTypes, HandleTypes, TargetTypes, Shape,
               HeldAt, Counted, Consistent
<1>29. QED BY <1>1, <1>2, <1>3, <1>4, <1>5, <1>6, <1>7, <1>8, <1>9, <1>10, <1>11, <1>12,
              <1>13, <1>14, <1>15, <1>16, <1>17, <1>18, <1>19, <1>20, <1>21, <1>22, <1>23,
              <1>24, <1>30, <1>31, <1>32, <1>33, <1>25, <1>26, <1>27, <1>28
            DEF Next, Begin, OpenNext, HandlerNext, Environment, Rest

\* Every step keeps the rest of the inductive invariant.
LEMMA ConsistencyKept ==
  ASSUME SessionInv, [Next]_vars
  PROVE  Consistent'
<1> USE MaxOpensAssumption
    DEF Goto, SessionInv, openVars, objectVars, handleVars, targetVars, cancelVars,
        Handles, Opens, Alive, ConnectSteps, OpenSteps, Steps
<1>1. CASE \E who \in {"console", "cutter"}, a \in {"attach", "spawn", "launch"},
              t \in {"local", "remote"} : Open(who, a, t)
  <2>1. Shape'
    BY <1>1 DEF Open, TypeOK, ControlTypes, FlagTypes, Shape, HeldAt, Breakable, Consistent
  <2>2. Counted'
    BY <1>1 DEF Open, TypeOK, HandleTypes, Counted, Shape, HeldAt, Consistent
  <2>3. HookSet'
    BY <1>1 DEF Open, TypeOK, FlagTypes, Shape, HeldAt, HookSet, CancelNotLost,
                Consistent
  <2>4. Targets'
    BY <1>1 DEF Open, TypeOK, ControlTypes, TargetTypes, Shape, HeldAt, Targets, Consistent
  <2>5. Reports'
    BY <1>1 DEF Open, TypeOK, ControlTypes, TargetTypes, Shape, Targets, Reports, Consistent
  <2>6. QED BY <2>1, <2>2, <2>3, <2>4, <2>5 DEF Consistent
<1>2. CASE \E who \in {"console", "cutter"} : ResumeBegin(who)
  BY <1>2 DEF ResumeBegin, Consistent, TypeOK, ControlTypes, FlagTypes, HandleTypes,
              TargetTypes, Shape, HeldAt, Counted, HookSet, CancelNotLost, Breakable,
              Targets, Reports
<1>3. CASE \E who \in {"console", "cutter"} : RnBegin(who)
  BY <1>3 DEF RnBegin, Consistent, TypeOK, ControlTypes, FlagTypes, HandleTypes,
              TargetTypes, Shape, HeldAt, Counted, HookSet, CancelNotLost, Breakable,
              Targets, Reports
<1>4. CASE \E who \in {"console", "cutter"} : CloseBegin(who)
  BY <1>4 DEF CloseBegin, Consistent, TypeOK, ControlTypes, FlagTypes, HandleTypes,
              TargetTypes, Shape, HeldAt, Counted, HookSet, CancelNotLost, Breakable,
              Targets, Reports
<1>5. CASE CreateCancellable
  <2>1. Shape'
    <3>1. mine' = {"cancellable"} /\ pc' = "check" /\ UNCHANGED <<owned, objectVars, opens>>
      BY <1>5 DEF CreateCancellable, Acquire, Consistent, Shape, HeldAt
    <3>2. object /\ ~slot /\ ~hasBackend /\ owned = {} /\ opens > 0
      BY <1>5 DEF CreateCancellable, Consistent, Shape
    <3>3. QED BY <3>1, <3>2 DEF Shape, HeldAt
  <2>2. Counted'
    BY <1>5 DEF CreateCancellable, Acquire, TypeOK, HandleTypes, Counted, Shape, HeldAt,
                Consistent
  <2>3. HookSet'
    BY <1>5 DEF CreateCancellable, Acquire, TypeOK, FlagTypes, Shape, HeldAt, HookSet,
                CancelNotLost, Consistent
  <2>4. Targets'
    BY <1>5 DEF CreateCancellable, Acquire, TypeOK, ControlTypes, TargetTypes, Shape,
                HeldAt, Targets, Consistent
  <2>5. Reports'
    BY <1>5 DEF CreateCancellable, Acquire, TypeOK, ControlTypes, TargetTypes, Shape,
                Targets, Reports, Consistent
  <2>6. QED BY <2>1, <2>2, <2>3, <2>4, <2>5 DEF Consistent
<1>6. CASE CheckCancelled
  BY <1>6 DEF CheckCancelled, Acquire, Consistent, TypeOK, ControlTypes, FlagTypes,
              HandleTypes, TargetTypes, Shape, HeldAt, Counted, HookSet, CancelNotLost,
              Breakable, Targets, Reports
<1>7. CASE ResolveDevice
  BY <1>7 DEF ResolveDevice, Acquire, Consistent, TypeOK, ControlTypes, FlagTypes,
              HandleTypes, TargetTypes, Shape, HeldAt, Counted, HookSet, CancelNotLost,
              Breakable, Targets, Reports
<1>8. CASE ResolveTarget
  <2>1. Shape'
    BY <1>8 DEF ResolveTarget, TypeOK, ControlTypes, FlagTypes, Shape, HeldAt, Breakable,
                Consistent
  <2>2. Counted'
    BY <1>8 DEF ResolveTarget, TypeOK, HandleTypes, Counted, Shape, HeldAt, Consistent
  <2>3. HookSet'
    BY <1>8 DEF ResolveTarget, TypeOK, FlagTypes, Shape, HeldAt, HookSet, CancelNotLost,
                Consistent
  <2>4. Targets'
    <3>1. "device" \in mine /\ opens \in Opens
          /\ UNCHANGED <<mine, owned, opens, resumed, reported>>
      BY <1>8 DEF ResolveTarget, Consistent, Shape, HeldAt, TypeOK, ControlTypes
    <3>2. CASE action = "attach"
      BY <1>8, <3>1, <3>2 DEF ResolveTarget, TypeOK, TargetTypes, Consistent, Targets
    <3>3. CASE action # "attach"
      <4>1. ~resumed
        BY <1>8 DEF ResolveTarget, Consistent, Targets
      <4>2. QED BY <1>8, <3>1, <3>3, <4>1 DEF ResolveTarget, TypeOK, TargetTypes, Consistent,
                                        Targets
    <3>4. QED BY <3>2, <3>3
  <2>5. Reports'
    BY <1>8 DEF ResolveTarget, TypeOK, ControlTypes, TargetTypes, Shape, Targets, Reports,
                Consistent
  <2>6. QED BY <2>1, <2>2, <2>3, <2>4, <2>5 DEF Consistent
<1>9. CASE Attach
  BY <1>9 DEF Attach, Acquire, Consistent, TypeOK, ControlTypes, FlagTypes, HandleTypes,
              TargetTypes, Shape, HeldAt, Counted, HookSet, CancelNotLost, Breakable,
              Targets, Reports
<1>10. CASE Launch
  BY <1>10 DEF Launch, Resume, Consistent, TypeOK, ControlTypes, FlagTypes, HandleTypes,
               TargetTypes, Shape, HeldAt, Counted, HookSet, CancelNotLost, Breakable,
               Targets, Reports
<1>11. CASE Store
  <2>1. Shape'
    BY <1>11 DEF Store, TypeOK, ControlTypes, FlagTypes, Shape, HeldAt, Consistent
  <2>2. Counted'
    BY <1>11 DEF Store, TypeOK, HandleTypes, Counted, Shape, HeldAt, Consistent
  <2>3. HookSet'
    BY <1>11 DEF Store, TypeOK, FlagTypes, Shape, HeldAt, HookSet, CancelNotLost, Consistent
  <2>4. Targets'
    BY <1>11 DEF Store, TypeOK, ControlTypes, TargetTypes, Shape, HeldAt, Targets, Consistent
  <2>5. Reports'
    BY <1>11 DEF Store, TypeOK, ControlTypes, TargetTypes, Shape, Reports, Consistent
  <2>6. QED BY <2>1, <2>2, <2>3, <2>4, <2>5 DEF Consistent
<1>12. CASE ArmAndResume
  BY <1>12 DEF ArmAndResume, Resume, Consistent, TypeOK, ControlTypes, FlagTypes,
               HandleTypes, TargetTypes, Shape, HeldAt, Counted, HookSet, CancelNotLost,
               Breakable, Targets, Reports
<1>31. CASE ArmBegin
  BY <1>31 DEF ArmBegin, Consistent, TypeOK, ControlTypes, FlagTypes, HandleTypes,
               TargetTypes, Shape, HeldAt, Counted, HookSet, CancelNotLost, Breakable,
               Targets, Reports
<1>33. CASE Armed
  BY <1>33 DEF Armed, Consistent, TypeOK, ControlTypes, FlagTypes, HandleTypes,
               TargetTypes, Shape, HeldAt, Counted, HookSet, CancelNotLost, Breakable,
               Targets, Reports
<1>13. CASE OpenDone
  BY <1>13 DEF OpenDone, Consistent, TypeOK, ControlTypes, FlagTypes, HandleTypes,
               TargetTypes, Shape, HeldAt, Counted, HookSet, CancelNotLost, Breakable,
               Targets, Reports
<1>14. CASE OpenFails
  BY <1>14 DEF OpenFails, Consistent, TypeOK, ControlTypes, FlagTypes, HandleTypes,
               TargetTypes, Shape, HeldAt, Counted, HookSet, CancelNotLost, Breakable,
               Targets, Reports
<1>15. CASE Cleanup
  <2>1. Shape'
    BY <1>15 DEF Cleanup, Kill, Released, TypeOK, ControlTypes, FlagTypes, Shape, HeldAt,
                 Breakable, Consistent
  <2>2. Counted'
    BY <1>15 DEF Cleanup, Kill, Released, TypeOK, HandleTypes, Counted, Shape, HeldAt,
                 Consistent
  <2>3. HookSet'
    BY <1>15 DEF Cleanup, Kill, Released, TypeOK, FlagTypes, Shape, HeldAt, HookSet,
                 CancelNotLost, Consistent
  <2>4. Targets'
    BY <1>15 DEF Cleanup, Kill, Released, TypeOK, ControlTypes, TargetTypes, Shape, HeldAt,
                 Targets, Consistent
  <2>5. Reports'
    BY <1>15 DEF Cleanup, Kill, Released, TypeOK, ControlTypes, TargetTypes, Shape, Targets,
                 Reports, Consistent
  <2>6. QED BY <2>1, <2>2, <2>3, <2>4, <2>5 DEF Consistent
<1>16. CASE FreeFailed
  <2>1. mine = {} /\ Dispose
    BY <1>16 DEF FreeFailed, Consistent, Shape
  <2>2. Shape'
    BY <1>16, <2>1, DisposeEnds DEF FreeFailed, TypeOK, ControlTypes, FlagTypes, Shape,
                                    HeldAt, Breakable, Consistent
  <2>3. Counted'
    BY <1>16, <2>1, DisposeEnds DEF FreeFailed, TypeOK, HandleTypes, Counted, Shape, HeldAt,
                                    Consistent
  <2>4. HookSet'
    BY <1>16, <2>1, DisposeEnds DEF FreeFailed, TypeOK, FlagTypes, Shape, HeldAt, HookSet,
                                    CancelNotLost, Consistent
  <2>5. Targets'
    BY <1>16, <2>1, DisposeEnds DEF FreeFailed, TypeOK, ControlTypes, TargetTypes, Shape,
                                    HeldAt, Targets, Consistent
  <2>6. Reports'
    BY <1>16, <2>1, DisposeEnds DEF FreeFailed, TypeOK, ControlTypes, TargetTypes, Shape,
                                    Targets, Reports, Consistent
  <2>7. QED BY <2>2, <2>3, <2>4, <2>5, <2>6 DEF Consistent
<1>17. CASE ResumeDone
  BY <1>17 DEF ResumeDone, Resume, Consistent, TypeOK, ControlTypes, FlagTypes, HandleTypes,
               TargetTypes, Shape, HeldAt, Counted, HookSet, CancelNotLost, Breakable,
               Targets, Reports
<1>18. CASE ResumeFails
  BY <1>18 DEF ResumeFails, Consistent, TypeOK, ControlTypes, FlagTypes, HandleTypes,
               TargetTypes, Shape, HeldAt, Counted, HookSet, CancelNotLost, Breakable,
               Targets, Reports
<1>19. CASE RnArmed
  BY <1>19 DEF RnArmed, Consistent, TypeOK, ControlTypes, FlagTypes, HandleTypes,
               TargetTypes, Shape, HeldAt, Counted, HookSet, CancelNotLost, Breakable,
               Targets, Reports
<1>20. CASE RnReturn
  BY <1>20 DEF RnReturn, Consistent, TypeOK, ControlTypes, FlagTypes, HandleTypes,
               TargetTypes, Shape, HeldAt, Counted, HookSet, CancelNotLost, Breakable,
               Targets, Reports
<1>21. CASE CloseDone
  <2>1. mine = {} /\ Dispose
    BY <1>21 DEF CloseDone, Consistent, Shape
  <2>2. Shape'
    BY <1>21, <2>1, DisposeEnds DEF CloseDone, TypeOK, ControlTypes, FlagTypes, Shape,
                                    HeldAt, Breakable, Consistent
  <2>3. Counted'
    BY <1>21, <2>1, DisposeEnds DEF CloseDone, TypeOK, HandleTypes, Counted, Shape, HeldAt,
                                    Consistent
  <2>4. HookSet'
    BY <1>21, <2>1, DisposeEnds DEF CloseDone, TypeOK, FlagTypes, Shape, HeldAt, HookSet,
                                    CancelNotLost, Consistent
  <2>5. Targets'
    BY <1>21, <2>1, DisposeEnds DEF CloseDone, TypeOK, ControlTypes, TargetTypes, Shape,
                                    HeldAt, Targets, Consistent
  <2>6. Reports'
    BY <1>21, <2>1, DisposeEnds DEF CloseDone, TypeOK, ControlTypes, TargetTypes, Shape,
                                    Targets, Reports, Consistent
  <2>7. QED BY <2>2, <2>3, <2>4, <2>5, <2>6 DEF Consistent
<1>22. CASE CloseFails
  <2>1. CASE caller = "console"
    <3>1. Shape'
      BY <1>22, <2>1 DEF CloseFails, TypeOK, ControlTypes, FlagTypes, Shape, HeldAt,
                         Breakable, Consistent
    <3>2. Counted'
      BY <1>22, <2>1 DEF CloseFails, TypeOK, HandleTypes, Counted, Shape, HeldAt, Consistent
    <3>3. HookSet'
      BY <1>22, <2>1 DEF CloseFails, TypeOK, FlagTypes, Shape, HeldAt, HookSet,
                         CancelNotLost, Consistent
    <3>4. Targets'
      BY <1>22, <2>1 DEF CloseFails, TypeOK, ControlTypes, TargetTypes, Shape, HeldAt,
                         Targets, Consistent
    <3>5. Reports'
      BY <1>22, <2>1 DEF CloseFails, TypeOK, ControlTypes, TargetTypes, Shape, Targets,
                         Reports, Consistent
    <3>6. QED BY <3>1, <3>2, <3>3, <3>4, <3>5 DEF Consistent
  <2>2. CASE caller # "console"
    <3>1. mine = {} /\ Dispose
      BY <1>22, <2>2 DEF CloseFails, Consistent, Shape
    <3>2. Shape'
      BY <1>22, <2>2, <3>1, DisposeEnds DEF CloseFails, TypeOK, ControlTypes, FlagTypes, Shape,
                                        HeldAt, Breakable, Consistent
    <3>3. Counted'
      BY <1>22, <2>2, <3>1, DisposeEnds DEF CloseFails, TypeOK, HandleTypes, Counted, Shape,
                                        HeldAt, Consistent
    <3>4. HookSet'
      BY <1>22, <2>2, <3>1, DisposeEnds DEF CloseFails, TypeOK, FlagTypes, Shape, HeldAt,
                                        HookSet, CancelNotLost, Consistent
    <3>5. Targets'
      BY <1>22, <2>2, <3>1, DisposeEnds DEF CloseFails, TypeOK, ControlTypes, TargetTypes,
                                        Shape, HeldAt, Targets, Consistent
    <3>6. Reports'
      BY <1>22, <2>2, <3>1, DisposeEnds DEF CloseFails, TypeOK, ControlTypes, TargetTypes,
                                        Shape, Targets, Reports, Consistent
    <3>7. QED BY <3>2, <3>3, <3>4, <3>5, <3>6 DEF Consistent
  <2>3. QED BY <2>1, <2>2
<1>23. CASE Unload
  <2>1. mine = {} /\ Dispose
    BY <1>23 DEF Unload, Consistent, Shape
  <2>2. Shape'
    BY <1>23, <2>1, DisposeEnds DEF Unload, TypeOK, ControlTypes, FlagTypes, Shape, HeldAt,
                                    Breakable, Consistent
  <2>3. Counted'
    BY <1>23, <2>1, DisposeEnds DEF Unload, TypeOK, HandleTypes, Counted, Shape, HeldAt,
                                    Consistent
  <2>4. HookSet'
    BY <1>23, <2>1, DisposeEnds DEF Unload, TypeOK, FlagTypes, Shape, HeldAt, HookSet,
                                    CancelNotLost, Consistent
  <2>5. Targets'
    BY <1>23, <2>1, DisposeEnds DEF Unload, TypeOK, ControlTypes, TargetTypes, Shape,
                                    HeldAt, Targets, Consistent
  <2>6. Reports'
    BY <1>23, <2>1, DisposeEnds DEF Unload, TypeOK, ControlTypes, TargetTypes, Shape,
                                    Targets, Reports, Consistent
  <2>7. QED BY <2>2, <2>3, <2>4, <2>5, <2>6 DEF Consistent
<1>24. CASE TargetExits
  BY <1>24 DEF TargetExits, Consistent, TypeOK, ControlTypes, FlagTypes, HandleTypes,
               TargetTypes, Shape, HeldAt, Counted, HookSet, CancelNotLost, Breakable,
               Targets, Reports
<1>30. CASE ResumeTakesEffect
  BY <1>30 DEF ResumeTakesEffect, Consistent, TypeOK, ControlTypes, FlagTypes, HandleTypes,
               TargetTypes, Shape, HeldAt, Counted, HookSet, CancelNotLost, Breakable,
               Targets, Reports
<1>32. CASE SpawnTakesEffect
  BY <1>32 DEF SpawnTakesEffect, Consistent, TypeOK, ControlTypes, FlagTypes, HandleTypes,
               TargetTypes, Shape, HeldAt, Counted, HookSet, CancelNotLost, Breakable,
               Targets, Reports
<1>25. CASE SessionDrops
  BY <1>25 DEF SessionDrops, Consistent, TypeOK, ControlTypes, FlagTypes, HandleTypes,
               TargetTypes, Shape, HeldAt, Counted, HookSet, CancelNotLost, Breakable,
               Targets, Reports
<1>26. CASE CancelFlag
  BY <1>26 DEF CancelFlag, Consistent, TypeOK, ControlTypes, FlagTypes, HandleTypes,
               TargetTypes, Shape, HeldAt, Counted, HookSet, CancelNotLost, Breakable,
               Targets, Reports
<1>27. CASE CancelHook
  BY <1>27 DEF CancelHook, Consistent, TypeOK, ControlTypes, FlagTypes, HandleTypes,
               TargetTypes, Shape, HeldAt, Counted, HookSet, CancelNotLost, Breakable,
               Targets, Reports
<1>28. CASE UNCHANGED vars
  BY <1>28 DEF vars, Consistent, TypeOK, ControlTypes, FlagTypes, HandleTypes, TargetTypes,
               Shape, HeldAt, Counted, HookSet, CancelNotLost, Breakable, Targets,
               Reports
<1>29. QED BY <1>1, <1>2, <1>3, <1>4, <1>5, <1>6, <1>7, <1>8, <1>9, <1>10, <1>11, <1>12,
              <1>13, <1>14, <1>15, <1>16, <1>17, <1>18, <1>19, <1>20, <1>21, <1>22, <1>23,
              <1>24, <1>30, <1>31, <1>32, <1>33, <1>25, <1>26, <1>27, <1>28
            DEF Next, Begin, OpenNext, HandlerNext, Environment, Rest

-----------------------------------------------------------------------------
(* The theorems.                                                           *)

LEMMA SessionInvInit == Init => SessionInv
<1> SUFFICES ASSUME Init PROVE SessionInv
  OBVIOUS
<1> USE MaxOpensAssumption DEF Init
<1>1. TypeOK
  <2>1. ControlTypes
    BY DEF ControlTypes, Steps
  <2>2. FlagTypes
    BY DEF FlagTypes
  <2>3. HandleTypes /\ TargetTypes
    BY DEF HandleTypes, TargetTypes, Handles, Opens
  <2>4. QED BY <2>1, <2>2, <2>3 DEF TypeOK
<1>2. Consistent
  BY DEF Consistent, Shape, HeldAt, Counted, HookSet, CancelNotLost, Targets, Reports,
         OpenSteps, ConnectSteps, Handles, Opens
<1>3. QED BY <1>1, <1>2 DEF SessionInv

\* The inductive invariant holds in every reachable state.
THEOREM SessionInvariant == Spec => []SessionInv
<1>1. SessionInv /\ [Next]_vars => SessionInv'
  BY TypesKept, ConsistencyKept DEF SessionInv
<1>2. QED BY SessionInvInit, <1>1, PTL DEF Spec

\* Every variable of a session has its type.
THEOREM TypeCorrect == Spec => []TypeOK
<1>1. SessionInv => TypeOK
  BY DEF SessionInv
<1>2. QED BY SessionInvariant, <1>1, PTL

\* However an open, a resume or a close fails, each Frida object is released as
\* often as it was acquired, and none outlives its session.
THEOREM HandlesAreBalanced == Spec => []HandlesBalanced
<1>1. SessionInv => HandlesBalanced
  BY DEF SessionInv, Consistent, HandlesBalanced, Shape, Counted, TypeOK, FlagTypes
<1>2. QED BY SessionInvariant, <1>1, PTL

\* A target whose pid the spawn returned is resumed, killed or gone by the time its
\* session goes, whichever later call failed, before or after it took effect.
THEOREM NoTargetOrphaned == Spec => []NoOrphan
<1>1. SessionInv => NoOrphan
  <2> SUFFICES ASSUME SessionInv, NEW n \in 1 .. opens, proc[n] = "suspended", told[n]
               PROVE  n = opens /\ object
    BY DEF NoOrphan
  <2>1. n \in Opens
    BY MaxOpensAssumption DEF SessionInv, TypeOK, ControlTypes, Opens
  <2>2. n = opens /\ "device" \in mine \cup owned
    BY <2>1 DEF SessionInv, Consistent, Targets
  <2>3. QED BY <2>2 DEF SessionInv, Consistent, Shape, TypeOK, FlagTypes
<1>2. QED BY SessionInvariant, <1>1, PTL

\* No session is left that no command can reach.
THEOREM SessionNeverLost == Spec => []NoLostSession
<1>1. SessionInv => NoLostSession
  BY DEF SessionInv, Consistent, Shape, NoLostSession
<1>2. QED BY SessionInvariant, <1>1, PTL

\* Ctrl-C never reaches a released cancellable.
THEOREM HookIsLive == Spec => []HookLive
<1>1. SessionInv => HookLive
  BY DEF SessionInv, Consistent, HookSet, Counted, HookLive, Handles
<1>2. QED BY SessionInvariant, <1>1, PTL

\* No Ctrl-C that the code has not reset is lost between the cancel flag and the
\* cancellable, in any open (armed or not) or FrNs.
THEOREM CancelKept == Spec => []CancelNotLost
<1>1. SessionInv => CancelNotLost
  BY DEF SessionInv, Consistent, HookSet
<1>2. QED BY SessionInvariant, <1>1, PTL

\* A step that kills a target kills the current one, which it spawned and which
\* no reply has reported running.
LEMMA KillsChecked ==
  ASSUME SessionInv, [Next]_vars
  PROVE  KillStep
<1> USE MaxOpensAssumption
        DEF SessionInv, Opens, Consistent, TypeOK, TargetTypes, KillStep, openVars,
            objectVars, handleVars, targetVars, cancelVars, Kill
<1>1. CASE Cleanup
  BY <1>1 DEF Cleanup, Reports, Shape, ControlTypes
<1>2. CASE FreeFailed \/ CloseDone \/ CloseFails \/ Unload
  <2>1. Dispose \/ UNCHANGED proc
    BY <1>2 DEF FreeFailed, CloseDone, CloseFails, Unload
  <2>2. CASE UNCHANGED proc
    BY <2>2
  <2>3. CASE Dispose
    <3>1. \A n \in Opens : proc'[n] # proc[n] => spawned /\ ~resumed /\ n = opens /\ object
      BY <2>3 DEF Dispose, Shape
    <3>2. QED BY <3>1 DEF Reports, Shape
  <2>4. QED BY <2>1, <2>2, <2>3
<1>3. CASE ResolveTarget \/ TargetExits \/ SpawnTakesEffect \/ ResumeTakesEffect
  BY <1>3 DEF ResolveTarget, TargetExits, SpawnTakesEffect, ResumeTakesEffect
<1>4. CASE Launch \/ ArmAndResume \/ ResumeDone
  BY <1>4 DEF Launch, ArmAndResume, ResumeDone, Resume
<1>5. CASE UNCHANGED proc
  BY <1>5
<1>6. CASE Begin \/ CreateCancellable \/ CheckCancelled \/ ResolveDevice \/ Attach
             \/ Store \/ ArmBegin \/ Armed \/ OpenDone \/ OpenFails \/ ResumeFails \/ RnArmed \/ RnReturn
             \/ SessionDrops \/ CancelFlag \/ CancelHook \/ Rest \/ UNCHANGED vars
  <2>1. UNCHANGED proc
    BY <1>6 DEF Begin, Open, ResumeBegin, RnBegin, CloseBegin, CreateCancellable,
                CheckCancelled, ResolveDevice, Attach, Store, ArmBegin, Armed, OpenDone, OpenFails,
                ResumeFails, RnArmed, RnReturn, SessionDrops, CancelFlag, CancelHook,
                Rest, vars
  <2>2. QED BY <2>1, <1>5
<1>7. QED BY <1>1, <1>2, <1>3, <1>4, <1>6 DEF Next, OpenNext, HandlerNext, Environment

\* Only a target that rz-frida spawned and never reported running is killed.
THEOREM KillsItsOwn == Spec => KillsOnlyItsOwn
<1>1. SessionInv /\ [Next]_vars => [KillStep]_vars
  BY KillsChecked
<1>2. QED BY SessionInvariant, <1>1, PTL DEF Spec, KillsOnlyItsOwn
=============================================================================
