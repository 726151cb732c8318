------------------------------- MODULE Session -------------------------------
(***************************************************************************)
(* The life of a session: rz_frida_backend_open, _resume, _rn_set, _close  *)
(* and backend_session_dispose of rz_frida_backend.c, called by the Fro,   *)
(* Frr, FrNs and Frc commands of rz_frida_plugin.c or by the Cutter bridge.*)
(*                                                                         *)
(* A caller holds the core lock, so one handler runs at a time.  Between   *)
(* its blocking frida-core calls the target may exit, the Frida session    *)
(* may drop and Ctrl-C may be pressed; any call that can fail may fail.    *)
(*                                                                         *)
(* The Frida objects are handles with a reference count each; mine is what *)
(* backend_open's local pointers refer to, owned what the backend struct   *)
(* refers to.  One step is the code between two blocking calls.            *)
(***************************************************************************)
EXTENDS Integers

CONSTANT MaxOpens  \* bound: sessions opened, one after the other

ASSUME MaxOpensAssumption == MaxOpens \in Nat \ {0}

VARIABLES
  pc,          \* the next step of the handler that runs, "idle" when none does
  caller,      \* who runs it: "console" or "cutter"
  opens,       \* sessions opened so far, the current one included
  action,      \* uri->action_type
  transport,   \* uri->transport_type: "local" or another ("remote")
  object,      \* an RzFridaSession is allocated
  slot,        \* ctx->session points to it
  state,       \* session->state
  hasBackend,  \* session->backend_state is set
  mine,        \* handles in backend_open's locals
  owned,       \* handles in the backend struct
  refs,        \* refs[h]: references held to handle h
  spawned,     \* the target was spawned (local, then backend->spawned)
  resumed,     \* the target was resumed (local, then backend->resumed)
  detached,    \* frida_session_is_detached
  cancelled,   \* session->cancel_requested
  hook,        \* session->cancel_hook is set
  hookDue,     \* request_cancel set the flag and has not read the hook yet
  cancellable, \* the GCancellable is cancelled
  proc,        \* proc[n]: the target of the n-th session
  \* history
  reported,    \* reported[n]: a reply said that target n runs
  told,        \* told[n]: frida_device_spawn_sync returned the pid of target n
  pressed      \* Ctrl-C was pressed and the cancellable not reset since

handleVars == <<mine, owned, refs>>
cancelVars == <<cancelled, hook, hookDue, cancellable, pressed>>
targetVars == <<spawned, resumed, proc, reported, told>>
objectVars == <<object, slot, hasBackend>>
openVars   == <<opens, action, transport>>
vars == <<pc, caller, openVars, objectVars, state, handleVars, targetVars,
          detached, cancelVars>>

Handles == {"manager", "device", "session", "cancellable"}
Opens == 1 .. MaxOpens
Alive == {"suspended", "running"}

\* The steps of backend_open at which a blocking call is made with the
\* cancellable, before the session is stored.
ConnectSteps == {"device", "target", "attach", "launch"}
OpenSteps ==
  ConnectSteps \cup {"create", "check", "store", "arm", "arming", "arm_resume", "armed"}

\* The handlers during which the console pushed cancel_on_break.
Breakable == caller = "console" /\ pc \in OpenSteps \cup {"cleanup", "rn", "rn_resume"}

-----------------------------------------------------------------------------
Goto(step) == pc' = step

Acquire(hs) ==
  /\ refs' = [h \in Handles |-> IF h \in hs THEN refs[h] + 1 ELSE refs[h]]
  /\ mine' = mine \cup hs
  /\ UNCHANGED owned

Released(hs) == [h \in Handles |-> IF h \in hs THEN refs[h] - 1 ELSE refs[h]]

\* frida_device_kill_sync on the current target.
Kill == proc' = [proc EXCEPT ![opens] = IF @ \in Alive THEN "killed" ELSE @]

-----------------------------------------------------------------------------
(* Fro and openSession: backend_open.                                      *)

\* Reject when a session is open, else allocate one and store the URI.
Open(who, a, t) ==
  /\ pc = "idle"
  /\ ~slot
  /\ opens < MaxOpens
  /\ opens' = opens + 1
  /\ caller' = who /\ action' = a /\ transport' = t
  /\ object' = TRUE
  /\ state' = "resolved"
  /\ spawned' = FALSE /\ resumed' = FALSE /\ detached' = FALSE
  /\ cancelled' = FALSE /\ cancellable' = FALSE /\ pressed' = FALSE
  /\ Goto("create")
  /\ UNCHANGED <<slot, hasBackend, handleVars, proc, reported, told, hook, hookDue>>

\* The cancellable is created and registered as the cancel hook ...
CreateCancellable ==
  /\ pc = "create"
  /\ Acquire({"cancellable"})
  /\ hook' = TRUE
  /\ Goto("check")
  /\ UNCHANGED <<caller, openVars, objectVars, state, targetVars, detached,
                 cancelled, hookDue, cancellable, pressed>>

\* Mutant of CheckCancelled: a Ctrl-C that came before the hook is forgotten.
CheckCancelledForgotten ==
  /\ pc = "check"
  /\ Acquire({"manager"})
  /\ Goto("device")
  /\ UNCHANGED <<caller, openVars, objectVars, state, targetVars, detached,
                 cancelVars>>

\* ... then a Ctrl-C that came before the hook is honoured, and the device
\* manager is created.
CheckCancelled ==
  /\ pc = "check"
  /\ cancellable' = (cancellable \/ cancelled)
  /\ Acquire({"manager"})
  /\ Goto("device")
  /\ UNCHANGED <<caller, openVars, objectVars, state, targetVars, detached,
                 cancelled, hook, hookDue, pressed>>

ResolveDevice ==
  /\ pc = "device"
  /\ Acquire({"device"})
  /\ Goto("target")
  /\ UNCHANGED <<caller, openVars, objectVars, state, targetVars, detached,
                 cancelVars>>

\* Attach resolves the pid of a running process; spawn and launch start one,
\* suspended, unless the device has done so already (SpawnTakesEffect).
ResolveTarget ==
  /\ pc = "target"
  /\ IF action = "attach"
     THEN proc' = [proc EXCEPT ![opens] = "running"] /\ UNCHANGED <<spawned, told>>
     ELSE /\ proc' = [proc EXCEPT ![opens] = IF @ = "none" THEN "suspended" ELSE @]
          /\ spawned' = TRUE
          /\ told' = [told EXCEPT ![opens] = TRUE]
  /\ Goto("attach")
  /\ UNCHANGED <<caller, openVars, objectVars, state, handleVars, resumed,
                 reported, detached, cancelVars>>

Attach ==
  /\ pc = "attach"
  /\ proc[opens] \in Alive
  /\ Acquire({"session"})
  /\ detached' = FALSE
  /\ Goto(IF action = "launch" THEN "launch" ELSE "store")
  /\ UNCHANGED <<caller, openVars, objectVars, state, targetVars, cancelVars>>

\* frida_device_resume_sync succeeds.
Resume ==
  /\ proc[opens] \in Alive
  /\ proc' = [proc EXCEPT ![opens] = "running"]
  /\ resumed' = TRUE
  /\ UNCHANGED <<spawned, told>>

Launch ==
  /\ pc = "launch"
  /\ Resume
  /\ Goto("store")
  /\ UNCHANGED <<caller, openVars, objectVars, state, handleVars, reported,
                 detached, cancelVars>>

\* Mutant of Store: the locals still refer to what the session now owns.
StoreKeepsLocals ==
  /\ pc = "store"
  /\ owned' = mine
  /\ hasBackend' = TRUE
  /\ state' = "attached"
  /\ Goto(IF action = "spawn" /\ transport = "remote" THEN "arm" ELSE "armed")
  /\ UNCHANGED <<mine, caller, openVars, object, slot, refs, targetVars, detached,
                 cancelVars>>

\* The backend struct takes over what the locals refer to.
Store ==
  /\ pc = "store"
  /\ owned' = mine /\ mine' = {}
  /\ hasBackend' = TRUE
  /\ state' = "attached"
  /\ Goto(IF action = "spawn" /\ transport = "remote" THEN "arm" ELSE "armed")
  /\ UNCHANGED <<caller, openVars, object, slot, refs, targetVars, detached,
                 cancelVars>>

\* backend_spawn_arm_and_resume: ensure_script resets the cancel (AgentChannel
\* takes it apart), then the script is loaded and the rnSet request made.
ArmBegin ==
  /\ pc = "arm"
  /\ cancelled' = FALSE /\ cancellable' = FALSE /\ pressed' = FALSE
  /\ Goto("arming")
  /\ UNCHANGED <<caller, openVars, objectVars, state, handleVars, targetVars,
                 detached, hook, hookDue>>

\* The agent armed the hook, or has no Java: backend_resume_target resets the
\* cancellable ...
Armed ==
  /\ pc = "arming"
  /\ ~detached
  /\ cancellable' = FALSE /\ pressed' = FALSE
  /\ Goto("arm_resume")
  /\ UNCHANGED <<caller, openVars, objectVars, state, handleVars, targetVars,
                 detached, cancelled, hook, hookDue>>

\* ... and resumes the target.
ArmAndResume ==
  /\ pc = "arm_resume"
  /\ Resume
  /\ Goto("armed")
  /\ UNCHANGED <<caller, openVars, objectVars, state, handleVars, reported,
                 detached, cancelVars>>

\* The envelope is written and the session kept.
OpenDone ==
  /\ pc = "armed"
  /\ ~hookDue
  /\ slot' = TRUE
  /\ reported' = [reported EXCEPT ![opens] = resumed]
  /\ Goto("idle")
  /\ UNCHANGED <<caller, openVars, object, hasBackend, state, handleVars,
                 spawned, resumed, proc, told, detached, cancelVars>>

\* Any call before the envelope may fail; arming first resets the cancel.
OpenFails ==
  /\ pc \in OpenSteps \ {"arm", "armed"}
  /\ Goto("cleanup")
  /\ UNCHANGED <<caller, openVars, objectVars, state, handleVars, targetVars,
                 detached, cancelVars>>

\* Mutant of Cleanup: a target spawned by a failed open is left alone.
CleanupSparesTarget ==
  /\ pc = "cleanup"
  /\ refs' = Released(mine)
  /\ mine' = {}
  /\ hook' = (hook /\ "cancellable" \notin mine)
  /\ Goto("free")
  /\ UNCHANGED <<proc, caller, openVars, objectVars, state, owned, spawned, resumed,
                 reported, told, detached, cancelled, hookDue, cancellable, pressed>>

\* Mutant of Cleanup: the locals keep what was released.
CleanupKeepsLocals ==
  /\ pc = "cleanup"
  /\ refs' = Released(mine)
  /\ IF spawned /\ "device" \in mine THEN Kill ELSE UNCHANGED proc
  /\ hook' = (hook /\ "cancellable" \notin mine)
  /\ Goto("free")
  /\ UNCHANGED <<mine, caller, openVars, objectVars, state, owned, spawned, resumed,
                 reported, told, detached, cancelled, hookDue, cancellable, pressed>>

\* The cleanup label of a failed open: what the locals still refer to is
\* detached and released, and a spawned target is killed.
Cleanup ==
  /\ pc = "cleanup"
  /\ refs' = Released(mine)
  /\ mine' = {}
  /\ IF spawned /\ "device" \in mine THEN Kill ELSE UNCHANGED proc
  /\ hook' = (hook /\ "cancellable" \notin mine)
  /\ Goto("free")
  /\ UNCHANGED <<caller, openVars, objectVars, state, owned, spawned, resumed,
                 reported, told, detached, cancelled, hookDue, cancellable, pressed>>

-----------------------------------------------------------------------------
(* rz_frida_session_free.                                                  *)

\* Mutant of Dispose: every spawned target is killed.
DisposeKillsResumed ==
  /\ object' = FALSE
  /\ slot' = FALSE
  /\ hasBackend' = FALSE
  /\ IF hasBackend
     THEN /\ hook' = FALSE
          /\ refs' = Released(owned)
          /\ owned' = {}
          /\ IF spawned THEN Kill ELSE UNCHANGED proc
     ELSE UNCHANGED <<hook, refs, owned, proc>>
  /\ UNCHANGED <<openVars, mine, spawned, resumed, reported, told, detached, cancelled,
                 hookDue, cancellable, pressed>>

\* backend_session_dispose, when the session got its backend, and the free.  A
\* spawned target that was never resumed is killed, so it is not left
\* suspended.
Dispose ==
  /\ object' = FALSE
  /\ slot' = FALSE
  /\ hasBackend' = FALSE
  /\ IF hasBackend
     THEN /\ hook' = FALSE
          /\ refs' = Released(owned)
          /\ owned' = {}
          /\ IF spawned /\ ~resumed THEN Kill ELSE UNCHANGED proc
     ELSE UNCHANGED <<hook, refs, owned, proc>>
  /\ UNCHANGED <<openVars, mine, spawned, resumed, reported, told, detached, cancelled,
                 hookDue, cancellable, pressed>>

\* The caller of a failed open frees the session.
FreeFailed ==
  /\ pc = "free"
  /\ ~hookDue
  /\ Dispose
  /\ Goto("idle")
  /\ UNCHANGED <<caller, state>>

-----------------------------------------------------------------------------
(* Frr and resumeSession: rz_frida_backend_resume.                         *)

\* A session that was spawned, is attached and has not been resumed; in the
\* other cases the handler only reports.
ResumeBegin(who) ==
  /\ pc = "idle"
  /\ slot
  /\ spawned /\ ~detached /\ ~resumed
  /\ caller' = who
  /\ cancellable' = FALSE /\ pressed' = FALSE
  /\ Goto("resume")
  /\ UNCHANGED <<openVars, objectVars, state, handleVars, targetVars, detached,
                 cancelled, hook, hookDue>>

\* The resume inside rz_frida_backend_rn_set is the same call.
ResumeDone ==
  /\ pc \in {"resume", "rn_resume"}
  /\ ~hookDue
  /\ Resume
  /\ reported' = [reported EXCEPT ![opens] = TRUE]
  /\ Goto("idle")
  /\ UNCHANGED <<caller, openVars, objectVars, state, handleVars, detached,
                 cancelVars>>

ResumeFails ==
  /\ pc \in {"resume", "rn_resume"}
  /\ ~hookDue
  /\ Goto("idle")
  /\ UNCHANGED <<caller, openVars, objectVars, state, handleVars, targetVars,
                 detached, cancelVars>>

-----------------------------------------------------------------------------
(* FrNs and rnSet: rz_frida_backend_rn_set.                                *)

\* ensure_script resets the cancel; then the rnSet request is made.
RnBegin(who) ==
  /\ pc = "idle"
  /\ slot
  /\ caller' = who
  /\ cancelled' = FALSE /\ cancellable' = FALSE /\ pressed' = FALSE
  /\ Goto("rn")
  /\ UNCHANGED <<openVars, objectVars, state, handleVars, targetVars, detached,
                 hook, hookDue>>

\* The hook was armed and the spawned target still waits: it is resumed.
RnArmed ==
  /\ pc = "rn"
  /\ ~detached
  /\ spawned /\ ~resumed
  /\ cancellable' = FALSE /\ pressed' = FALSE
  /\ Goto("rn_resume")
  /\ UNCHANGED <<caller, openVars, objectVars, state, handleVars, targetVars,
                 detached, cancelled, hook, hookDue>>

\* The request failed, or there is nothing to resume.
RnReturn ==
  /\ pc = "rn"
  /\ ~hookDue
  /\ Goto("idle")
  /\ UNCHANGED <<caller, openVars, objectVars, state, handleVars, targetVars,
                 detached, cancelVars>>

-----------------------------------------------------------------------------
(* Frc and closeSession: rz_frida_backend_close.                           *)

CloseBegin(who) ==
  /\ pc = "idle"
  /\ slot
  /\ caller' = who
  /\ state' = "detaching"
  /\ cancellable' = FALSE /\ pressed' = FALSE
  /\ Goto("detach")
  /\ UNCHANGED <<openVars, objectVars, handleVars, targetVars, detached,
                 cancelled, hook, hookDue>>

\* Detached: the caller frees the session and clears its slot.
CloseDone ==
  /\ pc = "detach"
  /\ state' = "closed"
  /\ Dispose
  /\ Goto("idle")
  /\ UNCHANGED caller

\* Mutant of CloseFails: the console drops a session it could not close.
CloseFailsDropped ==
  /\ pc = "detach"
  /\ ~detached
  /\ state' = "error"
  /\ IF caller = "console"
     THEN slot' = FALSE /\ UNCHANGED <<object, hasBackend, openVars, handleVars, targetVars,
                                       detached, cancelVars>>
     ELSE Dispose
  /\ Goto("idle")
  /\ UNCHANGED caller

\* frida_session_detach_sync fails: the console keeps the session, the bridge
\* frees it all the same.
CloseFails ==
  /\ pc = "detach"
  /\ ~detached
  /\ state' = "error"
  /\ IF caller = "console"
     THEN UNCHANGED <<openVars, objectVars, handleVars, targetVars, detached,
                      cancelVars>>
     ELSE Dispose
  /\ Goto("idle")
  /\ UNCHANGED caller

\* The plugin is unloaded: frida_context_free.
Unload ==
  /\ pc = "idle"
  /\ slot
  /\ Dispose
  /\ UNCHANGED <<pc, caller, state>>

-----------------------------------------------------------------------------
(* The environment.                                                        *)

TargetExits ==
  /\ opens > 0
  /\ proc[opens] \in Alive
  /\ proc' = [proc EXCEPT ![opens] = "exited"]
  /\ detached' = TRUE
  /\ UNCHANGED <<pc, caller, openVars, objectVars, state, handleVars, spawned,
                 resumed, reported, told, cancelVars>>

\* The device has spawned the target and the call has not returned: it may still
\* report an error, and then no pid.
SpawnTakesEffect ==
  /\ pc = "target"
  /\ action # "attach"
  /\ proc[opens] = "none"
  /\ proc' = [proc EXCEPT ![opens] = "suspended"]
  /\ UNCHANGED <<pc, caller, openVars, objectVars, state, handleVars, spawned,
                 resumed, reported, told, detached, cancelVars>>

\* The device has resumed the target and the call has not returned: it may still
\* report an error.
ResumeTakesEffect ==
  /\ pc \in {"launch", "arm_resume", "resume", "rn_resume"}
  /\ proc[opens] = "suspended"
  /\ proc' = [proc EXCEPT ![opens] = "running"]
  /\ UNCHANGED <<pc, caller, openVars, objectVars, state, handleVars, spawned,
                 resumed, reported, told, detached, cancelVars>>

\* The Frida session is lost while the target stays as it is.
SessionDrops ==
  /\ refs["session"] > 0
  /\ ~detached
  /\ detached' = TRUE
  /\ UNCHANGED <<pc, caller, openVars, objectVars, state, handleVars,
                 targetVars, cancelVars>>

\* Ctrl-C: rz_frida_session_request_cancel sets the flag ...
CancelFlag ==
  /\ Breakable
  /\ ~hookDue
  /\ cancelled' = TRUE
  /\ pressed' = TRUE
  /\ hookDue' = TRUE
  /\ UNCHANGED <<pc, caller, openVars, objectVars, state, handleVars, targetVars,
                 detached, hook, cancellable>>

\* ... and calls the hook if there is one.  rz_interrupt_break_pop waits for it:
\* no handler returns while hookDue.
CancelHook ==
  /\ hookDue
  /\ hookDue' = FALSE
  /\ cancellable' = (cancellable \/ hook)
  /\ UNCHANGED <<pc, caller, openVars, objectVars, state, handleVars, targetVars,
                 detached, cancelled, hook, pressed>>

-----------------------------------------------------------------------------
Init ==
  /\ pc = "idle"
  /\ caller = "console"
  /\ opens = 0
  /\ action = "attach"
  /\ transport = "local"
  /\ object = FALSE
  /\ slot = FALSE
  /\ state = "new"
  /\ hasBackend = FALSE
  /\ mine = {}
  /\ owned = {}
  /\ refs = [h \in Handles |-> 0]
  /\ spawned = FALSE
  /\ resumed = FALSE
  /\ detached = FALSE
  /\ cancelled = FALSE
  /\ hook = FALSE
  /\ hookDue = FALSE
  /\ cancellable = FALSE
  /\ proc = [n \in Opens |-> "none"]
  /\ reported = [n \in Opens |-> FALSE]
  /\ told = [n \in Opens |-> FALSE]
  /\ pressed = FALSE

OpenNext ==
  \/ CreateCancellable
  \/ CheckCancelled
  \/ ResolveDevice
  \/ ResolveTarget
  \/ Attach
  \/ Launch
  \/ Store
  \/ ArmBegin
  \/ Armed
  \/ ArmAndResume
  \/ OpenDone
  \/ OpenFails
  \/ Cleanup
  \/ FreeFailed

HandlerNext ==
  \/ OpenNext
  \/ ResumeDone
  \/ ResumeFails
  \/ RnArmed
  \/ RnReturn
  \/ CloseDone
  \/ CloseFails

Begin ==
  \E who \in {"console", "cutter"} :
    \/ \E a \in {"attach", "spawn", "launch"}, t \in {"local", "remote"} : Open(who, a, t)
    \/ ResumeBegin(who)
    \/ RnBegin(who)
    \/ CloseBegin(who)

Environment ==
  \/ TargetExits
  \/ SpawnTakesEffect
  \/ ResumeTakesEffect
  \/ SessionDrops
  \/ CancelFlag
  \/ CancelHook

\* No session is open and none will be.
Rest == pc = "idle" /\ ~object /\ opens = MaxOpens /\ UNCHANGED vars

Next == Begin \/ HandlerNext \/ Unload \/ Environment \/ Rest

Spec == Init /\ [][Next]_vars

-----------------------------------------------------------------------------
(* Correctness.                                                            *)

Steps == OpenSteps \cup {"idle", "cleanup", "free", "resume", "rn", "rn_resume", "detach"}

ControlTypes ==
  /\ pc \in Steps
  /\ caller \in {"console", "cutter"}
  /\ opens \in 0 .. MaxOpens
  /\ action \in {"attach", "spawn", "launch"}
  /\ transport \in {"local", "remote"}
  /\ state \in {"new", "resolved", "attached", "detaching", "closed", "error"}

FlagTypes ==
  /\ object \in BOOLEAN /\ slot \in BOOLEAN /\ hasBackend \in BOOLEAN
  /\ spawned \in BOOLEAN /\ resumed \in BOOLEAN /\ detached \in BOOLEAN
  /\ cancelled \in BOOLEAN /\ cancellable \in BOOLEAN
  /\ hook \in BOOLEAN /\ hookDue \in BOOLEAN /\ pressed \in BOOLEAN

HandleTypes ==
  /\ mine \in SUBSET Handles /\ owned \in SUBSET Handles
  /\ refs \in [Handles -> Nat]

TargetTypes ==
  /\ proc \in [Opens -> {"none", "suspended", "running", "exited", "killed"}]
  /\ reported \in [Opens -> BOOLEAN]
  /\ told \in [Opens -> BOOLEAN]

\* Every variable has its type.
TypeOK == ControlTypes /\ FlagTypes /\ HandleTypes /\ TargetTypes

\* Each reference that is held has exactly one pointer to release it, whichever
\* call of backend_open failed: a local of backend_open or a field of the
\* backend, never both.  None outlives its session, and a stored session holds
\* all four objects (backend_open's cleanup, backend_session_dispose).
HandlesBalanced ==
  /\ mine \cap owned = {}
  /\ \A h \in Handles : refs[h] = IF h \in mine \cup owned THEN 1 ELSE 0
  /\ ~object => mine \cup owned = {}
  /\ slot => owned = Handles

\* Once its session is gone, no target whose pid the spawn returned stays
\* suspended: the promise of rz_frida_backend_close, also when a later call of the
\* open, the resume or the close failed, before or after it took effect.  A spawn
\* that took effect and returned an error gives no pid and leaves `spawned` FALSE,
\* so that nothing kills its target (backend_open): the one way out.
NoOrphan ==
  \A n \in 1 .. opens : proc[n] = "suspended" /\ told[n] => n = opens /\ object

\* A session that could not be closed can be closed again: no session object
\* and no target is left without a slot while no handler runs.
NoLostSession == pc = "idle" => (object <=> slot) /\ (slot => hasBackend)

\* The cancel hook never refers to a cancellable that was released.
HookLive == hook => refs["cancellable"] = 1

\* A Ctrl-C is not lost between the flag and the hook: a blocking call of an
\* open or of FrNs is made with a cancelled cancellable if Ctrl-C was pressed since
\* the code last reset it, also if that was before the hook was there.  The resets
\* themselves erase an earlier press: an open that arms the hook resets twice, in
\* backend_ensure_script and in backend_resume_target.
CancelNotLost ==
  pc \in ConnectSteps \cup {"arming", "arm_resume", "rn", "rn_resume"} /\ pressed /\ ~hookDue
    => cancellable

KillStep ==
  \A n \in Opens : proc'[n] = "killed" /\ proc[n] # "killed"
    => spawned /\ n = opens /\ ~reported[n]

\* Only a target that rz-frida spawned is killed, and never one that a reply
\* has reported running (backend_session_dispose, backend_open's cleanup).
KillsOnlyItsOwn == [][KillStep]_vars
=============================================================================
