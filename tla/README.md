# A TLA+ model of rz-frida

rz-frida drives a target process through Frida from rizin's console and from a
Cutter dock. This directory models the parts of it whose behaviour depends on
order: threads, locks, messages, timeouts, cancellation and failures between
blocking calls. `PROJECT.json` maps every definition to the lines it stands for.

## The system

| component | state it keeps | operations | what makes it correct |
|---|---|---|---|
| request channel (`rz_frida_backend.c` 818-1105, `rz_frida_message.c`) | agent script, one reply slot (`await_id`, `reply`, `reply_ready`), pending ids, message buffer, `req_lock`, cancel state | ensure script, request, drain, `on_message`, `messages` | one owner of the slot; a reply reaches the request it answers; cancel and script death end a wait; the buffer keeps the newest messages and counts the rest |
| session (`rz_frida_session.c`, `rz_frida_backend.c` 404-816 and 2304-2473) | state, Frida handles, spawned/resumed, cancel hook | open, resume, arm RegisterNatives, close, dispose | no handle leaks or is released twice; no target stays suspended; none is killed wrongly |
| console commands (`rz_frida_plugin.c`) | the session slot of the core context | `Fr*` commands under the core lock | as above |
| Cutter bridge (`FridaApiBridge.cpp`, `FridaTaskRunner.cpp`, `FridaDockWidget.cpp`) | task queue, `running`, `quit`, `m_mutex`, the core lock | run, waitForAll, workerLoop, open/close/hasSession, connect/disconnect/destroy | one task at a time, each answered, in order; the bridge outlives its tasks; one session |
| agent debugger (`rzfrida_agent.js` 411-681) | breakpoints, stopped threads, watchpoint slots, the threads' debug registers | bpSet, bpRemove, bpParked, continue, regRead/regWrite, wpSet, wpRemove, exception handler | a stop is never lost nor released twice; debug registers agree with the slots; a trap is reported |
| agent data (`rzfrida_agent.js` 277-386, 683-726, 1098-1117) | `rangeCache`, `moduleCache`, `seenLoadedClasses`, the monitor flag | memRead, memWrite, ranges, modules, eval, classLoadMonitor, newlyLoadedClasses | an address is refused only if it was unmapped; a listing shows what an eval did; a class is new once |
| RegisterNatives capture (`rzfrida_agent.js` 728-1086) | `rnHookEnabled`, `rnDepth`, `rnPending`, `rnBuffer`, global references | rnSet, rnList, the hooks run by the target's threads | each capture sent once, in order; references balance; the cap holds; no thread goes unseen; off clears |
| dock widget (`FridaDockWidget.cpp`) | `m_hasSession`, which buttons are enabled, the tables, two message logs | the buttons' handlers and callbacks | the tables show what the agent has once the dock is quiet; a notification is shown once |
| analysis import (`rz_frida_backend.c` 2475-3242) | none of its own; classes, methods and flags of rizin's database | FrRNj, FrImj, Frfj | nothing captured is lost unnoticed or imported twice; nothing newer is overwritten |
| class loaders and classes (`rzfrida_agent.js` 36-230) | `loaderIds`, `idToLoader` | loaderList, classList, classDescribe | an id keeps naming its loader (not modelled) |
| session URI (`rz_frida_uri.c`) | none | parse, from_parts, target_pid | text and fields obey one rule; a selector is a pid only if it is one |
| envelope (`rz_frida_protocol.c`) | none | JSON envelopes | not modelled |

They meet as follows. A console command runs under rizin's core lock. A dock
action becomes a task of the runner's single worker, or runs on Qt's main
thread; either goes through the bridge, which takes `m_mutex` and, for some
calls, the core lock. All of them call a backend handler on the one session in
the core context's slot. A handler ensures the agent script and makes one
request, sometimes two; the reply comes on Frida's own thread. The agent handles
a request at a time under the JavaScript lock, which the threads of the target
that hit a breakpoint or a watchpoint take too.

## Modules

* `Rpc` - what a handler may rely on when it makes a request: one outstanding
  request, run at most once, a success is the answer to that very request, a
  failure says nothing about the agent.
* `AgentChannel` - the request channel. One action per critical section of
  `backend->lock` and per blocking point. `req_lock` is a variable; the outer
  locks (`m_mutex`, core lock) are the constant `Holds`, so that the same module
  answers what holds with and without a common lock. Drawing an id is two steps,
  because `next_id++` is not protected. It implements `Rpc` (`ImplementsRpc`).
* `AgentChannelProofs` - its proofs.
* `Session` - the session's life. One step is the code between two blocking
  frida-core calls; every call may fail, the target may exit and the Frida
  session may drop between any two. A Frida object is a handle with a reference
  count; `mine` are the locals of `rz_frida_backend_open`, `owned` the fields of
  the backend struct. Both callers are modelled, because they close differently.
  An open that arms RegisterNatives takes three steps, because it resets the
  cancel twice: `ArmBegin` (`backend_ensure_script`), `Armed` (the agent has
  answered, `backend_resume_target` resets) and `ArmAndResume`. A spawn and a
  resume may take effect and still return an error (`SpawnTakesEffect`,
  `ResumeTakesEffect`).
* `SessionProofs` - its proofs.
* `Tasks` - what `FridaTaskRunner` promises: tasks are run one at a time and
  answered in the order in which they were handed over, none is run or answered
  after the runner is closed, and it is closed only when no task is left.
* `Bridge` - the dock's main thread, the worker and the console as three threads
  on `m_mutex` and the core lock. A call is a kind: the locks it takes, in order
  (`Order`), and what it does to the slot. A backend handler is one step here;
  that it always ends is `HandlersReturn` of `AgentChannel`. It implements `Tasks`
  (`ImplementsTasks`): the waiting tasks are the running one and the queue, the
  results those posted to the main thread.
* `BridgeProofs` - its proofs.
* `Debugger` - breakpoints, parked threads, watchpoints. A request handler, the
  body of `onEnter` up to `op.wait()`, what follows it, and the exception handler
  are one step each, because JavaScript runs under one lock. The host side is
  `Rpc`: one request waited for, which the host may give up on while the agent
  still runs it later.
* `DebuggerProofs` - its proofs.
* `Natives` - RegisterNatives capture. The agent gives up the JavaScript lock
  inside a NativeFunction (`NewGlobalRef`, `DeleteGlobalRef`, the class name), so
  `rnOnLeave`, `rnFlushPending` and `rnClearPending` are several steps, and a
  thread of the target may run between them. A thread may pass two hooked entries
  in one call: `rnSet` hooks what the JNI table gives, or libart's exports if it
  gives nothing, and either may give several; that one of them calls another is
  more than the code promises or rules out, and `rnDepth` is there for it. It
  implements `Captures`
  (`ImplementsCaptures`): what is kept is the buffer, the entry being delivered
  and what waits in `rnPending`, or nothing once off has begun to clear.
* `NativesProofs` - its proofs.
* `Captures` - what the agent promises of captures: each call captured at most
  once, kept in order and up to a number, all listed by the next list, dropped by
  off only.
* `Listings` - the agent's two caches, the memory requests that consult the
  first, the evals that drop both, and the class-load monitor, against a target
  that maps, loads and unloads whenever it likes. One step is the code between
  two looks at the target. What the two caches hold is a set of items; the two
  listings differ only in which cache they use.
* `ListingsProofs` - its proofs.
* `Dock` - the dock's widgets over `Tasks`: which buttons are enabled, what the
  break- and watchpoint tables show, what the two logs were given, against an
  agent that sends messages and whose script may die and be loaded anew without
  its points (`ScriptDies`), and a console that sets and removes points in the
  same session (`ConsoleChanges`), drains the same buffer (`ConsoleDrains`) and
  may close or open the session. Every tab's buttons but the Session tab's follow one pattern (no
  session: nothing; else disable, hand over tasks, enable in the callback), so
  there is one `Press`, one `Answered` and one `Refused`; `JobsOf` and `Clicked`
  say where the buttons differ. It takes the runner from `Tasks`, not from
  `Bridge`, which is what `ImplementsTasks` is for. `shown` is the history of
  what was drained, with `logged` telling whether a log took it.
* `DockProofs` - its proofs.
* `Uri` - the URI functions as operators on sequences. A word that the code only
  compares as a whole (`spawn`, `usb`) is one character. The rules of
  `rz_frida_uri_parse` and of `rz_frida_uri_from_parts` are translated each from
  its own function. `UT32_MAX` is a constant, and a ut64 keeps a number modulo
  the square of `UT32_MAX + 1`; so the wrap that the range test must come before
  is in the model. Numbers are read by recursive functions, for the proofs.
* `Console` - the commands that import into rizin's database. One request is
  waited for; the host may give up at any moment while the agent still runs the
  request and drops the answer, as `Rpc` promises. An import is one step, because
  it holds the core lock. The agent's capture queue is that of `Captures`:
  registrations in order, emptied by a list and by off.
* `ConsoleProofs` - its proofs.
* `MCAgentChannel`, `MCConsole` - constants for TLC: the two choices of `Holds`,
  and what the user may enter for a session.

A definition whose comment starts with "Mutant of X" is a plausible bug in `X`,
which no action uses: with `X` replaced by it, TLC finds the property that the
comment of the mutants list in `PROJECT.json` pairs it with violated.

## Runs

Passing:

* `channel_serial` - two clients sharing a lock, two requests, one Ctrl-C, one
  script death or detach, one agent event or a message of the user's own script
  with the id of a request, one user drain, a buffer of two. Each fault meets
  each step of a request, and a late reply of request 1 meets every step of
  request 2. Types, cancels justified, buffer accounting, and the refinement of
  `Rpc`.
* `channel_threads` - the same with no lock in common and no events, under
  fairness: slot ownership rests on `req_lock` alone; a success is the reply to
  the very request unless two handlers drew their ids at once
  (`ForeignReplyNeedsRace`); a handler finds no script to post to only if the
  other one dropped it meanwhile (`ScriptPresentAtPost`, with the history `torn`);
  every handler returns; a cancelled or scriptless wait ends without its deadline
  (fairness of `DrainTimeout` is not needed for `WaitIsInterruptible`: the two
  actions it ends by are part of `HandlerStep`).
* `session` - two sessions one after the other, every action, both transports,
  both callers, each call failing anywhere, target exit, session drop, Ctrl-C in
  two halves (flag, then hook). A spawn or a resume that took effect may return an
  error. Two sessions show that nothing of the first survives into the second.
  `NoOrphan` is about targets whose pid the spawn returned (`told`), and
  `CancelNotLost` about a Ctrl-C that the code has not reset (`pressed`), in every
  blocking call of an open, armed or not, and of `FrNs`.
* `bridge` - two tasks of every kind, a refresh or disconnect, a console command,
  destruction of the dock at any moment. The dock starts in its constructor's
  `updateSessionState` and hands over anything but an open only while its
  `m_hasSession` is set. One session at most, calls one at a time, the refinement
  of `Tasks`, no set of threads that wait for one another (`StuckOnlyInverted`)
  and, under fairness, every task answered (`AnsweredUnlessInverted`), both unless
  the worker and the main thread hold each other's lock: the inverted order of
  two calls is the only cycle. `WaitsFor` counts the wake-ups of `workCond`,
  `idleCond` and `thread->wait()` besides the locks, so a lost one is a cycle too.
  Deadlock is not checked because the code can really stop at the inversion (see
  `bridge_deadlock`), and because a dock that was destroyed does nothing more.
* `debugger` - two threads, one started later, two addresses with watchpoints
  that overlap, two slots, four commands, three hits. Four commands allow set,
  remove, set elsewhere and continue while a thread stays parked.
* `natives` - two threads, both entries hooked, room for one entry, four calls,
  four requests: enough to enable, disable in the middle of a call, enable anew
  with the old call still under way, and list while both threads return. A
  capacity of one makes both threads pass the cap together.
* `listings` - two items in each of two lists, two classes, four requests, two
  changes of the target. Two changes are enough for an item to go and come back
  between two steps of a request; four requests for an eval between listings of
  either kind, and for start, stop, start and query of the monitor.

* `console` - two classes, a queue of two, two captures, two bases of the module,
  three commands and any number of requests a prefix import makes of two names.
  What is entered first ranges over every text of one to four fields out of eight
  words and their combinations with slashes, every choice of fields, and every
  selector of up to three digits of `0 1 5 6 9 x` with a `UT32_MAX` of 15: 15,
  16, 159 and 999 lie on the two sides of each boundary. Two captures allow
  two of one class in one import or in two, and one lost in between. The classes
  are alike, so the run uses symmetry (it has no liveness property).
* `dock` - the buttons that set, remove and list breakpoints and drain messages,
  one address, three presses, two messages into a buffer of one, two sessions,
  calls that fail with or without effect; the console changes points of both
  tables, drains, opens and closes, and the script dies, as often as they like.
  The dock starts without a session and learns of one in `updateSessionState`.
  Three presses are a list under way, a change
  and a further list or drain. The other buttons obey the same actions and only
  make the instance larger. The dock may be quiet for ever, so deadlock is not
  checked.

Each of these shows something a document, a comment or a code line promises and
the code does not keep:

* `bridge_deadlock` - `classes()` and `wpSet()` invert the lock order.
* `console_close` - `Frc` frees the session while the worker uses it.
* `unhandled_trap` - a trap whose watchpoint was disarmed meanwhile is passed on
  to the target, which ends it.

More places where the code and its documents part company were met while
modelling and have no run of their own.

* The request id is drawn before `req_lock` is taken, and `next_id++` is not
  protected: the Cutter worker and the console may draw one id and one of them
  get the other's reply, against the comment at `rz_frida_backend.c:926`.
  `ForeignReplyNeedsRace` says that nothing else leads there.
* The worker, under `m_mutex`, and the console, under the core lock, hold no lock
  in common, and `backend_ensure_script` gives `req_lock` back before
  `backend_request` takes it. If the script is destroyed in between, the
  `ensure_script` of the one drops it (`rz_frida_backend.c` 1042-1045), and until
  that has loaded another, the other posts to a null script (line 970).
  README.md:597 says that the backend assumes one request in flight per session.
  `ScriptPresentAtPost` says that only such a handler takes a script away.
* A Ctrl-C pressed before `backend_ensure_script` resets the cancel state (lines
  1034-1037, `ResetFlag`) is erased, although README.md:318 says each request can
  be interrupted. In an open that arms RegisterNatives, one pressed before that
  reset or before the one in `backend_resume_target` (line 707) is erased too,
  although README.md:113 says that open can be cancelled. `CancelNotLost` says
  that no other press is.
* A spawn that took effect and returned an error leaves `spawned` unset
  (`rz_frida_backend.c` 596-602), so that the cleanup (line 686) kills nothing and
  the target stays suspended, although README.md:247 says that closing kills a
  target that was spawned but never resumed. The pid is not known then either;
  `NoOrphan` says that every other target is settled.
* `Frgj` without a thread may pick one that was already told to continue and has
  not left `stopped` (`ContinueRecent`), and fails while another thread waits,
  against README.md:393.
* An eval that throws skips `invalidateCaches` (`EvalThrows`): what it had changed
  before is missing from cached listings, against README.md:360.
* `FrXj`'s prefix filters the runtime classes only (`rz_frida_backend.c` 2740-2797
  applies none to the binary's), although README.md:465 says it filters both
  sides; a listing that failed counts as an empty one and the reply is ok.
* `truncated` is set when exactly `max` classes match (`classList`), although
  README.md:442 says that it tells whether more exist.
* `FrImj` sets the address of every method of a class to `UT64_MAX`, also of one
  that `FrRNj import` had given an address (`ImportClasses`).
* The Debug tab's Refresh drains the message buffer and throws away what is no
  notification (`ShownBy`); the Module Detail table is cleared when a listing is
  asked for and appended to when it comes, so two listings may end up in it.
* `m_hasSession` is refreshed by `updateSessionState` only. While it is unset, the
  click by which a callback refreshes a table does nothing; `QuietDockIsCurrent`
  excepts that. It excepts too what the Debug tables cannot know of: points that
  the console sets or removes (`Frb`, `FrW` and their removals) and those that
  are gone with a script that died. A `Frmj` on the console takes notifications
  from both logs.

## Fairness

`AgentChannel`: a thread inside a handler keeps running (`ThreadFairness`), and
time passes (`DeadlineFairness`), because the loop in `backend_drain_reply`
wakes every `RZ_FRIDA_DRAIN_POLL_MS`. Neither the agent nor Frida's thread is
assumed to make progress, the script load included: it either ends or fails.
`Bridge`: the three threads are scheduled, and a lock that stays free is granted.
The user is never assumed to do anything. `Session`, `Debugger`, `Natives`,
`Listings`, `Console` and `Dock` have no liveness property: their steps wait for
a user, a target or an agent that owes nothing.

## What is proved

Every theorem is proved for all values of the constants, from the named
assumptions of the module it is about and nothing else, but for
`ChannelIsRpc` and the lemmas it rests on, which say `OneLockForAll`.

`AgentChannelProofs` (from `ClientsAssumption`, `BoundsAssumption` and
`NoneAssumption`; any set of clients, any `Holds`, any capacity):

* `TypeCorrect`, `SlotHasOneOwner`. Both follow from the inductive `SlotInv`.
  `SlotOwned` alone is not inductive: one needs that `req_lock` is held exactly
  by the client at a locked step (`LockOwned`), that a reply marked ready is
  there (`ReplyThere`) and that a handler under way has a call (`CallNumbered`).
  Nothing is assumed of the outer locks: `req_lock` alone keeps the slot single.
* `BufferComplete`. `BufferAccounts` is inductive with the types; `NewestKeeps`
  says what `Newest` returns for every buffer.
* `CancelsAreOwn`, from `CancelInv`: a flag that is set when a client can see it
  was set in that client's own handler. It needs both halves of the hook, and the
  step at which a handler that has reset the one has not yet reset the other.
* `OwnReplies`, for callers with no lock in common too. `IdsInv` says that unless
  two ids were drawn at once (`raced`), ids are drawn one at a time and used once
  (`IdsDrawn`), and then that what is on the wire and in the slot belongs to the
  request of its id (`WireBelongs`, `OwnAnswers`).
* `ScriptTakenByLockless`, whatever locks the callers hold: from `TornInv`, who
  dropped a script that a handler had ensured shares no lock with it
  (`NoSharedLock`, `TornByLockless`), and a handler past `backend_ensure_script`
  finds no script only if somebody has (`LostIsTorn`). A wait that ends, a load
  that fails and a script that dies never take a script away by themselves.
* `ChannelIsRpc`, for callers of which any two hold one lock (`OneLockForAll`).
  The code justifies it for Cutter's own threads: the
  worker and the main thread hold `m_mutex` around every backend handler, and
  `CallsExcludeEachOther` of `BridgeProofs` is what follows. It does not hold
  between them and the console, which takes the core lock; `channel_threads` is
  the run for that, and the other theorems need no common lock. `OneHandler`
  says that one handler runs at a time. The refinement also needs the life of each request: nobody sends another's
  (`RunsNumbered`), the agent has one copy of what was posted (`RunsPosted`), and
  what was answered was run (`RunsAnswered`). Each step of `AgentChannel` is then
  shown to be a step of `Rpc` or none.

`BridgeProofs` (from `BridgeAssumption`; any kinds of call and bounds):

* `BridgeInvariant`, and from it `TypeCorrect`, `SlotNamesTheSession`,
  `CallsExcludeEachOther` and the refinement `RunnerIsTasks`. The invariant says
  where each thread's code may call the bridge (`CallsPlaced`), how many locks it
  has then (`LocksTaken`) and that it holds the first that many of its kind's
  order (`LocksHeld`), less the core lock where `callBackend` has given it back.
  `OneSession` needs `SlotRead`: whoever opens or closes sees the slot as it is.
  For the refinement, `waitForAll` and the destructor are shown to end with no
  task left.
* `OnlyInversionSticks`. `Awake` says what each sleeper may rely on: the worker
  sleeps only while the queue is empty and it is not told to quit, the main
  thread only while a task is left. A cycle then needs two threads in calls, each
  waiting for a lock the other holds. `HeldBefore` says that a thread waiting for
  a lock holds only locks its kind takes earlier; the console never holds one
  while it waits (`ConsoleHoldsNothing`), so the pair is the worker and the main
  thread, and their orders can only cross as `Inverted` says (`PairInverted`).

`DebuggerProofs` (from `DebuggerAssumption`; any threads, addresses and
slots):

* `DebuggerInvariant`, and from it `TypeCorrect`, `EveryStopAccounted`,
  `OneReleaseEach`, `RegisterWritesKept` and `NoWatchpointLeftBehind`. `Ids`
  strengthens `StopsAccounted`: ids are never drawn twice, not even for a thread
  parked at a breakpoint that was removed. `WritesKept` follows a register
  from the write to the thread that runs with it. What removing an entry from a
  Map kept as a sequence leaves is `RemoveAtProperties`; `LeastProperties` says
  that a set of naturals has a least element.

`NativesProofs` (from `NativesAssumption`; any threads and capacity):

* `NativesInvariant`, and from it `TypeCorrect`, `ReferencesBalanced`,
  `NobodyBlind`, `OffLeavesNothing` and the refinement `QueuesAreCaptures`.
  `FramesInv` says what a thread is in: at most the two hooked entries, of one
  call, which one of them will capture; and that its depth is set exactly if an
  entry it is in was the outermost one for the present listeners. `RefsInv`
  counts the references of each call: one while its `onLeave` or a queued capture
  has it. `OffInv` knows of the calls that can still be queued after off, and
  `RoomInv` says that each thread on its way out has room beyond the cap.

`ConsoleProofs` (from `ConsoleAssumption`, and for URIs `UriAssumption` and
`EntriesAssumption`; any classes, entries and bounds):

* `ConsoleInvariant`, and from it `EveryCaptureAccounted` and the action property
  `NeverBack`. The agent runs each request once, those given up included
  (`Inbox`), and a reply with captures is the one list that emptied the queue for
  it (`Takes`). `NeverBack` rests on `Ordered`: the queue is in order, and all
  that ever left it is older than what is in it.
* `ParseIsTyped`, `FieldsAndTextAgree` and `PidsAreDecimals`, about the operators
  of `Uri` for texts, fields and selectors of every length and every `UT32_MAX`
  from 9 on (`UriAssumption`), and from them `UrisAlwaysAgree`, for any entries
  that are texts or fields (`EntriesAssumption`). A text is cut at its first slash
  (`PartAssigned`) and a field without a slash is cut off what it was joined to
  (`CutAtFirst`), so a text parses to the fields it was joined from (`Cut`); the
  rules of the two functions, written differently, accept the same fields
  (`SameRules`). In `rz_frida_uri_target_pid` a value that passed the test leaves
  room in the ut64 for one more digit (`NoWrap`), so what was read is the number
  so far until the first value too large or character that is no digit
  (`PidIsNumber`), and nothing after that makes it a pid again (`NoPidLater`).
  The proofs take texts over `Chars` because the
  provers do not know that a literal is in `STRING`.

`DockProofs` (from `DockAssumption`; any buttons, addresses and bounds):

* `DockInvariant`, and from it `QuietShowsAll` and `NoNotificationLost`. A quiet
  dock says nothing of the steps before, so the invariant says what is to come: a
  disabled button has a task whose callback enables it (`WillEnable`), and unless
  the table is marked as old, what it will show at last (`WillShow`) is what the
  last list read, or a change came after that list and then a further list waits
  or will be asked for. A click that is lost on a disabled Refresh button does no
  harm because its list, by `WillEnable`, is still waiting. `Order` keeps the
  messages in order from the buffer over the drained batches to the logs;
  `Placed` says that a notification is in one place. The console and the script's
  death disturb the first kind of clause only by marking a table as old, the
  second only by taking a notification out of the buffer.

`SessionProofs` (from `MaxOpensAssumption`; any number of sessions):

* `SessionInvariant`, and from it `TypeCorrect`, `HandlesAreBalanced`,
  `NoTargetOrphaned`, `SessionNeverLost`, `HookIsLive`, `CancelKept` and the
  action property `KillsItsOwn`. The inductive invariant adds to the properties
  how far the handler is (`Shape`, with the handles it holds by each step,
  `HeldAt`), that a reference is counted once (`Counted`), which target can
  still be suspended and that whoever can give up the device knows it
  (`Targets`), and that a target is reported running only once it was resumed
  (`Reports`). `NoOrphan` cannot be proved without the last clause of `Shape`
  and `Targets`: a cleanup kills the target only if it holds the device and
  remembers that it spawned it, which it does of every target it was told of.
  `CancelKept` needs that a press is kept in the flag until the open has tested
  it, and that the hook is set from then on (`HookSet`). `DisposeEnds` says once what
  `backend_session_dispose` leaves behind, for the four actions that call it.

`ListingsProofs` (from `ListingsAssumption`; any items, classes and bounds):

* `ListingsInvariant`, and from it `TypeCorrect`, `RefusedIsUnmapped`,
  `EvalsAreShown` and `ClassesAreNewOnce`. `ListingsShowEvals` is about replies,
  which may come from a cache; `CacheShowsEvals` says the same of the caches.
  `UnmappedIsTrue` is about the end of a request; `AbsentCovers` says that
  whatever is unmapped now has been noted by the request under way. `NewOnce` is
  inductive as it stands.

Every safety invariant and action property of a passing run is proved, and so are
the three refinements. Only model-checked are the liveness properties
(`WaitIsInterruptible`, `HandlersReturn`, `AnsweredUnlessInverted`), which rest on
fairness; `OnlyInversionSticks` is the safety half of the last.

Where a proof needs a little induction (a set of numbers has a least or a greatest
element, `CallsOf` of a longer queue), it is put in first-order form: the
intervals `0 .. n` are finite sets, strict inclusion on finite sets is
well-founded, and a well-founded relation has a minimal element in every set that
is not empty (`LeastProperties`, `MinProperties`, `UpTo`). What the recursive
functions of `TargetPid` and `NumberOf` read is reached that way: if it failed for
some prefix of a selector, it would fail for a shortest one.

## Assumptions and limits

* `Session` assumes that `frida_device_kill_sync` and an unload succeed. A spawn
  may take effect before it returns, and still return an error
  (`SpawnTakesEffect`): no pid is known then. A resume
  may take effect before it returns, and still return an error
  (`ResumeTakesEffect`): the target then runs while `resumed` is false, and a
  close kills it, which `KillsOnlyItsOwn` allows because no caller was told that
  it runs.
* No handler returns while its break hook is between the flag and the
  cancellable, because `rz_interrupt_break_pop` is taken to wait for it. A
  `breakTask` from another thread of Cutter is not modelled.
* JSON, formatting and error texts are outcomes (`reply`, `cancelled`, `timeout`
  and so on). An agent reply always parses. A user script may send a message with
  the id of a request (`UserSends`); that its text is then shown as the reply is
  the code's doing and is what `SucceedOtherwise` of `Rpc` allows.
* The script load and the request of an arming in an open are one step (`Armed`),
  their failures are `OpenFails`; `AgentChannel` takes them apart.
* In `Debugger` a thread that refuses a debug register always does (`Refusing`);
  read-only requests are left out; one script lifetime. That a thread started
  after `wpSet` is not watched, although the README speaks of every target
  thread, follows from `Arm` and is not a property of a run.
* In `Natives` a listener that was detached is not called any more, so a call
  under way at `FrRNj off` ends without its `onLeave` unless it is already in
  it. `NewGlobalRef` does not fail (its fallback keeps the local reference). A
  warning in `rnPending` does not count for the cap and is not bounded by it;
  nothing is claimed of it.
* In `Listings` an access to mapped memory may always fail, because its
  protection is not modelled, and an eval's own access to the agent's variables
  is left out. Listings without a cache (threads, exports, imports, symbols,
  flagModules) change no state.
* In `Console` each class has one native method, and a capture's number stands for
  the address it registers; a capture of an unknown class, constructors, super
  classes and the types made from fields are left out. The captures themselves
  are `Natives`'s: here they enter the queue in one step, and none comes after
  `off`, as one that `Captures` allows would. A host that gave up drops the late
  reply, which `AgentChannel` shows.
* In `Dock` a callback is one step, since Qt runs it on the main thread; a
  disconnect and a destruction happen when no task waits, as `waitForAll`
  guarantees. An edit left empty, a table without a selection and a dialog that
  is cancelled make a press do nothing, which is no step. The two logs' limits of
  500 and 2000 lines and `messageLog`'s clearing are left out. A point set on the
  console is one step with no failure: one that failed after taking effect, or
  before, is the same step or none.
* `NoneAssumption` and like clauses of `ConsoleAssumption`, `BridgeAssumption` and
  `DebuggerAssumption` say that `None`, which stands for a null pointer or for
  nobody, is not one of the values it is told apart from.
* Allocation failures are covered where they share an error path with a call.

## Plan

Done: the request channel, the session, the bridge, the debugger, the agent's
caches, the RegisterNatives capture, the URI, the imports and the dock; the
proofs listed above. Next: that the `Captures` which `Console` takes its queue
from allows no more than `Natives` does, with the call that comes after off; the
two halves of `MCAgentChannel`'s `Holds` joined in one module with `Bridge`, so
that `OneLockForAll` becomes a consequence of `LocksHeld`.

## Not modelled

The generated agent bundle `rzfrida_agent.h` holds two thirds of the lines of
the repository's C and C++ files as bytes of a minified script: the agent is
modelled from `agent/rzfrida_agent.js`, from which it is made. The command
descriptors are generated too. Of the written code, left out are the null
backend (every call reports that Frida is missing), the argument parsing and
read-only handlers of the plugin, the JSON parsing and writing of
`rz_frida_message.c` and `rz_frida_protocol.c`, class loader ids, `dex_diff`,
the connect dialog, layout and translations of the dock, and build scripts:
sequential code whose state, if any, no other step can change in between.
