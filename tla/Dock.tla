-------------------------------- MODULE Dock --------------------------------
(***************************************************************************)
(* FridaDockWidget: what its buttons, tables and logs show of a target     *)
(* that they reach only through tasks.  The runner is Tasks, which         *)
(* Bridge!ImplementsTasks shows of FridaTaskRunner.                        *)
(*                                                                         *)
(* A button's handler does nothing without a session; else it disables the *)
(* button and hands over its tasks, and the callback enables it again.  A  *)
(* callback may click another button, which does nothing if disabled.      *)
(***************************************************************************)
EXTENDS Integers, SequencesExt, FiniteSetsExt

CONSTANTS
  Pressed,     \* bound: the buttons the user presses
  Addresses,   \* what a break- or watchpoint is set on
  BufferMax,   \* RZ_FRIDA_MESSAGE_BUFFER_MAX
  MaxPresses,  \* bound: presses by the user
  MaxNotes,    \* bound: messages from the agent
  MaxSessions  \* bound: sessions

VARIABLES
  waiting, results, open, \* Tasks
  answers,     \* how the tasks in results ended: [ok, value]
  disabled,    \* the buttons that are disabled
  hasSession,  \* m_hasSession
  table,       \* table[p]: what bpTable and wpTable show
  session,     \* a session is open
  points,      \* points[p]: the agent's break- and watchpoints
  buffer,      \* the session's message buffer, oldest first: [n, about]
  bounds,      \* how many presses, messages and sessions there were
  \* history
  posted,      \* notifications among the messages
  shown,       \* messages drained, in the order of the callbacks: [n, about, logged]
  gone,        \* notifications pushed out of the buffer, taken by the console or
               \* lost with a session
  stale        \* stale[p]: why table[p] may be old

taskVars == <<waiting, results, open>>
widgetVars == <<disabled, hasSession, table>>
agentVars == <<session, points, buffer>>
history == <<posted, shown, gone, stale>>
vars == <<taskVars, answers, widgetVars, agentVars, bounds, history>>

-----------------------------------------------------------------------------
(* The buttons of the tabs.                                                *)

RuntimeButtons == {"refresh", "memRead", "memWrite"}
DetailButtons == {"modExports", "modImports", "modSymbols"}
JavaButtons == {"loaders", "clmStart", "clmStop", "clmRefresh", "classes",
                "describe", "importClass"}
ScriptButtons == {"scriptLoad", "eval"}
MessagesButtons == {"messages"}
DexDiffButtons == {"dexCompare"}
RnButtons == {"rnOn", "rnOff", "rnRefresh", "rnImport"}
FlagsButtons == {"flagsImport"}
BreakpointButtons == {"bpSet", "bpRemove", "bpRemoveAll", "bpList", "bpContinue",
                      "bpContinueLast"}
WatchpointButtons == {"wpSet", "wpRemove", "wpRemoveAll", "wpList"}
RegisterButtons == {"regRead", "regWrite"}

Buttons ==
  UNION {RuntimeButtons, DetailButtons, JavaButtons, ScriptButtons, MessagesButtons,
         DexDiffButtons, RnButtons, FlagsButtons, BreakpointButtons,
         WatchpointButtons, RegisterButtons}

Panels == {"bp", "wp"}
Sets == [bp |-> "bpSet", wp |-> "wpSet"]
Removes == [bp |-> "bpRemove", wp |-> "wpRemove"]
RemoveAlls == [bp |-> "bpRemoveAll", wp |-> "wpRemoveAll"]
Lists == [bp |-> "bpList", wp |-> "wpList"]

ASSUME DockAssumption ==
  /\ Pressed \subseteq Buttons
  /\ BufferMax \in Nat \ {0}
  /\ MaxPresses \in Nat /\ MaxNotes \in Nat /\ MaxSessions \in Nat

\* A task names the button whose callback it has; "drain" is the second handler
\* of bpListBtn, "more" a further list of the Runtime tab.
Job(b, a) == [button |-> b, address |-> a]
JobsOf(b, a) ==
  CASE b = "bpList" -> <<Job(b, a), Job("drain", a)>>
    [] b = "refresh" -> <<Job(b, a), Job("more", a), Job("more", a)>>
    [] OTHER -> <<Job(b, a)>>

\* The button that the callback of b clicks, b itself for none.
Clicked(b) ==
  CASE b \in {"bpSet", "bpRemove", "bpRemoveAll", "bpContinue", "bpContinueLast"} ->
         "bpList"
    [] b \in {"wpSet", "wpRemove", "wpRemoveAll"} -> "wpList"
    [] b = "regWrite" -> "regRead"
    [] b = "clmStop" -> "clmRefresh"
    [] OTHER -> b

AnyAddress == CHOOSE a \in Addresses : TRUE

Runner == INSTANCE Tasks WITH
  Batches <- {JobsOf(b, a) : b \in Buttons, a \in Addresses}

Init ==
  /\ Runner!TasksInit
  /\ answers = <<>>
  /\ disabled = {} /\ hasSession = FALSE /\ table = [p \in Panels |-> {}]
  /\ session = FALSE /\ points = [p \in Panels |-> {}] /\ buffer = <<>>
  /\ bounds = [presses |-> 0, notes |-> 0, sessions |-> 0]
  /\ posted = {} /\ shown = <<>> /\ gone = {} /\ stale = [p \in Panels |-> FALSE]

-----------------------------------------------------------------------------
(* The target and the rest of Cutter.                                      *)

Notes(s) == {s[i].n : i \in {j \in DOMAIN s : s[j].about \in Panels}}

\* A message: a stop at a breakpoint, a hit of a watchpoint, or anything else.
Message(about) ==
  /\ session
  /\ bounds.notes < MaxNotes
  /\ bounds' = [bounds EXCEPT !.notes = @ + 1]
  /\ LET full  == Len(buffer) = BufferMax
         kept  == IF full THEN Tail(buffer) ELSE buffer
     IN  /\ buffer' = Append(kept, [n |-> bounds'.notes, about |-> about])
         /\ gone' = gone \cup (Notes(buffer) \ Notes(kept))
  /\ posted' = IF about \in Panels THEN posted \cup {bounds'.notes} ELSE posted
  /\ UNCHANGED <<taskVars, answers, widgetVars, session, points, shown, stale>>

\* The points of panel p after the request of button b, or of the console's command
\* for the same request.
PointsAfter(b, a, p) ==
  CASE b = Sets[p] -> points[p] \cup {a}
    [] b = Removes[p] -> points[p] \ {a}
    [] b = RemoveAlls[p] -> {}
    [] OTHER -> points[p]

Changes(b, p) == b \in {Sets[p], Removes[p], RemoveAlls[p]}

-----------------------------------------------------------------------------
(* The console and the agent, which share the dock's session.              *)

\* Frb, Frb-, FrW, FrW- on the console change the points of panel p.
ConsoleChanges(p, a) ==
  /\ session
  /\ \E b \in {Sets[p], Removes[p], RemoveAlls[p]} :
       points' = [points EXCEPT ![p] = PointsAfter(b, a, p)]
  /\ stale' = [stale EXCEPT ![p] = TRUE]
  /\ UNCHANGED <<taskVars, answers, widgetVars, session, buffer, bounds, posted, shown,
                 gone>>

\* Frmj on the console drains the buffer.
ConsoleDrains ==
  /\ session
  /\ buffer' = <<>>
  /\ gone' = gone \cup Notes(buffer)
  /\ UNCHANGED <<taskVars, answers, widgetVars, session, points, bounds, posted, shown,
                 stale>>

\* The agent script dies and its points with it; the next request reloads it
\* empty (backend_ensure_script), and the buffer stays.
ScriptDies ==
  /\ session
  /\ points' = [p \in Panels |-> {}]
  /\ stale' = [p \in Panels |-> TRUE]
  /\ UNCHANGED <<taskVars, answers, widgetVars, session, buffer, bounds, posted, shown,
                 gone>>

\* The session is closed by Frc on the console or by the dock.
SessionEnds ==
  /\ session
  /\ session' = FALSE
  /\ points' = [p \in Panels |-> {}]
  /\ buffer' = <<>>
  /\ gone' = gone \cup Notes(buffer)
  /\ stale' = [p \in Panels |-> TRUE]
  /\ UNCHANGED <<taskVars, answers, disabled, table, bounds, posted, shown>>

ConsoleCloses == SessionEnds /\ UNCHANGED hasSession

\* onDisconnectClicked: waitForAll has returned, callbacks may be left.
Disconnect ==
  /\ open
  /\ hasSession
  /\ waiting = <<>>
  /\ hasSession' = FALSE
  /\ IF session THEN SessionEnds
     ELSE UNCHANGED <<taskVars, answers, disabled, table, agentVars, bounds, history>>

\* A session is opened, from the dock or the console; the dock notices it at
\* the next refresh.
SessionOpens ==
  /\ ~session
  /\ bounds.sessions < MaxSessions
  /\ bounds' = [bounds EXCEPT !.sessions = @ + 1]
  /\ session' = TRUE
  /\ UNCHANGED <<taskVars, answers, widgetVars, points, buffer, history>>

\* updateSessionState.
RefreshAll ==
  /\ open
  /\ hasSession # session
  /\ hasSession' = session
  /\ UNCHANGED <<taskVars, answers, disabled, table, agentVars, bounds, history>>

\* The notifications that a drained buffer carries to the main thread.
Carried(i) ==
  IF results[i].button \in {"messages", "drain"} /\ answers[i].ok
  THEN Notes(answers[i].value) ELSE {}
InFlight == UNION {Carried(i) : i \in DOMAIN results}

\* The destructor: waitForAll, then nothing is answered any more.
Destroy ==
  /\ Runner!Close
  /\ answers' = <<>>
  /\ gone' = gone \cup InFlight
  /\ UNCHANGED <<widgetVars, agentVars, bounds, posted, shown, stale>>

-----------------------------------------------------------------------------
(* The buttons.                                                            *)

\* What a click does, from the user or a callback: the tasks handed over, and
\* the buttons disabled when off is the set of those that are.
CanClick(b, off) == hasSession /\ b \notin off
TasksOfClick(b, a, off) == IF CanClick(b, off) THEN JobsOf(b, a) ELSE <<>>
DisabledAfter(b, off) == IF CanClick(b, off) THEN off \cup {b} ELSE off

\* The user presses a button.
Press(b, a) ==
  /\ bounds.presses < MaxPresses
  /\ CanClick(b, disabled)
  /\ bounds' = [bounds EXCEPT !.presses = @ + 1]
  /\ Runner!Hand(TasksOfClick(b, a, disabled))
  /\ disabled' = DisabledAfter(b, disabled)
  /\ UNCHANGED <<answers, hasSession, table, agentVars, history>>

-----------------------------------------------------------------------------
(* The worker.                                                             *)

Value(b) ==
  CASE b \in {"messages", "drain"} -> buffer
    [] b = "bpList" -> points["bp"]
    [] b = "wpList" -> points["wp"]
    [] OTHER -> <<>>

\* The task succeeds.
Execute ==
  /\ Runner!Execute
  /\ session
  /\ LET job == Head(waiting)
         b   == job.button
     IN  /\ answers' = Append(answers, [ok |-> TRUE, value |-> Value(b)])
         /\ points' = [p \in Panels |-> PointsAfter(b, job.address, p)]
         /\ buffer' = IF b \in {"messages", "drain"} THEN <<>> ELSE buffer
         /\ stale' = [p \in Panels |-> IF b = Lists[p] THEN FALSE ELSE stale[p]]
  /\ UNCHANGED <<widgetVars, session, bounds, posted, shown, gone>>

\* The task throws: there is no session, or the agent was asked and the call
\* failed, and then its request may have had its effect.
ExecuteFails ==
  /\ Runner!Execute
  /\ LET job == Head(waiting)
         b   == job.button
     IN  /\ session => b \notin {"messages", "drain"}
         /\ answers' = Append(answers, [ok |-> FALSE, value |-> <<>>])
         /\ \/ UNCHANGED points
            \/ /\ session
               /\ points' = [p \in Panels |-> PointsAfter(b, job.address, p)]
         /\ stale' = [p \in Panels |-> stale[p] \/ Changes(b, p) \/ b = Lists[p]]
  /\ UNCHANGED <<widgetVars, session, buffer, bounds, posted, shown, gone>>

-----------------------------------------------------------------------------
(* The callbacks.                                                          *)

\* Mutant of IsNotification: only breakpoints are.
IsBreak(about) == about = "bp"

IsNotification(about) == about \in Panels

\* What a drained buffer adds to the logs: Messages shows everything, the Debug
\* tab throws away what is no notification.
ShownBy(b, value) ==
  IF b \in {"messages", "drain"}
  THEN [i \in DOMAIN value |->
         [n |-> value[i].n, about |-> value[i].about,
          logged |-> b = "messages" \/ IsNotification(value[i].about)]]
  ELSE <<>>

\* The button is enabled, and then the next one clicked unless it is the same.
Callback(b, next) ==
  LET enabled == disabled \ {b}
  IN  /\ Runner!Answer(IF next = b THEN <<>> ELSE TasksOfClick(next, AnyAddress, enabled))
      /\ disabled' = IF next = b THEN enabled ELSE DisabledAfter(next, enabled)
      /\ answers' = Tail(answers)

\* Mutant of Answered: a callback clicks no other button.
AnsweredAlone ==
  /\ results # <<>>
  /\ Head(answers).ok
  /\ LET b == Head(results).button
         value == Head(answers).value
     IN  /\ Callback(b, b)
         /\ table' = [p \in Panels |-> IF b = Lists[p] THEN value ELSE table[p]]
         /\ shown' = shown \o ShownBy(b, value)
         /\ stale' = [p \in Panels |->
              stale[p] \/ (Changes(b, p) /\ ~hasSession)]
  /\ UNCHANGED <<hasSession, agentVars, bounds, posted, gone>>

Answered ==
  /\ results # <<>>
  /\ Head(answers).ok
  /\ LET b == Head(results).button
         value == Head(answers).value
     IN  /\ Callback(b, Clicked(b))
         /\ table' = [p \in Panels |-> IF b = Lists[p] THEN value ELSE table[p]]
         /\ shown' = shown \o ShownBy(b, value)
         /\ stale' = [p \in Panels |->
              stale[p] \/ (Changes(b, p) /\ ~hasSession)]
  /\ UNCHANGED <<hasSession, agentVars, bounds, posted, gone>>

\* The error callback enables the button, and clicks none.
Refused ==
  /\ results # <<>>
  /\ ~Head(answers).ok
  /\ LET b == Head(results).button IN Callback(b, b)
  /\ UNCHANGED <<hasSession, table, agentVars, bounds, history>>

Next ==
  \/ \E about \in Panels \cup {"other"} : Message(about)
  \/ \E p \in Panels, a \in Addresses : ConsoleChanges(p, a)
  \/ ConsoleDrains
  \/ ScriptDies
  \/ ConsoleCloses
  \/ Disconnect
  \/ SessionOpens
  \/ RefreshAll
  \/ Destroy
  \/ \E b \in Pressed, a \in Addresses : Press(b, a)
  \/ Execute
  \/ ExecuteFails
  \/ Answered
  \/ Refused

Spec == Init /\ [][Next]_vars

-----------------------------------------------------------------------------
(* Properties.                                                             *)

Quiet == open /\ waiting = <<>> /\ results = <<>>

\* When no task is left every button can be pressed again, and the tables of
\* the Debug tab show the agent's break- and watchpoints, unless since the last
\* list a call failed, the session changed, the dock took it for closed, the
\* agent's script died, or the console changed the points: no change that the dock
\* makes slips in between the lists that the callbacks ask for, although a click
\* on a Refresh button that is disabled is lost.
QuietDockIsCurrent ==
  Quiet => /\ disabled = {}
           /\ \A p \in Panels : ~stale[p] => table[p] = points[p]

\* A notification of a stop or a hit reaches one of the two logs once, in the
\* order in which they came, whichever Refresh button drains it, unless the
\* buffer overflowed, Frmj on the console took it, the session ended or the dock
\* was destroyed.
Logged ==
  {shown[i].n : i \in {j \in DOMAIN shown : shown[j].logged /\ shown[j].about \in Panels}}
NotificationsShown ==
  /\ \A i, j \in DOMAIN shown : i < j => shown[i].n < shown[j].n
  /\ \A n \in Notes(buffer) \cup InFlight : n \notin gone \cup Logged
  /\ posted = Notes(buffer) \cup InFlight \cup gone \cup Logged
=============================================================================
