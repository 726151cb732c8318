------------------------------- MODULE Console -------------------------------
(***************************************************************************)
(* The console commands that bring what the agent knows into rizin's       *)
(* analysis database: FrRNj lists or imports the captured RegisterNatives  *)
(* calls, FrImj imports a Java class or every class with a prefix, Frfj    *)
(* the modules as flags.                                                   *)
(*                                                                         *)
(* A command waits for one reply at a time.  The host may give up (timeout *)
(* or Ctrl-C) whatever the agent has done by then: the agent still runs    *)
(* the request when it comes to it, and what it answers is dropped.  That  *)
(* is what Rpc promises of the channel.  Each class has one native method, *)
(* and a capture's number stands for the address it registers.             *)
(***************************************************************************)
EXTENDS Uri

CONSTANTS
  None,
  Classes,      \* Java classes of the target
  FirstEntries, \* bound: what is entered for the first session
  Entries,      \* bound: what is entered for a later one
  Capacity,     \* RN_BUFFER_MAX
  JavaMax,      \* frida.java.max
  MaxCaptures,  \* bound: calls of RegisterNatives that are captured
  MaxMoves,     \* bound: how often the module is mapped elsewhere
  MaxCommands   \* bound: commands that reach the agent

ASSUME ConsoleAssumption ==
  /\ Capacity \in Nat \ {0}
  /\ JavaMax \in Nat \ {0}
  /\ MaxCaptures \in Nat /\ MaxMoves \in Nat /\ MaxCommands \in Nat
  /\ None \notin [value : Seq(Nat)]

\* An entry is a text or the four fields of the dialog.
ASSUME EntriesAssumption ==
  \A e \in FirstEntries \cup Entries :
    \/ e.kind = "text" /\ e.text \in Seq(STRING)
    \/ e.kind = "fields" /\ {e.action, e.transport, e.device, e.target} \subseteq Seq(STRING)

VARIABLES
  entry,        \* what the user has entered for a session, None if nothing
  session,      \* ctx->session is set
  script,       \* the agent is loaded in the target
  hook,         \* rnHookEnabled
  queue,        \* the captures the agent holds, oldest first
  inbox,        \* requests posted to the agent that it has not run
  base,         \* where the module is mapped now
  command,      \* the command that runs, "idle" if none
  awaiting,     \* the request whose reply it waits for, 0 if none
  reply,        \* that reply, None until it comes
  names,        \* classes a prefix import has still to ask for
  created,      \* analysis classes
  address,      \* address of the class's native method, 0 for UT64_MAX
  flag,         \* the module's flag, 0 if there is none
  commands,     \* commands so far
  requests,     \* requests so far
  \* history
  captured,     \* the class of each capture so far
  shown,        \* captures listed on the console
  imported,     \* captures imported
  cleared,      \* captures dropped by rn off or with the script
  took,         \* [call, captures]: requests that emptied the queue
  failed        \* requests the user was told had failed

agentVars == <<script, hook, queue, inbox>>
databaseVars == <<created, address, flag>>
waitVars == <<command, awaiting, reply, names>>
countVars == <<commands, requests>>
history == <<captured, shown, imported, cleared, took, failed>>
vars == <<entry, session, agentVars, base, waitVars, databaseVars, countVars, history>>

RnOps == {"on", "off", "list", "import"}

Init ==
  /\ entry = None
  /\ session = FALSE
  /\ script = FALSE /\ hook = FALSE /\ queue = <<>> /\ inbox = <<>>
  /\ base = 1
  /\ command = "idle" /\ awaiting = 0 /\ reply = None /\ names = <<>>
  /\ created = {} /\ address = [c \in Classes |-> 0] /\ flag = 0
  /\ commands = 0 /\ requests = 0
  /\ captured = <<>> /\ shown = {} /\ imported = {} /\ cleared = {}
  /\ took = {} /\ failed = {}

-----------------------------------------------------------------------------
(* The session and the target.                                             *)

\* A text after Fro, or the fields of the connect dialog.
EnterUri ==
  /\ ~session
  /\ entry = None
  /\ entry' \in IF requests = 0 THEN FirstEntries ELSE Entries
  /\ UNCHANGED <<session, agentVars, base, waitVars, databaseVars, countVars, history>>

UriEntered ==
  IF entry.kind = "text" THEN Parse(entry.text)
  ELSE FromParts(entry.action, entry.transport, entry.device, entry.target)

\* Fro, or openSession of the bridge: nothing is opened for an invalid URI.
\* A spawn on a device loads the agent and arms the hook, if it can.
Open ==
  /\ entry # None
  /\ entry' = None
  /\ session' = UriEntered.ok
  /\ IF /\ UriEntered.ok
        /\ UriEntered.action = <<"spawn">> /\ UriEntered.transport # <<"local">>
     THEN /\ script' \in BOOLEAN
          /\ hook' \in {FALSE, script'}
     ELSE UNCHANGED <<script, hook>>
  /\ UNCHANGED <<queue, inbox, base, waitVars, databaseVars, countVars, history>>

\* What the agent held is gone with it.
AgentGone ==
  /\ script' = FALSE /\ hook' = FALSE /\ queue' = <<>> /\ inbox' = <<>>
  /\ cleared' = cleared \cup ToSet(queue)
  /\ UNCHANGED <<entry, base, waitVars, databaseVars, countVars, captured, shown,
                 imported, took, failed>>

Frc ==
  /\ session
  /\ command = "idle"
  /\ session' = FALSE
  /\ AgentGone

ScriptGone ==
  /\ script
  /\ AgentGone
  /\ UNCHANGED session

\* A class registers its native method.
Register(c) ==
  /\ hook
  /\ Len(queue) < Capacity
  /\ Len(captured) < MaxCaptures
  /\ captured' = Append(captured, c)
  /\ queue' = Append(queue, Len(captured'))
  /\ UNCHANGED <<entry, session, script, hook, inbox, base, waitVars, databaseVars,
                 countVars, shown, imported, cleared, took, failed>>

ModuleMoves ==
  /\ base <= MaxMoves
  /\ base' = base + 1
  /\ UNCHANGED <<entry, session, agentVars, waitVars, databaseVars, countVars, history>>

-----------------------------------------------------------------------------
(* The agent runs its requests in the order they were posted.              *)

\* Arming may fail: no Java in the target, or nothing to hook.
RnOn ==
  /\ hook' \in {hook, TRUE}
  /\ UNCHANGED <<queue, cleared, took>>

RnOff ==
  /\ hook' = FALSE
  /\ queue' = <<>>
  /\ cleared' = cleared \cup ToSet(queue)
  /\ UNCHANGED took

\* Mutant of RnList: rnBuffer keeps what was listed.
RnListKeepsBuffer(call) ==
  /\ took' = took \cup {[call |-> call, captures |-> ToSet(queue)]}
  /\ UNCHANGED <<hook, queue, cleared>>

RnList(call) ==
  /\ queue' = <<>>
  /\ took' = took \cup {[call |-> call, captures |-> ToSet(queue)]}
  /\ UNCHANGED <<hook, cleared>>

\* classList: some of the loaded classes, in any order and at most JavaMax.
Listings ==
  {s \in UNION {[1 .. n -> Classes] : n \in 0 .. JavaMax} : IsInjective(s)}

\* Nothing for a request that fails in the agent.
Answers(request) ==
  CASE request.op = "rnList" -> {queue}
    [] request.op = "classList" -> Listings
    [] request.op = "classDescribe" -> {{request.class}, {}}
    [] request.op = "flagModules" -> {base}
    [] OTHER -> {None}

\* Only the reply to the request that is waited for gets to a command.
Execute ==
  /\ inbox # <<>>
  /\ LET request == Head(inbox) IN
     /\ inbox' = Tail(inbox)
     /\ CASE request.op = "on" -> RnOn
          [] request.op = "off" -> RnOff
          [] request.op = "rnList" -> RnList(request.call)
          [] OTHER -> UNCHANGED <<hook, queue, cleared, took>>
     /\ IF request.call = awaiting
        THEN \E value \in Answers(request) : reply' = [value |-> value]
        ELSE UNCHANGED reply
  /\ UNCHANGED <<entry, session, script, base, command, awaiting, names, databaseVars,
                 countVars, captured, shown, imported, failed>>

-----------------------------------------------------------------------------
(* The commands.                                                           *)

\* backend_ensure_script and the post of backend_request.
Ask(op, class) ==
  /\ script' = TRUE
  /\ requests' = requests + 1
  /\ inbox' = Append(inbox, [call |-> requests', op |-> op, class |-> class])
  /\ awaiting' = requests'
  /\ UNCHANGED <<entry, session, hook, queue, base, reply, databaseVars, history>>

\* The request a command starts with; list and import send the same one.
Request(c) ==
  CASE c \in {"list", "import"} -> "rnList"
    [] c = "class" -> "classDescribe"
    [] c = "prefix" -> "classList"
    [] c = "flags" -> "flagModules"
    [] OTHER -> c

Run(c, class) ==
  /\ session
  /\ command = "idle"
  /\ commands < MaxCommands
  /\ commands' = commands + 1
  /\ command' = c
  /\ Ask(Request(c), class)
  /\ UNCHANGED names

\* The import of a prefix asks for one class after the other.
AskNextName ==
  /\ command = "names"
  /\ awaiting = 0
  /\ names' = Tail(names)
  /\ Ask("classDescribe", Head(names))
  /\ UNCHANGED <<command, commands>>

\* A name whose request fails before it is posted is passed over.
SkipName ==
  /\ command = "names"
  /\ awaiting = 0
  /\ names' = Tail(names)
  /\ command' = IF names' = <<>> THEN "idle" ELSE "names"
  /\ UNCHANGED <<entry, session, agentVars, base, awaiting, reply, databaseVars, countVars,
                 history>>

\* The command is over, but the import of a prefix goes on while names are left.
Finish ==
  /\ awaiting' = 0
  /\ reply' = None
  /\ command' = IF names' = <<>> THEN "idle" ELSE "names"

\* Mutant of ImportNatives: a method that has an address keeps it.
ImportFirstNatives(captures) ==
  LET Of(c) == {i \in DOMAIN captures : captured[captures[i]] = c}
  IN  /\ created' = created \cup {captured[n] : n \in ToSet(captures)}
      /\ address' = [c \in Classes |->
           IF Of(c) = {} THEN address[c] ELSE captures[Min(Of(c))]]
      /\ imported' = imported \cup ToSet(captures)

\* import_rn_methods: in the order of the reply, so the last address stays.
ImportNatives(captures) ==
  LET Of(c) == {i \in DOMAIN captures : captured[captures[i]] = c}
  IN  /\ created' = created \cup {captured[n] : n \in ToSet(captures)}
      /\ address' = [c \in Classes |->
           IF Of(c) = {} THEN address[c] ELSE captures[Max(Of(c))]]
      /\ imported' = imported \cup ToSet(captures)

\* import_class: its methods get no address, also those that had one.
ImportClasses(described) ==
  /\ created' = created \cup described
  /\ address' = [c \in Classes |-> IF c \in described THEN 0 ELSE address[c]]
  /\ UNCHANGED imported

Receive ==
  /\ reply # None
  /\ names' = IF command = "prefix" THEN reply.value ELSE names
  /\ shown' = IF command = "list" THEN shown \cup ToSet(reply.value) ELSE shown
  /\ flag' = IF command = "flags" THEN reply.value ELSE flag
  /\ CASE command = "import" -> ImportNatives(reply.value)
       [] command \in {"class", "names"} -> ImportClasses(reply.value)
       [] OTHER -> UNCHANGED <<created, address, imported>>
  /\ Finish
  /\ UNCHANGED <<entry, session, agentVars, base, countVars, captured, cleared, took, failed>>

\* Timeout or Ctrl-C, whatever has become of the request.
GiveUp ==
  /\ awaiting # 0
  /\ failed' = failed \cup {awaiting}
  /\ UNCHANGED names
  /\ Finish
  /\ UNCHANGED <<entry, session, agentVars, base, databaseVars, countVars, captured, shown,
                 imported, cleared, took>>

Next ==
  \/ EnterUri
  \/ Open
  \/ Frc
  \/ ScriptGone
  \/ \E c \in Classes : Register(c)
  \/ ModuleMoves
  \/ Execute
  \/ \E c \in RnOps \cup {"prefix", "flags"} : Run(c, None)
  \/ \E class \in Classes : Run("class", class)
  \/ AskNextName
  \/ SkipName
  \/ Receive
  \/ GiveUp

Spec == Init /\ [][Next]_vars

-----------------------------------------------------------------------------
(* Properties.                                                             *)

\* rz_frida_uri_parse and rz_frida_uri_from_parts obey the same rules, so a
\* session can be opened from the console whenever it can from the dialog,
\* and the other way round; and rz_frida_uri_target_pid takes a selector for
\* the number it is, if that is a process id.
UrisAgree ==
  entry # None =>
    /\ AsFieldsAndText(UriEntered)
    /\ entry.kind = "text" => IsTyped(entry.text)
    /\ UriEntered.ok => PidOfDecimal(UriEntered.target)

\* A captured registration is held by the agent, was listed or imported, and
\* that once, or it is lost, and then to rn off or the end of the script, or
\* to an FrRNj that told the user it failed.
InFailedOrInReply ==
  {n \in DOMAIN captured :
    \E t \in took : /\ n \in t.captures
                    /\ t.call \in failed \/ (t.call = awaiting /\ reply # None)}
Places == <<ToSet(queue), shown, imported, cleared, InFailedOrInReply>>
CapturesAccounted ==
  \A n \in DOMAIN captured :
    \E i \in DOMAIN Places : \A j \in DOMAIN Places : n \in Places[j] <=> j = i

\* What an import writes is never older than what an earlier one wrote: a
\* method's address comes from a later capture than all that were imported
\* for it, unless an import of the class erases it, and a flag never moves
\* back to a base it has left.
DatabaseNeverGoesBack ==
  [][/\ \A c \in Classes :
          address'[c] \notin {0, address[c]} =>
            \A n \in imported' : captured[n] = c => n <= address'[c]
     /\ flag' >= flag]_vars
=============================================================================
