--------------------------------- MODULE Uri ---------------------------------
(***************************************************************************)
(* rz_frida_uri.c: what follows "frida://" in a session URI, and the       *)
(* selector of its target.  A text is a sequence of characters; a word     *)
(* that the code only compares as a whole counts as one character.         *)
(***************************************************************************)
EXTENDS Integers, Sequences, SequencesExt, FiniteSetsExt

CONSTANT UT32_MAX \* the greatest ut32; a ut64 has twice as many bits

\* Ten times a ut32 and a digit fit in a ut64.
ASSUME UriAssumption == UT32_MAX \in Nat /\ UT32_MAX >= 9

TargetActions == {"attach", "spawn", "launch"}
Actions == TargetActions \cup {"list", "apps"}
Transports == {"local", "usb", "remote"}
Empty == <<>>
Invalid == [ok |-> FALSE]

-----------------------------------------------------------------------------
\* The field before the next slash and what follows it.
AssignPart(cursor) ==
  LET slashes == {i \in DOMAIN cursor : cursor[i] = "/"}
      slash   == IF slashes = {} THEN Len(cursor) + 1 ELSE Min(slashes)
  IN  [part |-> SubSeq(cursor, 1, slash - 1),
       rest |-> SubSeq(cursor, slash + 1, Len(cursor))]

Named(names, text) == \E name \in names : text = <<name>>
HasColon(device) == \E i \in DOMAIN device : device[i] = ":"

UriOf(action, transport, device, target) ==
  [ok |-> TRUE, action |-> action, transport |-> transport,
   device |-> device, target |-> target]

\* rz_frida_uri_from_parts, which the connect dialog goes through.
FromParts(action, transport, device, target) ==
  IF /\ Named(Actions, action)
     /\ Named(Transports, transport)
     /\ Named(TargetActions, action) => target # Empty
     /\ ~Named(TargetActions, action) => target = Empty
     /\ transport = <<"local">> => device = Empty
     /\ transport = <<"remote">> => device # Empty /\ HasColon(device)
  THEN UriOf(action, transport, device, target)
  ELSE Invalid

\* The fields that rz_frida_uri_parse accepts.
Parsed(action, transport, device, target) ==
  IF /\ action # Empty /\ Named(Actions, action)
     /\ transport # Empty /\ Named(Transports, transport)
     /\ Named(TargetActions, action) <=> target # Empty
     /\ device # Empty => transport # <<"local">>
     /\ transport = <<"remote">> => HasColon(device)
  THEN UriOf(action, transport, device, target)
  ELSE Invalid

\* rz_frida_uri_parse: the target takes the rest, slashes included.
Parse(text) ==
  LET action    == AssignPart(text)
      transport == AssignPart(action.rest)
      device    == AssignPart(transport.rest)
  IN  Parsed(action.part, transport.part, device.part, device.rest)

Digits == <<"0", "1", "2", "3", "4", "5", "6", "7", "8", "9">>
IsDigit(c) == c \in ToSet(Digits)
DigitValue(c) == CHOOSE v \in 0 .. 9 : Digits[v + 1] = c
NoPid == -1

\* What a ut64 keeps of a number.
Ut64(value) == value % ((UT32_MAX + 1) * (UT32_MAX + 1))

\* Mutant of TargetPid: the range is tested once, after the last digit.
TargetPidTestedLate(target) ==
  LET read[n \in 0 .. Len(target)] ==
        IF n = 0 THEN 0
        ELSE IF read[n - 1] = NoPid \/ ~IsDigit(target[n]) THEN NoPid
        ELSE Ut64(read[n - 1] * 10 + DigitValue(target[n]))
  IN  IF target = Empty \/ read[Len(target)] > UT32_MAX THEN NoPid ELSE read[Len(target)]

\* rz_frida_uri_target_pid: the value is a ut64, tested after each digit.
TargetPid(target) ==
  LET read[n \in 0 .. Len(target)] ==
        IF n = 0 THEN 0
        ELSE IF read[n - 1] = NoPid \/ ~IsDigit(target[n]) THEN NoPid
        ELSE LET value == Ut64(read[n - 1] * 10 + DigitValue(target[n]))
             IN  IF value > UT32_MAX THEN NoPid ELSE value
  IN  IF target = Empty THEN NoPid ELSE read[Len(target)]

-----------------------------------------------------------------------------
(* What they are for.                                                      *)

\* The text of a URI, which the code never builds.
TextOf(uri) ==
  uri.action \o <<"/">> \o uri.transport \o <<"/">> \o uri.device
    \o <<"/">> \o uri.target

\* from_parts accepts the fields of a URI as they are, and its text parses to
\* it again unless the device has a slash, which only from_parts can be given.
AsFieldsAndText(uri) ==
  uri.ok =>
    /\ FromParts(uri.action, uri.transport, uri.device, uri.target) = uri
    /\ (\A i \in DOMAIN uri.device : uri.device[i] # "/") => Parse(TextOf(uri)) = uri

\* Parse drops and adds nothing but slashes at the end.
IsTyped(text) ==
  Parse(text).ok =>
    \E slashes \in {<<>>, <<"/">>, <<"/", "/">>} : TextOf(Parse(text)) = text \o slashes

\* The number that a decimal stands for, without a limit.
NumberOf(decimal) ==
  LET number[n \in 0 .. Len(decimal)] ==
        IF n = 0 THEN 0 ELSE number[n - 1] * 10 + DigitValue(decimal[n])
  IN  number[Len(decimal)]

\* A selector is a process id exactly when it is a decimal number that fits
\* in a ut32, however long it is.
IsDecimal(target) == target # Empty /\ \A i \in DOMAIN target : IsDigit(target[i])
PidOfDecimal(target) ==
  TargetPid(target) =
    IF IsDecimal(target) /\ NumberOf(target) <= UT32_MAX THEN NumberOf(target) ELSE NoPid
=============================================================================
