------------------------------- MODULE Captures -------------------------------
(***************************************************************************)
(* What the agent promises of RegisterNatives capture while its script     *)
(* lives: a call is captured at most once, captures are kept in the order  *)
(* in which they were made, a list takes all that are kept, and only off   *)
(* drops them.  A call that was returning when off came is captured after  *)
(* it, or dropped with the others while off clears them.                   *)
(***************************************************************************)
EXTENDS Naturals, Sequences

CONSTANTS
  Calls,    \* calls of RegisterNatives
  Room      \* captures kept at most

VARIABLES
  armed,    \* the last of on and off was on
  kept,     \* captures to be listed, oldest first
  captured, \* calls that were captured
  listed    \* what the last list was given

captureVars == <<armed, kept, captured, listed>>

CapturesInit ==
  /\ armed = FALSE
  /\ kept = <<>>
  /\ captured = {}
  /\ listed = <<>>

On ==
  /\ armed' = TRUE
  /\ UNCHANGED <<kept, captured, listed>>

Off ==
  /\ armed' = FALSE
  /\ kept' = <<>>
  /\ UNCHANGED <<captured, listed>>

Capture(c) ==
  /\ c \notin captured
  /\ Len(kept) < Room
  /\ kept' = Append(kept, c)
  /\ captured' = captured \cup {c}
  /\ UNCHANGED <<armed, listed>>

\* Off is still clearing the queue.
Drop(c) ==
  /\ ~armed
  /\ c \notin captured
  /\ kept = <<>>
  /\ captured' = captured \cup {c}
  /\ UNCHANGED <<armed, kept, listed>>

List ==
  /\ listed' = kept
  /\ kept' = <<>>
  /\ UNCHANGED <<armed, captured>>

CapturesNext ==
  \/ On
  \/ Off
  \/ \E c \in Calls : Capture(c) \/ Drop(c)
  \/ List

CapturesSpec == CapturesInit /\ [][CapturesNext]_captureVars
=============================================================================
