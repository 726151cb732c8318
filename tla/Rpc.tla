--------------------------------- MODULE Rpc ---------------------------------
(***************************************************************************)
(* What a backend handler may rely on when it calls backend_request: at    *)
(* most one request is outstanding in the whole session, the agent runs a  *)
(* request at most once, and a request that succeeds is answered with the  *)
(* agent's reply to that very request, or by a message with its id that    *)
(* the user's own script sent.  A request that fails says nothing about    *)
(* the agent: it may have run before, and it may still run later.          *)
(***************************************************************************)
EXTENDS Naturals

CONSTANTS
  Clients,   \* threads that make requests
  MaxCalls,  \* requests made in all, numbered 1 .. MaxCalls
  None       \* no request outstanding

VARIABLES
  outstanding, \* the client and the number of the request in the slot
  status,      \* status[k]: "new", "sent" or "executed"
  answer       \* answer[c]: the request whose reply c was given, 0 for none

rpcVars == <<outstanding, status, answer>>

Calls == 1 .. MaxCalls

Init ==
  /\ outstanding = None
  /\ status = [k \in Calls |-> "new"]
  /\ answer = [c \in Clients |-> 0]

\* A client takes the slot for a new request.
Issue(c, k) ==
  /\ outstanding = None
  /\ status[k] = "new"
  /\ outstanding' = [client |-> c, call |-> k]
  /\ status' = [status EXCEPT ![k] = "sent"]
  /\ UNCHANGED answer

\* The agent runs a request it was sent, waited for or not.
Execute(k) ==
  /\ status[k] = "sent"
  /\ status' = [status EXCEPT ![k] = "executed"]
  /\ UNCHANGED <<outstanding, answer>>

\* The client leaves with the reply to the request it issued.
Succeed(c) ==
  /\ outstanding # None
  /\ outstanding.client = c
  /\ status[outstanding.call] = "executed"
  /\ answer' = [answer EXCEPT ![c] = outstanding.call]
  /\ outstanding' = None
  /\ UNCHANGED status

\* The client leaves with a message that the user's script sent with the
\* request's id, whether the agent has run the request or not.
SucceedOtherwise(c) ==
  /\ outstanding # None
  /\ outstanding.client = c
  /\ answer' = [answer EXCEPT ![c] = 0]
  /\ outstanding' = None
  /\ UNCHANGED status

\* The client gives up: timeout, cancel or a script that is gone.
GiveUp(c) ==
  /\ outstanding # None
  /\ outstanding.client = c
  /\ outstanding' = None
  /\ UNCHANGED <<status, answer>>

Next ==
  \/ \E c \in Clients, k \in Calls : Issue(c, k)
  \/ \E k \in Calls : Execute(k)
  \/ \E c \in Clients : Succeed(c) \/ SucceedOtherwise(c) \/ GiveUp(c)

Spec == Init /\ [][Next]_rpcVars
=============================================================================
