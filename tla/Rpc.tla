--------------------------------- MODULE Rpc ---------------------------------
(***************************************************************************)
(* What send / receive / reply promise to programs that keep to the        *)
(* protocol of user/process1.c (a consumer) and user/process2.c (its       *)
(* producers): each request is taken once, in the order of sending,        *)
(* answered once, and its producer goes on only with the answer.           *)
(***************************************************************************)
EXTENDS Naturals, Sequences

CONSTANT Clients

VARIABLES
  phase,    \* [Clients -> Phase], how far the request of each client is
  queue     \* the clients whose requests the server has yet to take

vars == <<phase, queue>>

Phase == {"idle", "queued", "served", "answered"}

Init ==
  /\ phase = [c \in Clients |-> "idle"]
  /\ queue = <<>>

Request(c) ==
  /\ phase[c] = "idle"
  /\ phase' = [phase EXCEPT ![c] = "queued"]
  /\ queue' = Append(queue, c)

(* The server takes one request at a time.                                 *)
Take ==
  /\ queue # <<>>
  /\ \A c \in Clients : phase[c] # "served"
  /\ phase' = [phase EXCEPT ![Head(queue)] = "served"]
  /\ queue' = Tail(queue)

Answer(c) ==
  /\ phase[c] = "served"
  /\ phase' = [phase EXCEPT ![c] = "answered"]
  /\ UNCHANGED queue

Collect(c) ==
  /\ phase[c] = "answered"
  /\ phase' = [phase EXCEPT ![c] = "idle"]
  /\ UNCHANGED queue

Next == Take \/ \E c \in Clients : Request(c) \/ Answer(c) \/ Collect(c)

Safety == Init /\ [][Next]_vars

(* No client need ever make a request; one that has been made is answered. *)
Fairness ==
  /\ WF_vars(Take)
  /\ \A c \in Clients : WF_vars(Answer(c)) /\ WF_vars(Collect(c))

Spec == Safety /\ Fairness
=============================================================================
