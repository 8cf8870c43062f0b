------------------------------- MODULE Inbox -------------------------------
(***************************************************************************)
(* What the client's game thread is promised about the server's messages,  *)
(* with no thread, frame or queue in sight: one sequence, whose messages   *)
(* reach the client whole, in order and once.  When a connection ends the  *)
(* client keeps some of what was under way, from the front; only while     *)
(* there is none may it drop that too.  MgrMessage is shown to implement   *)
(* this; RpcChannel's channel is this one, its steps being made of these.  *)
(***************************************************************************)
EXTENDS Naturals, Sequences

CONSTANT Content             \* of the server's messages

VARIABLES connected,
          toClient           \* sent by the server and not yet handled

vars == <<connected, toClient>>

Init == connected \in BOOLEAN /\ toClient = << >>

Connect == ~connected /\ connected' = TRUE /\ UNCHANGED toClient

Sends(m) ==
  connected /\ toClient' = Append(toClient, m) /\ UNCHANGED connected

PeerSends == \E m \in Content : Sends(m)

Handle == toClient # << >> /\ toClient' = Tail(toClient) /\ UNCHANGED connected

End ==
  /\ connected /\ connected' = FALSE
  /\ \E k \in 0..Len(toClient) : toClient' = SubSeq(toClient, 1, k)

Empty == ~connected /\ toClient' = << >> /\ UNCHANGED connected

Next == Connect \/ PeerSends \/ Handle \/ End \/ Empty

Spec == Init /\ [][Next]_vars
=============================================================================
