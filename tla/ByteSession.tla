---------------------------- MODULE ByteSession ----------------------------
(***************************************************************************)
(* What a connection promises its two users, with no thread, buffer,       *)
(* notice or kernel in sight: sessions one after the other, each with two  *)
(* streams that start empty, arrive in order and without a gap, and end    *)
(* together.  What has not arrived when a session closes never does.       *)
(* TcpSocket is shown to implement it.                                     *)
(***************************************************************************)
EXTENDS Naturals, Sequences

CONSTANTS Message,    \* what the client gives, taken whole
          Piece       \* what the peer writes at once; it is read in any cuts

VARIABLES number,     \* of the session
          open,
          given, taken,      \* messages, from the client to the peer
          written, read      \* bytes, from the peer to the client

vars == <<number, open, given, taken, written, read>>

Init ==
  /\ number = 0 /\ open = FALSE
  /\ given = << >> /\ taken = << >> /\ written = << >> /\ read = << >>

Open ==
  /\ ~open /\ open' = TRUE /\ number' = number + 1
  /\ given' = << >> /\ taken' = << >> /\ written' = << >> /\ read' = << >>

Give ==
  /\ open
  /\ \E m \in Message : given' = Append(given, m)
  /\ UNCHANGED <<number, open, taken, written, read>>

Take ==
  /\ open /\ Len(taken) < Len(given)
  /\ taken' = Append(taken, given[Len(taken) + 1])
  /\ UNCHANGED <<number, open, given, written, read>>

Write ==
  /\ open
  /\ \E c \in Piece : written' = written \o c
  /\ UNCHANGED <<number, open, given, taken, read>>

Read ==
  /\ open
  /\ \E n \in Len(read) + 1..Len(written) : read' = SubSeq(written, 1, n)
  /\ UNCHANGED <<number, open, given, taken, written>>

Close ==
  /\ open /\ open' = FALSE
  /\ UNCHANGED <<number, given, taken, written, read>>

Next == Open \/ Give \/ Take \/ Write \/ Read \/ Close

Spec == Init /\ [][Next]_vars
=============================================================================
