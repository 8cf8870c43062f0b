--------------------------- MODULE MCGameSession ---------------------------
(* Small instances of GameSession.                                         *)
EXTENDS GameSession

MCRequest == SignIns \cup Notices
MCServiceRequest == Enters \cup Pawns
=============================================================================
