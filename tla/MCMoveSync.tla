----------------------------- MODULE MCMoveSync -----------------------------
(* MoveSync with a yaw that truncates (1), one that is passed on (2) and   *)
(* one below what a DWORD holds (-2), and a walk of two tolerated steps. *)
EXTENDS MoveSync

MCYaw == {-2, 0, 1, 2}
MCPitch == {0, 1}
MCLocation == 0..2
MCSpeed == {3, 6}

=============================================================================
