-------------------------- MODULE MCControllerSystem --------------------------
(***************************************************************************)
(* The port and a program.  All buttons take the same path to con_state,   *)
(* at different places: here the first and the last one sent.              *)
(***************************************************************************)
EXTENDS ControllerSystem

TwoButtons == {"B", "R"}
One == {"t1"}
OpenAndAtexit == {"open", "atexit"}
=============================================================================
