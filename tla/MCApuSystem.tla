---------------------------- MODULE MCApuSystem -----------------------------
(***************************************************************************)
(* Instances of ApuSystem for TLC.                                         *)
(***************************************************************************)
EXTENDS ApuSystem

CONSTANT p1

OneProcess == {p1}
=============================================================================
