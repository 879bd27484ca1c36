---------------------------- MODULE MCPpuSystem -----------------------------
(***************************************************************************)
(* The instance of PpuSystem for TLC.                                      *)
(***************************************************************************)
EXTENDS PpuSystem, TLC

CONSTANTS t1, t2, t3, p1, p2

\* Two threads of one process race for vram_lock, and a thread of another process
\* races with them for the device.
ThreeThreads == {t1, t2, t3}
MixedProcess == t1 :> p1 @@ t2 :> p1 @@ t3 :> p2
=============================================================================
