---------------------------- MODULE MCDmaEngine -----------------------------
(***************************************************************************)
(* A transfer that goes round the FIFO three times, and transfers that     *)
(* follow each other.                                                      *)
(***************************************************************************)
EXTENDS DmaEngine

CONSTANT undefined \* what a memory returns for a word being written
=============================================================================
