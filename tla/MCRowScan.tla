------------------------------ MODULE MCRowScan ------------------------------
(***************************************************************************)
(* Short frames of full lines.  Along the columns every combination of     *)
(* opaque and transparent layers meets every sprite priority.              *)
(***************************************************************************)
EXTENDS RowScan

EveryOther(c) == c % 2 = 1
PairsOf(c) == (c \div 2) % 2 = 1
FoursOf(c) == (c \div 4) % 2 = 1
EightsOf(c) == (c \div 8) % 4
=============================================================================
