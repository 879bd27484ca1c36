------------------------------- MODULE PpuBus -------------------------------
(***************************************************************************)
(* The state the PPU driver (Kernel/ppu/ppu.c) and the PPU hardware        *)
(* (fpgame/src/ppu) share: the kernel's VRAM copy in SDRAM, which the DMA  *)
(* engine reads, the memory-mapped control registers, the DMA address PIO  *)
(* and the interrupt.                                                      *)
(*                                                                         *)
(* VRAM is NumWords words of 16 bytes, the unit the DMA engine moves (3348 *)
(* of them: 0xD140 bytes).  The control registers are numbered in the      *)
(* order in which ppu_release resets them: BGSCROLL, FGSCROLL, BGCOLOR,    *)
(* ENABLE.                                                                 *)
(***************************************************************************)
EXTENDS Naturals, Sequences

CONSTANTS NumWords,  \* VRAM words
          NumRegs,   \* double-buffered control registers
          Value,     \* what a VRAM word or a control register holds
          Blank      \* the value after a reset, 0 in the code

ASSUME BusAssumption ==
  /\ NumWords \in Nat \ {0}
  /\ NumRegs \in Nat \ {0}
  /\ Blank \in Value

VARIABLES kvram,         \* the kernel's VRAM copy
          ctrl,          \* the control registers as the CPU wrote them
          update_avail,  \* the PIO holds a DMA address nobody has acted upon
          irq_pending    \* the interrupt controller has latched the PPU's edge

busVars == <<kvram, ctrl, update_avail, irq_pending>>

Word == 0 .. NumWords - 1
Reg  == 1 .. NumRegs

BlankVram == [w \in Word |-> Blank]
BlankCtrl == [r \in Reg  |-> Blank]

BusTypeOK ==
  /\ kvram \in [Word -> Value]
  /\ ctrl \in [Reg -> Value]
  /\ update_avail \in BOOLEAN
  /\ irq_pending \in BOOLEAN

BusInit ==
  /\ kvram = BlankVram
  /\ ctrl = BlankCtrl
  /\ update_avail = FALSE
  /\ irq_pending = FALSE
=============================================================================
