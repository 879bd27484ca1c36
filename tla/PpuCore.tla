------------------------------ MODULE PpuCore -------------------------------
(***************************************************************************)
(* The PPU hardware around the frame hand-off, clock by clock: the PPU's   *)
(* state machine (ppu.sv), the DMA address PIO, the DMA engine with its    *)
(* FIFO, the sync writer that copies the CPU-facing VRAM (VRAM-C) to the   *)
(* PPU-facing VRAM (VRAM-P), the double-buffered control registers and the *)
(* vertical timing.  Each component is a conjunct of Clock that reads the  *)
(* registers of the others as they are before the edge.                    *)
(*                                                                         *)
(* The SDRAM and the bus grant the DMA engine's reads and writes when they *)
(* like.  The four VRAM segments are one memory of NumWords words that the *)
(* sync writer copies a word per clock.                                    *)
(*                                                                         *)
(* A definition whose name adds a word to the one that follows it is a     *)
(* mutant: the code with a mistake in it, for which some property of       *)
(* PpuSystem fails.                                                        *)
(***************************************************************************)
EXTENDS PpuBus

CONSTANTS FrameLen,  \* clocks of a video frame (840000)
          VBlankLen, \* clocks from vblank_start to vblank_end_soon (68800)
          FifoDepth  \* DMA words read and not yet written

\* The sync writer needs two clocks more than it copies words: ppu.sv relies
\* on the vertical blank being longer than that.
ASSUME TimingAssumption ==
  /\ FrameLen \in Nat
  /\ VBlankLen \in Nat
  /\ FifoDepth \in Nat \ {0}
  /\ NumWords + 2 <= VBlankLen
  /\ VBlankLen + 2 < FrameLen

VARIABLES timer,            \* clocks since vblank_start
          state,            \* the PPU's state machine
          vram_sync,        \* pulse: copy VRAM-C to VRAM-P
          dma_rdy_for_sync, \* a complete DMA transfer waits for its sync
          dma_engine_start, \* pulse: start the DMA transfer
          ppu_dma_rdy_irq,  \* the interrupt line
          started,          \* the DMA engine is in a transfer
          done,             \* pulse: the transfer is complete
          rd, wr,           \* words of the transfer read and written
          fifo,             \* the words read and not yet written
          vramC,            \* the CPU-facing VRAM
          syncing,          \* the sync writer is copying
          sync_addr,        \* the next word it copies
          vramP,            \* the PPU-facing VRAM
          dbuf              \* the control registers ppu_logic sees

fsmVars  == <<timer, state, vram_sync, dma_rdy_for_sync, dma_engine_start, ppu_dma_rdy_irq>>
dmaVars  == <<started, done, rd, wr, fifo, vramC>>
syncVars == <<syncing, sync_addr, vramP, dbuf>>
coreVars == <<fsmVars, dmaVars, syncVars>>

CoreTypeOK ==
  /\ timer \in 0 .. FrameLen - 1
  /\ state \in {"PPU_IDLE", "PPU_DISP", "PPU_SYNC"}
  /\ vram_sync \in BOOLEAN
  /\ dma_rdy_for_sync \in BOOLEAN
  /\ dma_engine_start \in BOOLEAN
  /\ ppu_dma_rdy_irq \in BOOLEAN
  /\ started \in BOOLEAN
  /\ done \in BOOLEAN
  /\ rd \in 0 .. NumWords
  /\ wr \in 0 .. NumWords
  /\ fifo \in Seq(Value)
  /\ vramC \in [Word -> Value]
  /\ syncing \in BOOLEAN
  /\ sync_addr \in 0 .. NumWords
  /\ vramP \in [Word -> Value]
  /\ dbuf \in [Reg -> Value]

\* The video counters leave reset inside the vertical blank.
CoreInit ==
  /\ timer \in 2 .. VBlankLen
  /\ state = "PPU_IDLE"
  /\ vram_sync = FALSE
  /\ dma_rdy_for_sync = FALSE
  /\ dma_engine_start = FALSE
  /\ ppu_dma_rdy_irq = FALSE
  /\ started = FALSE
  /\ done = FALSE
  /\ rd = NumWords
  /\ wr = NumWords
  /\ fifo = << >>
  /\ vramC = BlankVram
  /\ syncing = FALSE
  /\ sync_addr = 0
  /\ vramP = BlankVram
  /\ dbuf = BlankCtrl

(***************************************************************************)
(* Signals.  The video clock runs at half the PPU's: the PPU sees each     *)
(* video pulse for two of its clocks.                                      *)
(***************************************************************************)
vblank_start    == timer \in {0, 1}
vblank_end_soonEarly == timer \in {VBlankLen - 2, VBlankLen - 1}

vblank_end_soon == timer \in {VBlankLen, VBlankLen + 1}
vram_sync_done  == syncing /\ sync_addr = NumWords
accept_src_addr == update_avail /\ ~dma_rdy_for_sync
sync_active     == state = "PPU_SYNC"

VideoTiming == timer' = IF timer + 1 = FrameLen THEN 0 ELSE timer + 1

SrcAddrPioNoReset == update_avail' = update_avail

\* fpgame.sv feeds update_avail back as read_rst: the pulse lasts one clock,
\* whether or not the PPU accepted it.
SrcAddrPio == update_avail' = FALSE

(***************************************************************************)
(* The PPU's state machine                                                 *)
(***************************************************************************)
PpuState ==
  state' = CASE state = "PPU_IDLE" -> IF vblank_end_soon THEN "PPU_DISP" ELSE "PPU_IDLE"
             [] state = "PPU_DISP" -> IF ~vblank_start THEN "PPU_DISP"
                                      ELSE IF dma_rdy_for_sync THEN "PPU_SYNC" ELSE "PPU_IDLE"
             [] state = "PPU_SYNC" -> IF vblank_end_soon THEN "PPU_DISP" ELSE "PPU_SYNC"

SyncPulse == vram_sync' = (state = "PPU_DISP" /\ vblank_start /\ dma_rdy_for_sync)

DmaReadyInDisp == dma_rdy_for_sync' = \/ done /\ state = "PPU_DISP"
                                      \/ dma_rdy_for_sync /\ ~(sync_active /\ vram_sync_done)

DmaReady == dma_rdy_for_sync' = (done \/ (dma_rdy_for_sync /\ ~(sync_active /\ vram_sync_done)))

StartPulse == dma_engine_start' = accept_src_addr

IrqPulseAtFinish == ppu_dma_rdy_irq' = done

IrqPulse == ppu_dma_rdy_irq' = (sync_active /\ vram_sync_done)

PpuFsm == PpuState /\ SyncPulse /\ DmaReady /\ StartPulse /\ IrqPulse

\* The interrupt controller latches the rising edge (fpgame_int.dts).
IrqLatch == irq_pending' = (irq_pending \/ ppu_dma_rdy_irq)

(***************************************************************************)
(* The DMA engine                                                          *)
(***************************************************************************)
DmaIdle ==
  /\ ~started
  /\ started' = dma_engine_start
  /\ done' = FALSE
  /\ rd' = IF dma_engine_start THEN 0 ELSE rd
  /\ wr' = IF dma_engine_start THEN 0 ELSE wr
  /\ UNCHANGED <<fifo, vramC>>

DmaFinish ==
  /\ started
  /\ wr = NumWords
  /\ started' = FALSE
  /\ done' = TRUE
  /\ fifo' = << >>
  /\ UNCHANGED <<rd, wr, vramC>>

\* A read is issued only if the FIFO can take its word, even if none leaves.
fifo_room == rd < wr + FifoDepth

\* In a clock the engine may read a word, write a word, both or neither.
DmaTransfer ==
  /\ started
  /\ wr < NumWords
  /\ \E reads, writes \in BOOLEAN :
        LET kept == IF writes THEN Tail(fifo) ELSE fifo IN
        /\ reads => rd < NumWords /\ fifo_room
        /\ writes => fifo # << >>
        /\ rd' = IF reads THEN rd + 1 ELSE rd
        /\ wr' = IF writes THEN wr + 1 ELSE wr
        /\ fifo' = IF reads THEN Append(kept, kvram[rd]) ELSE kept
        /\ vramC' = IF writes THEN [vramC EXCEPT ![wr] = Head(fifo)] ELSE vramC
  /\ UNCHANGED <<started, done>>

DmaEngine == DmaIdle \/ DmaFinish \/ DmaTransfer

(***************************************************************************)
(* The sync writer, whose writes reach VRAM-P only while the interconnect  *)
(* gives it the ports, and the double-buffered control registers           *)
(***************************************************************************)
SyncIdle ==
  /\ ~syncing
  /\ syncing' = vram_sync
  /\ UNCHANGED <<sync_addr, vramP>>

SyncCopy ==
  /\ syncing
  /\ sync_addr < NumWords
  /\ vramP' = IF sync_active THEN [vramP EXCEPT ![sync_addr] = vramC[sync_addr]] ELSE vramP
  /\ sync_addr' = sync_addr + 1
  /\ UNCHANGED syncing

SyncFinish ==
  /\ vram_sync_done
  /\ syncing' = FALSE
  /\ sync_addr' = 0
  /\ UNCHANGED vramP

SyncWriter == SyncIdle \/ SyncCopy \/ SyncFinish

DoubleBufferedRegs == dbuf' = IF vram_sync THEN ctrl ELSE dbuf

Clock ==
  /\ VideoTiming
  /\ SrcAddrPio
  /\ PpuFsm
  /\ IrqLatch
  /\ DmaEngine
  /\ SyncWriter
  /\ DoubleBufferedRegs
  /\ UNCHANGED <<kvram, ctrl>>
=============================================================================
