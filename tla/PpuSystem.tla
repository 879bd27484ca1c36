----------------------------- MODULE PpuSystem ------------------------------
(***************************************************************************)
(* The PPU driver and the PPU hardware together: how a frame drawn by a    *)
(* process reaches the screen, and what keeps the two from reading what    *)
(* the other is writing.                                                   *)
(***************************************************************************)
EXTENDS PpuDriver, PpuCore

vars == <<busVars, driverVars, coreVars>>

Init == BusInit /\ DriverInit /\ CoreInit

Software == DriverNext /\ UNCHANGED coreVars
Hardware == Clock /\ UNCHANGED driverVars

Next == Software \/ Hardware

Spec == Init /\ [][Next]_vars

(***************************************************************************)
(* The clock runs; a thread inside the driver is scheduled again; an       *)
(* interrupt that is pending is taken; the memory grants a DMA engine that *)
(* waits for it.                                                           *)
(***************************************************************************)
DmaMoves == rd' + wr' > rd + wr

FairSpec ==
  /\ Spec
  /\ WF_vars(Hardware)
  /\ WF_vars(Hardware /\ DmaMoves)
  /\ WF_vars(PpuIrq /\ UNCHANGED coreVars)
  /\ \A t \in Thread : WF_vars(KernelStep(t) /\ UNCHANGED coreVars)

-----------------------------------------------------------------------------
(***************************************************************************)
(* The hand-off of a frame: from the write of the DMA address until the    *)
(* interrupt handler has run.                                              *)
(***************************************************************************)
Transferring == update_avail \/ dma_engine_start \/ started \/ done
Signalling   == ppu_dma_rdy_irq \/ irq_pending
HandOff      == Transferring \/ dma_rdy_for_sync \/ Signalling
SyncBusy     == vram_sync \/ syncing

TypeOK == BusTypeOK /\ DriverTypeOK /\ CoreTypeOK

(***************************************************************************)
(* Rule 2 of ppu.c: the kernel's VRAM has one user at a time, a thread or  *)
(* a hand-off, and it is locked exactly while it has one.  In particular   *)
(* ppu_irq, which unlocks without asking, never unlocks a thread's section.*)
(***************************************************************************)
VramExclusive ==
  /\ vram_lock = 1 <=> (HandOff \/ \E t \in Thread : InCritical(t))
  /\ HandOff => \A t \in Thread : ~InCritical(t)
  /\ \A t, u \in Thread : InCritical(t) /\ InCritical(u) => t = u

(***************************************************************************)
(* A hand-off is at one stage at a time: the DMA address in the PIO, the   *)
(* start pulse, the transfer, its completion, the wait for the sync and    *)
(* the sync, the interrupt line, the interrupt controller.  Each register  *)
(* hands over to the next in one clock, so no stage is ever duplicated or  *)
(* skipped, in particular no interrupt is raised that no transfer earned.  *)
(* The first line is rule 1 of ppu.c, one DMA per interrupt: fpgame.sv     *)
(* clears update_avail after one clock, so an address that found the PPU   *)
(* busy would be lost, and vram_lock held for ever.                        *)
(***************************************************************************)
OneStage ==
  /\ update_avail => ~(dma_engine_start \/ started \/ done \/ dma_rdy_for_sync \/ Signalling)
  /\ dma_engine_start => ~(started \/ done \/ dma_rdy_for_sync \/ Signalling)
  /\ started => ~(done \/ dma_rdy_for_sync \/ Signalling)
  /\ done => ~(dma_rdy_for_sync \/ Signalling)
  /\ dma_rdy_for_sync => ~Signalling
  /\ ppu_dma_rdy_irq => ~irq_pending
  /\ SyncBusy => dma_rdy_for_sync

(***************************************************************************)
(* From the submission to the interrupt the frame is frozen: no step of    *)
(* any thread changes the kernel's VRAM or a control register, so what the *)
(* DMA engine and the registers pick up is the frame that was submitted.   *)
(***************************************************************************)
FrozenInFlight == [][HandOff => UNCHANGED <<kvram, ctrl>>]_vars

(***************************************************************************)
(* VRAM-C is not written while the sync writer reads it, and the display   *)
(* does not read VRAM-P while the sync writer writes it: a sync never      *)
(* outlives the blank ("GUARANTEED TO OCCUR IN PPU_SYNC", ppu.sv).         *)
(***************************************************************************)
SyncIsolated ==
  SyncBusy => /\ ~Transferring
              /\ sync_active

(***************************************************************************)
(* When the interrupt says that a frame has been taken over, the display   *)
(* has all of it: every word and every register of what is in the kernel.  *)
(***************************************************************************)
AcknowledgedIsShown == Signalling => vramP = kvram /\ dbuf = ctrl

(***************************************************************************)
(* A process that opens the PPU finds nothing of the one before it, in the *)
(* kernel, in VRAM-C or on the screen (ppu_release).                       *)
(***************************************************************************)
ClosedIsBlank ==
  ppu_lock = 0 => /\ owner = NoProc
                  /\ kvram = BlankVram /\ vramC = BlankVram /\ vramP = BlankVram
                  /\ ctrl = BlankCtrl /\ dbuf = BlankCtrl

(***************************************************************************)
(* Every submitted frame is taken over and acknowledged: vram_lock is not  *)
(* held for ever, whatever the holder.                                     *)
(***************************************************************************)
LockComesFree == vram_lock = 1 ~> vram_lock = 0

\* ppu_release leaves both of its spins and returns.
ReleaseReturns == \A t \in Thread : pc[t] = "spin_write" ~> pc[t] = "user"

(***************************************************************************)
(* The refinement of FrameHandoff.  The frame counts as shown from the     *)
(* moment the PPU enters PPU_SYNC for it: nothing reads VRAM-P until the   *)
(* sync is over.                                                           *)
(***************************************************************************)
KernelFrame == [vram |-> kvram, ctrl |-> ctrl]
ScreenFrame == [vram |-> vramP, ctrl |-> dbuf]

handoffPhase ==
  IF SyncBusy \/ Signalling THEN "presented"
  ELSE IF HandOff THEN "submitted"
  ELSE "drafting"

Abstract == INSTANCE FrameHandoff WITH
  draft <- KernelFrame,
  phase <- handoffPhase,
  shown <- IF SyncBusy THEN KernelFrame ELSE ScreenFrame

\* The driver and the hardware show exactly the frames that were submitted,
\* whole, one after the other, and show every one of them.
ImplementsFrameHandoffLive == Abstract!AbstractSpec
=============================================================================
