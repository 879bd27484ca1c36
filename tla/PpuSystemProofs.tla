-------------------------- MODULE PpuSystemProofs ---------------------------
(***************************************************************************)
(* Proofs about PpuSystem for every number of words, registers, threads    *)
(* and processes, every FIFO depth and every video timing that satisfies   *)
(* TimingAssumption.                                                       *)
(***************************************************************************)
EXTENDS PpuSystem, SequenceTheorems, TLAPS

USE BusAssumption, DriverAssumption, TimingAssumption
USE DEF BusAssumption, DriverAssumption, TimingAssumption

\* The driver's steps keep the types of the driver and of the bus.
LEMMA DriverKeepsTypes ==
  ASSUME TypeOK, Software
  PROVE  TypeOK'
<1> USE DEF TypeOK, BusTypeOK, DriverTypeOK, Goto, busVars, driverVars
<1>1. UNCHANGED coreVars /\ CoreTypeOK'
  BY DEF Software, coreVars, fsmVars, dmaVars, syncVars, CoreTypeOK, Word, Reg
<1>2. CASE PpuIrq
  BY <1>1, <1>2 DEF PpuIrq
<1>3. ASSUME NEW t \in Thread, SystemCall(t) \/ KernelStep(t)
      PROVE  BusTypeOK' /\ DriverTypeOK'
  <2>1. CASE Open(t)
    BY <2>1 DEF Open
  <2>2. CASE WriteLock(t)
    BY <2>2 DEF WriteLock, TryVramLock, Pc, HoldPc, WritePc
  <2>3. CASE CopyWord(t)
    BY <2>3 DEF CopyWord, Word, Reg
  <2>4. CASE WriteUnlock(t)
    BY <2>4 DEF WriteUnlock, Pc
  <2>5. CASE IoctlLock(t)
    BY <2>5 DEF IoctlLock, TryVramLock, Pc, HoldPc, IoctlPc
  <2>6. CASE IoctlUpdate(t)
    BY <2>6 DEF IoctlUpdate, Pc
  <2>7. CASE IoctlSet(t)
    BY <2>7 DEF IoctlSet, Pc, HoldPc, IoctlPc
  <2>8. CASE IoctlInvalid(t)
    BY <2>8 DEF IoctlInvalid, Pc, HoldPc, IoctlPc
  <2>9. CASE IoctlUnlock(t)
    BY <2>9 DEF IoctlUnlock, Pc
  <2>10. CASE Release(t)
    BY <2>10 DEF Release, Pc, ReleasePc
  <2>11. CASE ReleaseAcquire(t)
    BY <2>11 DEF ReleaseAcquire, TryVramLock, Pc, HoldPc, ResetPc
  <2>12. CASE ClearWord(t)
    <3>1. cursor' \in [Thread -> Nat] /\ pc' \in [Thread -> Pc]
      BY <2>12 DEF ClearWord, Pc, HoldPc, ResetPc
    <3>2. kvram' \in [Word -> Value]
      BY <2>12 DEF ClearWord
    <3> QED BY <2>12, <3>1, <3>2 DEF ClearWord
  <2>13. CASE ResetReg(t)
    <3>1. cursor' \in [Thread -> Nat] /\ pc' \in [Thread -> Pc]
      BY <2>13 DEF ResetReg, Pc, HoldPc, ResetPc
    <3>2. ctrl' \in [Reg -> Value]
      BY <2>13 DEF ResetReg
    <3> QED BY <2>13, <3>1, <3>2 DEF ResetReg
  <2>14. CASE ReleaseSubmit(t)
    BY <2>14 DEF ReleaseSubmit, Pc, ReleasePc
  <2>15. CASE ReleaseReacquire(t)
    BY <2>15 DEF ReleaseReacquire, TryVramLock, Pc, HoldPc, ResetPc
  <2>16. CASE ReleaseUnlockVram(t)
    BY <2>16 DEF ReleaseUnlockVram, Pc, ReleasePc
  <2>17. CASE ReleaseUnlockPpu(t)
    BY <2>17 DEF ReleaseUnlockPpu, Pc
  <2> QED
    BY <1>3, <2>1, <2>2, <2>3, <2>4, <2>5, <2>6, <2>7, <2>8, <2>9, <2>10, <2>11,
       <2>12, <2>13, <2>14, <2>15, <2>16, <2>17
    DEF SystemCall, KernelStep
<1> QED
  BY <1>1, <1>2, <1>3 DEF Software, DriverNext

\* A clock edge keeps the types of the hardware and of the bus.
LEMMA ClockKeepsTypes ==
  ASSUME TypeOK, Hardware
  PROVE  TypeOK'
<1> USE DEF TypeOK, BusTypeOK, CoreTypeOK
<1>1. Clock /\ UNCHANGED driverVars
  BY DEF Hardware
<1>2. DriverTypeOK'
  BY <1>1 DEF DriverTypeOK, driverVars
<1>3. timer' \in 0 .. FrameLen - 1
  BY <1>1 DEF Clock, VideoTiming
<1>4. state' \in {"PPU_IDLE", "PPU_DISP", "PPU_SYNC"}
  BY <1>1 DEF Clock, PpuFsm, PpuState
<1>5. /\ vram_sync' \in BOOLEAN /\ dma_rdy_for_sync' \in BOOLEAN
      /\ dma_engine_start' \in BOOLEAN /\ ppu_dma_rdy_irq' \in BOOLEAN
      /\ irq_pending' \in BOOLEAN /\ update_avail' \in BOOLEAN
  BY <1>1
  DEF Clock, PpuFsm, SyncPulse, DmaReady, StartPulse, IrqPulse, IrqLatch, SrcAddrPio,
    accept_src_addr, vram_sync_done, sync_active
<1>6. /\ started' \in BOOLEAN /\ done' \in BOOLEAN
      /\ rd' \in 0 .. NumWords /\ wr' \in 0 .. NumWords
      /\ fifo' \in Seq(Value) /\ vramC' \in [Word -> Value]
  <2>1. CASE DmaIdle
    <3>1. started' \in BOOLEAN
      BY <2>1, Zenon DEF DmaIdle
    <3>2. rd' \in 0 .. NumWords /\ wr' \in 0 .. NumWords
      BY <2>1 DEF DmaIdle
    <3> QED BY <2>1, <3>1, <3>2 DEF DmaIdle
  <2>2. CASE DmaFinish
    BY <2>2, EmptySeq DEF DmaFinish
  <2>3. CASE DmaTransfer
    <3>1. PICK reads \in BOOLEAN, writes \in BOOLEAN :
            LET kept == IF writes THEN Tail(fifo) ELSE fifo IN
            /\ reads => rd < NumWords /\ rd < wr + FifoDepth
            /\ writes => fifo # << >>
            /\ rd' = IF reads THEN rd + 1 ELSE rd
            /\ wr' = IF writes THEN wr + 1 ELSE wr
            /\ fifo' = IF reads THEN Append(kept, kvram[rd]) ELSE kept
            /\ vramC' = IF writes THEN [vramC EXCEPT ![wr] = Head(fifo)] ELSE vramC
      BY <2>3 DEF DmaTransfer, fifo_room
    <3>2. rd' \in 0 .. NumWords /\ wr' \in 0 .. NumWords
      BY <2>3, <3>1 DEF DmaTransfer
    <3> DEFINE kept == IF writes THEN Tail(fifo) ELSE fifo
    <3>3. kept \in Seq(Value) /\ (writes => Head(fifo) \in Value)
      BY <3>1, HeadTailProperties
    <3>4. reads => kvram[rd] \in Value
      BY <3>1 DEF Word
    <3>5. fifo' \in Seq(Value)
      BY <3>1, <3>3, <3>4, AppendProperties
    <3>6. vramC' \in [Word -> Value]
      BY <3>1, <3>3
    <3> QED BY <2>3, <3>2, <3>5, <3>6 DEF DmaTransfer
  <2> QED BY <1>1, <2>1, <2>2, <2>3 DEF Clock, DmaEngine
<1>7. /\ syncing' \in BOOLEAN /\ sync_addr' \in 0 .. NumWords
      /\ vramP' \in [Word -> Value] /\ dbuf' \in [Reg -> Value]
  <2>1. dbuf' \in [Reg -> Value]
    BY <1>1 DEF Clock, DoubleBufferedRegs
  <2>2. CASE SyncIdle
    BY <2>1, <2>2 DEF SyncIdle
  <2>3. CASE SyncCopy
    <3>1. vramC[sync_addr] \in Value
      BY <2>3 DEF SyncCopy, Word
    <3>2. vramP' \in [Word -> Value]
      BY <2>3, <3>1 DEF SyncCopy
    <3>3. sync_addr' \in 0 .. NumWords
      BY <2>3 DEF SyncCopy
    <3>4. syncing' \in BOOLEAN
      BY <2>3 DEF SyncCopy
    <3> QED BY <2>1, <3>2, <3>3, <3>4
  <2>4. CASE SyncFinish
    <3>0. 0 \in 0 .. NumWords
      OBVIOUS
    <3>1. sync_addr' \in 0 .. NumWords
      BY <2>4, <3>0, Zenon DEF SyncFinish
    <3>2. syncing' \in BOOLEAN
      BY <2>4, Zenon DEF SyncFinish
    <3>3. vramP' \in [Word -> Value]
      BY <2>4 DEF SyncFinish, vram_sync_done
    <3> QED BY <2>1, <3>1, <3>2, <3>3
  <2> QED BY <1>1, <2>2, <2>3, <2>4 DEF Clock, SyncWriter
<1> QED
  BY <1>1, <1>2, <1>3, <1>4, <1>5, <1>6, <1>7 DEF Clock

\* Every variable of the driver and of the hardware keeps its type.
THEOREM TypeCorrect == Spec => []TypeOK
<1>1. Init => TypeOK
  <2> SUFFICES ASSUME Init PROVE TypeOK
    OBVIOUS
  <2>1. BusTypeOK
    BY DEF Init, BusInit, BusTypeOK, BlankVram, BlankCtrl
  <2>2. DriverTypeOK
    BY DEF Init, DriverInit, DriverTypeOK, Pc
  <2>3. CoreTypeOK
    <3>1. fifo \in Seq(Value)
      BY EmptySeq DEF Init, CoreInit
    <3>2. timer \in 0 .. FrameLen - 1
      BY DEF Init, CoreInit
    <3>3. vramC \in [Word -> Value] /\ vramP \in [Word -> Value] /\ dbuf \in [Reg -> Value]
      BY DEF Init, CoreInit, BlankVram, BlankCtrl
    <3>4. rd \in 0 .. NumWords /\ wr \in 0 .. NumWords
      BY DEF Init, CoreInit
    <3>5. sync_addr \in 0 .. NumWords
      BY DEF Init, CoreInit
    <3> QED BY <3>1, <3>2, <3>3, <3>4, <3>5, Zenon DEF Init, CoreInit, CoreTypeOK
  <2> QED BY <2>1, <2>2, <2>3 DEF TypeOK
<1>2. TypeOK /\ UNCHANGED vars => TypeOK'
  BY DEF TypeOK, BusTypeOK, DriverTypeOK, CoreTypeOK, vars, busVars, driverVars, coreVars,
     fsmVars, dmaVars, syncVars, Word, Reg
<1>3. TypeOK /\ [Next]_vars => TypeOK'
  BY <1>2, DriverKeepsTypes, ClockKeepsTypes DEF Next
<1> QED BY <1>1, <1>3, PTL DEF Spec

-----------------------------------------------------------------------------
(***************************************************************************)
(* Exclusion.  A step of a thread does one of five things to the lock: the *)
(* thread keeps out of it, takes it, keeps it, gives it up, or hands it    *)
(* over to the hardware.                                                   *)
(***************************************************************************)
Holders == {t \in Thread : InCritical(t)}

Keeps == Holders' = Holders /\ UNCHANGED <<vram_lock, update_avail, irq_pending>>

Takes(t) ==
  /\ vram_lock = 0 /\ vram_lock' = 1
  /\ Holders' = Holders \cup {t}
  /\ UNCHANGED <<update_avail, irq_pending>>

Drops(t) ==
  /\ t \in Holders
  /\ vram_lock' = 0
  /\ Holders' = Holders \ {t}
  /\ UNCHANGED <<update_avail, irq_pending>>

HandsOver(t) ==
  /\ t \in Holders
  /\ update_avail' = TRUE
  /\ Holders' = Holders \ {t}
  /\ UNCHANGED <<vram_lock, irq_pending>>

\* VramExclusive in terms of the set of holders.
ExclusiveLock ==
  /\ vram_lock = 1 <=> (HandOff \/ Holders # {})
  /\ HandOff => Holders = {}
  /\ \A t, u \in Holders : t = u

\* VramExclusive in terms of who holds vram_lock.
LEMMA ExclusiveHolders ==
  /\ VramExclusive <=> ExclusiveLock
  /\ VramExclusive' <=> ExclusiveLock'
BY DEF VramExclusive, ExclusiveLock, Holders

\* Every step of a thread is of one of these kinds.
LEMMA ThreadSteps ==
  ASSUME TypeOK, NEW t \in Thread, SystemCall(t) \/ KernelStep(t)
  PROVE  Keeps \/ Takes(t) \/ Drops(t) \/ HandsOver(t)
<1> USE DEF Goto, Holders, InCritical, HoldPc, WritePc, IoctlPc, ResetPc
<1>1. pc \in [Thread -> Pc]
  BY DEF TypeOK, DriverTypeOK
<1>2. CASE Open(t)
  BY <1>2 DEF Open, Keeps, busVars
<1>3. CASE WriteLock(t)
  BY <1>1, <1>3 DEF WriteLock, TryVramLock, Takes, busVars
<1>4. CASE CopyWord(t)
  BY <1>4 DEF CopyWord, Keeps
<1>5. CASE WriteUnlock(t)
  BY <1>1, <1>5 DEF WriteUnlock, Drops, busVars
<1>6. CASE IoctlLock(t)
  BY <1>1, <1>6 DEF IoctlLock, TryVramLock, Takes, busVars
<1>7. CASE IoctlUpdate(t)
  BY <1>1, <1>7 DEF IoctlUpdate, HandsOver
<1>8. CASE IoctlSet(t)
  BY <1>1, <1>8 DEF IoctlSet, Keeps
<1>9. CASE IoctlInvalid(t)
  BY <1>1, <1>9 DEF IoctlInvalid, Keeps, busVars
<1>10. CASE IoctlUnlock(t)
  BY <1>1, <1>10 DEF IoctlUnlock, Drops, busVars
<1>11. CASE Release(t)
  BY <1>1, <1>11 DEF Release, Keeps, busVars
<1>12. CASE ReleaseAcquire(t)
  BY <1>1, <1>12 DEF ReleaseAcquire, TryVramLock, Takes, busVars
<1>13. CASE ClearWord(t)
  BY <1>1, <1>13 DEF ClearWord, Keeps
<1>14. CASE ResetReg(t)
  BY <1>1, <1>14 DEF ResetReg, Keeps
<1>15. CASE ReleaseSubmit(t)
  BY <1>1, <1>15 DEF ReleaseSubmit, HandsOver
<1>16. CASE ReleaseReacquire(t)
  BY <1>1, <1>16 DEF ReleaseReacquire, TryVramLock, Takes, busVars
<1>17. CASE ReleaseUnlockVram(t)
  BY <1>1, <1>17 DEF ReleaseUnlockVram, Drops, busVars
<1>18. CASE ReleaseUnlockPpu(t)
  BY <1>1, <1>18 DEF ReleaseUnlockPpu, Keeps, busVars
<1> QED
  BY <1>2, <1>3, <1>4, <1>5, <1>6, <1>7, <1>8, <1>9, <1>10, <1>11, <1>12, <1>13,
     <1>14, <1>15, <1>16, <1>17, <1>18
  DEF SystemCall, KernelStep

HandOffInv == VramExclusive /\ OneStage

\* The driver's steps keep the exclusion and add at most one hand-off.
LEMMA DriverKeepsHandOff ==
  ASSUME TypeOK, HandOffInv, Software
  PROVE  HandOffInv'
<1>1. UNCHANGED coreVars
  BY DEF Software
<1>2. /\ UNCHANGED <<dma_engine_start, started, done, dma_rdy_for_sync, ppu_dma_rdy_irq>>
      /\ UNCHANGED <<vram_sync, syncing>>
  BY <1>1 DEF coreVars, fsmVars, dmaVars, syncVars
<1>3. CASE PpuIrq
  <2>1. HandOff /\ ~HandOff'
    BY <1>2, <1>3 DEF PpuIrq, HandOff, Transferring, Signalling, HandOffInv, OneStage
  <2>2. Holders' = Holders
    BY <1>3 DEF PpuIrq, Holders, InCritical
  <2>3. VramExclusive'
    BY <1>3, <2>1, <2>2, ExclusiveHolders DEF HandOffInv, PpuIrq, ExclusiveLock
  <2>4. OneStage'
    BY <1>2, <1>3 DEF PpuIrq, HandOffInv, OneStage, Signalling, SyncBusy
  <2> QED BY <2>3, <2>4 DEF HandOffInv
<1>4. ASSUME NEW t \in Thread, SystemCall(t) \/ KernelStep(t)
      PROVE  HandOffInv'
  <2>1. Keeps \/ Takes(t) \/ Drops(t) \/ HandsOver(t)
    BY <1>4, ThreadSteps
  <2>2. vram_lock \in {0, 1}
    BY DEF TypeOK, DriverTypeOK
  <2>3. ExclusiveLock
    BY ExclusiveHolders DEF HandOffInv
  <2>4. CASE UNCHANGED <<update_avail, irq_pending>>
    <3>1. HandOff' <=> HandOff
      BY <1>2, <2>4 DEF HandOff, Transferring, Signalling
    <3>2. OneStage'
      BY <1>2, <2>4 DEF HandOffInv, OneStage, Signalling, SyncBusy
    <3>3. ASSUME Keeps PROVE ExclusiveLock'
      BY <2>3, <3>1, <3>3 DEF Keeps, ExclusiveLock
    <3>4. ASSUME Takes(t) PROVE ExclusiveLock'
      BY <2>3, <3>1, <3>4 DEF Takes, ExclusiveLock
    <3>5. ASSUME Drops(t) PROVE ExclusiveLock'
      BY <2>3, <3>1, <3>5 DEF Drops, ExclusiveLock
    <3>6. ASSUME HandsOver(t) PROVE FALSE
      <4>1. ~HandOff /\ ~update_avail
        BY <2>3, <3>6 DEF HandsOver, ExclusiveLock, HandOff, Transferring
      <4> QED BY <2>4, <3>6, <4>1 DEF HandsOver
    <3>7. ExclusiveLock'
      BY <2>1, <3>3, <3>4, <3>5, <3>6
    <3> QED BY <3>2, <3>7, ExclusiveHolders DEF HandOffInv
  <2>5. CASE HandsOver(t)
    <3>1. ~HandOff /\ HandOff'
      BY <2>3, <2>5 DEF HandsOver, ExclusiveLock, HandOff, Transferring
    <3>2. ExclusiveLock'
      BY <2>3, <2>5, <3>1 DEF HandsOver, ExclusiveLock
    <3>3. OneStage'
      BY <1>2, <2>5, <3>1
      DEF HandsOver, HandOffInv, HandOff, Transferring, OneStage, Signalling, SyncBusy
    <3> QED BY <3>2, <3>3, ExclusiveHolders DEF HandOffInv
  <2> QED BY <2>1, <2>4, <2>5 DEF Keeps, Takes, Drops
<1> QED BY <1>3, <1>4 DEF Software, DriverNext

\* A clock edge moves a hand-off to its next stage and neither makes nor loses one.
LEMMA ClockKeepsHandOff ==
  ASSUME TypeOK, HandOffInv, Hardware
  PROVE  HandOffInv'
<1>1. Clock /\ Holders' = Holders /\ vram_lock' = vram_lock
  BY DEF Hardware, driverVars, Holders, InCritical
<1>2. SyncBusy => dma_rdy_for_sync
  BY DEF HandOffInv, OneStage
<1>3. /\ ~update_avail'
      /\ dma_engine_start' <=> (update_avail /\ ~dma_rdy_for_sync)
      /\ dma_rdy_for_sync' <=> (done \/ (dma_rdy_for_sync /\ ~(state = "PPU_SYNC" /\ vram_sync_done)))
      /\ ppu_dma_rdy_irq' <=> (state = "PPU_SYNC" /\ vram_sync_done)
      /\ irq_pending' <=> (irq_pending \/ ppu_dma_rdy_irq)
      /\ vram_sync' <=> (state = "PPU_DISP" /\ vblank_start /\ dma_rdy_for_sync)
  BY <1>1
  DEF Clock, SrcAddrPio, PpuFsm, SyncPulse, DmaReady, StartPulse, IrqPulse, IrqLatch,
    accept_src_addr, sync_active
<1>4. \/ ~started /\ (started' <=> dma_engine_start) /\ ~done'
      \/ started /\ ~started' /\ done'
      \/ started /\ started' /\ (done' <=> done)
  BY <1>1 DEF Clock, DmaEngine, DmaIdle, DmaFinish, DmaTransfer
<1>5. \/ ~syncing /\ (syncing' <=> vram_sync)
      \/ syncing /\ ~vram_sync_done /\ syncing'
      \/ syncing /\ vram_sync_done /\ ~syncing'
  BY <1>1 DEF Clock, SyncWriter, SyncIdle, SyncCopy, SyncFinish, vram_sync_done
<1>6. vram_sync_done => syncing
  BY DEF vram_sync_done
<1>7. HandOff' <=> HandOff
  BY <1>2, <1>3, <1>4, <1>6 DEF HandOffInv, OneStage, HandOff, Transferring, Signalling, SyncBusy
<1>8. OneStage'
  BY <1>2, <1>3, <1>4, <1>5, <1>6 DEF HandOffInv, OneStage, Signalling, SyncBusy
<1>9. ExclusiveLock'
  BY <1>1, <1>7, ExclusiveHolders DEF HandOffInv, ExclusiveLock
<1> QED BY <1>8, <1>9, ExclusiveHolders DEF HandOffInv

\* Nothing is in flight and nobody holds the lock at first.
LEMMA InitHandOff == Init => HandOffInv
BY DEF Init, BusInit, DriverInit, CoreInit, HandOffInv, VramExclusive, OneStage, HandOff,
   Transferring, Signalling, SyncBusy, InCritical, HoldPc, WritePc, IoctlPc, ResetPc

\* Nothing happens to the hand-off between the steps.
LEMMA StutterKeepsHandOff == HandOffInv /\ UNCHANGED vars => HandOffInv'
BY DEF vars, busVars, driverVars, coreVars, fsmVars, dmaVars, syncVars, HandOffInv, VramExclusive,
   OneStage, HandOff, Transferring, Signalling, SyncBusy, InCritical

\* The invariant that carries the hand-off through every run.
THEOREM HandOffCorrect == Spec => []HandOffInv
<1>1. TypeOK /\ HandOffInv /\ [Next]_vars => HandOffInv'
  BY StutterKeepsHandOff, DriverKeepsHandOff, ClockKeepsHandOff DEF Next
<1> QED BY InitHandOff, <1>1, TypeCorrect, PTL DEF Spec

\* The kernel's VRAM has one user at a time, and ppu_irq never unlocks a
\* thread's critical section.
THEOREM VramIsExclusive == Spec => []VramExclusive
BY HandOffCorrect, PTL DEF HandOffInv

\* A hand-off is at one stage at a time, so that the PPU accepts every DMA
\* address in the one clock it is offered.
THEOREM StagesAreDistinct == Spec => []OneStage
BY HandOffCorrect, PTL DEF HandOffInv

-----------------------------------------------------------------------------
(***************************************************************************)
(* The frame in flight is frozen: the steps that store into the kernel's   *)
(* VRAM or a control register are steps of a holder of vram_lock.          *)
(***************************************************************************)
LEMMA OnlyHoldersStore ==
  ASSUME TypeOK, Next, HandOff, HandOffInv
  PROVE  UNCHANGED <<kvram, ctrl>>
<1>1. \A t \in Thread : pc[t] \notin HoldPc
  BY DEF HandOffInv, VramExclusive, InCritical
<1>2. CASE Hardware
  BY <1>2 DEF Hardware, Clock
<1>3. CASE PpuIrq
  BY <1>3 DEF PpuIrq
<1>4. ASSUME NEW t \in Thread, SystemCall(t)
      PROVE  UNCHANGED <<kvram, ctrl>>
  BY <1>4 DEF SystemCall, Open, WriteLock, IoctlLock, Release, busVars
<1>5. ASSUME NEW t \in Thread, KernelStep(t)
      PROVE  UNCHANGED <<kvram, ctrl>>
  <2>1. ~CopyWord(t) /\ ~IoctlSet(t) /\ ~ClearWord(t) /\ ~ResetReg(t)
    BY <1>1 DEF CopyWord, IoctlSet, ClearWord, ResetReg, Goto, HoldPc, WritePc, IoctlPc, ResetPc
  <2> QED BY <1>5, <2>1 DEF KernelStep, WriteUnlock, IoctlUpdate, IoctlInvalid, IoctlUnlock,
          ReleaseAcquire, ReleaseSubmit, ReleaseReacquire, ReleaseUnlockVram, ReleaseUnlockPpu, busVars
<1> QED BY <1>2, <1>3, <1>4, <1>5 DEF Next, Software, DriverNext

\* No step changes the frame between its submission and its interrupt.
THEOREM FrameIsFrozen == Spec => FrozenInFlight
<1>1. TypeOK /\ HandOffInv /\ [Next]_vars => [HandOff => UNCHANGED <<kvram, ctrl>>]_vars
  BY OnlyHoldersStore
<1> QED BY <1>1, TypeCorrect, HandOffCorrect, PTL DEF Spec, FrozenInFlight

-----------------------------------------------------------------------------
(***************************************************************************)
(* Timing.  The state machine is in PPU_DISP exactly outside of the blank, *)
(* and the sync writer keeps pace with the timer: it starts in the clock   *)
(* after vblank_start and copies a word per clock, so that it is done      *)
(* before vblank_end_soon if the blank is long enough for all words.       *)
(***************************************************************************)
SyncTiming ==
  /\ state = "PPU_DISP" => timer = 0 \/ timer > VBlankLen
  /\ state # "PPU_DISP" => 1 <= timer /\ timer <= VBlankLen
  /\ vram_sync => state = "PPU_SYNC" /\ timer = 1 /\ ~syncing
  /\ syncing => state = "PPU_SYNC" /\ timer = 2 + sync_addr
  /\ ~syncing => sync_addr = 0

\* A clock edge keeps the sync writer in step with the timer.
LEMMA ClockKeepsTiming ==
  ASSUME TypeOK, SyncTiming, Clock
  PROVE  SyncTiming'
<1> USE DEF SyncTiming, vblank_start, vblank_end_soon
<1>1. /\ timer \in 0 .. FrameLen - 1 /\ sync_addr \in 0 .. NumWords
      /\ state \in {"PPU_IDLE", "PPU_DISP", "PPU_SYNC"}
  BY DEF TypeOK, CoreTypeOK
<1>2. timer' = IF timer + 1 = FrameLen THEN 0 ELSE timer + 1
  BY DEF Clock, VideoTiming
<1>3. /\ state = "PPU_IDLE" => state' = IF vblank_end_soon THEN "PPU_DISP" ELSE "PPU_IDLE"
      /\ state = "PPU_SYNC" => state' = IF vblank_end_soon THEN "PPU_DISP" ELSE "PPU_SYNC"
      /\ state = "PPU_DISP" => IF vblank_start THEN state' = IF dma_rdy_for_sync THEN "PPU_SYNC" ELSE "PPU_IDLE"
                                               ELSE state' = "PPU_DISP"
  BY <1>1 DEF Clock, PpuFsm, PpuState
<1>4. vram_sync' <=> (state = "PPU_DISP" /\ vblank_start /\ dma_rdy_for_sync)
  BY DEF Clock, PpuFsm, SyncPulse, DmaReady, StartPulse, IrqPulse, IrqLatch
<1>5. \/ ~syncing /\ (syncing' <=> vram_sync) /\ sync_addr' = sync_addr
      \/ syncing /\ sync_addr < NumWords /\ syncing' /\ sync_addr' = sync_addr + 1
      \/ syncing /\ sync_addr = NumWords /\ ~syncing' /\ sync_addr' = 0
  BY DEF Clock, SyncWriter, SyncIdle, SyncCopy, SyncFinish, vram_sync_done
<1>6. /\ state' = "PPU_DISP" => timer' = 0 \/ timer' > VBlankLen
      /\ state' # "PPU_DISP" => 1 <= timer' /\ timer' <= VBlankLen
  BY <1>1, <1>2, <1>3
<1>7. vram_sync' => state' = "PPU_SYNC" /\ timer' = 1 /\ ~syncing'
  BY <1>1, <1>2, <1>3, <1>4, <1>5
<1>8. syncing' => state' = "PPU_SYNC" /\ timer' = 2 + sync_addr'
  BY <1>1, <1>2, <1>3, <1>5
<1>9. ~syncing' => sync_addr' = 0
  BY <1>5
<1> QED BY <1>6, <1>7, <1>8, <1>9

\* The sync writer is in step with the timer, always.
THEOREM TimingCorrect == Spec => []SyncTiming
<1>1. Init => SyncTiming
  BY DEF Init, CoreInit, SyncTiming
<1>2. TypeOK /\ SyncTiming /\ [Next]_vars => SyncTiming'
  <2>1. UNCHANGED coreVars /\ SyncTiming => SyncTiming'
    BY DEF coreVars, fsmVars, dmaVars, syncVars, SyncTiming
  <2> QED BY <2>1, ClockKeepsTiming DEF Next, Software, Hardware, vars
<1> QED BY <1>1, <1>2, TypeCorrect, PTL DEF Spec

\* VRAM-C is stable while the sync writer reads it, and the sync is over
\* before the display reads VRAM-P.
THEOREM SyncIsIsolated == Spec => []SyncIsolated
<1>1. HandOffInv /\ SyncTiming => SyncIsolated
  BY DEF HandOffInv, OneStage, SyncTiming, SyncIsolated, SyncBusy, Transferring, sync_active
<1> QED BY <1>1, HandOffCorrect, TimingCorrect, PTL

-----------------------------------------------------------------------------
(***************************************************************************)
(* Data.  What the kernel submitted travels unchanged: through the FIFO    *)
(* into VRAM-C, from VRAM-C into VRAM-P, with the control registers taken  *)
(* at the start of the sync.                                               *)
(***************************************************************************)
FifoHolds ==
  /\ Len(fifo) = rd - wr /\ wr <= rd
  /\ \A k \in 1 .. Len(fifo) : fifo[k] = kvram[wr + k - 1]

Transferred == \A w \in Word : w < wr => vramC[w] = kvram[w]
Synced      == \A w \in Word : w < sync_addr => vramP[w] = vramC[w]

DataInv ==
  /\ started => FifoHolds /\ Transferred
  /\ ~started => fifo = << >>
  /\ done \/ dma_rdy_for_sync => vramC = kvram
  /\ syncing => Synced /\ dbuf = ctrl
  /\ Signalling => vramP = kvram /\ dbuf = ctrl

\* Words below every address: the copy is the whole memory.
LEMMA CompleteCopy ==
  ASSUME NEW a \in [Word -> Value], NEW b \in [Word -> Value], NEW n,
         n = NumWords, \A w \in Word : w < n => a[w] = b[w]
  PROVE  a = b
<1>1. \A w \in Word : a[w] = b[w]
  BY DEF Word
<1> QED BY <1>1

\* A clock in which the DMA engine moves words keeps the FIFO and VRAM-C right.
LEMMA DmaTransferKeepsData ==
  ASSUME TypeOK, FifoHolds, Transferred, DmaTransfer, UNCHANGED kvram
  PROVE  FifoHolds' /\ Transferred'
<1> USE DEF FifoHolds, Transferred
<1>1. PICK reads \in BOOLEAN, writes \in BOOLEAN :
        LET kept == IF writes THEN Tail(fifo) ELSE fifo IN
        /\ reads => rd < NumWords /\ rd < wr + FifoDepth
        /\ writes => fifo # << >>
        /\ rd' = IF reads THEN rd + 1 ELSE rd
        /\ wr' = IF writes THEN wr + 1 ELSE wr
        /\ fifo' = IF reads THEN Append(kept, kvram[rd]) ELSE kept
        /\ vramC' = IF writes THEN [vramC EXCEPT ![wr] = Head(fifo)] ELSE vramC
  BY DEF DmaTransfer, fifo_room
<1> DEFINE kept == IF writes THEN Tail(fifo) ELSE fifo
<1>2. /\ rd \in 0 .. NumWords /\ wr \in 0 .. NumWords /\ fifo \in Seq(Value)
      /\ vramC \in [Word -> Value] /\ kvram \in [Word -> Value]
  BY DEF TypeOK, CoreTypeOK, BusTypeOK
<1>3. writes => /\ fifo # << >> /\ Len(fifo) \in Nat \ {0}
                /\ Head(fifo) = fifo[1] /\ Head(fifo) = kvram[wr]
  BY <1>1, <1>2, EmptySeq, HeadTailProperties
<1>4. /\ kept \in Seq(Value) /\ Len(kept) = rd - wr'
      /\ \A k \in 1 .. Len(kept) : kept[k] = kvram[wr' + k - 1]
  <2>1. CASE writes
    <3>1. /\ Tail(fifo) \in Seq(Value) /\ Len(Tail(fifo)) = Len(fifo) - 1
          /\ \A k \in 1 .. Len(Tail(fifo)) : Tail(fifo)[k] = fifo[k + 1]
      BY <1>2, <1>3, <2>1, HeadTailProperties
    <3>2. wr' = wr + 1 /\ kept = Tail(fifo)
      BY <1>1, <2>1
    <3>3. \A k \in 1 .. Len(Tail(fifo)) : fifo[k + 1] = kvram[wr + (k + 1) - 1]
      BY <1>2, <1>3, <2>1, <3>1
    <3>4. \A k \in 1 .. Len(Tail(fifo)) : wr + (k + 1) - 1 = wr' + k - 1
      BY <1>2, <3>2
    <3> QED BY <1>2, <3>1, <3>2, <3>3, <3>4
  <2>2. CASE ~writes
    BY <1>1, <1>2, <2>2
  <2> QED BY <2>1, <2>2
<1>5. wr' \in Nat /\ wr' <= rd
  BY <1>1, <1>2, <1>3
<1>6. fifo' = (IF reads THEN Append(kept, kvram[rd]) ELSE kept)
  BY <1>1
<1> HIDE DEF kept
<1>7. FifoHolds'
  <2>1. CASE reads
    <3>1. fifo' = Append(kept, kvram[rd]) /\ rd' = rd + 1 /\ kvram[rd] \in Value
      BY <1>1, <1>2, <1>6, <2>1 DEF Word
    <3>2. /\ Len(fifo') = Len(kept) + 1
          /\ \A k \in 1 .. Len(kept) : fifo'[k] = kept[k]
          /\ fifo'[Len(kept) + 1] = kvram[rd]
      BY <1>4, <3>1, AppendProperties
    <3>3. wr' + (Len(kept) + 1) - 1 = rd /\ Len(kept) \in Nat
      BY <1>2, <1>4, <1>5
    <3>4. \A k \in 1 .. Len(kept) + 1 : k \in 1 .. Len(kept) \/ k = Len(kept) + 1
      BY <3>3
    <3>5. \A k \in 1 .. Len(fifo') : fifo'[k] = kvram[wr' + k - 1]
      <4> SUFFICES ASSUME NEW k \in 1 .. Len(kept) + 1
                   PROVE  fifo'[k] = kvram[wr' + k - 1]
        BY <3>2
      <4>1. CASE k \in 1 .. Len(kept)
        BY <1>4, <3>2, <4>1
      <4>2. CASE k = Len(kept) + 1
        BY <3>2, <3>3, <4>2
      <4> QED BY <3>4, <4>1, <4>2
    <3>6. Len(fifo') = rd' - wr' /\ wr' <= rd'
      BY <1>2, <1>4, <1>5, <3>1, <3>2
    <3> QED BY <3>5, <3>6
  <2>2. CASE ~reads
    BY <1>1, <1>4, <1>5, <1>6, <2>2
  <2> QED BY <2>1, <2>2
<1>8. Transferred'
  BY <1>1, <1>2, <1>3 DEF Word
<1> QED BY <1>7, <1>8

\* The steps of the DMA engine: the transfer ends with VRAM-C complete.
LEMMA ClockKeepsDma ==
  ASSUME TypeOK, DataInv, HandOffInv, Clock
  PROVE  /\ started' => FifoHolds' /\ Transferred'
         /\ ~started' => fifo' = << >>
         /\ (done \/ done') => vramC' = kvram
         /\ ~started => vramC' = vramC
<1>1. /\ vramC \in [Word -> Value] /\ kvram \in [Word -> Value]
      /\ wr \in 0 .. NumWords /\ NumWords \in Nat
  BY DEF TypeOK, CoreTypeOK, BusTypeOK
<1>2. kvram' = kvram
  BY DEF Clock
<1>3. CASE DmaIdle
  <2>1. ~started /\ fifo = << >> /\ fifo' = << >> /\ vramC' = vramC /\ ~done'
    BY <1>3 DEF DmaIdle, DataInv
  <2>2. done => vramC = kvram
    BY DEF DataInv
  <2>3. started' => rd' = 0 /\ wr' = 0
    BY <1>3 DEF DmaIdle
  <2>4. started' => FifoHolds' /\ Transferred'
    BY <2>1, <2>3, EmptySeq DEF FifoHolds, Transferred, Word
  <2> QED BY <2>1, <2>2, <2>4
<1>4. CASE DmaFinish
  <2>1. Transferred /\ wr = NumWords /\ vramC' = vramC /\ fifo' = << >> /\ started /\ ~started'
    BY <1>4 DEF DmaFinish, DataInv
  <2>2. vramC = kvram
    BY <1>1, <2>1, CompleteCopy DEF Transferred
  <2> QED BY <2>1, <2>2
<1>5. CASE DmaTransfer
  <2>1. started /\ started' /\ (done' <=> done)
    BY <1>5 DEF DmaTransfer
  <2>2. ~done
    BY <2>1 DEF HandOffInv, OneStage
  <2>3. FifoHolds' /\ Transferred'
    BY <1>2, <1>5, <2>1, DmaTransferKeepsData DEF DataInv
  <2> QED BY <2>1, <2>2, <2>3
<1> QED BY <1>3, <1>4, <1>5 DEF Clock, DmaEngine

\* The steps of the sync writer: the sync ends with VRAM-P complete and the
\* registers taken over.
LEMMA ClockKeepsSync ==
  ASSUME TypeOK, DataInv, HandOffInv, SyncTiming, Clock
  PROVE  /\ syncing' => Synced' /\ dbuf' = ctrl
         /\ vram_sync_done => vramP' = kvram /\ dbuf' = ctrl
         /\ ~SyncBusy => vramP' = vramP /\ dbuf' = dbuf
<1>1. /\ vramC \in [Word -> Value] /\ vramP \in [Word -> Value]
      /\ sync_addr \in 0 .. NumWords /\ NumWords \in Nat
  BY DEF TypeOK, CoreTypeOK
<1>2. SyncBusy => vramC = kvram /\ vramC' = vramC
  <2>1. SyncBusy => dma_rdy_for_sync /\ ~started
    BY DEF HandOffInv, OneStage
  <2> QED BY <2>1, ClockKeepsDma DEF DataInv
<1>3. /\ vram_sync => dbuf' = ctrl
      /\ ~vram_sync => dbuf' = dbuf
  BY DEF Clock, DoubleBufferedRegs
<1>4. ~(vram_sync /\ syncing) /\ (syncing => state = "PPU_SYNC") /\ (~syncing => sync_addr = 0)
  BY DEF SyncTiming
<1>5. CASE SyncIdle
  <2>1. ~syncing /\ vramP' = vramP /\ sync_addr' = sync_addr /\ (syncing' <=> vram_sync)
    BY <1>5 DEF SyncIdle
  <2>2. syncing' => Synced'
    BY <1>4, <2>1 DEF Synced, Word
  <2> QED BY <1>3, <2>1, <2>2 DEF SyncBusy, vram_sync_done
<1>6. CASE SyncCopy
  <2>1. /\ syncing /\ syncing' /\ sync_addr < NumWords /\ sync_addr' = sync_addr + 1
        /\ vramP' = [vramP EXCEPT ![sync_addr] = vramC[sync_addr]]
    BY <1>4, <1>6 DEF SyncCopy, sync_active
  <2>2. Synced /\ dbuf = ctrl /\ SyncBusy
    BY <2>1 DEF DataInv, SyncBusy
  <2>3. Synced'
    BY <1>1, <1>2, <2>1, <2>2 DEF Synced, Word
  <2>4. ~vram_sync_done
    BY <2>1, <1>1 DEF vram_sync_done
  <2> QED BY <1>3, <1>4, <2>1, <2>2, <2>3, <2>4
<1>7. CASE SyncFinish
  <2>1. syncing /\ ~syncing' /\ sync_addr = NumWords /\ vramP' = vramP
    BY <1>7 DEF SyncFinish, vram_sync_done
  <2>2. Synced /\ dbuf = ctrl /\ SyncBusy
    BY <2>1 DEF DataInv, SyncBusy
  <2>3. vramP = vramC
    BY <1>1, <2>1, <2>2, CompleteCopy DEF Synced
  <2> QED BY <1>2, <1>3, <1>4, <2>1, <2>2, <2>3
<1> QED BY <1>5, <1>6, <1>7 DEF Clock, SyncWriter

\* A clock keeps the copies of the frame equal.
LEMMA ClockKeepsData ==
  ASSUME TypeOK, DataInv, HandOffInv, SyncTiming, Hardware
  PROVE  DataInv'
<1>1. Clock /\ kvram' = kvram /\ ctrl' = ctrl
  BY DEF Hardware, Clock
<1>2. /\ started' => FifoHolds' /\ Transferred'
      /\ ~started' => fifo' = << >>
      /\ (done \/ done') => vramC' = kvram
      /\ ~started => vramC' = vramC
  BY <1>1, ClockKeepsDma
<1>3. /\ syncing' => Synced' /\ dbuf' = ctrl
      /\ vram_sync_done => vramP' = kvram /\ dbuf' = ctrl
      /\ ~SyncBusy => vramP' = vramP /\ dbuf' = dbuf
  BY <1>1, ClockKeepsSync
<1>4. /\ dma_rdy_for_sync' => done \/ dma_rdy_for_sync
      /\ ppu_dma_rdy_irq' => vram_sync_done
      /\ irq_pending' => Signalling
  BY <1>1 DEF Clock, PpuFsm, SyncPulse, DmaReady, StartPulse, IrqPulse, IrqLatch, Signalling
<1>5. /\ dma_rdy_for_sync => ~started
      /\ Signalling => ~SyncBusy
  BY DEF HandOffInv, OneStage
<1>6. dma_rdy_for_sync' => vramC' = kvram
  BY <1>2, <1>4, <1>5 DEF DataInv
<1>7. Signalling' => vramP' = kvram /\ dbuf' = ctrl
  BY <1>3, <1>4, <1>5 DEF DataInv, Signalling
<1> QED BY <1>1, <1>2, <1>3, <1>6, <1>7 DEF DataInv

\* So does every call of the driver.
LEMMA DriverKeepsData ==
  ASSUME TypeOK, DataInv, HandOffInv, Software
  PROVE  DataInv'
<1>1. /\ UNCHANGED <<started, done, rd, wr, fifo, vramC, dma_rdy_for_sync>>
      /\ UNCHANGED <<ppu_dma_rdy_irq, vram_sync, syncing, sync_addr, vramP, dbuf>>
  BY DEF Software, coreVars, fsmVars, dmaVars, syncVars
<1>2. irq_pending' => irq_pending
  BY
  DEF Software, DriverNext, PpuIrq, SystemCall, KernelStep, Open, WriteLock, IoctlLock,
    Release,
     CopyWord, WriteUnlock, IoctlUpdate, IoctlSet, IoctlInvalid, IoctlUnlock, ReleaseAcquire, ClearWord,
     ResetReg, ReleaseSubmit, ReleaseReacquire, ReleaseUnlockVram, ReleaseUnlockPpu, busVars
<1>3. CASE HandOff
  <2>1. kvram' = kvram /\ ctrl' = ctrl
    BY <1>3, OnlyHoldersStore DEF Next
  <2> QED BY <1>1, <1>2, <2>1 DEF DataInv, Signalling, FifoHolds, Transferred, Synced, Word
<1>4. CASE ~HandOff
  <2>1. ~started /\ ~done /\ ~dma_rdy_for_sync /\ ~Signalling /\ ~syncing
    BY <1>4 DEF HandOff, Transferring, HandOffInv, OneStage, SyncBusy
  <2> QED BY <1>1, <1>2, <2>1 DEF DataInv, Signalling
<1> QED BY <1>3, <1>4

\* The frame arrives as it was submitted.
THEOREM DataCorrect == Spec => []DataInv
<1>1. Init => DataInv
  BY DEF Init, BusInit, CoreInit, DataInv, Signalling
<1>2. DataInv /\ UNCHANGED vars => DataInv'
  BY DEF vars, busVars, coreVars, fsmVars, dmaVars, syncVars, DataInv, Signalling, FifoHolds,
     Transferred, Synced, Word
<1>3. TypeOK /\ HandOffInv /\ SyncTiming /\ DataInv /\ [Next]_vars => DataInv'
  BY <1>2, ClockKeepsData, DriverKeepsData DEF Next
<1> QED BY <1>1, <1>3, TypeCorrect, HandOffCorrect, TimingCorrect, PTL DEF Spec

\* When the interrupt is raised, the display has every word and register of
\* the frame in the kernel.
THEOREM AcknowledgedFrameIsShown == Spec => []AcknowledgedIsShown
<1>1. DataInv => AcknowledgedIsShown
  BY DEF DataInv, AcknowledgedIsShown
<1> QED BY <1>1, DataCorrect, PTL

----------------------------------------------------------------------------
(* What a process leaves behind when it closes the PPU, and that the driver  *)
(* and the hardware implement FrameHandoff.                                  *)

(***************************************************************************)
(* One process at a time is inside the driver, and ppu_release runs alone: *)
(* a thread with the file open is a thread of the owner, and the release   *)
(* waits for all of them.                                                  *)
(***************************************************************************)
OneOwner ==
  /\ ppu_lock = 0 <=> owner = NoProc
  /\ \A t \in Thread : pc[t] # "user" => owner = ProcOf[t]
  /\ \A t, u \in Thread : pc[t] \in ReleasePc /\ u # t => pc[u] = "user"

\* What the interrupt acknowledges has passed through VRAM-C.
AckedInVramC == Signalling => vramC = kvram

DraftBlank  == kvram = BlankVram /\ ctrl = BlankCtrl
ScreenBlank == vramC = BlankVram /\ vramP = BlankVram /\ dbuf = BlankCtrl

\* How far ppu_release has erased the frame, at each of its steps.
Erased(t) ==
  /\ pc[t] = "memset" => cursor[t] \in Word /\ \A w \in Word : w < cursor[t] => kvram[w] = Blank
  /\ pc[t] = "reset_regs" => /\ kvram = BlankVram
                             /\ cursor[t] \in Reg /\ \A r \in Reg : r < cursor[t] => ctrl[r] = Blank
  /\ pc[t] \in {"dma_blank", "spin_blank", "unlock_vram", "unlock_ppu"} => DraftBlank
  /\ pc[t] = "spin_blank" => HandOff \/ ScreenBlank
  /\ pc[t] \in {"unlock_vram", "unlock_ppu"} => ~HandOff /\ ScreenBlank

ReleaseInv ==
  /\ OneOwner
  /\ AckedInVramC
  /\ \A t \in Thread : Erased(t)
  /\ ppu_lock = 0 => ~HandOff /\ DraftBlank /\ ScreenBlank

\* The clock leaves the threads alone: a hand-off is under way after it
\* exactly if one was before.
LEMMA ClockKeepsHandOffCount ==
  ASSUME TypeOK, HandOffInv, Hardware
  PROVE  HandOff' <=> HandOff
<1>1. Holders' = Holders /\ vram_lock' = vram_lock
  BY DEF Hardware, driverVars, Holders, InCritical
<1>2. ExclusiveLock /\ ExclusiveLock'
  BY ClockKeepsHandOff, ExclusiveHolders DEF HandOffInv
<1> QED BY <1>1, <1>2 DEF ExclusiveLock

\* Without a hand-off the clock changes neither VRAM-C nor what the display shows.
LEMMA IdleClockKeepsScreen ==
  ASSUME TypeOK, HandOffInv, SyncTiming, DataInv, Hardware, ~HandOff
  PROVE  UNCHANGED <<vramC, vramP, dbuf>>
<1>1. ~started /\ ~SyncBusy
  BY DEF HandOff, Transferring, HandOffInv, OneStage
<1> QED BY <1>1, ClockKeepsDma, ClockKeepsSync DEF Hardware

\* A clock keeps the acknowledged frame.
LEMMA ClockKeepsAcked ==
  ASSUME TypeOK, HandOffInv, SyncTiming, DataInv, AckedInVramC, Hardware
  PROVE  AckedInVramC'
<1>1. Clock /\ kvram' = kvram
  BY DEF Hardware, Clock
<1>2. Signalling' => Signalling \/ vram_sync_done
  BY <1>1 DEF Clock, PpuFsm, SyncPulse, DmaReady, StartPulse, IrqPulse, IrqLatch, Signalling
<1>3. CASE Signalling
  <2>1. ~started
    BY <1>3 DEF HandOffInv, OneStage
  <2>2. vramC' = vramC
    BY <1>1, <2>1, ClockKeepsDma
  <2> QED BY <1>1, <1>3, <2>2 DEF AckedInVramC
<1>4. CASE vram_sync_done
  <2>1. dma_rdy_for_sync /\ ~started
    BY <1>4 DEF vram_sync_done, HandOffInv, OneStage, SyncBusy
  <2>2. vramC' = vramC
    BY <1>1, <2>1, ClockKeepsDma
  <2> QED BY <1>1, <2>1, <2>2 DEF DataInv, AckedInVramC
<1> QED BY <1>2, <1>3, <1>4 DEF AckedInVramC

\* A clock keeps what is known of a release.
LEMMA ClockKeepsRelease ==
  ASSUME TypeOK, HandOffInv, SyncTiming, DataInv, ReleaseInv, Hardware
  PROVE  ReleaseInv'
<1>1. /\ UNCHANGED <<ppu_lock, owner, pc, cursor>> /\ kvram' = kvram /\ ctrl' = ctrl
      /\ HandOff' <=> HandOff
  BY ClockKeepsHandOffCount DEF Hardware, Clock, driverVars
<1>2. ~HandOff => (ScreenBlank => ScreenBlank')
  BY IdleClockKeepsScreen DEF ScreenBlank, BlankVram, BlankCtrl, Word, Reg
<1>3. DraftBlank => DraftBlank'
  BY <1>1 DEF DraftBlank, BlankVram, BlankCtrl, Word, Reg
<1>4. OneOwner'
  BY <1>1 DEF ReleaseInv, OneOwner
<1>5. AckedInVramC'
  BY ClockKeepsAcked DEF ReleaseInv
<1>6. ASSUME NEW t \in Thread PROVE Erased(t)'
  <2>1. Erased(t)
    BY DEF ReleaseInv
  <2> QED BY <1>1, <1>2, <1>3, <2>1 DEF Erased, BlankVram, Word, Reg
<1>7. (ppu_lock = 0 => ~HandOff /\ DraftBlank /\ ScreenBlank)'
  BY <1>1, <1>2, <1>3 DEF ReleaseInv
<1> QED BY <1>4, <1>5, <1>6, <1>7 DEF ReleaseInv

-----------------------------------------------------------------------------
\* The driver's steps change nothing in the hardware.
LEMMA SoftwareKeepsCore ==
  ASSUME Software
  PROVE  /\ UNCHANGED <<vramC, vramP, dbuf, ppu_dma_rdy_irq, syncing, vram_sync>>
         /\ UNCHANGED <<dma_engine_start, started, done, dma_rdy_for_sync>>
         /\ ScreenBlank => ScreenBlank'
         /\ SyncBusy' <=> SyncBusy
BY DEF Software, coreVars, fsmVars, dmaVars, syncVars, ScreenBlank, BlankVram, BlankCtrl, Word, Reg,
   SyncBusy

\* The owner is alone in the driver when it releases.
LEMMA DriverKeepsOwner ==
  ASSUME TypeOK, OneOwner, Software
  PROVE  OneOwner'
<1> USE DEF OneOwner, Goto
<1>1. pc \in [Thread -> Pc] /\ owner \in Proc \cup {NoProc} /\ ppu_lock \in {0, 1}
  BY DEF TypeOK, DriverTypeOK
<1>2. CASE PpuIrq
  BY <1>2 DEF PpuIrq
<1>3. ASSUME NEW t \in Thread, SystemCall(t) \/ KernelStep(t)
      PROVE  OneOwner'
  <2>1. CASE Open(t)
    <3>1. owner = NoProc => \A u \in Thread : pc[u] = "user"
      OBVIOUS
    <3> QED BY <1>1, <2>1, <3>1 DEF Open
  <2>2. CASE WriteLock(t) \/ IoctlLock(t)
    BY <1>1, <2>2 DEF WriteLock, IoctlLock, HasFile, Releasing, ReleasePc, ResetPc
  <2>3. CASE Release(t)
    <3>1. owner = ProcOf[t] /\ \A u \in Thread : pc[u] = "user"
      BY <2>3 DEF Release, HasFile
    <3>2. UNCHANGED <<ppu_lock, owner>> /\ \A u \in Thread : u # t => pc'[u] = "user"
      BY <1>1, <2>3, <3>1 DEF Release
    <3>3. "user" \notin ReleasePc
      BY DEF ReleasePc, ResetPc
    <3> QED BY <3>1, <3>2, <3>3
  <2>4. CASE ReleaseUnlockPpu(t)
    <3>1. \A u \in Thread : u # t => pc[u] = "user"
      BY <2>4 DEF ReleaseUnlockPpu, ReleasePc
    <3>2. \A u \in Thread : pc'[u] = "user"
      BY <1>1, <2>4, <3>1 DEF ReleaseUnlockPpu
    <3>3. \A u \in Thread : pc'[u] \notin ReleasePc
      BY <3>2 DEF ReleasePc, ResetPc
    <3> QED BY <2>4, <3>2, <3>3 DEF ReleaseUnlockPpu
  <2>5. CASE KernelStep(t) /\ ~ReleaseUnlockPpu(t)
    <3>1. /\ UNCHANGED <<ppu_lock, owner>> /\ pc[t] # "user"
          /\ \A u \in Thread : u # t => pc'[u] = pc[u]
          /\ pc'[t] \in ReleasePc => pc[t] \in ReleasePc
      BY <1>1, <2>5
      DEF KernelStep, CopyWord, WriteUnlock, IoctlUpdate, IoctlSet, IoctlInvalid, IoctlUnlock,
        ReleaseAcquire, ClearWord, ResetReg, ReleaseSubmit, ReleaseReacquire, ReleaseUnlockVram,
        ReleasePc, ResetPc
    <3> QED BY <1>1, <3>1
  <2> QED BY <1>3, <2>1, <2>2, <2>3, <2>4, <2>5 DEF SystemCall
<1> QED BY <1>2, <1>3 DEF Software, DriverNext

\* A thread that is not in the step: it stays as it is.  While it releases,
\* the only step others take is an open that fails.
LEMMA OthersKeepErased ==
  ASSUME TypeOK, OneOwner, Software,
         NEW t \in Thread, SystemCall(t) \/ KernelStep(t),
         NEW u \in Thread, u # t, Erased(u)
  PROVE  Erased(u)'
<1> USE DEF Goto
<1>1. pc \in [Thread -> Pc] /\ cursor \in [Thread -> Nat]
  BY DEF TypeOK, DriverTypeOK
<1>2. CASE pc[u] \in ReleasePc
  <2>1. pc[t] = "user" /\ Releasing
    BY <1>2 DEF OneOwner, Releasing
  <2>2. Open(t)
    <3>1. ~KernelStep(t)
      BY <2>1
      DEF KernelStep, CopyWord, WriteUnlock, IoctlUpdate, IoctlSet, IoctlInvalid, IoctlUnlock,
        ReleaseAcquire, ClearWord, ResetReg, ReleaseSubmit, ReleaseReacquire, ReleaseUnlockVram,
        ReleaseUnlockPpu
    <3> QED BY <2>1, <3>1 DEF SystemCall, WriteLock, IoctlLock, Release, HasFile
  <2>3. UNCHANGED <<pc, cursor, kvram, ctrl, update_avail, irq_pending>>
    BY <2>2 DEF Open, busVars
  <2>4. HandOff' <=> HandOff
    BY <2>3, SoftwareKeepsCore DEF HandOff, Transferring, Signalling
  <2>5. (DraftBlank => DraftBlank') /\ (ScreenBlank => ScreenBlank')
    BY <2>3, SoftwareKeepsCore DEF DraftBlank, BlankVram, BlankCtrl, Word, Reg
  <2> QED BY <2>3, <2>4, <2>5 DEF Erased, BlankVram, Word, Reg
<1>3. CASE pc[u] \notin ReleasePc
  <2>1. pc'[u] = pc[u]
    BY <1>1
    DEF SystemCall, KernelStep, Open, WriteLock, IoctlLock, Release, CopyWord, WriteUnlock, IoctlUpdate,
      IoctlSet, IoctlInvalid, IoctlUnlock, ReleaseAcquire, ClearWord, ResetReg, ReleaseSubmit,
      ReleaseReacquire, ReleaseUnlockVram, ReleaseUnlockPpu
  <2> QED BY <1>3, <2>1 DEF Erased, ReleasePc, ResetPc
<1> QED BY <1>2, <1>3

\* The steps of ppu_release: each adds its part to what is erased.
LEMMA OwnStepErases ==
  ASSUME TypeOK, HandOffInv, OneOwner, Software,
         NEW t \in Thread, SystemCall(t) \/ KernelStep(t), Erased(t)
  PROVE  Erased(t)'
<1> USE DEF Goto
<1>1. /\ pc \in [Thread -> Pc] /\ cursor \in [Thread -> Nat]
      /\ kvram \in [Word -> Value] /\ ctrl \in [Reg -> Value]
  BY DEF TypeOK, DriverTypeOK, BusTypeOK
<1>2. CASE pc'[t] \notin {"memset", "reset_regs", "dma_blank", "spin_blank", "unlock_vram", "unlock_ppu"}
  BY <1>2 DEF Erased
<1>3. CASE ReleaseAcquire(t)
  BY <1>1, <1>3 DEF ReleaseAcquire, Erased, Word
<1>4. CASE ClearWord(t)
  <2>1. /\ pc[t] = "memset" /\ cursor[t] \in 0 .. NumWords - 1 /\ NumWords \in Nat
        /\ \A w \in Word : w < cursor[t] => kvram[w] = Blank
        /\ kvram' = [kvram EXCEPT ![cursor[t]] = Blank]
    BY <1>4 DEF ClearWord, Erased, Word
  <2>2. \A w \in Word : w < cursor[t] + 1 => kvram'[w] = Blank
    BY <1>1, <2>1 DEF Word
  <2>3. CASE cursor[t] + 1 < NumWords
    <3>1. pc'[t] = "memset" /\ cursor'[t] = cursor[t] + 1
      BY <1>1, <1>4, <2>3 DEF ClearWord
    <3>2. cursor'[t] \in Word
      BY <2>1, <2>3, <3>1 DEF Word
    <3> QED BY <2>2, <3>1, <3>2 DEF Erased
  <2>4. CASE ~(cursor[t] + 1 < NumWords)
    <3>1. pc'[t] = "reset_regs" /\ cursor'[t] = 1
      BY <1>1, <1>4, <2>4 DEF ClearWord
    <3>2. kvram' = BlankVram
      <4>1. \A w \in Word : kvram'[w] = Blank
        BY <2>1, <2>2, <2>4 DEF Word
      <4>2. kvram' = [w \in Word |-> kvram'[w]]
        BY <1>1, <2>1
      <4> QED BY <4>1, <4>2 DEF BlankVram
    <3>3. cursor'[t] \in Reg /\ \A r \in Reg : ~(r < cursor'[t])
      BY <3>1 DEF Reg
    <3> QED BY <3>1, <3>2, <3>3 DEF Erased, BlankVram, Word
  <2> QED BY <2>3, <2>4
<1>5. CASE ResetReg(t)
  <2>1. /\ pc[t] = "reset_regs" /\ cursor[t] \in 1 .. NumRegs /\ NumRegs \in Nat
        /\ \A r \in Reg : r < cursor[t] => ctrl[r] = Blank
        /\ ctrl' = [ctrl EXCEPT ![cursor[t]] = Blank]
        /\ kvram = BlankVram /\ kvram' = kvram
    BY <1>5 DEF ResetReg, Erased, Reg
  <2>2. \A r \in Reg : r < cursor[t] + 1 => ctrl'[r] = Blank
    BY <1>1, <2>1 DEF Reg
  <2>3. CASE cursor[t] < NumRegs
    <3>1. pc'[t] = "reset_regs" /\ cursor'[t] = cursor[t] + 1
      BY <1>1, <1>5, <2>3 DEF ResetReg
    <3>2. cursor'[t] \in Reg
      BY <2>1, <2>3, <3>1 DEF Reg
    <3> QED BY <2>1, <2>2, <3>1, <3>2 DEF Erased, BlankVram, Word
  <2>4. CASE ~(cursor[t] < NumRegs)
    <3>1. pc'[t] = "dma_blank"
      BY <1>1, <1>5, <2>4 DEF ResetReg
    <3>2. ctrl' = BlankCtrl
      <4>1. \A r \in Reg : ctrl'[r] = Blank
        BY <2>1, <2>2, <2>4 DEF Reg
      <4>2. ctrl' = [r \in Reg |-> ctrl'[r]]
        BY <1>1, <2>1
      <4> QED BY <4>1, <4>2 DEF BlankCtrl
    <3> QED BY <2>1, <3>1, <3>2 DEF Erased, DraftBlank, BlankVram, BlankCtrl, Word, Reg
  <2> QED BY <2>3, <2>4
<1>6. CASE ReleaseSubmit(t)
  <2>1. pc'[t] = "spin_blank" /\ DraftBlank /\ DraftBlank'
    BY <1>1, <1>6 DEF ReleaseSubmit, Erased, DraftBlank, BlankVram, BlankCtrl, Word, Reg
  <2>2. HandOff'
    BY <1>6 DEF ReleaseSubmit, HandOff, Transferring
  <2> QED BY <2>1, <2>2 DEF Erased
<1>7. CASE ReleaseReacquire(t) \/ ReleaseUnlockVram(t)
  <2>1. /\ pc[t] \in {"spin_blank", "unlock_vram"} /\ pc'[t] \in {"unlock_vram", "unlock_ppu"}
        /\ UNCHANGED <<kvram, ctrl, update_avail, irq_pending>>
    BY <1>1, <1>7 DEF ReleaseReacquire, ReleaseUnlockVram, busVars
  <2>2. ~HandOff
    <3>1. CASE ReleaseReacquire(t)
      BY <3>1 DEF ReleaseReacquire, TryVramLock, HandOffInv, VramExclusive
    <3>2. CASE ReleaseUnlockVram(t)
      BY <3>2 DEF ReleaseUnlockVram, Erased
    <3> QED BY <1>7, <3>1, <3>2
  <2>3. ~HandOff'
    BY <2>1, <2>2, SoftwareKeepsCore DEF HandOff, Transferring, Signalling
  <2>4. DraftBlank /\ ScreenBlank
    BY <2>1, <2>2 DEF Erased
  <2>5. DraftBlank' /\ ScreenBlank'
    BY <2>1, <2>4, SoftwareKeepsCore DEF DraftBlank, BlankVram, BlankCtrl, Word, Reg
  <2> QED BY <2>1, <2>3, <2>5 DEF Erased
<1>8. CASE Open(t)
  BY <1>8, <1>2 DEF Open
<1> QED
  <2>1. ASSUME SystemCall(t), ~Open(t) PROVE pc'[t] \in {"user", "copy", "switch", "spin_write"}
    BY <1>1, <2>1 DEF SystemCall, WriteLock, IoctlLock, Release
  <2>2. ASSUME KernelStep(t), ~ReleaseAcquire(t), ~ClearWord(t), ~ResetReg(t), ~ReleaseSubmit(t),
               ~ReleaseReacquire(t), ~ReleaseUnlockVram(t)
        PROVE  pc'[t] \in {"user", "copy", "unlock"}
    BY <1>1, <2>2
    DEF KernelStep, CopyWord, WriteUnlock, IoctlUpdate, IoctlSet, IoctlInvalid, IoctlUnlock,
      ReleaseUnlockPpu
  <2> QED BY <1>2, <1>3, <1>4, <1>5, <1>6, <1>7, <1>8, <2>1, <2>2

\* The interrupt of the blank frame finds the blank frame on the screen.
LEMMA IrqKeepsErased ==
  ASSUME TypeOK, HandOffInv, DataInv, AckedInVramC, PpuIrq, Software,
         NEW t \in Thread, Erased(t)
  PROVE  Erased(t)'
<1>1. UNCHANGED <<pc, cursor, kvram, ctrl>> /\ HandOff
  BY DEF PpuIrq, HandOff, Signalling
<1>2. vramC = kvram /\ vramP = kvram /\ dbuf = ctrl
  BY DEF PpuIrq, AckedInVramC, DataInv, Signalling
<1>3. DraftBlank => DraftBlank' /\ ScreenBlank'
  BY <1>1, <1>2, SoftwareKeepsCore DEF DraftBlank, ScreenBlank, BlankVram, BlankCtrl, Word, Reg
<1>4. pc[t] \notin {"unlock_vram", "unlock_ppu"}
  BY <1>1 DEF Erased
<1> QED BY <1>1, <1>3, <1>4 DEF Erased, BlankVram, Word, Reg

\* So does every call of the driver.
LEMMA DriverKeepsRelease ==
  ASSUME TypeOK, HandOffInv, DataInv, ReleaseInv, Software
  PROVE  ReleaseInv'
<1>1. OneOwner'
  BY DriverKeepsOwner DEF ReleaseInv
<1>2. AckedInVramC'
  <2>1. Signalling' => Signalling
    BY SoftwareKeepsCore
    DEF Software, DriverNext, PpuIrq, SystemCall, KernelStep, Open, WriteLock, IoctlLock, Release,
      CopyWord, WriteUnlock, IoctlUpdate, IoctlSet, IoctlInvalid, IoctlUnlock, ReleaseAcquire,
      ClearWord, ResetReg, ReleaseSubmit, ReleaseReacquire, ReleaseUnlockVram, ReleaseUnlockPpu,
      busVars, Signalling
  <2>2. Signalling => kvram' = kvram
    BY OnlyHoldersStore DEF HandOff, Next
  <2> QED BY <2>1, <2>2, SoftwareKeepsCore DEF ReleaseInv, AckedInVramC
<1>3. ASSUME NEW t \in Thread PROVE Erased(t)'
  <2>1. CASE PpuIrq
    BY <2>1, IrqKeepsErased DEF ReleaseInv
  <2>2. ASSUME NEW u \in Thread, SystemCall(u) \/ KernelStep(u) PROVE Erased(t)'
    BY <2>2, OwnStepErases, OthersKeepErased DEF ReleaseInv
  <2> QED BY <2>1, <2>2 DEF Software, DriverNext
<1>4. (ppu_lock = 0 => ~HandOff /\ DraftBlank /\ ScreenBlank)'
  <2> SUFFICES ASSUME ppu_lock' = 0 PROVE ~HandOff' /\ DraftBlank' /\ ScreenBlank'
    OBVIOUS
  <2>1. CASE ppu_lock = 0
    <3>1. /\ owner = NoProc /\ ~HandOff /\ \A t \in Thread : pc[t] = "user" /\ ProcOf[t] # NoProc
      BY <2>1 DEF ReleaseInv, OneOwner
    <3>2. ~PpuIrq
      BY <3>1 DEF PpuIrq, HandOff, Signalling
    <3>3. \A t \in Thread : ~SystemCall(t)
      BY <3>1 DEF SystemCall, Open, WriteLock, IoctlLock, Release, HasFile
    <3>4. \A t \in Thread : ~KernelStep(t)
      BY <3>1
      DEF KernelStep, CopyWord, WriteUnlock, IoctlUpdate, IoctlSet, IoctlInvalid, IoctlUnlock,
        ReleaseAcquire, ClearWord, ResetReg, ReleaseSubmit, ReleaseReacquire, ReleaseUnlockVram,
        ReleaseUnlockPpu, Goto
    <3> QED BY <3>2, <3>3, <3>4 DEF Software, DriverNext
  <2>2. CASE ppu_lock # 0
    <3>1. PICK t \in Thread : ReleaseUnlockPpu(t)
      BY <2>2
      DEF Software, DriverNext, PpuIrq, SystemCall, KernelStep, Open, WriteLock, IoctlLock, Release,
        CopyWord, WriteUnlock, IoctlUpdate, IoctlSet, IoctlInvalid, IoctlUnlock, ReleaseAcquire,
        ClearWord, ResetReg, ReleaseSubmit, ReleaseReacquire, ReleaseUnlockVram
    <3>2. ~HandOff /\ DraftBlank /\ ScreenBlank
      BY <3>1 DEF ReleaseUnlockPpu, Goto, ReleaseInv, Erased
    <3>3. UNCHANGED <<kvram, ctrl, update_avail, irq_pending>>
      BY <3>1 DEF ReleaseUnlockPpu, busVars
    <3>4. ~HandOff' /\ ScreenBlank'
      BY <3>2, <3>3, SoftwareKeepsCore DEF HandOff, Transferring, Signalling
    <3>5. DraftBlank'
      BY <3>2, <3>3 DEF DraftBlank, BlankVram, BlankCtrl, Word, Reg
    <3> QED BY <3>4, <3>5
  <2> QED BY <2>1, <2>2
<1> QED BY <1>1, <1>2, <1>3, <1>4 DEF ReleaseInv

\* ppu_release has erased, at each of its steps, what it has passed.
THEOREM ReleaseCorrect == Spec => []ReleaseInv
<1>1. Init => ReleaseInv
  <2> SUFFICES ASSUME Init PROVE ReleaseInv
    OBVIOUS
  <2>1. \A t \in Thread : pc[t] = "user"
    BY DEF Init, DriverInit
  <2>2. OneOwner /\ \A t \in Thread : Erased(t)
    BY <2>1 DEF Init, DriverInit, OneOwner, Erased, ReleasePc, ResetPc
  <2> QED BY <2>2 DEF Init, BusInit, CoreInit, ReleaseInv, AckedInVramC, HandOff, Transferring,
      Signalling, DraftBlank, ScreenBlank
<1>2. ReleaseInv /\ UNCHANGED vars => ReleaseInv'
  BY DEF vars, busVars, driverVars, coreVars, fsmVars, dmaVars, syncVars, ReleaseInv, OneOwner,
     AckedInVramC, Erased, DraftBlank, ScreenBlank, HandOff, Transferring, Signalling,
     BlankVram, BlankCtrl, Word, Reg
<1>3. TypeOK /\ HandOffInv /\ SyncTiming /\ DataInv /\ ReleaseInv /\ [Next]_vars => ReleaseInv'
  BY <1>2, ClockKeepsRelease, DriverKeepsRelease DEF Next
<1> QED BY <1>1, <1>3, TypeCorrect, HandOffCorrect, TimingCorrect, DataCorrect, PTL DEF Spec

\* A closed PPU is blank, in the kernel, in VRAM-C and on the screen: a
\* process finds nothing of the one before it.
THEOREM ClosedPpuIsBlank == Spec => []ClosedIsBlank
<1>1. ReleaseInv => ClosedIsBlank
  BY DEF ReleaseInv, OneOwner, DraftBlank, ScreenBlank, ClosedIsBlank
<1> QED BY <1>1, ReleaseCorrect, PTL

-----------------------------------------------------------------------------
(***************************************************************************)
(* The refinement of FrameHandoff.  Each step of a thread or of the clock  *)
(* is a step of the promise or leaves everything the promise speaks of as  *)
(* it is.                                                                  *)
(***************************************************************************)
AllInv == TypeOK /\ HandOffInv /\ SyncTiming /\ DataInv /\ ReleaseInv

shownFrame == IF SyncBusy THEN KernelFrame ELSE ScreenFrame

AbstractStep == Abstract!AbstractNext \/ UNCHANGED Abstract!abstractVars

\* A step after which the four abstract variables are as before.
LEMMA NothingSeen ==
  ASSUME UNCHANGED <<owner, kvram, ctrl, handoffPhase, shownFrame>>
  PROVE  AbstractStep
BY DEF AbstractStep, Abstract!abstractVars, KernelFrame, shownFrame

\* The phases, from the stages of the hand-off.
LEMMA PhaseOfStage ==
  ASSUME HandOffInv
  PROVE  /\ handoffPhase = "drafting" <=> ~HandOff
         /\ handoffPhase = "presented" <=> (SyncBusy \/ Signalling)
         /\ handoffPhase = "submitted" <=> (HandOff /\ ~SyncBusy /\ ~Signalling)
BY DEF HandOffInv, OneStage, handoffPhase, HandOff

\* The clock presents a submitted frame when the sync starts; otherwise it
\* does nothing the process could see.
LEMMA ClockRefines ==
  ASSUME AllInv, Hardware, HandOffInv', DataInv'
  PROVE  AbstractStep
<1> USE DEF AllInv
<1>1. UNCHANGED <<owner, kvram, ctrl>> /\ Clock
  BY DEF Hardware, Clock, driverVars
<1>2. KernelFrame' = KernelFrame
  BY <1>1 DEF KernelFrame
<1>3. HandOff' <=> HandOff
  BY ClockKeepsHandOffCount
<1>4. ~SyncBusy => ScreenFrame' = ScreenFrame
  BY <1>1, ClockKeepsSync DEF ScreenFrame
<1>5. /\ SyncBusy \/ Signalling => HandOff
      /\ SyncBusy' \/ Signalling' => HandOff'
      /\ ~(SyncBusy /\ Signalling) /\ ~(SyncBusy' /\ Signalling')
  BY DEF HandOffInv, OneStage, HandOff
<1>6. /\ handoffPhase' = IF SyncBusy' \/ Signalling' THEN "presented"
                         ELSE IF HandOff' THEN "submitted" ELSE "drafting"
      /\ handoffPhase = IF SyncBusy \/ Signalling THEN "presented"
                        ELSE IF HandOff THEN "submitted" ELSE "drafting"
      /\ shownFrame' = IF SyncBusy' THEN KernelFrame' ELSE ScreenFrame'
      /\ shownFrame = IF SyncBusy THEN KernelFrame ELSE ScreenFrame
  BY DEF handoffPhase, shownFrame
<1>7. /\ irq_pending' <=> (irq_pending \/ ppu_dma_rdy_irq)
      /\ ppu_dma_rdy_irq' <=> (state = "PPU_SYNC" /\ vram_sync_done)
  BY <1>1 DEF Clock, PpuFsm, SyncPulse, DmaReady, StartPulse, IrqPulse, IrqLatch, sync_active
<1>8. vram_sync_done => syncing
  BY DEF vram_sync_done
<1>9. CASE ~HandOff
  BY <1>1, <1>2, <1>3, <1>4, <1>5, <1>6, <1>9, NothingSeen
<1>10. CASE HandOff /\ ~SyncBusy /\ ~Signalling
  <2>1. ~Signalling'
    BY <1>7, <1>8, <1>10 DEF Signalling, SyncBusy
  <2>2. CASE SyncBusy'
    <3>1. handoffPhase = "submitted" /\ handoffPhase' = "presented" /\ shownFrame' = KernelFrame
      BY <1>2, <1>6, <1>10, <2>2
    <3>2. Abstract!Present
      BY <1>1, <1>2, <3>1 DEF Abstract!Present, shownFrame
    <3> QED BY <3>2 DEF AbstractStep, Abstract!AbstractNext
  <2>3. CASE ~SyncBusy'
    BY <1>1, <1>3, <1>4, <1>6, <1>10, <2>1, <2>3, NothingSeen
  <2> QED BY <2>2, <2>3
<1>11. CASE Signalling
  <2>1. Signalling'
    BY <1>7, <1>11 DEF Signalling
  <2> QED BY <1>1, <1>4, <1>5, <1>6, <1>11, <2>1, NothingSeen
<1>12. CASE SyncBusy
  <2>1. SyncBusy' \/ Signalling'
    <3>1. \/ ~syncing /\ (syncing' <=> vram_sync)
          \/ syncing /\ ~vram_sync_done /\ syncing'
          \/ syncing /\ vram_sync_done /\ ~syncing'
      BY <1>1 DEF Clock, SyncWriter, SyncIdle, SyncCopy, SyncFinish, vram_sync_done
    <3>2. syncing => state = "PPU_SYNC"
      BY DEF SyncTiming
    <3> QED BY <1>7, <1>12, <3>1, <3>2 DEF SyncBusy, Signalling
  <2>2. Signalling' => ScreenFrame' = KernelFrame'
    BY DEF DataInv, ScreenFrame, KernelFrame
  <2> QED BY <1>1, <1>2, <1>5, <1>6, <1>12, <2>1, <2>2, NothingSeen
<1> QED BY <1>9, <1>10, <1>11, <1>12

\* A step of a thread that stores into the frame is an edit of the draft.
LEMMA StoreRefines ==
  ASSUME AllInv, Software, NEW t \in Thread, InCritical(t),
         UNCHANGED <<owner, update_avail, irq_pending>>,
         NEW v \in Value,
         \/ \E w \in Word : kvram' = [kvram EXCEPT ![w] = v] /\ ctrl' = ctrl
         \/ \E r \in Reg : ctrl' = [ctrl EXCEPT ![r] = v] /\ kvram' = kvram
  PROVE  AbstractStep
<1> USE DEF AllInv
<1>1. ~HandOff /\ ~SyncBusy
  BY DEF HandOffInv, VramExclusive, OneStage, HandOff
<1>2. owner # NoProc
  <2>1. pc[t] # "user"
    BY DEF InCritical, HoldPc, WritePc, IoctlPc, ResetPc
  <2> QED BY <2>1 DEF ReleaseInv, OneOwner
<1>3. HandOff' = HandOff /\ SyncBusy' = SyncBusy /\ Signalling' = Signalling /\ ScreenFrame' = ScreenFrame
  BY SoftwareKeepsCore DEF HandOff, Transferring, Signalling, SyncBusy, ScreenFrame
<1>4. handoffPhase = "drafting" /\ UNCHANGED <<handoffPhase, shownFrame>>
  BY <1>1, <1>3, PhaseOfStage DEF handoffPhase, shownFrame
<1>5. \/ \E w \in Word : KernelFrame' = [KernelFrame EXCEPT !.vram[w] = v]
      \/ \E r \in Reg  : KernelFrame' = [KernelFrame EXCEPT !.ctrl[r] = v]
  <2>1. ASSUME NEW w \in Word, kvram' = [kvram EXCEPT ![w] = v], ctrl' = ctrl
        PROVE  KernelFrame' = [KernelFrame EXCEPT !.vram[w] = v]
    BY <2>1 DEF KernelFrame
  <2>2. ASSUME NEW r \in Reg, ctrl' = [ctrl EXCEPT ![r] = v], kvram' = kvram
        PROVE  KernelFrame' = [KernelFrame EXCEPT !.ctrl[r] = v]
    BY <2>2 DEF KernelFrame
  <2> QED BY <2>1, <2>2
<1>6. Abstract!Edit
  BY <1>2, <1>4, <1>5 DEF Abstract!Edit, shownFrame
<1> QED BY <1>6 DEF AbstractStep, Abstract!AbstractNext

\* A step of a thread that writes the DMA address submits the draft.
LEMMA SubmitRefines ==
  ASSUME AllInv, Software, NEW t \in Thread, InCritical(t),
         UNCHANGED <<owner, kvram, ctrl, irq_pending>>, update_avail' = TRUE
  PROVE  AbstractStep
<1> USE DEF AllInv
<1>1. ~HandOff /\ ~SyncBusy /\ ~Signalling
  BY DEF HandOffInv, VramExclusive, OneStage, HandOff
<1>2. owner # NoProc
  <2>1. pc[t] # "user"
    BY DEF InCritical, HoldPc, WritePc, IoctlPc, ResetPc
  <2> QED BY <2>1 DEF ReleaseInv, OneOwner
<1>3. /\ HandOff' /\ ~SyncBusy' /\ ~Signalling'
      /\ ScreenFrame' = ScreenFrame /\ KernelFrame' = KernelFrame
  BY <1>1, SoftwareKeepsCore DEF HandOff, Transferring, Signalling, SyncBusy, ScreenFrame, KernelFrame
<1>4. handoffPhase = "drafting" /\ handoffPhase' = "submitted" /\ shownFrame' = shownFrame
  BY <1>1, <1>3 DEF handoffPhase, shownFrame
<1>5. Abstract!Submit
  BY <1>2, <1>3, <1>4 DEF Abstract!Submit, shownFrame
<1> QED BY <1>5 DEF AbstractStep, Abstract!AbstractNext

\* A step of a thread that neither stores nor submits: the frame, the phase
\* and the screen stay as they are.
LEMMA QuietSoftware ==
  ASSUME Software, UNCHANGED <<kvram, ctrl, update_avail, irq_pending>>
  PROVE  UNCHANGED <<KernelFrame, handoffPhase, shownFrame>>
<1>1. HandOff' = HandOff /\ SyncBusy' = SyncBusy /\ Signalling' = Signalling
  BY SoftwareKeepsCore DEF HandOff, Transferring, Signalling, SyncBusy
<1>2. ScreenFrame' = ScreenFrame /\ KernelFrame' = KernelFrame
  BY SoftwareKeepsCore DEF ScreenFrame, KernelFrame
<1> QED BY <1>1, <1>2 DEF handoffPhase, shownFrame

\* Every call of the driver is a step of FrameHandoff or none.
LEMMA DriverRefines ==
  ASSUME AllInv, Software
  PROVE  AbstractStep
<1> USE DEF AllInv, Goto
<1>1. CASE PpuIrq
  <2>1. UNCHANGED <<owner, kvram, ctrl>> /\ irq_pending /\ ~irq_pending' /\ UNCHANGED update_avail
    BY <1>1 DEF PpuIrq
  <2>2. Signalling /\ ~SyncBusy /\ ~Signalling' /\ ~SyncBusy' /\ ~HandOff'
    BY <2>1, SoftwareKeepsCore DEF HandOffInv, OneStage, HandOff, Transferring, Signalling, SyncBusy
  <2>3. KernelFrame' = KernelFrame /\ ScreenFrame' = ScreenFrame
    BY <2>1, SoftwareKeepsCore DEF KernelFrame, ScreenFrame
  <2>4. handoffPhase = "presented" /\ handoffPhase' = "drafting" /\ shownFrame' = shownFrame
    BY <2>2, <2>3 DEF handoffPhase, shownFrame
  <2>5. Abstract!Acknowledge
    BY <2>1, <2>3, <2>4 DEF Abstract!Acknowledge, shownFrame
  <2> QED BY <2>5 DEF AbstractStep, Abstract!AbstractNext
<1>2. ASSUME NEW t \in Thread, SystemCall(t) \/ KernelStep(t)
      PROVE  AbstractStep
  <2>1. CASE Open(t)
    <3>1. UNCHANGED <<kvram, ctrl, update_avail, irq_pending>>
      BY <2>1 DEF Open, busVars
    <3>2. CASE ppu_lock = 0
      <4>1. owner = NoProc /\ owner' = ProcOf[t] /\ ProcOf[t] \in Proc
        BY <2>1, <3>2 DEF Open, ReleaseInv, OneOwner
      <4>2. Abstract!Claim(ProcOf[t])
        BY <3>1, <4>1, QuietSoftware DEF Abstract!Claim, shownFrame
      <4> QED BY <4>1, <4>2 DEF AbstractStep, Abstract!AbstractNext
    <3>3. CASE ppu_lock # 0
      <4>1. owner' = owner
        BY <2>1, <3>3 DEF Open
      <4> QED BY <3>1, <4>1, QuietSoftware, NothingSeen
    <3> QED BY <3>2, <3>3
  <2>2. CASE CopyWord(t)
    <3>1. PICK v \in Value : kvram' = [kvram EXCEPT ![cursor[t]] = v]
      BY <2>2 DEF CopyWord
    <3>2. cursor[t] \in Word
      <4>1. cursor[t] \in Nat /\ limit[t] \in 0 .. NumWords /\ cursor[t] < limit[t] /\ NumWords \in Nat
        BY <2>2 DEF CopyWord, TypeOK, DriverTypeOK
      <4> QED BY <4>1 DEF Word
    <3>3. InCritical(t) /\ UNCHANGED <<owner, update_avail, irq_pending, ctrl>>
      BY <2>2 DEF CopyWord, InCritical, HoldPc, WritePc
    <3> QED BY <3>1, <3>2, <3>3, StoreRefines
  <2>3. CASE IoctlSet(t)
    <3>1. PICK r \in Reg, v \in Value : ctrl' = [ctrl EXCEPT ![r] = v]
      BY <2>3 DEF IoctlSet
    <3>2. InCritical(t) /\ UNCHANGED <<owner, update_avail, irq_pending, kvram>>
      BY <2>3 DEF IoctlSet, InCritical, HoldPc, IoctlPc
    <3> QED BY <3>1, <3>2, StoreRefines
  <2>4. CASE ClearWord(t)
    <3>1. cursor[t] \in Word /\ kvram' = [kvram EXCEPT ![cursor[t]] = Blank]
      BY <2>4 DEF ClearWord, ReleaseInv, Erased
    <3>2. InCritical(t) /\ UNCHANGED <<owner, update_avail, irq_pending, ctrl>>
      BY <2>4 DEF ClearWord, InCritical, HoldPc, ResetPc
    <3> QED BY <3>1, <3>2, StoreRefines
  <2>5. CASE ResetReg(t)
    <3>1. cursor[t] \in Reg /\ ctrl' = [ctrl EXCEPT ![cursor[t]] = Blank]
      BY <2>5 DEF ResetReg, ReleaseInv, Erased
    <3>2. InCritical(t) /\ UNCHANGED <<owner, update_avail, irq_pending, kvram>>
      BY <2>5 DEF ResetReg, InCritical, HoldPc, ResetPc
    <3> QED BY <3>1, <3>2, StoreRefines
  <2>6. CASE IoctlUpdate(t) \/ ReleaseSubmit(t)
    <3>1. /\ InCritical(t) /\ UNCHANGED <<owner, kvram, ctrl, irq_pending>>
          /\ update_avail' = TRUE
      BY <2>6 DEF IoctlUpdate, ReleaseSubmit, InCritical, HoldPc, IoctlPc, ResetPc
    <3> QED BY <3>1, SubmitRefines
  <2>7. CASE ReleaseUnlockPpu(t)
    <3>1. /\ UNCHANGED <<kvram, ctrl, update_avail, irq_pending>> /\ owner' = NoProc
          /\ pc[t] = "unlock_ppu"
      BY <2>7 DEF ReleaseUnlockPpu, busVars
    <3>2. ~HandOff /\ DraftBlank /\ ScreenBlank /\ owner # NoProc
      BY <3>1 DEF ReleaseInv, Erased, OneOwner
    <3>3. ~SyncBusy /\ handoffPhase = "drafting"
      BY <3>2, PhaseOfStage DEF HandOffInv, OneStage, HandOff
    <3>4. KernelFrame = Abstract!BlankFrame /\ shownFrame = Abstract!BlankFrame
      BY <3>2, <3>3 DEF KernelFrame, ScreenFrame, shownFrame, Abstract!BlankFrame, DraftBlank, ScreenBlank,
        BlankVram, BlankCtrl
    <3>5. Abstract!GiveBack
      BY <3>1, <3>2, <3>3, <3>4, QuietSoftware DEF Abstract!GiveBack, shownFrame
    <3> QED BY <3>5 DEF AbstractStep, Abstract!AbstractNext
  <2>8. CASE UNCHANGED <<owner, kvram, ctrl, update_avail, irq_pending>>
    BY <2>8, QuietSoftware, NothingSeen
  <2> QED
    BY <1>2, <2>1, <2>2, <2>3, <2>4, <2>5, <2>6, <2>7, <2>8
    DEF SystemCall, KernelStep, WriteLock, IoctlLock, Release, WriteUnlock, IoctlInvalid, IoctlUnlock,
      ReleaseAcquire, ReleaseReacquire, ReleaseUnlockVram, busVars
<1> QED BY <1>1, <1>2 DEF Software, DriverNext

\* The driver and the hardware show whole frames, the ones that were
\* submitted, one after the other, and only of the process that has the PPU
\* open: the safety part of FrameHandoff.
THEOREM FramesAreHandedOff == Spec => Abstract!AbstractSafety
<1>1. Init => Abstract!AbstractInit
  <2> SUFFICES ASSUME Init PROVE Abstract!AbstractInit
    OBVIOUS
  <2>1. ~SyncBusy /\ ~HandOff /\ ~Signalling
    BY DEF Init, BusInit, CoreInit, SyncBusy, HandOff, Transferring, Signalling
  <2> QED BY <2>1 DEF Init, BusInit, DriverInit, CoreInit, Abstract!AbstractInit, Abstract!BlankFrame,
        KernelFrame, ScreenFrame, handoffPhase, BlankVram, BlankCtrl
<1>2. AllInv /\ HandOffInv' /\ DataInv' /\ [Next]_vars
        => [Abstract!AbstractNext]_(Abstract!abstractVars)
  <2>1. UNCHANGED vars => UNCHANGED Abstract!abstractVars
    BY DEF vars, busVars, driverVars, coreVars, fsmVars, dmaVars, syncVars, Abstract!abstractVars,
      KernelFrame, ScreenFrame, handoffPhase, SyncBusy, HandOff, Transferring, Signalling
  <2> QED BY <2>1, ClockRefines, DriverRefines DEF Next, AbstractStep
<1> QED BY <1>1, <1>2, TypeCorrect, HandOffCorrect, TimingCorrect, DataCorrect, ReleaseCorrect, PTL
      DEF Spec, Abstract!AbstractSafety, AllInv
============================================================================
