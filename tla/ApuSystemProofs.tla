-------------------------- MODULE ApuSystemProofs ---------------------------
(***************************************************************************)
(* Proofs about ApuSystem for every number of chunks, samples and          *)
(* processes.                                                              *)
(***************************************************************************)
EXTENDS ApuSystem, SequenceTheorems, TLAPS

USE ApuAssumption, ApuDriverAssumption
USE DEF ApuAssumption, ApuDriverAssumption, Buf, Chunk

(***************************************************************************)
(* Types.  The fetcher waits for the memory only on behalf of a buffer.    *)
(***************************************************************************)
FetchInv == ram_state = "READ_WAIT" => addr # NoBuf

TypeInv == TypeOK /\ FetchInv

\* A clock of the APU, with or without an MMIO write, keeps its types.
LEMMA ClockKeepsTypes ==
  ASSUME HardwareTypeOK, FetchInv, buf' = buf,
         NEW valid \in BOOLEAN, NEW control, NEW base \in Buf \cup {NoBuf},
         Clock(valid, control, base)
  PROVE  HardwareTypeOK' /\ FetchInv'
<1> USE DEF HardwareTypeOK, FetchInv
<1>1. apu_en' \in BOOLEAN /\ irq_en' \in BOOLEAN /\ buf_irq' \in BOOLEAN
  <2>1. apu_en' \in BOOLEAN
    <3>1. CASE valid
      <4>1. apu_en' = ("ENABLE" \in control)
        BY <3>1 DEF Clock, Enable
      <4>2. CASE "ENABLE" \in control
        BY <4>1, <4>2
      <4>3. CASE "ENABLE" \notin control
        BY <4>1, <4>3
      <4> QED BY <4>2, <4>3
    <3>2. CASE ~valid
      BY <3>2, Zenon DEF Clock, Enable
    <3> QED BY <3>1, <3>2
  <2>2. irq_en' \in BOOLEAN /\ buf_irq' \in BOOLEAN
    BY DEF Clock, BufIrq
  <2> QED BY <2>1, <2>2
<1>2. queued_base' \in Buf \cup {NoBuf}
  BY DEF Clock, QueuedBase
<1>3. /\ addr' \in Buf \cup {NoBuf} /\ chunk_addr' \in Chunk
      /\ ram_state' \in {"IDLE", "READ_WAIT"} /\ chunk' \in Sample \cup {NoChunk}
      /\ FetchInv'
  <2>1. CASE FetchIdle
    BY <2>1 DEF FetchIdle, base_ack, mem_read_en
  <2>2. CASE FetchWait
    BY <2>2 DEF FetchWait, fetchVars
  <2>3. CASE FetchAck
    <3>1. buf[addr][chunk_addr] \in Sample
      BY <2>3 DEF FetchAck
    <3>2. chunk_addr' \in Chunk
      BY <2>3 DEF FetchAck
    <3> QED BY <2>3, <3>1, <3>2 DEF FetchAck
  <2> QED BY <2>1, <2>2, <2>3 DEF Clock, SampleFetcher
<1>4. sample_arr' \in Sample /\ sample_idx' \in 0 .. ChunkLen - 1 /\ arr_valid' \in BOOLEAN
  <2>1. CASE PlayerLoad
    BY <2>1 DEF PlayerLoad, chunk_ack
  <2>2. CASE PlayerAdvance
    <3>1. sample_arr' \in Sample /\ sample_idx' \in 0 .. ChunkLen - 1
      BY <2>2 DEF PlayerAdvance
    <3>2. arr_valid' \in BOOLEAN
      BY <2>2, Zenon DEF PlayerAdvance
    <3> QED BY <3>1, <3>2
  <2>3. CASE PlayerHold
    BY <2>3 DEF PlayerHold, playVars
  <2> QED BY <2>1, <2>2, <2>3 DEF Clock, ChunkPlayer
<1> QED BY <1>1, <1>2, <1>3, <1>4

\* What the clock does not touch keeps the hardware's types.
LEMMA NoClockKeepsTypes ==
  ASSUME TypeInv, UNCHANGED apuVars, buf' \in [Buf -> [Chunk -> Sample]]
  PROVE  HardwareTypeOK' /\ FetchInv'
BY DEF TypeInv, TypeOK, HardwareTypeOK, FetchInv, apuVars, controlVars, fetchVars, playVars

\* The interrupt handler's steps keep every type.
LEMMA IrqKeepsTypes ==
  ASSUME TypeInv, IrqStep
  PROVE  TypeInv'
<1> USE DEF TypeInv, TypeOK, DriverTypeOK, Irq, lockVars, handlerVars, mainVars
<1>0. buf \in [Buf -> [Chunk -> Sample]]
  BY DEF HardwareTypeOK
<1>1. CASE IrqAck
  BY <1>1, ClockKeepsTypes DEF IrqAck, WriteConfig
<1>2. CASE IrqRequest
  BY <1>0, <1>2, NoClockKeepsTypes DEF IrqRequest
<1>3. CASE IrqTarget
  BY <1>0, <1>3, NoClockKeepsTypes DEF IrqTarget
<1>4. CASE IrqSend
  <2>1. signals' \in [Proc -> Nat]
    <3>1. CASE irq_task \in Proc
      BY <1>4, <3>1 DEF IrqSend
    <3>2. CASE irq_task \notin Proc
      BY <1>4, <3>2 DEF IrqSend
    <3> QED BY <3>1, <3>2
  <2> QED BY <1>0, <1>4, <2>1, NoClockKeepsTypes DEF IrqSend
<1> QED BY <1>1, <1>2, <1>3, <1>4 DEF IrqStep

\* The signal handler's steps keep every type.
LEMMA HandlerKeepsTypes ==
  ASSUME TypeInv, NEW p \in Proc, HandlerStep(p)
  PROVE  TypeInv'
<1> USE DEF TypeInv, TypeOK, DriverTypeOK, Handler, HandlerPc, lockVars, irqVars, mainVars
<1>0. buf \in [Buf -> [Chunk -> Sample]] /\ Target \in Buf
  BY DEF HardwareTypeOK, Target
<1>1. CASE Deliver(p)
  BY <1>0, <1>1, NoClockKeepsTypes DEF Deliver
<1>2. CASE Write(p)
  BY <1>0, <1>2, NoClockKeepsTypes DEF Write
<1>3. CASE WriteInvalid(p)
  BY <1>0, <1>3, NoClockKeepsTypes DEF WriteInvalid
<1>4. CASE WriteLock(p)
  BY <1>0, <1>4, NoClockKeepsTypes DEF WriteLock
<1>5. CASE WriteRequest(p)
  BY <1>0, <1>5, NoClockKeepsTypes DEF WriteRequest
<1>6. CASE CopyChunk(p)
  <2>1. cursor' \in [Proc -> 1 .. NumChunks + 1]
    BY <1>6 DEF CopyChunk
  <2>2. buf' \in [Buf -> [Chunk -> Sample]]
    BY <1>0, <1>6 DEF CopyChunk
  <2> QED BY <1>6, <2>1, <2>2, NoClockKeepsTypes DEF CopyChunk
<1>7. CASE CopyFault(p)
  BY <1>0, <1>7, NoClockKeepsTypes DEF CopyFault
<1>8. CASE ClearChunk(p)
  <2>1. cursor' \in [Proc -> 1 .. NumChunks + 1]
    BY <1>8 DEF ClearChunk
  <2>2. buf' \in [Buf -> [Chunk -> Sample]]
    BY <1>0, <1>8 DEF ClearChunk
  <2> QED BY <1>8, <2>1, <2>2, NoClockKeepsTypes DEF ClearChunk
<1>9. CASE CopyDone(p)
  <2>1. HardwareTypeOK' /\ FetchInv'
    BY <1>0, <1>9, NoClockKeepsTypes DEF CopyDone
  <2> QED BY <1>9, <2>1 DEF CopyDone
<1>10. CASE SendBuf(p)
  BY <1>0, <1>10, ClockKeepsTypes DEF SendBuf, WriteBuf
<1>11. CASE Flip(p)
  BY <1>0, <1>11, NoClockKeepsTypes DEF Flip
<1>12. CASE WriteUnlock(p)
  BY <1>0, <1>12, NoClockKeepsTypes DEF WriteUnlock
<1>13. CASE WriteConfigAgain(p)
  <2>1. HardwareTypeOK' /\ FetchInv'
    BY <1>13, ClockKeepsTypes DEF WriteConfigAgain, WriteConfig
  <2> QED BY <1>13, <2>1 DEF WriteConfigAgain, WriteConfig
<1> QED
  BY <1>1, <1>2, <1>3, <1>4, <1>5, <1>6, <1>7, <1>8, <1>9, <1>10, <1>11, <1>12, <1>13
  DEF HandlerStep, WriteStep

\* The main program's steps keep every type.
LEMMA MainKeepsTypes ==
  ASSUME TypeInv, NEW p \in Proc, CallStep(p) \/ UserStep(p)
  PROVE  TypeInv'
<1> USE DEF TypeInv, TypeOK, DriverTypeOK, Main, UserPc, KernelPc, lockVars, irqVars, handlerVars
<1>0. buf \in [Buf -> [Chunk -> Sample]]
  BY DEF HardwareTypeOK
<1>1. CASE Open(p)
  BY <1>0, <1>1, NoClockKeepsTypes DEF Open
<1>2. CASE Register(p)
  BY <1>0, <1>2, NoClockKeepsTypes DEF Register
<1>3. CASE Ioctl(p)
  BY <1>0, <1>3, NoClockKeepsTypes DEF Ioctl
<1>4. CASE IoctlPid(p)
  BY <1>0, <1>4, NoClockKeepsTypes DEF IoctlPid
<1>5. CASE IoctlConfig(p)
  BY <1>5, ClockKeepsTypes DEF IoctlConfig, WriteConfig
<1>6. CASE Close(p)
  BY <1>0, <1>6, NoClockKeepsTypes DEF Close
<1>7. CASE ReleasePid(p)
  BY <1>0, <1>7, NoClockKeepsTypes DEF ReleasePid
<1>8. CASE ReleaseReq(p)
  BY <1>0, <1>8, NoClockKeepsTypes DEF ReleaseReq
<1>9. CASE ReleaseConfig(p)
  BY <1>9, ClockKeepsTypes DEF ReleaseConfig, WriteConfig
<1>10. CASE ReleaseLock(p)
  BY <1>0, <1>10, NoClockKeepsTypes DEF ReleaseLock
<1>11. CASE Forget(p)
  BY <1>0, <1>11, NoClockKeepsTypes DEF Forget
<1>12. CASE Mask(p)
  BY <1>0, <1>12, NoClockKeepsTypes DEF Mask
<1> QED
  BY <1>1, <1>2, <1>3, <1>4, <1>5, <1>6, <1>7, <1>8, <1>9, <1>10, <1>11, <1>12
  DEF CallStep, UserStep

\* Every variable of driver, library and APU keeps its type, in any number of
\* sessions: the fetcher, the player and apu_write never leave a buffer.
THEOREM TypesCorrect == Spec => []TypeInv
<1>1. Init => TypeInv
  <2> SUFFICES ASSUME Init PROVE TypeInv
    OBVIOUS
  <2>1. HardwareTypeOK /\ FetchInv
    <3>1. buf \in [Buf -> [Chunk -> Sample]]
      BY DEF Init, HardwareInit
    <3>2. chunk_addr \in Chunk /\ sample_idx \in 0 .. ChunkLen - 1
      BY DEF Init, HardwareInit
    <3> QED BY <3>1, <3>2, Zenon DEF Init, HardwareInit, HardwareTypeOK, FetchInv
  <2>2. DriverTypeOK
    BY DEF Init, DriverInit, DriverTypeOK, UserPc, KernelPc, HandlerPc
  <2> QED BY <2>1, <2>2 DEF TypeInv, TypeOK
<1>2. TypeInv /\ [Next]_vars => TypeInv'
  <2> SUFFICES ASSUME TypeInv, [Next]_vars PROVE TypeInv'
    OBVIOUS
  <2>1. CASE Hardware
    <3>1. HardwareTypeOK' /\ FetchInv'
      BY <2>1, ClockKeepsTypes DEF Hardware, TypeInv, TypeOK
    <3> QED
      BY <2>1, <3>1 DEF Hardware, TypeInv, TypeOK, DriverTypeOK, driverVars, lockVars,
         irqVars, handlerVars, mainVars
  <2>2. CASE UNCHANGED vars
    BY <2>2 DEF vars, apuVars, controlVars, fetchVars, playVars, driverVars, lockVars, irqVars,
       handlerVars, mainVars, TypeInv, TypeOK, HardwareTypeOK, DriverTypeOK, FetchInv
  <2> QED BY <2>1, <2>2, IrqKeepsTypes, HandlerKeepsTypes, MainKeepsTypes DEF Next
<1> QED BY <1>1, <1>2, PTL DEF Spec

\* No call, signal or fetch takes driver, library or APU out of its types: the
\* fetcher, the player and apu_write never leave a buffer.
THEOREM TypeCorrect == Spec => []TypeOK
BY TypesCorrect, PTL DEF TypeInv

-----------------------------------------------------------------------------
(***************************************************************************)
(* One session.  What follows holds while the APU is opened at most once:  *)
(* with a second session InUseUnchanged is violated.                       *)
(*                                                                         *)
(* Only the process that opened the APU is ever signalled or writes.       *)
(***************************************************************************)
Involved(p) ==
  \/ pc[p] # "off"
  \/ handler_pc[p] # "none"
  \/ signals[p] > 0
  \/ pid = p
  \/ irq_task = p

Alone ==
  /\ \A p, q \in Proc : Involved(p) /\ Involved(q) => p = q
  /\ sessions = 0 => \A p \in Proc : ~Involved(p)

NobodyJoins == sessions' = sessions /\ \A q \in Proc : Involved(q)' => Involved(q)

\* The interrupt handler signals nobody but the process it has read.
LEMMA IrqSignalsOwner ==
  ASSUME TypeInv, IrqStep
  PROVE  NobodyJoins
<1> USE DEF NobodyJoins, Involved, Irq, handlerVars, mainVars, lockVars
<1>1. CASE IrqAck
  BY <1>1 DEF IrqAck
<1>2. CASE IrqRequest
  BY <1>2 DEF IrqRequest
<1>3. CASE IrqTarget
  BY <1>3 DEF IrqTarget
<1>4. CASE IrqSend
  <2>1. signals \in [Proc -> Nat]
    BY DEF TypeInv, TypeOK, DriverTypeOK
  <2> QED BY <1>4, <2>1 DEF IrqSend
<1> QED BY <1>1, <1>2, <1>3, <1>4 DEF IrqStep

\* A signal handler that runs was signalled.
LEMMA HandlerIsInvolved ==
  ASSUME TypeInv, NEW p \in Proc, HandlerStep(p)
  PROVE  /\ handler_pc[p] # "none" \/ signals[p] > 0
         /\ NobodyJoins
<1> USE DEF NobodyJoins, Involved, Handler, mainVars, lockVars, irqVars
<1>0. signals \in [Proc -> Nat] /\ handler_pc \in [Proc -> HandlerPc]
  BY DEF TypeInv, TypeOK, DriverTypeOK
<1>1. CASE Deliver(p)
  BY <1>0, <1>1 DEF Deliver
<1>2. CASE Write(p)
  BY <1>0, <1>2 DEF Write
<1>3. CASE WriteInvalid(p)
  BY <1>0, <1>3 DEF WriteInvalid
<1>4. CASE WriteLock(p) \/ WriteRequest(p)
  BY <1>0, <1>4 DEF WriteLock, WriteRequest
<1>5. CASE CopyChunk(p) \/ ClearChunk(p)
  BY <1>5 DEF CopyChunk, ClearChunk
<1>6. CASE CopyFault(p) \/ CopyDone(p)
  BY <1>0, <1>6 DEF CopyFault, CopyDone
<1>7. CASE SendBuf(p) \/ Flip(p)
  BY <1>0, <1>7 DEF SendBuf, Flip
<1>8. CASE WriteUnlock(p) \/ WriteConfigAgain(p)
  BY <1>0, <1>8 DEF WriteUnlock, WriteConfigAgain
<1> QED
  BY <1>1, <1>2, <1>3, <1>4, <1>5, <1>6, <1>7, <1>8 DEF HandlerStep, WriteStep

\* Only apu_open makes a process the APU's.
LEMMA CallerIsInvolved ==
  ASSUME TypeInv, NEW p \in Proc, CallStep(p) \/ Close(p) \/ Mask(p)
  PROVE  NobodyJoins
<1> USE DEF NobodyJoins, Involved, Main, lockVars, irqVars, handlerVars
<1>0. pc \in [Proc -> UserPc \cup KernelPc]
  BY DEF TypeInv, TypeOK, DriverTypeOK
<1>1. CASE Register(p) \/ Ioctl(p)
  BY <1>0, <1>1 DEF Register, Ioctl
<1>2. CASE IoctlPid(p) \/ IoctlConfig(p)
  BY <1>0, <1>2 DEF IoctlPid, IoctlConfig
<1>3. CASE Close(p) \/ Mask(p)
  BY <1>0, <1>3 DEF Close, Mask
<1>4. CASE ReleasePid(p) \/ ReleaseReq(p)
  BY <1>0, <1>4 DEF ReleasePid, ReleaseReq
<1>5. CASE ReleaseConfig(p) \/ ReleaseLock(p)
  BY <1>0, <1>5 DEF ReleaseConfig, ReleaseLock
<1>6. CASE Forget(p)
  BY <1>0, <1>6 DEF Forget
<1> QED BY <1>1, <1>2, <1>3, <1>4, <1>5, <1>6 DEF CallStep

\* In one session no second process comes in.
LEMMA StepsKeepAlone ==
  ASSUME MaxSessions = 1, TypeInv, Alone, Next
  PROVE  Alone'
<1>1. ASSUME NobodyJoins PROVE Alone'
  BY <1>1 DEF NobodyJoins, Alone
<1>2. ASSUME NEW p \in Proc, Open(p) PROVE Alone'
  <2>1. sessions = 0 /\ \A q \in Proc : ~Involved(q)
    BY <1>2 DEF Open, Alone, TypeInv, TypeOK, DriverTypeOK
  <2>2. \A q \in Proc : Involved(q)' => q = p /\ apu_lock = 0
    BY <1>2, <2>1 DEF Open, Main, Involved, irqVars, handlerVars, TypeInv, TypeOK, DriverTypeOK
  <2>3. sessions' = 0 => apu_lock # 0
    BY <1>2, <2>1 DEF Open
  <2> QED BY <2>2, <2>3 DEF Alone
<1>3. CASE Hardware
  BY <1>1, <1>3
  DEF Hardware, NobodyJoins, Involved, driverVars, lockVars, irqVars, handlerVars,
    mainVars
<1> QED
  BY <1>1, <1>2, <1>3, IrqSignalsOwner, HandlerIsInvolved, CallerIsInvolved DEF Next, UserStep

-----------------------------------------------------------------------------
(***************************************************************************)
(* The APU is quiet until apu_ioctl arms the first request.                *)
(***************************************************************************)
EnablePc == {"opened", "registered", "ioctl_pid", "ioctl_config"}
Enabling == sessions = 0 \/ \E p \in Proc : pc[p] \in EnablePc

Quiet ==
  /\ ~irq_en /\ ~buf_irq
  /\ irq_pc = "idle"
  /\ req = 0
  /\ \A p \in Proc : handler_pc[p] = "none" /\ signals[p] = 0

FirstRequest == Enabling => Quiet

\* What a clock does to the interrupt and to the queue.
LEMMA ClockRequests ==
  ASSUME NEW valid, NEW control, NEW base, Clock(valid, control, base)
  PROVE  /\ irq_en' => irq_en \/ (valid /\ "IRQ_REQ" \in control)
         /\ buf_irq' => irq_en /\ irq_en' /\ queued_base = NoBuf
         /\ valid /\ "IRQ_ACK" \in control => ~irq_en' /\ ~buf_irq'
         /\ base = NoBuf => queued_base' \in {queued_base, NoBuf}
BY DEF Clock, BufIrq, QueuedBase

\* A step of the main program before the first request leaves the APU quiet.
LEMMA CallsKeepQuiet ==
  ASSUME TypeInv, Quiet, NEW p \in Proc, CallStep(p) \/ UserStep(p), ~IoctlConfig(p)
  PROVE  Quiet'
<1> USE DEF Quiet, lockVars, irqVars, handlerVars, apuVars, controlVars
<1>1. CASE Register(p) \/ Ioctl(p) \/ IoctlPid(p)
  BY <1>1 DEF Register, Ioctl, IoctlPid
<1>2. CASE ReleasePid(p) \/ ReleaseReq(p) \/ ReleaseLock(p) \/ Forget(p)
  BY <1>2 DEF ReleasePid, ReleaseReq, ReleaseLock, Forget
<1>3. CASE ReleaseConfig(p)
  <2>1. Clock(TRUE, {}, NoBuf)
    BY <1>3 DEF ReleaseConfig, WriteConfig
  <2>2. ~irq_en' /\ ~buf_irq'
    BY <2>1 DEF Clock, BufIrq
  <2> QED BY <1>3, <2>2 DEF ReleaseConfig
<1>4. CASE UserStep(p)
  BY <1>4 DEF UserStep, Open, Close, Mask
<1> QED BY <1>1, <1>2, <1>3, <1>4 DEF CallStep

\* After IOCTL_APU_ENABLE, and before any other step, nobody is enabling.
LEMMA StepsKeepFirstRequest ==
  ASSUME MaxSessions = 1, TypeInv, Alone, FirstRequest, Next
  PROVE  FirstRequest'
<1> USE DEF FirstRequest, Enabling
<1>0. pc \in [Proc -> UserPc \cup KernelPc]
  BY DEF TypeInv, TypeOK, DriverTypeOK
<1>1. CASE Hardware
  BY <1>1, ClockRequests DEF Hardware, Quiet, driverVars, lockVars, irqVars, handlerVars, mainVars
<1>2. CASE IrqStep
  <2>1. ~Quiet
    BY <1>2 DEF IrqStep, IrqAck, IrqRequest, IrqTarget, IrqSend, Irq, Quiet
  <2>2. UNCHANGED <<pc, sessions>>
    BY <1>2 DEF IrqStep, IrqAck, IrqRequest, IrqTarget, IrqSend, mainVars
  <2> QED BY <2>1, <2>2
<1>3. ASSUME NEW p \in Proc, HandlerStep(p) PROVE FirstRequest'
  <2>1. ~Quiet
    BY <1>3, HandlerIsInvolved DEF Quiet
  <2>2. UNCHANGED <<pc, sessions>>
    BY <1>3 DEF HandlerStep, WriteStep, Deliver, Write, WriteInvalid, WriteLock, WriteRequest,
       CopyChunk, CopyFault, ClearChunk, CopyDone, SendBuf, Flip, WriteUnlock,
       WriteConfigAgain, mainVars
  <2> QED BY <2>1, <2>2
<1>4. ASSUME NEW p \in Proc, IoctlConfig(p) PROVE FirstRequest'
  <2>1. pc[p] = "ioctl_config" /\ sessions' = sessions /\ pc' = [pc EXCEPT ![p] = "enabled"]
    BY <1>4 DEF IoctlConfig, Main
  <2>2. sessions # 0 /\ \A q \in Proc \ {p} : pc[q] = "off"
    BY <2>1 DEF Alone, Involved
  <2> QED BY <1>0, <2>1, <2>2 DEF EnablePc
<1>5. ASSUME NEW p \in Proc, CallStep(p) \/ UserStep(p), ~IoctlConfig(p) PROVE FirstRequest'
  <2>1. Enabling' => Enabling
    <3>1. CASE Open(p)
      BY <3>1 DEF Open, TypeInv, TypeOK, DriverTypeOK
    <3>2. CASE CallStep(p) \/ Close(p) \/ Mask(p)
      BY <1>0, <1>5, <3>2 DEF CallStep, Register, Ioctl, IoctlPid, ReleasePid, ReleaseReq,
         ReleaseConfig, ReleaseLock, Forget, Close, Mask, Main, EnablePc
    <3> QED BY <1>5, <3>1, <3>2 DEF UserStep
  <2> QED BY <1>5, <2>1, CallsKeepQuiet
<1> QED BY <1>1, <1>2, <1>3, <1>4, <1>5 DEF Next

-----------------------------------------------------------------------------
(***************************************************************************)
(* Requests and buffers.  OneRequest is made inductive by counting the     *)
(* faulted copy as an answer and by the queue being empty while a buffer   *)
(* is filled.  BufferInv says which buffer is where: the queue holds the   *)
(* one sent last, the fetcher that one if the queue is empty and the other *)
(* if it is not, so that the other is free once the queue is empty.        *)
(***************************************************************************)
FillPc   == {"copy", "fault", "buf"}
AnswerPc == FillPc \cup {"flip", "unlock", "config"}

RequestInv ==
  /\ irq_en => ~Asked
  /\ irq_pc = "request" => req = 0
  /\ Asked => queued_base = NoBuf
  /\ buf_irq => irq_en /\ queued_base = NoBuf
  /\ \A p \in Proc : handler_pc[p] \in AnswerPc => ~irq_en /\ ~Asked
  /\ \A p \in Proc : handler_pc[p] \in FillPc => queued_base = NoBuf

\* apu_write sends a buffer before it flips active_buf.
Flipping == \E p \in Proc : handler_pc[p] = "flip"
LastSent == IF Flipping THEN Target ELSE active_buf

BufferInv ==
  /\ queued_base \in {NoBuf, LastSent}
  /\ queued_base = NoBuf => addr \in {NoBuf, LastSent}
  /\ queued_base # NoBuf => addr \in {NoBuf, 1 - LastSent}

ApuInv == Alone /\ FirstRequest /\ RequestInv /\ BufferInv

(***************************************************************************)
(* Most steps stand aside: they neither raise nor note nor answer a        *)
(* request, and leave the queue and the fetcher alone.                     *)
(***************************************************************************)
Aside ==
  /\ UNCHANGED <<irq_en, buf_irq, queued_base, addr, active_buf>>
  /\ req' \in {0, req}
  /\ irq_pc' = "request" => irq_pc = "request"
  /\ \A q \in Proc : /\ handler_pc'[q] \in AnswerPc => handler_pc[q] \in AnswerPc
                     /\ handler_pc'[q] \in FillPc => handler_pc[q] \in FillPc
                     /\ handler_pc'[q] = "flip" <=> handler_pc[q] = "flip"

\* A step that touches no request keeps them single.
LEMMA AsideKeepsRequests ==
  ASSUME RequestInv, BufferInv, Aside
  PROVE  RequestInv' /\ BufferInv'
<1>1. Asked' => Asked
  BY DEF Aside, Asked
<1>2. RequestInv'
  BY <1>1 DEF Aside, RequestInv, Asked
<1>3. LastSent' = LastSent
  BY DEF Aside, LastSent, Flipping, Target
<1> QED BY <1>2, <1>3 DEF Aside, BufferInv

\* The calls that do not write the control register touch no request.
LEMMA CallsStandAside ==
  ASSUME NEW p \in Proc, CallStep(p) \/ UserStep(p), ~IoctlConfig(p), ~ReleaseConfig(p)
  PROVE  Aside
<1> USE DEF Aside, lockVars, irqVars, handlerVars, apuVars, controlVars, fetchVars
<1>1. CASE Register(p) \/ Ioctl(p) \/ IoctlPid(p)
  BY <1>1 DEF Register, Ioctl, IoctlPid
<1>2. CASE ReleasePid(p) \/ ReleaseReq(p) \/ ReleaseLock(p) \/ Forget(p)
  BY <1>2 DEF ReleasePid, ReleaseReq, ReleaseLock, Forget
<1>3. CASE UserStep(p)
  BY <1>3 DEF UserStep, Open, Close, Mask
<1> QED BY <1>1, <1>2, <1>3 DEF CallStep

AnswerStep(p) == WriteRequest(p) \/ SendBuf(p) \/ Flip(p) \/ WriteConfigAgain(p)

\* The steps of the signal handler before an answer touch no request.
LEMMA HandlersStandAside ==
  ASSUME TypeInv, NEW p \in Proc, HandlerStep(p), ~AnswerStep(p)
  PROVE  Aside
<1> USE DEF Aside, lockVars, irqVars, apuVars, controlVars, fetchVars, Handler, AnswerPc, FillPc
<1>0. handler_pc \in [Proc -> HandlerPc]
  BY DEF TypeInv, TypeOK, DriverTypeOK
<1>1. CASE Deliver(p)
  BY <1>0, <1>1 DEF Deliver
<1>2. CASE Write(p) \/ WriteInvalid(p)
  BY <1>0, <1>2 DEF Write, WriteInvalid
<1>3. CASE WriteLock(p)
  BY <1>0, <1>3 DEF WriteLock
<1>4. CASE CopyChunk(p) \/ ClearChunk(p)
  BY <1>0, <1>4 DEF CopyChunk, ClearChunk
<1>5. CASE CopyFault(p)
  BY <1>0, <1>5 DEF CopyFault
<1>6. CASE CopyDone(p)
  BY <1>0, <1>6 DEF CopyDone
<1>7. CASE WriteUnlock(p)
  BY <1>0, <1>7 DEF WriteUnlock
<1> QED
  BY <1>1, <1>2, <1>3, <1>4, <1>5, <1>6, <1>7 DEF HandlerStep, WriteStep, AnswerStep

(***************************************************************************)
(* A clock moves the queued buffer to an idle fetcher, and frees the       *)
(* fetcher when it has read all of its buffer.                             *)
(***************************************************************************)
LEMMA ClockBuffers ==
  ASSUME TypeInv, NEW valid, NEW control, NEW base, Clock(valid, control, base)
  PROVE  /\ addr = NoBuf /\ queued_base # NoBuf
              => addr' = queued_base /\ queued_base' = base
         /\ addr # NoBuf \/ queued_base = NoBuf
              => /\ addr' \in {addr, NoBuf}
                 /\ queued_base' = IF base = NoBuf THEN queued_base ELSE base
<1> USE DEF base_ack, Clock, QueuedBase, SampleFetcher, FetchIdle, FetchWait, FetchAck, fetchVars
<1>1. ram_state = "READ_WAIT" => addr # NoBuf
  BY DEF TypeInv, FetchInv
<1> QED BY <1>1

\* A clock without a write of the buffer register keeps the buffers in order.
LEMMA ClockKeepsBuffers ==
  ASSUME TypeInv, BufferInv, NEW valid, NEW control, Clock(valid, control, NoBuf),
         LastSent' = LastSent
  PROVE  BufferInv'
<1>1. LastSent \in Buf
  BY DEF LastSent, Target, TypeInv, TypeOK, DriverTypeOK
<1>2. /\ addr = NoBuf /\ queued_base # NoBuf
           => addr' = queued_base /\ queued_base' = NoBuf
      /\ addr # NoBuf \/ queued_base = NoBuf
           => addr' \in {addr, NoBuf} /\ queued_base' = queued_base
  BY ClockBuffers
<1> QED BY <1>1, <1>2 DEF BufferInv

\* A clock that leaves the driver alone keeps the request where it is.
LEMMA HardwareKeepsRequests ==
  ASSUME TypeInv, RequestInv, BufferInv, NEW control, "IRQ_REQ" \notin control,
         NEW valid, Clock(valid, control, NoBuf), UNCHANGED <<lockVars, irqVars, handlerVars>>
  PROVE  RequestInv' /\ BufferInv'
<1> USE DEF lockVars, irqVars, handlerVars
<1>1. Asked' <=> Asked
  BY DEF Asked
<1>2. /\ irq_en' => irq_en
      /\ buf_irq' => irq_en /\ irq_en' /\ queued_base = NoBuf
      /\ queued_base' \in {queued_base, NoBuf}
  BY ClockRequests
<1>3. RequestInv'
  BY <1>1, <1>2 DEF RequestInv
<1>4. LastSent' = LastSent
  BY DEF LastSent, Flipping, Target
<1> QED BY <1>3, <1>4, ClockKeepsBuffers

\* The interrupt handler takes over the request that was armed, and notes it.
LEMMA IrqKeepsRequests ==
  ASSUME TypeInv, RequestInv, BufferInv, IrqStep
  PROVE  RequestInv' /\ BufferInv'
<1> USE DEF Irq, lockVars, handlerVars, mainVars
<1>1. CASE IrqAck
  <2>1. Clock(TRUE, {"IRQ_ACK", "ENABLE"}, NoBuf)
    BY <1>1 DEF IrqAck, WriteConfig
  <2>2. ~irq_en' /\ ~buf_irq'
    BY <2>1 DEF Clock, BufIrq
  <2>3. queued_base' = NoBuf
    <3>1. queued_base = NoBuf
      BY <1>1 DEF IrqAck, RequestInv
    <3>2. QueuedBase(NoBuf)
      BY <2>1 DEF Clock
    <3> QED BY <3>1, <3>2 DEF QueuedBase
  <2>4. RequestInv'
    <3>1. irq_en /\ buf_irq /\ UNCHANGED <<req, handler_pc>> /\ irq_pc' = "request"
      BY <1>1 DEF IrqAck, RequestInv
    <3>2. req = 0 /\ \A p \in Proc : handler_pc[p] \notin AnswerPc
      BY <3>1, TypeInv DEF RequestInv, Asked, TypeInv, TypeOK, DriverTypeOK
    <3> QED BY <2>2, <2>3, <3>1, <3>2 DEF RequestInv, Asked
  <2>5. LastSent' = LastSent
    BY <1>1 DEF IrqAck, LastSent, Flipping, Target
  <2> QED BY <2>1, <2>4, <2>5, ClockKeepsBuffers
<1>2. CASE IrqRequest
  <2>1. RequestInv'
    BY <1>2 DEF IrqRequest, RequestInv, Asked, apuVars, controlVars
  <2>2. BufferInv'
    BY <1>2 DEF IrqRequest, BufferInv, LastSent, Flipping, Target, apuVars, controlVars, fetchVars
  <2> QED BY <2>1, <2>2
<1>3. CASE IrqTarget \/ IrqSend
  BY <1>3, AsideKeepsRequests
  DEF IrqTarget, IrqSend, Aside, apuVars, controlVars, fetchVars
<1> QED BY <1>1, <1>2, <1>3 DEF IrqStep

\* A request is answered by the one handler there is.
LEMMA AnswersKeepRequests ==
  ASSUME TypeInv, Alone, RequestInv, BufferInv, NEW p \in Proc, AnswerStep(p)
  PROVE  RequestInv' /\ BufferInv'
<1> USE DEF Handler, AnswerPc, FillPc
<1>0. /\ handler_pc \in [Proc -> HandlerPc] /\ active_buf \in Buf
      /\ req \in {0, 1} /\ NoBuf \notin Buf
  BY DEF TypeInv, TypeOK, DriverTypeOK
<1>1. \A q \in Proc \ {p} : handler_pc[p] # "none" => handler_pc[q] = "none"
  BY DEF Alone, Involved
<1>2. CASE WriteRequest(p)
  <2>1. UNCHANGED <<irq_en, buf_irq, irq_pc, queued_base, addr, active_buf>>
    BY <1>2 DEF WriteRequest, irqVars, apuVars, controlVars, fetchVars
  <2>2. RequestInv'
    BY <1>0, <1>1, <1>2, <2>1 DEF WriteRequest, RequestInv, Asked
  <2>3. LastSent' = LastSent
    BY <1>0, <1>2, <2>1 DEF WriteRequest, LastSent, Flipping, Target
  <2> QED BY <2>1, <2>2, <2>3 DEF BufferInv
<1>3. CASE SendBuf(p)
  <2>1. /\ Clock(FALSE, {}, Target) /\ UNCHANGED <<req, irq_pc, active_buf>>
        /\ queued_base = NoBuf /\ ~irq_en /\ ~Asked
    BY <1>3 DEF SendBuf, WriteBuf, lockVars, irqVars, RequestInv
  <2>2. Target \in Buf /\ LastSent = active_buf /\ LastSent' = Target
    BY <1>0, <1>1, <1>3, <2>1 DEF SendBuf, LastSent, Flipping, Target
  <2>3. queued_base' = Target /\ addr' \in {addr, NoBuf}
    BY <1>0, <2>1, <2>2, ClockBuffers
  <2>4. ~irq_en' /\ ~buf_irq'
    BY <2>1, ClockRequests
  <2>5. RequestInv'
    BY <1>0, <1>1, <1>3, <2>1, <2>4 DEF SendBuf, RequestInv, Asked
  <2>6. BufferInv'
    BY <1>0, <2>1, <2>2, <2>3 DEF BufferInv, Target
  <2> QED BY <2>5, <2>6
<1>4. CASE Flip(p)
  <2>1. UNCHANGED <<irq_en, buf_irq, irq_pc, req, queued_base, addr>>
    BY <1>4 DEF Flip, irqVars, apuVars, controlVars, fetchVars
  <2>2. RequestInv'
    BY <1>0, <1>1, <1>4, <2>1 DEF Flip, RequestInv, Asked
  <2>3. LastSent' = LastSent
    BY <1>0, <1>1, <1>4 DEF Flip, LastSent, Flipping, Target
  <2> QED BY <2>1, <2>2, <2>3 DEF BufferInv
<1>5. CASE WriteConfigAgain(p)
  <2>1. /\ Clock(TRUE, {"ENABLE", "IRQ_REQ"}, NoBuf) /\ UNCHANGED <<req, irq_pc, active_buf>>
        /\ ~irq_en /\ ~Asked
    BY <1>5 DEF WriteConfigAgain, WriteConfig, lockVars, irqVars, RequestInv
  <2>2. ~buf_irq'
    BY <2>1, ClockRequests
  <2>3. RequestInv'
    BY <1>0, <1>1, <1>5, <2>1, <2>2 DEF WriteConfigAgain, RequestInv, Asked
  <2>4. LastSent' = LastSent
    BY <1>0, <1>5, <2>1 DEF WriteConfigAgain, LastSent, Flipping, Target
  <2> QED BY <2>1, <2>3, <2>4, ClockKeepsBuffers
<1> QED BY <1>2, <1>3, <1>4, <1>5 DEF AnswerStep

\* apu_ioctl arms the first request while nothing is under way.
LEMMA IoctlKeepsRequests ==
  ASSUME TypeInv, FirstRequest, RequestInv, BufferInv, NEW p \in Proc, IoctlConfig(p)
  PROVE  RequestInv' /\ BufferInv'
<1>1. /\ Clock(TRUE, {"ENABLE", "IRQ_REQ"}, NoBuf)
      /\ UNCHANGED <<lockVars, irqVars, handlerVars>> /\ pc[p] = "ioctl_config"
  BY DEF IoctlConfig, WriteConfig, Main
<1> USE DEF lockVars, irqVars, handlerVars
<1>2. Quiet
  BY <1>1 DEF FirstRequest, Enabling, EnablePc
<1>3. ~buf_irq'
  BY <1>1, <1>2, ClockRequests DEF Quiet
<1>4. RequestInv'
  BY <1>1, <1>2, <1>3 DEF RequestInv, Asked, Quiet, AnswerPc, FillPc
<1>5. LastSent' = LastSent
  BY <1>1 DEF LastSent, Flipping, Target
<1> QED BY <1>1, <1>4, <1>5, ClockKeepsBuffers

\* No step of driver, library or APU copies a request.
LEMMA StepsKeepRequests ==
  ASSUME TypeInv, ApuInv, Next
  PROVE  RequestInv' /\ BufferInv'
<1> USE DEF ApuInv
<1>1. CASE Hardware
  BY <1>1, HardwareKeepsRequests DEF Hardware, driverVars
<1>2. ASSUME NEW p \in Proc, ReleaseConfig(p) PROVE RequestInv' /\ BufferInv'
  BY <1>2, HardwareKeepsRequests DEF ReleaseConfig, WriteConfig
<1>3. ASSUME NEW p \in Proc, HandlerStep(p) PROVE RequestInv' /\ BufferInv'
  BY <1>3, AnswersKeepRequests, HandlersStandAside, AsideKeepsRequests
<1>4. ASSUME NEW p \in Proc, CallStep(p) \/ UserStep(p) PROVE RequestInv' /\ BufferInv'
  BY <1>2, <1>4, IoctlKeepsRequests, CallsStandAside, AsideKeepsRequests
<1> QED BY <1>1, <1>3, <1>4, IrqKeepsRequests DEF Next

\* In one session the requests and the buffers are always in order.
THEOREM RequestsCorrect ==
  ASSUME MaxSessions = 1
  PROVE  Spec => []ApuInv
<1>1. Init => ApuInv
  <2> SUFFICES ASSUME Init PROVE ApuInv
    OBVIOUS
  <2> USE DEF Init, DriverInit, HardwareInit
  <2>1. Alone
    BY DEF Alone, Involved
  <2>2. Quiet
    BY DEF Quiet
  <2>3. RequestInv
    BY DEF RequestInv, Asked, AnswerPc, FillPc
  <2>4. BufferInv
    BY DEF BufferInv
  <2> QED BY <2>1, <2>2, <2>3, <2>4 DEF ApuInv, FirstRequest
<1>2. TypeInv /\ ApuInv /\ [Next]_vars => ApuInv'
  <2> SUFFICES ASSUME TypeInv, ApuInv, [Next]_vars PROVE ApuInv'
    OBVIOUS
  <2>1. CASE Next
    BY <2>1, StepsKeepAlone, StepsKeepFirstRequest, StepsKeepRequests DEF ApuInv
  <2>2. CASE UNCHANGED vars
    BY <2>2 DEF vars, apuVars, controlVars, fetchVars, driverVars, lockVars, irqVars,
       handlerVars, mainVars, ApuInv, Alone, Involved, FirstRequest, Enabling, Quiet,
       RequestInv, Asked, BufferInv, LastSent, Flipping, Target
  <2> QED BY <2>1, <2>2
<1> QED BY <1>1, <1>2, TypesCorrect, PTL DEF Spec

\* A request is at one place at a time, and none is raised while another is
\* being answered.
THEOREM RequestsAreSingle ==
  ASSUME MaxSessions = 1
  PROVE  Spec => []OneRequest
<1>1. ApuInv => OneRequest
  BY DEF ApuInv, RequestInv, OneRequest, Answering, AnswerPc, FillPc
<1> QED BY <1>1, RequestsCorrect, PTL

(***************************************************************************)
(* Only apu_write stores samples, while it fills the buffer that is not    *)
(* active.                                                                 *)
(***************************************************************************)
LEMMA OnlyFillersStore ==
  ASSUME TypeInv, [Next]_vars
  PROVE  \/ buf' = buf
         \/ \E p \in Proc : handler_pc[p] \in FillPc /\ buf'[active_buf] = buf[active_buf]
<1>0. buf \in [Buf -> [Chunk -> Sample]] /\ active_buf \in Buf /\ Target # active_buf
  BY DEF TypeInv, TypeOK, HardwareTypeOK, DriverTypeOK, Target
<1>1. ASSUME NEW p \in Proc, CopyChunk(p) \/ ClearChunk(p)
      PROVE  handler_pc[p] \in FillPc /\ buf'[active_buf] = buf[active_buf]
  BY <1>0, <1>1 DEF CopyChunk, ClearChunk, FillPc
<1>2. CASE Hardware \/ UNCHANGED vars
  BY <1>2 DEF Hardware, vars
<1>3. CASE IrqStep
  BY <1>3 DEF IrqStep, IrqAck, IrqRequest, IrqTarget, IrqSend
<1>4. ASSUME NEW p \in Proc, HandlerStep(p), ~CopyChunk(p), ~ClearChunk(p)
      PROVE  buf' = buf
  BY <1>4 DEF HandlerStep, WriteStep, Deliver, Write, WriteInvalid, WriteLock, WriteRequest,
     CopyFault, CopyDone, SendBuf, Flip, WriteUnlock, WriteConfigAgain
<1>5. ASSUME NEW p \in Proc, CallStep(p) \/ UserStep(p)
      PROVE  buf' = buf
  BY <1>5 DEF CallStep, UserStep, Open, Register, Ioctl, IoctlPid, IoctlConfig, Close,
     ReleasePid, ReleaseReq, ReleaseConfig, ReleaseLock, Forget, Mask
<1> QED BY <1>1, <1>2, <1>3, <1>4, <1>5 DEF Next

\* apu_write writes the buffer that is neither fetched nor queued.
LEMMA InUseIsUnchanged ==
  ASSUME TypeInv, ApuInv, [Next]_vars, NEW b \in Buf, b \in {addr, queued_base}
  PROVE  buf'[b] = buf[b]
<1>1. CASE buf' = buf
  BY <1>1
<1>2. ASSUME NEW p \in Proc, handler_pc[p] \in FillPc, buf'[active_buf] = buf[active_buf]
      PROVE  buf'[b] = buf[b]
  <2>1. queued_base = NoBuf /\ ~Flipping
    BY <1>2 DEF ApuInv, RequestInv, Alone, Involved, Flipping, FillPc
  <2>2. b = active_buf
    BY <2>1 DEF ApuInv, BufferInv, LastSent
  <2> QED BY <1>2, <2>2
<1> QED BY <1>1, <1>2, OnlyFillersStore

\* No buffer changes while the APU fetches it or has it queued.
THEOREM BuffersInUseAreSafe ==
  ASSUME MaxSessions = 1
  PROVE  Spec => InUseUnchanged
<1>1. TypeInv /\ ApuInv /\ [Next]_vars
        => [\A b \in Buf : b \in {addr, queued_base} => buf'[b] = buf[b]]_vars
  BY InUseIsUnchanged
<1> QED BY <1>1, TypesCorrect, RequestsCorrect, PTL DEF Spec, InUseUnchanged

-----------------------------------------------------------------------------
(***************************************************************************)
(* The refinement of SampleStream.  The fetcher asks the memory only when  *)
(* its chunk has been played, and begins each buffer at its first chunk.   *)
(***************************************************************************)
FetcherInv ==
  /\ ram_state = "READ_WAIT" => chunk = NoChunk
  /\ addr = NoBuf => chunk_addr = 1

\* Every step is a clock that leaves the buffers alone, or leaves the APU alone.
LEMMA StepsAreClocks ==
  ASSUME Next
  PROVE  \/ UNCHANGED apuVars
         \/ buf' = buf /\ \E valid \in BOOLEAN : \E control : Clock(valid, control, NoBuf)
         \/ buf' = buf /\ \E p \in Proc : handler_pc[p] = "buf" /\ Clock(FALSE, {}, Target)
<1> DEFINE ClockNoBuf == buf' = buf /\ \E valid \in BOOLEAN : \E control : Clock(valid, control, NoBuf)
<1>1. CASE Hardware
  <2>1. buf' = buf /\ Clock(FALSE, {}, NoBuf)
    BY <1>1 DEF Hardware
  <2>2. ClockNoBuf
    BY <2>1
  <2> QED BY <2>2
<1>2. CASE IrqStep
  <2>1. CASE IrqAck
    <3>1. buf' = buf /\ Clock(TRUE, {"IRQ_ACK", "ENABLE"}, NoBuf)
      BY <2>1 DEF IrqAck, WriteConfig
    <3>2. ClockNoBuf
      BY <3>1
    <3> QED BY <3>2
  <2>2. CASE ~IrqAck
    BY <1>2, <2>2 DEF IrqStep, IrqRequest, IrqTarget, IrqSend
  <2> QED BY <2>1, <2>2
<1>3. ASSUME NEW p \in Proc, IoctlConfig(p) \/ WriteConfigAgain(p) PROVE ClockNoBuf
  <2>1. buf' = buf /\ Clock(TRUE, {"ENABLE", "IRQ_REQ"}, NoBuf)
    BY <1>3 DEF IoctlConfig, WriteConfigAgain, WriteConfig
  <2> QED BY <2>1
<1>4. ASSUME NEW p \in Proc, ReleaseConfig(p) PROVE ClockNoBuf
  <2>1. buf' = buf /\ Clock(TRUE, {}, NoBuf)
    BY <1>4 DEF ReleaseConfig, WriteConfig
  <2> QED BY <2>1
<1>5. ASSUME NEW p \in Proc, SendBuf(p)
      PROVE  buf' = buf /\ handler_pc[p] = "buf" /\ Clock(FALSE, {}, Target)
  BY <1>5 DEF SendBuf, WriteBuf, Handler
<1>6. ASSUME NEW p \in Proc, HandlerStep(p), ~WriteConfigAgain(p), ~SendBuf(p)
      PROVE  UNCHANGED apuVars
  BY <1>6 DEF HandlerStep, WriteStep, Deliver, Write, WriteInvalid, WriteLock, WriteRequest,
     CopyChunk, CopyFault, ClearChunk, CopyDone, Flip, WriteUnlock
<1>7. ASSUME NEW p \in Proc, CallStep(p) \/ UserStep(p), ~IoctlConfig(p), ~ReleaseConfig(p)
      PROVE  UNCHANGED apuVars
  BY <1>7 DEF CallStep, UserStep, Open, Register, Ioctl, IoctlPid, Close,
     ReleasePid, ReleaseReq, ReleaseLock, Forget, Mask
<1> QED BY <1>1, <1>2, <1>3, <1>4, <1>5, <1>6, <1>7 DEF Next

\* A clock of the APU keeps what fetcher and player know of each other.
LEMMA ClockKeepsFetcher ==
  ASSUME TypeInv, FetcherInv, NEW valid, NEW control, NEW base, Clock(valid, control, base)
  PROVE  FetcherInv'
<1> USE DEF FetcherInv
<1>1. CASE FetchIdle
  BY <1>1 DEF FetchIdle, mem_read_en, base_ack, chunk_ack, TypeInv, TypeOK, HardwareTypeOK
<1>2. CASE FetchWait
  BY <1>2 DEF FetchWait, fetchVars
<1>3. CASE FetchAck
  BY <1>3 DEF FetchAck, TypeInv, FetchInv
<1> QED BY <1>1, <1>2, <1>3 DEF Clock, SampleFetcher

\* The fetcher loses no chunk and begins at the first, in any number of sessions.
THEOREM FetcherCorrect == Spec => []FetcherInv
<1>1. Init => FetcherInv
  BY DEF Init, HardwareInit, FetcherInv
<1>2. TypeInv /\ FetcherInv /\ [Next]_vars => FetcherInv'
  <2> SUFFICES ASSUME TypeInv, FetcherInv, [Next]_vars PROVE FetcherInv'
    OBVIOUS
  <2>1. CASE UNCHANGED apuVars
    BY <2>1 DEF apuVars, fetchVars, FetcherInv
  <2>2. CASE UNCHANGED vars
    BY <2>1, <2>2 DEF vars
  <2> QED BY <2>1, <2>2, StepsAreClocks, ClockKeepsFetcher
<1> QED BY <1>1, <1>2, TypesCorrect, PTL DEF Spec

(***************************************************************************)
(* The APU is not muted while a process has it enabled, and samples are    *)
(* written only through a file that is open.                               *)
(***************************************************************************)
WritingPc == HandlerPc \ {"none", "aborted", "write"}

HeardInv ==
  /\ Enabled => apu_en
  /\ \A p \in Proc : handler_pc[p] \in WritingPc => HasFile(p)

\* A clock changes apu_en only where the configuration register is written.
LEMMA ClockMutes ==
  ASSUME NEW valid, NEW control, NEW base, Clock(valid, control, base)
  PROVE  apu_en' = IF valid THEN "ENABLE" \in control ELSE apu_en
BY DEF Clock, Enable

\* Interrupts and writes of samples leave the main program where it is and do
\* not mute.
LEMMA HandlersKeepHeard ==
  ASSUME TypeInv, HeardInv, IrqStep \/ \E p \in Proc : HandlerStep(p)
  PROVE  HeardInv'
<1> USE DEF HeardInv, Enabled, HasFile
<1>0. handler_pc \in [Proc -> HandlerPc]
  BY DEF TypeInv, TypeOK, DriverTypeOK
<1>1. CASE IrqStep
  <2>1. UNCHANGED <<pc, handler_pc>>
    BY <1>1 DEF IrqStep, IrqAck, IrqRequest, IrqTarget, IrqSend, mainVars, handlerVars
  <2>2. apu_en => apu_en'
    <3>1. CASE IrqAck
      BY <3>1, ClockMutes DEF IrqAck, WriteConfig
    <3>2. CASE ~IrqAck
      BY <1>1, <3>2 DEF IrqStep, IrqRequest, IrqTarget, IrqSend, apuVars, controlVars
    <3> QED BY <3>1, <3>2
  <2> QED BY <2>1, <2>2
<1>2. ASSUME NEW p \in Proc, HandlerStep(p) PROVE HeardInv'
  <2>1. pc' = pc
    BY <1>2 DEF HandlerStep, WriteStep, Deliver, Write, WriteInvalid, WriteLock, WriteRequest,
       CopyChunk, CopyFault, ClearChunk, CopyDone, SendBuf, Flip, WriteUnlock,
       WriteConfigAgain, mainVars
  <2>2. apu_en => apu_en'
    <3>1. CASE SendBuf(p)
      BY <3>1, ClockMutes DEF SendBuf, WriteBuf
    <3>2. CASE WriteConfigAgain(p)
      BY <3>2, ClockMutes DEF WriteConfigAgain, WriteConfig
    <3>3. CASE ~SendBuf(p) /\ ~WriteConfigAgain(p)
      BY <1>2, <3>3 DEF HandlerStep, WriteStep, Deliver, Write, WriteInvalid, WriteLock,
         WriteRequest, CopyChunk, CopyFault, ClearChunk, CopyDone, Flip, WriteUnlock,
         apuVars, controlVars
    <3> QED BY <3>1, <3>2, <3>3
  <2>3. \A q \in Proc \ {p} : handler_pc'[q] = handler_pc[q]
    BY <1>0, <1>2 DEF HandlerStep, WriteStep, Deliver, Write, WriteInvalid, WriteLock,
       WriteRequest, CopyChunk, CopyFault, ClearChunk, CopyDone, SendBuf, Flip, WriteUnlock,
       WriteConfigAgain, Handler
  <2>4. handler_pc'[p] \in WritingPc => HasFile(p)
    <3>1. CASE Deliver(p) \/ WriteInvalid(p)
      BY <1>0, <3>1 DEF Deliver, WriteInvalid, Handler, WritingPc
    <3>2. CASE Write(p)
      BY <3>2 DEF Write
    <3>3. CASE WriteStep(p)
      <4>1. handler_pc[p] \in WritingPc
        BY <3>3 DEF WriteStep, WriteLock, WriteRequest, CopyChunk, CopyFault, ClearChunk,
           CopyDone, SendBuf, Flip, WriteUnlock, WriteConfigAgain, Handler, WritingPc, HandlerPc
      <4> QED BY <4>1
    <3> QED BY <1>2, <3>1, <3>2, <3>3 DEF HandlerStep
  <2> QED BY <2>1, <2>2, <2>3, <2>4
<1> QED BY <1>1, <1>2

\* A main program enables the output before it counts as enabled, and mutes it
\* only when it does no longer; no signal handler runs meanwhile.
LEMMA CallsKeepHeard ==
  ASSUME TypeInv, Alone, HeardInv, NEW p \in Proc, CallStep(p) \/ UserStep(p)
  PROVE  HeardInv'
<1>0. pc \in [Proc -> UserPc \cup KernelPc]
  BY DEF TypeInv, TypeOK, DriverTypeOK
<1>1. handler_pc' = handler_pc /\ handler_pc[p] = "none"
  BY DEF CallStep, UserStep, Open, Register, Ioctl, IoctlPid, IoctlConfig, Close,
     ReleasePid, ReleaseReq, ReleaseConfig, ReleaseLock, Forget, Mask, Main, handlerVars
<1>2. \A q \in Proc \ {p} : pc'[q] = pc[q]
  BY <1>0 DEF CallStep, UserStep, Open, Register, Ioctl, IoctlPid, IoctlConfig, Close,
     ReleasePid, ReleaseReq, ReleaseConfig, ReleaseLock, Forget, Mask, Main
<1>3. \A q \in Proc : handler_pc'[q] \in WritingPc => HasFile(q)'
  BY <1>1, <1>2 DEF HeardInv, WritingPc, HasFile
<1>4. Enabled' => apu_en'
  <2>1. CASE IoctlConfig(p)
    BY <2>1, ClockMutes DEF IoctlConfig, WriteConfig
  <2>2. CASE ReleaseConfig(p)
    <3>1. pc[p] = "release_config" /\ pc'[p] = "release_lock"
      BY <1>0, <2>2 DEF ReleaseConfig, Main
    <3>2. \A q \in Proc \ {p} : pc[q] = "off"
      BY <3>1 DEF Alone, Involved
    <3> QED BY <1>2, <3>1, <3>2 DEF Enabled
  <2>3. CASE ~IoctlConfig(p) /\ ~ReleaseConfig(p)
    <3>1. apu_en' = apu_en
      BY <2>3 DEF CallStep, UserStep, Open, Register, Ioctl, IoctlPid, Close, ReleasePid,
         ReleaseReq, ReleaseLock, Forget, Mask, apuVars, controlVars
    <3>2. pc'[p] = "enabled" => pc[p] = "enabled"
      BY <1>0, <2>3 DEF CallStep, UserStep, Open, Register, Ioctl, IoctlPid, Close, ReleasePid,
         ReleaseReq, ReleaseLock, Forget, Mask, Main
    <3> QED BY <1>2, <3>1, <3>2 DEF HeardInv, Enabled
  <2> QED BY <2>1, <2>2, <2>3
<1> QED BY <1>3, <1>4 DEF HeardInv

\* In one session an enabled APU is heard.
THEOREM HeardCorrect ==
  ASSUME MaxSessions = 1
  PROVE  Spec => []HeardInv
<1>1. Init => HeardInv
  BY DEF Init, HardwareInit, DriverInit, HeardInv, Enabled, WritingPc
<1>2. TypeInv /\ ApuInv /\ HeardInv /\ [Next]_vars => HeardInv'
  <2> SUFFICES ASSUME TypeInv, ApuInv, HeardInv, [Next]_vars PROVE HeardInv'
    OBVIOUS
  <2>1. CASE Hardware
    <3>1. apu_en' = apu_en /\ UNCHANGED <<pc, handler_pc>>
      BY <2>1, ClockMutes DEF Hardware, driverVars, mainVars, handlerVars
    <3> QED BY <3>1 DEF HeardInv, Enabled, HasFile
  <2>2. CASE UNCHANGED vars
    BY <2>2 DEF vars, apuVars, controlVars, driverVars, mainVars, handlerVars,
       HeardInv, Enabled, HasFile
  <2> QED BY <2>1, <2>2, HandlersKeepHeard, CallsKeepHeard DEF Next, ApuInv
<1> QED BY <1>1, <1>2, TypesCorrect, RequestsCorrect, PTL DEF Spec

\* Samples are written by the process that has the APU enabled.
LEMMA WritersAreEnabled ==
  ASSUME ApuInv, HeardInv, NEW p \in Proc, handler_pc[p] = "buf"
  PROVE  Enabled
<1>1. HasFile(p)
  BY DEF HeardInv, WritingPc, HandlerPc
<1>2. pc[p] \notin EnablePc
  BY DEF ApuInv, FirstRequest, Enabling, Quiet
<1> QED BY <1>1, <1>2 DEF HasFile, EnablePc, Enabled

(***************************************************************************)
(* The parts of the stream are sequences of samples.                       *)
(***************************************************************************)
Stream == Fetched \o Fetching \o Queued

\* A sample buffer is a sequence: the rest of it from any chunk is that chunk
\* and what follows.
LEMMA BufferIsSeq ==
  ASSUME TypeInv, NEW b \in Buf
  PROVE  /\ buf[b] \in Seq(Sample) /\ Len(buf[b]) = NumChunks
         /\ SubSeq(buf[b], 1, NumChunks) = buf[b]
         /\ \A c \in Chunk :
              /\ SubSeq(buf[b], c, NumChunks) \in Seq(Sample)
              /\ Len(SubSeq(buf[b], c, NumChunks)) <= NumChunks
              /\ SubSeq(buf[b], c, NumChunks) = <<buf[b][c]>> \o SubSeq(buf[b], c + 1, NumChunks)
         /\ SubSeq(buf[b], NumChunks + 1, NumChunks) = << >>
<1>1. NumChunks \in Nat /\ buf[b] \in [1 .. NumChunks -> Sample]
  BY DEF TypeInv, TypeOK, HardwareTypeOK
<1>2. buf[b] \in Seq(Sample)
  BY <1>1, SeqDef
<1>3. Len(buf[b]) = NumChunks
  BY <1>1, <1>2, LenProperties
<1>4. SubSeq(buf[b], 1, NumChunks) = buf[b]
  BY <1>2, <1>3, SubSeqFull
<1>5. ASSUME NEW c \in Chunk
      PROVE  /\ SubSeq(buf[b], c, NumChunks) \in Seq(Sample)
             /\ Len(SubSeq(buf[b], c, NumChunks)) <= NumChunks
             /\ SubSeq(buf[b], c, NumChunks) = <<buf[b][c]>> \o SubSeq(buf[b], c + 1, NumChunks)
  <2>1. c \in 1 .. Len(buf[b]) /\ NumChunks \in c .. Len(buf[b])
    BY <1>1, <1>3
  <2>2. SubSeq(buf[b], c, NumChunks) = <<buf[b][c]>> \o SubSeq(buf[b], c + 1, NumChunks)
    BY <1>2, <2>1, SubSeqRecursiveFirst
  <2>3. \A i \in c .. NumChunks : buf[b][i] \in Sample
    BY <1>1
  <2>4. /\ SubSeq(buf[b], c, NumChunks) \in Seq(Sample)
        /\ Len(SubSeq(buf[b], c, NumChunks)) = IF c <= NumChunks THEN NumChunks - c + 1 ELSE 0
    BY <1>1, <2>3, SubSeqProperties
  <2> QED BY <1>1, <2>2, <2>4
<1>6. SubSeq(buf[b], NumChunks + 1, NumChunks) = << >>
  BY <1>1, SubSeqEmpty
<1> QED BY <1>2, <1>3, <1>4, <1>5, <1>6

\* What is played, fetched and still to be fetched are sequences of samples.
LEMMA PartsAreSeqs ==
  ASSUME TypeInv
  PROVE  /\ Fetched \in Seq(Sample) /\ Len(Fetched) <= 1
         /\ Fetching \in Seq(Sample) /\ Len(Fetching) <= NumChunks
         /\ Queued \in Seq(Sample)
         /\ \A b \in Buf : buf[b] \in Seq(Sample)
<1>1. /\ chunk \in Sample \cup {NoChunk} /\ addr \in Buf \cup {NoBuf}
      /\ queued_base \in Buf \cup {NoBuf} /\ chunk_addr \in Chunk
  BY DEF TypeInv, TypeOK, HardwareTypeOK
<1>2. << >> \in Seq(Sample) /\ Len(<< >>) = 0
  BY EmptySeq
<1>3. Fetched \in Seq(Sample) /\ Len(Fetched) <= 1
  <2>1. CASE chunk = NoChunk
    BY <1>2, <2>1 DEF Fetched
  <2>2. CASE chunk # NoChunk
    BY <1>1, <2>2 DEF Fetched
  <2> QED BY <2>1, <2>2
<1>4. Fetching \in Seq(Sample) /\ Len(Fetching) <= NumChunks
  <2>1. CASE addr = NoBuf
    BY <1>2, <2>1 DEF Fetching
  <2>2. CASE addr # NoBuf
    BY <1>1, <2>2, BufferIsSeq DEF Fetching
  <2> QED BY <2>1, <2>2
<1>5. Queued \in Seq(Sample)
  BY <1>1, <1>2, BufferIsSeq DEF Queued
<1> QED BY <1>3, <1>4, <1>5, BufferIsSeq

Accepted(base) == IF base = NoBuf THEN << >> ELSE buf[base]

\* What is fetched and left to fetch after a clock in which no buffer is
\* passed on to the fetcher: as before, but for the chunk that is played.
LEMMA ClockFetches ==
  ASSUME TypeInv, FetcherInv, NEW valid, NEW control, NEW base, Clock(valid, control, base),
         buf' = buf, ~base_ack
  PROVE  Fetched' \o Fetching' = (IF chunk_ack THEN << >> ELSE Fetched) \o Fetching
<1>1. /\ chunk \in Sample \cup {NoChunk} /\ addr \in Buf \cup {NoBuf} /\ chunk_addr \in Chunk
      /\ ram_state = "READ_WAIT" => addr # NoBuf /\ chunk = NoChunk
  BY DEF TypeInv, FetchInv, FetcherInv, TypeOK, HardwareTypeOK
<1>2. CASE FetchIdle
  <2>1. Fetching' = Fetching
    BY <1>2 DEF FetchIdle, Fetching
  <2>2. Fetched' = IF chunk_ack THEN << >> ELSE Fetched
    BY <1>2 DEF FetchIdle, Fetched
  <2> QED BY <2>1, <2>2
<1>3. CASE FetchWait
  <2>1. ~chunk_ack
    BY <1>1, <1>3 DEF FetchWait, chunk_ack
  <2> QED BY <1>3, <2>1 DEF FetchWait, fetchVars, Fetched, Fetching
<1>4. CASE FetchAck
  <2>1. /\ ~chunk_ack /\ Fetched = << >> /\ addr \in Buf
        /\ Fetching = SubSeq(buf[addr], chunk_addr, NumChunks)
    BY <1>1, <1>4 DEF FetchAck, chunk_ack, Fetched, Fetching
  <2>2. buf[addr][chunk_addr] \in Sample
    BY <1>1, <2>1 DEF TypeInv, TypeOK, HardwareTypeOK
  <2>3. Fetched' = <<buf[addr][chunk_addr]>>
    BY <1>4, <2>2 DEF FetchAck, Fetched
  <2>4. Fetching' = SubSeq(buf[addr], chunk_addr + 1, NumChunks)
    <3>1. CASE chunk_addr = NumChunks
      BY <1>4, <2>1, <3>1, BufferIsSeq DEF FetchAck, Fetching
    <3>2. CASE chunk_addr # NumChunks
      BY <1>1, <1>4, <2>1, <3>2 DEF FetchAck, Fetching
    <3> QED BY <3>1, <3>2
  <2>5. Fetched' \o Fetching' = Fetching
    BY <1>1, <2>1, <2>3, <2>4, BufferIsSeq
  <2> QED BY <2>1, <2>5, PartsAreSeqs, ConcatEmptySeq
<1> QED BY <1>2, <1>3, <1>4 DEF Clock, SampleFetcher

\* A clock plays at most one chunk and accepts at most one buffer, and moves
\* the rest of the stream along unchanged.
LEMMA ClockMovesStream ==
  ASSUME TypeInv, FetcherInv, NEW valid, NEW control, NEW base \in Buf \cup {NoBuf},
         Clock(valid, control, base), buf' = buf, base # NoBuf => queued_base = NoBuf
  PROVE  /\ Stream' = (IF chunk_ack THEN Tail(Stream) ELSE Stream) \o Accepted(base)
         /\ sample_arr' = IF chunk_ack THEN Head(Stream) ELSE sample_arr
         /\ chunk_ack => Stream # << >>
         /\ base # NoBuf => Len(Stream) <= NumChunks + 1
<1> DEFINE Rest == IF chunk_ack THEN << >> ELSE Fetched
<1>1. /\ chunk \in Sample \cup {NoChunk} /\ addr \in Buf \cup {NoBuf}
      /\ queued_base \in Buf \cup {NoBuf} /\ NoBuf \notin Buf
  BY DEF TypeInv, TypeOK, HardwareTypeOK
<1>2. << >> \in Seq(Sample) /\ Rest \in Seq(Sample) /\ Accepted(base) \in Seq(Sample)
  BY EmptySeq, PartsAreSeqs DEF Accepted
<1>3. /\ Fetching \o Queued \in Seq(Sample) /\ Rest \o Fetching \in Seq(Sample)
      /\ Stream = Fetched \o (Fetching \o Queued)
  <2> HIDE DEF Rest
  <2>1. Fetched \in Seq(Sample) /\ Fetching \in Seq(Sample) /\ Queued \in Seq(Sample)
    BY PartsAreSeqs
  <2>2. Fetching \o Queued \in Seq(Sample)
    BY <2>1, ConcatProperties
  <2>3. Rest \o Fetching \in Seq(Sample)
    BY <1>2, <2>1, ConcatProperties
  <2>4. Stream = Fetched \o (Fetching \o Queued)
    BY <2>1, ConcatAssociative DEF Stream
  <2> QED BY <2>2, <2>3, <2>4
<1>4. ASSUME chunk_ack
      PROVE  /\ Stream # << >> /\ Head(Stream) = chunk
             /\ Tail(Stream) = Fetching \o Queued
  <2>1. chunk \in Sample /\ Fetched = <<chunk>>
    BY <1>1, <1>4 DEF chunk_ack, Fetched
  <2>2. /\ Stream = <<chunk>> \o (Fetching \o Queued)
        /\ Stream \in Seq(Sample) /\ Len(Stream) = 1 + Len(Fetching \o Queued)
        /\ Stream[1] = chunk
        /\ \A i \in 1 .. Len(Fetching \o Queued) : Stream[i + 1] = (Fetching \o Queued)[i]
    <3>1. <<chunk>> \in Seq(Sample) /\ Len(<<chunk>>) = 1 /\ <<chunk>>[1] = chunk
      BY <2>1
    <3>2. Len(Fetching \o Queued) \in Nat
      BY <1>3, LenProperties
    <3>3. /\ Stream = <<chunk>> \o (Fetching \o Queued) /\ Stream \in Seq(Sample)
          /\ Len(Stream) = Len(<<chunk>>) + Len(Fetching \o Queued)
          /\ \A i \in 1 .. Len(<<chunk>>) + Len(Fetching \o Queued) :
                Stream[i] = IF i <= Len(<<chunk>>) THEN <<chunk>>[i]
                            ELSE (Fetching \o Queued)[i - Len(<<chunk>>)]
      BY <1>3, <2>1, <3>1, ConcatProperties
    <3> QED BY <3>1, <3>2, <3>3
  <2>3. Stream # << >>
    BY <1>3, <2>2, EmptySeq, LenProperties
  <2>4. Head(Stream) = chunk
    BY <2>2, <2>3
  <2>5. Tail(Stream) = Fetching \o Queued
    <3>1. /\ Tail(Stream) \in Seq(Sample) /\ Len(Tail(Stream)) = Len(Stream) - 1
          /\ \A i \in 1 .. Len(Tail(Stream)) : Tail(Stream)[i] = Stream[i + 1]
      BY <2>2, <2>3, HeadTailProperties
    <3>2. Len(Tail(Stream)) = Len(Fetching \o Queued)
      BY <1>3, <2>2, <3>1, LenProperties
    <3>3. \A i \in 1 .. Len(Tail(Stream)) : Tail(Stream)[i] = (Fetching \o Queued)[i]
      BY <2>2, <3>1, <3>2
    <3> QED BY <1>3, <3>1, <3>2, <3>3, SeqEqual
  <2> QED BY <2>3, <2>4, <2>5
<1>5. (IF chunk_ack THEN Tail(Stream) ELSE Stream) = (Rest \o Fetching) \o Queued
  <2>1. CASE chunk_ack
    BY <1>4, <2>1, PartsAreSeqs, ConcatEmptySeq
  <2>2. CASE ~chunk_ack
    BY <2>2 DEF Stream
  <2> QED BY <2>1, <2>2
<1>6. Stream' = ((Rest \o Fetching) \o Queued) \o Accepted(base)
  <2>1. CASE base_ack
    <3>1. /\ addr = NoBuf /\ queued_base \in Buf /\ Fetching = << >> /\ Queued = buf[queued_base]
          /\ base = NoBuf
      BY <1>1, <2>1 DEF base_ack, Fetching, Queued
    <3>2. FetchIdle
      BY <3>1 DEF Clock, SampleFetcher, FetchWait, FetchAck, TypeInv, FetchInv
    <3>3. Fetched' = Rest
      BY <3>2 DEF FetchIdle, Fetched
    <3>4. Fetching' = Queued
      <4>1. addr' = queued_base /\ chunk_addr' = 1
        BY <2>1, <3>1, <3>2 DEF FetchIdle, FetcherInv
      <4> QED BY <1>1, <3>1, <4>1, BufferIsSeq DEF Fetching
    <3>5. Queued' = << >>
      BY <2>1, <3>1 DEF Clock, QueuedBase, Queued
    <3>6. Stream' = (Rest \o Queued) \o << >>
      BY <3>3, <3>4, <3>5 DEF Stream
    <3> QED BY <1>2, <3>1, <3>6, PartsAreSeqs, ConcatEmptySeq DEF Accepted
  <2>2. CASE ~base_ack
    <3>1. Fetched' \o Fetching' = Rest \o Fetching
      BY <2>2, ClockFetches
    <3>2. CASE base = NoBuf
      <4>1. Queued' = Queued /\ Accepted(base) = << >>
        BY <2>2, <3>2 DEF Clock, QueuedBase, Queued, Accepted
      <4>2. (Rest \o Fetching) \o Queued \in Seq(Sample)
        BY <1>3, PartsAreSeqs, ConcatProperties
      <4> QED BY <3>1, <4>1, <4>2, ConcatEmptySeq DEF Stream
    <3>3. CASE base # NoBuf
      <4>1. Queued = << >> /\ Queued' = Accepted(base)
        BY <3>3 DEF Clock, QueuedBase, Queued, Accepted
      <4> QED BY <1>3, <3>1, <4>1, ConcatEmptySeq DEF Stream
    <3> QED BY <3>2, <3>3
  <2> QED BY <2>1, <2>2
<1>7. sample_arr' = IF chunk_ack THEN Head(Stream) ELSE sample_arr
  BY <1>4 DEF Clock, ChunkPlayer, PlayerLoad, PlayerAdvance, PlayerHold, playVars
<1>8. base # NoBuf => Len(Stream) <= NumChunks + 1
  <2> SUFFICES ASSUME base # NoBuf PROVE Len(Stream) <= NumChunks + 1
    OBVIOUS
  <2>1. Queued = << >>
    BY DEF Queued
  <2>2. Stream = Fetched \o Fetching
    BY <1>3, <2>1, PartsAreSeqs, ConcatEmptySeq
  <2>3. Len(Stream) = Len(Fetched) + Len(Fetching)
    BY <2>2, PartsAreSeqs, ConcatProperties
  <2> QED BY <2>3, PartsAreSeqs, LenProperties
<1> QED BY <1>4, <1>5, <1>6, <1>7, <1>8

\* What goes to I2S after a step.
LEMMA SoundIsHeard ==
  ASSUME HeardInv'
  PROVE  i2s_sample' \in IF Enabled' THEN {sample_arr'} ELSE {sample_arr', Silence}
BY DEF HeardInv, i2s_sample

\* A clock moves the stream.
LEMMA ClockRefines ==
  ASSUME TypeInv, FetcherInv, HeardInv', NEW valid, NEW control, NEW base \in Buf \cup {NoBuf},
         Clock(valid, control, base), buf' = buf, base # NoBuf => queued_base = NoBuf /\ Enabled
  PROVE  Abstract!StreamNext
<1> DEFINE Plays == chunk_ack
<1>1. /\ Stream' = (IF Plays THEN Tail(Stream) ELSE Stream) \o Accepted(base)
      /\ sample_arr' = IF Plays THEN Head(Stream) ELSE sample_arr
      /\ Plays => Stream # << >>
      /\ base # NoBuf => Len(Stream) <= NumChunks + 1
  BY ClockMovesStream
<1>2. Accepted(base) # << >> => base # NoBuf
  BY DEF Accepted
<1>3. base # NoBuf => Accepted(base) \in Abstract!SampleBuffer
  BY DEF Accepted, Abstract!SampleBuffer, TypeInv, TypeOK, HardwareTypeOK
<1>4. base = NoBuf => Accepted(base) = << >>
  BY DEF Accepted
<1>5. Enabled' \in BOOLEAN
  BY DEF Enabled
<1>6. CASE Plays
  <2>1. Abstract!Move(TRUE, Accepted(base))
    BY <1>1, <1>2, <1>5, <1>6, SoundIsHeard DEF Abstract!Move, Stream
  <2>2. Accepted(base) \in Abstract!SampleBuffer \cup {<< >>}
    BY <1>3, <1>4
  <2> QED BY <2>1, <2>2 DEF Abstract!StreamNext, Abstract!Play
<1>7. CASE ~Plays
  <2>1. Abstract!Move(FALSE, Accepted(base))
    BY <1>1, <1>2, <1>5, <1>7, SoundIsHeard DEF Abstract!Move, Stream
  <2> QED BY <1>3, <1>4, <2>1 DEF Abstract!StreamNext, Abstract!Submit, Abstract!Switch
<1> QED BY <1>6, <1>7

\* The driver does not touch what has been accepted: a step without a clock
\* stores at most into the buffer that is neither fetched nor queued.  It may
\* be the call of apu_disable.
LEMMA StoresAreInaudible ==
  ASSUME TypeInv, ApuInv, HeardInv', [Next]_vars, UNCHANGED apuVars
  PROVE  Abstract!Switch
<1>1. \A b \in Buf : b \in {addr, queued_base} => buf'[b] = buf[b]
  BY InUseIsUnchanged
<1>2. addr \in Buf \cup {NoBuf} /\ queued_base \in Buf \cup {NoBuf}
  BY DEF TypeInv, TypeOK, HardwareTypeOK
<1>3. UNCHANGED <<chunk, addr, chunk_addr, queued_base, sample_arr>>
  BY DEF apuVars, controlVars, fetchVars, playVars
<1>4. Fetched' = Fetched /\ Fetching' = Fetching /\ Queued' = Queued
  BY <1>1, <1>2, <1>3 DEF Fetched, Fetching, Queued
<1>5. Stream \in Seq(Sample)
  BY PartsAreSeqs, ConcatProperties DEF Stream
<1>6. Stream' = Stream \o << >>
  BY <1>4, <1>5, ConcatEmptySeq DEF Stream
<1>7. Enabled' \in BOOLEAN
  BY DEF Enabled
<1> QED BY <1>3, <1>6, <1>7, SoundIsHeard DEF Abstract!Switch, Abstract!Move, Stream

\* In one session the APU plays what was submitted: no chunk is lost,
\* repeated, reordered or altered between the callback and the player, no
\* buffer is accepted that would wait for more than one other, and what the
\* player plays goes to the loudspeaker in every clock in which a process has
\* the APU enabled.
THEOREM SamplesAreHeard ==
  ASSUME MaxSessions = 1
  PROVE  Spec => Abstract!StreamSafety
<1>1. Init => Abstract!StreamInit
  <2> SUFFICES ASSUME Init PROVE Abstract!StreamInit
    OBVIOUS
  <2>1. Fetched = << >> /\ Fetching = << >> /\ Queued = << >>
    BY DEF Init, HardwareInit, Fetched, Fetching, Queued
  <2>2. << >> \in Seq(Sample)
    BY EmptySeq
  <2>3. Fetched \o Fetching \o Queued = << >>
    BY <2>1, <2>2, ConcatEmptySeq
  <2>4. ~Enabled /\ i2s_sample = Silence
    BY DEF Init, HardwareInit, DriverInit, Enabled, i2s_sample
  <2>5. Enabled = FALSE
    BY <2>4 DEF Enabled
  <2> QED BY <2>3, <2>4, <2>5 DEF Init, HardwareInit, Abstract!StreamInit
<1>2. TypeInv /\ ApuInv /\ FetcherInv /\ HeardInv /\ HeardInv' /\ [Next]_vars
        => [Abstract!StreamNext]_(Abstract!streamVars)
  <2> SUFFICES ASSUME TypeInv, ApuInv, FetcherInv, HeardInv, HeardInv', [Next]_vars
               PROVE  Abstract!StreamNext
    OBVIOUS
  <2>1. CASE UNCHANGED apuVars
    BY <2>1, StoresAreInaudible DEF Abstract!StreamNext
  <2>2. CASE UNCHANGED vars
    BY <2>1, <2>2 DEF vars
  <2>3. ASSUME buf' = buf, NEW valid \in BOOLEAN, NEW control, Clock(valid, control, NoBuf)
        PROVE  Abstract!StreamNext
    BY <2>3, ClockRefines
  <2>4. ASSUME buf' = buf, NEW p \in Proc, handler_pc[p] = "buf", Clock(FALSE, {}, Target)
        PROVE  Abstract!StreamNext
    <3>1. queued_base = NoBuf /\ Enabled
      BY <2>4, WritersAreEnabled DEF ApuInv, RequestInv, FillPc
    <3>2. Target \in Buf
      BY DEF Target, TypeInv, TypeOK, DriverTypeOK
    <3> QED BY <2>4, <3>1, <3>2, ClockRefines
  <2> QED BY <2>1, <2>2, <2>3, <2>4, StepsAreClocks
<1> QED BY <1>1, <1>2, TypesCorrect, RequestsCorrect, FetcherCorrect, HeardCorrect, PTL
      DEF Spec, Abstract!StreamSafety
=============================================================================
