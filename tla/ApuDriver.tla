----------------------------- MODULE ApuDriver ------------------------------
(***************************************************************************)
(* The APU driver (Kernel/apu/apu.c) and its library (Library/src/apu.c):  *)
(* processes that enable and disable the APU, their signal handler, which  *)
(* writes the next buffer of samples, and the interrupt handler.           *)
(*                                                                         *)
(* A process has one thread.  Its signal handler runs on top of whatever   *)
(* the main program does outside the kernel.  The interrupt handler runs   *)
(* on another core.  Every access to state that another core or the APU    *)
(* sees is a step of its own, and an MMIO write is a clock of the APU.     *)
(*                                                                         *)
(* A definition whose name adds a word to the one that follows it is a     *)
(* mutant: the code with a mistake in it, for which some property of       *)
(* ApuSystem fails.                                                        *)
(***************************************************************************)
EXTENDS ApuHardware

CONSTANTS Proc,         \* processes
          NoProc,       \* pid 0
          MaxSessions   \* how often the APU is opened

ASSUME ApuDriverAssumption ==
  /\ NoProc \notin Proc
  /\ MaxSessions \in Nat

VARIABLES apu_lock,    \* the device is open
          req,         \* sample.req: a buffer was asked for
          pid,         \* sample.pid: whom to signal
          write_lock,  \* held by apu_write
          active_buf,  \* sample.active_buf
          irq_pc,      \* where the interrupt handler is
          irq_task,    \* the process it is about to signal
          pc,          \* where each main program is
          handler_pc,  \* where each signal handler is
          cursor,      \* the next chunk apu_write stores
          len,         \* how many chunks of it the user supplied
          callback_fn, \* the callback that the process has registered
          blocked,     \* the process blocks the signal
          signals,     \* signals queued for the process
          sessions     \* how often the APU was opened

lockVars    == <<apu_lock, req, pid, write_lock, active_buf>>
irqVars     == <<irq_pc, irq_task>>
handlerVars == <<handler_pc, cursor, len>>
mainVars    == <<pc, callback_fn, blocked, sessions>>
driverVars  == <<lockVars, irqVars, handlerVars, mainVars, signals>>

\* Main program: pc values outside the kernel, in apu_ioctl and apu_release.
UserPc    == {"off", "opened", "registered", "enabled", "closed"}
KernelPc  == {"ioctl_pid", "ioctl_config",
              "release_pid", "release_req", "release_config", "release_lock"}
HandlerPc == {"none", "aborted", "write", "lock", "request", "copy", "buf", "flip",
              "fault", "unlock", "config", "refuse"}
HoldPc    == {"request", "copy", "buf", "flip", "fault", "unlock", "refuse"}

\* A callback may be one that always returns a valid buffer.
Callback == {"valid", "any"}

DriverTypeOK ==
  /\ apu_lock \in {0, 1}
  /\ req \in {0, 1}
  /\ pid \in Proc \cup {NoProc}
  /\ write_lock \in {0, 1}
  /\ active_buf \in Buf
  /\ irq_pc \in {"idle", "request", "target", "send"}
  /\ irq_task \in Proc \cup {NoProc}
  /\ pc \in [Proc -> UserPc \cup KernelPc]
  /\ handler_pc \in [Proc -> HandlerPc]
  /\ cursor \in [Proc -> 1 .. NumChunks + 1]
  /\ len \in [Proc -> 0 .. NumChunks]
  /\ callback_fn \in [Proc -> Callback \cup {"NULL"}]
  /\ blocked \in [Proc -> BOOLEAN]
  /\ signals \in [Proc -> Nat]
  /\ sessions \in 0 .. MaxSessions

DriverInit ==
  /\ apu_lock = 0
  /\ req = 0
  /\ pid = NoProc
  /\ write_lock = 0
  /\ active_buf = 0
  /\ irq_pc = "idle"
  /\ irq_task = NoProc
  /\ pc = [p \in Proc |-> "off"]
  /\ handler_pc = [p \in Proc |-> "none"]
  /\ cursor = [p \in Proc |-> 1]
  /\ len = [p \in Proc |-> 0]
  /\ callback_fn = [p \in Proc |-> "NULL"]
  /\ blocked = [p \in Proc |-> FALSE]
  /\ signals = [p \in Proc |-> 0]
  /\ sessions = 0

(***************************************************************************)
(* MMIO writes: a clock of the APU with an input                           *)
(***************************************************************************)
WriteConfig(flags) == Clock(TRUE, flags, NoBuf)
WriteBuf(b)        == Clock(FALSE, {}, b)

Main(p, from, to)    == /\ handler_pc[p] = "none"
                        /\ pc[p] = from
                        /\ pc' = [pc EXCEPT ![p] = to]
Handler(p, from, to) == /\ handler_pc[p] = from
                        /\ handler_pc' = [handler_pc EXCEPT ![p] = to]

\* The buffer the APU does not play, which apu_write fills.
Target == 1 - active_buf

(***************************************************************************)
(* apu_enable: open, registering the callback, and apu_ioctl               *)
(***************************************************************************)
Open(p) ==
  /\ sessions < MaxSessions
  /\ Main(p, "off", IF apu_lock = 0 THEN "opened" ELSE "off")
  /\ apu_lock' = 1
  /\ sessions' = sessions + (1 - apu_lock)
  /\ UNCHANGED <<req, pid, write_lock, active_buf, irqVars, handlerVars,
                 callback_fn, blocked, signals, buf, apuVars>>

Register(p) ==
  /\ Main(p, "opened", "registered")
  /\ \E callback \in Callback : callback_fn' = [callback_fn EXCEPT ![p] = callback]
  /\ UNCHANGED <<lockVars, irqVars, handlerVars, blocked, sessions, signals, buf, apuVars>>

\* The system call begins here: no signal is delivered until it returns.
Ioctl(p) ==
  /\ Main(p, "registered", "ioctl_pid")
  /\ UNCHANGED <<lockVars, irqVars, handlerVars, callback_fn, blocked, sessions, signals,
                 buf, apuVars>>

IoctlPid(p) ==
  /\ Main(p, "ioctl_pid", "ioctl_config")
  /\ pid' = p
  /\ UNCHANGED <<apu_lock, req, write_lock, active_buf, irqVars, handlerVars,
                 callback_fn, blocked, sessions, signals, buf, apuVars>>

IoctlConfig(p) ==
  /\ Main(p, "ioctl_config", "enabled")
  /\ WriteConfig({"ENABLE", "IRQ_REQ"})
  /\ UNCHANGED <<lockVars, irqVars, handlerVars, callback_fn, blocked, sessions, signals, buf>>

(***************************************************************************)
(* apu_disable: close, hence apu_release, and forgetting the callback; its *)
(* sigaction call changes nothing                                          *)
(***************************************************************************)
Close(p) ==
  /\ Main(p, "enabled", "release_pid")
  /\ UNCHANGED <<lockVars, irqVars, handlerVars, callback_fn, blocked, sessions, signals,
                 buf, apuVars>>

ReleasePid(p) ==
  /\ Main(p, "release_pid", "release_req")
  /\ pid' = NoProc
  /\ UNCHANGED <<apu_lock, req, write_lock, active_buf, irqVars, handlerVars,
                 callback_fn, blocked, sessions, signals, buf, apuVars>>

ReleaseReq(p) ==
  /\ Main(p, "release_req", "release_config")
  /\ req' = 0
  /\ UNCHANGED <<apu_lock, pid, write_lock, active_buf, irqVars, handlerVars,
                 callback_fn, blocked, sessions, signals, buf, apuVars>>

ReleaseConfig(p) ==
  /\ Main(p, "release_config", "release_lock")
  /\ WriteConfig({})
  /\ UNCHANGED <<lockVars, irqVars, handlerVars, callback_fn, blocked, sessions, signals, buf>>

ReleaseLock(p) ==
  /\ Main(p, "release_lock", "closed")
  /\ apu_lock' = 0
  /\ UNCHANGED <<req, pid, write_lock, active_buf, irqVars, handlerVars,
                 callback_fn, blocked, sessions, signals, buf, apuVars>>

Forget(p) ==
  /\ Main(p, "closed", "off")
  /\ callback_fn' = [callback_fn EXCEPT ![p] = "NULL"]
  /\ UNCHANGED <<lockVars, irqVars, handlerVars, blocked, sessions, signals, buf, apuVars>>

\* apu_callback_enable and apu_callback_disable
Mask(p) ==
  /\ handler_pc[p] = "none"
  /\ pc[p] \in UserPc
  /\ blocked' = [blocked EXCEPT ![p] = ~@]
  /\ UNCHANGED <<lockVars, irqVars, handlerVars, pc, callback_fn, sessions, signals,
                 buf, apuVars>>

(***************************************************************************)
(* apu_sig_handler: noway() aborts a process that has no callback.  A      *)
(* write to a file that is closed fails.                                   *)
(***************************************************************************)
Deliver(p) ==
  /\ signals[p] > 0
  /\ ~blocked[p]
  /\ pc[p] \in UserPc
  /\ Handler(p, "none", IF callback_fn[p] = "NULL" THEN "aborted" ELSE "write")
  /\ signals' = [signals EXCEPT ![p] = @ - 1]
  /\ UNCHANGED <<lockVars, irqVars, cursor, len, mainVars, buf, apuVars>>

HasFile(p) == pc[p] \in {"opened", "registered", "enabled"}

\* The callback's buffer is too long or NULL, or the file is closed.
WriteInvalid(p) ==
  /\ callback_fn[p] = "any" \/ ~HasFile(p)
  /\ Handler(p, "write", "none")
  /\ UNCHANGED <<lockVars, irqVars, cursor, len, mainVars, signals, buf, apuVars>>

Write(p) ==
  /\ HasFile(p)
  /\ Handler(p, "write", "lock")
  /\ \E n \in 0 .. NumChunks : len' = [len EXCEPT ![p] = n]
  /\ UNCHANGED <<lockVars, irqVars, cursor, mainVars, signals, buf, apuVars>>

(***************************************************************************)
(* apu_write                                                               *)
(***************************************************************************)
WriteLock(p) ==
  /\ Handler(p, "lock", IF write_lock = 0 THEN "request" ELSE "none")
  /\ write_lock' = 1
  /\ UNCHANGED <<apu_lock, req, pid, active_buf, irqVars, cursor, len, mainVars, signals,
                 buf, apuVars>>

WriteRequest(p) ==
  /\ Handler(p, "request", IF req = 1 THEN "copy" ELSE "refuse")
  /\ req' = 0
  /\ cursor' = [cursor EXCEPT ![p] = 1]
  /\ UNCHANGED <<apu_lock, pid, write_lock, active_buf, irqVars, len, mainVars, signals,
                 buf, apuVars>>

CopyChunkPastEnd(p) ==
  /\ handler_pc[p] = "copy"
  /\ cursor[p] <= NumChunks + 1
  /\ \E s \in IF cursor[p] <= len[p] THEN Sample ELSE {Silence} :
        buf' = [buf EXCEPT ![Target][cursor[p]] = s]
  /\ cursor' = [cursor EXCEPT ![p] = @ + 1]
  /\ UNCHANGED <<lockVars, irqVars, handler_pc, len, mainVars, signals, apuVars>>

\* Chunks behind the user's samples are cleared.
CopyChunk(p) ==
  /\ handler_pc[p] = "copy"
  /\ cursor[p] <= NumChunks
  /\ \E s \in IF cursor[p] <= len[p] THEN Sample ELSE {Silence} :
        buf' = [buf EXCEPT ![Target][cursor[p]] = s]
  /\ cursor' = [cursor EXCEPT ![p] = @ + 1]
  /\ UNCHANGED <<lockVars, irqVars, handler_pc, len, mainVars, signals, apuVars>>

\* copy_from_user fails: the buffer is cleared, from the beginning.
CopyFault(p) ==
  /\ callback_fn[p] = "any"
  /\ cursor[p] <= len[p]
  /\ Handler(p, "copy", "fault")
  /\ cursor' = [cursor EXCEPT ![p] = 1]
  /\ UNCHANGED <<lockVars, irqVars, len, mainVars, signals, buf, apuVars>>

ClearChunk(p) ==
  /\ handler_pc[p] = "fault"
  /\ cursor[p] <= NumChunks
  /\ buf' = [buf EXCEPT ![Target][cursor[p]] = Silence]
  /\ cursor' = [cursor EXCEPT ![p] = @ + 1]
  /\ UNCHANGED <<lockVars, irqVars, handler_pc, len, mainVars, signals, apuVars>>

CopyDone(p) ==
  /\ cursor[p] = NumChunks + 1
  /\ \/ Handler(p, "copy", "buf")
     \/ Handler(p, "fault", "refuse")
  /\ UNCHANGED <<lockVars, irqVars, cursor, len, mainVars, signals, buf, apuVars>>

SendBuf(p) ==
  /\ Handler(p, "buf", "flip")
  /\ WriteBuf(Target)
  /\ UNCHANGED <<lockVars, irqVars, cursor, len, mainVars, signals, buf>>

FlipNothing(p) ==
  /\ Handler(p, "flip", "unlock")
  /\ UNCHANGED <<lockVars, irqVars, cursor, len, mainVars, signals, buf, apuVars>>

Flip(p) ==
  /\ Handler(p, "flip", "unlock")
  /\ active_buf' = Target
  /\ UNCHANGED <<apu_lock, req, pid, write_lock, irqVars, cursor, len, mainVars, signals,
                 buf, apuVars>>

WriteUnlock(p) ==
  /\ \/ Handler(p, "unlock", "config")
     \/ Handler(p, "refuse", "none")
  /\ write_lock' = 0
  /\ UNCHANGED <<apu_lock, req, pid, active_buf, irqVars, cursor, len, mainVars, signals,
                 buf, apuVars>>

WriteConfigForgotten(p) ==
  /\ Handler(p, "config", "none")
  /\ UNCHANGED <<lockVars, irqVars, cursor, len, mainVars, signals, buf, apuVars>>

WriteConfigAgain(p) ==
  /\ Handler(p, "config", "none")
  /\ WriteConfig({"ENABLE", "IRQ_REQ"})
  /\ UNCHANGED <<lockVars, irqVars, cursor, len, mainVars, signals, buf>>

(***************************************************************************)
(* apu_irq                                                                 *)
(***************************************************************************)
Irq(from, to) == irq_pc = from /\ irq_pc' = to

IrqAckMuting ==
  /\ buf_irq
  /\ Irq("idle", "request")
  /\ WriteConfig({"IRQ_ACK"})
  /\ UNCHANGED <<lockVars, irq_task, handlerVars, mainVars, signals, buf>>

IrqAck ==
  /\ buf_irq
  /\ Irq("idle", "request")
  /\ WriteConfig({"IRQ_ACK", "ENABLE"})
  /\ UNCHANGED <<lockVars, irq_task, handlerVars, mainVars, signals, buf>>

IrqRequest ==
  /\ Irq("request", "target")
  /\ req' = 1
  /\ UNCHANGED <<apu_lock, pid, write_lock, active_buf, irq_task, handlerVars, mainVars,
                 signals, buf, apuVars>>

\* Reads sample.pid; there is nobody to signal if it is 0.
IrqTarget ==
  /\ Irq("target", IF pid = NoProc THEN "idle" ELSE "send")
  /\ irq_task' = pid
  /\ UNCHANGED <<lockVars, handlerVars, mainVars, signals, buf, apuVars>>

IrqSend ==
  /\ Irq("send", "idle")
  /\ signals' = [signals EXCEPT ![irq_task] = @ + 1]
  /\ irq_task' = NoProc
  /\ UNCHANGED <<lockVars, handlerVars, mainVars, buf, apuVars>>

(***************************************************************************)
(* What runs once it has begun, and what a program does of its own accord  *)
(***************************************************************************)
IrqStep == IrqAck \/ IrqRequest \/ IrqTarget \/ IrqSend

WriteStep(p) ==
  \/ WriteLock(p)
  \/ WriteRequest(p)
  \/ CopyChunk(p)
  \/ CopyFault(p)
  \/ ClearChunk(p)
  \/ CopyDone(p)
  \/ SendBuf(p)
  \/ Flip(p)
  \/ WriteUnlock(p)
  \/ WriteConfigAgain(p)

HandlerStep(p) == Deliver(p) \/ Write(p) \/ WriteInvalid(p) \/ WriteStep(p)

CallStep(p) ==
  \/ Register(p)
  \/ Ioctl(p)
  \/ IoctlPid(p)
  \/ IoctlConfig(p)
  \/ ReleasePid(p)
  \/ ReleaseReq(p)
  \/ ReleaseConfig(p)
  \/ ReleaseLock(p)
  \/ Forget(p)

UserStep(p) == Open(p) \/ Close(p) \/ Mask(p)
=============================================================================
