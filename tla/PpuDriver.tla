----------------------------- MODULE PpuDriver ------------------------------
(***************************************************************************)
(* The kernel driver of the PPU, Kernel/ppu/ppu.c: open, release, write,   *)
(* ioctl and the interrupt handler, as threads of several processes run    *)
(* them on the two cores of the HPS.                                       *)
(*                                                                         *)
(* A system call takes the steps between which another core, the interrupt *)
(* handler or the hardware can act: each atomic_xchg and atomic_set, each  *)
(* MMIO write, and each VRAM word that copy_from_user or memset stores.    *)
(* Calls that fail without changing the driver's state (EBUSY, EINVAL of   *)
(* write) are stuttering steps: the callers in Library/src/ppu.c poll.     *)
(*                                                                         *)
(* A definition whose name adds a word to the one that follows it is a     *)
(* mutant: the code with a mistake in it, for which some property of       *)
(* PpuSystem fails.                                                        *)
(***************************************************************************)
EXTENDS PpuBus

CONSTANTS Thread,    \* user threads that make system calls
          Proc,      \* processes
          ProcOf,    \* the process of each thread
          NoProc     \* "no process has the device open"

ASSUME DriverAssumption ==
  /\ ProcOf \in [Thread -> Proc]
  /\ NoProc \notin Proc

VARIABLES ppu_lock,  \* Lock for accessing the PPU
          vram_lock, \* Lock for VRAM writes, also held during a DMA transfer
          owner,     \* the process whose open file this is, until ppu_release ends
          pc,        \* where each thread is in the driver
          cursor,    \* next word a thread stores, or next register it resets
          limit      \* one past the last word of the thread's copy

driverVars == <<ppu_lock, vram_lock, owner, pc, cursor, limit>>

(***************************************************************************)
(* Program counters.  In HoldPc the thread itself holds vram_lock; in      *)
(* ReleasePc it runs ppu_release.                                          *)
(***************************************************************************)
WritePc   == {"copy"}
IoctlPc   == {"switch", "unlock"}
ResetPc   == {"memset", "reset_regs", "dma_blank", "unlock_vram"}
HoldPc    == WritePc \cup IoctlPc \cup ResetPc
ReleasePc == {"spin_write", "spin_blank", "unlock_ppu"} \cup ResetPc
Pc        == {"user"} \cup HoldPc \cup ReleasePc

InCritical(t) == pc[t] \in HoldPc
Releasing     == \E t \in Thread : pc[t] \in ReleasePc

DriverTypeOK ==
  /\ ppu_lock \in {0, 1}
  /\ vram_lock \in {0, 1}
  /\ owner \in Proc \cup {NoProc}
  /\ pc \in [Thread -> Pc]
  /\ cursor \in [Thread -> Nat]
  /\ limit \in [Thread -> 0 .. NumWords]

DriverInit ==
  /\ ppu_lock = 0
  /\ vram_lock = 0
  /\ owner = NoProc
  /\ pc = [t \in Thread |-> "user"]
  /\ cursor = [t \in Thread |-> 0]
  /\ limit = [t \in Thread |-> 0]

Goto(t, from, to) == pc[t] = from /\ pc' = [pc EXCEPT ![t] = to]

\* A system call on the device needs an open file, which lives until release.
HasFile(t) == owner = ProcOf[t] /\ ~Releasing

\* atomic_xchg(&vram_lock, 1) == 0
TryVramLock == vram_lock = 0 /\ vram_lock' = 1

(***************************************************************************)
(* ppu_open                                                                *)
(***************************************************************************)
Open(t) ==
  /\ pc[t] = "user"
  /\ ppu_lock' = 1
  /\ owner' = IF ppu_lock = 0 THEN ProcOf[t] ELSE owner
  /\ UNCHANGED <<vram_lock, pc, cursor, limit, busVars>>

(***************************************************************************)
(* ppu_write, of the words from .. to-1                                    *)
(***************************************************************************)
WriteLockUnchecked(t) ==
  /\ HasFile(t)
  /\ Goto(t, "user", "copy")
  /\ vram_lock' = 1
  /\ \E from, to \in 0 .. NumWords :
        /\ from <= to
        /\ cursor' = [cursor EXCEPT ![t] = from]
        /\ limit' = [limit EXCEPT ![t] = to]
  /\ UNCHANGED <<ppu_lock, owner, busVars>>

WriteLockPastEnd(t) ==
  /\ HasFile(t)
  /\ Goto(t, "user", "copy")
  /\ TryVramLock
  /\ \E from, to \in 0 .. NumWords + 1 :
        /\ from <= to
        /\ cursor' = [cursor EXCEPT ![t] = from]
        /\ limit' = [limit EXCEPT ![t] = to]
  /\ UNCHANGED <<ppu_lock, owner, busVars>>

WriteLock(t) ==
  /\ HasFile(t)
  /\ Goto(t, "user", "copy")
  /\ TryVramLock
  /\ \E from, to \in 0 .. NumWords :
        /\ from <= to
        /\ cursor' = [cursor EXCEPT ![t] = from]
        /\ limit' = [limit EXCEPT ![t] = to]
  /\ UNCHANGED <<ppu_lock, owner, busVars>>

CopyWord(t) ==
  /\ pc[t] = "copy"
  /\ cursor[t] < limit[t]
  /\ \E v \in Value : kvram' = [kvram EXCEPT ![cursor[t]] = v]
  /\ cursor' = [cursor EXCEPT ![t] = @ + 1]
  /\ UNCHANGED <<ppu_lock, vram_lock, owner, pc, limit, ctrl, update_avail, irq_pending>>

\* The copy is complete, or it faulted and leaves the words it stored behind.
WriteUnlock(t) ==
  /\ Goto(t, "copy", "user")
  /\ vram_lock' = 0
  /\ cursor' = [cursor EXCEPT ![t] = 0]
  /\ limit' = [limit EXCEPT ![t] = 0]
  /\ UNCHANGED <<ppu_lock, owner, busVars>>

(***************************************************************************)
(* ppu_ioctl                                                               *)
(***************************************************************************)
IoctlLock(t) ==
  /\ HasFile(t)
  /\ Goto(t, "user", "switch")
  /\ TryVramLock
  /\ UNCHANGED <<ppu_lock, owner, cursor, limit, busVars>>

IoctlUpdateUnlocking(t) ==
  /\ Goto(t, "switch", "unlock")
  /\ update_avail' = TRUE
  /\ UNCHANGED <<ppu_lock, vram_lock, owner, cursor, limit, kvram, ctrl, irq_pending>>

\* IOCTL_PPU_UPDATE returns with vram_lock held: the interrupt unlocks it.
IoctlUpdate(t) ==
  /\ Goto(t, "switch", "user")
  /\ update_avail' = TRUE
  /\ UNCHANGED <<ppu_lock, vram_lock, owner, cursor, limit, kvram, ctrl, irq_pending>>

IoctlSet(t) ==
  /\ Goto(t, "switch", "unlock")
  /\ \E r \in Reg, v \in Value : ctrl' = [ctrl EXCEPT ![r] = v]
  /\ UNCHANGED <<ppu_lock, vram_lock, owner, cursor, limit, kvram, update_avail, irq_pending>>

IoctlInvalidReturning(t) ==
  /\ Goto(t, "switch", "user")
  /\ UNCHANGED <<ppu_lock, vram_lock, owner, cursor, limit, busVars>>

IoctlInvalid(t) ==
  /\ Goto(t, "switch", "unlock")
  /\ UNCHANGED <<ppu_lock, vram_lock, owner, cursor, limit, busVars>>

IoctlUnlock(t) ==
  /\ Goto(t, "unlock", "user")
  /\ vram_lock' = 0
  /\ UNCHANGED <<ppu_lock, owner, cursor, limit, busVars>>

(***************************************************************************)
(* ppu_release, once the last reference to the file is gone: no thread of  *)
(* the process is in another system call on it                             *)
(***************************************************************************)
Release(t) ==
  /\ HasFile(t)
  /\ \A u \in Thread : ProcOf[u] = ProcOf[t] => pc[u] = "user"
  /\ ppu_lock' = ppu_lock   \* the exchange stores 1; a 0 it found is put back
  /\ pc' = [pc EXCEPT ![t] = IF ppu_lock = 0 THEN "user" ELSE "spin_write"]
  /\ UNCHANGED <<vram_lock, owner, cursor, limit, busVars>>

\* The first spin ends: no hand-off is under way and the thread has VRAM.
ReleaseAcquire(t) ==
  /\ Goto(t, "spin_write", "memset")
  /\ TryVramLock
  /\ cursor' = [cursor EXCEPT ![t] = 0]
  /\ UNCHANGED <<ppu_lock, owner, limit, busVars>>

ClearWord(t) ==
  /\ pc[t] = "memset"
  /\ kvram' = [kvram EXCEPT ![cursor[t]] = Blank]
  /\ IF cursor[t] + 1 < NumWords
     THEN /\ cursor' = [cursor EXCEPT ![t] = @ + 1]
          /\ pc' = pc
     ELSE /\ cursor' = [cursor EXCEPT ![t] = 1]
          /\ pc' = [pc EXCEPT ![t] = "reset_regs"]
  /\ UNCHANGED <<ppu_lock, vram_lock, owner, limit, ctrl, update_avail, irq_pending>>

ResetReg(t) ==
  /\ pc[t] = "reset_regs"
  /\ ctrl' = [ctrl EXCEPT ![cursor[t]] = Blank]
  /\ IF cursor[t] < NumRegs
     THEN /\ cursor' = [cursor EXCEPT ![t] = @ + 1]
          /\ pc' = pc
     ELSE /\ cursor' = [cursor EXCEPT ![t] = 0]
          /\ pc' = [pc EXCEPT ![t] = "dma_blank"]
  /\ UNCHANGED <<ppu_lock, vram_lock, owner, limit, kvram, update_avail, irq_pending>>

ReleaseSubmitNothing(t) ==
  /\ Goto(t, "dma_blank", "spin_blank")
  /\ UNCHANGED <<ppu_lock, vram_lock, owner, cursor, limit, busVars>>

ReleaseSubmit(t) ==
  /\ Goto(t, "dma_blank", "spin_blank")
  /\ update_avail' = TRUE
  /\ UNCHANGED <<ppu_lock, vram_lock, owner, cursor, limit, kvram, ctrl, irq_pending>>

ReleaseReacquireNoSpin(t) ==
  /\ Goto(t, "spin_blank", "unlock_vram")
  /\ vram_lock' = 1
  /\ UNCHANGED <<ppu_lock, owner, cursor, limit, busVars>>

\* The second spin ends: the interrupt has given vram_lock back.
ReleaseReacquire(t) ==
  /\ Goto(t, "spin_blank", "unlock_vram")
  /\ TryVramLock
  /\ UNCHANGED <<ppu_lock, owner, cursor, limit, busVars>>

ReleaseUnlockVram(t) ==
  /\ Goto(t, "unlock_vram", "unlock_ppu")
  /\ vram_lock' = 0
  /\ UNCHANGED <<ppu_lock, owner, cursor, limit, busVars>>

ReleaseUnlockPpu(t) ==
  /\ Goto(t, "unlock_ppu", "user")
  /\ ppu_lock' = 0
  /\ owner' = NoProc
  /\ UNCHANGED <<vram_lock, cursor, limit, busVars>>

(***************************************************************************)
(* ppu_irq                                                                 *)
(***************************************************************************)
PpuIrq ==
  /\ irq_pending
  /\ irq_pending' = FALSE
  /\ vram_lock' = 0
  /\ UNCHANGED <<ppu_lock, owner, pc, cursor, limit, kvram, ctrl, update_avail>>

(***************************************************************************)
(* A thread that is inside the driver keeps running; a system call is the  *)
(* caller's choice.                                                        *)
(***************************************************************************)
KernelStep(t) ==
  \/ CopyWord(t)
  \/ WriteUnlock(t)
  \/ IoctlUpdate(t)
  \/ IoctlSet(t)
  \/ IoctlInvalid(t)
  \/ IoctlUnlock(t)
  \/ ReleaseAcquire(t)
  \/ ClearWord(t)
  \/ ResetReg(t)
  \/ ReleaseSubmit(t)
  \/ ReleaseReacquire(t)
  \/ ReleaseUnlockVram(t)
  \/ ReleaseUnlockPpu(t)

SystemCall(t) == Open(t) \/ WriteLock(t) \/ IoctlLock(t) \/ Release(t)

DriverNext == PpuIrq \/ \E t \in Thread : SystemCall(t) \/ KernelStep(t)
=============================================================================
