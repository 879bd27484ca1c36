----------------------------- MODULE ApuSystem ------------------------------
(***************************************************************************)
(* The APU driver, its library and the APU together: how buffers of        *)
(* samples travel from a process's callback to the loudspeaker.            *)
(***************************************************************************)
EXTENDS ApuDriver

vars == <<buf, apuVars, driverVars>>

Init == HardwareInit /\ DriverInit

\* A clock without an MMIO write.
Hardware == Clock(FALSE, {}, NoBuf) /\ UNCHANGED <<buf, driverVars>>

Next ==
  \/ Hardware
  \/ IrqStep
  \/ \E p \in Proc : HandlerStep(p) \/ CallStep(p) \/ UserStep(p)

Spec == Init /\ [][Next]_vars

(***************************************************************************)
(* The clock runs, the SDRAM answers, I2S asks for samples, an interrupt   *)
(* is taken, a signal is delivered and what has begun in the kernel, in a  *)
(* handler or in the library goes on.                                      *)
(***************************************************************************)
FetchMoves == ram_state' # ram_state
PlayMoves  == <<sample_idx, arr_valid>>' # <<sample_idx, arr_valid>>

FairSpec ==
  /\ Spec
  /\ WF_vars(Hardware)
  /\ WF_vars(Hardware /\ FetchMoves)
  /\ WF_vars(Hardware /\ PlayMoves)
  /\ WF_vars(IrqStep)
  /\ \A p \in Proc : WF_vars(HandlerStep(p)) /\ WF_vars(CallStep(p))

-----------------------------------------------------------------------------
TypeOK == HardwareTypeOK /\ DriverTypeOK

(***************************************************************************)
(* "Once given to the APU, this buffer must not change while it is in use  *)
(* by the APU" (apu.c): neither the buffer that is being fetched nor the   *)
(* one that is queued.                                                     *)
(***************************************************************************)
InUseUnchanged ==
  [][\A b \in Buf : b \in {addr, queued_base} => buf'[b] = buf[b]]_vars

(***************************************************************************)
(* A request for samples is at one place at a time: armed in the APU,      *)
(* in the interrupt handler, noted in sample.req, or being answered by     *)
(* apu_write, which arms the next one.  While there is one that nobody     *)
(* answers yet, no buffer is queued except by the write that is about to   *)
(* end.  This is what lets two buffers and a flip suffice.                 *)
(***************************************************************************)
Answering == \E p \in Proc : handler_pc[p] \in {"copy", "buf", "flip", "unlock", "config"}
Asked     == irq_pc = "request" \/ req = 1

OneRequest ==
  /\ irq_en => ~Asked /\ ~Answering
  /\ irq_pc = "request" => req = 0
  /\ Asked => ~Answering /\ queued_base = NoBuf
  /\ buf_irq => irq_en /\ queued_base = NoBuf

(***************************************************************************)
(* A process that has enabled the APU and lets itself be called is asked   *)
(* for samples, and its samples are queued, whenever none are, if its      *)
(* callback always returns a valid buffer.                                 *)
(***************************************************************************)
SamplesWanted ==
  \A p \in Proc :
    (pc[p] = "enabled" /\ callback_fn[p] = "valid" /\ queued_base = NoBuf)
      ~> (queued_base # NoBuf \/ pc[p] # "enabled" \/ blocked[p])

(***************************************************************************)
(* The refinement of SampleStream: what was fetched, what is left of the   *)
(* buffer being fetched, and the buffer that is queued.  What is heard is  *)
(* what goes to I2S: zeros while apu_en is off (i2s_sample, apu.sv).       *)
(***************************************************************************)
Fetched  == IF chunk = NoChunk THEN << >> ELSE <<chunk>>
Fetching == IF addr = NoBuf THEN << >> ELSE SubSeq(buf[addr], chunk_addr, NumChunks)
Queued   == IF queued_base = NoBuf THEN << >> ELSE buf[queued_base]

i2s_sample == IF apu_en THEN sample_arr ELSE Silence
Enabled    == \E p \in Proc : pc[p] = "enabled"

Abstract == INSTANCE SampleStream WITH
  stream  <- Fetched \o Fetching \o Queued,
  playing <- sample_arr,
  enabled <- Enabled,
  sound   <- i2s_sample

(***************************************************************************)
(* From the return of apu_enable to the call of apu_disable the output is  *)
(* never muted, not by an interrupt or a write of samples either: what is  *)
(* submitted is heard whole, in order, once, and in the end unless the APU *)
(* is disabled first.  Afterwards the rest drains, and is muted as soon as *)
(* apu_release writes the configuration.                                   *)
(***************************************************************************)
ImplementsSampleStreamLive == Abstract!StreamSpec
=============================================================================
