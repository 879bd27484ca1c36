---------------------------- MODULE ApuHardware -----------------------------
(***************************************************************************)
(* The APU, clock by clock: its registers and interrupt (apu.sv), the      *)
(* sample fetcher that reads a buffer from SDRAM chunk by chunk            *)
(* (sample_fetcher.sv) and the chunk player (chunk_player.sv).             *)
(*                                                                         *)
(* The driver's MMIO writes reach the APU as inputs of one clock: the PIO  *)
(* in between has no register.  The SDRAM delays and the word select of    *)
(* I2S, which asks for a sample, are inputs that may have any value.       *)
(*                                                                         *)
(* A definition whose name adds a word to the one that follows it is a     *)
(* mutant: the code with a mistake in it, for which some property of       *)
(* ApuSystem fails.                                                        *)
(***************************************************************************)
EXTENDS Naturals, Sequences

CONSTANTS NumChunks,  \* chunks of a sample buffer, 64
          ChunkLen,   \* samples of a chunk, 8
          Sample,     \* what a chunk holds
          Silence,    \* a chunk of zeros
          NoBuf,      \* no buffer
          NoChunk     \* no chunk

ASSUME ApuAssumption ==
  /\ NumChunks \in Nat \ {0}
  /\ ChunkLen \in Nat \ {0}
  /\ Silence \in Sample
  /\ NoChunk \notin Sample
  /\ NoBuf \notin {0, 1}

VARIABLES buf,          \* the driver's two sample buffers in SDRAM
          apu_en,       \* the output is not muted
          irq_en,       \* the interrupt is armed
          buf_irq,      \* the interrupt line, level-triggered
          queued_base,  \* the buffer to be played next, or NoBuf
          addr,         \* the buffer being fetched, or NoBuf
          chunk_addr,   \* the next chunk to fetch from it
          ram_state,    \* the fetcher's memory port
          chunk,        \* the chunk fetched for the player, or NoChunk
          sample_arr,   \* the chunk being played
          sample_idx,   \* the sample being played
          arr_valid     \* sample_arr is not used up

controlVars == <<apu_en, irq_en, buf_irq, queued_base>>
fetchVars   == <<addr, chunk_addr, ram_state, chunk>>
playVars    == <<sample_arr, sample_idx, arr_valid>>
apuVars     == <<controlVars, fetchVars, playVars>>

Buf   == {0, 1}
Chunk == 1 .. NumChunks

HardwareTypeOK ==
  /\ buf \in [Buf -> [Chunk -> Sample]]
  /\ apu_en \in BOOLEAN
  /\ irq_en \in BOOLEAN
  /\ buf_irq \in BOOLEAN
  /\ queued_base \in Buf \cup {NoBuf}
  /\ addr \in Buf \cup {NoBuf}
  /\ chunk_addr \in Chunk
  /\ ram_state \in {"IDLE", "READ_WAIT"}
  /\ chunk \in Sample \cup {NoChunk}
  /\ sample_arr \in Sample
  /\ sample_idx \in 0 .. ChunkLen - 1
  /\ arr_valid \in BOOLEAN

HardwareInit ==
  /\ buf = [b \in Buf |-> [i \in Chunk |-> Silence]]
  /\ apu_en = FALSE
  /\ irq_en = FALSE
  /\ buf_irq = FALSE
  /\ queued_base = NoBuf
  /\ addr = NoBuf
  /\ chunk_addr = 1
  /\ ram_state = "IDLE"
  /\ chunk = NoChunk
  /\ sample_arr = Silence
  /\ sample_idx = 0
  /\ arr_valid = FALSE

(***************************************************************************)
(* Signals between the modules                                             *)
(***************************************************************************)
base_ack == addr = NoBuf /\ queued_base # NoBuf

chunk_ack == chunk # NoChunk /\ ~arr_valid

mem_read_en == ram_state = "IDLE" /\ chunk = NoChunk /\ addr # NoBuf

(***************************************************************************)
(* apu.sv.  control is the set of flags of a write of the configuration    *)
(* register, buf_base the buffer of a write of the buffer register.        *)
(***************************************************************************)
Enable(control_valid, control) ==
  apu_en' = IF control_valid THEN "ENABLE" \in control ELSE apu_en

BufIrqUnqueued(control_valid, control) ==
  LET irq_ack == control_valid /\ "IRQ_ACK" \in control
      irq_req == control_valid /\ "IRQ_REQ" \in control IN
  /\ irq_en' = (~irq_ack /\ (irq_req \/ irq_en))
  /\ buf_irq' = (~irq_ack /\ irq_en)

BufIrq(control_valid, control) ==
  LET irq_ack == control_valid /\ "IRQ_ACK" \in control
      irq_req == control_valid /\ "IRQ_REQ" \in control IN
  /\ irq_en' = (~irq_ack /\ (irq_req \/ irq_en))
  /\ buf_irq' = (~irq_ack /\ irq_en /\ queued_base = NoBuf)

QueuedBase(buf_base) ==
  queued_base' = IF buf_base # NoBuf THEN buf_base
                 ELSE IF base_ack THEN NoBuf ELSE queued_base

(***************************************************************************)
(* sample_fetcher.sv                                                       *)
(***************************************************************************)
FetchIdle ==
  /\ ram_state = "IDLE"
  /\ \E mem_wait \in BOOLEAN :
        ram_state' = IF mem_read_en /\ ~mem_wait THEN "READ_WAIT" ELSE "IDLE"
  /\ chunk' = IF chunk_ack THEN NoChunk ELSE chunk
  /\ addr' = IF base_ack THEN queued_base ELSE addr
  /\ UNCHANGED chunk_addr

FetchWait ==
  /\ ram_state = "READ_WAIT"
  /\ UNCHANGED fetchVars

\* The chunk read last ends the buffer; chunk_addr wraps round by itself.
FetchAck ==
  /\ ram_state = "READ_WAIT"
  /\ ram_state' = "IDLE"
  /\ chunk' = buf[addr][chunk_addr]
  /\ chunk_addr' = IF chunk_addr = NumChunks THEN 1 ELSE chunk_addr + 1
  /\ addr' = IF chunk_addr = NumChunks THEN NoBuf ELSE addr

SampleFetcher == FetchIdle \/ FetchWait \/ FetchAck

(***************************************************************************)
(* chunk_player.sv                                                         *)
(***************************************************************************)
PlayerLoad ==
  /\ chunk_ack
  /\ sample_arr' = chunk
  /\ sample_idx' = 0
  /\ arr_valid' = TRUE

PlayerAdvanceKeeping ==
  /\ ~chunk_ack
  /\ sample_idx' = IF sample_idx = ChunkLen - 1 THEN sample_idx ELSE sample_idx + 1
  /\ UNCHANGED <<sample_arr, arr_valid>>

PlayerAdvance ==
  /\ ~chunk_ack
  /\ arr_valid' = (arr_valid /\ sample_idx # ChunkLen - 1)
  /\ sample_idx' = IF sample_idx = ChunkLen - 1 THEN sample_idx ELSE sample_idx + 1
  /\ UNCHANGED sample_arr

PlayerHold ==
  /\ ~chunk_ack
  /\ UNCHANGED playVars

ChunkPlayer == PlayerLoad \/ PlayerAdvance \/ PlayerHold

Clock(control_valid, control, buf_base) ==
  /\ Enable(control_valid, control)
  /\ BufIrq(control_valid, control)
  /\ QueuedBase(buf_base)
  /\ SampleFetcher
  /\ ChunkPlayer
=============================================================================
