------------------------------ MODULE DmaEngine ------------------------------
(***************************************************************************)
(* The DMA engine of the PPU clock by clock: a read master that fetches    *)
(* the words of the kernel VRAM through a bus that may let it wait and     *)
(* answers later, a FIFO of DEPTH words, and a write master that stores    *)
(* them in the CPU-facing VRAM through a bus that may let it wait.         *)
(*                                                                         *)
(* Lengths and addresses are counted in words of 16 bytes from the start   *)
(* of VRAM.  length_eq_0, writelength_eq_0 and done_write are registers in *)
(* the source that say what length and writelength say here.               *)
(***************************************************************************)
EXTENDS Naturals, Sequences

CONSTANTS NumWords,  \* words of VRAM
          DEPTH,     \* words of the FIFO
          Undefined  \* what a memory returns for a word being written

ASSUME DmaAssumption == NumWords \in Nat \ {0} /\ DEPTH \in Nat \ {0, 1}

VARIABLES dma_engine_start, \* the pulse of the PPU
          started, done,
          length, readaddress,          \* words to read, and from where
          writelength, writeaddress,    \* words to write, and to where
          read_select,                  \* a read is on the bus
          estimated_wraddress,          \* where the answer to the next read goes
          wraddress, rdaddress_reg,     \* of the FIFO
          fifo_empty, fifo_full,
          last_write_collision, last_write_data,
          ram, clash,   \* words of the FIFO; a word was read while it was written
          pending,      \* reads accepted by the bus and not answered
          frame,        \* the frame in the kernel VRAM, by its parity
          vramC         \* the CPU-facing VRAM

control == <<started, done, length, readaddress, writelength, writeaddress, read_select>>
buffer == <<estimated_wraddress, wraddress, rdaddress_reg, fifo_empty, fifo_full,
            last_write_collision, last_write_data, ram, clash>>
vars == <<control, buffer, dma_engine_start, pending, frame, vramC>>

Word == 0 .. NumWords - 1
Slot == 0 .. DEPTH - 1

\* A word is known by its frame and its address.
Datum == ({0, 1} \X Word) \cup {Undefined}

\* What the buses do in a clock: they let a read or a write wait, or answer the
\* oldest read.
Bus == {bus \in [read_waitrequest : BOOLEAN, write_waitrequest : BOOLEAN,
                 readdatavalid : BOOLEAN] :
          bus.readdatavalid => pending # <<>>}

(***************************************************************************)
(* The engine never reads or writes behind the end of VRAM, and never has  *)
(* more reads under way than the FIFO has room for.                        *)
(***************************************************************************)
TypeOK ==
  /\ <<started, done, read_select, fifo_empty, fifo_full, clash>> \in BOOLEAN \X BOOLEAN
        \X BOOLEAN \X BOOLEAN \X BOOLEAN \X BOOLEAN
  /\ length \in 0 .. NumWords /\ readaddress \in 0 .. NumWords
  /\ writelength \in 0 .. NumWords /\ writeaddress \in Word
  /\ {estimated_wraddress, wraddress, rdaddress_reg} \subseteq Slot
  /\ ram \in [Slot -> Datum] /\ vramC \in [Word -> Datum]
  /\ Len(pending) <= DEPTH

----------------------------------------------------------------------------
Init ==
  /\ dma_engine_start = FALSE /\ started = FALSE /\ done = FALSE
  /\ length = 0 /\ readaddress = 0
  /\ writelength = 0 /\ writeaddress = 0
  /\ read_select = FALSE
  /\ estimated_wraddress = DEPTH - 1 /\ wraddress = 0 /\ rdaddress_reg = 0
  /\ fifo_empty = TRUE /\ fifo_full = FALSE
  /\ last_write_collision = FALSE /\ last_write_data = Undefined
  /\ ram = [s \in Slot |-> Undefined] /\ clash = FALSE
  /\ pending = <<>> /\ frame = 0
  /\ vramC = [w \in Word |-> Undefined]

\* A pointer of five bits that counts down.
Down(p) == IF p = 0 THEN DEPTH - 1 ELSE p - 1

\* Signals.
begin == dma_engine_start /\ ~started
flush_fifo == done

inc_read(bus) == read_select /\ ~bus.read_waitrequest
write_select == ~fifo_empty
fifo_read(bus) == write_select /\ ~bus.write_waitrequest
fifo_write(bus) == bus.readdatavalid
fifo_inc(bus) == fifo_write(bus) /\ ~fifo_read(bus)
fifo_dec(bus) == fifo_read(bus) /\ ~fifo_write(bus)

p1_length(bus) ==
  IF begin THEN NumWords
  ELSE IF inc_read(bus) /\ length # 0 THEN length - 1 ELSE length

p1_writelength(bus) ==
  IF begin THEN NumWords
  ELSE IF fifo_read(bus) /\ writelength # 0 THEN writelength - 1 ELSE writelength

p1_done_write(bus) == writelength = 0 \/ (fifo_read(bus) /\ writelength = 1)
p1_done_read(bus) ==
  length = 0 \/ (inc_read(bus) /\ length = 1) \/ p1_done_write(bus)

rdaddress(bus) ==
  IF flush_fifo THEN 0
  ELSE IF fifo_read(bus) THEN Down(rdaddress_reg) ELSE rdaddress_reg

write_collision(bus) == fifo_write(bus) /\ wraddress = rdaddress(bus)

p1_fifo_empty(bus) ==
  \/ flush_fifo
  \/ ~fifo_inc(bus) /\ fifo_empty
  \/ fifo_dec(bus) /\ wraddress = Down(rdaddress_reg)

p1_fifo_full_sticky(bus) ==
  ~flush_fifo /\ (fifo_full \/ (inc_read(bus) /\ estimated_wraddress = rdaddress(bus)))

p1_fifo_full(bus) ==
  /\ ~flush_fifo
  /\ \/ ~fifo_dec(bus) /\ fifo_full
     \/ inc_read(bus) /\ estimated_wraddress = rdaddress(bus)

\* The memory may return anything for a word that was being written when it was
\* addressed; the word is then taken from a register beside it.
fifo_ram_q == IF clash THEN Undefined ELSE ram[rdaddress_reg]

fifo_rd_data_of_ram == fifo_ram_q

fifo_rd_data == IF last_write_collision THEN last_write_data ELSE fifo_ram_q

----------------------------------------------------------------------------
\* Lengths, addresses, start and end.
EngineClockEarly(bus) ==
  /\ started' = (begin \/ (started /\ length # 0))
  /\ done' = (started /\ length = 0)
  /\ length' = p1_length(bus)
  /\ writelength' = p1_writelength(bus)
  /\ readaddress' = IF begin THEN 0 ELSE IF inc_read(bus) THEN readaddress + 1 ELSE readaddress
  /\ writeaddress' = IF p1_writelength(bus) = 0 \/ begin THEN 0
                     ELSE IF fifo_read(bus) THEN writeaddress + 1 ELSE writeaddress

EngineClock(bus) ==
  /\ started' = (begin \/ (started /\ writelength # 0))
  /\ done' = (started /\ writelength = 0)
  /\ length' = p1_length(bus)
  /\ writelength' = p1_writelength(bus)
  /\ readaddress' = IF begin THEN 0 ELSE IF inc_read(bus) THEN readaddress + 1 ELSE readaddress
  /\ writeaddress' = IF p1_writelength(bus) = 0 \/ begin THEN 0
                     ELSE IF fifo_read(bus) THEN writeaddress + 1 ELSE writeaddress

\* A read stays on the bus until it is accepted; the next one follows at once
\* unless it is the last or the FIFO will be full.
ReadMaster(bus) ==
  read_select' = IF read_select /\ bus.read_waitrequest THEN TRUE
                 ELSE /\ read_select \/ started
                      /\ ~p1_done_read(bus) /\ ~p1_fifo_full(bus)

Fifo(bus) ==
  /\ wraddress' = IF flush_fifo THEN 0
                  ELSE IF fifo_write(bus) THEN Down(wraddress) ELSE wraddress
  /\ rdaddress_reg' = rdaddress(bus)
  /\ estimated_wraddress' = IF flush_fifo THEN DEPTH - 1
                            ELSE IF inc_read(bus) THEN Down(estimated_wraddress)
                            ELSE estimated_wraddress
  /\ fifo_empty' = p1_fifo_empty(bus)
  /\ fifo_full' = p1_fifo_full(bus)
  /\ last_write_collision' = IF write_collision(bus) THEN TRUE
                             ELSE last_write_collision /\ ~fifo_read(bus)
  /\ last_write_data' = IF write_collision(bus) THEN Head(pending) ELSE last_write_data
  /\ ram' = IF fifo_write(bus) THEN [ram EXCEPT ![wraddress] = Head(pending)] ELSE ram
  /\ clash' = write_collision(bus)

\* The two buses: a read is answered a clock after it was accepted or later, in
\* turn, and a write that does not wait is stored.
Buses(bus) ==
  LET rest == IF bus.readdatavalid THEN Tail(pending) ELSE pending
  IN /\ pending' = IF inc_read(bus) THEN Append(rest, <<frame, readaddress>>) ELSE rest
     /\ vramC' = IF fifo_read(bus) THEN [vramC EXCEPT ![writeaddress] = fifo_rd_data]
                 ELSE vramC

\* The PPU may start the engine in any clock; while it runs this does nothing.
\* The driver changes the kernel VRAM only between two transfers.
Ppu ==
  /\ dma_engine_start' \in BOOLEAN
  /\ frame' = IF dma_engine_start' /\ ~started' THEN 1 - frame ELSE frame

Clock(bus) ==
  EngineClock(bus) /\ ReadMaster(bus) /\ Fifo(bus) /\ Buses(bus) /\ Ppu

Next == \E bus \in Bus : Clock(bus)

(* The clock runs, and no bus lets the engine wait for ever.               *)
ReadAccepted == \E bus \in Bus : inc_read(bus) /\ Clock(bus)
ReadAnswered == \E bus \in Bus : bus.readdatavalid /\ Clock(bus)
WriteAccepted == \E bus \in Bus : fifo_read(bus) /\ Clock(bus)

Spec == Init /\ [][Next]_vars

FairSpec ==
  /\ Spec /\ WF_vars(Next)
  /\ SF_vars(ReadAccepted) /\ SF_vars(ReadAnswered) /\ SF_vars(WriteAccepted)

----------------------------------------------------------------------------
\* The pointer n words further on.
Minus(p, n) == IF n <= p THEN p - n ELSE p + DEPTH - n

(***************************************************************************)
(* PpuCore treats the engine as a FIFO that is a sequence.  It holds the   *)
(* words between the two pointers, then those still to come.               *)
(***************************************************************************)
stored == IF fifo_empty THEN 0
          ELSE IF wraddress < rdaddress_reg THEN rdaddress_reg - wraddress
          ELSE rdaddress_reg + DEPTH - wraddress
fifo == [i \in 1 .. stored |->
           IF i = 1 THEN fifo_rd_data ELSE ram[Minus(rdaddress_reg, i - 1)]]
          \o pending

Core == INSTANCE PpuCore WITH
  NumRegs <- 1, Value <- Datum, Blank <- Undefined,
  FrameLen <- 9, VBlankLen <- 5, FifoDepth <- DEPTH,
  rd <- NumWords - length, wr <- NumWords - writelength,
  kvram <- [w \in Word |-> <<frame, w>>],
  ctrl <- <<>>, update_avail <- FALSE, irq_pending <- FALSE, timer <- 0,
  state <- "PPU_DISP", vram_sync <- FALSE, dma_rdy_for_sync <- FALSE,
  ppu_dma_rdy_irq <- FALSE, syncing <- FALSE, sync_addr <- 0,
  vramP <- <<>>, dbuf <- <<>>

(***************************************************************************)
(* In every clock the engine does what DmaEngine of PpuCore does: words    *)
(* are written in the order they were read and each once, done comes when  *)
(* the last is written, and the FIFO is never asked to hold more than it   *)
(* can, with its pointers, its flags and the word beside the memory        *)
(* (dma_engine_fifo_module).                                               *)
(***************************************************************************)
ImplementsDmaEngine == [][Core!DmaEngine]_vars

(***************************************************************************)
(* When the engine reports the end (done, which flushes the FIFO) no read  *)
(* is under way whose answer would end up in the next frame.               *)
(***************************************************************************)
EndsDrained == ~started => pending = <<>> /\ fifo_empty /\ ~read_select

(***************************************************************************)
(* A transfer that has started ends, whatever waits the buses insert: the  *)
(* full flag, which is kept when a word leaves as another one comes, is    *)
(* taken back in time (p1_fifo_full).                                      *)
(***************************************************************************)
TransferEnds == started ~> done
=============================================================================
