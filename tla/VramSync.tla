------------------------------- MODULE VramSync -------------------------------
(***************************************************************************)
(* vram_sync_writer and the part of vram_interconnect in front of it: the  *)
(* DMA engine writes words of 128 bits to the CPU-facing VRAM, which is    *)
(* cut into four memories, and at a sync four sync_writers of different    *)
(* length copy them at once to the PPU-facing VRAM.  Their dones are       *)
(* collected in four latches.                                              *)
(*                                                                         *)
(* The memories have their real sizes.  Of their words only those in       *)
(* Watched are kept; what the others hold is never looked at.              *)
(***************************************************************************)
EXTENDS SyncWriter, FiniteSets

CONSTANTS Watched,    \* addresses of words that are kept
          Frames      \* the frames that are transferred

VramWords == 3348     \* VRAM_SIZE / 16

ASSUME VramSyncAssumption == Watched \subseteq 0 .. VramWords - 1 /\ Frames \subseteq Nat \ {0}

VARIABLES frame,      \* the frame that was transferred last, 0 if none
          cpu,        \* CPU-facing VRAM: segment -> local address -> word
          ppu,        \* PPU-facing VRAM
          port,       \* the read ports of the CPU-facing VRAM
          writer,     \* the four sync_writers
          latch,      \* "done seen", for each of them
          state       \* the state of vram_sync_writer

vars == <<frame, cpu, ppu, port, writer, latch, state>>

Segment == {"tilram", "patram", "palram", "sprram"}

MAX_ADDR ==
  [s \in Segment |-> CASE s = "tilram" -> 1023 [] s = "patram" -> 2047
                       [] s = "palram" -> 255 [] s = "sprram" -> 19]

\* The bit of an address that has this weight.
BitOf(addr, weight) == (addr \div weight) % 2 = 1

\* cpu_choose_... and addr_translation, cut to the width of each memory.
Demux(addr) ==
  CASE BitOf(addr, 2048) /\ BitOf(addr, 1024) /\ BitOf(addr, 256) -> <<"sprram", (addr - 3328) % 32>>
    [] BitOf(addr, 2048) /\ BitOf(addr, 1024) /\ ~BitOf(addr, 256) -> <<"palram", (addr - 3072) % 256>>
    [] BitOf(addr, 2048) # BitOf(addr, 1024) -> <<"patram", (addr - 1024) % 2048>>
    [] OTHER -> <<"tilram", addr % 1024>>

\* The kept words of a memory, by their address in it.
Kept(seg) == {Demux(d)[2] : d \in {w \in Watched : Demux(w)[1] = seg}}
Blank == [s \in Segment |-> [a \in Kept(s) |-> 0]]

\* The word at address d of frame f: all words are different.
Word(f, d) == IF f = 0 THEN 0 ELSE VramWords * f + d

WordIn(mem, addr) == IF addr \in DOMAIN mem THEN mem[addr] ELSE 0

Init ==
  /\ frame = 0
  /\ cpu = Blank /\ ppu = Blank
  /\ port = [s \in Segment |-> Latency(0)]
  /\ writer = [s \in Segment |-> Reset]
  /\ latch = [s \in Segment |-> FALSE]
  /\ state = "IDLE"

----------------------------------------------------------------------------
done == \A s \in Segment : latch[s]

Idle == state = "IDLE" /\ \A s \in Segment : writer[s].state = "IDLE"

\* The DMA engine writes a whole frame, in the order of its addresses, while
\* nothing is copied.
Transfer(f) ==
  /\ Idle
  /\ frame' = f
  /\ cpu' = [s \in Segment |->
               [a \in Kept(s) |->
                  Word(f, CHOOSE d \in Watched :
                            /\ Demux(d) = <<s, a>>
                            /\ \A later \in Watched : Demux(later) = <<s, a>> => later <= d)]]
  /\ UNCHANGED <<ppu, port, writer, latch, state>>

NextLatchKept(s) == latch[s] \/ (state = "SYNC" /\ writer[s].done)

NextLatch(s) ==
  CASE state = "SYNC" /\ done -> FALSE
    [] state = "SYNC" /\ ~done -> latch[s] \/ writer[s].done
    [] OTHER -> latch[s]

\* One clock of the four writers, of their memories and of the latches.
Step(sync) ==
  /\ writer' = [s \in Segment |-> Clock(writer[s], sync, FALSE, MAX_ADDR[s])]
  /\ port' = [s \in Segment |-> ReadClock(port[s], WordIn(cpu[s], writer[s].addr_from))]
  /\ ppu' = [s \in Segment |->
               WriteClock(ppu[s], wren_to(writer[s]), writer[s].addr_to, port[s].q)]
  /\ latch' = [s \in Segment |-> NextLatch(s)]
  /\ state' = CASE state = "IDLE" /\ sync -> "SYNC"
                [] state = "SYNC" /\ done -> "IDLE"
                [] OTHER -> state
  /\ UNCHANGED <<frame, cpu>>

\* vram_sync: one clock, from the PPU state machine, when a frame is ready.
Sync == Idle /\ Step(TRUE)

Run == ~Idle /\ Step(FALSE)

Next == (\E f \in Frames : Transfer(f)) \/ Sync \/ Run

Spec == Init /\ [][Next]_vars /\ WF_vars(Run)

----------------------------------------------------------------------------
TypeOK ==
  /\ frame \in Frames \cup {0}
  /\ \A s \in Segment :
       /\ writer[s].addr_from \in 0 .. MAX_ADDR[s] /\ writer[s].addr_to \in 0 .. MAX_ADDR[s]
       /\ \A a \in DOMAIN cpu[s] : a \in 0 .. MAX_ADDR[s]
       /\ DOMAIN ppu[s] = DOMAIN cpu[s]
  /\ state \in {"IDLE", "SYNC"}

(***************************************************************************)
(* When vram_sync_writer says that it is done, every word of the PPU-facing *)
(* VRAM is the one that the DMA engine wrote to its address: none was      *)
(* written over another, lost at the end of a segment, shifted by the      *)
(* latency of the memories, or left from before because the done of an     *)
(* earlier sync was taken for this one's.                                  *)
(***************************************************************************)
DoneIsCopied ==
  done => \A d \in Watched : ppu[Demux(d)[1]][Demux(d)[2]] = Word(frame, d)

(***************************************************************************)
(* done comes once for every sync and lasts one clock: a done that stayed  *)
(* would tell the PPU that its next sync is over before it began.          *)
(***************************************************************************)
DoneOncePerSync == [][done => ~done' /\ Idle']_vars

(***************************************************************************)
(* Every sync ends: the PPU state machine sends its interrupt only then.   *)
(***************************************************************************)
SyncEnds == state = "SYNC" ~> done
=============================================================================
