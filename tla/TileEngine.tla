------------------------------ MODULE TileEngine ------------------------------
(***************************************************************************)
(* A tile engine preparing a row (tile_engine.sv): a sync_writer copies    *)
(* eleven chunks of four tiles of Tile-RAM to tilram_rbuf, from the one    *)
(* that the scroll register points at; then indirect_sync_writer looks up  *)
(* the two pixel rows of each of the 44 tiles in Pattern-RAM and puts them *)
(* into patram_rbuf, mirrored.  The mixer reads the two buffers.           *)
(*                                                                         *)
(* A step is one clock.  A tile stands for its entry: tile <<y, x>> has    *)
(* the pattern <<y, x>>, and the constants say how it is mirrored.  A word *)
(* of Pattern-RAM, two rows of a pattern, is named by its address.         *)
(***************************************************************************)
EXTENDS SyncWriter

CONSTANTS XMirror(_), YMirror(_)   \* the mirror bits of a tile

VARIABLES request,   \* input: the row asked for, and the scroll registers
          prep,      \* input: clocks for which prep (rowram_swap) is still high
          patPort,   \* input: read port of Pattern-RAM
          state,     \* "IDLE" or "PREP"
          done,      \* <<n_done, done>>
          start,     \* tilram_fetcher_start
          fetcher,   \* tilram_fetcher, a sync_writer
          tilPort,   \* read port of Tile-RAM
          tilBuf,    \* tilram_rbuf
          bufPort,   \* the read port of tilram_rbuf
          indirect,  \* patram_fetcher, an indirect_sync_writer
          mirror,    \* x_mirror and y_mirror, one and two clocks ago
          patBuf     \* patram_rbuf

ABUF_NUM_ADDR == 44
Slot == 0 .. 63

NoTile == <<0, 0>>
\* A word of patram_rbuf: two rows of a tile.
TwoRows(tile, lo, hi, flipped) == [tile |-> tile, lo |-> lo, hi |-> hi, flipped |-> flipped]

Init ==
  /\ state = "IDLE" /\ done = <<FALSE, FALSE>> /\ start = FALSE
  /\ fetcher = Reset
  /\ tilPort = Latency(<<0, 0>>)
  /\ tilBuf = [i \in Slot |-> NoTile]
  /\ bufPort = Latency(NoTile)
  /\ indirect = [state |-> "IDLE", done |-> FALSE, wren |-> FALSE, abuf |-> 0, targ |-> 0]
  /\ mirror = <<NoTile, NoTile>>
  /\ patBuf = [i \in Slot |-> TwoRows(NoTile, 0, 1, FALSE)]

----------------------------------------------------------------------------
\* Scrolling.
pixelrow == (request.scroll_y + request.next_row) % 512
tilerow == pixelrow \div 8
tile_scroll_x == request.scroll_x \div 8

Chunk(partaddr) == <<tilerow, ((tile_scroll_x \div 4) + partaddr) % 16>>

TileOf(chunk, i) == <<chunk[1], 4 * chunk[2] + i>>

\* pattern_addr_offset: which pair of rows of a tile.
PatternOffset(tile) ==
  LET pair == (pixelrow % 8) \div 2 IN IF YMirror(tile) THEN 3 - pair ELSE pair

\* patram_addr.
patram_addr == <<bufPort.q, PatternOffset(bufPort.q)>>

\* patram_rbuf_fetcher_wrdata_final, of a word and the tile whose mirror bits
\* apply to it.
Oriented(word, tile) ==
  LET lo == 2 * word[2] IN
  IF YMirror(tile) THEN TwoRows(word[1], lo + 1, lo, XMirror(tile))
                   ELSE TwoRows(word[1], lo, lo + 1, XMirror(tile))

Mirrored == Oriented(patPort.q, mirror[2])

\* indirect_sync_writer: the target address runs four clocks behind.
Indirect(w, sync) ==
  CASE w.state = "IDLE" ->
         [w EXCEPT !.abuf = 0, !.targ = 0, !.done = FALSE,
                   !.state = IF sync THEN "SYNC" ELSE "IDLE", !.wren = sync]
    [] w.state = "SYNC" /\ w.targ = ABUF_NUM_ADDR - 1 ->
         [w EXCEPT !.state = "IDLE", !.done = TRUE, !.wren = FALSE]
    [] w.state = "SYNC" /\ w.targ # ABUF_NUM_ADDR - 1 ->
         [w EXCEPT !.abuf = IF w.abuf = ABUF_NUM_ADDR - 1 THEN w.abuf ELSE w.abuf + 1,
                   !.targ = IF w.abuf >= 4 THEN w.targ + 1 ELSE w.targ]

----------------------------------------------------------------------------
Busy == prep > 0 \/ state = "PREP" \/ done # <<FALSE, FALSE>>

Clk ==
  /\ state' = CASE state = "IDLE" -> IF prep > 0 THEN "PREP" ELSE "IDLE"
                [] state = "PREP" -> IF indirect.done THEN "IDLE" ELSE "PREP"
  /\ start' = (state = "IDLE" /\ prep > 0)
  /\ done' = <<state = "PREP" /\ indirect.done, done[1]>>
  /\ fetcher' = Clock(fetcher, start, fetcher.done, 10)
  /\ tilPort' = ReadClock(tilPort, Chunk(fetcher.addr_from))
  /\ tilBuf' = [i \in Slot |-> IF wren_to(fetcher) /\ i \div 4 = fetcher.addr_to
                               THEN TileOf(tilPort.q, i % 4) ELSE tilBuf[i]]
  /\ bufPort' = ReadClock(bufPort, tilBuf[IF state = "PREP" THEN indirect.abuf ELSE 0])
  /\ indirect' = Indirect(indirect, fetcher.done)
  /\ mirror' = <<bufPort.q, mirror[1]>>
  /\ patBuf' = WriteClock(patBuf, indirect.wren, indirect.targ, Mirrored)

----------------------------------------------------------------------------
\* What the mixer reads at column a: the pixel of a pattern and the tile whose
\* palette it takes.
pmxr_pixel_data(a) ==
  LET pixel_addr == (a + (request.scroll_x % 8)) % 512
      tile_addr == ((tile_scroll_x % 4) + (pixel_addr \div 8)) % 64
      word == patBuf[tile_addr]
  IN [palette |-> tilBuf[((a + (request.scroll_x % 32)) % 512) \div 8],
      tile |-> word.tile,
      row |-> IF pixelrow % 2 = 1 THEN word.hi ELSE word.lo,
      col |-> IF word.flipped THEN 7 - (pixel_addr % 8) ELSE pixel_addr % 8]

\* The pixel of the layer, 64 by 64 tiles that repeat, at (x, y).
LayerPixel(x, y) ==
  LET tile == <<(y % 512) \div 8, (x % 512) \div 8>>
  IN [palette |-> tile, tile |-> tile,
      row |-> IF YMirror(tile) THEN 7 - (y % 8) ELSE y % 8,
      col |-> IF XMirror(tile) THEN 7 - (x % 8) ELSE x % 8]

TileTypeOK ==
  /\ state \in {"IDLE", "PREP"}
  /\ \A i \in Slot : tilBuf[i] \in (0 .. 63) \X (0 .. 63)
  /\ indirect.abuf \in 0 .. ABUF_NUM_ADDR - 1 /\ indirect.targ \in 0 .. ABUF_NUM_ADDR - 1
=============================================================================
