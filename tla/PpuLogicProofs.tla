---------------------------- MODULE PpuLogicProofs ----------------------------
(***************************************************************************)
(* Proofs about PpuLogic: the tile engine prepares the row that the scroll *)
(* registers select, and the sprite engine the sprites that the row should *)
(* show, in time.  They hold for every tilemap and pattern, every number   *)
(* of sprites in OAM and on a line, and all that OAM may hold.             *)
(*                                                                         *)
(* The last part is about VramSync, whose memories are copied by the same  *)
(* sync_writer, for any choice of the words that are watched: so for all   *)
(* the words of VRAM at once, of which the runs watch a few.               *)
(***************************************************************************)
EXTENDS PpuLogic, VramSync, FiniteSetTheorems, WellFoundedInduction, TLAPS

(***************************************************************************)
(* A sync_writer.                                                          *)
(***************************************************************************)
Writers == [state : {"IDLE", "SYNC"}, done : BOOLEAN,
            addr_from : Nat, addr_to_buf : Nat, addr_to : Nat]

\* The address counter starts again behind the last word.
Wrap(addr, last) == IF addr > last THEN addr - (last + 1) ELSE addr

\* Three addresses that follow each other and go round at the last one are
\* again such addresses when each has taken the place of the one before it.
LEMMA WrapMoves ==
  ASSUME NEW last \in Nat, last >= 2, NEW to \in Nat, to <= last, to # last,
         NEW buf, buf = Wrap(to + 1, last), NEW from, from = Wrap(to + 2, last)
  PROVE  /\ buf = to + 1 /\ buf \in 0 .. last
         /\ from = Wrap(buf + 1, last)
         /\ (IF from = last THEN 0 ELSE from + 1) = Wrap(buf + 2, last)
<1>1. buf = to + 1 /\ to + 1 <= last
  BY DEF Wrap
<1>2. buf + 1 = to + 2 /\ buf + 2 = to + 3
  BY <1>1
<1>3. from = Wrap(buf + 1, last)
  BY <1>2
<1>4. (IF from = last THEN 0 ELSE from + 1) = Wrap(to + 3, last)
  <2>1. CASE to + 1 = last
    <3>1. from = 0
      BY <2>1 DEF Wrap
    <3>2. Wrap(to + 3, last) = 1
      BY <2>1 DEF Wrap
    <3> QED BY <3>1, <3>2
  <2>2. CASE to + 2 = last
    <3>1. from = last
      BY <2>2 DEF Wrap
    <3>2. Wrap(to + 3, last) = 0
      BY <2>2 DEF Wrap
    <3> QED BY <3>1, <3>2
  <2>3. CASE to + 2 < last
    <3>1. from = to + 2
      BY <2>3 DEF Wrap
    <3>2. Wrap(to + 3, last) = to + 3
      BY <2>3 DEF Wrap
    <3> QED BY <2>3, <3>1, <3>2
  <2> QED BY <1>1, <2>1, <2>2, <2>3
<1> QED BY <1>1, <1>2, <1>3, <1>4

----------------------------------------------------------------------------
(***************************************************************************)
(* The tile engine.                                                        *)
(***************************************************************************)
\* indirect_sync_writer's registers.
Lookups == [state : {"IDLE", "SYNC"}, done : BOOLEAN, wren : BOOLEAN, abuf : Nat, targ : Nat]

\* The tile of a slot of tilram_rbuf, the word that patram_fetcher asks for,
\* and the two rows of the tile that it puts into patram_rbuf.
TileHere(i) == T!TileOf(T!Chunk(i \div 4), i % 4)
WordOf(tile) == <<tile, T!PatternOffset(tile)>>
RowsOf(tile) == T!Oriented(WordOf(tile), tile)

TilesBelow(chunk) ==
  \A i \in Nat : i <= 43 /\ i \div 4 < chunk => tilBuf[i] = TileHere(i)
PatternsBelow(slot) ==
  \A i \in Nat : i <= 43 /\ i < slot => patBuf[i] = RowsOf(TileHere(i))
Tiles == TilesBelow(11)
Patterns == PatternsBelow(44)

FetcherRests == fetcher.state = "IDLE" /\ ~fetcher.done
LookupRests == indirect.state = "IDLE" /\ ~indirect.done /\ ~indirect.wren
NotDone == tile_done = <<FALSE, FALSE>>
Working == tile_state = "PREP" /\ NotDone /\ ~mux /\ ~ready
Resting == tile_state = "IDLE" /\ prep = 0 /\ ~start /\ FetcherRests /\ LookupRests

(***************************************************************************)
(* tilram_fetcher under way: in its first clock it has asked for nothing,  *)
(* in its second for chunk 0, and then two addresses are on their way and  *)
(* the chunks before addr_to are copied.                                   *)
(***************************************************************************)
ChunksOnTheirWay ==
  \/ fetcher.addr_from = 0 /\ fetcher.addr_to_buf = 0 /\ fetcher.addr_to = 0
  \/ /\ fetcher.addr_from = 1 /\ fetcher.addr_to_buf = 0 /\ fetcher.addr_to = 0
     /\ tilPort.mid = T!Chunk(0)
  \/ /\ fetcher.addr_to <= 10
     /\ fetcher.addr_to_buf = Wrap(fetcher.addr_to + 1, 10)
     /\ fetcher.addr_from = Wrap(fetcher.addr_to + 2, 10)
     /\ tilPort.q = T!Chunk(fetcher.addr_to) /\ tilPort.mid = T!Chunk(fetcher.addr_to_buf)
     /\ TilesBelow(fetcher.addr_to)

(***************************************************************************)
(* patram_fetcher under way, in its clock k: it has asked for the tile of  *)
(* slot k and receives the words of slot k - 4, and what it wrote to slot  *)
(* 0 before the first word came is written over.                           *)
(***************************************************************************)
At(k) == IF k < 43 THEN k ELSE 43

WordsOnTheirWay(k) ==
  /\ k <= 47
  /\ indirect.abuf = At(k) /\ indirect.targ = IF k < 4 THEN 0 ELSE k - 4
  /\ k >= 1 => bufPort.mid = TileHere(At(k - 1))
  /\ k >= 2 => bufPort.q = TileHere(At(k - 2))
  /\ k >= 3 => mirror[1] = TileHere(At(k - 3)) /\ patPort.mid = WordOf(TileHere(At(k - 3)))
  /\ k >= 4 => mirror[2] = TileHere(At(k - 4)) /\ patPort.q = WordOf(TileHere(At(k - 4)))
  /\ PatternsBelow(indirect.targ)

\* The phases of a row, from the pulse that asks for it.
Asked ==
  /\ tile_state = "IDLE" /\ NotDone /\ prep = 2 /\ ~start /\ ~ready
  /\ FetcherRests /\ LookupRests
Starting == Working /\ prep = 1 /\ start /\ FetcherRests /\ LookupRests
Fetching ==
  /\ Working /\ prep = 0 /\ ~start
  /\ fetcher.state = "SYNC" /\ ~fetcher.done /\ ChunksOnTheirWay /\ LookupRests
Fetched ==
  /\ Working /\ prep = 0 /\ ~start
  /\ fetcher.state = "IDLE" /\ fetcher.done /\ LookupRests /\ Tiles
LookingUp ==
  /\ Working /\ prep = 0 /\ ~start /\ FetcherRests
  /\ indirect.state = "SYNC" /\ ~indirect.done /\ indirect.wren
  /\ Tiles /\ \E k \in Nat : WordsOnTheirWay(k)
LookedUp ==
  /\ Working /\ prep = 0 /\ ~start /\ FetcherRests
  /\ indirect.state = "IDLE" /\ indirect.done /\ ~indirect.wren
  /\ Tiles /\ Patterns
Finishing ==
  /\ Resting /\ ~mux /\ ~ready /\ Tiles /\ Patterns
  /\ tile_done \in {<<TRUE, FALSE>>, <<FALSE, TRUE>>}
AtRest == Resting /\ NotDone /\ (ready => Tiles /\ Patterns)

TileInv ==
  /\ fetcher \in Writers /\ indirect \in Lookups
  /\ DOMAIN tilBuf = T!Slot /\ DOMAIN patBuf = T!Slot
  /\ mux \in BOOLEAN /\ ready \in BOOLEAN
  /\ \/ Asked \/ Starting \/ Fetching \/ Fetched \/ LookingUp \/ LookedUp
     \/ Finishing \/ AtRest

----------------------------------------------------------------------------
\* The 44 slots that a row uses are slots of the buffers.
LEMMA InSlot == ASSUME NEW i \in Nat, i <= 43 PROVE i \in T!Slot
BY DEF T!Slot

\* What the tile engine prepares is that of the row asked for.
LEMMA RowKept ==
  ASSUME request' = request
  PROVE  /\ \A c : T!Chunk(c)' = T!Chunk(c)
         /\ \A i : TileHere(i)' = TileHere(i)
         /\ \A tile : WordOf(tile)' = WordOf(tile)
         /\ \A tile : RowsOf(tile)' = RowsOf(tile)
<1>1. T!pixelrow' = T!pixelrow /\ T!tilerow' = T!tilerow /\ T!tile_scroll_x' = T!tile_scroll_x
  BY DEF T!pixelrow, T!tilerow, T!tile_scroll_x
<1>2. \A c : T!Chunk(c)' = T!Chunk(c)
  BY <1>1 DEF T!Chunk
<1>3. \A tile : WordOf(tile)' = WordOf(tile)
  BY <1>1 DEF WordOf, T!PatternOffset
<1>4. \A tile : RowsOf(tile)' = RowsOf(tile)
  BY <1>3 DEF RowsOf, T!Oriented
<1>5. \A i : TileHere(i)' = TileHere(i)
  BY <1>2 DEF TileHere, T!TileOf
<1> QED BY <1>2, <1>3, <1>4, <1>5

\* A clock of the tile engine, with its buffers.
LEMMA TileClock ==
  ASSUME Clk
  PROVE  /\ tile_state' = CASE tile_state = "IDLE" -> IF prep > 0 THEN "PREP" ELSE "IDLE"
                            [] tile_state = "PREP" -> IF indirect.done THEN "IDLE" ELSE "PREP"
         /\ start' = (tile_state = "IDLE" /\ prep > 0)
         /\ tile_done' = <<tile_state = "PREP" /\ indirect.done, tile_done[1]>>
         /\ prep' = IF prep > 0 THEN prep - 1 ELSE 0
         /\ mux' = IF tile_done[2] THEN TRUE ELSE IF prep > 0 THEN FALSE ELSE mux
         /\ ready' = (ready \/ tile_done[2])
         /\ request' = request
BY DEF Clk, T!Clk, NextMux, clear

\* At rest the fetchers stay at rest, and their buffers are not written.
LEMMA FetcherRestsOn ==
  ASSUME Clk, fetcher \in Writers, fetcher.state = "IDLE", ~start, DOMAIN tilBuf = T!Slot
  PROVE  /\ fetcher' \in Writers /\ FetcherRests'
         /\ DOMAIN tilBuf' = T!Slot /\ \A i \in T!Slot : tilBuf'[i] = tilBuf[i]
<1>1. /\ fetcher' = T!Clock(fetcher, start, fetcher.done, 10)
      /\ tilBuf' = [i \in T!Slot |->
                      IF T!wren_to(fetcher) /\ i \div 4 = fetcher.addr_to
                      THEN T!TileOf(tilPort.q, i % 4) ELSE tilBuf[i]]
  BY DEF Clk, T!Clk
<1>2. ~T!wren_to(fetcher)
  BY DEF T!wren_to
<1>3. fetcher' = [fetcher EXCEPT !.done = fetcher.done /\ ~fetcher.done]
  BY <1>1 DEF T!Clock
<1>4. fetcher' \in Writers /\ fetcher'.state = "IDLE" /\ ~fetcher'.done
  BY <1>3 DEF Writers
<1> QED BY <1>1, <1>2, <1>4 DEF FetcherRests

\* The pattern fetcher at rest stays so, and patram_rbuf is not written.
LEMMA LookupRestsOn ==
  ASSUME Clk, indirect \in Lookups, indirect.state = "IDLE", ~indirect.wren,
         fetcher \in Writers, ~fetcher.done, DOMAIN patBuf = T!Slot
  PROVE  /\ indirect' \in Lookups /\ LookupRests' /\ patBuf' = patBuf
<1>1. /\ indirect' = T!Indirect(indirect, fetcher.done)
      /\ patBuf' = T!WriteClock(patBuf, indirect.wren, indirect.targ, T!Mirrored)
  BY DEF Clk, T!Clk
<1>2. patBuf' = patBuf
  BY <1>1 DEF T!WriteClock
<1>3. indirect' = [indirect EXCEPT !.abuf = 0, !.targ = 0, !.done = FALSE,
                                   !.state = "IDLE", !.wren = FALSE]
  <2>1. T!Indirect(indirect, fetcher.done)
          = [indirect EXCEPT !.abuf = 0, !.targ = 0, !.done = FALSE,
                             !.state = IF fetcher.done THEN "SYNC" ELSE "IDLE",
                             !.wren = fetcher.done]
    BY DEF T!Indirect
  <2>2. fetcher.done = FALSE
    BY DEF Writers
  <2> QED BY <1>1, <2>1, <2>2
<1>4. indirect' \in Lookups /\ indirect'.state = "IDLE" /\ ~indirect'.done /\ ~indirect'.wren
  BY <1>3 DEF Lookups
<1> QED BY <1>2, <1>4 DEF LookupRests

\* The tiles of the row stay in a tilram_rbuf that is not written.
LEMMA TilesKept ==
  ASSUME request' = request, \A i \in T!Slot : tilBuf'[i] = tilBuf[i], Tiles
  PROVE  Tiles'
<1>1. ASSUME NEW i \in Nat, i <= 43, i \div 4 < 11
      PROVE  tilBuf'[i] = TileHere(i)'
  <2>1. tilBuf'[i] = tilBuf[i]
    BY <1>1, InSlot
  <2>2. tilBuf[i] = TileHere(i)
    BY <1>1 DEF Tiles, TilesBelow
  <2>3. TileHere(i)' = TileHere(i)
    BY RowKept, Zenon
  <2> QED BY <2>1, <2>2, <2>3
<1> QED BY <1>1 DEF Tiles, TilesBelow

\* The patterns of the row stay in a patram_rbuf that is not written.
LEMMA PatternsKept ==
  ASSUME request' = request, patBuf' = patBuf, Patterns
  PROVE  Patterns'
<1>1. ASSUME NEW i \in Nat, i <= 43, i < 44
      PROVE  patBuf'[i] = RowsOf(TileHere(i))'
  <2>1. patBuf[i] = RowsOf(TileHere(i))
    BY <1>1 DEF Patterns, PatternsBelow
  <2>2. RowsOf(TileHere(i))' = RowsOf(TileHere(i))
    BY RowKept DEF RowsOf
  <2> QED BY <2>1, <2>2
<1> QED BY <1>1 DEF Patterns, PatternsBelow

\* The tile engine works on until the pattern fetcher is done.
LEMMA WorkingOn ==
  ASSUME Clk, Working, mux \in BOOLEAN, ready \in BOOLEAN,
         indirect \in Lookups, ~indirect.done
  PROVE  Working' /\ ~start' /\ mux' \in BOOLEAN /\ ready' \in BOOLEAN
<1>1. indirect.done = FALSE /\ tile_state = "PREP" /\ tile_done = <<FALSE, FALSE>>
      /\ mux = FALSE /\ ready = FALSE
  BY DEF Working, NotDone, Lookups
<1>2. tile_state' = "PREP" /\ ~start'
  BY <1>1, TileClock
<1>3. tile_done' = <<FALSE, FALSE>>
  BY <1>1, TileClock
<1>4. mux' = FALSE /\ ready' = FALSE
  BY <1>1, TileClock
<1> QED BY <1>2, <1>3, <1>4 DEF Working, NotDone

\* The pulse that asks for a row starts the tile engine.
LEMMA AskedStep ==
  ASSUME Clk, TileInv, Asked
  PROVE  TileInv' /\ Starting'
<1>1. FetcherRests' /\ fetcher' \in Writers /\ DOMAIN tilBuf' = T!Slot
  BY FetcherRestsOn DEF TileInv, Asked, FetcherRests
<1>2. LookupRests' /\ indirect' \in Lookups /\ DOMAIN patBuf' = T!Slot
  BY LookupRestsOn DEF TileInv, Asked, FetcherRests, LookupRests
<1>3. tile_state = "IDLE" /\ tile_done = <<FALSE, FALSE>> /\ ready = FALSE
  BY DEF TileInv, Asked, NotDone
<1>0. ~tile_done[1] /\ ~tile_done[2]
  BY <1>3
<1>4. prep > 0 /\ prep' = 1
  BY TileClock DEF Asked
<1>5. tile_state' = "PREP" /\ start'
  <2>1. tile_state' = IF prep > 0 THEN "PREP" ELSE "IDLE"
    BY <1>3, TileClock
  <2>2. start' = (tile_state = "IDLE" /\ prep > 0)
    BY TileClock
  <2> QED BY <1>3, <1>4, <2>1, <2>2, Zenon
<1>6. tile_done' = <<FALSE, FALSE>>
  BY <1>3, TileClock
<1>7. mux' = FALSE /\ ready' = FALSE
  <2>1. mux' = IF tile_done[2] THEN TRUE ELSE IF prep > 0 THEN FALSE ELSE mux
    BY TileClock
  <2>2. ready' = (ready \/ tile_done[2])
    BY TileClock
  <2> QED BY <1>0, <1>3, <1>4, <2>1, <2>2, Zenon
<1>8. Starting'
  BY <1>1, <1>2, <1>4, <1>5, <1>6, <1>7 DEF Starting, Working, NotDone
<1> QED BY <1>1, <1>2, <1>7, <1>8 DEF TileInv

\* tilram_fetcher starts.
LEMMA StartingStep ==
  ASSUME Clk, TileInv, Starting
  PROVE  TileInv' /\ Fetching'
<1>1. fetcher \in Writers /\ fetcher.state = "IDLE" /\ start
  BY DEF TileInv, Starting, FetcherRests
<1>2. /\ fetcher' = T!Clock(fetcher, start, fetcher.done, 10)
      /\ tilBuf' = [i \in T!Slot |->
                      IF T!wren_to(fetcher) /\ i \div 4 = fetcher.addr_to
                      THEN T!TileOf(tilPort.q, i % 4) ELSE tilBuf[i]]
  BY DEF Clk, T!Clk
<1>3. fetcher' = [state |-> "SYNC", done |-> FALSE, addr_from |-> 0, addr_to_buf |-> 0,
                  addr_to |-> 0]
  BY <1>1, <1>2 DEF T!Clock, T!Start, T!Reset
<1>4. fetcher' \in Writers /\ fetcher'.state = "SYNC" /\ ~fetcher'.done /\ ChunksOnTheirWay'
  BY <1>3 DEF Writers, ChunksOnTheirWay
<1>5. LookupRests' /\ indirect' \in Lookups /\ DOMAIN patBuf' = T!Slot
  BY LookupRestsOn DEF TileInv, Starting, FetcherRests, LookupRests
<1>6. Working' /\ ~start' /\ mux' \in BOOLEAN /\ ready' \in BOOLEAN
  BY WorkingOn DEF TileInv, Starting, LookupRests
<1>7. prep' = 0
  BY TileClock DEF Starting
<1>8. Fetching'
  BY <1>4, <1>5, <1>6, <1>7 DEF Fetching
<1>9. DOMAIN tilBuf' = T!Slot
  BY <1>2
<1> QED BY <1>4, <1>5, <1>6, <1>8, <1>9 DEF TileInv

\* What tilram_fetcher writes in a clock.
LEMMA ChunkWritten ==
  ASSUME Clk, fetcher.state = "SYNC"
  PROVE  \A i \in Nat : i <= 43 =>
           tilBuf'[i] = IF i \div 4 = fetcher.addr_to THEN T!TileOf(tilPort.q, i % 4)
                                                      ELSE tilBuf[i]
<1>1. /\ T!wren_to(fetcher)
      /\ tilBuf' = [i \in T!Slot |->
                      IF T!wren_to(fetcher) /\ i \div 4 = fetcher.addr_to
                      THEN T!TileOf(tilPort.q, i % 4) ELSE tilBuf[i]]
  BY DEF Clk, T!Clk, T!wren_to
<1> QED BY <1>1, InSlot

\* A clock of tilram_fetcher: the next chunk is copied, or the last one
\* was.
LEMMA FetchingStep ==
  ASSUME Clk, TileInv, Fetching
  PROVE  TileInv' /\ (Fetching' \/ Fetched')
<1>1. /\ fetcher \in Writers /\ fetcher.state = "SYNC" /\ fetcher.done = FALSE
      /\ fetcher.addr_from \in Nat /\ fetcher.addr_to_buf \in Nat /\ fetcher.addr_to \in Nat
  BY DEF TileInv, Fetching, Writers
<1>2. /\ fetcher' = T!Clock(fetcher, start, fetcher.done, 10)
      /\ tilPort' = T!ReadClock(tilPort, T!Chunk(fetcher.addr_from))
      /\ DOMAIN tilBuf' = T!Slot
  BY DEF Clk, T!Clk
<1>3. tilPort'.mid = T!Chunk(fetcher.addr_from) /\ tilPort'.q = tilPort.mid
  BY <1>2 DEF T!ReadClock
<1>4. LookupRests' /\ indirect' \in Lookups /\ DOMAIN patBuf' = T!Slot
  BY <1>1, LookupRestsOn DEF TileInv, Fetching, LookupRests
<1>5. Working' /\ ~start' /\ mux' \in BOOLEAN /\ ready' \in BOOLEAN
  BY WorkingOn DEF TileInv, Fetching, LookupRests
<1>6. prep' = 0
  BY TileClock DEF Fetching
<1>7. CASE fetcher.addr_to = 10
  <2>1. fetcher' = [fetcher EXCEPT !.state = "IDLE", !.done = TRUE]
    BY <1>1, <1>2, <1>7 DEF T!Clock, T!AtEnd
  <2>2. fetcher' \in Writers /\ fetcher'.state = "IDLE" /\ fetcher'.done
    BY <1>1, <2>1 DEF Writers
  <2>3. tilPort.q = T!Chunk(10) /\ TilesBelow(10)
    BY <1>7 DEF Fetching, ChunksOnTheirWay
  <2>4. ASSUME NEW i \in Nat, i <= 43, i \div 4 < 11
        PROVE  tilBuf'[i] = TileHere(i)'
    <3>1. TileHere(i)' = TileHere(i)
      BY TileClock, RowKept, Zenon
    <3>2. CASE i \div 4 = 10
      <4>1. tilBuf'[i] = T!TileOf(T!Chunk(10), i % 4)
        BY <1>1, <1>7, <2>3, <2>4, <3>2, ChunkWritten
      <4> QED BY <3>1, <3>2, <4>1 DEF TileHere
    <3>3. CASE i \div 4 # 10
      <4>1. tilBuf'[i] = tilBuf[i]
        BY <1>1, <1>7, <2>4, <3>3, ChunkWritten
      <4>2. i \div 4 < 10
        BY <2>4, <3>3
      <4> QED BY <2>3, <2>4, <3>1, <4>1, <4>2 DEF TilesBelow
    <3> QED BY <3>2, <3>3
  <2>5. Tiles'
    BY <2>4 DEF Tiles, TilesBelow
  <2>6. Fetched'
    BY <1>4, <1>5, <1>6, <2>2, <2>5 DEF Fetched
  <2> QED BY <1>2, <1>4, <1>5, <2>2, <2>6 DEF TileInv
<1>8. CASE fetcher.addr_to # 10
  <2> DEFINE next == IF fetcher.addr_from = 10 THEN 0 ELSE fetcher.addr_from + 1
  <2>1. fetcher' = [fetcher EXCEPT !.addr_from = next, !.addr_to_buf = fetcher.addr_from,
                                   !.addr_to = fetcher.addr_to_buf]
    BY <1>1, <1>2, <1>8 DEF T!Clock, T!AtEnd, T!Advance
  <2>2. next \in Nat /\ next = IF fetcher.addr_from = 10 THEN 0 ELSE fetcher.addr_from + 1
    BY <1>1
  <2> HIDE DEF next
  <2>3. /\ fetcher' \in Writers /\ fetcher'.state = "SYNC" /\ ~fetcher'.done
        /\ fetcher'.addr_from = next /\ fetcher'.addr_to_buf = fetcher.addr_from
        /\ fetcher'.addr_to = fetcher.addr_to_buf
    BY <1>1, <2>1, <2>2 DEF Writers
  <2>4. ChunksOnTheirWay'
    <3>0. \A c : T!Chunk(c)' = T!Chunk(c)
      BY TileClock, RowKept, Zenon
    <3>1. CASE fetcher.addr_from = 0 /\ fetcher.addr_to_buf = 0 /\ fetcher.addr_to = 0
      <4>1. fetcher'.addr_to = 0 /\ fetcher'.addr_to_buf = 0 /\ fetcher'.addr_from = 1
        BY <2>2, <2>3, <3>1
      <4>2. tilPort'.mid = T!Chunk(0)'
        BY <1>3, <3>0, <3>1
      <4> QED BY <4>1, <4>2 DEF ChunksOnTheirWay
    <3>2. CASE /\ fetcher.addr_from = 1 /\ fetcher.addr_to_buf = 0 /\ fetcher.addr_to = 0
               /\ tilPort.mid = T!Chunk(0)
      <4>1. fetcher'.addr_to = 0 /\ fetcher'.addr_to_buf = 1 /\ fetcher'.addr_from = 2
        BY <2>2, <2>3, <3>2
      <4>2. Wrap(0 + 1, 10) = 1 /\ Wrap(0 + 2, 10) = 2
        BY DEF Wrap
      <4>3. TilesBelow(0)'
        BY DEF TilesBelow
      <4>4. tilPort'.q = T!Chunk(0)' /\ tilPort'.mid = T!Chunk(1)'
        BY <1>3, <3>0, <3>2
      <4>5. TilesBelow(fetcher.addr_to)'
        BY <4>1, <4>3 DEF TilesBelow
      <4> QED BY <4>1, <4>2, <4>4, <4>5 DEF ChunksOnTheirWay
    <3>3. CASE /\ fetcher.addr_to <= 10
               /\ fetcher.addr_to_buf = Wrap(fetcher.addr_to + 1, 10)
               /\ fetcher.addr_from = Wrap(fetcher.addr_to + 2, 10)
               /\ tilPort.q = T!Chunk(fetcher.addr_to) /\ tilPort.mid = T!Chunk(fetcher.addr_to_buf)
               /\ TilesBelow(fetcher.addr_to)
      <4>1. /\ fetcher.addr_to_buf = fetcher.addr_to + 1 /\ fetcher.addr_to_buf \in 0 .. 10
            /\ fetcher.addr_from = Wrap(fetcher.addr_to_buf + 1, 10)
            /\ next = Wrap(fetcher.addr_to_buf + 2, 10)
        BY <1>1, <1>8, <2>2, <3>3, WrapMoves
      <4>2. /\ fetcher'.addr_to <= 10 /\ fetcher'.addr_to = fetcher.addr_to + 1
            /\ fetcher'.addr_to_buf = Wrap(fetcher'.addr_to + 1, 10)
            /\ fetcher'.addr_from = Wrap(fetcher'.addr_to + 2, 10)
        BY <2>3, <4>1
      <4>3. tilPort'.q = T!Chunk(fetcher'.addr_to) /\ tilPort'.mid = T!Chunk(fetcher'.addr_to_buf)
        BY <1>3, <2>3, <3>3
      <4>4. tilPort'.q = T!Chunk(fetcher.addr_to)' /\ tilPort'.mid = T!Chunk(fetcher.addr_to_buf)'
        BY <4>3, <3>0
      <4>5. ASSUME NEW i \in Nat, i <= 43, i \div 4 < fetcher'.addr_to
            PROVE  tilBuf'[i] = TileHere(i)'
        <5>1. TileHere(i)' = TileHere(i)
          BY TileClock, RowKept, Zenon
        <5>2. CASE i \div 4 = fetcher.addr_to
          <6>1. tilBuf'[i] = T!TileOf(T!Chunk(i \div 4), i % 4)
            BY <1>1, <3>3, <4>5, <5>2, ChunkWritten
          <6> QED BY <5>1, <6>1 DEF TileHere
        <5>3. CASE i \div 4 # fetcher.addr_to
          <6>1. tilBuf'[i] = tilBuf[i]
            BY <1>1, <4>5, <5>3, ChunkWritten
          <6>2. i \div 4 < fetcher.addr_to
            BY <1>1, <4>2, <4>5, <5>3
          <6> QED BY <3>3, <4>5, <5>1, <6>1, <6>2 DEF TilesBelow
        <5> QED BY <5>2, <5>3
      <4>6. TilesBelow(fetcher.addr_to)'
        BY <4>5 DEF TilesBelow
      <4> QED BY <4>2, <4>4, <4>6 DEF ChunksOnTheirWay
    <3> QED BY <3>1, <3>2, <3>3 DEF Fetching, ChunksOnTheirWay
  <2>5. Fetching'
    BY <1>4, <1>5, <1>6, <2>3, <2>4 DEF Fetching
  <2> QED BY <1>2, <1>4, <1>5, <2>3, <2>5 DEF TileInv
<1> QED BY <1>7, <1>8

\* When the tiles are copied patram_fetcher starts.
LEMMA FetchedStep ==
  ASSUME Clk, TileInv, Fetched
  PROVE  TileInv' /\ LookingUp'
<1>1. /\ fetcher \in Writers /\ fetcher.state = "IDLE" /\ fetcher.done = TRUE
      /\ indirect \in Lookups /\ indirect.state = "IDLE" /\ indirect.wren = FALSE
      /\ DOMAIN tilBuf = T!Slot /\ DOMAIN patBuf = T!Slot /\ ~start /\ Tiles
  BY DEF TileInv, Fetched, LookupRests, Lookups, Writers
<1>2. fetcher' \in Writers /\ FetcherRests' /\ DOMAIN tilBuf' = T!Slot
  BY <1>1, FetcherRestsOn
<1>3. Tiles'
  BY <1>1, FetcherRestsOn, TileClock, TilesKept
<1>4. /\ indirect' = T!Indirect(indirect, fetcher.done)
      /\ patBuf' = T!WriteClock(patBuf, indirect.wren, indirect.targ, T!Mirrored)
  BY DEF Clk, T!Clk
<1>5. DOMAIN patBuf' = T!Slot
  BY <1>1, <1>4 DEF T!WriteClock
<1>6. indirect' = [indirect EXCEPT !.abuf = 0, !.targ = 0, !.done = FALSE,
                                   !.state = "SYNC", !.wren = TRUE]
  BY <1>1, <1>4 DEF T!Indirect
<1>7. /\ indirect' \in Lookups /\ indirect'.state = "SYNC" /\ ~indirect'.done
      /\ indirect'.wren /\ indirect'.abuf = 0 /\ indirect'.targ = 0
  BY <1>1, <1>6 DEF Lookups
<1>8. WordsOnTheirWay(0)'
  <2>1. PatternsBelow(indirect.targ)'
    BY <1>7 DEF PatternsBelow
  <2>2. At(0) = 0
    BY DEF At
  <2> QED BY <1>7, <2>1, <2>2 DEF WordsOnTheirWay
<1>9. Working' /\ ~start' /\ mux' \in BOOLEAN /\ ready' \in BOOLEAN
  BY WorkingOn DEF TileInv, Fetched, LookupRests
<1>10. prep' = 0
  BY TileClock DEF Fetched
<1>11. \E k \in Nat : WordsOnTheirWay(k)'
  BY <1>8, Zenon, 0 \in Nat
<1>12. LookingUp'
  BY <1>2, <1>3, <1>7, <1>9, <1>10, <1>11, Zenon DEF LookingUp
<1> QED BY <1>2, <1>5, <1>7, <1>9, <1>12 DEF TileInv

\* When the patterns are looked up the tile engine is done.
LEMMA LookedUpStep ==
  ASSUME Clk, TileInv, LookedUp
  PROVE  TileInv' /\ Finishing'
<1>1. /\ fetcher \in Writers /\ fetcher.state = "IDLE" /\ fetcher.done = FALSE
      /\ indirect \in Lookups /\ indirect.state = "IDLE" /\ indirect.wren = FALSE
      /\ indirect.done = TRUE
      /\ DOMAIN tilBuf = T!Slot /\ DOMAIN patBuf = T!Slot /\ ~start /\ Tiles /\ Patterns
  BY DEF TileInv, LookedUp, FetcherRests, Lookups, Writers
<1>2. fetcher' \in Writers /\ FetcherRests' /\ DOMAIN tilBuf' = T!Slot /\ Tiles'
  BY <1>1, FetcherRestsOn, TileClock, TilesKept
<1>3. indirect' \in Lookups /\ LookupRests' /\ DOMAIN patBuf' = T!Slot /\ Patterns'
  BY <1>1, LookupRestsOn, TileClock, PatternsKept
<1>4. /\ tile_state = "PREP" /\ tile_done = <<FALSE, FALSE>> /\ mux = FALSE /\ ready = FALSE
      /\ prep = 0
  BY DEF TileInv, LookedUp, Working, NotDone
<1>5. tile_state' = "IDLE" /\ ~start'
  BY <1>1, <1>4, TileClock
<1>6. tile_done' = <<TRUE, FALSE>>
  BY <1>1, <1>4, TileClock
<1>7. prep' = 0
  BY <1>4, TileClock
<1>8. mux' = FALSE /\ ready' = FALSE
  <2>1. ~(prep > 0) /\ ~tile_done[2]
    BY <1>4
  <2>2. mux' = IF tile_done[2] THEN TRUE ELSE IF prep > 0 THEN FALSE ELSE mux
    BY TileClock
  <2>3. ready' = (ready \/ tile_done[2])
    BY TileClock
  <2>4. mux = FALSE /\ ready = FALSE
    BY <1>4
  <2> QED BY <2>1, <2>2, <2>3, <2>4, Zenon
<1>9. Finishing'
  BY <1>2, <1>3, <1>5, <1>6, <1>7, <1>8 DEF Finishing, Resting
<1> QED BY <1>2, <1>3, <1>8, <1>9 DEF TileInv

\* A tile engine that nobody asks for a row keeps the one it has.
LEMMA RestingOn ==
  ASSUME Clk, TileInv, Resting
  PROVE  /\ Resting' /\ (Tiles => Tiles') /\ (Patterns => Patterns')
         /\ tile_done' = <<FALSE, tile_done[1]>>
         /\ fetcher' \in Writers /\ indirect' \in Lookups
         /\ DOMAIN tilBuf' = T!Slot /\ DOMAIN patBuf' = T!Slot
<1>1. /\ fetcher \in Writers /\ fetcher.state = "IDLE" /\ fetcher.done = FALSE
      /\ indirect \in Lookups /\ indirect.state = "IDLE" /\ indirect.wren = FALSE
      /\ indirect.done = FALSE
      /\ DOMAIN tilBuf = T!Slot /\ DOMAIN patBuf = T!Slot /\ ~start
  BY DEF TileInv, Resting, FetcherRests, LookupRests, Lookups, Writers
<1>2. fetcher' \in Writers /\ FetcherRests' /\ DOMAIN tilBuf' = T!Slot /\ (Tiles => Tiles')
  BY <1>1, FetcherRestsOn, TileClock, TilesKept
<1>3. /\ indirect' \in Lookups /\ LookupRests' /\ DOMAIN patBuf' = T!Slot
      /\ (Patterns => Patterns')
  BY <1>1, LookupRestsOn, TileClock, PatternsKept
<1>4. tile_state = "IDLE" /\ prep = 0
  BY DEF Resting
<1>5. tile_state' = "IDLE" /\ prep' = 0
  BY <1>4, TileClock
<1>6. ~start'
  <2>1. start' = (tile_state = "IDLE" /\ prep > 0) /\ ~(prep > 0)
    BY <1>4, TileClock
  <2> QED BY <2>1
<1>7. tile_done' = <<FALSE, tile_done[1]>>
  BY <1>1, <1>4, TileClock
<1> QED BY <1>2, <1>3, <1>5, <1>6, <1>7 DEF Resting

\* n_done and done: the mixer takes the row, and the sprite engine the
\* port.
LEMMA FinishingStep ==
  ASSUME Clk, TileInv, Finishing
  PROVE  TileInv' /\ (Finishing' \/ AtRest')
<1>1. Resting /\ Tiles /\ Patterns /\ mux = FALSE /\ ready = FALSE /\ prep = 0
  BY DEF TileInv, Finishing, Resting
<1>2. /\ Resting' /\ Tiles' /\ Patterns' /\ tile_done' = <<FALSE, tile_done[1]>>
      /\ fetcher' \in Writers /\ indirect' \in Lookups
      /\ DOMAIN tilBuf' = T!Slot /\ DOMAIN patBuf' = T!Slot
  BY <1>1, RestingOn
<1>3. ~(prep > 0)
  BY <1>1
<1>4. /\ mux' = IF tile_done[2] THEN TRUE ELSE IF prep > 0 THEN FALSE ELSE mux
      /\ ready' = (ready \/ tile_done[2])
  BY TileClock
<1>5. CASE tile_done = <<TRUE, FALSE>>
  <2>1. tile_done[2] = FALSE /\ tile_done[1] = TRUE
    BY <1>5
  <2>2. mux' = FALSE /\ ready' = FALSE
    BY <1>1, <1>3, <1>4, <2>1, Zenon
  <2>3. Finishing'
    BY <1>2, <2>1, <2>2 DEF Finishing
  <2> QED BY <1>2, <2>2, <2>3 DEF TileInv
<1>6. CASE tile_done = <<FALSE, TRUE>>
  <2>1. tile_done[2] = TRUE /\ tile_done[1] = FALSE
    BY <1>6
  <2>2. mux' = TRUE /\ ready' = TRUE
    BY <1>1, <1>3, <1>4, <2>1, Zenon
  <2>3. AtRest'
    BY <1>2, <2>1, <2>2 DEF AtRest, NotDone
  <2> QED BY <1>2, <2>2, <2>3 DEF TileInv
<1> QED BY <1>5, <1>6 DEF Finishing

\* Until the next row is asked for nothing changes, and the port stays
\* whose it is.
LEMMA AtRestStep ==
  ASSUME Clk, TileInv, AtRest
  PROVE  TileInv' /\ AtRest' /\ mux' = mux
<1>1. Resting /\ tile_done = <<FALSE, FALSE>> /\ prep = 0 /\ (ready => Tiles /\ Patterns)
  BY DEF TileInv, AtRest, Resting, NotDone
<1>2. /\ Resting' /\ (Tiles => Tiles') /\ (Patterns => Patterns')
      /\ tile_done' = <<FALSE, tile_done[1]>>
      /\ fetcher' \in Writers /\ indirect' \in Lookups
      /\ DOMAIN tilBuf' = T!Slot /\ DOMAIN patBuf' = T!Slot
  BY <1>1, RestingOn
<1>3. ~(prep > 0) /\ tile_done[1] = FALSE /\ tile_done[2] = FALSE
  BY <1>1
<1>4. /\ mux' = IF tile_done[2] THEN TRUE ELSE IF prep > 0 THEN FALSE ELSE mux
      /\ ready' = (ready \/ tile_done[2])
      /\ mux \in BOOLEAN /\ ready \in BOOLEAN
  BY TileClock DEF TileInv
<1>5. mux' = mux /\ ready' = ready
  BY <1>3, <1>4, Zenon
<1>6. tile_done' = <<FALSE, FALSE>>
  BY <1>2, <1>3
<1>7. AtRest'
  BY <1>1, <1>2, <1>5, <1>6 DEF AtRest, NotDone
<1> QED BY <1>2, <1>4, <1>5, <1>7 DEF TileInv

\* What patram_fetcher writes in a clock.
LEMMA RowsWritten ==
  ASSUME Clk, indirect \in Lookups, indirect.wren, indirect.targ <= 43, DOMAIN patBuf = T!Slot
  PROVE  /\ DOMAIN patBuf' = T!Slot
         /\ \A i \in Nat : i <= 43 =>
              patBuf'[i] = IF i = indirect.targ THEN T!Mirrored ELSE patBuf[i]
<1>1. patBuf' = T!WriteClock(patBuf, indirect.wren, indirect.targ, T!Mirrored)
  BY DEF Clk, T!Clk
<1>2. indirect.targ \in T!Slot
  BY InSlot DEF Lookups
<1>3. patBuf' = [patBuf EXCEPT ![indirect.targ] = T!Mirrored]
  BY <1>1, <1>2 DEF T!WriteClock
<1> HIDE DEF T!Mirrored
<1>4. ASSUME NEW i \in Nat, i <= 43
      PROVE  patBuf'[i] = IF i = indirect.targ THEN T!Mirrored ELSE patBuf[i]
  BY <1>3, <1>4, InSlot
<1> QED BY <1>3, <1>4

\* The memories that patram_fetcher reads.
LEMMA WordsAnswered ==
  ASSUME Clk, tile_state = "PREP", ~mux
  PROVE  /\ bufPort'.mid = tilBuf[indirect.abuf] /\ bufPort'.q = bufPort.mid
         /\ mirror'[1] = bufPort.q /\ mirror'[2] = mirror[1]
         /\ patPort'.mid = WordOf(bufPort.q) /\ patPort'.q = patPort.mid
<1>1. /\ bufPort' = T!ReadClock(bufPort, tilBuf[IF tile_state = "PREP" THEN indirect.abuf ELSE 0])
      /\ mirror' = <<bufPort.q, mirror[1]>>
      /\ patPort' = ReadClock(patPort, IF mux THEN S!patram_addr ELSE T!patram_addr)
  BY DEF Clk, T!Clk
<1>2. patPort' = ReadClock(patPort, WordOf(bufPort.q))
  BY <1>1 DEF T!patram_addr, WordOf
<1>3. patPort'.mid = WordOf(bufPort.q) /\ patPort'.q = patPort.mid
  BY <1>2 DEF ReadClock
<1>4. bufPort'.mid = tilBuf[indirect.abuf] /\ bufPort'.q = bufPort.mid
  BY <1>1 DEF T!ReadClock
<1> QED BY <1>1, <1>3, <1>4

\* A clock of patram_fetcher: the next word is written, or the last one
\* was.
LEMMA LookingUpStep ==
  ASSUME Clk, TileInv, LookingUp
  PROVE  TileInv' /\ (LookingUp' \/ LookedUp')
<1>1. /\ fetcher \in Writers /\ fetcher.state = "IDLE" /\ fetcher.done = FALSE
      /\ indirect \in Lookups /\ indirect.state = "SYNC" /\ indirect.wren = TRUE
      /\ indirect.done = FALSE
      /\ DOMAIN tilBuf = T!Slot /\ DOMAIN patBuf = T!Slot /\ ~start /\ Tiles
      /\ tile_state = "PREP" /\ ~mux
  BY DEF TileInv, LookingUp, Working, FetcherRests, Lookups, Writers
<1>2. indirect.abuf \in Nat /\ indirect.targ \in Nat
  BY <1>1 DEF Lookups
<1>3. fetcher' \in Writers /\ FetcherRests' /\ DOMAIN tilBuf' = T!Slot
  BY <1>1, FetcherRestsOn
<1>4. Tiles'
  BY <1>1, FetcherRestsOn, TileClock, TilesKept
<1>5. Working' /\ ~start' /\ mux' \in BOOLEAN /\ ready' \in BOOLEAN
  BY <1>1, WorkingOn DEF TileInv, LookingUp
<1>6. prep' = 0
  BY TileClock DEF LookingUp
<1>7. PICK k \in Nat : WordsOnTheirWay(k)
  BY Zenon DEF LookingUp
<1>8. /\ k <= 47 /\ indirect.abuf = At(k) /\ indirect.targ = IF k < 4 THEN 0 ELSE k - 4
      /\ PatternsBelow(indirect.targ)
  BY <1>7 DEF WordsOnTheirWay
<1>9. indirect.targ <= 43
  BY <1>8
<1>10. /\ DOMAIN patBuf' = T!Slot
       /\ \A i \in Nat : i <= 43 =>
            patBuf'[i] = IF i = indirect.targ THEN T!Mirrored ELSE patBuf[i]
  BY <1>1, <1>9, RowsWritten
<1>11. /\ \A i : TileHere(i)' = TileHere(i)
       /\ \A tile : WordOf(tile)' = WordOf(tile)
       /\ \A tile : RowsOf(tile)' = RowsOf(tile)
  BY TileClock, RowKept, Zenon
<1>12. k >= 4 => T!Mirrored = RowsOf(TileHere(indirect.targ))
  <2>1. HAVE k >= 4
  <2>2. At(k - 4) = indirect.targ
    BY <1>8, <2>1 DEF At
  <2>3. mirror[2] = TileHere(indirect.targ) /\ patPort.q = WordOf(TileHere(indirect.targ))
    BY <1>7, <2>1, <2>2 DEF WordsOnTheirWay
  <2> QED BY <2>3 DEF T!Mirrored, RowsOf
<1>13. ASSUME NEW n \in Nat, n <= 44, n <= indirect.targ + 1, k < 4 => n = 0
       PROVE  PatternsBelow(n)'
  <2>1. ASSUME NEW i \in Nat, i <= 43, i < n
        PROVE  patBuf'[i] = RowsOf(TileHere(i))'
    <3>0. k >= 4
      BY <1>13, <2>1
    <3>1. RowsOf(TileHere(i))' = RowsOf(TileHere(i))
      BY <1>11 DEF RowsOf
    <3>2. CASE i = indirect.targ
      BY <1>10, <1>12, <2>1, <3>0, <3>1, <3>2
    <3>3. CASE i # indirect.targ
      <4>1. i < indirect.targ
        BY <1>2, <1>13, <2>1, <3>3
      <4>2. patBuf[i] = RowsOf(TileHere(i))
        BY <1>8, <2>1, <4>1 DEF PatternsBelow
      <4>3. patBuf'[i] = patBuf[i]
        BY <1>10, <2>1, <3>3
      <4> QED BY <3>1, <4>2, <4>3
    <3> QED BY <3>2, <3>3
  <2> QED BY <2>1 DEF PatternsBelow
<1>14. indirect' = T!Indirect(indirect, fetcher.done)
  BY DEF Clk, T!Clk
<1>15. CASE indirect.targ = 43
  <2>1. indirect' = [indirect EXCEPT !.state = "IDLE", !.done = TRUE, !.wren = FALSE]
    BY <1>1, <1>14, <1>15 DEF T!Indirect, T!ABUF_NUM_ADDR
  <2>2. /\ indirect' \in Lookups /\ indirect'.state = "IDLE" /\ indirect'.done
        /\ ~indirect'.wren
    BY <1>1, <2>1 DEF Lookups
  <2>3. Patterns'
    <3>1. k >= 4
      BY <1>8, <1>15
    <3>2. PatternsBelow(44)'
      BY <1>13, <1>15, <3>1
    <3> QED BY <3>2 DEF Patterns
  <2>4. LookedUp'
    BY <1>3, <1>4, <1>5, <1>6, <2>2, <2>3 DEF LookedUp
  <2> QED BY <1>3, <1>5, <1>10, <2>2, <2>4 DEF TileInv
<1>16. CASE indirect.targ # 43
  <2> DEFINE abuf2 == IF indirect.abuf = 43 THEN indirect.abuf ELSE indirect.abuf + 1
             targ2 == IF indirect.abuf >= 4 THEN indirect.targ + 1 ELSE indirect.targ
  <2>1. indirect' = [indirect EXCEPT !.abuf = abuf2, !.targ = targ2]
    BY <1>1, <1>14, <1>16 DEF T!Indirect, T!ABUF_NUM_ADDR
  <2>2. k < 47 /\ abuf2 = At(k + 1) /\ targ2 = IF k + 1 < 4 THEN 0 ELSE k + 1 - 4
    BY <1>8, <1>16 DEF At
  <2>3. abuf2 \in Nat /\ targ2 \in Nat
    BY <1>2
  <2> HIDE DEF abuf2, targ2
  <2>4. /\ indirect' \in Lookups /\ indirect'.state = "SYNC" /\ ~indirect'.done
        /\ indirect'.wren /\ indirect'.abuf = abuf2 /\ indirect'.targ = targ2
    BY <1>1, <2>1, <2>3 DEF Lookups
  <2>5. WordsOnTheirWay(k + 1)'
    <3>1. k + 1 <= 47 /\ indirect'.abuf = At(k + 1)
          /\ indirect'.targ = IF k + 1 < 4 THEN 0 ELSE k + 1 - 4
      BY <2>2, <2>4
    <3>2. bufPort'.mid = TileHere(At(k + 1 - 1))'
      <4>1. k + 1 - 1 = k /\ At(k) \in Nat /\ At(k) <= 43 /\ At(k) \div 4 < 11
        BY DEF At
      <4>2. tilBuf[At(k)] = TileHere(At(k))
        BY <1>1, <4>1 DEF Tiles, TilesBelow
      <4>3. bufPort'.mid = TileHere(At(k))
        BY <1>1, <1>8, <4>2, WordsAnswered
      <4> QED BY <1>11, <4>1, <4>3
    <3>3. k + 1 >= 2 => bufPort'.q = TileHere(At(k + 1 - 2))'
      <4>1. k + 1 - 2 = k - 1 /\ (k + 1 >= 2 => k >= 1)
        OBVIOUS
      <4>2. k >= 1 => bufPort'.q = TileHere(At(k - 1))
        BY <1>1, <1>7, WordsAnswered DEF WordsOnTheirWay
      <4> QED BY <1>11, <4>1, <4>2
    <3>4. k + 1 >= 3 => /\ mirror'[1] = TileHere(At(k + 1 - 3))'
                        /\ patPort'.mid = WordOf(TileHere(At(k + 1 - 3)))'
      <4>1. k + 1 - 3 = k - 2 /\ (k + 1 >= 3 => k >= 2)
        OBVIOUS
      <4>2. k >= 2 => mirror'[1] = TileHere(At(k - 2)) /\ patPort'.mid = WordOf(TileHere(At(k - 2)))
        BY <1>1, <1>7, WordsAnswered DEF WordsOnTheirWay
      <4> QED BY <1>11, <4>1, <4>2
    <3>5. k + 1 >= 4 => /\ mirror'[2] = TileHere(At(k + 1 - 4))'
                        /\ patPort'.q = WordOf(TileHere(At(k + 1 - 4)))'
      <4>1. k + 1 - 4 = k - 3 /\ (k + 1 >= 4 => k >= 3)
        OBVIOUS
      <4>2. k >= 3 => mirror'[2] = TileHere(At(k - 3)) /\ patPort'.q = WordOf(TileHere(At(k - 3)))
        BY <1>1, <1>7, WordsAnswered DEF WordsOnTheirWay
      <4> QED BY <1>11, <4>1, <4>2
    <3>6. PatternsBelow(indirect.targ)'
      <4>1. targ2 <= indirect.targ + 1 /\ targ2 <= 44 /\ (k < 4 => targ2 = 0)
        <5>1. targ2 = IF k < 3 THEN 0 ELSE k - 3
          BY <2>2
        <5> QED BY <1>8, <2>2, <5>1
      <4>2. PICK n \in Nat : n = targ2
        BY <2>3
      <4>3. PatternsBelow(n)'
        BY <1>13, <4>1, <4>2
      <4>4. indirect'.targ = n
        BY <2>4, <4>2
      <4> QED BY <4>3, <4>4 DEF PatternsBelow
    <3> QED BY <3>1, <3>2, <3>3, <3>4, <3>5, <3>6 DEF WordsOnTheirWay
  <2>6. \E m \in Nat : WordsOnTheirWay(m)'
    <3>1. k + 1 \in Nat
      OBVIOUS
    <3> QED BY <2>5, <3>1, Zenon
  <2>7. LookingUp'
    BY <1>3, <1>4, <1>5, <1>6, <2>4, <2>6, Zenon DEF LookingUp
  <2> QED BY <1>3, <1>5, <1>10, <2>4, <2>7 DEF TileInv
<1> QED BY <1>15, <1>16

\* A row is asked for when the engine is at rest.
LEMMA SwapTiles ==
  ASSUME Swap, TileInv
  PROVE  AtRest /\ TileInv' /\ Asked'
<1>1. ~(prep > 0) /\ tile_state # "PREP" /\ tile_done = <<FALSE, FALSE>>
  BY DEF Swap, T!Busy
<1>2. AtRest
  BY <1>1 DEF TileInv, Asked, Starting, Fetching, Fetched, LookingUp, LookedUp, Finishing, Working
<1>3. /\ prep' = 2 /\ ready' = FALSE /\ mux' = mux
      /\ tile_state' = tile_state /\ tile_done' = tile_done /\ start' = start
      /\ fetcher' = fetcher /\ indirect' = indirect /\ tilBuf' = tilBuf /\ patBuf' = patBuf
  BY DEF Swap, tileVars
<1>4. Asked'
  BY <1>2, <1>3 DEF Asked, AtRest, Resting, NotDone, FetcherRests, LookupRests
<1> QED BY <1>2, <1>3, <1>4 DEF TileInv

\* The tile engine starts at rest, with no row.
LEMMA TilesInit ==
  ASSUME LogicInit
  PROVE  TileInv
<1>1. /\ tile_state = "IDLE" /\ tile_done = <<FALSE, FALSE>> /\ start = FALSE
      /\ fetcher = T!Reset
      /\ tilBuf = [i \in T!Slot |-> T!NoTile]
      /\ indirect = [state |-> "IDLE", done |-> FALSE, wren |-> FALSE, abuf |-> 0, targ |-> 0]
      /\ patBuf = [i \in T!Slot |-> T!TwoRows(T!NoTile, 0, 1, FALSE)]
      /\ prep = 0 /\ mux = FALSE /\ ready = FALSE
  BY DEF LogicInit, T!Init
<1>2. fetcher \in Writers /\ FetcherRests
  BY <1>1 DEF T!Reset, Writers, FetcherRests
<1>3. indirect \in Lookups /\ LookupRests
  BY <1>1 DEF Lookups, LookupRests
<1>4. AtRest
  BY <1>1, <1>2, <1>3 DEF AtRest, Resting, NotDone
<1> QED BY <1>1, <1>2, <1>3, <1>4 DEF TileInv

\* Every step takes the tile engine to a phase of a row.
LEMMA TilesNext ==
  ASSUME TileInv, [LogicNext]_logicVars
  PROVE  TileInv'
<1>1. CASE Swap
  BY <1>1, SwapTiles
<1>2. CASE Clk
  BY <1>2, AskedStep, StartingStep, FetchingStep, FetchedStep, LookingUpStep, LookedUpStep,
     FinishingStep, AtRestStep, Zenon DEF TileInv
<1>3. CASE UNCHANGED logicVars
  <2>1. request' = request /\ prep' = prep /\ mux' = mux /\ patPort' = patPort /\ ready' = ready
        /\ tile_state' = tile_state /\ tile_done' = tile_done /\ start' = start
        /\ fetcher' = fetcher /\ tilPort' = tilPort /\ tilBuf' = tilBuf /\ bufPort' = bufPort
        /\ indirect' = indirect /\ mirror' = mirror /\ patBuf' = patBuf
    BY <1>3 DEF logicVars, tileVars
  <2>2. /\ \A c : T!Chunk(c)' = T!Chunk(c)
        /\ \A i : TileHere(i)' = TileHere(i)
        /\ \A tile : WordOf(tile)' = WordOf(tile)
        /\ \A tile : RowsOf(tile)' = RowsOf(tile)
    BY <2>1, RowKept
  <2>3. \A n : TilesBelow(n) => TilesBelow(n)'
    BY <2>1, <2>2, Zenon DEF TilesBelow
  <2>4. \A n : PatternsBelow(n) => PatternsBelow(n)'
    BY <2>1, <2>2, Zenon DEF PatternsBelow, RowsOf
  <2>5. (Tiles => Tiles') /\ (Patterns => Patterns')
    BY <2>3, <2>4, Zenon DEF Tiles, Patterns
  <2>6. ChunksOnTheirWay => ChunksOnTheirWay'
    BY <2>1, <2>2, <2>3 DEF ChunksOnTheirWay, TilesBelow
  <2>7. ASSUME NEW k \in Nat, WordsOnTheirWay(k)
        PROVE  WordsOnTheirWay(k)'
    <3>1. PatternsBelow(indirect.targ)'
      BY <2>1, <2>2, <2>7, Zenon DEF WordsOnTheirWay, PatternsBelow, RowsOf
    <3>2. \A m : WordOf(TileHere(m))' = WordOf(TileHere(m))
      BY <2>2, Zenon DEF WordOf
    <3> QED BY <2>1, <2>2, <2>7, <3>1, <3>2 DEF WordsOnTheirWay
  <2>8. LookingUp => LookingUp'
    BY <2>1, <2>5, <2>7, Zenon DEF LookingUp, Working, NotDone, FetcherRests
  <2> QED BY <2>1, <2>5, <2>6, <2>8 DEF TileInv, Asked, Starting, Fetching, Fetched, LookedUp,
             Finishing, AtRest, Resting, Working, NotDone, FetcherRests, LookupRests
<1> QED BY <1>1, <1>2, <1>3 DEF LogicNext

SlotAt(sx, a) == (((sx \div 8) % 4) + (((a + (sx % 8)) % 512) \div 8)) % 64

\* Column r of tile n is in tile n.
LEMMA DivEight ==
  ASSUME NEW n \in Nat, NEW r \in Nat, r <= 7
  PROVE  (8 * n + r) \div 8 = n
OBVIOUS

\* A column a of a row that is scrolled by 32 c + 8 t + p pixels is in the
\* slot i of the eleven chunks, and where the layer has it.
LEMMA SlotOfColumn ==
  ASSUME NEW sx \in Nat, sx <= 511, NEW a \in Nat, a <= 319,
         NEW i, i = SlotAt(sx, a)
  PROVE  /\ i \in Nat /\ i <= 43
         /\ ((a + (sx % 32)) % 512) \div 8 = i
         /\ ((a + (sx % 8)) % 512) % 8 = (a + sx) % 8
         /\ ((a + sx) % 512) \div 8 = 4 * ((((sx \div 8) \div 4) + (i \div 4)) % 16) + (i % 4)
<1> DEFINE p == sx % 8
           t == (sx \div 8) % 4
           c == (sx \div 8) \div 4
           u == (a + p) \div 8
           q == (a + p) % 8
<1>1. p \in Nat /\ p <= 7 /\ t \in Nat /\ t <= 3 /\ c \in Nat /\ c <= 15
      /\ sx = 32 * c + 8 * t + p
  OBVIOUS
<1>2. sx % 32 = 8 * t + p
  OBVIOUS
<1>3. u \in Nat /\ u <= 40 /\ q \in Nat /\ q <= 7 /\ a + p = 8 * u + q
      /\ (a + p) % 512 = a + p
  BY <1>1
<1>4. i = t + u
  BY <1>1, <1>3 DEF SlotAt
<1> HIDE DEF p, t, c, u, q
<1>5. i \in Nat /\ i <= 43
  BY <1>1, <1>3, <1>4
<1>6. a + (8 * t + p) = 8 * i + q /\ (8 * i + q) % 512 = 8 * i + q /\ (8 * i + q) \div 8 = i
  <2>1. a + (8 * t + p) = 8 * i + q
    BY <1>1, <1>3, <1>4
  <2>2. 8 * i + q \in Nat /\ 8 * i + q <= 351
    BY <1>3, <1>5
  <2>3. (8 * i + q) % 512 = 8 * i + q
    BY <2>2
  <2>4. (8 * i + q) \div 8 = i
    BY <1>3, <1>5, DivEight
  <2> QED BY <2>1, <2>3, <2>4
<1>7. ((a + (sx % 32)) % 512) \div 8 = i
  BY <1>2, <1>6
<1> DEFINE g == i \div 4
           r == i % 4
<1>8. g \in Nat /\ g <= 10 /\ r \in Nat /\ r <= 3 /\ i = 4 * g + r
  BY <1>5
<1> HIDE DEF g, r
<1>9. a + sx = 32 * (c + g) + 8 * r + q
  BY <1>1, <1>3, <1>4, <1>8
<1>10. (a + sx) % 8 = q
  BY <1>1, <1>3, <1>8, <1>9
<1>11. ((a + (sx % 8)) % 512) % 8 = q
  BY <1>3 DEF p, q
<1>12. ((a + sx) % 512) \div 8 = 4 * ((c + g) % 16) + r
  <2>1. CASE c + g < 16
    <3>1. (a + sx) % 512 = 32 * (c + g) + 8 * r + q /\ (c + g) % 16 = c + g
      BY <1>1, <1>3, <1>8, <1>9, <2>1
    <3> QED BY <1>1, <1>3, <1>8, <3>1
  <2>2. CASE c + g >= 16
    <3>1. (a + sx) % 512 = 32 * (c + g - 16) + 8 * r + q /\ (c + g) % 16 = c + g - 16
      BY <1>1, <1>3, <1>8, <1>9, <2>2
    <3> QED BY <1>1, <1>3, <1>8, <2>2, <3>1
  <2> QED BY <1>1, <1>8, <2>1, <2>2
<1> QED BY <1>5, <1>7, <1>10, <1>11, <1>12 DEF c, g, r

\* The registers of the row asked for.
RequestOK ==
  /\ request = [scroll_x |-> request.scroll_x, scroll_y |-> request.scroll_y,
                next_row |-> request.next_row]
  /\ request.scroll_x \in Nat /\ request.scroll_x <= 511
  /\ request.scroll_y \in Nat /\ request.next_row \in Nat

\* The row of a pattern is one of the two rows of its pair.
LEMMA RowOfPattern ==
  ASSUME NEW pixelrow \in Nat, NEW tile, NEW pair, pair = (pixelrow % 8) \div 2
  PROVE  /\ pixelrow % 2 = 1 => pixelrow % 8 = 2 * pair + 1
         /\ pixelrow % 2 # 1 => pixelrow % 8 = 2 * pair
         /\ pair \in Nat /\ pair <= 3
OBVIOUS

\* What the mixer finds when tiles and patterns are those of the row.
LEMMA ColumnIsRight ==
  ASSUME RequestOK, Tiles, Patterns, NEW a \in Nat, a <= 319
  PROVE  T!pmxr_pixel_data(a) = T!LayerPixel(a + request.scroll_x,
                                             request.next_row + request.scroll_y)
<1> DEFINE sx == request.scroll_x
           y == request.next_row + request.scroll_y
           i == SlotAt(sx, a)
           tile == TileHere(i)
           pair == (T!pixelrow % 8) \div 2
           word == patBuf[i]
           col == (a + sx) % 8
<1>1. sx \in Nat /\ sx <= 511 /\ y \in Nat /\ T!pixelrow = y % 512 /\ T!pixelrow \in Nat
  BY DEF RequestOK, T!pixelrow
<1>0. i = SlotAt(sx, a) /\ col = (a + sx) % 8
  OBVIOUS
<1> HIDE DEF sx, i, col
<1>2. /\ i \in Nat /\ i <= 43
      /\ ((a + (sx % 32)) % 512) \div 8 = i
      /\ ((a + (sx % 8)) % 512) % 8 = col
      /\ ((a + sx) % 512) \div 8 = 4 * ((((sx \div 8) \div 4) + (i \div 4)) % 16) + (i % 4)
  BY <1>0, <1>1, SlotOfColumn
<1>3. tile = <<(y % 512) \div 8, ((a + sx) % 512) \div 8>>
  BY <1>1, <1>2 DEF TileHere, T!TileOf, T!Chunk, T!tilerow, T!tile_scroll_x, sx
<1>4. tilBuf[i] = tile /\ word = RowsOf(tile)
  <2>1. i \div 4 < 11 /\ i < 44
    BY <1>2
  <2> QED BY <1>2, <2>1 DEF Tiles, TilesBelow, Patterns, PatternsBelow
<1>5. T!pmxr_pixel_data(a) =
        [palette |-> tilBuf[i], tile |-> word.tile,
         row |-> IF T!pixelrow % 2 = 1 THEN word.hi ELSE word.lo,
         col |-> IF word.flipped THEN 7 - col ELSE col]
  BY <1>0, <1>2 DEF T!pmxr_pixel_data, T!tile_scroll_x, SlotAt, sx
<1>6. T!LayerPixel(a + sx, y) =
        [palette |-> tile, tile |-> tile,
         row |-> IF YMirror(tile) THEN 7 - (y % 8) ELSE y % 8,
         col |-> IF XMirror(tile) THEN 7 - col ELSE col]
  BY <1>0, <1>3 DEF T!LayerPixel
<1>7. /\ pair \in Nat /\ pair <= 3 /\ T!pixelrow % 8 = y % 8
      /\ T!pixelrow % 2 = 1 => y % 8 = 2 * pair + 1
      /\ T!pixelrow % 2 # 1 => y % 8 = 2 * pair
  <2>1. T!pixelrow % 8 = y % 8
    BY <1>1
  <2> QED BY <1>1, <2>1, RowOfPattern
<1> HIDE DEF tile, pair, word
<1>8. RowsOf(tile) =
        IF YMirror(tile) THEN T!TwoRows(tile, 2 * (3 - pair) + 1, 2 * (3 - pair), XMirror(tile))
        ELSE T!TwoRows(tile, 2 * pair, 2 * pair + 1, XMirror(tile))
  BY DEF RowsOf, WordOf, T!Oriented, T!PatternOffset, pair
<1>9. /\ word.tile = tile /\ word.flipped = XMirror(tile)
      /\ (IF T!pixelrow % 2 = 1 THEN word.hi ELSE word.lo)
           = IF YMirror(tile) THEN 7 - (y % 8) ELSE y % 8
  <2>1. CASE YMirror(tile)
    <3>1. /\ word.tile = tile /\ word.flipped = XMirror(tile)
          /\ word.lo = 2 * (3 - pair) + 1 /\ word.hi = 2 * (3 - pair)
      BY <1>4, <1>8, <2>1 DEF T!TwoRows
    <3>2. (IF T!pixelrow % 2 = 1 THEN word.hi ELSE word.lo) = 7 - (y % 8)
      BY <1>7, <3>1
    <3> QED BY <2>1, <3>1, <3>2
  <2>2. CASE ~YMirror(tile)
    <3>1. /\ word.tile = tile /\ word.flipped = XMirror(tile)
          /\ word.lo = 2 * pair /\ word.hi = 2 * pair + 1
      BY <1>4, <1>8, <2>2 DEF T!TwoRows
    <3>2. (IF T!pixelrow % 2 = 1 THEN word.hi ELSE word.lo) = y % 8
      BY <1>7, <3>1
    <3> QED BY <2>2, <3>1, <3>2
  <2> QED BY <2>1, <2>2
<1>10. T!pmxr_pixel_data(a) = T!LayerPixel(a + sx, y)
  BY <1>4, <1>5, <1>6, <1>9, Zenon
<1> QED BY <1>10 DEF sx

\* The rows that are prepared are numbers.
LEMMA RowsAreRows == ASSUME NEW r \in NextRows PROVE r \in Nat
<1>1. r \in 0 .. 239
  BY PpuLogicAssumption DEF PpuLogicAssumption
<1> QED BY <1>1

RowInv == TileInv /\ RequestOK

\* Initially nothing is asked for.
LEMMA RowInit ==
  ASSUME LogicInit
  PROVE  RowInv
<1>1. PICK scene \in Scenes, r \in NextRows :
        request = [scroll_x |-> scene.scroll_x, scroll_y |-> scene.scroll_y, next_row |-> r]
  BY DEF LogicInit
<1>2. scene.scroll_x \in Nat /\ scene.scroll_x <= 511 /\ scene.scroll_y \in Nat
  BY PpuLogicAssumption DEF PpuLogicAssumption
<1>4. r \in Nat
  BY RowsAreRows
<1>3. RequestOK
  BY <1>1, <1>2, <1>4 DEF RequestOK
<1> QED BY <1>3, TilesInit DEF RowInv

\* Every step keeps the invariant of the tile engine and of the request.
LEMMA RowNext ==
  ASSUME RowInv, [LogicNext]_logicVars
  PROVE  RowInv'
<1>1. TileInv'
  BY TilesNext DEF RowInv
<1>2. RequestOK'
  <2>1. CASE Swap
    <3>1. PICK r \in NextRows : request' = [request EXCEPT !.next_row = r]
      BY <2>1 DEF Swap
    <3>2. r \in Nat
      BY RowsAreRows
    <3> QED BY <3>1, <3>2 DEF RowInv, RequestOK
  <2>2. CASE Clk
    BY <2>2, TileClock DEF RowInv, RequestOK
  <2>3. CASE UNCHANGED logicVars
    BY <2>3 DEF RowInv, RequestOK, logicVars
  <2> QED BY <2>1, <2>2, <2>3 DEF LogicNext
<1> QED BY <1>1, <1>2 DEF RowInv

(***************************************************************************)
(* The row that is prepared is the one that the scroll registers select,   *)
(* for every scroll position, row and column.                              *)
(***************************************************************************)
THEOREM LayerIsPrepared == LogicSpec => []RowIsPrepared
<1>1. RowInv => RowIsPrepared
  <2> SUFFICES ASSUME RowInv, ready, NEW a \in 0 .. 319
               PROVE  T!pmxr_pixel_data(a) = T!LayerPixel(a + request.scroll_x,
                                               request.next_row + request.scroll_y)
    BY DEF RowIsPrepared
  <2>1. a \in Nat /\ a <= 319
    OBVIOUS
  <2>2. AtRest
    BY DEF RowInv, TileInv, Asked, Starting, Fetching, Fetched, LookingUp, LookedUp,
       Finishing, Working
  <2>3. Tiles /\ Patterns
    BY <2>2 DEF AtRest
  <2> QED BY <2>1, <2>3, ColumnIsRight DEF RowInv
<1> QED BY <1>1, RowInit, RowNext, PTL DEF LogicSpec

----------------------------------------------------------------------------
(***************************************************************************)
(* The sprite engine: the chain of sprite units.                           *)
(***************************************************************************)
Top == MAX_SPRITES_PER_LINE - 1

\* There is a sprite and a sprite unit at least.
LEMMA Sizes ==
  /\ MAX_SPRITES \in Nat /\ MAX_SPRITES >= 1
  /\ MAX_SPRITES_PER_LINE \in Nat /\ MAX_SPRITES_PER_LINE >= 1
  /\ Top \in S!Unit /\ Top \in Nat
BY PpuLogicAssumption DEF PpuLogicAssumption, Top, S!Unit

\* The registers of a sprite that OAM may hold have their widths.
LEMMA ConfsAre ==
  ASSUME NEW conf \in Confs
  PROVE  /\ conf.x \in Nat /\ conf.y \in Nat /\ conf.y <= 255
         /\ conf.w \in Nat /\ conf.w <= 3 /\ conf.h \in Nat /\ conf.h <= 3
         /\ conf.tile[1] \in Nat /\ conf.tile[2] \in Nat
<1>1. /\ conf.x \in Nat /\ conf.y \in Nat /\ conf.y <= 255
      /\ conf.w \in 0 .. 3 /\ conf.h \in 0 .. 3
      /\ conf.tile[1] \in Nat /\ conf.tile[2] \in Nat
  BY PpuLogicAssumption DEF PpuLogicAssumption
<1> QED BY <1>1

\* The sprites of the row among the first n of OAM.
Found(n) == {id \in S!Id : id < n /\ S!OnRow(id)}

\* A sprite unit holds a sprite: its attributes, and its chunks on the row.
HasChunks(pat, conf, m) == \A k \in Nat : k < m => pat[k] = S!ChunkAddr(conf, k)
Holds(u, id) == unit[u].conf = oam[id] /\ HasChunks(unit[u].pat, oam[id], oam[id].w + 1)

Valid == {u \in S!Unit : unit[u].valid}

(***************************************************************************)
(* The chain holds the sprites of the row among the first n of OAM, in the *)
(* order of OAM.                                                           *)
(***************************************************************************)
CarriedBy(f, n) ==
  /\ f \in [Valid -> Found(n)]
  /\ \A u \in Valid : Holds(u, f[u])
  /\ \A u, v \in Valid : u < v => f[u] < f[v]
  /\ \A id \in Found(n) : \E u \in Valid : f[u] = id

\* A sprite stops behind another one only if there is no gap before both.
NoGap ==
  \A u \in S!Unit : u + 1 \in S!Unit /\ unit[u].valid /\ unit[u + 1].valid
                      => \A w \in S!Unit : w < u => unit[w].valid

IsSprite(sprite) ==
  sprite = [valid |-> sprite.valid, conf |-> sprite.conf, pat |-> sprite.pat]

UnitsAre ==
  /\ unit = [u \in S!Unit |-> unit[u]]
  /\ \A u \in S!Unit :
       unit[u].valid \in BOOLEAN /\ IsSprite(unit[u])

Chain(n) ==
  /\ n \in Nat /\ n <= MAX_SPRITES
  /\ NoGap /\ \E f : CarriedBy(f, n)
  /\ manager.count = Cardinality(Found(n))
  /\ manager.count \in Nat /\ manager.count <= MAX_SPRITES_PER_LINE

TopFree == manager.count < MAX_SPRITES_PER_LINE /\ ~unit[Top].valid

----------------------------------------------------------------------------
\* One more sprite of OAM is one more of the row, if it is on it.
LEMMA FoundGrows ==
  ASSUME NEW n \in Nat
  PROVE  /\ IsFiniteSet(Found(n)) /\ Cardinality(Found(n)) \in Nat
         /\ n < MAX_SPRITES =>
              Found(n + 1) = IF S!OnRow(n) THEN Found(n) \cup {n} ELSE Found(n)
         /\ n \notin Found(n)
<1>1. IsFiniteSet(S!Id)
  BY Sizes, FS_Interval DEF S!Id
<1>2. Found(n) \subseteq S!Id
  BY DEF Found
<1>3. IsFiniteSet(Found(n))
  BY <1>1, <1>2, FS_Subset
<1>4. Cardinality(Found(n)) \in Nat
  BY <1>3, FS_CardinalityType
<1>5. ASSUME n < MAX_SPRITES
      PROVE  Found(n + 1) = IF S!OnRow(n) THEN Found(n) \cup {n} ELSE Found(n)
  <2>1. n \in S!Id /\ \A id \in S!Id : id \in Nat
    BY <1>5, Sizes DEF S!Id
  <2>2. \A id \in S!Id : id < n + 1 <=> (id < n \/ id = n)
    BY <2>1
  <2> HIDE DEF S!Id
  <2> QED BY <2>1, <2>2, Zenon DEF Found
<1>6. n \notin Found(n)
  BY DEF Found
<1> QED BY <1>3, <1>4, <1>5, <1>6

\* As long as fewer sprites are carried than there are units, one is free.
LEMMA OneIsFree ==
  ASSUME NEW n, Chain(n), UnitsAre, manager.count < MAX_SPRITES_PER_LINE
  PROVE  \E u \in S!Unit : ~unit[u].valid
<1> SUFFICES ASSUME \A u \in S!Unit : unit[u].valid PROVE FALSE
  OBVIOUS
<1>1. PICK f : CarriedBy(f, n)
  BY DEF Chain
<1>2. Valid = S!Unit
  BY DEF Valid
<1>3. f \in [S!Unit -> Found(n)]
  BY <1>1, <1>2 DEF CarriedBy
<1>4. \A u, v \in S!Unit : u # v => f[u] # f[v]
  <2> SUFFICES ASSUME NEW u \in S!Unit, NEW v \in S!Unit, u # v
               PROVE  f[u] # f[v]
    OBVIOUS
  <2>1. u \in Int /\ v \in Int /\ f[u] \in Int /\ f[v] \in Int
    BY <1>3, Sizes DEF S!Unit, Found, S!Id
  <2>2. CASE u < v
    BY <1>1, <1>2, <2>1, <2>2 DEF CarriedBy
  <2>3. CASE v < u
    BY <1>1, <1>2, <2>1, <2>3 DEF CarriedBy
  <2> QED BY <2>1, <2>2, <2>3
<1>5. f \in Injection(S!Unit, Found(n))
  BY <1>3, <1>4, Zenon DEF Injection, IsInjective
<1>6. IsFiniteSet(Found(n)) /\ manager.count = Cardinality(Found(n))
  BY FoundGrows DEF Chain
<1>7. Cardinality(S!Unit) <= manager.count
  BY <1>5, <1>6, FS_Injection
<1>8. Cardinality(S!Unit) = MAX_SPRITES_PER_LINE
  BY Sizes, FS_Interval DEF S!Unit
<1> QED BY <1>7, <1>8, Sizes DEF Chain

----------------------------------------------------------------------------
Emptied(sprite) == [sprite EXCEPT !.valid = FALSE]

\* A unit that gives its sprite away keeps the rest of its registers.
LEMMA EmptiedIs ==
  ASSUME NEW sprite, IsSprite(sprite)
  PROVE  Emptied(sprite).valid = FALSE /\ IsSprite(Emptied(sprite))
<1>1. sprite \in [valid : {sprite.valid}, conf : {sprite.conf}, pat : {sprite.pat}]
  BY DEF IsSprite
<1>2. Emptied(sprite) \in [valid : {FALSE}, conf : {sprite.conf}, pat : {sprite.pat}]
  BY <1>1 DEF Emptied
<1> QED BY <1>2 DEF IsSprite

\* A sprite unit after a clock, with the one at the end of the chain named.
LEMMA NextUnitIs ==
  ASSUME NEW u
  PROVE  S!NextUnit(u) =
           CASE clear \/ (u > 0 /\ unit[u].valid /\ S!in_ack(u - 1)) -> Emptied(unit[u])
             [] S!in_ack(u) ->
                  IF u = Top
                  THEN [valid |-> TRUE, conf |-> manager.conf, pat |-> manager.pat]
                  ELSE unit[u + 1]
             [] OTHER -> unit[u]
BY Zenon DEF S!NextUnit, Emptied, Top

\* A clock of a sprite unit: it keeps its sprite until the unit to its left
\* is free, and a free one takes what comes.
LEMMA UnitClock ==
  ASSUME Clk, ~clear, UnitsAre, NEW u \in S!Unit
  PROVE  /\ unit[u].valid /\ (u = 0 \/ unit[u - 1].valid) => unit'[u] = unit[u]
         /\ unit[u].valid /\ u # 0 /\ ~unit[u - 1].valid => ~unit'[u].valid
         /\ ~unit[u].valid /\ u # Top /\ unit[u + 1].valid => unit'[u] = unit[u + 1]
         /\ ~unit[u].valid /\ u # Top /\ ~unit[u + 1].valid => unit'[u] = unit[u]
         /\ ~unit[u].valid /\ u = Top /\ manager.state = "SEND_SPRITE" =>
              unit'[u] = [valid |-> TRUE, conf |-> manager.conf, pat |-> manager.pat]
         /\ ~unit[u].valid /\ u = Top /\ manager.state # "SEND_SPRITE" => unit'[u] = unit[u]
<1>1. unit'[u] =
        CASE clear \/ (u > 0 /\ unit[u].valid /\ S!in_ack(u - 1)) -> Emptied(unit[u])
          [] S!in_ack(u) ->
               IF u = Top
               THEN [valid |-> TRUE, conf |-> manager.conf, pat |-> manager.pat]
               ELSE unit[u + 1]
          [] OTHER -> unit[u]
  <2>1. unit'[u] = S!NextUnit(u)
    BY DEF Clk, S!Clk
  <2> QED BY <2>1, NextUnitIs, Zenon
<1>2. /\ S!in_ack(u) <=> S!in_valid(u) /\ ~unit[u].valid
      /\ S!in_valid(u) <=> IF u = Top THEN manager.state = "SEND_SPRITE" ELSE unit[u + 1].valid
  BY DEF S!in_ack, S!in_valid, Top
<1>3. u \in Nat /\ Top \in Nat /\ u <= Top /\ (u > 0 <=> u # 0)
  BY Sizes DEF S!Unit, Top
<1>4. u # 0 => u - 1 # Top /\ u - 1 + 1 = u
  BY <1>3
<1>5. u # 0 => (S!in_ack(u - 1) <=> unit[u].valid /\ ~unit[u - 1].valid)
  BY <1>4 DEF S!in_ack, S!in_valid, Top
<1>6. unit[u].valid => ~S!in_ack(u)
  BY <1>2
<1>7. unit[u].valid /\ u # 0 /\ ~unit[u - 1].valid => ~unit'[u].valid
  <2>1. HAVE unit[u].valid /\ u # 0 /\ ~unit[u - 1].valid
  <2>2. u > 0 /\ unit[u].valid /\ S!in_ack(u - 1) /\ ~S!in_ack(u)
    BY <1>3, <1>5, <1>6, <2>1, Zenon
  <2>3. unit'[u] = Emptied(unit[u])
    BY <1>1, <2>2, Zenon
  <2>4. Emptied(unit[u]).valid = FALSE
    BY EmptiedIs, Zenon DEF UnitsAre
  <2> QED BY <2>3, <2>4, Zenon
<1>8. unit[u].valid /\ (u = 0 \/ unit[u - 1].valid) => unit'[u] = unit[u]
  <2>1. HAVE unit[u].valid /\ (u = 0 \/ unit[u - 1].valid)
  <2>2. ~(clear \/ (u > 0 /\ unit[u].valid /\ S!in_ack(u - 1))) /\ ~S!in_ack(u)
    BY <1>2, <1>3, <1>5, <2>1, Zenon
  <2> QED BY <1>1, <2>2, Zenon
<1>9. ASSUME ~unit[u].valid
      PROVE  /\ S!in_valid(u) /\ u # Top => unit'[u] = unit[u + 1]
             /\ S!in_valid(u) /\ u = Top =>
                  unit'[u] = [valid |-> TRUE, conf |-> manager.conf, pat |-> manager.pat]
             /\ ~S!in_valid(u) => unit'[u] = unit[u]
  <2>1. ~(clear \/ (u > 0 /\ unit[u].valid /\ S!in_ack(u - 1)))
    BY <1>9, Zenon
  <2>2. CASE S!in_valid(u)
    <3>1. S!in_ack(u)
      BY <1>2, <1>9, <2>2, Zenon
    <3>2. unit'[u] = IF u = Top
                     THEN [valid |-> TRUE, conf |-> manager.conf, pat |-> manager.pat]
                     ELSE unit[u + 1]
      BY <1>1, <2>1, <3>1, Zenon
    <3> QED BY <2>2, <3>2, Zenon
  <2>3. CASE ~S!in_valid(u)
    <3>1. ~S!in_ack(u)
      BY <1>2, <2>3, Zenon
    <3>2. unit'[u] = unit[u]
      BY <1>1, <2>1, <3>1, Zenon
    <3> QED BY <2>3, <3>2
  <2> QED BY <2>2, <2>3
<1> QED BY <1>2, <1>7, <1>8, <1>9, Zenon

\* The units stay units, and all are free after a clear.
LEMMA UnitsStay ==
  ASSUME Clk, UnitsAre
  PROVE  UnitsAre' /\ (clear => \A u \in S!Unit : ~unit'[u].valid)
<1>1. unit' = [u \in S!Unit |-> S!NextUnit(u)]
  BY DEF Clk, S!Clk
<1>2. unit' = [u \in S!Unit |-> unit'[u]]
  BY <1>1, Zenon
<1>3. ASSUME NEW u \in S!Unit
      PROVE  /\ unit'[u].valid \in BOOLEAN /\ IsSprite(unit'[u])
             /\ clear => ~unit'[u].valid
  <2>1. unit[u].valid \in BOOLEAN /\ IsSprite(unit[u])
    BY DEF UnitsAre
  <2>2. Emptied(unit[u]).valid = FALSE /\ IsSprite(Emptied(unit[u]))
    BY <2>1, EmptiedIs, Zenon
  <2>3. CASE clear
    <3>1. ~S!in_ack(u)
      BY <2>3, Zenon DEF S!in_ack
    <3>2. unit'[u] = Emptied(unit[u])
      BY <1>1, <2>3, <3>1, NextUnitIs, Zenon
    <3> QED BY <2>2, <3>2, Zenon
  <2>4. CASE ~clear
    <3>1. u \in Nat /\ (u # Top => u + 1 \in S!Unit)
      BY Sizes DEF S!Unit, Top
    <3>2. CASE unit[u].valid
      <4>1. u # 0 /\ ~unit[u - 1].valid => unit'[u] = Emptied(unit[u])
        <5>1. HAVE u # 0 /\ ~unit[u - 1].valid
        <5>2. u > 0 /\ u - 1 + 1 = u /\ u - 1 # Top
          BY <3>1, <5>1, Sizes DEF S!Unit, Top
        <5>3. S!in_ack(u - 1) /\ ~S!in_ack(u)
          BY <2>4, <3>2, <5>1, <5>2, Zenon DEF S!in_ack, S!in_valid, Top
        <5> QED BY <1>1, <3>2, <5>2, <5>3, NextUnitIs, Zenon
      <4>2. ~(u # 0 /\ ~unit[u - 1].valid) => unit'[u] = unit[u]
        BY <2>4, <3>2, UnitClock, Zenon
      <4> QED BY <2>1, <2>2, <2>4, <4>1, <4>2, Zenon
    <3>3. CASE ~unit[u].valid
      <4>1. \/ unit'[u] = unit[u]
            \/ u # Top /\ unit'[u] = unit[u + 1]
            \/ unit'[u] = [valid |-> TRUE, conf |-> manager.conf, pat |-> manager.pat]
        BY <2>4, <3>3, UnitClock, Zenon
      <4>2. u # Top => unit[u + 1].valid \in BOOLEAN /\ IsSprite(unit[u + 1])
        BY <3>1, Zenon DEF UnitsAre
      <4>3. CASE unit'[u] = [valid |-> TRUE, conf |-> manager.conf, pat |-> manager.pat]
        <5>1. unit'[u].valid = TRUE /\ IsSprite(unit'[u])
          BY <4>3 DEF IsSprite
        <5> QED BY <2>4, <5>1, Zenon
      <4> QED BY <2>1, <2>4, <4>1, <4>2, <4>3, Zenon
    <3> QED BY <3>2, <3>3
  <2> QED BY <2>3, <2>4
<1> QED BY <1>2, <1>3, Zenon DEF UnitsAre

\* Where a unit gets its sprite from.
LEMMA ValidNext ==
  ASSUME Clk, ~clear, UnitsAre, NEW u \in S!Unit
  PROVE  /\ unit[u].valid => (unit'[u].valid <=> u = 0 \/ unit[u - 1].valid)
         /\ ~unit[u].valid /\ u # Top => (unit'[u].valid <=> unit[u + 1].valid)
         /\ ~unit[u].valid /\ u = Top => (unit'[u].valid <=> manager.state = "SEND_SPRITE")
<1>1. ~unit[u].valid /\ u = Top /\ manager.state = "SEND_SPRITE" => unit'[u].valid = TRUE
  <2>1. HAVE ~unit[u].valid /\ u = Top /\ manager.state = "SEND_SPRITE"
  <2>2. unit'[u] = [valid |-> TRUE, conf |-> manager.conf, pat |-> manager.pat]
    BY <2>1, UnitClock, Zenon
  <2> QED BY <2>2
<1> QED BY <1>1, UnitClock, Zenon

\* The neighbours of a unit of the chain.
LEMMA UnitIndex ==
  ASSUME NEW u \in S!Unit
  PROVE  /\ u \in Nat /\ u <= Top /\ Top \in Nat
         /\ u # Top => u + 1 \in S!Unit
         /\ u # 0 => u - 1 \in S!Unit /\ u - 1 # Top /\ u - 1 + 1 = u
         /\ u + 1 \in S!Unit => u # Top
         /\ \A w \in Nat : w < u => w \in S!Unit
BY Sizes DEF S!Unit, Top

\* Behind two sprites that follow each other there is no gap, also a clock
\* later.
LEMMA NoGapNext ==
  ASSUME Clk, ~clear, UnitsAre, NoGap
  PROVE  NoGap'
<1> SUFFICES ASSUME NEW u \in S!Unit, u + 1 \in S!Unit, unit'[u].valid, unit'[u + 1].valid,
                    NEW w \in S!Unit, w < u
             PROVE  unit'[w].valid
  BY Zenon DEF NoGap
<1>1. /\ u \in Nat /\ w \in Nat /\ u # Top /\ w # Top /\ u + 1 # 0 /\ u + 1 - 1 = u
      /\ w + 1 \in S!Unit /\ w + 1 <= u
  BY UnitIndex
<1>2. unit[u].valid
  <2> SUFFICES ASSUME ~unit[u].valid PROVE FALSE
    OBVIOUS
  <2>1. unit[u + 1].valid
    BY <1>1, ValidNext, Zenon
  <2>2. PICK v \in S!Unit : v = u + 1
    OBVIOUS
  <2>3. v # 0 /\ v - 1 = u /\ unit[v].valid /\ unit'[v].valid
    BY <1>1, <2>1, <2>2
  <2>4. unit[v - 1].valid
    BY <2>3, ValidNext, Zenon
  <2> QED BY <2>3, <2>4, Zenon
<1>3. u # 0 /\ unit[u - 1].valid
  <2>1. u # 0
    BY <1>1
  <2> QED BY <1>2, <2>1, ValidNext, Zenon
<1>4. ASSUME NEW x \in S!Unit, x < u PROVE unit[x].valid
  <2>1. u - 1 \in S!Unit /\ u - 1 + 1 = u /\ x \in Nat
    BY <1>1, <1>3, UnitIndex
  <2>2. CASE x = u - 1
    BY <1>3, <2>2
  <2>3. CASE x < u - 1
    BY <1>2, <1>3, <2>1, <2>3, Zenon DEF NoGap
  <2> QED BY <1>1, <1>4, <2>1, <2>2, <2>3
<1>5. unit[w].valid
  BY <1>4
<1>6. w = 0 \/ unit[w - 1].valid
  <2>1. w # 0 => w - 1 \in S!Unit /\ w - 1 < u
    BY <1>1, UnitIndex
  <2> QED BY <1>4, <2>1, Zenon
<1> QED BY <1>5, <1>6, ValidNext, Zenon

\* The sprites and their chunks stay those of the row.
LEMMA SpritesKept ==
  ASSUME row' = row, oam' = oam
  PROVE  /\ \A n : Found(n)' = Found(n)
         /\ \A id : S!OnRow(id)' = S!OnRow(id)
         /\ \A conf, k : S!ChunkAddr(conf, k)' = S!ChunkAddr(conf, k)
<1>1. \A id : S!OnRow(id)' = S!OnRow(id)
  BY Zenon DEF S!OnRow
<1>2. \A n : Found(n)' = Found(n)
  BY <1>1, Zenon DEF Found
<1>3. \A conf, k : S!ChunkAddr(conf, k)' = S!ChunkAddr(conf, k)
  BY Zenon DEF S!ChunkAddr
<1> QED BY <1>1, <1>2, <1>3

\* A sprite that moves to the next unit takes its chunks with it.
LEMMA HoldsMoves ==
  ASSUME row' = row, oam' = oam, NEW u, NEW v, NEW id, unit'[u] = unit[v], Holds(v, id)
  PROVE  Holds(u, id)'
<1>1. unit'[u].conf = oam'[id]
  BY DEF Holds
<1>2. oam'[id] = oam[id]
  OBVIOUS
<1>3. ASSUME NEW k \in Nat, k < oam'[id].w + 1
      PROVE  unit'[u].pat[k] = S!ChunkAddr(oam[id], k)'
  <2>1. unit[v].pat[k] = S!ChunkAddr(oam[id], k)
    BY <1>2, <1>3 DEF Holds, HasChunks
  <2>2. S!ChunkAddr(oam[id], k)' = S!ChunkAddr(oam[id], k)
    BY Zenon DEF S!ChunkAddr
  <2> QED BY <2>1, <2>2
<1> QED BY <1>1, <1>3, Zenon DEF Holds, HasChunks

\* A clock of the chain: every sprite in it moves on or stays, and one that
\* the manager sends comes in behind them.
LEMMA CarriedOn ==
  ASSUME Clk, ~clear, UnitsAre, row' = row, oam' = oam,
         NEW n \in Nat, n < MAX_SPRITES \/ manager.state # "SEND_SPRITE",
         NEW f, CarriedBy(f, n), NEW m \in Nat,
         m = IF manager.state = "SEND_SPRITE" THEN n + 1 ELSE n,
         manager.state = "SEND_SPRITE" =>
           /\ ~unit[Top].valid /\ S!OnRow(n) /\ manager.conf = oam[n]
           /\ HasChunks(manager.pat, oam[n], oam[n].w + 1)
  PROVE  \E g : CarriedBy(g, m)'
<1> DEFINE comes(u) == IF unit[u].valid THEN f[u] ELSE IF u = Top THEN n ELSE f[u + 1]
           g == [u \in Valid' |-> comes(u)]
<1>1. /\ \A u \in Valid : u \in S!Unit /\ unit[u].valid /\ f[u] \in Found(n)
      /\ \A u \in S!Unit : unit[u].valid => u \in Valid
      /\ \A u \in Valid' : u \in S!Unit /\ unit'[u].valid
      /\ \A u \in S!Unit : unit'[u].valid => u \in Valid'
  BY Zenon DEF CarriedBy, Valid
<1>2. /\ Found(m)' = Found(m) /\ \A id \in Found(n) : id \in Found(m) /\ id \in Nat /\ id < n
      /\ manager.state = "SEND_SPRITE" =>
           n \in Found(m) /\ \A id \in Found(m) : id = n \/ id \in Found(n)
      /\ manager.state # "SEND_SPRITE" => \A id \in Found(m) : id \in Found(n)
  <2>1. Found(m)' = Found(m)
    BY SpritesKept
  <2>2. \A id \in Found(n) : id \in Nat /\ id < n
    BY Sizes DEF Found, S!Id
  <2>3. CASE manager.state = "SEND_SPRITE"
    <3>1. m = n + 1 /\ Found(n + 1) = Found(n) \cup {n}
      BY <2>3, FoundGrows, Zenon
    <3> QED BY <2>1, <2>2, <2>3, <3>1
  <2>4. CASE manager.state # "SEND_SPRITE"
    BY <2>1, <2>2, <2>4
  <2> QED BY <2>3, <2>4
\* The three ways in which a unit comes to hold a sprite.
<1>3. ASSUME NEW u \in Valid'
      PROVE  \/ unit[u].valid /\ unit'[u] = unit[u] /\ (u = 0 \/ unit[u - 1].valid)
             \/ /\ ~unit[u].valid /\ u # Top /\ u + 1 \in S!Unit /\ unit[u + 1].valid
                /\ unit'[u] = unit[u + 1]
             \/ /\ ~unit[u].valid /\ u = Top /\ manager.state = "SEND_SPRITE"
                /\ unit'[u] = [valid |-> TRUE, conf |-> manager.conf, pat |-> manager.pat]
  <2>1. u \in S!Unit /\ unit'[u].valid
    BY <1>1
  <2>2. u # Top => u + 1 \in S!Unit
    BY <2>1, UnitIndex
  <2> QED BY <2>1, <2>2, UnitClock, ValidNext, Zenon
<1>4. ASSUME NEW u \in Valid'
      PROVE  comes(u) \in Found(m)
  <2>1. CASE unit[u].valid
    BY <1>1, <1>2, <2>1, Zenon
  <2>2. CASE ~unit[u].valid /\ u # Top /\ u + 1 \in S!Unit /\ unit[u + 1].valid
    BY <1>1, <1>2, <2>2, Zenon
  <2>3. CASE ~unit[u].valid /\ u = Top /\ manager.state = "SEND_SPRITE"
    BY <1>2, <2>3, Zenon
  <2> QED BY <1>3, <2>1, <2>2, <2>3, Zenon
<1>5. ASSUME NEW u \in Valid', NEW id, id = comes(u)
      PROVE  Holds(u, id)'
  <2>1. CASE unit[u].valid /\ unit'[u] = unit[u]
    <3>1. id = f[u] /\ u \in Valid
      BY <1>1, <1>5, <2>1, Zenon
    <3>2. Holds(u, id)
      BY <3>1, Zenon DEF CarriedBy
    <3> QED BY <2>1, <3>2, HoldsMoves, Zenon
  <2>2. CASE /\ ~unit[u].valid /\ u # Top /\ u + 1 \in S!Unit /\ unit[u + 1].valid
             /\ unit'[u] = unit[u + 1]
    <3>1. id = f[u + 1] /\ u + 1 \in Valid
      BY <1>1, <1>5, <2>2, Zenon
    <3>2. Holds(u + 1, id)
      BY <3>1, Zenon DEF CarriedBy
    <3> QED BY <2>2, <3>2, HoldsMoves, Zenon
  <2>3. CASE /\ ~unit[u].valid /\ u = Top /\ manager.state = "SEND_SPRITE"
             /\ unit'[u] = [valid |-> TRUE, conf |-> manager.conf, pat |-> manager.pat]
    <3>1. id = n /\ manager.conf = oam[n] /\ HasChunks(manager.pat, oam[n], oam[n].w + 1)
      BY <1>5, <2>3, Zenon
    <3>2. unit'[u].conf = manager.conf /\ unit'[u].pat = manager.pat
      BY <2>3
    <3>3. oam'[id] = oam[id] /\ \A k : S!ChunkAddr(oam[id], k)' = S!ChunkAddr(oam[id], k)
      BY Zenon DEF S!ChunkAddr
    <3>4. \A k \in Nat : k < oam'[id].w + 1 => unit'[u].pat[k] = S!ChunkAddr(oam[id], k)'
      BY <3>1, <3>2, <3>3, Zenon DEF HasChunks
    <3> QED BY <3>1, <3>2, <3>3, <3>4, Zenon DEF Holds, HasChunks
  <2> QED BY <1>3, <2>1, <2>2, <2>3, Zenon
<1>6. ASSUME NEW u \in Valid', NEW v \in Valid', u < v
      PROVE  comes(u) < comes(v)
  <2>1. /\ u \in S!Unit /\ v \in S!Unit /\ u \in Nat /\ v \in Nat
        /\ u <= Top /\ v <= Top /\ Top \in Nat
        /\ u # Top /\ v # 0
    <3>1. u \in S!Unit /\ v \in S!Unit
      BY <1>1, Zenon
    <3>2. u \in Nat /\ v \in Nat /\ u <= Top /\ v <= Top /\ Top \in Nat
      BY <3>1, UnitIndex, Zenon
    <3> HIDE DEF comes, g
    <3>3. u # Top /\ v # 0
      BY <1>6, <3>2
    <3> QED BY <3>1, <3>2, <3>3
  <2>2. CASE unit[u].valid /\ unit[v].valid
    BY <1>1, <1>6, <2>1, <2>2, Zenon DEF CarriedBy
  <2>3. CASE unit[u].valid /\ ~unit[v].valid /\ v # Top /\ v + 1 \in S!Unit /\ unit[v + 1].valid
    <3>1. u < v + 1 /\ u \in Valid /\ v + 1 \in Valid
      BY <1>1, <1>6, <2>1, <2>3
    <3> QED BY <2>3, <3>1, Zenon DEF CarriedBy
  <2>4. CASE ~unit[u].valid /\ u + 1 \in S!Unit /\ unit[u + 1].valid /\ unit[v].valid
    <3>1. u + 1 # v
      <4> SUFFICES ASSUME u + 1 = v PROVE FALSE
        OBVIOUS
      <4>1. v - 1 = u
        BY <2>1
      <4> QED BY <1>3, <2>1, <2>4, <4>1, Zenon
    <3>2. u + 1 < v /\ u + 1 \in Valid /\ v \in Valid
      BY <1>1, <1>6, <2>1, <2>4, <3>1
    <3> QED BY <2>1, <2>4, <3>2, Zenon DEF CarriedBy
  <2>5. CASE /\ ~unit[u].valid /\ u + 1 \in S!Unit /\ unit[u + 1].valid
             /\ ~unit[v].valid /\ v # Top /\ v + 1 \in S!Unit /\ unit[v + 1].valid
    <3>1. u + 1 < v + 1 /\ u + 1 \in Valid /\ v + 1 \in Valid
      BY <1>1, <1>6, <2>1, <2>5
    <3> QED BY <2>1, <2>5, <3>1, Zenon DEF CarriedBy
  <2>6. CASE ~unit[v].valid /\ v = Top
    <3>1. comes(v) = n
      BY <2>6, Zenon
    <3>2. comes(u) \in Found(n)
      <4>1. CASE unit[u].valid
        BY <1>1, <2>1, <4>1, Zenon
      <4>2. CASE ~unit[u].valid /\ u + 1 \in S!Unit /\ unit[u + 1].valid
        BY <1>1, <2>1, <4>2, Zenon
      <4> QED BY <1>3, <2>1, <4>1, <4>2, Zenon
    <3> QED BY <1>2, <3>1, <3>2, Zenon
  <2>7. /\ \/ unit[u].valid
           \/ ~unit[u].valid /\ u + 1 \in S!Unit /\ unit[u + 1].valid
        /\ \/ unit[v].valid
           \/ ~unit[v].valid /\ v # Top /\ v + 1 \in S!Unit /\ unit[v + 1].valid
           \/ ~unit[v].valid /\ v = Top
    BY <1>3, <2>1, Zenon
  <2> QED BY <2>2, <2>3, <2>4, <2>5, <2>6, <2>7, Zenon
<1>7. ASSUME NEW id \in Found(m)
      PROVE  \E u \in Valid' : comes(u) = id
  <2>1. CASE id \in Found(n)
    <3>1. PICK v \in Valid : f[v] = id
      BY <2>1, Zenon DEF CarriedBy
    <3>2. v \in S!Unit /\ unit[v].valid
      BY <1>1, <3>1
    <3>3. CASE v = 0 \/ unit[v - 1].valid
      <4>1. v \in Valid'
        BY <1>1, <3>2, <3>3, ValidNext, Zenon
      <4> QED BY <3>1, <3>2, <4>1, Zenon
    <3>4. CASE v # 0 /\ ~unit[v - 1].valid
      <4>1. PICK u \in S!Unit : u = v - 1 /\ u # Top /\ u + 1 = v
        BY <3>2, <3>4, UnitIndex
      <4>2. u \in Valid' /\ ~unit[u].valid
        BY <1>1, <3>2, <3>4, <4>1, ValidNext, Zenon
      <4>3. comes(u) = f[v]
        BY <4>1, <4>2, Zenon
      <4> QED BY <3>1, <4>2, <4>3, Zenon
    <3> QED BY <3>3, <3>4
  <2>2. CASE id = n /\ manager.state = "SEND_SPRITE"
    <3>1. Top \in S!Unit /\ ~unit[Top].valid
      BY <2>2, Sizes
    <3>2. Top \in Valid'
      BY <1>1, <2>2, <3>1, ValidNext, Zenon
    <3> QED BY <2>2, <3>1, <3>2, Zenon
  <2> QED BY <1>2, <2>1, <2>2, Zenon
<1>8. PICK h : h = g
  OBVIOUS
<1>9. DOMAIN h = Valid' /\ h = [u \in Valid' |-> h[u]] /\ \A u \in Valid' : h[u] = comes(u)
  BY <1>8, Zenon
<1> HIDE DEF g, comes
<1>10. h \in [Valid' -> Found(m)']
  BY <1>2, <1>4, <1>9, Zenon
<1>11. \A u \in Valid' : Holds(u, h[u])'
  <2> SUFFICES ASSUME NEW u \in Valid' PROVE Holds(u, h[u])'
    OBVIOUS
  <2>1. PICK id : id = h[u]
    OBVIOUS
  <2>2. Holds(u, id)'
    BY <1>5, <1>9, <2>1, Zenon
  <2> QED BY <2>1, <2>2, Zenon
<1>12. \A u, v \in Valid' : u < v => h[u] < h[v]
  BY <1>6, <1>9
<1>13. \A id \in Found(m)' : \E u \in Valid' : h[u] = id
  <2> SUFFICES ASSUME NEW id \in Found(m)' PROVE \E u \in Valid' : h[u] = id
    OBVIOUS
  <2>1. id \in Found(m)
    BY <1>2, Zenon
  <2>2. PICK u \in Valid' : comes(u) = id
    BY <1>7, <2>1, Zenon
  <2> QED BY <1>9, <2>2, Zenon
<1>14. CarriedBy(h, m)'
  BY <1>10, <1>11, <1>12, <1>13, Zenon DEF CarriedBy
<1> QED BY <1>14, Zenon

----------------------------------------------------------------------------
\* The row and OAM change only when a row begins.
LEMMA RowStays ==
  ASSUME Clk, ~clear
  PROVE  row' = row /\ oam' = oam
BY DEF Clk, S!Clk

\* A clock in which nothing is sent leaves the same sprites in the chain.
LEMMA ChainMoves ==
  ASSUME Clk, ~clear, UnitsAre, NEW n, Chain(n), manager.state # "SEND_SPRITE",
         manager'.count = manager.count
  PROVE  Chain(n)'
<1>1. PICK f : CarriedBy(f, n)
  BY DEF Chain
<1>2. n \in Nat /\ NoGap /\ row' = row /\ oam' = oam
  BY RowStays DEF Chain
<1>3. \E g : CarriedBy(g, n)'
  BY <1>1, <1>2, CarriedOn, Zenon
<1>4. NoGap'
  BY <1>2, NoGapNext
<1>5. Found(n)' = Found(n)
  BY <1>2, SpritesKept, Zenon
<1> QED BY <1>3, <1>4, <1>5, Zenon DEF Chain

\* A clock in which sprite n is sent adds it to the chain.
LEMMA ChainTakes ==
  ASSUME Clk, ~clear, UnitsAre, NEW n, Chain(n), manager.state = "SEND_SPRITE",
         n < MAX_SPRITES, TopFree, S!OnRow(n), manager.conf = oam[n],
         HasChunks(manager.pat, oam[n], oam[n].w + 1),
         manager'.count = manager.count + 1, NEW m, m = n + 1
  PROVE  Chain(m)'
<1>1. PICK f : CarriedBy(f, n)
  BY DEF Chain
<1>2. /\ n \in Nat /\ n <= MAX_SPRITES /\ NoGap /\ manager.count = Cardinality(Found(n))
      /\ manager.count \in Nat
  BY DEF Chain
<1>3. row' = row /\ oam' = oam
  BY RowStays
<1>4. m \in Nat /\ m <= MAX_SPRITES
  BY <1>2, Sizes
<1>5. \E g : CarriedBy(g, m)'
  BY <1>1, <1>2, <1>3, <1>4, CarriedOn, Zenon DEF TopFree
<1>6. NoGap'
  BY <1>2, NoGapNext
<1>7. Cardinality(Found(m)') = manager'.count
  <2>1. Found(m)' = Found(m)
    BY <1>3, SpritesKept, Zenon
  <2>2. Found(m) = Found(n) \cup {n} /\ n \notin Found(n) /\ IsFiniteSet(Found(n))
    BY <1>2, FoundGrows, Zenon
  <2>3. Cardinality(Found(m)) = Cardinality(Found(n)) + 1
    BY <2>2, FS_AddElement
  <2> QED BY <1>2, <2>1, <2>3
<1>8. manager'.count \in Nat /\ manager'.count <= MAX_SPRITES_PER_LINE
  BY <1>2, Sizes DEF TopFree
<1> QED BY <1>4, <1>5, <1>6, <1>7, <1>8, Zenon DEF Chain

\* A sprite that is not on the row is passed over.
LEMMA ChainSkips ==
  ASSUME NEW n, Chain(n), n < MAX_SPRITES, ~S!OnRow(n), NEW m, m = n + 1
  PROVE  Chain(m)
<1>1. n \in Nat
  BY DEF Chain
<1>2. Found(m) = Found(n)
  BY <1>1, FoundGrows, Zenon
<1>3. m \in Nat /\ m <= MAX_SPRITES
  BY <1>1, Sizes
<1>4. \A f : CarriedBy(f, n) => CarriedBy(f, m)
  BY <1>2, Zenon DEF CarriedBy
<1> QED BY <1>2, <1>3, <1>4, Zenon DEF Chain

\* After a clear the chain is empty, as it should be before the first
\* sprite.
LEMMA ChainStarts ==
  ASSUME Clk, clear, UnitsAre, manager'.count = 0
  PROVE  Chain(0)'
<1>1. \A u \in S!Unit : ~unit'[u].valid
  BY UnitsStay
<1>2. Valid' = {}
  BY <1>1, Zenon DEF Valid
<1>3. NoGap'
  BY <1>1, Zenon DEF NoGap
<1>4. Found(0)' = {}
  <2>1. \A id \in S!Id : id \in Nat
    BY Sizes DEF S!Id
  <2>2. \A id \in S!Id : ~(id < 0)
    BY <2>1
  <2> QED BY <2>2, Zenon DEF Found
<1>5. \E f : f \in [Valid' -> Found(0)']
  <2>1. [x \in {} |-> 0] \in [{} -> {}]
    OBVIOUS
  <2> QED BY <1>2, <1>4, <2>1, Zenon
<1>6. \E f : CarriedBy(f, 0)'
  BY <1>2, <1>4, <1>5, Zenon DEF CarriedBy
<1>7. Cardinality(Found(0)') = 0
  BY <1>4, FS_EmptySet
<1>8. 0 \in Nat /\ 0 <= MAX_SPRITES /\ 0 <= MAX_SPRITES_PER_LINE
  BY Sizes
<1> QED BY <1>3, <1>6, <1>7, <1>8, Zenon DEF Chain

\* The unit at the end of the chain stays free until a sprite is sent.
LEMMA TopStaysFree ==
  ASSUME Clk, ~clear, UnitsAre, TopFree, manager.state # "SEND_SPRITE",
         manager'.count = manager.count
  PROVE  TopFree'
<1>1. ~unit'[Top].valid
  BY Sizes, ValidNext, Zenon DEF TopFree
<1> QED BY <1>1, Zenon DEF TopFree

\* The unit at the end of the chain is free a clock after it took a sprite,
\* unless all are full.
LEMMA TopGetsFree ==
  ASSUME Clk, ~clear, UnitsAre, NEW n, Chain(n), manager.state # "SEND_SPRITE",
         manager.count < MAX_SPRITES_PER_LINE, manager'.count = manager.count
  PROVE  TopFree'
<1>1. CASE ~unit[Top].valid
  BY <1>1, TopStaysFree, Zenon DEF TopFree
<1>2. CASE unit[Top].valid
  <2>1. PICK w \in S!Unit : ~unit[w].valid
    BY OneIsFree
  <2>2. Top \in S!Unit /\ w \in Nat /\ w # Top /\ w <= Top /\ Top \in Nat
    BY <1>2, <2>1, Sizes, UnitIndex
  <2>3. Top # 0
    BY <2>2
  <2>4. PICK u \in S!Unit : u = Top - 1 /\ u + 1 = Top
    BY <2>2, <2>3, UnitIndex
  <2>5. ~unit[u].valid
    <3>1. CASE w = u
      BY <2>1, <3>1
    <3>2. CASE w < u
      BY <1>2, <2>1, <2>2, <2>4, <3>2, Zenon DEF Chain, NoGap
    <3> QED BY <2>2, <2>4, <3>1, <3>2
  <2>6. ~unit'[Top].valid
    BY <1>2, <2>2, <2>3, <2>4, <2>5, ValidNext, Zenon
  <2> QED BY <2>6, Zenon DEF TopFree
<1> QED BY <1>1, <1>2

----------------------------------------------------------------------------
(***************************************************************************)
(* What a row costs: three clocks for every sprite of OAM that is decided, *)
(* nine for each that is carried, and the clocks spent on the next one.    *)
(***************************************************************************)
Within(n, spent) ==
  age + 3 * (MAX_SPRITES - n) + 9 * (MAX_SPRITES_PER_LINE - manager.count)
    <= 1 + 3 * MAX_SPRITES + 9 * MAX_SPRITES_PER_LINE + spent

ScannerRests ==
  /\ avail[1] = FALSE /\ avail[2] = FALSE
  /\ \/ scanner.state = "STANDBY" /\ scanner.oam_addr < MAX_SPRITES
     \/ scanner.state = "INIT" /\ scanner.oam_addr = MAX_SPRITES
PipeRests == ~patPipe[1].read /\ ~patPipe[2].read

\* The manager has sprite n of OAM, which is on the row, and a unit for it.
Matched(n) ==
  /\ n < MAX_SPRITES /\ scanner.oam_addr = n + 1
  /\ S!OnRow(n) /\ manager.conf = oam[n] /\ TopFree

WordAt(conf, k) == <<S!ChunkAddr(conf, k)[1], S!ChunkAddr(conf, k)[2] \div 2>>

(***************************************************************************)
(* In its clock d of reading patterns the manager asks for chunk d and     *)
(* receives chunk d - 2.                                                   *)
(***************************************************************************)
Reading(d, conf) ==
  /\ d <= conf.w + 3
  /\ manager.req = IF d <= conf.w + 1 THEN d ELSE conf.w + 1
  /\ manager.ack = IF d <= 2 THEN 0 ELSE d - 2
  /\ (patPipe[1].read <=> 1 <= d /\ d <= conf.w + 1)
  /\ (patPipe[2].read <=> 2 <= d /\ d <= conf.w + 2)
  /\ 1 <= d /\ d <= conf.w + 1 => /\ patPipe[1].sel = S!ChunkAddr(conf, d - 1)[2] % 2
                                  /\ patPort.mid = WordAt(conf, d - 1)
  /\ 2 <= d /\ d <= conf.w + 2 => /\ patPipe[2].sel = S!ChunkAddr(conf, d - 2)[2] % 2
                                  /\ patPort.q = WordAt(conf, d - 2)
  /\ HasChunks(manager.pat, conf, manager.ack)

\* The phases of a row; the first n sprites are decided.
Unused ==
  /\ age = 0 /\ manager.state = "CONF_READ" /\ manager.count = 0 /\ PipeRests
  /\ avail[1] = FALSE /\ avail[2] = FALSE
  /\ scanner.state = "INIT" /\ scanner.oam_addr = 0

Scanning(n) ==
  /\ age > 0 /\ mux /\ manager.state = "CONF_READ" /\ PipeRests
  /\ ScannerRests /\ scanner.oam_addr = n /\ Chain(n) /\ Within(n, 0)

Asking(n) ==
  /\ age > 0 /\ mux /\ manager.state = "CONF_READ" /\ PipeRests
  /\ avail[1] = TRUE /\ avail[2] = FALSE
  /\ scanner.state = "MEM_REQ" /\ scanner.oam_addr = n + 1
  /\ n < MAX_SPRITES /\ oamPort.mid = oam[n] /\ TopFree /\ Chain(n) /\ Within(n, 1)

Answered(n) ==
  /\ age > 0 /\ mux /\ manager.state = "CONF_READ" /\ PipeRests
  /\ avail[1] = FALSE /\ avail[2] = TRUE
  /\ scanner.state = "MEM_REQ" /\ scanner.oam_addr = n + 1
  /\ n < MAX_SPRITES /\ oamPort.q = oam[n] /\ TopFree /\ Chain(n) /\ Within(n, 2)

PatReading(n) ==
  /\ age > 0 /\ mux /\ manager.state = "PAT_READ"
  /\ ScannerRests /\ Matched(n) /\ Chain(n)
  /\ \E d \in Nat : Reading(d, oam[n]) /\ Within(n, 3 + d)

Sending(n) ==
  /\ age > 0 /\ mux /\ manager.state = "SEND_SPRITE" /\ PipeRests
  /\ ScannerRests /\ Matched(n) /\ Chain(n)
  /\ HasChunks(manager.pat, oam[n], oam[n].w + 1) /\ Within(n, 7 + oam[n].w)

Finished(n) ==
  /\ age > 0 /\ manager.state \in {"SIGNAL", "DONE"} /\ PipeRests
  /\ ScannerRests /\ Chain(n) /\ (n = MAX_SPRITES \/ manager.count = MAX_SPRITES_PER_LINE)

InPhase(n) ==
  Scanning(n) \/ Asking(n) \/ Answered(n) \/ PatReading(n) \/ Sending(n) \/ Finished(n)

SpritesAre ==
  /\ oam \in [S!Id -> Confs] /\ row \in Nat /\ age \in Nat
  /\ DOMAIN manager.pat = 0 .. 3 /\ UnitsAre

SpriteInv == SpritesAre /\ (Unused \/ \E n \in Nat : InPhase(n))

\* A row is not asked for before the sprite engine has done with the last one.
Turns == AtRest \/ age = 0 \/ manager.state = "DONE"

LogicInv == RowInv /\ SpriteInv /\ Turns

----------------------------------------------------------------------------
\* A chunk is a tile and a row of it.
LEMMA ChunkIs ==
  ASSUME NEW conf \in Confs, row \in Nat, NEW k
  PROVE  /\ S!ChunkAddr(conf, k) = <<S!ChunkAddr(conf, k)[1], S!ChunkAddr(conf, k)[2]>>
         /\ S!ChunkAddr(conf, k)[2] \in Nat
<1>1. conf.y \in Int /\ conf.h \in Int /\ row \in Int
  BY ConfsAre
<1> DEFINE off == (row - conf.y) % 32
           index == IF conf.y_mirror THEN 8 * (conf.h + 1) - 1 - off ELSE off
           tile == <<(conf.tile[1] + (index \div 8)) % 32, (conf.tile[2] + k) % 32>>
<1>2. off \in Int
  BY <1>1
<1>3. index \in Int
  BY <1>1, <1>2
<1>4. S!ChunkAddr(conf, k) = <<tile, index % 8>>
  BY DEF S!ChunkAddr
<1> HIDE DEF tile, index
<1>5. index % 8 \in Nat
  BY <1>3
<1> QED BY <1>4, <1>5

\* A sprite is found in range when it is on the row.
LEMMA InRange ==
  ASSUME NEW n \in S!Id, oam[n] \in Confs
  PROVE  S!in_range(oam[n]) <=> S!OnRow(n)
<1>1. /\ oam[n].y \in Nat /\ oam[n].y <= 255 /\ oam[n].h \in Nat /\ oam[n].h <= 3
  BY ConfsAre
<1>2. (oam[n].y + 8 * (oam[n].h + 1)) % 512 = oam[n].y + 8 * (oam[n].h + 1)
  <2> DEFINE limit == oam[n].y + 8 * (oam[n].h + 1)
  <2>1. limit \in Nat /\ limit <= 287
    BY <1>1
  <2> HIDE DEF limit
  <2>2. limit % 512 = limit
    BY <2>1
  <2> QED BY <2>2, Zenon DEF limit
<1> QED BY <1>2, Zenon DEF S!in_range, S!h_limit, S!OnRow

----------------------------------------------------------------------------
(***************************************************************************)
(* One clock of the sprite engine in each phase of a row.                  *)
(***************************************************************************)

\* The registers of the sprite engine after a clock.
LEMMA SpriteClock ==
  ASSUME Clk
  PROVE  /\ age' = IF clear THEN 1 ELSE IF age \in 1 .. S!TimeAllowed THEN age + 1 ELSE age
         /\ scanner' = S!NextScanner /\ manager' = S!NextManager
         /\ avail' = <<S!oam_read, avail[1]>>
         /\ oamPort'.q = oamPort.mid
         /\ patPipe' = <<[read |-> S!pattern_read, sel |-> S!addr[2] % 2], patPipe[1]>>
BY DEF Clk, S!Clk, S!ReadClock

\* A clock takes a clock.
LEMMA AgeNext ==
  ASSUME Clk, ~clear, age \in Nat
  PROVE  age' \in Nat /\ (age > 0 => age' > 0) /\ age' <= age + 1 /\ (age = 0 => age' = 0)
<1>1. age' = age + 1 \/ age' = age
  BY SpriteClock
<1>2. age = 0 => age' = 0
  <2>1. age' = IF age \in 1 .. S!TimeAllowed THEN age + 1 ELSE age
    BY SpriteClock
  <2>2. age = 0 => ~(age \in 1 .. S!TimeAllowed)
    OBVIOUS
  <2> QED BY <2>1, <2>2
<1> QED BY <1>1, <1>2

\* The fields of the two state machines after a clock of the row.
LEMMA ScannerNext ==
  ASSUME Clk, ~clear
  PROVE  /\ scanner'.oam_addr = IF S!oam_read THEN scanner.oam_addr + 1 ELSE scanner.oam_addr
         /\ scanner.state = "INIT" => scanner'.state = "INIT"
         /\ scanner.state = "STANDBY" =>
              scanner'.state = IF S!oam_read THEN "MEM_REQ" ELSE "STANDBY"
         /\ scanner.state = "MEM_REQ" =>
              scanner'.state =
                IF avail[2] THEN IF scanner.oam_addr < MAX_SPRITES THEN "STANDBY" ELSE "INIT"
                ELSE "MEM_REQ"
<1>1. scanner' = S!NextScanner
  BY SpriteClock
<1>2. scanner'.oam_addr = IF S!oam_read THEN scanner.oam_addr + 1 ELSE scanner.oam_addr
  <2>1. scanner'.oam_addr = CASE clear -> 0
                              [] ~clear /\ S!oam_read -> scanner.oam_addr + 1
                              [] OTHER -> scanner.oam_addr
    BY <1>1 DEF S!NextScanner
  <2> QED BY <2>1, Zenon
<1>3. scanner'.state =
        CASE scanner.state = "INIT" -> IF clear THEN "STANDBY" ELSE "INIT"
          [] scanner.state = "STANDBY" -> IF S!oam_read /\ ~clear THEN "MEM_REQ" ELSE "STANDBY"
          [] scanner.state = "MEM_REQ" ->
               IF avail[2] \/ clear
               THEN IF S!more_conf THEN "STANDBY" ELSE "INIT" ELSE "MEM_REQ"
  BY <1>1 DEF S!NextScanner
<1> QED BY <1>2, <1>3 DEF S!more_conf

\* The manager's registers after a clock in which no row begins.
LEMMA ManagerNext ==
  ASSUME Clk, ~clear
  PROVE  /\ manager'.state = S!NextState
         /\ manager'.conf = IF manager.state = "CONF_READ" /\ S!conf_req /\ S!conf_ack
                            THEN oamPort.q ELSE manager.conf
         /\ manager'.pat = IF manager.state = "PAT_READ" /\ S!pattern_avail
                           THEN [manager.pat EXCEPT ![manager.ack] = S!pattern_data]
                           ELSE manager.pat
         /\ manager'.count = IF manager.state = "SEND_SPRITE" /\ S!sprite_ack
                             THEN manager.count + 1 ELSE manager.count
         /\ manager.state = "CONF_READ" => manager'.req = 0 /\ manager'.ack = 0
         /\ manager.state = "PAT_READ" =>
              /\ manager'.req = IF S!pattern_read THEN manager.req + 1 ELSE manager.req
              /\ manager'.ack = IF S!pattern_avail THEN manager.ack + 1 ELSE manager.ack
<1> DEFINE pat2 == IF manager.state = "PAT_READ" /\ S!pattern_avail
                   THEN [manager.pat EXCEPT ![manager.ack] = S!pattern_data]
                   ELSE manager.pat
           counts == manager.state = "PAT_READ" /\ ~clear
           req2 == CASE counts /\ S!pattern_read -> manager.req + 1
                     [] clear \/ manager.state = "CONF_READ" -> 0
                     [] OTHER -> manager.req
           ack2 == CASE counts /\ S!pattern_avail -> manager.ack + 1
                     [] clear \/ manager.state = "CONF_READ" -> 0
                     [] OTHER -> manager.ack
           count2 == CASE clear -> 0
                       [] ~clear /\ manager.state = "SEND_SPRITE" /\ S!sprite_ack
                            -> manager.count + 1
                       [] OTHER -> manager.count
           conf2 == IF manager.state = "CONF_READ" /\ S!conf_req /\ S!conf_ack /\ ~clear
                    THEN oamPort.q ELSE manager.conf
<1>1. manager' = [state |-> S!NextState, conf |-> conf2, pat |-> pat2, req |-> req2,
                  ack |-> ack2, count |-> count2]
  BY SpriteClock, Zenon DEF S!NextManager
<1>2. count2 = IF manager.state = "SEND_SPRITE" /\ S!sprite_ack
               THEN manager.count + 1 ELSE manager.count
  BY Zenon
<1>3. conf2 = IF manager.state = "CONF_READ" /\ S!conf_req /\ S!conf_ack
              THEN oamPort.q ELSE manager.conf
  BY Zenon
<1>4. manager.state = "CONF_READ" => req2 = 0 /\ ack2 = 0
  <2>1. HAVE manager.state = "CONF_READ"
  <2>2. ~counts
    BY <2>1
  <2> HIDE DEF counts
  <2> QED BY <2>1, <2>2, Zenon
<1>5. manager.state = "PAT_READ" =>
        /\ req2 = IF S!pattern_read THEN manager.req + 1 ELSE manager.req
        /\ ack2 = IF S!pattern_avail THEN manager.ack + 1 ELSE manager.ack
  <2>1. HAVE manager.state = "PAT_READ"
  <2>2. counts /\ ~(clear \/ manager.state = "CONF_READ")
    BY <2>1
  <2> HIDE DEF counts
  <2> QED BY <2>2, Zenon
<1> HIDE DEF pat2, req2, ack2, count2, conf2
<1>6. /\ manager'.state = S!NextState /\ manager'.conf = conf2 /\ manager'.pat = pat2
      /\ manager'.req = req2 /\ manager'.ack = ack2 /\ manager'.count = count2
  BY <1>1
<1> QED BY <1>2, <1>3, <1>4, <1>5, <1>6, Zenon DEF pat2

----------------------------------------------------------------------------
\* Nothing is read: the scanner stays where it is.
LEMMA ScannerRestsOn ==
  ASSUME Clk, ~clear, ScannerRests, S!oam_read = FALSE
  PROVE  ScannerRests' /\ scanner'.oam_addr = scanner.oam_addr
<1>1. avail' = <<S!oam_read, avail[1]>> /\ avail[1] = FALSE /\ avail[2] = FALSE
  BY SpriteClock DEF ScannerRests
<1>2. avail'[1] = FALSE /\ avail'[2] = FALSE
  BY <1>1
<1>3. /\ scanner'.oam_addr = scanner.oam_addr
      /\ scanner.state = "INIT" => scanner'.state = "INIT"
      /\ scanner.state = "STANDBY" => scanner'.state = "STANDBY"
  BY ScannerNext, Zenon
<1> QED BY <1>2, <1>3 DEF ScannerRests

\* The manager reads no pattern: the pipe stays empty.
LEMMA PipeRestsOn ==
  ASSUME Clk, PipeRests, manager.state # "PAT_READ"
  PROVE  PipeRests'
<1>1. S!pattern_read = FALSE
  BY DEF S!pattern_read
<1>2. patPipe' = <<[read |-> S!pattern_read, sel |-> S!addr[2] % 2], patPipe[1]>>
  BY SpriteClock
<1> HIDE DEF S!addr
<1>3. patPipe'[1].read = S!pattern_read /\ patPipe'[2] = patPipe[1]
  BY <1>2
<1> QED BY <1>1, <1>3 DEF PipeRests

\* A clock in which no sprite is decided spends one more.
LEMMA WithinNext ==
  ASSUME Clk, ~clear, age \in Nat, manager'.count = manager.count, manager.count \in Nat,
         NEW n \in Nat, NEW spent \in Nat, Within(n, spent), NEW more \in Nat, more = spent + 1
  PROVE  Within(n, more)'
<1>1. age' \in Nat /\ age' <= age + 1
  BY AgeNext
<1> QED BY <1>1, Sizes DEF Within

\* The types of the sprite engine's registers stay.
LEMMA SpritesOn ==
  ASSUME Clk, SpritesAre, RequestOK
  PROVE  SpritesAre'
<1>1. oam' = oam /\ row' = IF clear THEN request.next_row ELSE row
  BY DEF Clk, S!Clk, next_row
<1>2. row' \in Nat
  BY <1>1 DEF RequestOK, SpritesAre
<1>3. age' \in Nat
  BY SpriteClock DEF SpritesAre
<1>4. DOMAIN manager'.pat = 0 .. 3
  <2> DEFINE pat2 == IF manager.state = "PAT_READ" /\ S!pattern_avail
                     THEN [manager.pat EXCEPT ![manager.ack] = S!pattern_data]
                     ELSE manager.pat
  <2>1. manager'.pat = pat2
    BY SpriteClock DEF S!NextManager
  <2>2. DOMAIN pat2 = DOMAIN manager.pat
    OBVIOUS
  <2> QED BY <2>1, <2>2, Zenon DEF SpritesAre
<1>5. UnitsAre'
  BY UnitsStay DEF SpritesAre
<1> QED BY <1>1, <1>2, <1>3, <1>4, <1>5, Zenon DEF SpritesAre

----------------------------------------------------------------------------
\* Before the first row the sprite engine waits.
LEMMA UnusedStep ==
  ASSUME Clk, ~clear, SpritesAre, Unused
  PROVE  Unused'
<1>1. S!oam_read = FALSE /\ manager.state = "CONF_READ" /\ S!conf_ack = FALSE
  BY DEF Unused, S!oam_read, S!conf_ack
<1>2. S!conf_req
  BY Sizes DEF Unused, S!conf_req, S!conf_exists, S!more_conf, S!MayRead
<1>3. manager'.state = "CONF_READ" /\ manager'.count = 0
  <2>1. S!NextState = "CONF_READ"
    BY <1>1, <1>2 DEF S!NextState
  <2>2. manager'.count = 0
    BY <1>1, ManagerNext DEF Unused
  <2> QED BY <2>1, <2>2, ManagerNext
<1>4. PipeRests'
  BY <1>1, PipeRestsOn DEF Unused
<1>5. age' = 0
  BY AgeNext DEF Unused, SpritesAre
<1>6. scanner'.state = "INIT" /\ scanner'.oam_addr = 0
  BY <1>1, ScannerNext DEF Unused
<1>7. avail' = <<S!oam_read, avail[1]>> /\ avail[1] = FALSE
  BY SpriteClock DEF Unused
<1>8. avail'[1] = FALSE /\ avail'[2] = FALSE
  BY <1>1, <1>7
<1> QED BY <1>3, <1>4, <1>5, <1>6, <1>8 DEF Unused

\* The manager asks for the next sprite of OAM, unless it has had all or
\* the line is full.
LEMMA ScanningStep ==
  ASSUME Clk, ~clear, mux' = mux, SpritesAre, NEW n \in Nat, Scanning(n)
  PROVE  Asking(n)' \/ Finished(n)'
<1>1. /\ age > 0 /\ mux /\ manager.state = "CONF_READ" /\ PipeRests
      /\ ScannerRests /\ scanner.oam_addr = n /\ Chain(n) /\ Within(n, 0) /\ age \in Nat
      /\ UnitsAre
  BY DEF Scanning, SpritesAre
<1>2. /\ manager.count \in Nat /\ manager.count <= MAX_SPRITES_PER_LINE /\ n <= MAX_SPRITES
      /\ manager.state # "SEND_SPRITE" /\ manager.state # "PAT_READ"
  BY <1>1 DEF Chain
<1>3. manager'.count = manager.count
  BY <1>2, ManagerNext, Zenon
<1>4. Chain(n)' /\ PipeRests' /\ age' > 0 /\ mux'
  BY <1>1, <1>2, <1>3, ChainMoves, PipeRestsOn, AgeNext
<1>5. CASE n < MAX_SPRITES /\ manager.count < MAX_SPRITES_PER_LINE
  <2>1. scanner.state = "STANDBY"
    BY <1>1, <1>5, Sizes DEF ScannerRests
  <2>2. S!conf_req /\ S!oam_read
    BY <1>1, <1>5, <2>1 DEF S!conf_req, S!conf_exists, S!more_conf, S!MayRead, S!oam_read
  <2>3. S!conf_ack = FALSE
    BY <2>1 DEF S!conf_ack
  <2>4. manager'.state = "CONF_READ"
    <3>1. S!NextState = "CONF_READ"
      BY <1>1, <2>2, <2>3 DEF S!NextState
    <3> QED BY <3>1, ManagerNext
  <2>5. scanner'.state = "MEM_REQ" /\ scanner'.oam_addr = n + 1
    BY <1>1, <2>1, <2>2, ScannerNext
  <2>6. avail'[1] = TRUE /\ avail'[2] = FALSE
    <3>1. avail' = <<S!oam_read, avail[1]>> /\ avail[1] = FALSE
      BY <1>1, SpriteClock DEF ScannerRests
    <3>2. avail'[1] = S!oam_read /\ avail'[2] = avail[1]
      BY <3>1
    <3>3. S!oam_read = TRUE
      BY <1>1, <1>5, <2>1 DEF S!conf_req, S!conf_exists, S!more_conf, S!MayRead, S!oam_read
    <3> QED BY <3>1, <3>2, <3>3, Zenon
  <2>7. oamPort'.mid = oam[n]
    <3>1. S!more_conf /\ scanner.oam_addr \in S!Id
      BY <1>1, <1>5, Sizes DEF S!more_conf, S!Id
    <3>2. oamPort' = S!ReadClock(oamPort, oam[scanner.oam_addr])
      BY <3>1, Zenon DEF Clk, S!Clk
    <3> QED BY <1>1, <3>2 DEF S!ReadClock
  <2>8. oam' = oam
    BY RowStays
  <2>9. TopFree'
    BY <1>1, <1>2, <1>3, <1>5, TopGetsFree
  <2>10. Within(n, 1)'
    BY <1>1, <1>2, <1>3, WithinNext
  <2> QED BY <1>4, <1>5, <2>4, <2>5, <2>6, <2>7, <2>8, <2>9, <2>10 DEF Asking
<1>6. CASE ~(n < MAX_SPRITES /\ manager.count < MAX_SPRITES_PER_LINE)
  <2>1. n = MAX_SPRITES \/ manager.count = MAX_SPRITES_PER_LINE
    BY <1>2, <1>6, Sizes
  <2>2. n = MAX_SPRITES => scanner.state = "INIT"
    BY <1>1, Sizes DEF ScannerRests
  <2>3. ~S!conf_req
    BY <1>1, <1>2, <2>1, <2>2, Sizes DEF S!conf_req, S!conf_exists, S!more_conf, S!MayRead
  <2>4. S!oam_read = FALSE
    BY <2>3 DEF S!oam_read
  <2>5. manager'.state = "SIGNAL"
    <3>1. S!NextState = "SIGNAL"
      BY <1>1, <2>3 DEF S!NextState
    <3> QED BY <3>1, ManagerNext
  <2>6. ScannerRests'
    BY <1>1, <2>4, ScannerRestsOn
  <2> QED BY <1>3, <1>4, <2>1, <2>5, <2>6 DEF Finished
<1> QED BY <1>5, <1>6

\* The address is on its way to Sprite-RAM.
LEMMA AskingStep ==
  ASSUME Clk, ~clear, mux' = mux, SpritesAre, NEW n \in Nat, Asking(n)
  PROVE  Answered(n)'
<1>1. /\ age > 0 /\ mux /\ manager.state = "CONF_READ" /\ PipeRests
      /\ avail[1] = TRUE /\ avail[2] = FALSE
      /\ scanner.state = "MEM_REQ" /\ scanner.oam_addr = n + 1
      /\ n < MAX_SPRITES /\ oamPort.mid = oam[n] /\ TopFree /\ Chain(n) /\ Within(n, 1)
      /\ age \in Nat /\ UnitsAre
  BY DEF Asking, SpritesAre
<1>2. /\ manager.count \in Nat
      /\ manager.state # "SEND_SPRITE" /\ manager.state # "PAT_READ"
  BY <1>1 DEF Chain
<1>3. manager'.count = manager.count
  BY <1>2, ManagerNext, Zenon
<1>4. Chain(n)' /\ PipeRests' /\ age' > 0 /\ mux' /\ TopFree'
  BY <1>1, <1>2, <1>3, ChainMoves, PipeRestsOn, AgeNext, TopStaysFree
<1>5. S!conf_req /\ S!conf_ack = FALSE /\ S!oam_read = FALSE
  BY <1>1 DEF S!conf_req, S!conf_exists, S!MayRead, S!conf_ack, S!oam_read, TopFree
<1>6. manager'.state = "CONF_READ"
  <2>1. S!NextState = "CONF_READ"
    BY <1>1, <1>5 DEF S!NextState
  <2> QED BY <2>1, ManagerNext
<1>7. scanner'.state = "MEM_REQ" /\ scanner'.oam_addr = n + 1
  BY <1>1, <1>5, ScannerNext
<1>8. avail'[1] = FALSE /\ avail'[2] = TRUE
  <2>1. avail' = <<S!oam_read, avail[1]>>
    BY SpriteClock
  <2> QED BY <1>1, <1>5, <2>1
<1>9. oamPort'.q = oam'[n]
  BY <1>1, SpriteClock, RowStays
<1>10. Within(n, 2)'
  BY <1>1, <1>2, <1>3, WithinNext
<1> QED BY <1>1, <1>4, <1>6, <1>7, <1>8, <1>9, <1>10 DEF Answered

\* A sprite on the row is taken, another one is passed over.
LEMMA AnsweredStep ==
  ASSUME Clk, ~clear, mux' = mux, SpritesAre, NEW n \in Nat, Answered(n), NEW m, m = n + 1
  PROVE  PatReading(n)' \/ Scanning(m)'
<1>1. /\ age > 0 /\ mux /\ manager.state = "CONF_READ" /\ PipeRests
      /\ avail[1] = FALSE /\ avail[2] = TRUE
      /\ scanner.state = "MEM_REQ" /\ scanner.oam_addr = n + 1
      /\ n < MAX_SPRITES /\ oamPort.q = oam[n] /\ TopFree /\ Chain(n) /\ Within(n, 2)
      /\ age \in Nat /\ UnitsAre /\ oam \in [S!Id -> Confs] /\ row \in Nat
  BY DEF Answered, SpritesAre
<1>2. /\ manager.count \in Nat /\ m \in Nat /\ n \in S!Id
      /\ manager.state # "SEND_SPRITE" /\ manager.state # "PAT_READ"
  BY <1>1, Sizes DEF Chain, S!Id
<1>3. manager'.count = manager.count
  BY <1>2, ManagerNext, Zenon
<1>4. PipeRests' /\ age' > 0 /\ mux' /\ TopFree'
  BY <1>1, <1>2, <1>3, PipeRestsOn, AgeNext, TopStaysFree
<1>5. S!conf_req /\ S!oam_read = FALSE
  BY <1>1 DEF S!conf_req, S!conf_exists, S!MayRead, S!oam_read, TopFree
<1>6. oam[n] \in Confs /\ oam[n].w \in Nat
  BY <1>1, <1>2, ConfsAre
<1>7. S!conf_ack <=> S!OnRow(n)
  <2>1. S!in_range(oam[n]) <=> S!OnRow(n)
    BY <1>2, <1>6, InRange
  <2>2. S!conf_ack <=> S!in_range(oam[n])
    BY <1>1, Zenon DEF S!conf_ack
  <2> QED BY <2>1, <2>2
<1>8. ScannerRests' /\ scanner'.oam_addr = m
  <2>1. avail' = <<S!oam_read, avail[1]>>
    BY SpriteClock
  <2>2. avail'[1] = FALSE /\ avail'[2] = FALSE
    BY <1>1, <1>5, <2>1
  <2>3. /\ scanner'.oam_addr = n + 1
        /\ scanner'.state = IF scanner.oam_addr < MAX_SPRITES THEN "STANDBY" ELSE "INIT"
    BY <1>1, <1>5, ScannerNext, Zenon
  <2> QED BY <1>1, <2>2, <2>3, Sizes DEF ScannerRests
<1>9. row' = row /\ oam' = oam
  BY RowStays
<1>10. CASE S!OnRow(n)
  <2>1. S!conf_ack
    BY <1>7, <1>10
  <2>2. manager'.state = "PAT_READ"
    <3>1. S!NextState = "PAT_READ"
      BY <1>1, <1>5, <2>1 DEF S!NextState
    <3> QED BY <3>1, ManagerNext
  <2>3. manager'.conf = oam[n] /\ manager'.req = 0 /\ manager'.ack = 0
    BY <1>1, <1>5, <2>1, ManagerNext, Zenon
  <2>4. S!OnRow(n)'
    BY <1>9, <1>10, SpritesKept, Zenon
  <2>5. Chain(n)'
    BY <1>1, <1>2, <1>3, ChainMoves
  <2>6. Within(n, 3)'
    BY <1>1, <1>2, <1>3, WithinNext
  <2>7. Matched(n)'
    BY <1>1, <1>4, <1>8, <1>9, <2>3, <2>4 DEF Matched
  <2>8. Reading(0, oam[n])'
    <3>1. HasChunks(manager.pat, oam[n], manager.ack)'
      BY <2>3 DEF HasChunks
    <3>2. ~patPipe'[1].read /\ ~patPipe'[2].read
      BY <1>4 DEF PipeRests
    <3>3. oam'[n].w \in Nat
      BY <1>6, <1>9
    <3>4. /\ 0 <= oam'[n].w + 3 /\ 0 <= oam'[n].w + 1 /\ 0 <= 2
          /\ ~(1 <= 0) /\ ~(2 <= 0)
      BY <3>3
    <3> QED BY <2>3, <3>1, <3>2, <3>4, Zenon DEF Reading
  <2>9. \E d \in Nat : Reading(d, oam[n])' /\ Within(n, 3 + d)'
    BY <2>6, <2>8
  <2> QED BY <1>4, <1>8, <2>2, <2>5, <2>7, <2>9 DEF PatReading
<1>11. CASE ~S!OnRow(n)
  <2>1. ~S!conf_ack
    BY <1>7, <1>11
  <2>2. manager'.state = "CONF_READ"
    <3>1. S!NextState = "CONF_READ"
      BY <1>1, <1>5, <2>1 DEF S!NextState
    <3> QED BY <3>1, ManagerNext
  <2>3. Chain(m)
    BY <1>1, <1>11, ChainSkips
  <2>4. Chain(m)'
    BY <1>1, <1>2, <1>3, <2>3, ChainMoves
  <2>5. Within(m, 0)'
    <3>1. Within(n, 3)'
      BY <1>1, <1>2, <1>3, WithinNext
    <3>2. age' \in Nat /\ manager'.count \in Nat
      BY <1>1, <1>2, <1>3, AgeNext
    <3> QED BY <3>1, <3>2, Sizes DEF Within
  <2> QED BY <1>4, <1>8, <2>2, <2>4, <2>5 DEF Scanning
<1> QED BY <1>10, <1>11

----------------------------------------------------------------------------
\* A clock of reading patterns.
LEMMA ReadingStep ==
  ASSUME Clk, ~clear, mux, SpritesAre, NEW n \in S!Id, oam[n] \in Confs,
         manager.state = "PAT_READ", manager.conf = oam[n],
         NEW d \in Nat, Reading(d, oam[n]), d <= oam[n].w + 2, NEW e \in Nat, e = d + 1
  PROVE  Reading(e, oam[n])' /\ manager'.state = "PAT_READ"
<1> DEFINE w == oam[n].w
<1>1. /\ w \in Nat /\ w <= 3 /\ d <= w + 2 /\ row \in Nat /\ row' = row /\ oam' = oam
      /\ DOMAIN manager.pat = 0 .. 3
  BY ConfsAre, RowStays DEF SpritesAre
<1>2. /\ manager.req = IF d <= w + 1 THEN d ELSE w + 1
      /\ manager.ack = IF d <= 2 THEN 0 ELSE d - 2
      /\ (patPipe[1].read <=> 1 <= d /\ d <= w + 1)
      /\ (patPipe[2].read <=> 2 <= d /\ d <= w + 2)
      /\ 1 <= d /\ d <= w + 1 => /\ patPipe[1].sel = S!ChunkAddr(oam[n], d - 1)[2] % 2
                                 /\ patPort.mid = WordAt(oam[n], d - 1)
      /\ 2 <= d /\ d <= w + 2 => /\ patPipe[2].sel = S!ChunkAddr(oam[n], d - 2)[2] % 2
                                 /\ patPort.q = WordAt(oam[n], d - 2)
      /\ HasChunks(manager.pat, oam[n], manager.ack)
  BY DEF Reading
<1> HIDE DEF w
<1>3. manager.req \in Nat /\ manager.ack \in Nat /\ manager.ack <= w
  BY <1>1, <1>2
<1>4. manager.req <= w <=> d <= w
  BY <1>1, <1>2
<1>5. S!pattern_read <=> d <= w
  <2>1. S!pattern_read <=> manager.req <= w
    BY DEF S!pattern_read, w
  <2> QED BY <1>4, <2>1, Zenon
<1>6. S!pattern_avail <=> 2 <= d /\ d <= w + 2
  BY <1>2, Zenon DEF S!pattern_avail
<1>7. manager'.state = "PAT_READ"
  <2>1. ~S!AllRead
    <3>1. manager.conf.w = w
      BY DEF w
    <3> QED BY <1>1, <1>3, <3>1 DEF S!AllRead
  <2>2. S!NextState = "PAT_READ"
    BY <2>1 DEF S!NextState
  <2> QED BY <2>2, ManagerNext
<1>8. manager'.req = IF e <= w + 1 THEN e ELSE w + 1
  <2>1. manager'.req = IF d <= w THEN manager.req + 1 ELSE manager.req
    BY <1>5, ManagerNext, Zenon
  <2> QED BY <1>1, <1>2, <2>1
<1>9. manager'.ack = IF e <= 2 THEN 0 ELSE e - 2
  <2>1. manager'.ack = IF 2 <= d /\ d <= w + 2 THEN manager.ack + 1 ELSE manager.ack
    BY <1>6, ManagerNext, Zenon
  <2> QED BY <1>1, <1>2, <2>1 DEF w
<1>10. patPipe' = <<[read |-> S!pattern_read, sel |-> S!addr[2] % 2], patPipe[1]>>
  BY SpriteClock
<1>11. patPipe'[1].read <=> 1 <= e /\ e <= w + 1
  <2>1. patPipe'[1].read = S!pattern_read
    BY <1>10
  <2>2. d <= w <=> 1 <= e /\ e <= w + 1
    BY <1>1
  <2> QED BY <1>5, <2>1, <2>2, Zenon
<1>12. patPipe'[2].read <=> 2 <= e /\ e <= w + 2
  <2>1. patPipe'[2].read = patPipe[1].read
    BY <1>10
  <2>2. (1 <= d /\ d <= w + 1) <=> 2 <= e /\ e <= w + 2
    BY <1>1
  <2> QED BY <1>2, <2>1, <2>2, Zenon
<1>13. ASSUME 1 <= e, e <= w + 1
       PROVE  /\ patPipe'[1].sel = S!ChunkAddr(oam[n], d)[2] % 2
              /\ patPort'.mid = WordAt(oam[n], d)
  <2>1. manager.req = d /\ d % 4 = d
    BY <1>1, <1>2, <1>13
  <2>2. S!addr = S!ChunkAddr(oam[n], d)
    BY <2>1, Zenon DEF S!addr
  <2>3. patPipe'[1].sel = S!addr[2] % 2
    BY <1>10
  <2>4. patPort'.mid = S!patram_addr
    <3>1. patPort' = ReadClock(patPort, IF mux THEN S!patram_addr ELSE T!patram_addr)
      BY DEF Clk
    <3>2. patPort' = ReadClock(patPort, S!patram_addr)
      BY <3>1, Zenon
    <3> QED BY <3>2 DEF ReadClock
  <2> QED BY <2>2, <2>3, <2>4, Zenon DEF S!patram_addr, WordAt
<1>14. ASSUME 2 <= e, e <= w + 2
       PROVE  /\ patPipe'[2].sel = S!ChunkAddr(oam[n], d - 1)[2] % 2
              /\ patPort'.q = WordAt(oam[n], d - 1)
  <2>1. 1 <= d /\ d <= w + 1
    BY <1>1, <1>14
  <2>2. patPipe'[2] = patPipe[1]
    BY <1>10
  <2>3. patPort'.q = patPort.mid
    BY DEF Clk, ReadClock
  <2> QED BY <1>2, <2>1, <2>2, <2>3, Zenon
<1>15. ASSUME NEW k \in Nat, k < manager'.ack
       PROVE  manager'.pat[k] = S!ChunkAddr(oam[n], k)
  <2>1. CASE k < manager.ack
    <3>1. manager.pat[k] = S!ChunkAddr(oam[n], k)
      BY <1>2, <2>1, Zenon DEF HasChunks
    <3>2. k # manager.ack /\ k \in DOMAIN manager.pat
      BY <1>1, <1>3, <2>1
    <3>3. manager'.pat[k] = manager.pat[k]
      <4>1. manager'.pat = IF S!pattern_avail
                           THEN [manager.pat EXCEPT ![manager.ack] = S!pattern_data]
                           ELSE manager.pat
        BY ManagerNext, Zenon
      <4> QED BY <3>2, <4>1, Zenon
    <3> QED BY <3>1, <3>3
  <2>2. CASE ~(k < manager.ack)
    <3>1. k = manager.ack /\ 2 <= d /\ k = d - 2
      <4>1. manager.ack = IF d <= 2 THEN 0 ELSE d - 2
        BY <1>2
      <4>2. k < IF e <= 2 THEN 0 ELSE e - 2
        BY <1>9, <1>15, Zenon
      <4> QED BY <1>3, <2>2, <4>1, <4>2
    <3>2. manager'.pat = [manager.pat EXCEPT ![manager.ack] = S!pattern_data]
      <4>1. d <= w + 2
        BY DEF w
      <4> QED BY <1>6, <3>1, <4>1, ManagerNext, Zenon
    <3>3. manager.ack \in DOMAIN manager.pat
      BY <1>1, <1>3
    <3>4. manager'.pat[k] = S!pattern_data
      BY <3>1, <3>2, <3>3, Zenon
    <3>5. patPipe[2].sel = S!ChunkAddr(oam[n], k)[2] % 2 /\ patPort.q = WordAt(oam[n], k)
      <4>1. d <= w + 2
        BY DEF w
      <4> QED BY <1>2, <3>1, <4>1, Zenon
    <3> DEFINE c == S!ChunkAddr(oam[n], k)
    <3>6. c = <<c[1], c[2]>> /\ c[2] \in Nat
      BY <1>1, ChunkIs
    <3>7. S!pattern_data = <<c[1], 2 * (c[2] \div 2) + (c[2] % 2)>>
      BY <3>5 DEF S!pattern_data, WordAt
    <3> HIDE DEF c
    <3>8. 2 * (c[2] \div 2) + (c[2] % 2) = c[2]
      BY <3>6
    <3> QED BY <3>4, <3>6, <3>7, <3>8, Zenon DEF c
  <2> QED BY <2>1, <2>2
<1>16. HasChunks(manager.pat, oam[n], manager.ack)'
  <2>1. \A k : S!ChunkAddr(oam[n], k)' = S!ChunkAddr(oam[n], k)
    BY <1>1, SpritesKept, Zenon
  <2> QED BY <1>15, <2>1, Zenon DEF HasChunks
<1>17. \A k : WordAt(oam[n], k)' = WordAt(oam[n], k) /\ S!ChunkAddr(oam[n], k)' = S!ChunkAddr(oam[n], k)
  <2>1. \A k : S!ChunkAddr(oam[n], k)' = S!ChunkAddr(oam[n], k)
    BY <1>1, SpritesKept, Zenon
  <2> QED BY <2>1, Zenon DEF WordAt
<1>18. e - 1 = d /\ e - 2 = d - 1 /\ e <= w + 3
  BY <1>1 DEF w
<1>19. Reading(e, oam[n])'
  <2>1. oam'[n].w = w
    BY <1>1 DEF w
  <2>2. 1 <= e /\ e <= w + 1 => /\ patPipe'[1].sel = S!ChunkAddr(oam[n], e - 1)[2]' % 2
                                /\ patPort'.mid = WordAt(oam[n], e - 1)'
    BY <1>13, <1>17, <1>18, Zenon
  <2>3. 2 <= e /\ e <= w + 2 => /\ patPipe'[2].sel = S!ChunkAddr(oam[n], e - 2)[2]' % 2
                                /\ patPort'.q = WordAt(oam[n], e - 2)'
    BY <1>14, <1>17, <1>18, Zenon
  <2> QED BY <1>8, <1>9, <1>11, <1>12, <1>16, <1>18, <2>1, <2>2, <2>3, Zenon DEF Reading
<1> QED BY <1>7, <1>19

\* The manager reads on until it has all the chunks of the sprite.
LEMMA PatReadingStep ==
  ASSUME Clk, ~clear, mux' = mux, SpritesAre, NEW n \in Nat, PatReading(n)
  PROVE  PatReading(n)' \/ Sending(n)'
<1>1. /\ age > 0 /\ mux /\ manager.state = "PAT_READ"
      /\ ScannerRests /\ Matched(n) /\ Chain(n)
      /\ age \in Nat /\ UnitsAre /\ oam \in [S!Id -> Confs] /\ row \in Nat
  BY DEF PatReading, SpritesAre
<1>2. PICK d \in Nat : Reading(d, oam[n]) /\ Within(n, 3 + d)
  BY DEF PatReading
<1>3. /\ n < MAX_SPRITES /\ scanner.oam_addr = n + 1
      /\ S!OnRow(n) /\ manager.conf = oam[n] /\ TopFree
  BY <1>1 DEF Matched
<1>4. /\ n \in S!Id /\ manager.count \in Nat /\ manager.state # "SEND_SPRITE"
  BY <1>1, <1>3, Sizes DEF S!Id, Chain
<1>5. oam[n] \in Confs /\ oam[n].w \in Nat /\ oam[n].w <= 3
  BY <1>1, <1>4, ConfsAre
<1>6. row' = row /\ oam' = oam
  BY RowStays
<1>7. manager'.count = manager.count /\ manager'.conf = manager.conf
  BY <1>1, ManagerNext
<1>8. S!oam_read = FALSE
  BY <1>1 DEF S!oam_read, S!conf_req
<1>9. ScannerRests' /\ scanner'.oam_addr = n + 1
  BY <1>1, <1>3, <1>8, ScannerRestsOn
<1>10. Chain(n)' /\ age' > 0 /\ mux' /\ TopFree'
  BY <1>1, <1>3, <1>4, <1>7, ChainMoves, AgeNext, TopStaysFree
<1>11. S!OnRow(n)'
  BY <1>3, <1>6, SpritesKept, Zenon
<1>12. Matched(n)'
  BY <1>3, <1>6, <1>7, <1>9, <1>10, <1>11, Zenon DEF Matched
<1>13. PICK e \in Nat : e = d + 1
  OBVIOUS
<1>14. PICK s \in Nat, t \in Nat : s = 3 + d /\ t = s + 1 /\ t = 3 + e
  BY <1>13
<1>15. Within(n, t)'
  BY <1>1, <1>2, <1>4, <1>7, <1>14, WithinNext
<1>16. CASE d <= oam[n].w + 2
  <2>1. Reading(e, oam[n])' /\ manager'.state = "PAT_READ"
    BY <1>1, <1>2, <1>3, <1>4, <1>5, <1>13, <1>16, ReadingStep
  <2>2. \E x \in Nat : Reading(x, oam[n])' /\ Within(n, 3 + x)'
    BY <1>14, <1>15, <2>1, Zenon
  <2> QED BY <1>9, <1>10, <1>12, <2>1, <2>2, Zenon DEF PatReading
<1>17. CASE ~(d <= oam[n].w + 2)
  <2>1. /\ d = oam[n].w + 3 /\ manager.req = oam[n].w + 1 /\ manager.ack = oam[n].w + 1
        /\ HasChunks(manager.pat, oam[n], oam[n].w + 1)
    BY <1>2, <1>5, <1>17 DEF Reading
  <2>2. ~patPipe[1].read /\ ~patPipe[2].read
    <3>1. ~(1 <= d /\ d <= oam[n].w + 1) /\ ~(2 <= d /\ d <= oam[n].w + 2)
      BY <1>5, <2>1
    <3> QED BY <1>2, <3>1, Zenon DEF Reading
  <2>3. manager'.state = "SEND_SPRITE"
    <3>1. S!AllRead
      BY <1>3, <1>5, <2>1 DEF S!AllRead
    <3>2. S!NextState = "SEND_SPRITE"
      BY <1>1, <3>1 DEF S!NextState
    <3> QED BY <3>2, ManagerNext
  <2>4. S!pattern_read = FALSE
    BY <1>3, <1>5, <2>1 DEF S!pattern_read
  <2>5. PipeRests'
    <3>1. patPipe' = <<[read |-> S!pattern_read, sel |-> S!addr[2] % 2], patPipe[1]>>
      BY SpriteClock
    <3> HIDE DEF S!addr
    <3>2. patPipe'[1].read = S!pattern_read /\ patPipe'[2] = patPipe[1]
      BY <3>1
    <3> QED BY <2>2, <2>4, <3>2 DEF PipeRests
  <2>6. manager'.pat = manager.pat
    <3>1. ~S!pattern_avail
      BY <2>2 DEF S!pattern_avail
    <3> QED BY <3>1, ManagerNext, Zenon
  <2>7. HasChunks(manager.pat, oam[n], oam[n].w + 1)'
    <3>1. \A k : S!ChunkAddr(oam[n], k)' = S!ChunkAddr(oam[n], k)
      BY <1>6, SpritesKept, Zenon
    <3> QED BY <1>6, <2>1, <2>6, <3>1, Zenon DEF HasChunks
  <2>8. Within(n, 7 + oam[n].w)'
    <3>1. t = 7 + oam'[n].w
      BY <1>5, <1>6, <1>13, <1>14, <2>1
    <3> QED BY <1>15, <3>1, Zenon DEF Within
  <2> QED BY <1>9, <1>10, <1>12, <2>3, <2>5, <2>7, <2>8, Zenon DEF Sending
<1> QED BY <1>16, <1>17

\* The unit at the end of the chain is free and takes the sprite.
LEMMA SendingStep ==
  ASSUME Clk, ~clear, mux' = mux, SpritesAre, NEW n \in Nat, Sending(n), NEW m, m = n + 1
  PROVE  Scanning(m)'
<1>1. /\ age > 0 /\ mux /\ manager.state = "SEND_SPRITE" /\ PipeRests
      /\ ScannerRests /\ Matched(n) /\ Chain(n)
      /\ HasChunks(manager.pat, oam[n], oam[n].w + 1) /\ Within(n, 7 + oam[n].w)
      /\ age \in Nat /\ UnitsAre /\ oam \in [S!Id -> Confs]
  BY DEF Sending, SpritesAre
<1>2. /\ n < MAX_SPRITES /\ scanner.oam_addr = n + 1
      /\ S!OnRow(n) /\ manager.conf = oam[n] /\ TopFree
  BY <1>1 DEF Matched
<1>3. n \in S!Id /\ manager.count \in Nat /\ m \in Nat
  BY <1>1, <1>2, Sizes DEF S!Id, Chain
<1>4. oam[n].w \in Nat /\ oam[n].w <= 3
  BY <1>1, <1>3, ConfsAre
<1>5. S!sprite_ack
  BY <1>1, <1>2, Zenon DEF S!sprite_ack, S!in_ack, S!in_valid, TopFree, Top
<1>6. manager'.state = "CONF_READ"
  <2>1. S!NextState = "CONF_READ"
    BY <1>1, <1>5 DEF S!NextState
  <2> QED BY <2>1, ManagerNext
<1>7. manager'.count = manager.count + 1
  BY <1>1, <1>5, ManagerNext, Zenon
<1>8. Chain(m)'
  BY <1>1, <1>2, <1>7, ChainTakes
<1>9. S!oam_read = FALSE
  BY <1>1 DEF S!oam_read, S!conf_req
<1>10. ScannerRests' /\ scanner'.oam_addr = m
  BY <1>1, <1>2, <1>9, ScannerRestsOn
<1>11. PipeRests' /\ age' > 0 /\ mux'
  BY <1>1, PipeRestsOn, AgeNext
<1>12. Within(m, 0)'
  <2>1. age' \in Nat /\ age' <= age + 1
    BY <1>1, AgeNext
  <2>2. manager.count < MAX_SPRITES_PER_LINE
    BY <1>2 DEF TopFree
  <2> QED BY <1>1, <1>3, <1>4, <1>7, <2>1, <2>2, Sizes DEF Within
<1> QED BY <1>6, <1>8, <1>10, <1>11, <1>12 DEF Scanning

\* A row that is finished stays so while the last sprites move down the
\* chain.
LEMMA FinishedStep ==
  ASSUME Clk, ~clear, SpritesAre, NEW n \in Nat, Finished(n)
  PROVE  Finished(n)' /\ manager'.state = "DONE"
<1>1. /\ age > 0 /\ manager.state \in {"SIGNAL", "DONE"} /\ PipeRests
      /\ ScannerRests /\ Chain(n) /\ (n = MAX_SPRITES \/ manager.count = MAX_SPRITES_PER_LINE)
      /\ UnitsAre /\ age \in Nat
  BY DEF Finished, SpritesAre
<1>2. S!oam_read = FALSE
  BY <1>1 DEF S!oam_read, S!conf_req
<1>3. manager'.count = manager.count
  BY <1>1, ManagerNext
<1>4. manager'.state = "DONE"
  <2>1. S!NextState = "DONE"
    BY <1>1 DEF S!NextState
  <2> QED BY <2>1, ManagerNext
<1>5. manager.state # "SEND_SPRITE" /\ manager.state # "PAT_READ"
  BY <1>1
<1>6. PipeRests' /\ age' > 0 /\ ScannerRests' /\ Chain(n)'
  BY <1>1, <1>2, <1>3, <1>5, PipeRestsOn, AgeNext, ScannerRestsOn, ChainMoves
<1> QED BY <1>1, <1>3, <1>4, <1>6 DEF Finished

\* A row begins.
LEMMA ClearStep ==
  ASSUME Clk, clear, SpritesAre, mux', PipeRests, manager.state # "PAT_READ",
         scanner.state = "INIT" \/ ScannerRests, avail[1] = FALSE,
         manager.state # "CONF_READ" \/ scanner.state = "INIT"
  PROVE  Scanning(0)'
<1>1. S!oam_read = FALSE
  BY DEF S!oam_read, S!conf_req
<1>2. PipeRests'
  BY PipeRestsOn
<1>3. manager'.state = "CONF_READ" /\ manager'.count = 0
  <2>1. manager'.state = S!NextState
    BY SpriteClock DEF S!NextManager
  <2>2. manager'.count = CASE clear -> 0
                  [] ~clear /\ manager.state = "SEND_SPRITE" /\ S!sprite_ack -> manager.count + 1
                  [] OTHER -> manager.count
    BY SpriteClock DEF S!NextManager
  <2>3. manager'.count = 0
    BY <2>2, Zenon
  <2> QED BY <2>1, <2>3 DEF S!NextState
<1>4. scanner'.state = "STANDBY" /\ scanner'.oam_addr = 0
  <2>1. scanner'.oam_addr = CASE clear -> 0
                              [] ~clear /\ S!oam_read -> scanner.oam_addr + 1
                              [] OTHER -> scanner.oam_addr
    BY SpriteClock DEF S!NextScanner
  <2>2. scanner'.oam_addr = 0
    BY <2>1, Zenon
  <2>3. scanner'.state =
        CASE scanner.state = "INIT" -> IF clear THEN "STANDBY" ELSE "INIT"
          [] scanner.state = "STANDBY" -> IF S!oam_read /\ ~clear THEN "MEM_REQ" ELSE "STANDBY"
          [] scanner.state = "MEM_REQ" ->
               IF avail[2] \/ clear
               THEN IF S!more_conf THEN "STANDBY" ELSE "INIT" ELSE "MEM_REQ"
    <3>1. scanner' = S!NextScanner
      BY SpriteClock
    <3> QED BY <3>1 DEF S!NextScanner
  <2>4. scanner.state = "INIT" \/ scanner.state = "STANDBY"
    BY DEF ScannerRests
  <2>5. scanner'.state = "STANDBY"
    BY <2>3, <2>4
  <2> QED BY <2>2, <2>5
<1>5. avail'[1] = FALSE /\ avail'[2] = FALSE
  <2>1. avail' = <<S!oam_read, avail[1]>>
    BY SpriteClock
  <2> QED BY <1>1, <2>1
<1>6. age' = 1
  BY SpriteClock
<1>7. Chain(0)'
  BY <1>3, ChainStarts DEF SpritesAre
<1>8. Within(0, 0)'
  BY <1>3, <1>6, Sizes DEF Within
<1> QED BY <1>2, <1>3, <1>4, <1>5, <1>6, <1>7, <1>8, Sizes DEF Scanning, ScannerRests

----------------------------------------------------------------------------
\* The sprites' part of the invariant reads these variables only.
LEMMA SpritesStill ==
  ASSUME SpriteInv, UNCHANGED <<spriteVars, mux, patPort>>
  PROVE  SpriteInv'
<1>1. /\ oam' = oam /\ row' = row /\ scanner' = scanner /\ avail' = avail /\ oamPort' = oamPort
      /\ manager' = manager /\ patPipe' = patPipe /\ unit' = unit /\ age' = age
      /\ mux' = mux /\ patPort' = patPort
  BY DEF spriteVars
<1>0. mux => mux'
  BY <1>1, SMT
<1>2. /\ \A n : Found(n)' = Found(n)
      /\ \A id : S!OnRow(id)' = S!OnRow(id)
      /\ \A conf, k : S!ChunkAddr(conf, k)' = S!ChunkAddr(conf, k)
  BY <1>1, SpritesKept, Zenon
<1>3. \A conf, k : WordAt(conf, k)' = WordAt(conf, k)
  BY <1>2, Zenon DEF WordAt
<1>4. UnitsAre' /\ Valid' = Valid /\ (NoGap => NoGap')
  BY <1>1, Zenon DEF UnitsAre, Valid, NoGap, SpriteInv, SpritesAre
<1>5. \A u, id : Holds(u, id) => Holds(u, id)'
  BY <1>1, <1>2, Zenon DEF Holds, HasChunks
<1>6. \A n : Chain(n) => Chain(n)'
  <2> TAKE n
  <2> HAVE Chain(n)
  <2>1. PICK f : CarriedBy(f, n)
    BY DEF Chain
  <2>2. CarriedBy(f, n)'
    BY <1>2, <1>4, <1>5, <2>1, Zenon DEF CarriedBy
  <2> QED BY <1>1, <1>2, <1>4, <2>2, Zenon DEF Chain
<1>7. TopFree => TopFree'
  BY <1>1, Zenon DEF TopFree
<1>8. (ScannerRests => ScannerRests') /\ (PipeRests => PipeRests')
  BY <1>1, Zenon DEF ScannerRests, PipeRests
<1>9. \A n, spent : Within(n, spent) => Within(n, spent)'
  BY <1>1, Zenon DEF Within
<1>10. \A n : Matched(n) => Matched(n)'
  BY <1>1, <1>2, <1>7, Zenon DEF Matched
<1>11. \A n, d : Reading(d, oam[n]) => Reading(d, oam[n])'
  <2> TAKE n, d
  <2> HAVE Reading(d, oam[n])
  <2>1. HasChunks(manager.pat, oam[n], manager.ack)'
    BY <1>1, <1>2, Zenon DEF HasChunks, Reading
  <2> QED BY <1>1, <1>2, <1>3, <2>1, Zenon DEF Reading
<1>12. Unused => Unused'
  BY <1>1, <1>8, Zenon DEF Unused
<1>13. ASSUME NEW n \in Nat, InPhase(n)
       PROVE  InPhase(n)'
  <2>1. Scanning(n) => Scanning(n)'
    BY <1>0, <1>1, <1>6, <1>8, <1>9, Zenon DEF Scanning
  <2>2. Asking(n) => Asking(n)'
    BY <1>0, <1>1, <1>6, <1>7, <1>8, <1>9, Zenon DEF Asking
  <2>3. Answered(n) => Answered(n)'
    BY <1>0, <1>1, <1>6, <1>7, <1>8, <1>9, Zenon DEF Answered
  <2>4. PatReading(n) => PatReading(n)'
    BY <1>0, <1>1, <1>6, <1>8, <1>9, <1>10, <1>11, Zenon DEF PatReading
  <2>5. Sending(n) => Sending(n)'
    <3> HAVE Sending(n)
    <3>1. HasChunks(manager.pat, oam[n], oam[n].w + 1)'
      BY <1>0, <1>1, <1>2, Zenon DEF HasChunks, Sending
    <3>2. Within(n, 7 + oam[n].w)'
      BY <1>0, <1>1, Zenon DEF Within, Sending
    <3> QED BY <1>0, <1>1, <1>6, <1>8, <1>10, <3>1, <3>2, Zenon DEF Sending
  <2>6. Finished(n) => Finished(n)'
    BY <1>0, <1>1, <1>6, <1>8, Zenon DEF Finished
  <2> QED BY <1>13, <2>1, <2>2, <2>3, <2>4, <2>5, <2>6, Zenon DEF InPhase
<1>14. SpritesAre'
  BY <1>1, <1>4, Zenon DEF SpritesAre, SpriteInv
<1> QED BY <1>12, <1>13, <1>14, Zenon DEF SpriteInv

\* Initially the invariant holds, with a sprite engine that was never used.
LEMMA LogicStarts ==
  ASSUME LogicInit
  PROVE  LogicInv
<1>1. PICK scene \in Scenes : oam = scene.oam
  BY DEF LogicInit
<1>2. oam \in [S!Id -> Confs]
  BY <1>1, PpuLogicAssumption DEF PpuLogicAssumption, S!Id
<1>3. /\ row = 0 /\ scanner = [state |-> "INIT", oam_addr |-> 0] /\ avail = <<FALSE, FALSE>>
      /\ manager = [state |-> "CONF_READ", conf |-> S!NoConf,
                    pat |-> [k \in 0 .. 3 |-> S!NoChunk], req |-> 0, ack |-> 0, count |-> 0]
      /\ patPipe = <<[read |-> FALSE, sel |-> 0], [read |-> FALSE, sel |-> 0]>>
      /\ unit = [u \in S!Unit |-> [valid |-> FALSE, conf |-> S!NoConf,
                                   pat |-> [k \in 0 .. 3 |-> S!NoChunk]]]
      /\ age = 0
  BY DEF LogicInit, S!Init
<1>4. UnitsAre
  <2> DEFINE empty == [valid |-> FALSE, conf |-> S!NoConf, pat |-> [k \in 0 .. 3 |-> S!NoChunk]]
  <2>1. empty.valid = FALSE /\ IsSprite(empty)
    BY DEF IsSprite
  <2>2. unit = [u \in S!Unit |-> empty]
    BY <1>3
  <2> HIDE DEF empty
  <2> QED BY <2>1, <2>2, Zenon DEF UnitsAre
<1>5. DOMAIN manager.pat = 0 .. 3
  <2>1. manager.pat = [k \in 0 .. 3 |-> S!NoChunk]
    BY <1>3
  <2> QED BY <2>1, Zenon
<1>6. SpritesAre
  BY <1>2, <1>3, <1>4, <1>5 DEF SpritesAre
<1>7. Unused
  <2>1. ~patPipe[1].read /\ ~patPipe[2].read
    BY <1>3
  <2>2. avail[1] = FALSE /\ avail[2] = FALSE
    BY <1>3
  <2> QED BY <1>3, <2>1, <2>2 DEF Unused, PipeRests
<1> QED BY <1>3, <1>6, <1>7, RowInit, Zenon DEF LogicInv, SpriteInv, Turns

\* The sprite engine is asked for a row when it has none.
LEMMA SpritesClear ==
  ASSUME LogicInv, Clk, clear
  PROVE  SpriteInv' /\ Turns'
<1>1. TileInv /\ RequestOK /\ SpritesAre /\ (Unused \/ \E n \in Nat : InPhase(n)) /\ Turns
  BY DEF LogicInv, RowInv, SpriteInv
<1>2. tile_done[2]
  BY DEF clear
<1>3. ~NotDone
  <2>1. NotDone => tile_done[2] = FALSE
    BY DEF NotDone
  <2> QED BY <1>2, <2>1, Zenon
<1>4. Finishing
  BY <1>1, <1>3, Zenon DEF TileInv, Asked, Starting, Fetching, Fetched, LookingUp, LookedUp,
     AtRest, Working
<1>5. mux' = TRUE
  BY <1>2, TileClock, Zenon
<1>6. AtRest'
  BY <1>1, <1>4, <1>5, FinishingStep, Zenon DEF Finishing
<1>7. age = 0 \/ manager.state = "DONE"
  BY <1>1, <1>3, Zenon DEF Turns, AtRest
<1>8. Unused \/ \E n \in Nat : Finished(n)
  <2> SUFFICES ASSUME NEW n \in Nat, InPhase(n) PROVE Finished(n)
    BY <1>1
  <2>1. age > 0 /\ (manager.state = "DONE" => Finished(n))
    BY DEF InPhase, Scanning, Asking, Answered, PatReading, Sending, Finished
  <2> QED BY <1>1, <1>7, <2>1 DEF SpritesAre
<1>9. /\ PipeRests /\ manager.state # "PAT_READ" /\ avail[1] = FALSE
      /\ scanner.state = "INIT" \/ ScannerRests
      /\ manager.state # "CONF_READ" \/ scanner.state = "INIT"
  <2>1. Unused => scanner.state = "INIT" /\ manager.state = "CONF_READ" /\ PipeRests /\ avail[1] = FALSE
    BY DEF Unused
  <2>2. ASSUME NEW n \in Nat, Finished(n)
        PROVE  ScannerRests /\ manager.state \in {"SIGNAL", "DONE"} /\ PipeRests /\ avail[1] = FALSE
    BY <2>2 DEF Finished, ScannerRests
  <2> QED BY <1>8, <2>1, <2>2
<1>10. Scanning(0)'
  BY <1>1, <1>5, <1>9, ClearStep, Zenon
<1>11. SpritesAre'
  BY <1>1, SpritesOn
<1>12. 0 \in Nat /\ InPhase(0)'
  BY <1>10 DEF InPhase
<1> QED BY <1>6, <1>11, <1>12, Zenon DEF SpriteInv, Turns

\* A clock in which no row begins takes the sprite engine to a phase of its
\* row.
LEMMA SpritesWork ==
  ASSUME LogicInv, Clk, ~clear
  PROVE  SpriteInv' /\ Turns'
<1>1. TileInv /\ RequestOK /\ SpritesAre /\ (Unused \/ \E n \in Nat : InPhase(n)) /\ Turns
  BY DEF LogicInv, RowInv, SpriteInv
<1>2. SpritesAre'
  BY <1>1, SpritesOn
<1>3. CASE Unused
  <2>1. Unused'
    BY <1>1, <1>3, UnusedStep
  <2> QED BY <1>2, <2>1, Zenon DEF SpriteInv, Turns, Unused
<1>4. ASSUME NEW n \in Nat, Finished(n)
      PROVE  SpriteInv' /\ Turns'
  <2>1. Finished(n)' /\ manager'.state = "DONE"
    BY <1>1, <1>4, FinishedStep
  <2> QED BY <1>2, <2>1, Zenon DEF SpriteInv, Turns, InPhase
<1>5. ASSUME NEW n \in Nat, Scanning(n) \/ Asking(n) \/ Answered(n) \/ PatReading(n) \/ Sending(n)
      PROVE  SpriteInv' /\ Turns'
  <2>1. age # 0 /\ manager.state # "DONE"
    BY <1>1, <1>5 DEF Scanning, Asking, Answered, PatReading, Sending, SpritesAre
  <2>2. AtRest' /\ mux' = mux
    BY <1>1, <2>1, AtRestStep, Zenon DEF Turns
  <2>3. PICK m \in Nat : m = n + 1
    OBVIOUS
  <2>4. \E k \in Nat : InPhase(k)'
    <3>1. CASE Scanning(n)
      <4>1. Asking(n)' \/ Finished(n)'
        BY <1>1, <2>2, <3>1, ScanningStep
      <4> QED BY <4>1, Zenon DEF InPhase
    <3>2. CASE Asking(n)
      <4>1. Answered(n)'
        BY <1>1, <2>2, <3>2, AskingStep
      <4> QED BY <4>1, Zenon DEF InPhase
    <3>3. CASE Answered(n)
      <4>1. PatReading(n)' \/ Scanning(m)'
        BY <1>1, <2>2, <2>3, <3>3, AnsweredStep
      <4> QED BY <4>1, Zenon DEF InPhase
    <3>4. CASE PatReading(n)
      <4>1. PatReading(n)' \/ Sending(n)'
        BY <1>1, <2>2, <3>4, PatReadingStep
      <4> QED BY <4>1, Zenon DEF InPhase
    <3>5. CASE Sending(n)
      <4>1. Scanning(m)'
        BY <1>1, <2>2, <2>3, <3>5, SendingStep
      <4> QED BY <4>1, Zenon DEF InPhase
    <3> QED BY <1>5, <3>1, <3>2, <3>3, <3>4, <3>5
  <2> QED BY <1>2, <2>2, <2>4, Zenon DEF SpriteInv, Turns
<1> QED BY <1>1, <1>3, <1>4, <1>5, Zenon DEF InPhase

\* Every step keeps the invariant.
LEMMA LogicGoesOn ==
  ASSUME LogicInv, [LogicNext]_logicVars
  PROVE  LogicInv'
<1>1. RowInv'
  BY RowNext DEF LogicInv
<1>2. CASE Swap
  <2>1. SpriteInv'
    BY <1>2, SpritesStill DEF Swap, LogicInv
  <2>2. age \in Nat
    BY DEF LogicInv, SpriteInv, SpritesAre
  <2>3. age = 0 \/ manager.state = "DONE"
    BY <1>2, <2>2 DEF Swap, S!Busy
  <2>4. age' = age /\ manager' = manager
    BY <1>2 DEF Swap, spriteVars
  <2> QED BY <1>1, <2>1, <2>3, <2>4, Zenon DEF LogicInv, Turns
<1>3. CASE Clk
  BY <1>1, <1>3, SpritesClear, SpritesWork, Zenon DEF LogicInv
<1>4. CASE UNCHANGED logicVars
  <2>1. UNCHANGED <<spriteVars, mux, patPort>>
    BY <1>4 DEF logicVars
  <2>2. SpriteInv'
    BY <2>1, SpritesStill DEF LogicInv
  <2>3. /\ age' = age /\ manager' = manager /\ prep' = prep /\ ready' = ready /\ start' = start
        /\ tile_state' = tile_state /\ tile_done' = tile_done
        /\ fetcher' = fetcher /\ indirect' = indirect
    BY <1>4 DEF logicVars, tileVars, spriteVars
  <2>4. AtRest => AtRest'
    <3> HAVE AtRest
    <3>1. tile_state' # "PREP" /\ tile_done'[2] = FALSE /\ tile_done' = <<FALSE, FALSE>>
      BY <2>3 DEF AtRest, NotDone, Resting
    <3>2. TileInv'
      BY <1>1 DEF RowInv
    <3>3. prep' = 0
      BY <2>3 DEF AtRest, Resting
    <3> QED BY <3>1, <3>2, <3>3 DEF TileInv, Asked, Starting, Fetching, Fetched, LookingUp,
               LookedUp, Finishing, Working
  <2> QED BY <1>1, <2>2, <2>3, <2>4, Zenon DEF LogicInv, Turns
<1> QED BY <1>2, <1>3, <1>4 DEF LogicNext

\* The invariant holds.
LEMMA LogicIs == LogicSpec => []LogicInv
BY LogicStarts, LogicGoesOn, PTL DEF LogicSpec

(***************************************************************************)
(* The sprite engine is done with a row in time, for every number of       *)
(* sprites in OAM and of units, whatever OAM holds.                        *)
(***************************************************************************)
THEOREM SpritesInTime == LogicSpec => []ReadyInTime
<1>1. LogicInv => ReadyInTime
  <2> SUFFICES ASSUME LogicInv, age > 0, ~S!Ready PROVE age <= S!TimeAllowed
    BY DEF ReadyInTime
  <2>1. SpritesAre /\ (Unused \/ \E n \in Nat : InPhase(n))
    BY DEF LogicInv, SpriteInv
  <2>2. ~Unused
    BY DEF Unused
  <2>3. PICK n \in Nat : InPhase(n)
    BY <2>1, <2>2
  <2>4. ~Finished(n)
    BY DEF Finished, S!Ready
  <2>5. age \in Nat /\ oam \in [S!Id -> Confs]
    BY <2>1 DEF SpritesAre
  <2>6. Chain(n)
    BY <2>3 DEF InPhase, Scanning, Asking, Answered, PatReading, Sending, Finished
  <2>7. /\ manager.count \in Nat /\ manager.count <= MAX_SPRITES_PER_LINE /\ n <= MAX_SPRITES
    BY <2>6 DEF Chain
  <2>8. Scanning(n) => Within(n, 0)
    BY DEF Scanning
  <2>9. ASSUME ~Scanning(n)
        PROVE  /\ n < MAX_SPRITES /\ manager.count < MAX_SPRITES_PER_LINE
               /\ \E spent \in Nat : spent <= 10 /\ Within(n, spent)
    <3>1. n < MAX_SPRITES /\ TopFree
      BY <2>3, <2>4, <2>9 DEF InPhase, Asking, Answered, PatReading, Sending, Matched
    <3>2. oam[n].w \in Nat /\ oam[n].w <= 3
      <4>1. n \in S!Id
        BY <3>1, Sizes DEF S!Id
      <4> QED BY <2>5, <4>1, ConfsAre
    <3>3. Asking(n) => Within(n, 1)
      BY DEF Asking
    <3>4. Answered(n) => Within(n, 2)
      BY DEF Answered
    <3>5. Sending(n) => Within(n, 7 + oam[n].w)
      BY DEF Sending
    <3>6. PatReading(n) => \E d \in Nat : d <= oam[n].w + 3 /\ Within(n, 3 + d)
      BY DEF PatReading, Reading
    <3>7. \E spent \in Nat : spent <= 10 /\ Within(n, spent)
      <4>1. CASE PatReading(n)
        <5>1. PICK d \in Nat : d <= oam[n].w + 3 /\ Within(n, 3 + d)
          BY <3>6, <4>1
        <5>2. 3 + d \in Nat /\ 3 + d <= 10
          BY <3>2, <5>1
        <5> QED BY <5>1, <5>2, Zenon
      <4>2. CASE Sending(n)
        <5>1. 7 + oam[n].w \in Nat /\ 7 + oam[n].w <= 10
          BY <3>2
        <5> QED BY <3>5, <4>2, <5>1, Zenon
      <4>3. 1 \in Nat /\ 2 \in Nat /\ 1 <= 10 /\ 2 <= 10
        OBVIOUS
      <4> QED BY <2>3, <2>4, <2>9, <3>3, <3>4, <4>1, <4>2, <4>3, Zenon DEF InPhase
    <3> QED BY <3>1, <3>7, Zenon DEF TopFree
  <2>10. age <= 1 + 3 * MAX_SPRITES + 9 * MAX_SPRITES_PER_LINE
    <3>1. CASE Scanning(n)
      BY <2>5, <2>7, <2>8, <3>1, Sizes DEF Within
    <3>2. CASE ~Scanning(n)
      BY <2>5, <2>7, <2>9, <3>2, Sizes DEF Within
    <3> QED BY <3>1, <3>2
  <2> QED BY <2>5, <2>10, Sizes DEF S!TimeAllowed
<1> QED BY <1>1, LogicIs, PTL

----------------------------------------------------------------------------
(***************************************************************************)
(* The pixels of a finished row.                                           *)
(***************************************************************************)

\* Both modules mean the same by the size of a set.
LEMMA SameCardinality == \A A : S!Cardinality(A) = Cardinality(A)
BY Zenon DEF S!Cardinality, Cardinality

(***************************************************************************)
(* The pixel of a sprite unit.                                             *)
(***************************************************************************)
LEMMA DivIndex ==
  ASSUME NEW w \in Nat, w <= 3, NEW i \in Nat, i < 8 * (w + 1)
  PROVE  i \div 8 \in Nat /\ i \div 8 < w + 1
OBVIOUS

\* Five bits hold a number below 32.
LEMMA ModSmall == ASSUME NEW a \in Nat, a < 32 PROVE a % 32 = a
OBVIOUS

\* The unit that holds a sprite shows its pixel wherever the sprite is.
LEMMA PixelIs ==
  ASSUME NEW u, NEW id \in S!Id, oam[id] \in Confs, Holds(u, id), S!OnRow(id), row \in Nat,
         NEW col \in Nat, oam[id].x <= col, col < oam[id].x + S!Width(oam[id])
  PROVE  S!Pixel(u, col) = S!SpritePixel(id, col)
<1> DEFINE c == oam[id]
           dx == IF c.x_mirror THEN S!Width(c) - 1 - (col - c.x) ELSE col - c.x
           dy == IF c.y_mirror THEN 8 * (c.h + 1) - 1 - (row - c.y) ELSE row - c.y
<1>1. /\ c.x \in Nat /\ c.y \in Nat /\ c.w \in Nat /\ c.w <= 3 /\ c.h \in Nat /\ c.h <= 3
  BY ConfsAre
<1>2. S!Width(c) = 8 * (c.w + 1)
  BY DEF S!Width
<1>3. unit[u].conf = c /\ \A k \in Nat : k < c.w + 1 => unit[u].pat[k] = S!ChunkAddr(c, k)
  BY DEF Holds, HasChunks
<1>4. col - c.x \in Nat /\ col - c.x < 8 * (c.w + 1) /\ c.x <= col
  BY <1>1, <1>2
<1>5. row - c.y \in Nat /\ row - c.y < 8 * (c.h + 1)
  BY <1>1 DEF S!OnRow
<1>6. (col - c.x) % 32 = col - c.x
  <2>1. col - c.x < 32
    BY <1>1, <1>4
  <2> QED BY <1>4, <2>1, ModSmall
<1>7. (row - c.y) % 32 = row - c.y
  <2>1. row - c.y < 32
    BY <1>1, <1>5
  <2> QED BY <1>5, <2>1, ModSmall
<1>8. S!PatIndex(u, col) = dx
  BY <1>3, <1>6, Zenon DEF S!PatIndex
<1>9. dx \in Nat /\ dx < 8 * (c.w + 1)
  BY <1>1, <1>2, <1>4
<1>10. dx \div 8 \in Nat /\ dx \div 8 < c.w + 1
  <2> HIDE DEF c, dx
  <2> QED BY <1>1, <1>9, DivIndex
<1>11. S!ChunkAddr(c, dx \div 8) =
         <<<<(c.tile[1] + (dy \div 8)) % 32, (c.tile[2] + (dx \div 8)) % 32>>, dy % 8>>
  <2> HIDE DEF dx
  <2> QED BY <1>7, Zenon DEF S!ChunkAddr
<1>12. unit[u].pat[dx \div 8] = S!ChunkAddr(c, dx \div 8)
  <2> HIDE DEF dx
  <2> QED BY <1>3, <1>10, Zenon
<1>13. S!Pixel(u, col) = <<unit[u].pat[dx \div 8], dx % 8>>
  <2> HIDE DEF dx
  <2> QED BY <1>8, Zenon DEF S!Pixel
<1>14. S!SpritePixel(id, col) =
         <<<<<<(c.tile[1] + (dy \div 8)) % 32, (c.tile[2] + (dx \div 8)) % 32>>, dy % 8>>, dx % 8>>
  BY Zenon DEF S!SpritePixel
<1> HIDE DEF c, dx, dy
<1> QED BY <1>11, <1>12, <1>13, <1>14, Zenon

\* A unit is seen where its sprite is.
LEMMA VisibleIs ==
  ASSUME SpritesAre, NEW n \in Nat, NEW f, CarriedBy(f, n), NEW u \in Valid, NEW col \in Nat
  PROVE  /\ f[u] \in Found(n) /\ f[u] \in S!Id /\ unit[u].conf = oam[f[u]]
         /\ S!Visible(u, col) <=> S!Covers(f[u], col)
         /\ S!Covers(f[u], col) => S!Pixel(u, col) = S!SpritePixel(f[u], col)
<1>1. PICK id \in Found(n) : id = f[u]
  BY DEF CarriedBy
<1>2. id \in S!Id /\ S!OnRow(id) /\ Holds(u, id)
  BY <1>1 DEF Found, CarriedBy
<1>3. oam[id] \in Confs /\ row \in Nat /\ unit[u].conf = oam[id] /\ unit[u].valid
  BY <1>2 DEF SpritesAre, Holds, Valid
<1>4. oam[id].x <= col /\ col < oam[id].x + S!Width(oam[id])
        => S!Pixel(u, col) = S!SpritePixel(id, col)
  BY <1>2, <1>3, PixelIs
<1>5. S!Visible(u, col) <=> S!Covers(id, col)
  BY <1>3, <1>4, Zenon DEF S!Visible, S!Covers
<1>6. S!Covers(id, col) => S!Pixel(u, col) = S!SpritePixel(id, col)
  BY <1>4, Zenon DEF S!Covers
<1> QED BY <1>1, <1>2, <1>3, <1>5, <1>6, Zenon

----------------------------------------------------------------------------
(***************************************************************************)
(* The chain of a finished row carries the sprites that are to be shown.   *)
(***************************************************************************)
LEMMA FoundIsMonotone ==
  ASSUME NEW a \in Nat, NEW b \in Nat, a <= b
  PROVE  Found(a) \subseteq Found(b) /\ Cardinality(Found(a)) <= Cardinality(Found(b))
<1>1. \A id \in S!Id : id < a => id < b
  BY Sizes DEF S!Id
<1>2. Found(a) \subseteq Found(b)
  BY <1>1, Zenon DEF Found
<1>3. IsFiniteSet(Found(b))
  BY FoundGrows
<1> QED BY <1>2, <1>3, FS_Subset

\* The sprites of the row up to id are those found when id is decided.
LEMMA RowsUpTo ==
  ASSUME NEW id \in S!Id
  PROVE  {j \in 0 .. id : S!OnRow(j)} = Found(id + 1)
<1>1. \A j : j \in 0 .. id <=> j \in S!Id /\ j < id + 1
  BY Sizes DEF S!Id
<1> HIDE DEF S!Id
<1> QED BY <1>1, Zenon DEF Found

\* What is found in a finished row is what should be shown.
LEMMA ShownIs ==
  ASSUME NEW n \in Nat, Finished(n)
  PROVE  S!Shown = Found(n)
<1>1. /\ manager.count = Cardinality(Found(n)) /\ manager.count <= MAX_SPRITES_PER_LINE
      /\ n <= MAX_SPRITES /\ manager.count \in Nat
      /\ n = MAX_SPRITES \/ manager.count = MAX_SPRITES_PER_LINE
  BY DEF Finished, Chain
<1>2. \A id \in S!Id :
        id \in S!Shown <=> S!OnRow(id) /\ Cardinality(Found(id + 1)) <= MAX_SPRITES_PER_LINE
  BY RowsUpTo, SameCardinality, Zenon DEF S!Shown
<1>3. \A id \in S!Id : id \in Found(n) <=> S!OnRow(id) /\ id < n
  BY DEF Found
<1>4. ASSUME NEW id \in S!Id, S!OnRow(id)
      PROVE  Cardinality(Found(id + 1)) <= MAX_SPRITES_PER_LINE <=> id < n
  <2>1. id \in Nat /\ id < MAX_SPRITES /\ id + 1 \in Nat
    BY Sizes DEF S!Id
  <2>2. PICK m \in Nat : m = id + 1
    BY <2>1
  <2>3. Cardinality(Found(m)) \in Nat /\ IsFiniteSet(Found(m))
    BY FoundGrows
  <2>4. CASE id < n
    <3>1. Cardinality(Found(m)) <= Cardinality(Found(n))
      BY <2>1, <2>2, <2>4, FoundIsMonotone
    <3>2. Cardinality(Found(m)) <= MAX_SPRITES_PER_LINE
      BY <1>1, <2>3, <3>1, Sizes
    <3> QED BY <2>2, <2>4, <3>2
  <2>5. CASE ~(id < n)
    <3>1. manager.count = MAX_SPRITES_PER_LINE
      BY <1>1, <2>1, <2>5
    <3>2. Cardinality(Found(n)) <= Cardinality(Found(id))
      BY <2>1, <2>5, FoundIsMonotone
    <3>3. Found(m) = Found(id) \cup {id} /\ id \notin Found(id) /\ IsFiniteSet(Found(id))
          /\ Cardinality(Found(id)) \in Nat
      <4>1. Found(id + 1) = IF S!OnRow(id) THEN Found(id) \cup {id} ELSE Found(id)
        BY <2>1, FoundGrows
      <4> QED BY <1>4, <2>1, <2>2, <4>1, FoundGrows
    <3>4. Cardinality(Found(m)) = Cardinality(Found(id)) + 1
      BY <3>3, FS_AddElement
    <3>5. ~(Cardinality(Found(m)) <= MAX_SPRITES_PER_LINE)
      BY <1>1, <3>1, <3>2, <3>3, <3>4
    <3> QED BY <2>2, <2>5, <3>5
  <2> QED BY <2>4, <2>5
<1>5. S!Shown \subseteq S!Id /\ Found(n) \subseteq S!Id
  BY DEF S!Shown, Found
<1> QED BY <1>2, <1>3, <1>4, <1>5, Zenon

----------------------------------------------------------------------------
Less == {p \in Nat \X Nat : p[1] < p[2]}

\* A set of numbers that is not empty has a smallest one.
LEMMA Smallest ==
  ASSUME NEW A, A \subseteq Nat, A # {}
  PROVE  \E x \in A : \A y \in A : x <= y
<1>1. IsWellFoundedOn(Less, Nat)
  <2>1. Less = OpToRel(<, Nat)
    BY Zenon DEF Less, OpToRel
  <2> QED BY <2>1, NatLessThanWellFounded, Zenon
<1>2. PICK x \in A : \A y \in A : ~(<<y, x>> \in Less)
  BY <1>1, WFMin, Zenon
<1>3. ASSUME NEW y \in A PROVE x <= y
  <2>1. x \in Nat /\ y \in Nat /\ ~(<<y, x>> \in Less)
    BY <1>2
  <2>2. ~(y < x)
    BY <2>1 DEF Less
  <2> QED BY <2>1, <2>2
<1> QED BY <1>3

UnitRank(u) == IF unit[u].conf.fg_prio THEN 0 ELSE IF unit[u].conf.bg_prio THEN 1 ELSE 2
Seen(col) == {u \in S!Unit : S!Visible(u, col)}
Foremost(col) == {u \in Seen(col) : \A v \in Seen(col) : UnitRank(u) <= UnitRank(v)}

\* The tournament is won among the visible units of the best rank.
LEMMA ContestantsAre ==
  ASSUME NEW col
  PROVE  S!Contestants(col) = Foremost(col)
<1> DEFINE fg(u) == unit[u].conf.fg_prio
           bg(u) == unit[u].conf.bg_prio
           seen == Seen(col)
<1>1. \A u : /\ fg(u) <=> UnitRank(u) = 0
             /\ UnitRank(u) = 0 \/ UnitRank(u) = 1 \/ UnitRank(u) = 2
             /\ UnitRank(u) = 1 => bg(u)
             /\ bg(u) => UnitRank(u) <= 1
  BY DEF UnitRank
<1>2. S!Contestants(col) = IF {u \in seen : fg(u)} # {} THEN {u \in seen : fg(u)}
                           ELSE IF {u \in seen : bg(u)} # {} THEN {u \in seen : bg(u)} ELSE seen
  BY Zenon DEF S!Contestants, Seen
<1> HIDE DEF fg, bg
<1>3. CASE \E w \in seen : fg(w)
  <2>1. S!Contestants(col) = {u \in seen : fg(u)}
    BY <1>2, <1>3, Zenon
  <2>2. PICK w \in seen : UnitRank(w) = 0
    BY <1>1, <1>3, Zenon
  <2>3. \A u \in seen : fg(u) <=> \A v \in seen : UnitRank(u) <= UnitRank(v)
    <3> TAKE u \in seen
    <3>1. UnitRank(u) = 0 => \A v \in seen : UnitRank(u) <= UnitRank(v)
      BY <1>1
    <3>2. UnitRank(u) <= UnitRank(w) => UnitRank(u) = 0
      BY <1>1, <2>2
    <3> QED BY <1>1, <2>2, <3>1, <3>2, Zenon
  <2> QED BY <2>1, <2>3, Zenon DEF Foremost
<1>4. CASE (\A w \in seen : ~fg(w)) /\ \E w \in seen : bg(w)
  <2>1. {u \in seen : fg(u)} = {}
    BY <1>4, Zenon
  <2>2. {u \in seen : bg(u)} # {}
    BY <1>4, Zenon
  <2>3. S!Contestants(col) = {u \in seen : bg(u)}
    BY <1>2, <2>1, <2>2, Zenon
  <2>4. PICK w \in seen : bg(w)
    BY <1>4
  <2>5. UnitRank(w) = 1
    BY <1>1, <1>4, <2>4
  <2>6. \A u \in seen : UnitRank(u) = 1 \/ UnitRank(u) = 2
    BY <1>1, <1>4
  <2>7. \A u \in seen : bg(u) <=> UnitRank(u) = 1
    <3> TAKE u \in seen
    <3>1. bg(u) => UnitRank(u) <= 1
      BY <1>1, Zenon
    <3>2. UnitRank(u) = 1 => bg(u)
      BY <1>1, Zenon
    <3>3. bg(u) => UnitRank(u) = 1
      BY <2>6, <3>1
    <3> QED BY <3>2, <3>3
  <2>8. \A u \in seen : UnitRank(u) = 1 <=> \A v \in seen : UnitRank(u) <= UnitRank(v)
    <3> TAKE u \in seen
    <3>1. UnitRank(u) = 1 => \A v \in seen : UnitRank(u) <= UnitRank(v)
      BY <2>6
    <3>2. UnitRank(u) <= UnitRank(w) => UnitRank(u) = 1
      BY <2>5, <2>6
    <3> QED BY <2>4, <3>1, <3>2, Zenon
  <2> QED BY <2>3, <2>7, <2>8, Zenon DEF Foremost
<1>5. CASE \A w \in seen : ~fg(w) /\ ~bg(w)
  <2>1. {u \in seen : fg(u)} = {} /\ {u \in seen : bg(u)} = {}
    BY <1>5, Zenon
  <2>2. S!Contestants(col) = seen
    BY <1>2, <2>1, Zenon
  <2>3. \A u \in seen : UnitRank(u) = 2
    BY <1>1, <1>5, Zenon
  <2>4. \A u \in seen : \A v \in seen : UnitRank(u) <= UnitRank(v)
    BY <2>3
  <2>5. Foremost(col) = seen
    BY <2>4 DEF Foremost
  <2> QED BY <2>2, <2>5
<1> QED BY <1>3, <1>4, <1>5, Zenon

\* In a finished row a column shows what it should.
LEMMA PixelsAreRight ==
  ASSUME SpritesAre, NEW n \in Nat, Finished(n), NEW col \in Nat
  PROVE  S!sp_pixel_data(col) = S!Expected(col)
<1>1. PICK f : CarriedBy(f, n)
  BY DEF Finished, Chain
<1> DEFINE at == {id \in S!Shown : S!Covers(id, col)}
           seen == Seen(col)
           rank(u) == S!Rank(f[u])
           Best(id) == \A j \in at : S!Rank(id) < S!Rank(j) \/ (S!Rank(id) = S!Rank(j) /\ id <= j)
<1>2. \A id : S!Rank(id) \in Nat
  BY DEF S!Rank
<1>3. \A id \in at : id \in Nat
  BY Sizes DEF S!Shown, S!Id
<1>4. \A u \in S!Unit : u \in Nat
  BY Sizes DEF S!Unit
<1>5. \A u \in seen : /\ u \in Valid /\ f[u] \in at /\ unit[u].conf = oam[f[u]]
                      /\ S!Pixel(u, col) = S!SpritePixel(f[u], col)
  <2> TAKE u \in seen
  <2>1. u \in Valid /\ S!Visible(u, col)
    BY Zenon DEF Valid, S!Visible, Seen
  <2>2. /\ f[u] \in Found(n) /\ unit[u].conf = oam[f[u]]
        /\ S!Covers(f[u], col)
        /\ S!Pixel(u, col) = S!SpritePixel(f[u], col)
    BY <1>1, <2>1, VisibleIs, Zenon
  <2>3. f[u] \in S!Shown
    BY <2>2, ShownIs, Zenon
  <2> QED BY <2>1, <2>2, <2>3, Zenon
<1>6. \A id \in at : \E u \in seen : f[u] = id
  <2> TAKE id \in at
  <2>1. id \in Found(n) /\ S!Covers(id, col)
    BY ShownIs, Zenon
  <2>2. PICK u \in Valid : f[u] = id
    BY <1>1, <2>1, Zenon DEF CarriedBy
  <2>3. S!Visible(u, col)
    BY <1>1, <2>1, <2>2, VisibleIs, Zenon
  <2> QED BY <2>2, <2>3, Zenon DEF Valid, Seen
<1>7. \A u, v \in seen : u < v => f[u] < f[v]
  BY <1>1, <1>5, Zenon DEF CarriedBy
<1>8. S!Contestants(col) = {u \in seen : \A v \in seen : rank(u) <= rank(v)}
  <2>1. S!Contestants(col) = {u \in seen : \A v \in seen : UnitRank(u) <= UnitRank(v)}
    BY ContestantsAre, Zenon DEF Foremost
  <2>2. \A u \in seen : UnitRank(u) = rank(u)
    BY <1>5, Zenon DEF S!Rank, UnitRank
  <2> HIDE DEF rank, seen
  <2> QED BY <2>1, <2>2, Zenon
<1>9. S!Expected(col) = IF at = {} THEN S!NoSprite
                        ELSE <<oam[CHOOSE id \in at : Best(id)],
                               S!SpritePixel(CHOOSE id \in at : Best(id), col)>>
  BY Zenon DEF S!Expected
<1>10. seen \subseteq S!Unit
  BY DEF Seen
<1> HIDE DEF at, seen, rank
<1>11. CASE seen = {}
  <2>1. at = {}
    BY <1>6, <1>11, Zenon
  <2>2. S!Contestants(col) = {}
    BY <1>8, <1>11, Zenon
  <2>3. S!sp_pixel_data(col) = S!NoSprite
    BY <2>2, Zenon DEF S!sp_pixel_data
  <2> HIDE DEF Best
  <2>4. S!Expected(col) = S!NoSprite
    BY <1>9, <2>1, Zenon
  <2> QED BY <2>3, <2>4
<1>12. CASE seen # {}
  <2>1. \A u \in seen : rank(u) \in Nat
    BY <1>2 DEF rank
  <2>2. \E w \in seen : \A v \in seen : rank(w) <= rank(v)
    <3> DEFINE ranks == {rank(u) : u \in seen}
    <3>1. ranks \subseteq Nat /\ ranks # {}
      BY <1>12, <2>1, Zenon
    <3> HIDE DEF ranks
    <3>2. PICK r \in ranks : \A s \in ranks : r <= s
      BY <3>1, Smallest, Zenon
    <3> QED BY <3>2, Zenon DEF ranks
  <2> DEFINE contest == S!Contestants(col)
  <2>3. contest \subseteq Nat /\ contest # {}
    BY <1>4, <1>8, <1>10, <2>2, Zenon
  <2>4. PICK u \in contest : \A w \in contest : u <= w
    BY <2>3, Smallest, Zenon
  <2>5. (CHOOSE x \in contest : \A w \in contest : x <= w) = u
    <3> DEFINE x == CHOOSE x \in contest : \A w \in contest : x <= w
    <3>1. x \in contest /\ \A w \in contest : x <= w
      BY <2>4, Zenon
    <3> HIDE DEF x, contest
    <3>2. x \in Nat /\ u \in Nat /\ x <= u /\ u <= x
      BY <2>3, <2>4, <3>1
    <3> QED BY <3>2 DEF x
  <2>6. S!sp_pixel_data(col) = <<unit[u].conf, S!Pixel(u, col)>>
    BY <2>3, <2>5, Zenon DEF S!sp_pixel_data
  <2>7. u \in seen /\ \A v \in seen : rank(u) <= rank(v)
    BY <1>8, <2>4, Zenon
  <2>8. f[u] \in at /\ Best(f[u])
    <3> SUFFICES ASSUME NEW j \in at
                 PROVE  S!Rank(f[u]) < S!Rank(j) \/ (S!Rank(f[u]) = S!Rank(j) /\ f[u] <= j)
      BY <1>5, <2>7, Zenon
    <3>1. PICK v \in seen : f[v] = j
      BY <1>6
    <3>2. /\ S!Rank(f[u]) <= S!Rank(j) /\ S!Rank(f[u]) \in Nat /\ S!Rank(j) \in Nat
      BY <1>2, <2>7, <3>1, Zenon DEF rank
    <3>3. ASSUME S!Rank(f[u]) = S!Rank(j)
          PROVE  f[u] <= j
      <4>1. v \in contest
        <5>1. rank(v) = rank(u)
          BY <3>1, <3>3, Zenon DEF rank
        <5> QED BY <1>8, <2>7, <5>1, Zenon
      <4>2. u <= v /\ u \in Nat /\ v \in Nat /\ f[u] \in Nat /\ f[v] \in Nat
        BY <1>3, <1>5, <2>3, <2>4, <2>7, <4>1, Zenon
      <4>3. CASE u = v
        BY <3>1, <4>2, <4>3
      <4>4. CASE u # v
        <5>1. u < v
          BY <4>2, <4>4
        <5>2. f[u] < f[v]
          BY <1>7, <2>7, <5>1, Zenon
        <5> QED BY <3>1, <4>2, <5>2
      <4> QED BY <4>3, <4>4
    <3> QED BY <3>2, <3>3
  <2>9. (CHOOSE id \in at : Best(id)) = f[u]
    <3> DEFINE x == CHOOSE id \in at : Best(id)
    <3>1. x \in at /\ Best(x)
      <4> HIDE DEF Best
      <4> QED BY <2>8, Zenon
    <3> HIDE DEF x
    <3>2. x \in Nat /\ f[u] \in Nat /\ S!Rank(x) \in Nat /\ S!Rank(f[u]) \in Nat
      BY <1>2, <1>3, <2>8, <3>1, Zenon
    <3>3. S!Rank(x) < S!Rank(f[u]) \/ (S!Rank(x) = S!Rank(f[u]) /\ x <= f[u])
      BY <2>8, <3>1, Zenon
    <3>4. S!Rank(f[u]) < S!Rank(x) \/ (S!Rank(f[u]) = S!Rank(x) /\ f[u] <= x)
      BY <2>8, <3>1, Zenon
    <3>5. x = f[u]
      BY <3>2, <3>3, <3>4
    <3> QED BY <3>5 DEF x
  <2> HIDE DEF Best
  <2>10. S!Expected(col) = <<oam[f[u]], S!SpritePixel(f[u], col)>>
    BY <1>9, <2>8, <2>9, Zenon
  <2> QED BY <1>5, <2>6, <2>7, <2>10, Zenon
<1> QED BY <1>11, <1>12

(***************************************************************************)
(* Every column shows the sprite that should be there, for every OAM,      *)
(* every number of sprites and of units, and every pattern.                *)
(***************************************************************************)
THEOREM SpritesShown == LogicSpec => []SpritesAreRight
<1>1. LogicInv => SpritesAreRight
  <2> SUFFICES ASSUME LogicInv, S!Ready, NEW col \in Columns
               PROVE  S!sp_pixel_data(col) = S!Expected(col)
    BY DEF SpritesAreRight
  <2>1. SpritesAre /\ (Unused \/ \E n \in Nat : InPhase(n))
    BY DEF LogicInv, SpriteInv
  <2>2. PICK n \in Nat : Finished(n)
    BY <2>1 DEF Unused, InPhase, Scanning, Asking, Answered, PatReading, Sending, S!Ready
  <2>3. col \in Nat
    <3>1. Columns \subseteq 0 .. 319
      BY PpuLogicAssumption DEF PpuLogicAssumption
    <3>2. \A c \in 0 .. 319 : c \in Nat
      BY Z3
    <3> QED BY <3>1, <3>2, Zenon
  <2> QED BY <2>1, <2>2, <2>3, PixelsAreRight
<1> QED BY <1>1, LogicIs, PTL

----------------------------------------------------------------------------
(***************************************************************************)
(* What the types need beside the invariant: the contents of tilram_rbuf   *)
(* and of Tile-RAM's port, and the counters.                               *)
(***************************************************************************)
IsPlace(pair, width) ==
  /\ pair = <<pair[1], pair[2]>>
  /\ pair[1] \in Nat /\ pair[1] <= 63 /\ pair[2] \in Nat /\ pair[2] < width

Typed ==
  /\ \A i \in T!Slot : IsPlace(tilBuf[i], 64)
  /\ IsPlace(tilPort.mid, 16) /\ IsPlace(tilPort.q, 16)
  /\ indirect.abuf <= 43 /\ indirect.targ <= 43
  /\ manager.req \in Nat /\ manager.req <= 4 /\ manager.ack \in Nat /\ manager.ack <= 4
  /\ scanner.oam_addr \in Nat

\* A chunk of Tile-RAM and a tile of a chunk have an address.
LEMMA ChunkIsPlace ==
  ASSUME RequestOK, NEW c \in Nat
  PROVE  IsPlace(T!Chunk(c), 16)
<1>1. request.scroll_y + request.next_row \in Nat /\ request.scroll_x \in Nat
  BY DEF RequestOK
<1>2. T!pixelrow \in Nat /\ T!pixelrow <= 511
  BY <1>1 DEF T!pixelrow
<1> HIDE DEF T!pixelrow
<1>3. T!tilerow \in Nat /\ T!tilerow <= 63
  BY <1>2 DEF T!tilerow
<1>4. T!tile_scroll_x \div 4 \in Nat
  BY <1>1 DEF T!tile_scroll_x
<1> DEFINE part == ((T!tile_scroll_x \div 4) + c) % 16
<1>5. part \in Nat /\ part < 16
  BY <1>4
<1>6. T!Chunk(c) = <<T!tilerow, part>>
  BY Zenon DEF T!Chunk
<1> HIDE DEF part, T!tilerow
<1> QED BY <1>3, <1>5, <1>6 DEF IsPlace

\* A tile of a chunk has an address in the tilemap.
LEMMA TileIsPlace ==
  ASSUME NEW chunk, IsPlace(chunk, 16), NEW i \in Nat
  PROVE  IsPlace(T!TileOf(chunk, i % 4), 64)
<1>1. i % 4 \in Nat /\ i % 4 <= 3
  OBVIOUS
<1> DEFINE k == i % 4
<1> HIDE DEF k
<1>2. T!TileOf(chunk, k) = <<chunk[1], 4 * chunk[2] + k>>
  BY DEF T!TileOf
<1>3. 4 * chunk[2] + k \in Nat /\ 4 * chunk[2] + k < 64
  BY <1>1 DEF IsPlace, k
<1>4. IsPlace(T!TileOf(chunk, k), 64)
  BY <1>2, <1>3 DEF IsPlace
<1> QED BY <1>4 DEF k

\* The types hold initially.
LEMMA TypedStarts ==
  ASSUME LogicInit
  PROVE  Typed
<1>1. /\ tilBuf = [i \in T!Slot |-> T!NoTile] /\ tilPort = T!Latency(<<0, 0>>)
      /\ indirect = [state |-> "IDLE", done |-> FALSE, wren |-> FALSE, abuf |-> 0, targ |-> 0]
  BY DEF LogicInit, T!Init
<1>2. manager.req = 0 /\ manager.ack = 0 /\ scanner.oam_addr = 0
  BY DEF LogicInit, S!Init
<1>3. IsPlace(T!NoTile, 64) /\ IsPlace(<<0, 0>>, 16)
  BY DEF IsPlace, T!NoTile
<1>4. tilPort.mid = <<0, 0>> /\ tilPort.q = <<0, 0>>
  BY <1>1 DEF T!Latency
<1>5. indirect.abuf <= 43 /\ indirect.targ <= 43
  BY <1>1
<1>6. \A i \in T!Slot : IsPlace(tilBuf[i], 64)
  BY <1>1, <1>3, Zenon
<1> QED BY <1>2, <1>3, <1>4, <1>5, <1>6 DEF Typed

\* A word is read, and counted, while there is room for it.
LEMMA CountersStay ==
  ASSUME LogicInv, Typed, Clk
  PROVE  manager'.req \in Nat /\ manager'.req <= 4 /\ manager'.ack \in Nat /\ manager'.ack <= 4
<1>1. /\ manager.req \in Nat /\ manager.req <= 4 /\ manager.ack \in Nat /\ manager.ack <= 4
  BY DEF Typed
<1>2. CASE manager.state = "PAT_READ"
  <2>1. PICK n \in Nat : PatReading(n)
    BY <1>2 DEF LogicInv, SpriteInv, Unused, InPhase, Scanning, Asking, Answered, Sending, Finished
  <2>2. /\ oam \in [S!Id -> Confs] /\ n < MAX_SPRITES /\ manager.conf = oam[n]
    BY <2>1 DEF PatReading, Matched, LogicInv, SpriteInv, SpritesAre
  <2>3. oam[n].w \in Nat /\ oam[n].w <= 3
    <3>1. n \in S!Id
      BY <2>2, Sizes DEF S!Id
    <3> QED BY <2>2, <3>1, ConfsAre
  <2>4. S!pattern_read => manager.req <= 3
    BY <1>1, <2>2, <2>3 DEF S!pattern_read
  <2>5. S!pattern_avail => manager.ack <= 3
    <3>1. PICK d \in Nat : Reading(d, oam[n])
      BY <2>1 DEF PatReading
    <3>2. manager.ack = (IF d <= 2 THEN 0 ELSE d - 2) /\ (S!pattern_avail => d <= oam[n].w + 2)
      BY <3>1 DEF Reading, S!pattern_avail
    <3> QED BY <2>3, <3>2
  <2>6. /\ manager'.req \in {0, manager.req, IF S!pattern_read THEN manager.req + 1 ELSE 0}
        /\ manager'.ack \in {0, manager.ack, IF S!pattern_avail THEN manager.ack + 1 ELSE 0}
    <3>1. CASE clear
      <4>1. manager'.req = 0 /\ manager'.ack = 0
        BY <3>1, SpriteClock DEF S!NextManager
      <4> QED BY <4>1
    <3>2. CASE ~clear
      BY <1>2, <3>2, ManagerNext
    <3> QED BY <3>1, <3>2
  <2> QED BY <1>1, <2>4, <2>5, <2>6
<1>3. CASE manager.state # "PAT_READ"
  <2>1. manager'.req \in {0, manager.req} /\ manager'.ack \in {0, manager.ack}
    BY <1>3, SpriteClock DEF S!NextManager
  <2> QED BY <1>1, <2>1
<1> QED BY <1>2, <1>3

\* Every step keeps the types.
LEMMA TypedGoesOn ==
  ASSUME LogicInv, Typed, [LogicNext]_logicVars
  PROVE  Typed'
<1>1. CASE Swap \/ UNCHANGED logicVars
  <2>1. /\ tilBuf' = tilBuf /\ tilPort' = tilPort /\ indirect' = indirect /\ manager' = manager
        /\ scanner' = scanner
    BY <1>1 DEF Swap, logicVars, tileVars, spriteVars
  <2> QED BY <2>1, Zenon DEF Typed
<1>2. CASE Clk
  <2>1. fetcher \in Writers /\ indirect \in Lookups /\ RequestOK
    BY DEF LogicInv, RowInv, TileInv
  <2>2. /\ tilPort' = T!ReadClock(tilPort, T!Chunk(fetcher.addr_from))
        /\ tilBuf' = [i \in T!Slot |->
                        IF T!wren_to(fetcher) /\ i \div 4 = fetcher.addr_to
                        THEN T!TileOf(tilPort.q, i % 4) ELSE tilBuf[i]]
        /\ indirect' = T!Indirect(indirect, fetcher.done)
    BY <1>2 DEF Clk, T!Clk
  <2>3. ASSUME NEW i \in T!Slot
        PROVE  IsPlace(tilBuf'[i], 64)
    <3>1. tilBuf'[i] = T!TileOf(tilPort.q, i % 4) \/ tilBuf'[i] = tilBuf[i]
      BY <2>2, Zenon
    <3>2. i \in Nat
      BY DEF T!Slot
    <3>3. IsPlace(T!TileOf(tilPort.q, i % 4), 64)
      BY <3>2, TileIsPlace DEF Typed
    <3> QED BY <3>1, <3>3, Zenon DEF Typed
  <2>4. IsPlace(tilPort'.mid, 16) /\ IsPlace(tilPort'.q, 16)
    <3>1. tilPort'.mid = T!Chunk(fetcher.addr_from) /\ tilPort'.q = tilPort.mid
      BY <2>2 DEF T!ReadClock
    <3>2. fetcher.addr_from \in Nat
      BY <2>1 DEF Writers
    <3> QED BY <2>1, <3>1, <3>2, ChunkIsPlace, Zenon DEF Typed
  <2>5. indirect'.abuf <= 43 /\ indirect'.targ <= 43
    <3>1. /\ indirect.abuf \in Nat /\ indirect.targ \in Nat
          /\ indirect.abuf <= 43 /\ indirect.targ <= 43
      BY <2>1 DEF Typed, Lookups
    <3>2. CASE indirect.state = "IDLE"
      <4>1. indirect' = [indirect EXCEPT !.abuf = 0, !.targ = 0, !.done = FALSE,
                           !.state = IF fetcher.done THEN "SYNC" ELSE "IDLE",
                           !.wren = fetcher.done]
        BY <2>2, <3>2 DEF T!Indirect
      <4>2. indirect'.abuf = 0 /\ indirect'.targ = 0
        BY <2>1, <4>1 DEF Lookups
      <4> QED BY <4>2
    <3>3. CASE indirect.state = "SYNC" /\ indirect.targ = 43
      <4>1. indirect' = [indirect EXCEPT !.state = "IDLE", !.done = TRUE, !.wren = FALSE]
        BY <2>2, <3>3 DEF T!Indirect, T!ABUF_NUM_ADDR
      <4>2. indirect'.abuf = indirect.abuf /\ indirect'.targ = indirect.targ
        BY <2>1, <4>1 DEF Lookups
      <4> QED BY <3>1, <4>2
    <3>4. CASE indirect.state = "SYNC" /\ indirect.targ # 43
      <4>1. indirect' = [indirect EXCEPT
                           !.abuf = IF indirect.abuf = 43 THEN indirect.abuf ELSE indirect.abuf + 1,
                           !.targ = IF indirect.abuf >= 4 THEN indirect.targ + 1 ELSE indirect.targ]
        BY <2>2, <3>4 DEF T!Indirect, T!ABUF_NUM_ADDR
      <4>2. /\ indirect'.abuf = IF indirect.abuf = 43 THEN indirect.abuf ELSE indirect.abuf + 1
            /\ indirect'.targ = IF indirect.abuf >= 4 THEN indirect.targ + 1 ELSE indirect.targ
        BY <2>1, <4>1 DEF Lookups
      <4> QED BY <3>1, <3>4, <4>2
    <3> QED BY <2>1, <3>2, <3>3, <3>4 DEF Lookups
  <2>6. manager'.req \in Nat /\ manager'.req <= 4 /\ manager'.ack \in Nat /\ manager'.ack <= 4
    BY <1>2, CountersStay
  <2>7. scanner'.oam_addr \in Nat
    <3>1. scanner' = S!NextScanner /\ scanner.oam_addr \in Nat
      BY <1>2, SpriteClock DEF Typed
    <3>2. scanner'.oam_addr \in {0, scanner.oam_addr, scanner.oam_addr + 1}
      BY <3>1 DEF S!NextScanner
    <3> QED BY <3>1, <3>2
  <2> QED BY <2>3, <2>4, <2>5, <2>6, <2>7, Zenon DEF Typed
<1> QED BY <1>1, <1>2 DEF LogicNext

(***************************************************************************)
(* The variables of the row's preparation keep their types.                *)
(***************************************************************************)
THEOREM LogicTypeCorrect == LogicSpec => []LogicTypeOK
<1>1. LogicInv /\ Typed => LogicTypeOK
  <2> SUFFICES ASSUME LogicInv, Typed PROVE LogicTypeOK
    OBVIOUS
  <2>1. TileInv /\ SpritesAre /\ (Unused \/ \E n \in Nat : InPhase(n))
    BY DEF LogicInv, RowInv, SpriteInv
  <2>2. tile_state \in {"IDLE", "PREP"} /\ prep \in 0 .. 2
    <3>1. /\ tile_state = "IDLE" \/ tile_state = "PREP"
          /\ prep = 0 \/ prep = 1 \/ prep = 2
      BY <2>1, Zenon DEF TileInv, Asked, Starting, Fetching, Fetched, LookingUp, LookedUp,
         Finishing, AtRest, Resting, Working
    <3> QED BY <3>1
  <2>3. \A i \in T!Slot : tilBuf[i] \in (0 .. 63) \X (0 .. 63)
    <3>1. \A pair : IsPlace(pair, 64) => pair \in (0 .. 63) \X (0 .. 63)
      BY DEF IsPlace
    <3> QED BY <3>1, Zenon DEF Typed
  <2>4. indirect.abuf \in 0 .. 43 /\ indirect.targ \in 0 .. 43
    BY <2>1 DEF TileInv, Lookups, Typed
  <2>5. T!TileTypeOK
    <3>1. T!ABUF_NUM_ADDR - 1 = 43
      BY DEF T!ABUF_NUM_ADDR
    <3> QED BY <2>2, <2>3, <2>4, <3>1, Zenon DEF T!TileTypeOK
  <2>6. /\ scanner.oam_addr \in 0 .. MAX_SPRITES
        /\ manager.count \in 0 .. MAX_SPRITES_PER_LINE
        /\ scanner.state \in {"INIT", "STANDBY", "MEM_REQ"}
    <3>1. CASE Unused
      BY <3>1, Sizes DEF Unused
    <3>2. CASE \E n \in Nat : InPhase(n)
      <4>1. PICK n \in Nat : InPhase(n)
        BY <3>2
      <4>2. Chain(n)
        BY <4>1 DEF InPhase, Scanning, Asking, Answered, PatReading, Sending, Finished
      <4>3. manager.count \in Nat /\ manager.count <= MAX_SPRITES_PER_LINE /\ n <= MAX_SPRITES
        BY <4>2 DEF Chain
      <4>4. \/ scanner.oam_addr = n \/ (scanner.oam_addr = n + 1 /\ n < MAX_SPRITES) \/ ScannerRests
        BY <4>1 DEF InPhase, Scanning, Asking, Answered, PatReading, Sending, Finished, Matched
      <4>5. scanner.state \in {"INIT", "STANDBY", "MEM_REQ"}
        BY <4>1 DEF InPhase, Scanning, Asking, Answered, PatReading, Sending, Finished, ScannerRests
      <4>6. scanner.oam_addr \in Nat /\ (ScannerRests => scanner.oam_addr <= MAX_SPRITES)
        BY Sizes DEF Typed, ScannerRests
      <4> QED BY <4>3, <4>4, <4>5, <4>6, Sizes
    <3> QED BY <2>1, <3>1, <3>2
  <2>7. S!SpriteTypeOK
    <3>1. manager.req \in 0 .. 4 /\ manager.ack \in 0 .. 4
      BY DEF Typed
    <3> QED BY <2>6, <3>1, Zenon DEF S!SpriteTypeOK
  <2> QED BY <2>2, <2>5, <2>7, Zenon DEF LogicTypeOK
<1>2. LogicSpec => [](LogicInv /\ Typed)
  <2>1. LogicInit => LogicInv /\ Typed
    BY LogicStarts, TypedStarts
  <2>2. LogicInv /\ Typed /\ [LogicNext]_logicVars => (LogicInv /\ Typed)'
    BY LogicGoesOn, TypedGoesOn
  <2> QED BY <2>1, <2>2, PTL DEF LogicSpec
<1> QED BY <1>1, <1>2, PTL

----------------------------------------------------------------------------
(***************************************************************************)
(* VramSync.                                                               *)
(***************************************************************************)
USE VramSyncAssumption DEF VramSyncAssumption

----------------------------------------------------------------------------
\* A writer a clock later, without a new sync.
Onward(w, last) == Clock(w, FALSE, FALSE, last)

\* The words below an address are copied.
CopiedBelow(addr, mem, copy) == \A a \in DOMAIN mem : a < addr => copy[a] = mem[a]
Copied(mem, copy) == \A a \in DOMAIN mem : copy[a] = mem[a]

(***************************************************************************)
(* A sync_writer under way: in its first clock it has asked for nothing,   *)
(* in its second for word 0; from then on the memory shows the word of     *)
(* addr_to and will next show the one of addr_to_buf, two addresses are on *)
(* their way, and all the words before addr_to are copied.                 *)
(***************************************************************************)
UnderWay(w, p, mem, copy, last) ==
  /\ ~w.done
  /\ \/ w.addr_from = 0 /\ w.addr_to_buf = 0 /\ w.addr_to = 0
     \/ /\ w.addr_from = 1 /\ w.addr_to_buf = 0 /\ w.addr_to = 0
        /\ p.mid = WordIn(mem, 0)
     \/ /\ w.addr_to \in 0 .. last
        /\ w.addr_to_buf = Wrap(w.addr_to + 1, last)
        /\ w.addr_from = Wrap(w.addr_to + 2, last)
        /\ p.q = WordIn(mem, w.addr_to) /\ p.mid = WordIn(mem, w.addr_to_buf)
        /\ CopiedBelow(w.addr_to, mem, copy)

(***************************************************************************)
(* The four of them: a writer that has stopped during a sync has copied    *)
(* its memory and says so, a latch is set by such a writer only, and       *)
(* between two syncs nobody works and no latch is set.                     *)
(***************************************************************************)
SegmentInv(s) ==
  /\ DOMAIN cpu[s] = Kept(s) /\ DOMAIN ppu[s] = Kept(s)
  /\ writer[s] \in Writers /\ latch[s] \in BOOLEAN
  /\ writer[s].state = "SYNC" =>
       UnderWay(writer[s], port[s], cpu[s], ppu[s], MAX_ADDR[s])
  /\ state = "SYNC" /\ writer[s].state = "IDLE" => Copied(cpu[s], ppu[s])
  /\ latch[s] => state = "SYNC" /\ writer[s].state = "IDLE"
  /\ state = "IDLE" => writer[s].state = "IDLE"

\* The CPU-facing VRAM holds the frame that the DMA engine wrote.
FrameInCpu == \A d \in Watched : cpu[Demux(d)[1]][Demux(d)[2]] = Word(frame, d)

SyncInv ==
  /\ state \in {"IDLE", "SYNC"}
  /\ \A s \in Segment : SegmentInv(s)
  /\ FrameInCpu

----------------------------------------------------------------------------
\* Where vram_interconnect puts a word: the four segments of VRAM, one after
\* the other, each in its memory from address 0.
LEMMA DemuxIs ==
  ASSUME NEW d \in 0 .. VramWords - 1
  PROVE  Demux(d) = IF d < 1024 THEN <<"tilram", d>>
                    ELSE IF d < 3072 THEN <<"patram", d - 1024>>
                    ELSE IF d < 3328 THEN <<"palram", d - 3072>>
                    ELSE <<"sprram", d - 3328>>
<1>1. d \in Nat /\ d <= 3347
  BY DEF VramWords
<1>2. CASE d < 1024
  <2>1. (d \div 2048) % 2 = 0 /\ (d \div 1024) % 2 = 0 /\ d % 1024 = d
    BY <1>1, <1>2
  <2>2. Demux(d) = <<"tilram", d % 1024>>
    BY <2>1 DEF Demux, BitOf
  <2> QED BY <1>2, <2>1, <2>2
<1>3. CASE d >= 1024 /\ d < 3072
  <2>1. CASE d < 2048
    <3>1. ~BitOf(d, 2048) /\ BitOf(d, 1024) /\ (d - 1024) % 2048 = d - 1024
      BY <1>1, <1>3, <2>1 DEF BitOf
    <3>2. Demux(d) = <<"patram", (d - 1024) % 2048>>
      BY <3>1 DEF Demux
    <3> QED BY <1>3, <3>1, <3>2
  <2>2. CASE d >= 2048
    <3>1. BitOf(d, 2048) /\ ~BitOf(d, 1024) /\ (d - 1024) % 2048 = d - 1024
      BY <1>1, <1>3, <2>2 DEF BitOf
    <3>2. Demux(d) = <<"patram", (d - 1024) % 2048>>
      BY <3>1 DEF Demux
    <3> QED BY <1>3, <3>1, <3>2
  <2> QED BY <1>1, <2>1, <2>2
<1>4. CASE d >= 3072 /\ d < 3328
  <2>1. /\ (d \div 2048) % 2 = 1 /\ (d \div 1024) % 2 = 1 /\ (d \div 256) % 2 = 0
        /\ (d - 3072) % 256 = d - 3072
    BY <1>1, <1>4
  <2>2. Demux(d) = <<"palram", (d - 3072) % 256>>
    BY <2>1 DEF Demux, BitOf
  <2> QED BY <1>4, <2>1, <2>2
<1>5. CASE d >= 3328
  <2>1. /\ (d \div 2048) % 2 = 1 /\ (d \div 1024) % 2 = 1 /\ (d \div 256) % 2 = 1
        /\ (d - 3328) % 32 = d - 3328
    BY <1>1, <1>5
  <2>2. Demux(d) = <<"sprram", (d - 3328) % 32>>
    BY <2>1 DEF Demux, BitOf
  <2> QED BY <1>5, <2>1, <2>2
<1> QED BY <1>1, <1>2, <1>3, <1>4, <1>5

\* No two words of VRAM share a place, and every place is in its memory.
LEMMA DemuxInjective ==
  /\ \A d, e \in Watched : Demux(d) = Demux(e) => d = e
  /\ \A d \in Watched : /\ Demux(d)[1] \in Segment
                        /\ Demux(d)[2] \in 0 .. MAX_ADDR[Demux(d)[1]]
                        /\ Demux(d) = <<Demux(d)[1], Demux(d)[2]>>
<1>1. ASSUME NEW d \in Watched
      PROVE  /\ d \in Nat /\ d <= 3347
             /\ Demux(d) = IF d < 1024 THEN <<"tilram", d>>
                           ELSE IF d < 3072 THEN <<"patram", d - 1024>>
                           ELSE IF d < 3328 THEN <<"palram", d - 3072>>
                           ELSE <<"sprram", d - 3328>>
  <2>1. d \in 0 .. VramWords - 1
    OBVIOUS
  <2>2. d \in Nat /\ d <= 3347
    BY <2>1 DEF VramWords
  <2> QED BY <2>1, <2>2, DemuxIs
<1>2. ASSUME NEW d \in Watched, NEW e \in Watched, Demux(d) = Demux(e)
      PROVE  d = e
  <2>1. CASE d < 1024
    BY <1>1, <1>2, <2>1
  <2>2. CASE d >= 1024 /\ d < 3072
    BY <1>1, <1>2, <2>2
  <2>3. CASE d >= 3072 /\ d < 3328
    BY <1>1, <1>2, <2>3
  <2>4. CASE d >= 3328
    BY <1>1, <1>2, <2>4
  <2> QED BY <1>1, <2>1, <2>2, <2>3, <2>4
<1>3. ASSUME NEW d \in Watched
      PROVE  /\ Demux(d)[1] \in Segment
             /\ Demux(d)[2] \in 0 .. MAX_ADDR[Demux(d)[1]]
             /\ Demux(d) = <<Demux(d)[1], Demux(d)[2]>>
  <2>1. CASE d < 1024
    BY <1>1, <2>1 DEF Segment, MAX_ADDR
  <2>2. CASE d >= 1024 /\ d < 3072
    BY <1>1, <2>2 DEF Segment, MAX_ADDR
  <2>3. CASE d >= 3072 /\ d < 3328
    BY <1>1, <2>3 DEF Segment, MAX_ADDR
  <2>4. CASE d >= 3328
    BY <1>1, <2>4 DEF Segment, MAX_ADDR
  <2> QED BY <1>1, <2>1, <2>2, <2>3, <2>4
<1> QED BY <1>2, <1>3

\* The memories have at least twenty words each.
LEMMA MemorySizes ==
  ASSUME NEW s \in Segment
  PROVE  /\ MAX_ADDR[s] \in Nat /\ MAX_ADDR[s] >= 2
         /\ Kept(s) \subseteq 0 .. MAX_ADDR[s]
<1>1. MAX_ADDR[s] \in Nat /\ MAX_ADDR[s] >= 2
  BY DEF Segment, MAX_ADDR
<1>2. Kept(s) \subseteq 0 .. MAX_ADDR[s]
  BY DemuxInjective DEF Kept
<1> QED BY <1>1, <1>2

----------------------------------------------------------------------------
(***************************************************************************)
(* One clock of a sync_writer at work and of the two memories around it:   *)
(* the word that arrives is the one of the address that is written.        *)
(***************************************************************************)
LEMMA WriterClock ==
  ASSUME NEW last \in Nat, last >= 2, NEW w \in Writers, NEW p, NEW mem, NEW copy,
         DOMAIN mem \subseteq 0 .. last, DOMAIN copy = DOMAIN mem,
         w.state = "SYNC", UnderWay(w, p, mem, copy, last),
         NEW w2, w2 = Onward(w, last),
         NEW p2, p2 = ReadClock(p, WordIn(mem, w.addr_from)),
         NEW copy2, copy2 = WriteClock(copy, wren_to(w), w.addr_to, p.q)
  PROVE  /\ w2 \in Writers /\ DOMAIN copy2 = DOMAIN mem
         /\ w2.state = "SYNC" => UnderWay(w2, p2, mem, copy2, last)
         /\ w2.state = "IDLE" => w2.done /\ Copied(mem, copy2)
<1>1. w.addr_from \in Nat /\ w.addr_to_buf \in Nat /\ w.addr_to \in Nat
  BY DEF Writers
<1>2. wren_to(w)
  BY DEF wren_to
<1>3. /\ DOMAIN copy2 = DOMAIN mem
      /\ \A a \in DOMAIN mem : copy2[a] = IF a = w.addr_to THEN p.q ELSE copy[a]
  <2>1. CASE w.addr_to \in DOMAIN copy
    <3>1. copy2 = [copy EXCEPT ![w.addr_to] = p.q]
      BY <1>2, <2>1 DEF WriteClock
    <3> QED BY <2>1, <3>1
  <2>2. CASE w.addr_to \notin DOMAIN copy
    <3>1. copy2 = copy
      BY <2>2 DEF WriteClock
    <3> QED BY <2>2, <3>1
  <2> QED BY <2>1, <2>2
<1>4. p2.mid = WordIn(mem, w.addr_from) /\ p2.q = p.mid
  BY DEF ReadClock
<1>5. CASE w.addr_to = last
  <2>1. w2 = [w EXCEPT !.state = "IDLE", !.done = TRUE]
    BY <1>5 DEF Onward, Clock, AtEnd
  <2>2. w2 \in Writers /\ w2.state = "IDLE" /\ w2.done
    BY <2>1 DEF Writers
  <2>3. p.q = WordIn(mem, last) /\ CopiedBelow(last, mem, copy)
    BY <1>5 DEF UnderWay
  <2>4. ASSUME NEW a \in DOMAIN mem PROVE copy2[a] = mem[a]
    <3>1. CASE a = last
      BY <1>3, <1>5, <2>3, <3>1 DEF WordIn
    <3>2. CASE a # last
      <4>1. a < last
        BY <3>2
      <4> QED BY <1>3, <1>5, <2>3, <3>2, <4>1 DEF CopiedBelow
    <3> QED BY <3>1, <3>2
  <2> QED BY <1>3, <2>2, <2>4 DEF Copied
<1>6. CASE w.addr_to # last
  <2> DEFINE next == IF w.addr_from = last THEN 0 ELSE w.addr_from + 1
  <2>1. w2 = [w EXCEPT !.addr_from = next, !.addr_to_buf = w.addr_from,
                       !.addr_to = w.addr_to_buf]
    BY <1>6 DEF Onward, Clock, AtEnd, Advance
  <2>2. next \in Nat
    BY <1>1
  <2>6. w2.state = "SYNC" /\ ~w2.done
    BY <2>1 DEF Writers, UnderWay
  <2>3. /\ w2.addr_from = next /\ w2.addr_to_buf = w.addr_from
        /\ w2.addr_to = w.addr_to_buf
    BY <2>1 DEF Writers
  <2>0. next = IF w.addr_from = last THEN 0 ELSE w.addr_from + 1
    OBVIOUS
  <2>4. w2 \in Writers
    BY <1>1, <2>1, <2>2 DEF Writers
  <2> HIDE DEF next
  <2>5. UnderWay(w2, p2, mem, copy2, last)
    <3>1. CASE w.addr_from = 0 /\ w.addr_to_buf = 0 /\ w.addr_to = 0
      <4>1. w2.addr_to = 0 /\ w2.addr_to_buf = 0 /\ w2.addr_from = 1
        BY <2>0, <2>3, <3>1
      <4> QED BY <1>4, <2>6, <3>1, <4>1 DEF UnderWay
    <3>2. CASE /\ w.addr_from = 1 /\ w.addr_to_buf = 0 /\ w.addr_to = 0
               /\ p.mid = WordIn(mem, 0)
      <4>1. w2.addr_to = 0 /\ w2.addr_to_buf = 1 /\ w2.addr_from = 2
        BY <2>0, <2>3, <3>2
      <4>2. Wrap(0 + 1, last) = 1 /\ Wrap(0 + 2, last) = 2
        BY DEF Wrap
      <4>3. CopiedBelow(0, mem, copy2)
        BY DEF CopiedBelow
      <4>4. p2.q = WordIn(mem, 0) /\ p2.mid = WordIn(mem, 1)
        BY <1>4, <3>2
      <4> QED BY <2>6, <4>1, <4>2, <4>3, <4>4 DEF UnderWay
    <3>3. CASE /\ w.addr_to \in 0 .. last
               /\ w.addr_to_buf = Wrap(w.addr_to + 1, last)
               /\ w.addr_from = Wrap(w.addr_to + 2, last)
               /\ p.q = WordIn(mem, w.addr_to) /\ p.mid = WordIn(mem, w.addr_to_buf)
               /\ CopiedBelow(w.addr_to, mem, copy)
      <4>0. /\ w.addr_to_buf = w.addr_to + 1 /\ w.addr_to_buf \in 0 .. last
            /\ w.addr_from = Wrap(w.addr_to_buf + 1, last)
            /\ next = Wrap(w.addr_to_buf + 2, last)
        <5>1. w.addr_to <= last
          BY <3>3
        <5> QED BY <1>1, <1>6, <2>0, <3>3, <5>1, WrapMoves
      <4>1. w2.addr_to = w.addr_to + 1 /\ w2.addr_to \in 0 .. last
        BY <2>3, <4>0
      <4>2. w2.addr_to_buf = Wrap(w2.addr_to + 1, last)
        BY <2>3, <4>0
      <4>3. w2.addr_from = Wrap(w2.addr_to + 2, last)
        BY <2>3, <4>0
      <4>4. p2.q = WordIn(mem, w2.addr_to) /\ p2.mid = WordIn(mem, w2.addr_to_buf)
        BY <1>4, <2>3, <3>3
      <4>5. ASSUME NEW a \in DOMAIN mem, a < w2.addr_to PROVE copy2[a] = mem[a]
        <5>1. CASE a = w.addr_to
          BY <1>3, <3>3, <5>1 DEF WordIn
        <5>2. CASE a # w.addr_to
          <6>1. a < w.addr_to
            BY <1>1, <4>1, <4>5, <5>2
          <6> QED BY <1>3, <3>3, <5>2, <6>1 DEF CopiedBelow
        <5> QED BY <5>1, <5>2
      <4>6. CopiedBelow(w2.addr_to, mem, copy2)
        BY <4>5 DEF CopiedBelow
      <4> QED BY <2>6, <4>1, <4>2, <4>3, <4>4, <4>6 DEF UnderWay
    <3> QED BY <3>1, <3>2, <3>3 DEF UnderWay
  <2> QED BY <1>3, <2>4, <2>5, <2>6
<1> QED BY <1>5, <1>6

\* A writer at rest keeps what it has, and its memory is not written.
LEMMA RestingClock ==
  ASSUME NEW last, NEW w \in Writers, w.state = "IDLE", NEW copy, NEW addr, NEW q
  PROVE  /\ Onward(w, last) \in Writers
         /\ Onward(w, last).state = "IDLE"
         /\ WriteClock(copy, wren_to(w), addr, q) = copy
<1>1. Onward(w, last) = [w EXCEPT !.done = w.done /\ ~FALSE]
  BY DEF Onward, Clock
<1>2. ~wren_to(w)
  BY DEF wren_to
<1>3. WriteClock(copy, wren_to(w), addr, q) = copy
  BY <1>2 DEF WriteClock
<1> QED BY <1>1, <1>3 DEF Writers

----------------------------------------------------------------------------
\* The pulse of a sync starts the four writers with nothing done.
LEMMA SyncKeepsInv ==
  ASSUME SyncInv, Sync
  PROVE  SyncInv'
<1>1. state = "IDLE" /\ state' = "SYNC" /\ UNCHANGED <<frame, cpu>>
  BY DEF Sync, Idle, Step
<1>2. ASSUME NEW s \in Segment PROVE SegmentInv(s)'
  <2>1. writer[s] \in Writers /\ writer[s].state = "IDLE" /\ latch[s] = FALSE
    BY <1>1 DEF SyncInv, SegmentInv
  <2>2. /\ writer'[s] = Clock(writer[s], TRUE, FALSE, MAX_ADDR[s])
        /\ ppu'[s] = WriteClock(ppu[s], wren_to(writer[s]), writer[s].addr_to, port[s].q)
        /\ latch'[s] = NextLatch(s)
    BY DEF Sync, Step, Zenon
  <2>3. writer'[s] = Start(writer[s])
    BY <2>1, <2>2 DEF Clock
  <2>4. /\ writer'[s] \in Writers /\ writer'[s].state = "SYNC" /\ ~writer'[s].done
        /\ writer'[s].addr_from = 0 /\ writer'[s].addr_to_buf = 0 /\ writer'[s].addr_to = 0
    <3> DEFINE w == Start(writer[s])
    <3>1. Reset \in Writers
      BY DEF Reset, Writers
    <3>2. w.state = "SYNC" /\ w.done = FALSE
      BY DEF Start, Reset
    <3>3. w.addr_from = 0 /\ w.addr_to_buf = 0 /\ w.addr_to = 0
      BY DEF Start, Reset
    <3>4. w \in Writers
      BY <3>1 DEF Start, Writers
    <3> QED BY <2>3, <3>2, <3>3, <3>4
  <2>5. ppu'[s] = ppu[s]
    BY <2>1, <2>2, RestingClock
  <2>6. latch'[s] = FALSE
    BY <1>1, <2>1, <2>2 DEF NextLatch
  <2>7. UnderWay(writer'[s], port'[s], cpu'[s], ppu'[s], MAX_ADDR[s])
    BY <2>4 DEF UnderWay
  <2>8. DOMAIN cpu'[s] = Kept(s) /\ DOMAIN ppu'[s] = Kept(s)
    BY <1>1, <2>5 DEF SyncInv, SegmentInv
  <2> QED BY <1>1, <2>4, <2>6, <2>7, <2>8 DEF SegmentInv
<1>3. FrameInCpu'
  BY <1>1 DEF SyncInv, FrameInCpu
<1> QED BY <1>1, <1>2, <1>3 DEF SyncInv

\* A clock of a sync: every writer goes on or rests, and a latch is set by a
\* writer that has come to its end; when all are set they are cleared.
LEMMA RunKeepsInv ==
  ASSUME SyncInv, Run
  PROVE  SyncInv' /\ (done => ~done' /\ Idle')
<1>1. state = "SYNC" /\ UNCHANGED <<frame, cpu>>
  BY DEF Run, Idle, Step, SyncInv, SegmentInv
<1>2. state' = IF done THEN "IDLE" ELSE "SYNC"
  BY <1>1 DEF Run, Step
<1>3. ASSUME NEW s \in Segment
      PROVE  /\ writer'[s] = Onward(writer[s], MAX_ADDR[s])
             /\ port'[s] = ReadClock(port[s], WordIn(cpu[s], writer[s].addr_from))
             /\ ppu'[s] = WriteClock(ppu[s], wren_to(writer[s]), writer[s].addr_to, port[s].q)
             /\ latch'[s] = NextLatch(s)
  BY Zenon DEF Run, Step, Onward
<1>4. ASSUME NEW s \in Segment
      PROVE  /\ SegmentInv(s)'
             /\ done => latch'[s] = FALSE /\ writer'[s].state = "IDLE"
  <2>1. /\ DOMAIN cpu[s] = Kept(s) /\ DOMAIN ppu[s] = Kept(s)
        /\ writer[s] \in Writers /\ latch[s] \in BOOLEAN
        /\ latch[s] => writer[s].state = "IDLE"
        /\ writer[s].state = "IDLE" => Copied(cpu[s], ppu[s])
        /\ writer[s].state = "SYNC" =>
             UnderWay(writer[s], port[s], cpu[s], ppu[s], MAX_ADDR[s])
    BY <1>1 DEF SyncInv, SegmentInv
  <2>2. writer[s].state \in {"IDLE", "SYNC"} /\ writer[s].done \in BOOLEAN
    BY <2>1 DEF Writers
  <2>3. writer[s].done => writer[s].state = "IDLE"
    BY <2>1, <2>2 DEF UnderWay
  <2>4. done => latch[s]
    BY DEF done
  <2>5. done => latch'[s] = FALSE
    BY <1>1, <1>3 DEF NextLatch
  <2>6. ~done => latch'[s] = (latch[s] \/ writer[s].done)
    BY <1>1, <1>3 DEF NextLatch
  <2>7. latch'[s] \in BOOLEAN
    BY <2>1, <2>2, <2>5, <2>6
  <2>8. CASE writer[s].state = "IDLE"
    <3>1. writer'[s] \in Writers /\ writer'[s].state = "IDLE" /\ ppu'[s] = ppu[s]
      BY <1>3, <2>1, <2>8, RestingClock
    <3>2. Copied(cpu'[s], ppu'[s])
      BY <1>1, <2>1, <2>8, <3>1
    <3>3. latch'[s] => state' = "SYNC"
      BY <1>2, <2>5
    <3> QED BY <1>1, <1>2, <2>1, <2>5, <2>7, <3>1, <3>2, <3>3 DEF SegmentInv
  <2>9. CASE writer[s].state = "SYNC"
    <3>1. ~done /\ ~latch[s] /\ ~writer[s].done
      BY <2>1, <2>3, <2>4, <2>9
    <3>2. latch'[s] = FALSE /\ state' = "SYNC"
      BY <1>2, <2>6, <3>1
    <3>3. /\ writer'[s] \in Writers /\ DOMAIN ppu'[s] = DOMAIN cpu[s]
          /\ writer'[s].state = "SYNC" =>
               UnderWay(writer'[s], port'[s], cpu[s], ppu'[s], MAX_ADDR[s])
          /\ writer'[s].state = "IDLE" => Copied(cpu[s], ppu'[s])
      <4>1. UnderWay(writer[s], port[s], cpu[s], ppu[s], MAX_ADDR[s])
        BY <2>1, <2>9
      <4>2. MAX_ADDR[s] \in Nat /\ MAX_ADDR[s] >= 2 /\ DOMAIN cpu[s] \subseteq 0 .. MAX_ADDR[s]
        BY <2>1, MemorySizes
      <4> QED BY <1>3, <2>1, <2>9, <4>1, <4>2, WriterClock
    <3>4. cpu'[s] = cpu[s]
      BY <1>1
    <3> QED BY <2>1, <3>1, <3>2, <3>3, <3>4 DEF SegmentInv
  <2> QED BY <2>2, <2>8, <2>9
<1>5. FrameInCpu'
  BY <1>1 DEF SyncInv, FrameInCpu
<1>6. SyncInv'
  BY <1>2, <1>4, <1>5 DEF SyncInv
<1>7. ASSUME done PROVE ~done' /\ Idle'
  <2>1. "tilram" \in Segment
    BY DEF Segment
  <2>2. ~done'
    BY <1>4, <1>7, <2>1 DEF done
  <2> QED BY <1>2, <1>4, <1>7, <2>2 DEF Idle
<1> QED BY <1>6, <1>7

\* The transfer of a frame fills the CPU-facing VRAM while nothing is copied.
LEMMA TransferKeepsInv ==
  ASSUME SyncInv, NEW f \in Frames, Transfer(f)
  PROVE  SyncInv' /\ ~done
<1>1. state = "IDLE" /\ frame' = f /\ UNCHANGED <<ppu, port, writer, latch, state>>
  BY DEF Transfer, Idle
<1>2. ASSUME NEW s \in Segment PROVE SegmentInv(s)'
  <2>1. DOMAIN cpu'[s] = Kept(s)
    BY DEF Transfer
  <2>2. /\ DOMAIN ppu[s] = Kept(s) /\ writer[s] \in Writers /\ latch[s] \in BOOLEAN
        /\ ~latch[s] /\ writer[s].state = "IDLE"
    BY <1>1 DEF SyncInv, SegmentInv
  <2> QED BY <1>1, <2>1, <2>2 DEF SegmentInv
<1>3. ASSUME NEW d \in Watched
      PROVE  cpu'[Demux(d)[1]][Demux(d)[2]] = Word(f, d)
  <2> DEFINE s == Demux(d)[1]
             a == Demux(d)[2]
             Here(e) == /\ Demux(e) = <<s, a>>
                        /\ \A later \in Watched : Demux(later) = <<s, a>> => later <= e
  <2>1. s \in Segment /\ Demux(d) = <<s, a>>
    BY DemuxInjective
  <2>2. a \in Kept(s)
    BY DEF Kept
  <2>3. \A e \in Watched : Demux(e) = <<s, a>> => e = d
    BY <2>1, DemuxInjective
  <2>4. d <= d
    OBVIOUS
  <2>5. Here(d)
    BY <2>1, <2>3, <2>4
  <2>6. (CHOOSE e \in Watched : Here(e)) = d
    BY <2>3, <2>5
  <2>7. cpu'[s][a] = Word(f, CHOOSE e \in Watched : Here(e))
    BY <2>1, <2>2 DEF Transfer
  <2> QED BY <2>6, <2>7
<1>4. FrameInCpu'
  BY <1>1, <1>3 DEF FrameInCpu
<1>5. ~done
  <2>1. "tilram" \in Segment
    BY DEF Segment
  <2> QED BY <1>1, <2>1 DEF done, SyncInv, SegmentInv
<1> QED BY <1>1, <1>2, <1>4, <1>5 DEF SyncInv

\* At reset both VRAMs are blank, and that is frame 0.
LEMMA SyncStarts ==
  ASSUME Init
  PROVE  SyncInv
<1>1. ASSUME NEW s \in Segment PROVE SegmentInv(s)
  <2>1. DOMAIN cpu[s] = Kept(s) /\ DOMAIN ppu[s] = Kept(s)
    BY DEF Init, Blank
  <2>2. writer[s] = Reset /\ latch[s] = FALSE /\ state = "IDLE"
    BY DEF Init
  <2>3. Reset \in Writers /\ Reset.state = "IDLE"
    BY DEF Reset, Writers
  <2> QED BY <2>1, <2>2, <2>3 DEF SegmentInv
<1>2. ASSUME NEW d \in Watched
      PROVE  cpu[Demux(d)[1]][Demux(d)[2]] = 0
  <2>1. Demux(d)[1] \in Segment /\ Demux(d)[2] \in Kept(Demux(d)[1])
    BY DemuxInjective DEF Kept
  <2> QED BY <2>1 DEF Init, Blank
<1>3. FrameInCpu
  BY <1>2 DEF Init, FrameInCpu, Word
<1> QED BY <1>1, <1>3 DEF Init, SyncInv

\* Every step keeps the invariant, and a done lasts one clock.
LEMMA StepKeepsInv ==
  ASSUME SyncInv, [Next]_vars
  PROVE  SyncInv' /\ (done => (~done' /\ Idle') \/ UNCHANGED vars)
<1>1. CASE UNCHANGED vars
  <2>1. ASSUME NEW s \in Segment PROVE SegmentInv(s)'
    BY <1>1, <2>1 DEF vars, SyncInv, SegmentInv
  <2>2. FrameInCpu'
    BY <1>1 DEF vars, SyncInv, FrameInCpu
  <2>3. state' \in {"IDLE", "SYNC"}
    BY <1>1 DEF vars, SyncInv
  <2> QED BY <1>1, <2>1, <2>2, <2>3 DEF SyncInv
<1>2. CASE Sync
  <2>1. ~done
    <3>1. "tilram" \in Segment
      BY DEF Segment
    <3> QED BY <1>2, <3>1 DEF Sync, Idle, done, SyncInv, SegmentInv
  <2> QED BY <1>2, <2>1, SyncKeepsInv
<1> QED BY <1>1, <1>2, RunKeepsInv, TransferKeepsInv DEF Next

(***************************************************************************)
(* DoneIsCopied of VramSync, for all the words of VRAM: when               *)
(* vram_sync_writer.sv says done, the PPU-facing VRAM is the frame that    *)
(* the DMA engine wrote, word by word, in all four memories.               *)
(***************************************************************************)
THEOREM DoneMeansCopied == Spec => []DoneIsCopied
<1>1. Init => SyncInv
  BY SyncStarts
<1>2. SyncInv /\ [Next]_vars => SyncInv'
  BY StepKeepsInv
<1>3. ASSUME SyncInv PROVE DoneIsCopied
  <2> SUFFICES ASSUME done, NEW d \in Watched
               PROVE  ppu[Demux(d)[1]][Demux(d)[2]] = Word(frame, d)
    BY DEF DoneIsCopied
  <2> DEFINE s == Demux(d)[1]
             a == Demux(d)[2]
  <2>1. s \in Segment /\ a \in Kept(s)
    BY DemuxInjective DEF Kept
  <2>2. Copied(cpu[s], ppu[s]) /\ DOMAIN cpu[s] = Kept(s)
    BY <1>3, <2>1 DEF SyncInv, SegmentInv, done
  <2>3. ppu[s][a] = cpu[s][a]
    BY <2>1, <2>2 DEF Copied
  <2> QED BY <1>3, <2>3 DEF SyncInv, FrameInCpu
<1> QED BY <1>1, <1>2, <1>3, PTL DEF Spec

(***************************************************************************)
(* DoneOncePerSync of VramSync: the done of vram_sync_writer.sv lasts one  *)
(* clock, after which nothing is under way and no latch is left set.       *)
(***************************************************************************)
THEOREM DoneIsOnce == Spec => DoneOncePerSync
<1>1. Init => SyncInv
  BY SyncStarts
<1>2. SyncInv /\ [Next]_vars => SyncInv'
  BY StepKeepsInv
<1>3. SyncInv /\ [Next]_vars => [done => ~done' /\ Idle']_vars
  BY StepKeepsInv
<1> QED BY <1>1, <1>2, <1>3, PTL DEF Spec, DoneOncePerSync
=============================================================================
