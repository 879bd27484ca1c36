------------------------------- MODULE PpuLogic -------------------------------
(***************************************************************************)
(* ppu_logic.sv: the preparation of a row by the background tile engine    *)
(* and, when it is done, by the sprite engine, which share a port of       *)
(* Pattern-RAM.  The foreground tile engine is the same circuit with a     *)
(* port and a scroll register of its own; both take the same number of     *)
(* clocks, so that its done, which starts the sprite engine, is here that  *)
(* of the background.                                                      *)
(*                                                                         *)
(* A definition whose name adds a word to the one that follows it is a     *)
(* mutant, here and in TileEngine, SpriteRow and SyncWriter: the code with *)
(* a mistake in it, for which some property below fails.                   *)
(***************************************************************************)
EXTENDS SyncWriter

CONSTANTS XMirror(_), YMirror(_),              \* the mirror bits of a tile
          MAX_SPRITES, MAX_SPRITES_PER_LINE,
          Confs,                               \* sprites that OAM may hold
          Opaque(_, _),                        \* whether a pixel of a chunk has a colour
          Scenes,                              \* scroll registers and OAMs to display
          NextRows,                            \* rows that are prepared
          Columns                              \* columns that are looked at

ASSUME PpuLogicAssumption ==
  /\ MAX_SPRITES \in Nat \ {0} /\ MAX_SPRITES_PER_LINE \in Nat \ {0}
  /\ NextRows \subseteq 0 .. 239 /\ Columns \subseteq 0 .. 319
  /\ \A conf \in Confs :
        /\ conf.x \in Nat /\ conf.y \in Nat /\ conf.y <= 255
        /\ conf.w \in 0 .. 3 /\ conf.h \in 0 .. 3
        /\ conf.tile[1] \in Nat /\ conf.tile[2] \in Nat
  /\ \A scene \in Scenes :
        /\ scene.scroll_x \in Nat /\ scene.scroll_x <= 511
        /\ scene.scroll_y \in Nat /\ scene.scroll_y <= 511
        /\ scene.oam \in [0 .. MAX_SPRITES - 1 -> Confs]

VARIABLES request, prep,   \* the row asked for, with the scroll registers, and rowram_swap
          mux,             \* swap_patram_mux: the port is the sprite engine's
          patPort,         \* the shared read port of Pattern-RAM
          ready,           \* the tile engine has been done (pixel_mixer)
          tile_state, tile_done,     \* of the tile engine
          start, fetcher, tilPort, tilBuf, bufPort, indirect, mirror, patBuf,
          oam, row, scanner, avail, oamPort, manager, patPipe, unit, age

T == INSTANCE TileEngine WITH state <- tile_state, done <- tile_done

\* The first clock of spre_start, which lasts one.
clear == tile_done[2]
next_row == request.next_row
S == INSTANCE SpriteRow

tileVars == <<tile_state, tile_done, start, fetcher, tilPort, tilBuf, bufPort, indirect,
              mirror, patBuf>>
spriteVars == <<oam, row, scanner, avail, oamPort, manager, patPipe, unit, age>>
logicVars == <<request, prep, mux, patPort, ready, tileVars, spriteVars>>

LogicInit ==
  /\ T!Init /\ S!Init
  /\ \E scene \in Scenes, r \in NextRows :
        /\ oam = scene.oam
        /\ request = [scroll_x |-> scene.scroll_x, scroll_y |-> scene.scroll_y, next_row |-> r]
  /\ prep = 0 /\ mux = FALSE /\ ready = FALSE
  /\ patPort = Latency(<<<<0, 0>>, 0>>)

\* To the sprite engine when the tiles are prepared, back when the next row
\* begins, a clock later each.
NextMuxStuck == mux \/ clear

NextMux == IF clear THEN TRUE ELSE IF prep > 0 THEN FALSE ELSE mux

\* The row RAMs are swapped, long after the engines have done with the row:
\* prepare another one.  The pulse of the pixel clock lasts two clocks.
Swap ==
  /\ ~T!Busy /\ ~S!Busy
  /\ \E r \in NextRows : request' = [request EXCEPT !.next_row = r]
  /\ prep' = 2 /\ ready' = FALSE
  /\ UNCHANGED <<mux, patPort, tileVars, spriteVars>>

Clk ==
  /\ T!Busy \/ S!Busy
  /\ prep' = IF prep > 0 THEN prep - 1 ELSE 0
  /\ mux' = NextMux
  /\ patPort' = ReadClock(patPort, IF mux THEN S!patram_addr ELSE T!patram_addr)
  /\ ready' = (ready \/ tile_done[2])
  /\ T!Clk /\ S!Clk
  /\ UNCHANGED request

LogicNext == Swap \/ Clk

LogicSpec == LogicInit /\ [][LogicNext]_logicVars

----------------------------------------------------------------------------
LogicTypeOK == T!TileTypeOK /\ S!SpriteTypeOK /\ prep \in 0 .. 2

(***************************************************************************)
(* A prepared row is the row of the layer that the scroll registers select *)
(* (ppu.h, ppu_set_scroll): for every column the mixer finds the pixel of  *)
(* the tile that is there, from the pattern row and column that its mirror *)
(* bits call for, and this tile's palette, also where the layer wraps      *)
(* around.  Nothing of an earlier row is left, and nothing comes from the  *)
(* sprite engine, which takes over the port of Pattern-RAM meanwhile.      *)
(***************************************************************************)
RowIsPrepared ==
  ready => \A a \in 0 .. 319 :
             T!pmxr_pixel_data(a) = T!LayerPixel(a + request.scroll_x,
                                                 request.next_row + request.scroll_y)

(***************************************************************************)
(* When the sprite engine says that it is ready, every column shows the    *)
(* sprite that should be there: of the first sprites in OAM that are on    *)
(* the row, as many as a line can have, the one of the highest priority,   *)
(* then the first in OAM, with the pixel that its position, size and       *)
(* mirroring call for.  This holds while sprites still move down the       *)
(* chain, and nothing of an earlier row, a wider sprite or the tile        *)
(* engine's reads is left.                                                 *)
(***************************************************************************)
SpritesAreRight == S!Ready => \A col \in Columns : S!sp_pixel_data(col) = S!Expected(col)

(***************************************************************************)
(* The sprite engine is ready in time for the mixer: three clocks for      *)
(* every sprite of OAM and nine for each on the line, 340 of the 3200      *)
(* clocks of a row with 64 and 16 sprites, also when the row has no sprite *)
(* and when OAM is exhausted before the line is full.                      *)
(***************************************************************************)
ReadyInTime == age > 0 /\ ~S!Ready => age <= S!TimeAllowed
=============================================================================
