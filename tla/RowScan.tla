------------------------------- MODULE RowScan -------------------------------
(***************************************************************************)
(* From the prepared row to the screen.  The pixel mixer asks the tile     *)
(* engines and the sprite engine for the pixels of a column, chooses one   *)
(* and writes it to a row RAM (pixel_mixer.sv), while the video output     *)
(* reads the other one, every row and every pixel twice                    *)
(* (hdmi_video_output.sv).  The two are swapped before every second line   *)
(* (row_ram_swap.sv).                                                      *)
(*                                                                         *)
(* A step is one clock of the PPU; the pixel clock has every second edge.  *)
(* A pixel is named by the layer, the row and the column it comes from.    *)
(***************************************************************************)
EXTENDS SyncWriter

CONSTANTS v_sync, v_backporch, v_visible, v_frontporch,   \* lines
          EngineTime,       \* clocks until the last engine is done
          BgOpaque(_), FgOpaque(_), SprOpaque(_),         \* at a column
          SprPrio(_)        \* {fg_prio, bg_prio} at a column

h_sync == 96
h_backporch == 48
h_visible == 640
h_total == 800
v_total == v_sync + v_backporch + v_visible + v_frontporch

MAX_PIXEL_ADDR == 319
Column == 0 .. MAX_PIXEL_ADDR

\* The display begins on an odd line, as with 2 and 33.  A row lasts two lines
\* of 1600 clocks, of which the mixer needs about 330.
ASSUME RowScanAssumption ==
  /\ {v_sync, v_backporch, v_visible, v_frontporch} \subseteq Nat \ {0}
  /\ v_visible % 2 = 0
  /\ (v_sync + v_backporch) % 2 = 1 /\ (v_visible + v_frontporch) % 2 = 0
  /\ EngineTime \in Nat /\ EngineTime >= 1 /\ EngineTime <= 2500
  /\ \A c \in Column : BgOpaque(c) \in BOOLEAN /\ FgOpaque(c) \in BOOLEAN
                        /\ SprOpaque(c) \in BOOLEAN /\ SprPrio(c) \in 0 .. 3

VARIABLES sprites,   \* the sprite layer is enabled
          h, v,      \* h_count and v_count
          edge,      \* the next clock is also an edge of the pixel clock
          hdmi,      \* state, addr_toggle, rowram_rdaddr, color_rdaddr, vga_rgb
          palram,    \* read port of Palette-RAM, and the delayed show_bgcolor
          disp,      \* the PPU is in PPU_DISP
          swapped, ignore_swap,
          rr,        \* the two row RAMs with their read ports
          row,       \* the row the engines prepare
          engine,    \* clocks until they are done, 0 if they are idle
          rec,       \* the mixer has seen the done signals
          mixer,     \* its state, its pixel address and the delayed ones
          tile,      \* read port of the buffers in the tile engines
          col        \* the register of the sprite engine

vars == <<sprites, h, v, edge, hdmi, palram, disp, swapped, ignore_swap, rr, row, engine,
          rec, mixer, tile, col>>

NoPixel == [src |-> "none", row |-> 0, col |-> 0]
Black == [src |-> "blank", row |-> 0, col |-> 0]

Init ==
  /\ sprites \in BOOLEAN
  /\ h = 0 /\ v = 0 /\ edge = FALSE
  /\ hdmi = [state |-> "IDLE", toggle |-> FALSE, rdaddr |-> 0, color |-> NoPixel, rgb |-> Black]
  /\ palram = Latency(NoPixel)
  /\ disp = FALSE
  /\ swapped = FALSE /\ ignore_swap = FALSE
  /\ rr = [i \in {1, 2} |-> [cells |-> [c \in Column |-> NoPixel], port |-> Latency(NoPixel)]]
  /\ row = 0 /\ engine = 0 /\ rec = FALSE
  /\ mixer = [state |-> "WAIT", addr |-> 0, buf |-> 0, wraddr |-> 0]
  /\ tile = Latency(0) /\ col = 0

----------------------------------------------------------------------------
(* The video output, by the pixel clock.                                   *)

v_start == v_sync + v_backporch
vga_de == /\ h >= h_sync + h_backporch /\ h < h_sync + h_backporch + h_visible
          /\ v >= v_start /\ v < v_start + v_visible

vblank_start == v = v_total - v_frontporch /\ h = 0
vblank_end_soon == v = v_start - 2 /\ h = 0

\* Two lines ahead, and every row on two lines.
NextRow == IF v >= v_start - 2 /\ v <= v_start + v_visible - 3
           THEN (v - (v_start - 2)) \div 2 ELSE 0

rowram_swap == hdmi.state = "SWAP" /\ v % 2 = 1

RowRam(i) == rr[i].port.q
rowram_rddata == RowRam(IF swapped THEN 2 ELSE 1)
color_rddata == palram.q

\* Where the state machine leaves IDLE, early enough for the memories.
SwapPoint == h_sync + h_backporch - 6

Scan ==
  CASE hdmi.state = "IDLE" ->
         [hdmi EXCEPT !.state = IF h = SwapPoint THEN "SWAP" ELSE "IDLE",
                      !.toggle = FALSE, !.rgb = Black]
    [] hdmi.state = "SWAP" ->
         [hdmi EXCEPT !.state = "DISPLAY", !.rdaddr = 0, !.toggle = FALSE, !.rgb = Black]
    [] hdmi.state = "DISPLAY" ->
         [hdmi EXCEPT
            !.state = IF h = h_sync + h_backporch + h_visible - 1 THEN "IDLE" ELSE "DISPLAY",
            !.rdaddr = IF hdmi.toggle /\ h < h_sync + h_backporch + h_visible - 5
                       THEN @ + 1 ELSE @,
            !.toggle = ~@, !.rgb = color_rddata]

PixelClock ==
  /\ hdmi' = [Scan EXCEPT !.color = rowram_rddata]
  /\ h' = IF h = h_total - 1 THEN 0 ELSE h + 1
  /\ v' = CASE h = h_total - 1 /\ v = v_total - 1 -> 0
            [] h = h_total - 1 /\ v # v_total - 1 -> v + 1
            [] OTHER -> v

----------------------------------------------------------------------------
(* The mixer.                                                              *)

\* final_source.
FinalSourceFgLast(bg, fg, spr, prio) ==
  IF spr /\ prio >= 1 THEN "spr"
  ELSE IF fg THEN "fg"
  ELSE IF spr /\ ~bg THEN "spr"
  ELSE IF bg THEN "bg" ELSE "none"

FinalSource(bg, fg, spr, prio) ==
  IF spr /\ prio >= 2 THEN "spr"
  ELSE IF spr /\ prio = 1 /\ ~fg THEN "spr"
  ELSE IF fg THEN "fg"
  ELSE IF spr /\ prio = 0 /\ ~bg THEN "spr"
  ELSE IF bg THEN "bg" ELSE "none"

\* A tile engine has both rows of a pair and picks one by next_row.
TileRow == 2 * (row \div 2) + (NextRow % 2)

Named(src, r, c) == IF src = "none" THEN NoPixel ELSE [src |-> src, row |-> r, col |-> c]

\* pmxr_rowram_wrdata: tiles come two clocks after the address, sprites one.
wrdata ==
  LET src == FinalSource(BgOpaque(tile.q), FgOpaque(tile.q),
                         sprites /\ SprOpaque(col), SprPrio(col))
  IN IF src = "spr" THEN Named("spr", row, col) ELSE Named(src, TileRow, tile.q)

RowFullPastEnd == mixer.wraddr = MAX_PIXEL_ADDR + 1

RowFull == mixer.wraddr = MAX_PIXEL_ADDR

MixOneClock ==
  CASE mixer.state = "WAIT" ->
         [mixer EXCEPT !.addr = 0, !.wraddr = mixer.addr,
                       !.state = IF rec THEN "FETCH" ELSE "WAIT"]
    [] mixer.state = "FETCH" ->
         [mixer EXCEPT !.addr = IF @ = MAX_PIXEL_ADDR THEN @ ELSE @ + 1,
                       !.wraddr = mixer.addr,
                       !.state = IF RowFull THEN "WAIT" ELSE "FETCH"]

Mix ==
  CASE mixer.state = "WAIT" ->
         [mixer EXCEPT !.addr = 0, !.buf = mixer.addr, !.wraddr = mixer.buf,
                       !.state = IF rec THEN "FETCH" ELSE "WAIT"]
    [] mixer.state = "FETCH" ->
         [mixer EXCEPT !.addr = IF @ = MAX_PIXEL_ADDR THEN @ ELSE @ + 1,
                       !.buf = mixer.addr, !.wraddr = mixer.buf,
                       !.state = IF RowFull THEN "WAIT" ELSE "FETCH"]

\* A row RAM belongs to the mixer or to the video output.
WrittenRam == IF swapped THEN 1 ELSE 2

RamClock(i) ==
  LET addr == IF i = WrittenRam THEN mixer.wraddr ELSE hdmi.rdaddr
  IN [cells |-> WriteClock(rr[i].cells, i = WrittenRam /\ mixer.state = "FETCH", addr, wrdata),
      port |-> ReadClock(rr[i].port, rr[i].cells[addr])]

prep == disp /\ rowram_swap

\* The pulse of the pixel clock is seen twice.
NextSwapped == IF prep /\ ~ignore_swap THEN ~swapped ELSE swapped

PpuClock ==
  /\ disp' = IF vblank_end_soon THEN TRUE ELSE IF vblank_start THEN FALSE ELSE disp
  /\ swapped' = NextSwapped
  /\ ignore_swap' = IF prep THEN ~ignore_swap ELSE ignore_swap
  /\ rr' = [i \in {1, 2} |-> RamClock(i)]
  /\ IF prep /\ engine = 0
     THEN engine' = EngineTime /\ row' = NextRow
     ELSE engine' = (IF engine = 0 THEN 0 ELSE engine - 1) /\ UNCHANGED row
  /\ rec' = (mixer.state = "WAIT" /\ (rec \/ engine = 1))
  /\ mixer' = Mix
  /\ tile' = ReadClock(tile, mixer.addr)
  /\ col' = mixer.addr
  /\ palram' = ReadClock(palram, hdmi.color)

Next ==
  /\ PpuClock
  /\ edge' = ~edge
  /\ IF edge THEN PixelClock ELSE UNCHANGED <<h, v, hdmi>>
  /\ UNCHANGED sprites

Spec == Init /\ [][Next]_vars

----------------------------------------------------------------------------
(***************************************************************************)
(* What ppu.h and the mixer promise: the layers lie over each other, with  *)
(* a sprite behind the background, between the two, or in front.           *)
(***************************************************************************)
Height(src, prio) ==
  CASE src = "bg" -> 1 [] src = "fg" -> 3
    [] src = "spr" -> CASE prio = 0 -> 0 [] prio = 1 -> 2 [] OTHER -> 4

\* The pixel on top at column c, with the sprite layer's column sc.
OnTop(r, c, sc) ==
  LET opaque == {s \in {"bg", "fg", "spr"} :
                   CASE s = "bg" -> BgOpaque(c) [] s = "fg" -> FgOpaque(c)
                     [] s = "spr" -> sprites /\ SprOpaque(sc)}
      top == CHOOSE s \in opaque :
               \A t \in opaque : Height(t, SprPrio(sc)) <= Height(s, SprPrio(sc))
  IN IF opaque = {} THEN NoPixel
     ELSE [src |-> top, row |-> r, col |-> IF top = "spr" THEN sc ELSE c]

ShownColumn == (h - (h_sync + h_backporch)) \div 2
ShownRow == (v - v_start) \div 2

TypeOK ==
  /\ h \in 0 .. h_total - 1 /\ v \in 0 .. v_total - 1
  /\ hdmi.rdaddr \in Column /\ mixer.addr \in Column /\ mixer.wraddr \in Column
  /\ engine \in 0 .. EngineTime /\ row \in 0 .. (v_visible \div 2) - 1

(***************************************************************************)
(* Every visible pixel of the tile layers shows the column and the row     *)
(* that belong there, of the layer on top: each row on two lines and each  *)
(* column on two pixels, from the first frame after reset on, whatever row *)
(* the mixer is writing meanwhile.                                         *)
(***************************************************************************)
PictureIsRight ==
  vga_de /\ ~sprites => hdmi.rgb = OnTop(ShownRow, ShownColumn, ShownColumn)

(***************************************************************************)
(* With sprites, the layers lie over each other in the order of their      *)
(* priorities (pixel_priority.sv), in the row that belongs there and, for  *)
(* the tile layers, in the column.  Which of the neighbouring columns the  *)
(* sprite pixel is taken from is left to SpritesInTheirColumn.             *)
(***************************************************************************)
LayersInOrder ==
  vga_de /\ sprites =>
    \E sc \in Column \cap (ShownColumn - 1 .. ShownColumn + 1) :
      hdmi.rgb = OnTop(ShownRow, ShownColumn, sc)

(***************************************************************************)
(* "x coordinate relative to top-left of screen for sprite" (ppu.h): what  *)
(* is shown in a column are the tile layers and the sprite of this column. *)
(* pixel_mixer.sv has every engine answer after the same number of clocks, *)
(* but the tile buffers take two and the sprite engine one.                *)
(***************************************************************************)
SpritesInTheirColumn ==
  vga_de /\ sprites => hdmi.rgb = OnTop(ShownRow, ShownColumn, ShownColumn)

(***************************************************************************)
(* The row RAMs are only swapped when the mixer has filled its one, and    *)
(* the engines are idle: no row is cut short.                              *)
(***************************************************************************)
SwapFindsRowDone ==
  [][swapped' # swapped => engine = 0 /\ ~rec /\ mixer.state = "WAIT"]_vars
=============================================================================
