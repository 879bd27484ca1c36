---------------------------- MODULE MCPpuLibrary -----------------------------
(***************************************************************************)
(* Programs for PpuLibrary: calls with the arguments that matter, at the   *)
(* corners and over the edges of each section of VRAM.                     *)
(***************************************************************************)
EXTENDS PpuLibrary, TLC

CONSTANTS t1, t2

Threads == {t1, t2}

ATile(a, p, m) == [pattern_addr |-> a, palette_id |-> p, mirror |-> m]
ThreeTiles == <<ATile(1023, 15, 3), ATile(0, 1, 0), ATile(513, 0, 2)>>
Row(fn, tiles, layer, x, y, count) ==
  [fn |-> fn, tiles |-> tiles, layer |-> layer, x |-> x, y |-> y, count |-> count]

\* A 2 x 2 pattern at a place of Pattern RAM; no two rows of pixels are equal.
Pattern(k, w, h, addr) ==
  [fn |-> "pattern", width |-> w, height |-> h, pattern_addr |-> addr,
   pattern |-> [i \in 1 .. w * h |-> [r \in 1 .. 8 |-> 65536 * k + 16 * i + r]]]

Palette(layer, id) ==
  [fn |-> "palette", layer |-> layer, palette_id |-> id,
   color |-> [i \in 1 .. 15 |-> 65536 * id + 256 * layer + i]]

Sprite(addr, x, y, mirror, prio, w, h) ==
  [pattern_addr |-> addr, palette_id |-> 31, x |-> x, y |-> y, mirror |-> mirror,
   prio |-> prio, width |-> w, height |-> h]

Sprites(s, id) == [fn |-> "sprites", sprites |-> s, sprite_id |-> id]

Update == [fn |-> "update"]

\* Tiles: along, over the edge, repeated, more than a row, down, and refused.
TileCalls ==
  t1 :> {Row("horizontal", ThreeTiles, LAYER_BG, 62, 63, 5),
         Row("horizontal", ThreeTiles, LAYER_FG, 0, 0, 70),
         Row("horizontal", <<ATile(5, 0, 0)>>, LAYER_BG, 0, 0, 2),
         Row("horizontal", ThreeTiles, LAYER_BG, 64, 0, 1),
         Row("horizontal", <<>>, LAYER_BG, 0, 0, 1),
         Row("vertical", ThreeTiles, LAYER_BG, 63, 62, 4),
         Row("vertical", ThreeTiles, LAYER_FG, 1, 63, 2),
         Update}

\* Patterns round the corner of Pattern RAM, palettes at the ends of their
\* sections and past them, sprites, settings.
SpriteCalls ==
  t1 :> {Pattern(1, 2, 2, 511), Pattern(2, 3, 1, 30),
         Palette(LAYER_BG, 15), Palette(LAYER_BG, 16), Palette(LAYER_SPR, 31),
         Sprites(<<Sprite(511, 511, 200, 2, 2, 2, 2)>>, 63),
         Sprites(<<Sprite(511, 0, 255, 1, 1, 2, 2)>>, 0)}

SettingCalls ==
  t1 :> {[fn |-> "bgcolor", color |-> 2 ^ 25 + 5],
         [fn |-> "scroll", layer |-> LAYER_FG, scroll_x |-> 511, scroll_y |-> 510],
         [fn |-> "scroll", layer |-> LAYER_BG, scroll_x |-> 1, scroll_y |-> 2],
         [fn |-> "scroll", layer |-> LAYER_SPR, scroll_x |-> 1, scroll_y |-> 2],
         [fn |-> "enable", mask |-> 15],
         [fn |-> "vram", offset |-> VRAM_SIZE - 2, bytes |-> <<1, 2>>],
         [fn |-> "vram", offset |-> VRAM_SIZE - 1, bytes |-> <<3, 4>>],
         Palette(LAYER_FG, 0), Palette(LAYER_BG, 15),
         Update}

\* Two sprites in one call.
TwoSprites == t1 :> {Sprites(<<Sprite(1, 0, 0, 0, 2, 1, 1), Sprite(2, 8, 0, 3, 2, 4, 4)>>, 4), Update}

\* Two threads, each with an area of its own.
SharedCalls ==
  t1 :> {Row("horizontal", ThreeTiles, LAYER_BG, 62, 0, 3),
         Sprites(<<Sprite(3, 9, 9, 1, 1, 2, 1)>>, 7)}
  @@ t2 :> {Row("vertical", ThreeTiles, LAYER_BG, 0, 62, 2), Update}

\* A program that polls and programs that give up.
FourPrograms ==
  {[calls |-> TileCalls, polls |-> TRUE], [calls |-> SpriteCalls, polls |-> FALSE],
   [calls |-> SettingCalls, polls |-> FALSE], [calls |-> SharedCalls, polls |-> FALSE]}

\* They draw as the theorems about the picture ask.
ASSUME ProgramsAreOrderly == \A p \in FourPrograms : Orderly(p)

\* A program that writes two sprites in one call.
SpriteProgram == {[calls |-> TwoSprites, polls |-> TRUE]}
=============================================================================
