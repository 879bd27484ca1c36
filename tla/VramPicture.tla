----------------------------- MODULE VramPicture -----------------------------
(***************************************************************************)
(* What a program draws and what the PPU reads.                            *)
(*                                                                         *)
(* A location is a place of the picture as ppu.h names it: a tile of a     *)
(* layer, a row of a pattern, a colour of a palette, a sprite, or a        *)
(* register.  Drawn(c) is what call c promises to put there.  Reads is     *)
(* what the PPU finds there, decoded as ppu_logic decodes it, and Bytes    *)
(* the addresses it looks at.                                              *)
(***************************************************************************)
EXTENDS VramLayout

TileAt(layer, x, y)          == <<"tile", layer, x, y>>
PatternRowAt(x, y, row)      == <<"pattern", x, y, row>>
ColorAt(layer, palette, i)   == <<"color", layer, palette, i>>
SpriteAt(id)                 == <<"sprite", id>>
ByteOf(addr)                 == <<"byte", addr>>
Setting(reg)                 == <<"reg", reg>>

----------------------------------------------------------------------------
(* The hardware.                                                           *)

\* tilram_addr = {FG, tilerow, chunk of 4 tiles}, in words of 64 bits.
TileByte(layer, x, y) ==
  8 * (1024 * (IF layer = LAYER_FG THEN 1 ELSE 0) + 16 * y + (x \div 4)) + 2 * (x % 4)

TileDecode(h) ==
  [pattern_addr |-> h \div 64, palette_id |-> (h \div 4) % 16, mirror |-> h % 4]

\* patram_addr = {tile_y, tile_x, row of the pattern}, in words of 32 bits.
PatternByte(x, y, row) == VRAM_PATTERNOFFSET + 4 * (256 * y + 8 * x + row)

\* The mixer's pixel {source, palette, color}, in words of 32 bits.
ColorByte(layer, palette, i) ==
  VRAM_PALETTEOFFSET + 4 * (16 * (palette % (IF layer = LAYER_SPR THEN 32 ELSE 16)) + i +
    CASE layer = LAYER_SPR -> 512
      [] layer = LAYER_FG  -> 256
      [] OTHER             -> 0)

\* {oam_main_data, oam_ext_data}: sprite_conf_t.
OamMainByte(id) == VRAM_SPRITESOFFSET + 4 * id
OamExtByte(id) == VRAM_SPRITESOFFSET + 4 * SPRITE_MAXCOUNT + id

SpriteDecode(w, e) ==
  [pattern_addr |-> w \div 4194304, palette_id |-> (w \div 131072) % 32,
   y |-> (w \div 512) % 256, x |-> w % 512,
   mirror |-> e \div 64, height |-> ((e \div 16) % 4) + 1, width |-> ((e \div 4) % 4) + 1,
   prio |-> e % 4]

ScrollDecode(v) == <<v % 512, (v \div 65536) % 512>>

Bytes(loc) ==
  CASE loc[1] = "tile"    -> LET a == TileByte(loc[2], loc[3], loc[4]) IN a .. a + 1
    [] loc[1] = "pattern" -> LET a == PatternByte(loc[2], loc[3], loc[4]) IN a .. a + 3
    [] loc[1] = "color"   -> LET a == ColorByte(loc[2], loc[3], loc[4]) IN a .. a + 3
    [] loc[1] = "sprite"  -> (OamMainByte(loc[2]) .. OamMainByte(loc[2]) + 3)
                               \cup {OamExtByte(loc[2])}
    [] loc[1] = "byte"    -> {loc[2]}
    [] loc[1] = "reg"     -> {}

Reads(vram, ctrl, loc) ==
  CASE loc[1] = "tile"    -> TileDecode(HalfAt(vram, TileByte(loc[2], loc[3], loc[4])))
    [] loc[1] = "pattern" -> WordAt(vram, PatternByte(loc[2], loc[3], loc[4]))
    [] loc[1] = "color"   -> Rgb(WordAt(vram, ColorByte(loc[2], loc[3], loc[4])))
    [] loc[1] = "sprite"  -> SpriteDecode(WordAt(vram, OamMainByte(loc[2])),
                                          ByteAt(vram, OamExtByte(loc[2])))
    [] loc[1] = "byte"    -> ByteAt(vram, loc[2])
    [] loc[1] = "reg"     -> IF loc[2] \in {"bgscroll", "fgscroll"}
                             THEN ScrollDecode(ctrl[loc[2]]) ELSE ctrl[loc[2]]

\* sprite_addr_gen: the row of pixels for tile column index of sprite s in screen row.
SpriteAddr(s, index, row) ==
  LET row_offset == row - s.y
      row_index == IF s.mirror >= 2 THEN 8 * s.height - 1 - row_offset ELSE row_offset
  IN PatternByte(((s.pattern_addr % 32) + index) % 32,
                 ((s.pattern_addr \div 32) + (row_index \div 8)) % 32,
                 row_index % 8)

----------------------------------------------------------------------------
(* What ppu.h promises.                                                    *)

\* The k-th of a sequence that is repeated as often as needed.
Cyclic(s, k) == s[(k % Len(s)) + 1]

Only(loc, v) == [l \in {loc} |-> v]

Drawn(c) ==
  CASE c.fn = "horizontal" ->
         [loc \in {TileAt(c.layer, (c.x + k) % TILELAYER_WIDTH, c.y) :
                     k \in 0 .. unsigned_min(c.count, TILELAYER_WIDTH) - 1} |->
            Cyclic(SubSeq(c.tiles, 1, unsigned_min(Len(c.tiles), TILELAYER_WIDTH)),
                   (loc[3] - c.x + TILELAYER_WIDTH) % TILELAYER_WIDTH)]
    [] c.fn = "vertical" ->
         [loc \in {TileAt(c.layer, c.x, (c.y + k) % TILELAYER_HEIGHT) :
                     k \in 0 .. unsigned_min(c.count, TILELAYER_HEIGHT) - 1} |->
            Cyclic(SubSeq(c.tiles, 1, unsigned_min(Len(c.tiles), TILELAYER_HEIGHT)),
                   (loc[4] - c.y + TILELAYER_HEIGHT) % TILELAYER_HEIGHT)]
    [] c.fn = "pattern" ->
         LET x == c.pattern_addr % 32
             y == c.pattern_addr \div 32
         IN [loc \in {PatternRowAt((x + col) % 32, (y + row) % 32, r) :
                        col \in 0 .. c.width - 1, row \in 0 .. c.height - 1, r \in 0 .. 7} |->
               c.pattern[((loc[3] - y + 32) % 32) * c.width + ((loc[2] - x + 32) % 32) + 1][loc[4] + 1]]
    [] c.fn = "palette" ->
         [loc \in {ColorAt(c.layer, c.palette_id, i) : i \in 1 .. 15} |-> Rgb(c.color[loc[4]])]
    [] c.fn = "sprites" ->
         [loc \in {SpriteAt(c.sprite_id + i - 1) : i \in DOMAIN c.sprites} |->
            c.sprites[loc[2] - c.sprite_id + 1]]
    [] c.fn = "vram" ->
         [loc \in {ByteOf(c.offset + i - 1) : i \in DOMAIN c.bytes} |->
            c.bytes[loc[2] - c.offset + 1]]
    [] c.fn = "bgcolor" -> Only(Setting("bgcolor"), Rgb(c.color))
    [] c.fn = "scroll" ->
         Only(Setting(IF c.layer = LAYER_FG THEN "fgscroll" ELSE "bgscroll"), <<c.scroll_x, c.scroll_y>>)
    [] c.fn = "enable" -> Only(Setting("enable"), c.mask % 8)
    [] c.fn = "update" -> <<>>
=============================================================================
