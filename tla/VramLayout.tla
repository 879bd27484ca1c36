----------------------------- MODULE VramLayout -----------------------------
(***************************************************************************)
(* The layout of VRAM, from both of its sides.                             *)
(*                                                                         *)
(* Library/src/ppu.c turns a call such as ppu_write_tiles_horizontal into  *)
(* requests to the driver: writes of bytes at an address, and ioctls.  The *)
(* PPU reads tiles, patterns, colours and sprites from what was written.   *)
(* Both sides are translated here; nothing but the code of the two makes   *)
(* them agree.                                                             *)
(*                                                                         *)
(* VRAM is a partial function from addresses to bytes: where nothing has   *)
(* been written since ppu_open it holds 0.                                 *)
(***************************************************************************)
EXTENDS Integers, Sequences

----------------------------------------------------------------------------
(* The constants of ppu.h. *)

TILELAYER_MAX_PALETTES == 16
SPRLAYER_MAX_PALETTES == 32
TILELAYER_WIDTH == 64
TILELAYER_HEIGHT == 64
TILEPATTERN_BSIZE == 32
TILEPATTERN_HEIGHT == 8
TILERAM_FGOFFSET == 8192
VRAM_PATTERNOFFSET == 16384
VRAM_PALETTEOFFSET == 49152
VRAM_SPRITESOFFSET == 53248
PALETTERAM_BGOFFSET == 0
PALETTERAM_FGOFFSET == 1024
PALETTERAM_SPROFFSET == 2048
SPRRAM_EXTRAOFFSET == 256
VRAM_SIZE == 53568

LAYER_BG == 1
LAYER_FG == 2
LAYER_SPR == 4

(* Those of ppu.c. *)

PATTERN_MAXADDR == 1023
SPRITE_MAXCOUNT == 64
TILEDATA_BSIZE == 2
PALETTE16_BSIZE == 64
SPRITE_BSIZE == 4

unsigned_min(a, b) == IF a < b THEN a ELSE b

----------------------------------------------------------------------------
(* Bytes in memory; the HPS is little-endian. *)

\* Byte b of a word of at most four, counted from 0.
ByteIn(word, b) == (word \div <<1, 256, 65536, 16777216>>[b + 1]) % 256

\* Words of n bytes each, as they lie in memory.
Packed(words, n) ==
  [k \in 1 .. n * Len(words) |-> ByteIn(words[((k - 1) \div n) + 1], (k - 1) % n)]

ByteAt(vram, a) == IF a \in DOMAIN vram THEN vram[a] ELSE 0
HalfAt(vram, a) == ByteAt(vram, a) + 256 * ByteAt(vram, a + 1)
WordAt(vram, a) == HalfAt(vram, a) + 65536 * HalfAt(vram, a + 2)

\* Requests to the driver.
Pwrite(addr, bytes) == [op |-> "pwrite", addr |-> addr, bytes |-> bytes]
IoctlSet(reg, param) == [op |-> "set", reg |-> reg, param |-> param]
IoctlUpdate == [op |-> "update"]

\* f, and g where f says nothing.
Overlay(f, g) ==
  [x \in DOMAIN f \cup DOMAIN g |-> IF x \in DOMAIN f THEN f[x] ELSE g[x]]

\* What a pwrite stores.
Stored(req) ==
  [a \in req.addr .. req.addr + Len(req.bytes) - 1 |-> req.bytes[a - req.addr + 1]]

----------------------------------------------------------------------------
(* Writing tiles.                                                          *)

ppu_pattern_addr(x, y) == 32 * y + x

\* A tile is a record [pattern_addr, palette_id, mirror].
ppu_make_tile(t) == 64 * t.pattern_addr + 4 * t.palette_id + t.mirror

AcceptsTile(t) ==
  /\ t.pattern_addr <= PATTERN_MAXADDR
  /\ t.palette_id < TILELAYER_MAX_PALETTES
  /\ t.mirror <= 3

\* The buffer of tiles to write, repeated if there are fewer than count.
WriteTiles(c) ==
  LET len == unsigned_min(Len(c.tiles), TILELAYER_WIDTH)
  IN [i \in 1 .. unsigned_min(c.count, TILELAYER_WIDTH) |->
        ppu_make_tile(c.tiles[((i - 1) % len) + 1])]

TileLayerOffset(layer) == IF layer = LAYER_FG THEN TILERAM_FGOFFSET ELSE 0

AcceptsHorizontal(c) ==
  /\ c.x < TILELAYER_WIDTH /\ c.y < TILELAYER_HEIGHT
  /\ c.layer \in {LAYER_BG, LAYER_FG}

HorizontalNoWrap(c) ==
  LET tiles == WriteTiles(c)
      row == TileLayerOffset(c.layer) + c.y * TILELAYER_HEIGHT * TILEDATA_BSIZE
  IN IF c.count = 0 \/ c.tiles = <<>> THEN <<>>
     ELSE <<Pwrite(row + c.x * TILEDATA_BSIZE, Packed(tiles, TILEDATA_BSIZE))>>

\* One write to the end of the row, and one more from its start if tiles are left.
ppu_write_tiles_horizontal(c) ==
  LET tiles == WriteTiles(c)
      row == TileLayerOffset(c.layer) + c.y * TILELAYER_HEIGHT * TILEDATA_BSIZE
      towrite == unsigned_min(TILELAYER_WIDTH - c.x, Len(tiles))
      Part(from, to, addr) ==
        Pwrite(addr, Packed(SubSeq(tiles, from, to), TILEDATA_BSIZE))
  IN IF c.count = 0 \/ c.tiles = <<>> THEN <<>>
     ELSE IF towrite = Len(tiles)
     THEN <<Part(1, towrite, row + c.x * TILEDATA_BSIZE)>>
     ELSE <<Part(1, towrite, row + c.x * TILEDATA_BSIZE),
            Part(towrite + 1, Len(tiles), row)>>

AcceptsVertical(c) == c.x < TILELAYER_WIDTH /\ c.y < TILELAYER_HEIGHT

\* A column is written tile by tile.
ppu_write_tiles_vertical(c) ==
  LET tiles == WriteTiles(c)
      column == TileLayerOffset(c.layer) + c.x * TILEDATA_BSIZE
      towrite == unsigned_min(TILELAYER_HEIGHT - c.y, Len(tiles))
      Row(k) == IF k <= towrite THEN c.y + k - 1 ELSE k - 1 - towrite
  IN IF c.count = 0 \/ c.tiles = <<>> THEN <<>>
     ELSE [k \in 1 .. Len(tiles) |->
             Pwrite(column + Row(k) * TILELAYER_WIDTH * TILEDATA_BSIZE,
                    Packed(<<tiles[k]>>, TILEDATA_BSIZE))]

----------------------------------------------------------------------------
(* Writing patterns, palettes and sprites.                                 *)

AcceptsPattern(c) ==
  c.pattern_addr <= PATTERN_MAXADDR /\ c.width > 0 /\ c.height > 0

PatternNoWrap(c) ==
  [k \in 1 .. c.width * c.height |->
     LET addr == c.pattern_addr + ((k - 1) % c.width) + 32 * ((k - 1) \div c.width)
     IN Pwrite(VRAM_PATTERNOFFSET + TILEPATTERN_BSIZE * addr, Packed(c.pattern[k], 4))]

\* c.pattern is a sequence of tile patterns, each of 8 rows of pixels.
ppu_write_pattern(c) ==
  [k \in 1 .. c.width * c.height |->
     LET x_f == ((c.pattern_addr % 32) + ((k - 1) % c.width)) % 32
         y_f == ((c.pattern_addr \div 32) + ((k - 1) \div c.width)) % 32
         addr == ppu_pattern_addr(x_f, y_f)
     IN Pwrite(VRAM_PATTERNOFFSET + TILEPATTERN_BSIZE * addr, Packed(c.pattern[k], 4))]

AcceptsPalette(c) ==
  c.palette_id < IF c.layer = LAYER_SPR THEN SPRLAYER_MAX_PALETTES
                                       ELSE TILELAYER_MAX_PALETTES

PaletteLayerOffset(layer) ==
  CASE layer = LAYER_SPR -> PALETTERAM_SPROFFSET
    [] layer = LAYER_FG  -> PALETTERAM_FGOFFSET
    [] OTHER             -> PALETTERAM_BGOFFSET

PaletteFromFirst(c) ==
  <<Pwrite(VRAM_PALETTEOFFSET + PaletteLayerOffset(c.layer)
             + c.palette_id * PALETTE16_BSIZE,
           Packed(c.color, 4))>>

\* The 15 opaque colours; the first of the 16 is transparent.
ppu_write_palette(c) ==
  <<Pwrite(VRAM_PALETTEOFFSET + PaletteLayerOffset(c.layer)
             + c.palette_id * PALETTE16_BSIZE + 4,
           Packed(c.color, 4))>>

AcceptsSprite(s) ==
  /\ s.pattern_addr <= PATTERN_MAXADDR
  /\ s.palette_id < SPRLAYER_MAX_PALETTES
  /\ s.y <= 255 /\ s.x <= 511
  /\ s.mirror <= 3
  /\ s.height \in 1 .. 4 /\ s.width \in 1 .. 4
  /\ s.prio <= 2

AcceptsSprites(c) ==
  /\ c.sprite_id + Len(c.sprites) <= SPRITE_MAXCOUNT
  /\ \A i \in DOMAIN c.sprites : AcceptsSprite(c.sprites[i])

\* From bits 22, 17, 9 and 0 on.
SpriteWord(s) == 4194304 * s.pattern_addr + 131072 * s.palette_id + 512 * s.y + s.x
SpriteExtra(s) == s.mirror * 64 + (s.height - 1) * 16 + (s.width - 1) * 4 + s.prio

\* sprite_extra_buf is an array of words, of which the first len bytes are written.
ppu_write_sprites(c) ==
  LET words == [i \in DOMAIN c.sprites |-> SpriteWord(c.sprites[i])]
      extras == [i \in DOMAIN c.sprites |-> SpriteExtra(c.sprites[i])]
  IN <<Pwrite(VRAM_SPRITESOFFSET + c.sprite_id * SPRITE_BSIZE, Packed(words, 4)),
       Pwrite(VRAM_SPRITESOFFSET + SPRRAM_EXTRAOFFSET + c.sprite_id,
              SubSeq(Packed(extras, 4), 1, Len(extras)))>>

----------------------------------------------------------------------------
(* The other calls.                                                        *)

AcceptsVram(c) == c.offset + Len(c.bytes) <= VRAM_SIZE
ppu_write_vram(c) == <<Pwrite(c.offset, c.bytes)>>

\* The low 24 bits of a colour.
Rgb(color) == color % 16777216

ppu_set_bgcolor(c) == <<IoctlSet("bgcolor", Rgb(c.color))>>

AcceptsScroll(c) == c.layer # LAYER_SPR
ppu_set_scroll(c) ==
  <<IoctlSet(IF c.layer = LAYER_FG THEN "fgscroll" ELSE "bgscroll",
             65536 * c.scroll_y + c.scroll_x)>>

ppu_set_layer_enable(c) == <<IoctlSet("enable", c.mask % 8)>>

ppu_update == <<IoctlUpdate>>
=============================================================================
