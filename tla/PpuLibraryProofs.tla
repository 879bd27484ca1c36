-------------------------- MODULE PpuLibraryProofs ---------------------------
(***************************************************************************)
(* Proofs about PpuLibrary, for any programs, with any number of threads   *)
(* and any calls with any arguments: no call stores outside the places it  *)
(* names, and what the calls of an orderly program draw is what the PPU    *)
(* reads.  The last part is about PpuLoaders, for files and arguments of   *)
(* any size: what is loaded is what the file has.                          *)
(***************************************************************************)
EXTENDS PpuLibrary, PpuLoaders, SequenceTheorems, TLAPS

----------------------------------------------------------------------------
(* The requests of a call.                                                 *)

\* The addresses of what call c draws.
Places(c) == UNION {Bytes(loc) : loc \in DOMAIN Drawn(c)}

\* A write of len bytes that stays where the call draws, and within VRAM.
Within(c, addr, len) ==
  \A a \in addr .. addr + len - 1 : a \in Places(c) /\ a < VRAM_SIZE

Harmless(c, req) ==
  \/ /\ req.op = "pwrite" /\ req.addr \in Nat /\ Len(req.bytes) \in Nat
     /\ Within(c, req.addr, Len(req.bytes))
  \/ req.op \in {"set", "update"}

Sent(c) == {Requests(c)[i] : i \in DOMAIN Requests(c)}

\* Packed(words, n) has n bytes of each word.
LEMMA PackedLen ==
  ASSUME NEW words, NEW n \in {2, 4}, Len(words) \in Nat
  PROVE  Len(Packed(words, n)) = n * Len(words)
<1> DEFINE byte(k) == ByteIn(words[((k - 1) \div n) + 1], (k - 1) % n)
           size == n * Len(words)
<1>1. Packed(words, n) = [k \in 1 .. size |-> byte(k)]
  BY DEF Packed
<1>2. size \in Nat
  OBVIOUS
<1> HIDE DEF byte, size
<1>3. Len([k \in 1 .. size |-> byte(k)]) = size
  BY <1>2
<1> QED BY <1>1, <1>3 DEF size

\* A request that writes words of n bytes.
LEMMA PwriteIsHarmless ==
  ASSUME NEW c, NEW addr \in Nat, NEW bytes, Len(bytes) \in Nat, Within(c, addr, Len(bytes))
  PROVE  Harmless(c, Pwrite(addr, bytes))
BY DEF Harmless, Pwrite

\* How many tiles are written, in words of two bytes.
LEMMA TilesLen ==
  ASSUME NEW c, IsCall(c), c.fn \in {"horizontal", "vertical"}
  PROVE  /\ Len(WriteTiles(c)) = unsigned_min(c.count, 64)
         /\ unsigned_min(c.count, 64) \in 0 .. 64
<1> DEFINE len == unsigned_min(Len(c.tiles), TILELAYER_WIDTH)
           tile(i) == ppu_make_tile(c.tiles[((i - 1) % len) + 1])
           size == unsigned_min(c.count, 64)
<1>1. WriteTiles(c) = [i \in 1 .. size |-> tile(i)]
  BY DEF WriteTiles, TILELAYER_WIDTH
<1>2. size \in 0 .. 64
  <2>1. c.count \in Nat
    BY DEF IsCall
  <2> QED BY <2>1 DEF unsigned_min
<1> HIDE DEF tile, size
<1>3. Len([i \in 1 .. size |-> tile(i)]) = size
  BY <1>2
<1> QED BY <1>1, <1>2, <1>3 DEF size

\* Where a tile lies.
\* The places of a layer across or down, and the first byte of one of them.
Cell == 0 .. 63
TileStart(layer, x, y) == TileLayerOffset(layer) + 128 * y + 2 * x

\* tilram_addr and the offsets of ppu.c agree.
LEMMA TileByteIs ==
  ASSUME NEW layer, NEW x \in Cell, NEW y \in Cell
  PROVE  TileByte(layer, x, y) = TileStart(layer, x, y) /\ TileStart(layer, x, y) \in Nat
<1>1. x \in 0 .. 63 /\ y \in 0 .. 63
  BY DEF Cell
<1>2. CASE layer = LAYER_FG
  BY <1>1, <1>2 DEF TileByte, TileStart, TileLayerOffset, TILERAM_FGOFFSET
<1>3. CASE layer # LAYER_FG
  BY <1>1, <1>3 DEF TileByte, TileStart, TileLayerOffset, TILERAM_FGOFFSET
<1> QED BY <1>2, <1>3

\* What is to be shown of each call: that it sends a sequence of harmless requests.
Tame(c) == Requests(c) \in Seq(Sent(c)) /\ \A req \in Sent(c) : Harmless(c, req)

\* A call that sends nothing.
LEMMA NoneIsTame ==
  ASSUME NEW c, Requests(c) = <<>>
  PROVE  Tame(c)
BY DEF Tame, Sent

\* A call of one request.
LEMMA OneIsTame ==
  ASSUME NEW c, NEW req, Requests(c) = <<req>>, Harmless(c, req)
  PROVE  Tame(c)
<1>1. Sent(c) = {req}
  BY DEF Sent
<1> QED BY <1>1 DEF Tame

\* A call of two requests.
LEMMA TwoAreTame ==
  ASSUME NEW c, NEW first, NEW second, Requests(c) = <<first, second>>,
         Harmless(c, first), Harmless(c, second)
  PROVE  Tame(c)
<1>1. Sent(c) = {first, second}
  BY DEF Sent
<1> QED BY <1>1 DEF Tame

\* A call of n requests.
LEMMA ManyAreTame ==
  ASSUME NEW c, NEW n \in Nat, Requests(c) = [k \in 1 .. n |-> Requests(c)[k]],
         \A k \in 1 .. n : Harmless(c, Requests(c)[k])
  PROVE  Tame(c)
<1>1. \A k \in 1 .. n : Requests(c)[k] \in Sent(c)
  BY DEF Sent
<1>2. [k \in 1 .. n |-> Requests(c)[k]] \in Seq(Sent(c))
  BY <1>1
<1>3. Sent(c) = {Requests(c)[k] : k \in 1 .. n}
  BY DEF Sent
<1> QED BY <1>2, <1>3 DEF Tame

\* A place that is drawn makes its bytes places of the call.
LEMMA BytesArePlaces ==
  ASSUME NEW c, NEW loc \in DOMAIN Drawn(c), NEW a \in Bytes(loc)
  PROVE  a \in Places(c)
BY DEF Places

\* The bytes of a place, layer by layer.
LEMMA BytesAre ==
  /\ \A layer, x, y : Bytes(TileAt(layer, x, y)) = TileByte(layer, x, y) .. TileByte(layer, x, y) + 1
  /\ \A x, y, row :
       Bytes(PatternRowAt(x, y, row)) = PatternByte(x, y, row) .. PatternByte(x, y, row) + 3
  /\ \A layer, palette, i :
       Bytes(ColorAt(layer, palette, i)) = ColorByte(layer, palette, i) .. ColorByte(layer, palette, i) + 3
  /\ \A id : Bytes(SpriteAt(id)) = (OamMainByte(id) .. OamMainByte(id) + 3) \cup {OamExtByte(id)}
  /\ \A addr : Bytes(ByteOf(addr)) = {addr}
<1>1. \A layer, x, y : Bytes(TileAt(layer, x, y)) = TileByte(layer, x, y) .. TileByte(layer, x, y) + 1
  BY DEF Bytes, TileAt
<1>2. \A x, y, row :
        Bytes(PatternRowAt(x, y, row)) = PatternByte(x, y, row) .. PatternByte(x, y, row) + 3
  BY DEF Bytes, PatternRowAt
<1>3. \A layer, palette, i :
        Bytes(ColorAt(layer, palette, i)) = ColorByte(layer, palette, i) .. ColorByte(layer, palette, i) + 3
  BY DEF Bytes, ColorAt
<1>4. \A id : Bytes(SpriteAt(id)) = (OamMainByte(id) .. OamMainByte(id) + 3) \cup {OamExtByte(id)}
  BY DEF Bytes, SpriteAt
<1>5. \A addr : Bytes(ByteOf(addr)) = {addr}
  BY DEF Bytes, ByteOf
<1> QED BY <1>1, <1>2, <1>3, <1>4, <1>5

\* A row or a column of tiles begins in its layer.
LEMMA HorizontalStarts ==
  ASSUME NEW c, IsCall(c), c.fn = "horizontal", Accepts(c)
  PROVE  c.x \in 0 .. 63 /\ c.y \in 0 .. 63
<1>1. c.x \in Nat /\ c.y \in Nat
  BY DEF IsCall
<1>2. AcceptsHorizontal(c)
  BY DEF Accepts
<1>3. c.x < 64 /\ c.y < 64
  BY <1>2 DEF AcceptsHorizontal, TILELAYER_WIDTH, TILELAYER_HEIGHT
<1> QED BY <1>1, <1>3

\* The same for a column.
LEMMA VerticalStarts ==
  ASSUME NEW c, IsCall(c), c.fn = "vertical", Accepts(c)
  PROVE  c.x \in 0 .. 63 /\ c.y \in 0 .. 63
<1>1. c.x \in Nat /\ c.y \in Nat
  BY DEF IsCall
<1>2. AcceptsVertical(c)
  BY DEF Accepts
<1>3. c.x < 64 /\ c.y < 64
  BY <1>2 DEF AcceptsVertical, TILELAYER_WIDTH, TILELAYER_HEIGHT
<1> QED BY <1>1, <1>3

\* The k-th tile of a row, and where it lies.
LEMMA HorizontalPlaces ==
  ASSUME NEW c, IsCall(c), c.fn = "horizontal", Accepts(c),
         NEW k \in 0 .. unsigned_min(c.count, 64) - 1, NEW b \in 0 .. 1
  PROVE  TileLayerOffset(c.layer) + 128 * c.y + 2 * ((c.x + k) % 64) + b \in Places(c)
<1> DEFINE loc == TileAt(c.layer, (c.x + k) % 64, c.y)
           places == {TileAt(c.layer, (c.x + j) % TILELAYER_WIDTH, c.y) :
                        j \in 0 .. unsigned_min(c.count, TILELAYER_WIDTH) - 1}
           tile(l) == Cyclic(SubSeq(c.tiles, 1, unsigned_min(Len(c.tiles), TILELAYER_WIDTH)),
                             (l[3] - c.x + TILELAYER_WIDTH) % TILELAYER_WIDTH)
<1>1. Drawn(c) = [l \in places |-> tile(l)]
  BY DEF Drawn
<1>2. loc \in places
  BY DEF TILELAYER_WIDTH
<1> HIDE DEF places, tile
<1>3. loc \in DOMAIN Drawn(c)
  BY <1>1, <1>2
<1>4. c.x \in 0 .. 63 /\ c.y \in 0 .. 63
  BY HorizontalStarts
<1>5. unsigned_min(c.count, 64) \in 0 .. 64
  BY TilesLen
<1>6. (c.x + k) % 64 \in 0 .. 63
  BY <1>4, <1>5
<1>7. TileByte(c.layer, (c.x + k) % 64, c.y) = TileStart(c.layer, (c.x + k) % 64, c.y)
      /\ TileStart(c.layer, (c.x + k) % 64, c.y) \in Nat
  <2>1. (c.x + k) % 64 \in Cell /\ c.y \in Cell
    BY <1>4, <1>6 DEF Cell
  <2> QED BY <2>1, TileByteIs, Zenon
<1>9. TileLayerOffset(c.layer) + 128 * c.y + 2 * ((c.x + k) % 64) + b \in Bytes(loc)
  <2> DEFINE at == TileByte(c.layer, (c.x + k) % 64, c.y)
  <2>1. Bytes(loc) = at .. at + 1
    BY BytesAre
  <2>2. at \in Nat
    BY <1>7
  <2>3. at + b \in at .. at + 1
    BY <2>2
  <2> HIDE DEF at, loc
  <2>4. at + b \in Bytes(loc)
    BY <2>1, <2>3
  <2> QED BY <1>7, <2>4 DEF at, TileStart
<1> HIDE DEF loc
<1> QED BY <1>3, <1>9, BytesArePlaces

\* The bytes of a part of the tiles.
LEMMA PartLen ==
  ASSUME NEW tiles, NEW from \in Nat, NEW to \in Nat, from <= to + 1, NEW n \in {2, 4}
  PROVE  Len(Packed(SubSeq(tiles, from, to), n)) = n * (to - from + 1)
<1> DEFINE S == {tiles[i] : i \in from .. to}
<1>1. \A i \in from .. to : tiles[i] \in S
  OBVIOUS
<1>2. from \in Int /\ to \in Int
  OBVIOUS
<1> HIDE DEF S
<1>3. Len(SubSeq(tiles, from, to)) = to - from + 1
  <2>1. Len(SubSeq(tiles, from, to)) = IF from <= to THEN to - from + 1 ELSE 0
    BY <1>1, <1>2, SubSeqProperties
  <2> QED BY <2>1
<1>4. Len(SubSeq(tiles, from, to)) \in Nat
  BY <1>3
<1> QED BY <1>3, <1>4, PackedLen

\* Arithmetic of a row of 64 tiles of two bytes: up to its end, and from its start.
InRow(row, x, n, a) ==
  a < 53568 /\ \E k \in 0 .. n - 1, b \in 0 .. 1 : row + 2 * ((x + k) % 64) + b = a

\* The first m tiles of a row, from column first to the edge of the layer at most.
LEMMA ToTheEnd ==
  ASSUME NEW base \in Nat, NEW first \in Nat, NEW m \in Nat,
         base <= 16256, first + m <= 64,
         NEW a \in Nat, base + 2 * first <= a, a <= base + 2 * first + 2 * m - 1
  PROVE  InRow(base, first, m, a)
<1> DEFINE d == a - base - 2 * first
           k == d \div 2
           b == d % 2
<1>1. a \in Nat /\ a < 53568 /\ d \in 0 .. 2 * m - 1
  <2>1. a \in Int /\ base + 2 * first <= a /\ a <= base + 2 * first + 2 * m - 1
    OBVIOUS
  <2> QED BY <2>1
<1>2. k \in 0 .. m - 1 /\ b \in 0 .. 1 /\ d = 2 * k + b
  <2> HIDE DEF d
  <2> QED BY <1>1
<1>3. a = base + 2 * first + d
  OBVIOUS
<1> HIDE DEF d, k, b
<1>4. (first + k) % 64 = first + k
  BY <1>2
<1>5. base + 2 * (first + k) + b = a
  BY <1>2, <1>3
<1> QED BY <1>1, <1>2, <1>4, <1>5 DEF InRow

\* The tiles that are left when the edge is reached, from column 0 on.
LEMMA FromTheStart ==
  ASSUME NEW base \in Nat, NEW first \in Nat, NEW m \in Nat, NEW size \in Nat,
         base <= 16256, first + m = 64, m <= size, size <= 64,
         NEW a \in Nat, base <= a, a <= base + 2 * (size - m) - 1
  PROVE  InRow(base, first, size, a)
<1> DEFINE d == a - base
           j == d \div 2
           b == d % 2
<1>1. a \in Nat /\ a < 53568 /\ d \in 0 .. 2 * (size - m) - 1
  <2>1. a \in Int /\ base <= a /\ a <= base + 2 * (size - m) - 1
    OBVIOUS
  <2>2. base + 2 * (size - m) - 1 < 53568 /\ 0 <= base
    OBVIOUS
  <2> QED BY <2>1, <2>2
<1>2. j \in 0 .. size - m - 1 /\ b \in 0 .. 1 /\ d = 2 * j + b
  <2> HIDE DEF d
  <2> QED BY <1>1
<1>3. a = base + d
  OBVIOUS
<1> HIDE DEF d, j, b
<1>4. m + j \in 0 .. size - 1 /\ (first + (m + j)) % 64 = j
  BY <1>2
<1>5. base + 2 * j + b = a
  BY <1>2, <1>3
<1> QED BY <1>1, <1>2, <1>4, <1>5 DEF InRow

\* A row of tiles: how many are written, how many of them before the edge of the
\* layer, and where the row begins.
TileCount(c) == unsigned_min(c.count, 64)
BeforeEdge(c) == unsigned_min(64 - c.x, TileCount(c))
RowStart(c) == TileLayerOffset(c.layer) + 128 * c.y
TilePart(c, from, to, addr) == Pwrite(addr, Packed(SubSeq(WriteTiles(c), from, to), 2))

\* The numbers of a row.
LEMMA HorizontalNumbers ==
  ASSUME NEW c, IsCall(c), c.fn = "horizontal", Accepts(c)
  PROVE  /\ Len(WriteTiles(c)) = TileCount(c)
         /\ TileCount(c) \in Nat /\ TileCount(c) <= 64
         /\ BeforeEdge(c) \in Nat /\ BeforeEdge(c) <= TileCount(c)
         /\ c.x + BeforeEdge(c) <= 64
         /\ BeforeEdge(c) # TileCount(c) => c.x + BeforeEdge(c) = 64
<1> DEFINE x == c.x
           y == c.y
           n == TileCount(c)
           m == BeforeEdge(c)
<1>1. x \in 0 .. 63 /\ y \in 0 .. 63
  BY HorizontalStarts
<1>2. Len(WriteTiles(c)) = n /\ n \in 0 .. 64
  BY TilesLen DEF TileCount
<1>3. m = unsigned_min(64 - x, n)
  BY DEF BeforeEdge
<1> HIDE DEF x, y, n, m
<1>4. n \in Nat /\ n <= 64
  BY <1>2
<1>5. m \in Nat /\ m <= n /\ x + m <= 64 /\ (m # n => x + m = 64)
  BY <1>1, <1>2, <1>3 DEF unsigned_min
<1> QED BY <1>2, <1>4, <1>5, Zenon DEF x, n, m

\* Where a row begins, at most.
LEMMA RowStartIs ==
  ASSUME NEW c, IsCall(c), c.fn = "horizontal", Accepts(c)
  PROVE  RowStart(c) \in Nat /\ RowStart(c) <= 16256
<1> DEFINE off == TileLayerOffset(c.layer)
           y == c.y
<1>1. y \in 0 .. 63
  BY HorizontalStarts
<1>2. off \in {0, 8192}
  BY DEF TileLayerOffset, TILERAM_FGOFFSET
<1>3. RowStart(c) = off + 128 * y
  BY DEF RowStart
<1> HIDE DEF off, y
<1>4. 128 * y \in Nat /\ 128 * y <= 8064
  BY <1>1
<1> QED BY <1>2, <1>3, <1>4

\* ppu_write_tiles_horizontal: one write, or two if the row goes over the edge.
LEMMA HorizontalRequests ==
  ASSUME NEW c, IsCall(c), c.fn = "horizontal", Accepts(c)
  PROVE  Requests(c) =
           IF c.count = 0 \/ c.tiles = <<>> THEN <<>>
           ELSE IF BeforeEdge(c) = TileCount(c)
           THEN <<TilePart(c, 1, BeforeEdge(c), RowStart(c) + 2 * c.x)>>
           ELSE <<TilePart(c, 1, BeforeEdge(c), RowStart(c) + 2 * c.x),
                  TilePart(c, BeforeEdge(c) + 1, TileCount(c), RowStart(c))>>
<1> DEFINE tiles == WriteTiles(c)
           off == TileLayerOffset(c.layer)
           x == c.x
           n == TileCount(c)
           towrite == unsigned_min(64 - x, n)
           row == off + 128 * c.y
           Part(from, to, addr) == Pwrite(addr, Packed(SubSeq(tiles, from, to), 2))
<1>1. x \in 0 .. 63 /\ c.y \in 0 .. 63
  BY HorizontalStarts
<1>2. Len(tiles) = n
  BY TilesLen DEF TileCount
<1>3. off \in {0, 8192}
  BY DEF TileLayerOffset, TILERAM_FGOFFSET
<1>4. Requests(c) = ppu_write_tiles_horizontal(c)
  BY DEF Requests
<1>5. off + c.y * 64 * 2 = row /\ c.x * 2 = 2 * x
  BY <1>1, <1>3
<1> HIDE DEF n, tiles, row
<1>6. ppu_write_tiles_horizontal(c)
        = IF c.count = 0 \/ c.tiles = <<>> THEN <<>>
          ELSE IF towrite = n THEN <<Part(1, towrite, row + 2 * x)>>
          ELSE <<Part(1, towrite, row + 2 * x), Part(towrite + 1, n, row)>>
  BY <1>2, <1>5 DEF ppu_write_tiles_horizontal, tiles,
                    TILELAYER_WIDTH, TILELAYER_HEIGHT, TILEDATA_BSIZE
<1> HIDE DEF Part, towrite, off, x
<1>7. towrite = BeforeEdge(c) /\ row = RowStart(c) /\ n = TileCount(c) /\ x = c.x
  BY DEF towrite, row, n, x, off, BeforeEdge, RowStart
<1>8. \A from, to, addr : Part(from, to, addr) = TilePart(c, from, to, addr)
  BY DEF Part, TilePart, tiles
<1> QED BY <1>4, <1>6, <1>7, <1>8

\* Its writes stay in their row.
LEMMA HorizontalIsTame ==
  ASSUME NEW c, IsCall(c), c.fn = "horizontal", Accepts(c)
  PROVE  Tame(c)
<1> DEFINE tiles == WriteTiles(c)
           x == c.x
           n == TileCount(c)
           towrite == BeforeEdge(c)
           row == RowStart(c)
           Part(from, to, addr) == Pwrite(addr, Packed(SubSeq(tiles, from, to), 2))
<1>1. x \in 0 .. 63 /\ c.y \in 0 .. 63
  BY HorizontalStarts
<1>2. n \in Nat /\ n <= 64
  BY HorizontalNumbers, Zenon
<1>4. Requests(c) = IF c.count = 0 \/ c.tiles = <<>> THEN <<>>
                    ELSE IF towrite = n THEN <<Part(1, towrite, row + 2 * x)>>
                    ELSE <<Part(1, towrite, row + 2 * x), Part(towrite + 1, n, row)>>
  BY HorizontalRequests DEF TilePart
<1>5. \A k \in 0 .. n - 1, b \in 0 .. 1 : row + 2 * ((x + k) % 64) + b \in Places(c)
  BY HorizontalPlaces DEF TileCount, RowStart
<1>6. row \in Nat /\ row <= 16256
  BY RowStartIs
<1>7. /\ towrite \in Nat /\ towrite <= n /\ x + towrite <= 64
      /\ towrite # n => x + towrite = 64
  BY HorizontalNumbers, Zenon
<1> HIDE DEF n, tiles, row, x
<1> HIDE DEF towrite
<1>8. ASSUME NEW to \in 0 .. n, x + to <= 64
      PROVE  Harmless(c, Part(1, to, row + 2 * x))
  <2>1. to \in 0 .. 64 /\ to \in Nat /\ 2 * to \in Nat /\ row + 2 * x \in Nat
    BY <1>1, <1>2, <1>6
  <2>2. Len(Packed(SubSeq(tiles, 1, to), 2)) = 2 * to
    <3>1. Len(Packed(SubSeq(tiles, 1, to), 2)) = 2 * (to - 1 + 1)
      BY <2>1, PartLen
    <3> QED BY <2>1, <3>1
  <2>3. Within(c, row + 2 * x, 2 * to)
    <3> SUFFICES ASSUME NEW a \in row + 2 * x .. row + 2 * x + 2 * to - 1
                 PROVE  a \in Places(c) /\ a < 53568
      BY DEF Within, VRAM_SIZE
    <3>1. InRow(row, x, to, a)
      <4>1. x + to <= 64
        BY <1>8
      <4>2. a \in Nat /\ row + 2 * x <= a /\ a <= row + 2 * x + 2 * to - 1
        BY <2>1
      <4>3. row \in Nat /\ x \in Nat /\ row <= 16256
        BY <1>1, <1>6
      <4> QED BY <2>1, <4>1, <4>2, <4>3, ToTheEnd
    <3>2. PICK k \in 0 .. to - 1, b \in 0 .. 1 : row + 2 * ((x + k) % 64) + b = a
      BY <3>1 DEF InRow
    <3>3. k \in 0 .. n - 1
      BY <1>2, <2>1
    <3> QED BY <1>5, <3>1, <3>2, <3>3 DEF InRow
  <2> QED BY <2>1, <2>2, <2>3, PwriteIsHarmless
<1>9. ASSUME x + towrite = 64
      PROVE  Harmless(c, Part(towrite + 1, n, row))
  <2>1. /\ towrite + 1 \in Nat /\ n \in Nat /\ towrite + 1 <= n + 1
        /\ n - (towrite + 1) + 1 = n - towrite /\ 2 * (n - towrite) \in Nat /\ row \in Nat
    <3>1. towrite \in Int /\ n \in Int /\ row \in Nat /\ towrite >= 0 /\ towrite <= n
      BY <1>2, <1>6, <1>7
    <3> QED BY <3>1
  <2>2. Len(Packed(SubSeq(tiles, towrite + 1, n), 2)) = 2 * (n - towrite)
    <3>1. Len(Packed(SubSeq(tiles, towrite + 1, n), 2)) = 2 * (n - (towrite + 1) + 1)
      BY <2>1, PartLen
    <3> QED BY <2>1, <3>1
  <2>3. Within(c, row, 2 * (n - towrite))
    <3> SUFFICES ASSUME NEW a \in row .. row + 2 * (n - towrite) - 1
                 PROVE  a \in Places(c) /\ a < 53568
      BY DEF Within, VRAM_SIZE
    <3>1. InRow(row, x, n, a)
      <4>1. towrite \in Nat /\ towrite <= n
        BY <1>7
      <4>2. a \in Nat /\ row <= a /\ a <= row + 2 * (n - towrite) - 1
        BY <2>1
      <4>3. /\ row \in Nat /\ x \in Nat /\ towrite \in Nat /\ n \in Nat
            /\ row <= 16256 /\ n <= 64
        BY <1>1, <1>2, <1>6, <1>7
      <4> QED BY <1>9, <4>1, <4>2, <4>3, FromTheStart
    <3> QED BY <1>5, <3>1 DEF InRow
  <2> QED BY <2>1, <2>2, <2>3, PwriteIsHarmless
<1>10. CASE c.count = 0 \/ c.tiles = <<>>
  BY <1>4, <1>10, NoneIsTame
<1>11. CASE ~(c.count = 0 \/ c.tiles = <<>>) /\ towrite = n
  <2>1. towrite \in 0 .. n /\ x + towrite <= 64
    BY <1>2, <1>7
  <2>2. Harmless(c, Part(1, towrite, row + 2 * x))
    BY <1>8, <2>1
  <2> HIDE DEF Part
  <2>3. Requests(c) = <<Part(1, towrite, row + 2 * x)>>
    BY <1>4, <1>11
  <2> QED BY <2>2, <2>3, OneIsTame
<1>12. CASE ~(c.count = 0 \/ c.tiles = <<>>) /\ towrite # n
  <2>1. towrite \in 0 .. n /\ x + towrite = 64 /\ x + towrite <= 64
    BY <1>2, <1>7, <1>12
  <2>2. Harmless(c, Part(1, towrite, row + 2 * x)) /\ Harmless(c, Part(towrite + 1, n, row))
    BY <1>8, <1>9, <2>1
  <2> HIDE DEF Part
  <2>3. Requests(c) = <<Part(1, towrite, row + 2 * x), Part(towrite + 1, n, row)>>
    BY <1>4, <1>12
  <2> QED BY <2>2, <2>3, TwoAreTame
<1> QED BY <1>10, <1>11, <1>12

\* The k-th tile of a column, and where it lies.
LEMMA VerticalPlaces ==
  ASSUME NEW c, IsCall(c), c.fn = "vertical", Accepts(c),
         NEW k \in 0 .. unsigned_min(c.count, 64) - 1, NEW b \in 0 .. 1
  PROVE  TileLayerOffset(c.layer) + 128 * ((c.y + k) % 64) + 2 * c.x + b \in Places(c)
<1> DEFINE loc == TileAt(c.layer, c.x, (c.y + k) % 64)
           places == {TileAt(c.layer, c.x, (c.y + j) % TILELAYER_HEIGHT) :
                        j \in 0 .. unsigned_min(c.count, TILELAYER_HEIGHT) - 1}
           tile(l) == Cyclic(SubSeq(c.tiles, 1, unsigned_min(Len(c.tiles), TILELAYER_HEIGHT)),
                             (l[4] - c.y + TILELAYER_HEIGHT) % TILELAYER_HEIGHT)
<1>1. Drawn(c) = [l \in places |-> tile(l)]
  BY DEF Drawn
<1>2. loc \in places
  BY DEF TILELAYER_HEIGHT
<1> HIDE DEF places, tile
<1>3. loc \in DOMAIN Drawn(c)
  BY <1>1, <1>2
<1>4. c.x \in 0 .. 63 /\ c.y \in 0 .. 63
  BY VerticalStarts
<1>5. unsigned_min(c.count, 64) \in 0 .. 64
  BY TilesLen
<1>6. (c.y + k) % 64 \in 0 .. 63
  BY <1>4, <1>5
<1>7. TileByte(c.layer, c.x, (c.y + k) % 64) = TileStart(c.layer, c.x, (c.y + k) % 64)
      /\ TileStart(c.layer, c.x, (c.y + k) % 64) \in Nat
  <2>1. (c.y + k) % 64 \in Cell /\ c.x \in Cell
    BY <1>4, <1>6 DEF Cell
  <2> QED BY <2>1, TileByteIs, Zenon
<1>9. TileLayerOffset(c.layer) + 128 * ((c.y + k) % 64) + 2 * c.x + b \in Bytes(loc)
  <2> DEFINE at == TileByte(c.layer, c.x, (c.y + k) % 64)
  <2>1. Bytes(loc) = at .. at + 1
    BY BytesAre
  <2>2. at \in Nat
    BY <1>7
  <2>3. at + b \in at .. at + 1
    BY <2>2
  <2> HIDE DEF at, loc
  <2>4. at + b \in Bytes(loc)
    BY <2>1, <2>3
  <2> QED BY <1>7, <2>4 DEF at, TileStart
<1> HIDE DEF loc
<1> QED BY <1>3, <1>9, BytesArePlaces

\* The line of the k-th tile of a column, and where it lies.
LineOfTile(c, k) == (c.y + (k - 1)) % 64
ColumnStart(c) == TileLayerOffset(c.layer) + 2 * c.x
TileWrite(c, k) ==
  Pwrite(ColumnStart(c) + 128 * LineOfTile(c, k), Packed(<<WriteTiles(c)[k]>>, 2))

\* The numbers of a column.
LEMMA VerticalNumbers ==
  ASSUME NEW c, IsCall(c), c.fn = "vertical", Accepts(c)
  PROVE  /\ Len(WriteTiles(c)) = TileCount(c)
         /\ TileCount(c) \in Nat /\ TileCount(c) <= 64
         /\ \A k \in 1 .. TileCount(c) : LineOfTile(c, k) \in Nat /\ LineOfTile(c, k) <= 63
<1> DEFINE y == c.y
           n == TileCount(c)
           line(k) == LineOfTile(c, k)
<1>1. y \in 0 .. 63
  BY VerticalStarts
<1>2. Len(WriteTiles(c)) = n /\ n \in 0 .. 64
  BY TilesLen DEF TileCount
<1>3. \A k : line(k) = (y + (k - 1)) % 64
  BY DEF LineOfTile
<1> HIDE DEF y, n, line
<1>4. ASSUME NEW k \in 1 .. n
      PROVE  line(k) \in Nat /\ line(k) <= 63
  <2> DEFINE d == k - 1
  <2>1. y \in Nat /\ d \in Nat
    BY <1>1, <1>2
  <2> HIDE DEF d
  <2>2. (y + d) % 64 \in Nat /\ (y + d) % 64 <= 63
    BY <2>1
  <2> QED BY <1>3, <2>2 DEF d
<1>5. n \in Nat /\ n <= 64
  BY <1>2
<1> QED BY <1>2, <1>4, <1>5, Zenon DEF n, line

\* Where a column begins, at most.
LEMMA ColumnStartIs ==
  ASSUME NEW c, IsCall(c), c.fn = "vertical", Accepts(c)
  PROVE  ColumnStart(c) \in Nat /\ ColumnStart(c) <= 8318
<1>1. c.x \in 0 .. 63
  BY VerticalStarts
<1>2. TileLayerOffset(c.layer) \in {0, 8192}
  BY DEF TileLayerOffset, TILERAM_FGOFFSET
<1> QED BY <1>1, <1>2 DEF ColumnStart

\* ppu_write_tiles_vertical: a write for each tile, from the top again after the edge.
LEMMA VerticalRequests ==
  ASSUME NEW c, IsCall(c), c.fn = "vertical", Accepts(c)
  PROVE  Requests(c) = IF c.count = 0 \/ c.tiles = <<>> THEN <<>>
                       ELSE [k \in 1 .. TileCount(c) |-> TileWrite(c, k)]
<1> DEFINE tiles == WriteTiles(c)
           off == TileLayerOffset(c.layer)
           x == c.x
           y == c.y
           n == TileCount(c)
           towrite == unsigned_min(64 - y, n)
           line(k) == IF k <= towrite THEN y + k - 1 ELSE k - 1 - towrite
           req(k) == Pwrite(off + x * 2 + line(k) * 64 * 2, Packed(<<tiles[k]>>, 2))
<1>1. x \in 0 .. 63 /\ y \in 0 .. 63
  BY VerticalStarts
<1>2. Len(tiles) = n /\ n \in 0 .. 64
  BY TilesLen DEF TileCount
<1>3. off \in {0, 8192}
  BY DEF TileLayerOffset, TILERAM_FGOFFSET
<1>4. Requests(c) = ppu_write_tiles_vertical(c)
  BY DEF Requests
<1> HIDE DEF n, tiles
<1>5. ppu_write_tiles_vertical(c)
        = IF c.count = 0 \/ c.tiles = <<>> THEN <<>> ELSE [k \in 1 .. n |-> req(k)]
  BY <1>2 DEF ppu_write_tiles_vertical, tiles, TILELAYER_WIDTH, TILELAYER_HEIGHT, TILEDATA_BSIZE
<1> HIDE DEF off, x, y
<1>6. towrite \in 0 .. 64 /\ towrite <= n /\ (towrite = n \/ y + towrite = 64) /\ y + towrite <= 64
  BY <1>1, <1>2 DEF unsigned_min
<1> HIDE DEF towrite
<1>7. ASSUME NEW k \in 1 .. n
      PROVE  req(k) = TileWrite(c, k)
  <2>1. line(k) = (y + (k - 1)) % 64 /\ line(k) \in 0 .. 63
    BY <1>1, <1>2, <1>6
  <2>2. line(k) = LineOfTile(c, k)
    BY <2>1 DEF LineOfTile, y
  <2> HIDE DEF line
  <2>3. off + x * 2 + line(k) * 64 * 2 = (off + 2 * x) + 128 * LineOfTile(c, k)
    BY <1>1, <1>3, <2>1, <2>2
  <2>4. off + 2 * x = ColumnStart(c)
    BY DEF ColumnStart, off, x
  <2> QED BY <2>3, <2>4 DEF TileWrite, tiles
<1> HIDE DEF req
<1>8. [k \in 1 .. n |-> req(k)] = [k \in 1 .. n |-> TileWrite(c, k)]
  BY <1>7
<1> QED BY <1>4, <1>5, <1>8 DEF n

\* Its writes stay in their column.
LEMMA VerticalIsTame ==
  ASSUME NEW c, IsCall(c), c.fn = "vertical", Accepts(c)
  PROVE  Tame(c)
<1> DEFINE tiles == WriteTiles(c)
           start == ColumnStart(c)
           n == TileCount(c)
           line(k) == LineOfTile(c, k)
           req(k) == Pwrite(start + 128 * line(k), Packed(<<tiles[k]>>, 2))
<1>1. /\ start \in Nat /\ start <= 8318 /\ n \in Nat /\ n <= 64
      /\ \A k \in 1 .. n : line(k) \in Nat /\ line(k) <= 63
  <2>1. n \in Nat /\ n <= 64 /\ \A k \in 1 .. n : line(k) \in Nat /\ line(k) <= 63
    BY VerticalNumbers, Zenon
  <2>2. start \in Nat /\ start <= 8318
    BY ColumnStartIs
  <2> HIDE DEF n, line, start
  <2> QED BY <2>1, <2>2
<1>2. Requests(c) = IF c.count = 0 \/ c.tiles = <<>> THEN <<>> ELSE [k \in 1 .. n |-> req(k)]
  BY VerticalRequests DEF TileWrite
<1>3. \A k \in 1 .. n, b \in 0 .. 1 : start + 128 * line(k) + b \in Places(c)
  <2> SUFFICES ASSUME NEW k \in 1 .. n, NEW b \in 0 .. 1
               PROVE  start + 128 * line(k) + b \in Places(c)
    OBVIOUS
  <2> DEFINE off == TileLayerOffset(c.layer)
             x == c.x
  <2>1. k - 1 \in 0 .. unsigned_min(c.count, 64) - 1
    BY <1>1 DEF TileCount
  <2>2. off + 128 * line(k) + 2 * x + b \in Places(c)
    BY <2>1, VerticalPlaces DEF LineOfTile
  <2>3. off \in Int /\ x \in Int
    BY VerticalStarts DEF TileLayerOffset, TILERAM_FGOFFSET
  <2>4. start = off + 2 * x
    BY DEF ColumnStart
  <2> HIDE DEF start, line, off, x
  <2>5. start + 128 * line(k) + b = off + 128 * line(k) + 2 * x + b
    BY <1>1, <2>3, <2>4
  <2> QED BY <2>2, <2>5
<1> HIDE DEF n, tiles, start, line
<1>7. ASSUME NEW k \in 1 .. n
      PROVE  Harmless(c, req(k))
  <2> DEFINE addr == start + 128 * line(k)
  <2>2. addr \in Nat /\ addr + 1 < 53568
    BY <1>1
  <2>3. Len(Packed(<<tiles[k]>>, 2)) = 2
    <3>1. Len(<<tiles[k]>>) = 1 /\ 2 \in {2, 4}
      OBVIOUS
    <3>2. Len(<<tiles[k]>>) \in Nat
      BY <3>1
    <3>3. Len(Packed(<<tiles[k]>>, 2)) = 2 * Len(<<tiles[k]>>)
      BY <3>1, <3>2, PackedLen
    <3> QED BY <3>1, <3>3
  <2>4. \A b \in 0 .. 1 : addr + b \in Places(c)
    BY <1>3
  <2> HIDE DEF addr
  <2>5. Within(c, addr, 2)
    <3>1. \A a \in addr .. addr + 2 - 1 : a = addr + 0 \/ a = addr + 1
      BY <2>2
    <3>2. addr + 0 \in Places(c) /\ addr + 1 \in Places(c)
      BY <2>2, <2>4
    <3>3. addr + 0 < 53568 /\ addr + 1 < 53568
      BY <2>2
    <3> QED BY <3>1, <3>2, <3>3 DEF Within, VRAM_SIZE
  <2>6. Harmless(c, Pwrite(addr, Packed(<<tiles[k]>>, 2)))
    <3> DEFINE bytes == Packed(<<tiles[k]>>, 2)
    <3>1. Len(bytes) = 2
      BY <2>3
    <3> HIDE DEF bytes
    <3>2. Len(bytes) \in Nat /\ Within(c, addr, Len(bytes))
      BY <2>5, <3>1
    <3>3. addr \in Nat
      BY <2>2
    <3>4. Harmless(c, Pwrite(addr, bytes))
      BY <3>2, <3>3, PwriteIsHarmless
    <3> QED BY <3>4 DEF bytes
  <2> QED BY <2>6 DEF addr
<1>8. CASE c.count = 0 \/ c.tiles = <<>>
  BY <1>2, <1>8, NoneIsTame
<1>9. CASE ~(c.count = 0 \/ c.tiles = <<>>)
  <2> HIDE DEF req
  <2>1. Requests(c) = [k \in 1 .. n |-> req(k)]
    BY <1>2, <1>9
  <2>2. Requests(c) = [k \in 1 .. n |-> Requests(c)[k]] /\ \A k \in 1 .. n : Requests(c)[k] = req(k)
    BY <2>1
  <2>3. n \in Nat
    BY <1>1
  <2> QED BY <1>7, <2>2, <2>3, ManyAreTame
<1> QED BY <1>8, <1>9

\* The quotient and the remainder are what they are built from.
LEMMA Quotient ==
  ASSUME NEW w \in Nat, w > 0, NEW q \in Nat, NEW r \in 0 .. w - 1
  PROVE  (w * q + r) \div w = q /\ (w * q + r) % w = r
<1> DEFINE c == w * q + r
           d == c \div w
           s == c % w
<1>1. w \in Int /\ q \in Int /\ r \in Int /\ w * q \in Int /\ c \in Int
  OBVIOUS
<1>2. d \in Int /\ s \in 0 .. w - 1 /\ c = w * d + s
  <2> HIDE DEF c
  <2> QED BY <1>1
<1>3. w * d + s = w * q + r
  BY <1>2
<1> HIDE DEF c, d, s
<1>4. ~(d < q)
  <2> SUFFICES ASSUME d < q PROVE FALSE
    OBVIOUS
  <2>1. d <= q - 1 /\ w * d <= w * (q - 1)
    BY <1>1, <1>2
  <2>2. w * (q - 1) = w * q - w
    BY <1>1
  <2> QED BY <1>1, <1>2, <1>3, <2>1, <2>2
<1>5. ~(q < d)
  <2> SUFFICES ASSUME q < d PROVE FALSE
    OBVIOUS
  <2>1. q <= d - 1 /\ w * q <= w * (d - 1)
    BY <1>1, <1>2
  <2>2. w * (d - 1) = w * d - w
    BY <1>1, <1>2
  <2> QED BY <1>1, <1>2, <1>3, <2>1, <2>2
<1>6. d = q
  BY <1>1, <1>2, <1>4, <1>5
<1>7. s = r
  BY <1>1, <1>2, <1>3, <1>6
<1> QED BY <1>6, <1>7 DEF c, d, s

\* The k-th of w * h things that lie row by row.
LEMMA RowOf ==
  ASSUME NEW w \in Nat, NEW h \in Nat, w > 0, NEW m \in Nat, m < w * h
  PROVE  m \div w \in 0 .. h - 1 /\ m % w \in 0 .. w - 1
<1> DEFINE q == m \div w
           r == m % w
<1>1. q \in Int /\ r \in 0 .. w - 1 /\ m = w * q + r
  OBVIOUS
<1> HIDE DEF q, r
<1>2. q >= 0
  <2> SUFFICES ASSUME q <= -1 PROVE FALSE
    BY <1>1
  <2>1. w * q <= w * (-1)
    BY <1>1
  <2> QED BY <1>1, <2>1
<1>3. q <= h - 1
  <2> SUFFICES ASSUME q >= h PROVE FALSE
    BY <1>1
  <2>1. w * q >= w * h
    BY <1>1
  <2> QED BY <1>1, <2>1
<1>4. q \in 0 .. h - 1
  BY <1>1, <1>2, <1>3
<1> QED BY <1>1, <1>4 DEF q, r

\* The rows of a tile pattern, and where they lie.
LEMMA PatternPlaces ==
  ASSUME NEW c, IsCall(c), c.fn = "pattern", Accepts(c),
         NEW col \in 0 .. c.width - 1, NEW row \in 0 .. c.height - 1,
         NEW r \in 0 .. 7, NEW b \in 0 .. 3
  PROVE  16384 + 1024 * (((c.pattern_addr \div 32) + row) % 32)
           + 32 * (((c.pattern_addr % 32) + col) % 32) + 4 * r + b \in Places(c)
<1> DEFINE x == c.pattern_addr % 32
           y == c.pattern_addr \div 32
           x_f == (x + col) % 32
           y_f == (y + row) % 32
           loc == PatternRowAt(x_f, y_f, r)
           places == {PatternRowAt((x + i) % 32, (y + j) % 32, s) :
                        i \in 0 .. c.width - 1, j \in 0 .. c.height - 1, s \in 0 .. 7}
           pixels(l) == c.pattern[((l[3] - y + 32) % 32) * c.width + ((l[2] - x + 32) % 32) + 1][l[4] + 1]
<1>1. Drawn(c) = [l \in places |-> pixels(l)]
  BY DEF Drawn
<1>2. loc \in places
  OBVIOUS
<1>3. c.pattern_addr \in Nat /\ c.width \in Nat /\ c.height \in Nat
  BY DEF IsCall
<1>4. x \in Nat /\ y \in Nat
  BY <1>3
<1> HIDE DEF places, pixels
<1>5. loc \in DOMAIN Drawn(c)
  BY <1>1, <1>2
<1> HIDE DEF x, y
<1>6. x_f \in 0 .. 31 /\ y_f \in 0 .. 31
  BY <1>3, <1>4
<1>7. Bytes(loc) = PatternByte(x_f, y_f, r) .. PatternByte(x_f, y_f, r) + 3
  BY BytesAre
<1> HIDE DEF x_f, y_f, loc
<1>8. PatternByte(x_f, y_f, r) = 16384 + 1024 * y_f + 32 * x_f + 4 * r
  BY <1>6 DEF PatternByte, VRAM_PATTERNOFFSET
<1>9. 16384 + 1024 * y_f + 32 * x_f + 4 * r + b \in Bytes(loc)
  BY <1>6, <1>7, <1>8
<1>10. 16384 + 1024 * y_f + 32 * x_f + 4 * r + b \in Places(c)
  BY <1>5, <1>9, BytesArePlaces
<1> QED BY <1>10 DEF x_f, y_f, x, y

\* Where the k-th tile of a pattern goes in Pattern RAM.
TileColumn(c, k) == ((c.pattern_addr % 32) + ((k - 1) % c.width)) % 32
TileRow(c, k) == ((c.pattern_addr \div 32) + ((k - 1) \div c.width)) % 32

\* ppu_write_pattern: a write for each tile, wrapping in both directions.
LEMMA PatternRequests ==
  ASSUME NEW c, c.fn = "pattern"
  PROVE  Requests(c) =
           [k \in 1 .. c.width * c.height |->
              Pwrite(16384 + 32 * (32 * TileRow(c, k) + TileColumn(c, k)), Packed(c.pattern[k], 4))]
<1> DEFINE p == c.pattern_addr
           w == c.width
           h == c.height
           x_f(k) == ((p % 32) + ((k - 1) % w)) % 32
           y_f(k) == ((p \div 32) + ((k - 1) \div w)) % 32
           req(k) == Pwrite(16384 + 32 * (32 * y_f(k) + x_f(k)), Packed(c.pattern[k], 4))
<1>1. Requests(c) = ppu_write_pattern(c)
  BY DEF Requests
<1>2. ppu_write_pattern(c) = [k \in 1 .. w * h |-> req(k)]
  BY DEF ppu_write_pattern, ppu_pattern_addr, VRAM_PATTERNOFFSET, TILEPATTERN_BSIZE
<1> HIDE DEF req
<1>3. Requests(c) = [k \in 1 .. w * h |-> req(k)]
  BY <1>1, <1>2
<1> QED BY <1>3 DEF req, TileRow, TileColumn

\* They stay in Pattern RAM.
LEMMA PatternIsTame ==
  ASSUME NEW c, IsCall(c), c.fn = "pattern", Accepts(c)
  PROVE  Tame(c)
<1> DEFINE p == c.pattern_addr
           w == c.width
           h == c.height
           x_f(k) == ((p % 32) + ((k - 1) % w)) % 32
           y_f(k) == ((p \div 32) + ((k - 1) \div w)) % 32
           req(k) == Pwrite(16384 + 32 * (32 * y_f(k) + x_f(k)), Packed(c.pattern[k], 4))
<1>1. p \in Nat /\ w \in Nat /\ h \in Nat /\ c.pattern \in [1 .. w * h -> [1 .. 8 -> Nat]]
  BY DEF IsCall
<1>2. w > 0 /\ h > 0
  <2>1. AcceptsPattern(c)
    BY DEF Accepts
  <2> QED BY <2>1 DEF AcceptsPattern
<1>3. Requests(c) = [k \in 1 .. w * h |-> req(k)]
  BY PatternRequests DEF TileRow, TileColumn
<1>4. \A col \in 0 .. w - 1, row \in 0 .. h - 1, r \in 0 .. 7, b \in 0 .. 3 :
        16384 + 1024 * (((p \div 32) + row) % 32) + 32 * (((p % 32) + col) % 32) + 4 * r + b
          \in Places(c)
  BY PatternPlaces
<1>5. w * h \in Nat
  BY <1>1
<1> HIDE DEF p, w, h
<1>6. ASSUME NEW k \in 1 .. w * h
      PROVE  Harmless(c, req(k))
  <2>1. (k - 1) \div w \in 0 .. h - 1 /\ (k - 1) % w \in 0 .. w - 1
    <3>1. k - 1 \in Nat /\ k - 1 < w * h
      BY <1>5
    <3> QED BY <1>1, <1>2, <3>1, RowOf
  <2> DEFINE X == x_f(k)
             Y == y_f(k)
             addr == 16384 + 32 * (32 * Y + X)
             bytes == Packed(c.pattern[k], 4)
  <2>2. X \in 0 .. 31 /\ Y \in 0 .. 31
    <3> DEFINE i == (k - 1) % w
               j == (k - 1) \div w
    <3>1. i \in Nat /\ j \in Nat
      BY <1>1, <2>1
    <3> HIDE DEF i, j
    <3>2. ((p % 32) + i) % 32 \in 0 .. 31
      BY <1>1, <3>1
    <3>3. ((p \div 32) + j) % 32 \in 0 .. 31
      <4>1. p \div 32 \in Nat
        BY <1>1
      <4>2. (p \div 32) + j \in Nat
        BY <3>1, <4>1
      <4> QED BY <4>2
    <3> QED BY <3>2, <3>3 DEF i, j
  <2>3. \A r \in 0 .. 7, b \in 0 .. 3 : 16384 + 1024 * Y + 32 * X + 4 * r + b \in Places(c)
    BY <1>4, <2>1
  <2>4. Len(bytes) = 32
    <3>1. c.pattern[k] \in [1 .. 8 -> Nat]
      BY <1>1
    <3> HIDE DEF bytes
    <3>2. Len(c.pattern[k]) = 8
      BY <3>1
    <3>3. Len(c.pattern[k]) \in Nat /\ 4 \in {2, 4}
      BY <3>2
    <3>4. Len(Packed(c.pattern[k], 4)) = 4 * Len(c.pattern[k])
      BY <3>3, PackedLen
    <3> QED BY <3>2, <3>4 DEF bytes
  <2> HIDE DEF X, Y, bytes
  <2>5. Within(c, addr, 32)
    <3> SUFFICES ASSUME NEW a \in addr .. addr + 32 - 1
                 PROVE  a \in Places(c) /\ a < 53568
      BY DEF Within, VRAM_SIZE
    <3> DEFINE d == a - addr
               r == d \div 4
               b == d % 4
    <3>1. addr = 16384 + 1024 * Y + 32 * X /\ addr \in Nat /\ addr <= 49120
      BY <2>2
    <3> HIDE DEF addr
    <3>2. d \in 0 .. 31 /\ a = addr + d
      BY <3>1
    <3> HIDE DEF d
    <3>3. r \in 0 .. 7 /\ b \in 0 .. 3 /\ d = 4 * r + b
      BY <3>2
    <3> HIDE DEF r, b
    <3>4. a = 16384 + 1024 * Y + 32 * X + 4 * r + b /\ a < 53568
      BY <2>2, <3>1, <3>2, <3>3
    <3> QED BY <2>3, <3>3, <3>4
  <2>6. addr \in Nat
    BY <2>2
  <2> HIDE DEF addr
  <2>7. Len(bytes) \in Nat /\ Within(c, addr, Len(bytes))
    BY <2>4, <2>5
  <2>8. Harmless(c, Pwrite(addr, bytes))
    BY <2>6, <2>7, PwriteIsHarmless
  <2> QED BY <2>8 DEF addr, bytes, X, Y
<1> HIDE DEF req
<1>7. Requests(c) = [k \in 1 .. w * h |-> Requests(c)[k]]
        /\ \A k \in 1 .. w * h : Requests(c)[k] = req(k)
  BY <1>3
<1> QED BY <1>5, <1>6, <1>7, ManyAreTame

\* Where a palette lies in Palette RAM.
PaletteBase(c) == PaletteLayerOffset(c.layer) + c.palette_id * 64

\* The colours of a palette as the mixer addresses them.
LEMMA PaletteStarts ==
  ASSUME NEW c, IsCall(c), c.fn = "palette", Accepts(c)
  PROVE  /\ PaletteBase(c) \in Nat /\ PaletteBase(c) <= 4032
         /\ \A i \in 1 .. 15 :
              ColorByte(c.layer, c.palette_id, i) = 49152 + PaletteBase(c) + 4 * i
<1> DEFINE off == PaletteLayerOffset(c.layer)
           id == c.palette_id
           base == off + id * 64
<1>1. id \in Nat
  BY DEF IsCall
<1>2. id < IF c.layer = 4 THEN 32 ELSE 16
  <2>1. AcceptsPalette(c)
    BY DEF Accepts
  <2> QED BY <2>1 DEF AcceptsPalette, LAYER_SPR, SPRLAYER_MAX_PALETTES, TILELAYER_MAX_PALETTES
<1>3. /\ base \in Nat /\ base <= 4032
      /\ \A i \in 1 .. 15 : ColorByte(c.layer, id, i) = 49152 + base + 4 * i
  <2> USE DEF PaletteLayerOffset, ColorByte, LAYER_SPR, LAYER_FG, PALETTERAM_SPROFFSET,
              PALETTERAM_FGOFFSET, PALETTERAM_BGOFFSET, VRAM_PALETTEOFFSET
  <2>1. CASE c.layer = 4
    <3>1. off = 2048 /\ id \in 0 .. 31
      BY <1>1, <1>2, <2>1
    <3>2. \A i \in 1 .. 15 : ColorByte(c.layer, id, i) = 49152 + 4 * (16 * (id % 32) + i + 512)
      BY <2>1
    <3> HIDE DEF id, off
    <3> QED BY <3>1, <3>2
  <2>2. CASE c.layer = 2
    <3>1. off = 1024 /\ id \in 0 .. 15
      BY <1>1, <1>2, <2>2
    <3>2. \A i \in 1 .. 15 : ColorByte(c.layer, id, i) = 49152 + 4 * (16 * (id % 16) + i + 256)
      BY <2>2
    <3> HIDE DEF id, off
    <3> QED BY <3>1, <3>2
  <2>3. CASE c.layer # 4 /\ c.layer # 2
    <3>1. off = 0 /\ id \in 0 .. 15
      BY <1>1, <1>2, <2>3
    <3>2. \A i \in 1 .. 15 : ColorByte(c.layer, id, i) = 49152 + 4 * (16 * (id % 16) + i + 0)
      BY <2>3
    <3> HIDE DEF id, off
    <3> QED BY <3>1, <3>2
  <2> HIDE DEF PaletteLayerOffset, ColorByte, off, id, base
  <2> QED BY <2>1, <2>2, <2>3
<1> QED BY <1>3 DEF base, off, id, PaletteBase

\* The opaque colours of a palette, and where they lie.
LEMMA PalettePlaces ==
  ASSUME NEW c, IsCall(c), c.fn = "palette", Accepts(c)
  PROVE  \A i \in 1 .. 15, b \in 0 .. 3 : 49152 + PaletteBase(c) + 4 * i + b \in Places(c)
<1> DEFINE id == c.palette_id
           base == PaletteBase(c)
<1>1. base \in Nat /\ \A i \in 1 .. 15 : ColorByte(c.layer, id, i) = 49152 + base + 4 * i
  BY PaletteStarts
<1>2. \A i \in 1 .. 15 : ColorAt(c.layer, id, i) \in DOMAIN Drawn(c)
  BY DEF Drawn
<1> HIDE DEF base, id
<1>3. ASSUME NEW i \in 1 .. 15, NEW b \in 0 .. 3
      PROVE  49152 + base + 4 * i + b \in Places(c)
  <2> DEFINE loc == ColorAt(c.layer, id, i)
             at == ColorByte(c.layer, id, i)
  <2>1. Bytes(loc) = at .. at + 3
    BY BytesAre
  <2>2. at = 49152 + base + 4 * i
    BY <1>1
  <2>3. loc \in DOMAIN Drawn(c)
    BY <1>2
  <2> HIDE DEF at, loc
  <2>4. 49152 + base + 4 * i + b \in at .. at + 3
    <3>1. base \in Int
      BY <1>1
    <3> QED BY <2>2, <3>1
  <2>5. 49152 + base + 4 * i + b \in Bytes(loc)
    BY <2>1, <2>4
  <2> QED BY <2>3, <2>5, BytesArePlaces
<1> QED BY <1>3 DEF base

\* ppu_write_palette: the 15 opaque colours in one write.
LEMMA PaletteRequests ==
  ASSUME NEW c, IsCall(c), c.fn = "palette"
  PROVE  Requests(c) = <<Pwrite(49152 + PaletteBase(c) + 4, Packed(c.color, 4))>>
<1> DEFINE addr == 49152 + PaletteBase(c) + 4
           bytes == Packed(c.color, 4)
<1>1. Requests(c) = ppu_write_palette(c)
  BY DEF Requests
<1>2. c.palette_id \in Nat /\ PaletteLayerOffset(c.layer) \in Nat
  BY DEF IsCall, PaletteLayerOffset, PALETTERAM_SPROFFSET, PALETTERAM_FGOFFSET, PALETTERAM_BGOFFSET
<1>3. 49152 + PaletteLayerOffset(c.layer) + c.palette_id * 64 + 4 = addr
  BY <1>2 DEF PaletteBase
<1>4. ppu_write_palette(c)
        = <<Pwrite(49152 + PaletteLayerOffset(c.layer) + c.palette_id * 64 + 4, bytes)>>
  BY DEF ppu_write_palette, VRAM_PALETTEOFFSET, PALETTE16_BSIZE
<1> HIDE DEF addr, bytes
<1> QED BY <1>1, <1>3, <1>4 DEF addr, bytes

\* That write stays within its section.
LEMMA PaletteIsTame ==
  ASSUME NEW c, IsCall(c), c.fn = "palette", Accepts(c)
  PROVE  Tame(c)
<1> DEFINE base == PaletteBase(c)
           addr == 49152 + base + 4
           bytes == Packed(c.color, 4)
<1>1. base \in Nat /\ base <= 4032
  BY PaletteStarts
<1>2. \A i \in 1 .. 15, b \in 0 .. 3 : 49152 + base + 4 * i + b \in Places(c)
  BY PalettePlaces
<1>3. Requests(c) = <<Pwrite(addr, bytes)>>
  BY PaletteRequests
<1>4. Len(bytes) = 60
  <2>1. Len(c.color) = 15
    BY DEF IsCall
  <2>2. Len(c.color) \in Nat /\ 4 \in {2, 4}
    BY <2>1
  <2>3. Len(Packed(c.color, 4)) = 4 * Len(c.color)
    BY <2>2, PackedLen
  <2> QED BY <2>1, <2>3
<1> HIDE DEF base, bytes
<1>5. Within(c, addr, 60)
  <2> SUFFICES ASSUME NEW a \in addr .. addr + 60 - 1
               PROVE  a \in Places(c) /\ a < 53568
    BY DEF Within, VRAM_SIZE
  <2> DEFINE d == a - addr
             i == (d \div 4) + 1
             b == d % 4
  <2>1. d \in 0 .. 59 /\ a = 49152 + base + 4 + d
    BY <1>1
  <2> HIDE DEF addr, d
  <2>2. i \in 1 .. 15 /\ b \in 0 .. 3 /\ d = 4 * (i - 1) + b
    BY <2>1
  <2> HIDE DEF i, b
  <2>3. a = 49152 + base + 4 * i + b /\ a < 53568
    BY <1>1, <2>1, <2>2
  <2> QED BY <1>2, <2>2, <2>3
<1>6. addr \in Nat
  BY <1>1
<1> HIDE DEF addr
<1>7. Len(bytes) \in Nat /\ Within(c, addr, Len(bytes))
  BY <1>4, <1>5
<1>8. Harmless(c, Pwrite(addr, bytes))
  BY <1>6, <1>7, PwriteIsHarmless
<1> QED BY <1>3, <1>8, OneIsTame

\* The sprites of a call fit into Sprite RAM.
LEMMA SpritesStart ==
  ASSUME NEW c, IsCall(c), c.fn = "sprites", Accepts(c)
  PROVE  /\ c.sprite_id \in Nat /\ Len(c.sprites) \in Nat
         /\ DOMAIN c.sprites = 1 .. Len(c.sprites)
         /\ c.sprite_id + Len(c.sprites) <= 64
<1>1. c.sprite_id \in Nat
  BY DEF IsCall
<1>2. c.sprites \in Seq([pattern_addr : Nat, palette_id : Nat, x : Nat, y : Nat,
                         mirror : Nat, height : Nat, width : Nat, prio : Nat])
  BY DEF IsCall
<1>3. Len(c.sprites) \in Nat /\ DOMAIN c.sprites = 1 .. Len(c.sprites)
  BY <1>2
<1>4. c.sprite_id + Len(c.sprites) <= 64
  <2>1. AcceptsSprites(c)
    BY DEF Accepts
  <2> QED BY <2>1 DEF AcceptsSprites, SPRITE_MAXCOUNT
<1> QED BY <1>1, <1>3, <1>4

\* The bytes of a sprite, the word in the one table and the byte in the other.
LEMMA SpritePlaces ==
  ASSUME NEW c, IsCall(c), c.fn = "sprites", Accepts(c), NEW i \in 1 .. Len(c.sprites)
  PROVE  /\ \A b \in 0 .. 3 : 53248 + 4 * (c.sprite_id + i - 1) + b \in Places(c)
         /\ 53504 + (c.sprite_id + i - 1) \in Places(c)
<1> DEFINE id == c.sprite_id + i - 1
           places == {SpriteAt(c.sprite_id + j - 1) : j \in DOMAIN c.sprites}
           sprite(l) == c.sprites[l[2] - c.sprite_id + 1]
<1>1. Drawn(c) = [l \in places |-> sprite(l)]
  BY DEF Drawn
<1>2. c.sprite_id \in Nat /\ Len(c.sprites) \in Nat /\ DOMAIN c.sprites = 1 .. Len(c.sprites)
  BY SpritesStart
<1>3. SpriteAt(id) \in places
  BY <1>2
<1>4. id \in Nat
  BY <1>2
<1> HIDE DEF places, sprite
<1>5. SpriteAt(id) \in DOMAIN Drawn(c)
  BY <1>1, <1>3
<1> HIDE DEF id
<1>6. Bytes(SpriteAt(id)) = (OamMainByte(id) .. OamMainByte(id) + 3) \cup {OamExtByte(id)}
  BY BytesAre
<1>7. OamMainByte(id) = 53248 + 4 * id /\ OamExtByte(id) = 53504 + id
  BY <1>4 DEF OamMainByte, OamExtByte, VRAM_SPRITESOFFSET, SPRITE_MAXCOUNT
<1>8. \A b \in 0 .. 3 : 53248 + 4 * id + b \in Bytes(SpriteAt(id))
  BY <1>4, <1>6, <1>7
<1>9. 53504 + id \in Bytes(SpriteAt(id))
  BY <1>6, <1>7
<1>10. \A b \in 0 .. 3 : 53248 + 4 * id + b \in Places(c)
  BY <1>5, <1>8, BytesArePlaces
<1>11. 53504 + id \in Places(c)
  BY <1>5, <1>9, BytesArePlaces
<1> QED BY <1>10, <1>11 DEF id

\* ppu_write_sprites: a write to each of the two tables.
LEMMA SpriteRequests ==
  ASSUME NEW c, IsCall(c), c.fn = "sprites", Accepts(c)
  PROVE  LET words == [i \in DOMAIN c.sprites |-> SpriteWord(c.sprites[i])]
             extras == [i \in DOMAIN c.sprites |-> SpriteExtra(c.sprites[i])]
         IN Requests(c) = <<Pwrite(53248 + c.sprite_id * 4, Packed(words, 4)),
                            Pwrite(53504 + c.sprite_id,
                                   SubSeq(Packed(extras, 4), 1, Len(extras)))>>
<1> DEFINE id == c.sprite_id
           words == [i \in DOMAIN c.sprites |-> SpriteWord(c.sprites[i])]
           extras == [i \in DOMAIN c.sprites |-> SpriteExtra(c.sprites[i])]
           main == 53248 + id * 4
           ext == 53504 + id
           mains == Packed(words, 4)
           exts == SubSeq(Packed(extras, 4), 1, Len(extras))
<1>1. id \in Nat
  BY SpritesStart
<1>2. Requests(c) = ppu_write_sprites(c)
  BY DEF Requests
<1>3. VRAM_SPRITESOFFSET + SPRRAM_EXTRAOFFSET + id = ext
  BY <1>1 DEF VRAM_SPRITESOFFSET, SPRRAM_EXTRAOFFSET
<1>4. VRAM_SPRITESOFFSET + id * SPRITE_BSIZE = main
  BY DEF VRAM_SPRITESOFFSET, SPRITE_BSIZE
<1>5. ppu_write_sprites(c)
        = <<Pwrite(VRAM_SPRITESOFFSET + id * SPRITE_BSIZE, mains),
            Pwrite(VRAM_SPRITESOFFSET + SPRRAM_EXTRAOFFSET + id, exts)>>
  BY DEF ppu_write_sprites
<1> HIDE DEF main, mains, ext, exts
<1>6. Requests(c) = <<Pwrite(main, mains), Pwrite(ext, exts)>>
  BY <1>2, <1>3, <1>4, <1>5
<1> QED BY <1>6 DEF main, mains, ext, exts

\* They stay within the tables.
LEMMA SpritesAreTame ==
  ASSUME NEW c, IsCall(c), c.fn = "sprites", Accepts(c)
  PROVE  Tame(c)
<1> DEFINE id == c.sprite_id
           n == Len(c.sprites)
           words == [i \in DOMAIN c.sprites |-> SpriteWord(c.sprites[i])]
           extras == [i \in DOMAIN c.sprites |-> SpriteExtra(c.sprites[i])]
           main == 53248 + id * 4
           ext == 53504 + id
           mains == Packed(words, 4)
           exts == SubSeq(Packed(extras, 4), 1, Len(extras))
<1>1. id \in Nat /\ n \in Nat /\ DOMAIN c.sprites = 1 .. n /\ id + n <= 64
  BY SpritesStart
<1>2. Requests(c) = <<Pwrite(main, mains), Pwrite(ext, exts)>>
  BY SpriteRequests
<1>3. \A i \in 1 .. n :
        /\ \A b \in 0 .. 3 : 53248 + 4 * (id + i - 1) + b \in Places(c)
        /\ 53504 + (id + i - 1) \in Places(c)
  BY SpritePlaces
<1> HIDE DEF id, n
<1>4. Len(words) = n /\ Len(extras) = n
  <2> DEFINE word(i) == SpriteWord(c.sprites[i])
             extra(i) == SpriteExtra(c.sprites[i])
  <2>1. words = [i \in 1 .. n |-> word(i)] /\ extras = [i \in 1 .. n |-> extra(i)]
    BY <1>1
  <2> HIDE DEF word, extra
  <2>2. Len([i \in 1 .. n |-> word(i)]) = n /\ Len([i \in 1 .. n |-> extra(i)]) = n
    BY <1>1
  <2> HIDE DEF words, extras
  <2> QED BY <2>1, <2>2
<1> HIDE DEF words, extras
<1>5. Len(mains) = 4 * n
  <2>1. Len(words) \in Nat /\ 4 \in {2, 4}
    BY <1>1, <1>4
  <2>2. Len(Packed(words, 4)) = 4 * Len(words)
    BY <2>1, PackedLen
  <2> QED BY <1>4, <2>2
<1>6. Len(exts) = n
  <2> DEFINE byte(k) == ByteIn(extras[((k - 1) \div 4) + 1], (k - 1) % 4)
             all == Packed(extras, 4)
  <2>1. all = [k \in 1 .. 4 * n |-> byte(k)]
    BY <1>4 DEF Packed
  <2> HIDE DEF byte
  <2> DEFINE S == {byte(k) : k \in 1 .. 4 * n}
  <2>2. \A k \in 1 .. n : all[k] \in S
    <3>1. \A k \in 1 .. n : k \in 1 .. 4 * n
      BY <1>1
    <3> HIDE DEF all
    <3> QED BY <2>1, <3>1
  <2> HIDE DEF all, S
  <2>3. Len(SubSeq(all, 1, n)) = IF 1 <= n THEN n - 1 + 1 ELSE 0
    <3>1. 1 \in Int /\ n \in Int
      BY <1>1
    <3> QED BY <2>2, <3>1, SubSeqProperties
  <2>4. Len(SubSeq(all, 1, n)) = n
    BY <1>1, <2>3
  <2> QED BY <1>4, <2>4 DEF all
<1> HIDE DEF mains, exts
<1>7. Within(c, main, 4 * n)
  <2> SUFFICES ASSUME NEW a \in main .. main + 4 * n - 1
               PROVE  a \in Places(c) /\ a < 53568
    BY DEF Within, VRAM_SIZE
  <2> DEFINE d == a - main
             i == (d \div 4) + 1
             b == d % 4
  <2>1. d \in 0 .. 4 * n - 1 /\ a = 53248 + 4 * id + d
    BY <1>1
  <2> HIDE DEF main, d
  <2>2. i \in 1 .. n /\ b \in 0 .. 3 /\ d = 4 * (i - 1) + b
    BY <1>1, <2>1
  <2> HIDE DEF i, b
  <2>3. a = 53248 + 4 * (id + i - 1) + b /\ a < 53568
    BY <1>1, <2>1, <2>2
  <2>4. \A e \in 0 .. 3 : 53248 + 4 * (id + i - 1) + e \in Places(c)
    BY <1>3, <2>2
  <2> QED BY <2>2, <2>3, <2>4
<1>8. Within(c, ext, n)
  <2> SUFFICES ASSUME NEW a \in ext .. ext + n - 1
               PROVE  a \in Places(c) /\ a < 53568
    BY DEF Within, VRAM_SIZE
  <2> DEFINE i == a - ext + 1
  <2>1. i \in 1 .. n /\ a = 53504 + (id + i - 1) /\ a < 53568
    BY <1>1
  <2> HIDE DEF i
  <2> QED BY <1>3, <2>1
<1>9. main \in Nat /\ ext \in Nat
  BY <1>1
<1> HIDE DEF main, ext
<1>10. Len(mains) \in Nat /\ Within(c, main, Len(mains))
  BY <1>1, <1>5, <1>7
<1>11. Len(exts) \in Nat /\ Within(c, ext, Len(exts))
  BY <1>1, <1>6, <1>8
<1>12. Harmless(c, Pwrite(main, mains)) /\ Harmless(c, Pwrite(ext, exts))
  BY <1>9, <1>10, <1>11, PwriteIsHarmless
<1> QED BY <1>2, <1>12, TwoAreTame

\* ppu_write_vram: the bytes as they are.
LEMMA VramIsTame ==
  ASSUME NEW c, IsCall(c), c.fn = "vram", Accepts(c)
  PROVE  Tame(c)
<1>1. c.offset \in Nat /\ c.bytes \in Seq(0 .. 255)
  BY DEF IsCall
<1>2. c.offset + Len(c.bytes) <= 53568
  <2>1. AcceptsVram(c)
    BY DEF Accepts
  <2> QED BY <2>1 DEF AcceptsVram, VRAM_SIZE
<1>3. Requests(c) = <<Pwrite(c.offset, c.bytes)>>
  BY DEF Requests, ppu_write_vram
<1>4. Len(c.bytes) \in Nat /\ DOMAIN c.bytes = 1 .. Len(c.bytes)
  BY <1>1
<1>5. Within(c, c.offset, Len(c.bytes))
  <2> SUFFICES ASSUME NEW a \in c.offset .. c.offset + Len(c.bytes) - 1
               PROVE  a \in Places(c) /\ a < 53568
    BY DEF Within, VRAM_SIZE
  <2> DEFINE places == {ByteOf(c.offset + i - 1) : i \in DOMAIN c.bytes}
             byte(l) == c.bytes[l[2] - c.offset + 1]
  <2>1. Drawn(c) = [l \in places |-> byte(l)]
    BY DEF Drawn
  <2>2. ByteOf(a) \in places
    <3> DEFINE i == a - c.offset + 1
    <3>1. i \in DOMAIN c.bytes /\ a = c.offset + i - 1
      BY <1>1, <1>4
    <3> HIDE DEF i
    <3> QED BY <3>1
  <2> HIDE DEF places, byte
  <2>3. ByteOf(a) \in DOMAIN Drawn(c)
    BY <2>1, <2>2
  <2>4. a \in Bytes(ByteOf(a))
    BY BytesAre
  <2>5. a < 53568
    BY <1>1, <1>2, <1>4
  <2> QED BY <2>3, <2>4, <2>5, BytesArePlaces
<1>6. Harmless(c, Pwrite(c.offset, c.bytes))
  BY <1>1, <1>4, <1>5, PwriteIsHarmless
<1> QED BY <1>3, <1>6, OneIsTame

\* The calls that write no VRAM.
LEMMA RegistersAreTame ==
  ASSUME NEW c, c.fn \in {"bgcolor", "scroll", "enable", "update"}
  PROVE  Tame(c)
<1>1. \A reg, param : Harmless(c, IoctlSet(reg, param))
  BY DEF Harmless, IoctlSet
<1>2. Harmless(c, IoctlUpdate)
  BY DEF Harmless, IoctlUpdate
<1>3. CASE c.fn = "bgcolor"
  <2>1. Requests(c) = <<IoctlSet("bgcolor", Rgb(c.color))>>
    BY <1>3 DEF Requests, ppu_set_bgcolor
  <2> QED BY <1>1, <2>1, OneIsTame
<1>4. CASE c.fn = "scroll"
  <2> DEFINE reg == IF c.layer = LAYER_FG THEN "fgscroll" ELSE "bgscroll"
             param == 65536 * c.scroll_y + c.scroll_x
  <2>1. Requests(c) = <<IoctlSet(reg, param)>>
    BY <1>4 DEF Requests, ppu_set_scroll
  <2> HIDE DEF reg, param
  <2> QED BY <1>1, <2>1, OneIsTame
<1>5. CASE c.fn = "enable"
  <2>1. Requests(c) = <<IoctlSet("enable", c.mask % 8)>>
    BY <1>5 DEF Requests, ppu_set_layer_enable
  <2> QED BY <1>1, <2>1, OneIsTame
<1>6. CASE c.fn = "update"
  <2>1. Requests(c) = <<IoctlUpdate>>
    BY <1>6 DEF Requests, ppu_update
  <2> QED BY <1>2, <2>1, OneIsTame
<1> QED BY <1>3, <1>4, <1>5, <1>6

(***************************************************************************)
(* Whatever its arguments, a call that the library accepts sends the       *)
(* driver only writes that stay in the places it draws, and in VRAM.       *)
(***************************************************************************)
THEOREM CallsAreTame ==
  ASSUME NEW c, IsCall(c), Accepts(c)
  PROVE  Tame(c)
<1>1. c.fn \in {"horizontal", "vertical", "pattern", "palette", "sprites", "vram",
                "bgcolor", "scroll", "enable", "update"}
  BY DEF IsCall
<1> QED BY <1>1, HorizontalIsTame, VerticalIsTame, PatternIsTame, PaletteIsTame,
           SpritesAreTame, VramIsTame, RegistersAreTame
----------------------------------------------------------------------------
(* The invariant.                                                          *)

\* A call in progress is one that the library has accepted and that sends something.
Known(c) == IsCall(c) /\ Accepts(c) /\ Requests(c) # <<>>

\* A thread in status st, with call c, has requests todo left.
InCall(st, c, todo) ==
  /\ st \in {"running", "locked", "busy"} => Known(c)
  /\ st \in {"running", "locked"} => todo \in Seq(Sent(c)) /\ todo # <<>>

\* A request that is being served holds the lock, and what its call draws is
\* covered: it is dirty or promised.
Served(t, st, lock, c, todo, covered) ==
  st = "locked" => lock = t /\ Head(todo).op # "update" /\ DOMAIN Drawn(c) \subseteq covered

\* The only thread of a program finds the lock free once its call has begun.
Alone(st, n, lock) ==
  /\ st \in {"ready", "closing"} => n = 0
  /\ st = "running" /\ n # 0 => lock = "free"

Functions ==
  /\ program \in Programs
  /\ DOMAIN status = Thread /\ DOMAIN call = Thread
  /\ DOMAIN left = Thread /\ DOMAIN sent = Thread

CallsAreKnown == \A t \in Thread : InCall(status[t], call[t], left[t])

LockIsHeld ==
  \A t \in Thread :
     Served(t, status[t], vram_lock, call[t], left[t], DOMAIN promised \cup dirty)

FreeWhenAlone == \A t \in Thread : threads = {t} => Alone(status[t], sent[t], vram_lock)

StoresInVram == DOMAIN vram \subseteq 0 .. VRAM_SIZE - 1

LibraryInvariant ==
  /\ Functions /\ CallsAreKnown /\ LockIsHeld /\ FreeWhenAlone
  /\ StoresWhereItSays /\ StoresInVram
\* The assumption on the constants, in parts.
LEMMA LockNames ==
  ASSUME NEW t \in Thread
  PROVE  t # "free" /\ t # "handoff"
BY LibraryAssumption

\* The threads of a program, and their calls.
LEMMA ProgramsAreCalls ==
  ASSUME program \in Programs
  PROVE  threads \subseteq Thread /\ \A t \in threads : \A c \in program.calls[t] : IsCall(c)
BY LibraryAssumption DEF threads

\* The invariant holds when nothing has been drawn.
LEMMA InitIsInvariant == Init => LibraryInvariant
<1> SUFFICES ASSUME Init PROVE LibraryInvariant
  OBVIOUS
<1> USE DEF Init
<1>1. Functions
  BY DEF Functions
<1>2. CallsAreKnown
  BY DEF CallsAreKnown, InCall
<1>3. LockIsHeld
  BY DEF LockIsHeld, Served
<1>4. FreeWhenAlone
  BY DEF FreeWhenAlone, Alone
<1>5. DOMAIN vram = {}
  OBVIOUS
<1>6. StoresWhereItSays /\ StoresInVram
  BY <1>5 DEF StoresWhereItSays, StoresInVram
<1> QED BY <1>1, <1>2, <1>3, <1>4, <1>6 DEF LibraryInvariant

\* Nobody holds the lock but the thread that is being served.
LEMMA OneIsServed ==
  ASSUME LibraryInvariant, NEW t \in Thread, status[t] = "locked"
  PROVE  vram_lock = t /\ \A u \in Thread \ {t} : status[u] # "locked"
BY DEF LibraryInvariant, LockIsHeld, Served

\* While the lock is free or with a hand-off, no request is being served.
LEMMA NobodyIsServed ==
  ASSUME LibraryInvariant, vram_lock \in {"free", "handoff"}
  PROVE  \A t \in Thread : status[t] # "locked"
BY LockNames DEF LibraryInvariant, LockIsHeld, Served

\* A step of one thread leaves the others alone.
Elsewhere(t) ==
  /\ \A u \in Thread \ {t} : /\ status'[u] = status[u] /\ call'[u] = call[u]
                             /\ left'[u] = left[u] /\ sent'[u] = sent[u]
  /\ DOMAIN status' = Thread /\ DOMAIN call' = Thread
  /\ DOMAIN left' = Thread /\ DOMAIN sent' = Thread
  /\ program' = program

\* The thread's own step keeps the invariant if it does not touch the device.
LEMMA ThreadStep ==
  ASSUME LibraryInvariant, NEW t \in threads, Elsewhere(t),
         UNCHANGED <<vram_lock, vram, promised, dirty>>,
         status'[t] # "locked",
         InCall(status'[t], call'[t], left'[t]),
         threads = {t} => Alone(status'[t], sent'[t], vram_lock)
  PROVE  LibraryInvariant'
<1>1. t \in Thread /\ threads' = threads
  BY ProgramsAreCalls DEF LibraryInvariant, Functions, Elsewhere, threads
<1>2. Functions'
  BY DEF LibraryInvariant, Functions, Elsewhere
<1>3. CallsAreKnown'
  BY DEF LibraryInvariant, CallsAreKnown, Elsewhere
<1>4. LockIsHeld'
  BY DEF LibraryInvariant, LockIsHeld, Served, Elsewhere
<1>5. FreeWhenAlone'
  <2> SUFFICES ASSUME NEW u \in Thread, threads = {u}
               PROVE  Alone(status'[u], sent'[u], vram_lock')
    BY <1>1 DEF FreeWhenAlone
  <2>1. u = t
    OBVIOUS
  <2> QED BY <2>1
<1>6. StoresWhereItSays' /\ StoresInVram'
  BY DEF LibraryInvariant, StoresWhereItSays, StoresInVram
<1> QED BY <1>2, <1>3, <1>4, <1>5, <1>6 DEF LibraryInvariant

\* A step that only releases the lock.
LEMMA LockStep ==
  ASSUME LibraryInvariant, vram_lock \in {"free", "handoff"}, vram_lock' = "free",
         UNCHANGED <<program, vram, status, call, left, sent, promised, dirty>>
  PROVE  LibraryInvariant'
<1>1. \A t \in Thread : status[t] # "locked"
  BY NobodyIsServed
<1>2. Functions' /\ CallsAreKnown'
  BY DEF LibraryInvariant, Functions, CallsAreKnown
<1>3. LockIsHeld'
  BY <1>1 DEF LockIsHeld, Served
<1>4. FreeWhenAlone'
  BY DEF LibraryInvariant, FreeWhenAlone, Alone, threads
<1>5. StoresWhereItSays' /\ StoresInVram'
  BY DEF LibraryInvariant, StoresWhereItSays, StoresInVram
<1> QED BY <1>2, <1>3, <1>4, <1>5 DEF LibraryInvariant

\* A step that blanks VRAM, when nobody is in a call.
LEMMA BlankStep ==
  ASSUME LibraryInvariant, Blanked, Functions', CallsAreKnown', FreeWhenAlone',
         \A t \in Thread : status'[t] # "locked"
  PROVE  LibraryInvariant'
<1>1. LockIsHeld'
  BY DEF LockIsHeld, Served
<1>2. DOMAIN vram' = {}
  BY DEF Blanked
<1>3. StoresWhereItSays' /\ StoresInVram'
  BY <1>2 DEF StoresWhereItSays, StoresInVram
<1> QED BY <1>1, <1>3 DEF LibraryInvariant
----------------------------------------------------------------------------
(* Every action keeps the invariant.                                       *)

\* What the invariant says of a thread.
LEMMA ThreadFacts ==
  ASSUME LibraryInvariant, NEW t \in threads
  PROVE  /\ t \in Thread
         /\ DOMAIN status = Thread /\ DOMAIN call = Thread
         /\ DOMAIN left = Thread /\ DOMAIN sent = Thread
         /\ InCall(status[t], call[t], left[t])
         /\ Served(t, status[t], vram_lock, call[t], left[t], DOMAIN promised \cup dirty)
         /\ threads = {t} => Alone(status[t], sent[t], vram_lock)
<1>1. t \in Thread
  BY ProgramsAreCalls DEF LibraryInvariant, Functions
<1> QED BY <1>1 DEF LibraryInvariant, Functions, CallsAreKnown, LockIsHeld, FreeWhenAlone

\* The requests of a known call may be sent.
LEMMA RequestsMayBeSent ==
  ASSUME NEW c, Known(c)
  PROVE  InCall("running", c, Requests(c))
<1>1. Tame(c)
  BY CallsAreTame DEF Known
<1> QED BY <1>1 DEF InCall, Known, Tame

\* Noway and the steps of the rest of the system.
LEMMA OthersKeep ==
  ASSUME LibraryInvariant,
         UNCHANGED <<program, vram_lock, vram, status, call, left, sent, promised, dirty>>
  PROVE  LibraryInvariant'
BY DEF LibraryInvariant, Functions, CallsAreKnown, LockIsHeld, FreeWhenAlone, threads,
       StoresWhereItSays, StoresInVram

\* ppu_enable: the device is opened, or the program ends.
LEMMA EnableKeeps ==
  ASSUME LibraryInvariant, NEW t \in threads, Enable(t), program' = program
  PROVE  LibraryInvariant'
<1>1. UNCHANGED <<vram_lock, vram, status, call, left, sent, promised, dirty>>
  BY DEF Enable, Noway, deviceVars, callVars, pictureVars
<1> QED BY <1>1, OthersKeep

\* ppu_disable: the thread waits for the close, or the program ends.
LEMMA DisableKeeps ==
  ASSUME LibraryInvariant, NEW t \in threads, Disable(t), program' = program
  PROVE  LibraryInvariant'
<1>1. CASE Noway
  <2>1. UNCHANGED <<vram_lock, vram, status, call, left, sent, promised, dirty>>
    BY <1>1 DEF Noway, deviceVars, callVars, pictureVars
  <2> QED BY <2>1, OthersKeep
<1>2. CASE Goto(t, "ready", "closing") /\ UNCHANGED <<deviceVars, callVars, pictureVars>>
  <2>1. /\ status[t] = "ready" /\ status' = [status EXCEPT ![t] = "closing"]
        /\ UNCHANGED <<vram_lock, vram, call, left, sent, promised, dirty>>
    BY <1>2 DEF Goto, deviceVars, callVars, pictureVars
  <2>2. status'[t] = "closing"
    BY <2>1, ThreadFacts
  <2>3. Elsewhere(t)
    BY <2>1, ThreadFacts DEF Elsewhere
  <2>4. InCall(status'[t], call'[t], left'[t])
    BY <2>2 DEF InCall
  <2>5. threads = {t} => Alone(status'[t], sent'[t], vram_lock)
    BY <2>1, <2>2, ThreadFacts DEF Alone
  <2> QED BY <2>1, <2>2, <2>3, <2>4, <2>5, ThreadStep
<1> QED BY <1>1, <1>2 DEF Disable

\* The close returns and leaves VRAM blank.
LEMMA ClosedKeeps ==
  ASSUME LibraryInvariant, NEW t \in threads, Closed(t), program' = program
  PROVE  LibraryInvariant'
<1>1. /\ status[t] = "closing" /\ status' = [status EXCEPT ![t] = "ready"]
      /\ UNCHANGED <<call, left, sent>> /\ Blanked
  BY DEF Closed, Goto, callVars
<1>2. vram_lock = "free" /\ vram_lock' = "free"
  BY <1>1 DEF Blanked
<1>3. \A u \in Thread : status[u] # "locked"
  BY <1>2, NobodyIsServed
<1>4. status'[t] = "ready" /\ DOMAIN status' = Thread
        /\ \A u \in Thread \ {t} : status'[u] = status[u]
  BY <1>1, ThreadFacts
<1>5. Functions'
  BY <1>1, <1>4 DEF LibraryInvariant, Functions
<1>6. CallsAreKnown'
  BY <1>1, <1>4 DEF LibraryInvariant, CallsAreKnown, InCall
<1>7. FreeWhenAlone'
  <2>1. threads' = threads
    BY DEF threads
  <2>2. ASSUME NEW u \in Thread, threads = {u}
        PROVE  Alone(status'[u], sent'[u], vram_lock')
    <3>1. u = t
      BY <2>2
    <3> QED BY <1>1, <1>4, <2>2, <3>1, ThreadFacts DEF Alone
  <2> QED BY <2>1, <2>2 DEF FreeWhenAlone
<1>8. \A u \in Thread : status'[u] # "locked"
  BY <1>3, <1>4
<1> QED BY <1>1, <1>5, <1>6, <1>7, <1>8, BlankStep

\* A program that has been ended is started again, with VRAM blank.
LEMMA RestartKeeps ==
  ASSUME LibraryInvariant, Restart, program' = program
  PROVE  LibraryInvariant'
<1>1. /\ status' = [t \in Thread |-> "ready"] /\ call' = [t \in Thread |-> NoCall]
      /\ left' = [t \in Thread |-> <<>>] /\ sent' = [t \in Thread |-> 0] /\ Blanked
  BY DEF Restart
<1>2. Functions'
  BY <1>1 DEF LibraryInvariant, Functions
<1>3. CallsAreKnown' /\ \A t \in Thread : status'[t] # "locked"
  BY <1>1 DEF CallsAreKnown, InCall
<1>4. FreeWhenAlone'
  BY <1>1 DEF FreeWhenAlone, Alone
<1> QED BY <1>1, <1>2, <1>3, <1>4, BlankStep

\* A call begins with all its requests to send, if it is accepted.
LEMMA CallKeeps ==
  ASSUME LibraryInvariant, NEW t \in threads, Call(t), program' = program
  PROVE  LibraryInvariant'
<1>1. status[t] = "ready"
  BY DEF Call
<1>2. PICK c \in program.calls[t] : IF ppu_fd /\ Accepts(c) THEN Begin(t, c) ELSE Noway
  BY DEF Call
<1>3. CASE Noway
  <2>1. UNCHANGED <<vram_lock, vram, status, call, left, sent, promised, dirty>>
    BY <1>3 DEF Noway, deviceVars, callVars, pictureVars
  <2> QED BY <2>1, OthersKeep
<1>4. CASE Accepts(c) /\ Begin(t, c)
  <2>1. /\ call' = [call EXCEPT ![t] = c] /\ left' = [left EXCEPT ![t] = Requests(c)]
        /\ status' = [status EXCEPT ![t] = "running"] /\ Requests(c) # <<>>
        /\ UNCHANGED <<vram_lock, vram, sent, promised, dirty>>
    BY <1>4 DEF Begin, deviceVars, pictureVars
  <2>2. status'[t] = "running" /\ call'[t] = c /\ left'[t] = Requests(c)
    BY <2>1, ThreadFacts
  <2>3. Elsewhere(t)
    BY <2>1, ThreadFacts DEF Elsewhere
  <2>4. Known(c)
    BY <1>4, <2>1, ProgramsAreCalls DEF Known, LibraryInvariant, Functions
  <2>5. InCall(status'[t], call'[t], left'[t])
    BY <2>2, <2>4, RequestsMayBeSent
  <2>6. threads = {t} => Alone(status'[t], sent'[t], vram_lock)
    BY <1>1, <2>1, <2>2, ThreadFacts DEF Alone
  <2> QED BY <2>1, <2>2, <2>3, <2>5, <2>6, ThreadStep
<1> QED BY <1>2, <1>3, <1>4

\* A repeated call begins again with all its requests.
LEMMA RetryKeeps ==
  ASSUME LibraryInvariant, NEW t \in threads, Retry(t), program' = program
  PROVE  LibraryInvariant'
<1>1. CASE Noway
  <2>1. UNCHANGED <<vram_lock, vram, status, call, left, sent, promised, dirty>>
    BY <1>1 DEF Noway, deviceVars, callVars, pictureVars
  <2> QED BY <2>1, OthersKeep
<1>2. CASE ppu_fd
  <2>1. /\ status[t] = "busy" /\ status' = [status EXCEPT ![t] = "running"]
        /\ left' = [left EXCEPT ![t] = Requests(call[t])] /\ sent' = [sent EXCEPT ![t] = 0]
        /\ UNCHANGED <<call, vram_lock, vram, promised, dirty>>
    BY <1>2 DEF Retry, deviceVars, pictureVars
  <2>2. status'[t] = "running" /\ call'[t] = call[t] /\ left'[t] = Requests(call[t]) /\ sent'[t] = 0
    BY <2>1, ThreadFacts
  <2>3. Elsewhere(t)
    BY <2>1, ThreadFacts DEF Elsewhere
  <2>4. Known(call[t])
    BY <2>1, ThreadFacts DEF InCall
  <2>5. InCall(status'[t], call'[t], left'[t])
    BY <2>2, <2>4, RequestsMayBeSent
  <2>6. threads = {t} => Alone(status'[t], sent'[t], vram_lock)
    BY <2>2 DEF Alone
  <2> QED BY <2>1, <2>2, <2>3, <2>5, <2>6, ThreadStep
<1> QED BY <1>1, <1>2 DEF Retry

\* A call that is not repeated.
LEMMA GiveUpKeeps ==
  ASSUME LibraryInvariant, NEW t \in threads, GiveUp(t), program' = program
  PROVE  LibraryInvariant'
<1>1. /\ status' = [status EXCEPT ![t] = "ready"] /\ call' = [call EXCEPT ![t] = NoCall]
      /\ left' = [left EXCEPT ![t] = <<>>] /\ sent' = [sent EXCEPT ![t] = 0]
      /\ UNCHANGED <<vram_lock, vram, promised, dirty>>
  BY DEF GiveUp, Goto, deviceVars, pictureVars
<1>2. status'[t] = "ready" /\ sent'[t] = 0
  BY <1>1, ThreadFacts
<1>3. Elsewhere(t)
  BY <1>1, ThreadFacts DEF Elsewhere
<1>4. InCall(status'[t], call'[t], left'[t])
  BY <1>2 DEF InCall
<1>5. threads = {t} => Alone(status'[t], sent'[t], vram_lock)
  BY <1>2 DEF Alone
<1> QED BY <1>1, <1>2, <1>3, <1>4, <1>5, ThreadStep

\* A request that finds the PPU busy.
LEMMA RequestBusyKeeps ==
  ASSUME LibraryInvariant, NEW t \in threads, RequestBusy(t), program' = program
  PROVE  LibraryInvariant'
<1>1. /\ status[t] = "running" /\ status' = [status EXCEPT ![t] = "busy"]
      /\ UNCHANGED <<call, left, sent, vram_lock, vram, promised, dirty>>
  BY DEF RequestBusy, Goto, deviceVars, callVars, pictureVars
<1>2. status'[t] = "busy"
  BY <1>1, ThreadFacts
<1>3. Elsewhere(t)
  BY <1>1, ThreadFacts DEF Elsewhere
<1>4. InCall(status'[t], call'[t], left'[t])
  BY <1>1, <1>2, ThreadFacts DEF InCall
<1>5. threads = {t} => Alone(status'[t], sent'[t], vram_lock)
  BY <1>2 DEF Alone
<1> QED BY <1>1, <1>2, <1>3, <1>4, <1>5, ThreadStep

\* A request takes the lock: it is the only one, and its call dirties what it draws.
LEMMA RequestLockKeeps ==
  ASSUME LibraryInvariant, NEW t \in threads, RequestLock(t), program' = program
  PROVE  LibraryInvariant'
<1>1. /\ status[t] = "running" /\ status' = [status EXCEPT ![t] = "locked"]
      /\ Head(left[t]).op # "update" /\ vram_lock = "free" /\ vram_lock' = t
      /\ dirty' = dirty \cup DOMAIN Drawn(call[t])
      /\ UNCHANGED <<call, left, sent, vram, promised>>
  BY DEF RequestLock, Goto, callVars
<1>2. \A u \in Thread : status[u] # "locked"
  BY <1>1, NobodyIsServed
<1>3. status'[t] = "locked" /\ DOMAIN status' = Thread
        /\ \A u \in Thread \ {t} : status'[u] = status[u]
  BY <1>1, ThreadFacts
<1>4. Functions'
  BY <1>1, <1>3 DEF LibraryInvariant, Functions
<1>5. CallsAreKnown'
  BY <1>1, <1>3 DEF LibraryInvariant, CallsAreKnown, InCall
<1>6. LockIsHeld'
  <2> SUFFICES ASSUME NEW u \in Thread, status'[u] = "locked"
               PROVE  /\ vram_lock' = u /\ Head(left'[u]).op # "update"
                      /\ DOMAIN Drawn(call'[u]) \subseteq DOMAIN promised' \cup dirty'
    BY DEF LockIsHeld, Served
  <2>1. u = t
    BY <1>2, <1>3
  <2> QED BY <1>1, <2>1
<1>7. FreeWhenAlone'
  <2>1. threads' = threads
    BY DEF threads
  <2>2. ASSUME NEW u \in Thread, threads = {u}
        PROVE  Alone(status'[u], sent'[u], vram_lock')
    <3>1. u = t
      BY <2>2
    <3> QED BY <1>3, <3>1 DEF Alone
  <2> QED BY <2>1, <2>2 DEF FreeWhenAlone
<1>8. StoresWhereItSays' /\ StoresInVram'
  BY <1>1 DEF LibraryInvariant, StoresWhereItSays, StoresInVram
<1> QED BY <1>4, <1>5, <1>6, <1>7, <1>8 DEF LibraryInvariant
\* What a call leaves behind when it returns.
LEMMA Returned ==
  ASSUME LibraryInvariant, NEW t \in threads, Return(t), program' = program
  PROVE  /\ status'[t] = "ready" /\ sent'[t] = 0 /\ Elsewhere(t)
         /\ DOMAIN promised \cup dirty \subseteq DOMAIN promised' \cup dirty'
<1>1. /\ status' = [status EXCEPT ![t] = "ready"] /\ call' = [call EXCEPT ![t] = NoCall]
      /\ left' = [left EXCEPT ![t] = <<>>] /\ sent' = [sent EXCEPT ![t] = 0]
  BY DEF Return
<1>2. status'[t] = "ready" /\ sent'[t] = 0
  BY <1>1, ThreadFacts
<1>3. Elsewhere(t)
  BY <1>1, ThreadFacts DEF Elsewhere
<1>4. DOMAIN promised' = DOMAIN Drawn(call[t]) \cup DOMAIN promised
  BY DEF Return, Overlay
<1>5. dirty' = dirty \ DOMAIN Drawn(call[t])
  BY DEF Return
<1> QED BY <1>2, <1>3, <1>4, <1>5

\* What a call has left when one of its requests has been served.
LEMMA Continued ==
  ASSUME LibraryInvariant, NEW t \in threads, status[t] = "locked", Len(left[t]) # 1,
         Continue(t), program' = program
  PROVE  /\ status'[t] = "running" /\ Elsewhere(t)
         /\ InCall(status'[t], call'[t], left'[t])
         /\ promised' = promised /\ dirty' = dirty
<1>1. /\ status' = [status EXCEPT ![t] = "running"] /\ left' = [left EXCEPT ![t] = Tail(left[t])]
      /\ sent' = [sent EXCEPT ![t] = sent[t] + 1] /\ call' = call
      /\ promised' = promised /\ dirty' = dirty
  BY DEF Continue, pictureVars
<1>2. status'[t] = "running" /\ left'[t] = Tail(left[t]) /\ call'[t] = call[t]
  BY <1>1, ThreadFacts
<1>3. Elsewhere(t)
  BY <1>1, ThreadFacts DEF Elsewhere
<1>4. Known(call[t]) /\ left[t] \in Seq(Sent(call[t])) /\ left[t] # <<>>
  BY ThreadFacts DEF InCall
<1>5. Tail(left[t]) \in Seq(Sent(call[t])) /\ Len(Tail(left[t])) = Len(left[t]) - 1
  BY <1>4, HeadTailProperties
<1>6. Tail(left[t]) # <<>>
  <2>1. Len(left[t]) \in Nat /\ Len(left[t]) - 1 # 0
    BY <1>4
  <2>2. Len(<<>>) = 0
    OBVIOUS
  <2> QED BY <1>5, <2>1, <2>2
<1> QED BY <1>1, <1>2, <1>3, <1>4, <1>5, <1>6 DEF InCall

\* Where a set of places lies.
BytesOf(locs) == UNION {Bytes(loc) : loc \in locs}

\* What is stored lies in VRAM and in the places of the call.
LEMMA ServedStores ==
  ASSUME LibraryInvariant, NEW t \in threads, status[t] = "locked", Serve(Head(left[t]))
  PROVE  /\ DOMAIN vram' \subseteq 0 .. VRAM_SIZE - 1
         /\ DOMAIN vram' \subseteq BytesOf(DOMAIN promised \cup dirty)
<1> DEFINE c == call[t]
           req == Head(left[t])
           covered == DOMAIN promised \cup dirty
<1>1. Known(c) /\ left[t] \in Seq(Sent(c)) /\ left[t] # <<>>
  BY ThreadFacts DEF InCall
<1>2. req \in Sent(c)
  BY <1>1
<1>3. Harmless(c, req)
  BY <1>1, <1>2, CallsAreTame DEF Known, Tame
<1>4. DOMAIN Drawn(c) \subseteq covered /\ req.op # "update"
  BY ThreadFacts DEF Served
<1>5. Places(c) \subseteq BytesOf(covered)
  BY <1>4 DEF Places, BytesOf
<1>6. DOMAIN vram \subseteq 0 .. VRAM_SIZE - 1 /\ DOMAIN vram \subseteq BytesOf(covered)
  BY DEF LibraryInvariant, StoresInVram, StoresWhereItSays, BytesOf
<1>7. Serve(req)
  OBVIOUS
<1> HIDE DEF c, req, covered
<1>8. CASE req.op = "pwrite"
  <2>1. vram' = Overlay(Stored(req), vram)
    BY <1>7, <1>8 DEF Serve
  <2>2. DOMAIN vram' = (req.addr .. req.addr + Len(req.bytes) - 1) \cup DOMAIN vram
    BY <2>1 DEF Overlay, Stored
  <2>3. req.addr \in Nat /\ Len(req.bytes) \in Nat /\ Within(c, req.addr, Len(req.bytes))
    BY <1>3, <1>8 DEF Harmless
  <2>4. \A a \in req.addr .. req.addr + Len(req.bytes) - 1 :
          a \in Places(c) /\ a \in 0 .. VRAM_SIZE - 1
    <3> DEFINE low == req.addr
               len == Len(req.bytes)
    <3>1. low \in Nat /\ len \in Nat
      BY <2>3
    <3>2. \A a \in low .. low + len - 1 : a \in Places(c) /\ a < VRAM_SIZE
      BY <2>3 DEF Within
    <3> HIDE DEF low, len
    <3>3. ASSUME NEW a \in low .. low + len - 1
          PROVE  a \in Places(c) /\ a \in 0 .. VRAM_SIZE - 1
      <4>1. a \in Places(c) /\ a < VRAM_SIZE
        BY <3>2
      <4>2. a \in Nat
        BY <3>1
      <4>3. a \in 0 .. VRAM_SIZE - 1
        <5>1. VRAM_SIZE \in Nat
          BY DEF VRAM_SIZE
        <5> QED BY <4>1, <4>2, <5>1
      <4> QED BY <4>1, <4>3
    <3> QED BY <3>3 DEF low, len
  <2> QED BY <1>5, <1>6, <2>2, <2>4 DEF covered
<1>9. CASE req.op = "set"
  <2>1. vram' = vram
    BY <1>7, <1>9 DEF Serve
  <2> QED BY <1>6, <2>1 DEF covered
<1> QED BY <1>3, <1>4, <1>8, <1>9 DEF Harmless

\* A step of a thread that holds the lock, or takes it, and leaves it to nobody.
LEMMA ServedStep ==
  ASSUME LibraryInvariant, NEW t \in threads, Elsewhere(t),
         \A u \in Thread \ {t} : status[u] # "locked", status'[t] # "locked",
         InCall(status'[t], call'[t], left'[t]),
         threads = {t} => Alone(status'[t], sent'[t], vram_lock'),
         DOMAIN vram' \subseteq 0 .. VRAM_SIZE - 1,
         DOMAIN vram' \subseteq BytesOf(DOMAIN promised \cup dirty),
         DOMAIN promised \cup dirty \subseteq DOMAIN promised' \cup dirty'
  PROVE  LibraryInvariant'
<1>1. Functions' /\ threads' = threads
  BY DEF LibraryInvariant, Functions, Elsewhere, threads
<1>2. CallsAreKnown'
  BY DEF LibraryInvariant, CallsAreKnown, Elsewhere
<1>3. LockIsHeld'
  BY DEF LockIsHeld, Served, Elsewhere
<1>4. FreeWhenAlone'
  <2> SUFFICES ASSUME NEW u \in Thread, threads = {u}
               PROVE  Alone(status'[u], sent'[u], vram_lock')
    BY <1>1 DEF FreeWhenAlone
  <2>1. u = t
    OBVIOUS
  <2> QED BY <2>1
<1>5. StoresWhereItSays'
  BY DEF StoresWhereItSays, BytesOf
<1>6. StoresInVram'
  BY DEF StoresInVram
<1> QED BY <1>1, <1>2, <1>3, <1>4, <1>5, <1>6 DEF LibraryInvariant

\* A request has been served: its call returns or goes on.
LEMMA RequestDoneKeeps ==
  ASSUME LibraryInvariant, NEW t \in threads, RequestDone(t), program' = program
  PROVE  LibraryInvariant'
<1>1. status[t] = "locked" /\ Serve(Head(left[t])) /\ vram_lock' = "free"
  BY DEF RequestDone
<1>2. \A u \in Thread \ {t} : status[u] # "locked"
  BY <1>1, OneIsServed, ThreadFacts
<1>3. /\ DOMAIN vram' \subseteq 0 .. VRAM_SIZE - 1
      /\ DOMAIN vram' \subseteq BytesOf(DOMAIN promised \cup dirty)
  BY <1>1, ServedStores
<1>4. CASE Len(left[t]) = 1
  <2>1. Return(t)
    BY <1>4 DEF RequestDone
  <2>2. /\ status'[t] = "ready" /\ sent'[t] = 0 /\ Elsewhere(t)
        /\ DOMAIN promised \cup dirty \subseteq DOMAIN promised' \cup dirty'
    BY <2>1, Returned
  <2>3. InCall(status'[t], call'[t], left'[t]) /\ Alone(status'[t], sent'[t], vram_lock')
    BY <2>2 DEF InCall, Alone
  <2> QED BY <1>2, <1>3, <2>2, <2>3, ServedStep
<1>5. CASE Len(left[t]) # 1
  <2>1. Continue(t)
    BY <1>5 DEF RequestDone
  <2>2. /\ status'[t] = "running" /\ Elsewhere(t) /\ InCall(status'[t], call'[t], left'[t])
        /\ promised' = promised /\ dirty' = dirty
    BY <1>1, <1>5, <2>1, Continued
  <2>3. Alone(status'[t], sent'[t], vram_lock')
    BY <1>1, <2>2 DEF Alone
  <2>4. DOMAIN promised \cup dirty \subseteq DOMAIN promised' \cup dirty'
    BY <2>2
  <2> QED BY <1>2, <1>3, <2>2, <2>3, <2>4, ServedStep
<1> QED BY <1>4, <1>5

\* ppu_update leaves the lock to the hand-off and returns.
LEMMA RequestUpdateKeeps ==
  ASSUME LibraryInvariant, NEW t \in threads, RequestUpdate(t), program' = program
  PROVE  LibraryInvariant'
<1>1. vram_lock = "free" /\ vram' = vram /\ Return(t)
  BY DEF RequestUpdate
<1>2. \A u \in Thread \ {t} : status[u] # "locked"
  BY <1>1, NobodyIsServed
<1>3. /\ DOMAIN vram' \subseteq 0 .. VRAM_SIZE - 1
      /\ DOMAIN vram' \subseteq BytesOf(DOMAIN promised \cup dirty)
  BY <1>1 DEF LibraryInvariant, StoresInVram, StoresWhereItSays, BytesOf
<1>4. /\ status'[t] = "ready" /\ sent'[t] = 0 /\ Elsewhere(t)
      /\ DOMAIN promised \cup dirty \subseteq DOMAIN promised' \cup dirty'
  BY <1>1, Returned
<1>5. InCall(status'[t], call'[t], left'[t]) /\ Alone(status'[t], sent'[t], vram_lock')
  BY <1>4 DEF InCall, Alone
<1> QED BY <1>2, <1>3, <1>4, <1>5, ServedStep

\* The invariant is inductive.
LEMMA StepKeepsInvariant == LibraryInvariant /\ [Next]_vars => LibraryInvariant'
<1> SUFFICES ASSUME LibraryInvariant, [Next]_vars PROVE LibraryInvariant'
  OBVIOUS
<1>1. CASE UNCHANGED vars
  BY <1>1, OthersKeep DEF vars
<1>2. CASE Next
  <2>1. program' = program
    BY <1>2 DEF Next
  <2>2. CASE Restart
    BY <2>1, <2>2, RestartKeeps
  <2>3. CASE OtherProgram
    <3>1. UNCHANGED <<vram_lock, vram, status, call, left, sent, promised, dirty>>
      BY <2>3 DEF OtherProgram, deviceVars, callVars, pictureVars
    <3> QED BY <2>1, <3>1, OthersKeep
  <2>4. CASE HandOffDone
    <3>1. vram_lock = "handoff" /\ vram_lock' = "free"
            /\ UNCHANGED <<vram, status, call, left, sent, promised, dirty>>
      BY <2>4 DEF HandOffDone, callVars, pictureVars
    <3> QED BY <2>1, <3>1, LockStep
  <2>5. ASSUME NEW t \in threads,
               Enable(t) \/ Disable(t) \/ Call(t) \/ GiveUp(t) \/ LibraryStep(t)
        PROVE  LibraryInvariant'
    BY <2>1, <2>5, EnableKeeps, DisableKeeps, CallKeeps, GiveUpKeeps, ClosedKeeps, RetryKeeps,
       RequestBusyKeeps, RequestLockKeeps, RequestDoneKeeps, RequestUpdateKeeps DEF LibraryStep
  <2> QED BY <1>2, <2>2, <2>3, <2>4, <2>5 DEF Next
<1> QED BY <1>1, <1>2

(***************************************************************************)
(* Whatever programs run, with whatever calls and threads, what lies in    *)
(* VRAM lies in the places that calls have drawn or were drawing: not in   *)
(* another layer, not in a transparent colour, not past the end.           *)
(***************************************************************************)
THEOREM WritesStayInPlace == Spec => []StoresWhereItSays
<1>1. LibraryInvariant => StoresWhereItSays
  BY DEF LibraryInvariant
<1> QED BY InitIsInvariant, StepKeepsInvariant, <1>1, PTL DEF Spec

(***************************************************************************)
(* Every write lies in VRAM: the checks of the library are as strict as    *)
(* the one of ppu_write in the driver, which need not refuse any but those *)
(* of ppu_write_vram.                                                      *)
(***************************************************************************)
THEOREM WritesStayInVram == Spec => []StoresInVram
<1>1. LibraryInvariant => StoresInVram
  BY DEF LibraryInvariant
<1> QED BY InitIsInvariant, StepKeepsInvariant, <1>1, PTL DEF Spec

\* In a step of a program's only thread, only the first request finds the PPU busy.
LEMMA BusyStep ==
  ASSUME LibraryInvariant, [Next]_vars,
         NEW t \in threads, threads = {t}, status[t] = "running", status'[t] = "busy"
  PROVE  sent[t] = 0
<1>1. t \in Thread /\ DOMAIN status = Thread /\ Alone(status[t], sent[t], vram_lock)
  BY ThreadFacts
<1> SUFFICES ASSUME sent[t] # 0 PROVE FALSE
  OBVIOUS
<1>2. vram_lock = "free"
  BY <1>1 DEF Alone
<1>3. ~UNCHANGED vars
  BY DEF vars
<1>4. Next
  BY <1>3
<1>5. CASE Restart
  BY <1>1, <1>5 DEF Restart
<1>6. CASE OtherProgram
  BY <1>6 DEF OtherProgram
<1>7. CASE HandOffDone
  BY <1>7 DEF HandOffDone
<1>8. CASE Enable(t) \/ Disable(t) \/ Call(t) \/ GiveUp(t) \/ LibraryStep(t)
  <2>1. ~Enable(t) /\ ~Disable(t)
    BY DEF Enable, Disable, Goto, Noway
  <2>2. ~Call(t) /\ ~GiveUp(t) /\ ~Closed(t) /\ ~Retry(t)
    BY DEF Call, GiveUp, Closed, Retry, Goto
  <2>3. ~RequestBusy(t)
    BY <1>2 DEF RequestBusy
  <2>4. ~RequestLock(t)
    BY <1>1 DEF RequestLock, Goto
  <2>5. ~RequestDone(t)
    BY DEF RequestDone
  <2>6. ~RequestUpdate(t)
    BY <1>1 DEF RequestUpdate, Return
  <2> QED BY <1>8, <2>1, <2>2, <2>3, <2>4, <2>5, <2>6 DEF LibraryStep
<1> QED BY <1>4, <1>5, <1>6, <1>7, <1>8 DEF Next

(***************************************************************************)
(* In a program with one thread a call that returns -1 has done nothing.   *)
(***************************************************************************)
THEOREM FailedCallsDoNothing == Spec => BusyOnlyAtFirst
<1> DEFINE Failing ==
      \A t \in threads :
        threads = {t} /\ status[t] = "running" /\ status'[t] = "busy" => sent[t] = 0
<1>1. LibraryInvariant /\ [Next]_vars => [Failing]_vars
  <2> SUFFICES ASSUME LibraryInvariant, [Next]_vars PROVE Failing
    OBVIOUS
  <2> QED BY BusyStep
<1> QED BY InitIsInvariant, StepKeepsInvariant, <1>1, PTL DEF Spec, BusyOnlyAtFirst
----------------------------------------------------------------------------
(***************************************************************************)
(* The picture.  What the bytes of a call say, once they lie in VRAM.      *)
(***************************************************************************)

\* The lowest byte of a word.
LEMMA LowByte ==
  ASSUME NEW x \in Nat
  PROVE  ByteIn(x, 0) = x % 256
<1>1. <<1, 256, 65536, 16777216>>[0 + 1] = 1 /\ x \div 1 = x
  BY SMT
<1> QED BY <1>1, SMT DEF ByteIn

\* The other bytes of a word.
LEMMA HighBytes ==
  ASSUME NEW x \in Nat
  PROVE  /\ ByteIn(x, 1) = (x \div 256) % 256
         /\ ByteIn(x, 2) = (x \div 65536) % 256
         /\ ByteIn(x, 3) = (x \div 16777216) % 256
<1> DEFINE weights == <<1, 256, 65536, 16777216>>
<1>1. weights[1 + 1] = 256 /\ weights[2 + 1] = 65536 /\ weights[3 + 1] = 16777216
  BY SMT
<1>2. \A b : ByteIn(x, b) = (x \div weights[b + 1]) % 256
  BY SMT DEF ByteIn
<1> HIDE DEF weights
<1> QED BY <1>1, <1>2, SMT

\* A half-word is what its two bytes say.
LEMMA HalfIsRead ==
  ASSUME NEW x \in Nat, x < 65536
  PROVE  ByteIn(x, 0) + 256 * ByteIn(x, 1) = x
<1>1. ByteIn(x, 0) = x % 256
  BY LowByte, SMT
<1>2. ByteIn(x, 1) = (x \div 256) % 256
  BY HighBytes, SMT
<1>3. (x % 256) + 256 * ((x \div 256) % 256) = x
  BY SMT
<1> QED BY <1>1, <1>2, <1>3, SMT

Together(x) == ByteIn(x, 0) + 256 * ByteIn(x, 1) + 65536 * (ByteIn(x, 2) + 256 * ByteIn(x, 3))
HighByte(x) == (x \div 16777216) % 256

\* The bytes of a word, put together: the three low ones, and the high one.
LEMMA WordHasBytes ==
  ASSUME NEW x \in Nat
  PROVE  Together(x) = (x % 16777216) + 16777216 * HighByte(x)
<1> DEFINE a == x % 256
           b == (x \div 256) % 256
           d == (x \div 65536) % 256
           e == (x \div 16777216) % 256
<1>1. ByteIn(x, 0) = a
  BY LowByte, SMT
<1>2. ByteIn(x, 1) = b
  BY HighBytes, SMT
<1>3. ByteIn(x, 2) = d
  BY HighBytes, SMT
<1>4. ByteIn(x, 3) = e
  BY HighBytes, SMT
<1>5. a \in Nat /\ b \in Nat /\ d \in Nat /\ e \in Nat /\ x % 16777216 = a + 256 * b + 65536 * d
  BY SMT
<1> HIDE DEF a, b, d, e
<1>6. a + 256 * b + 65536 * (d + 256 * e) = a + 256 * b + 65536 * d + 16777216 * e
  BY <1>5, SMT
<1> QED BY <1>1, <1>2, <1>3, <1>4, <1>5, <1>6, SMT DEF Together, HighByte, e

\* A word is what its four bytes say.
LEMMA WordIsRead ==
  ASSUME NEW x \in Nat, IsUint32(x)
  PROVE  Together(x) = x
<1>1. x \div 65536 < 65536
  BY SMT DEF IsUint32
<1>2. (x % 16777216) + 16777216 * HighByte(x) = x
  BY <1>1, SMT DEF HighByte
<1> QED BY <1>2, WordHasBytes, SMT

\* A colour is what the first three of its four bytes say.
LEMMA ColorIsRead ==
  ASSUME NEW x \in Nat
  PROVE  Rgb(Together(x)) = Rgb(x)
<1>1. ((x % 16777216) + 16777216 * HighByte(x)) % 16777216 = x % 16777216
  BY SMT DEF HighByte
<1> QED BY <1>1, WordHasBytes, SMT DEF Rgb

\* A tile that ppu_make_tile accepts is what the tile engine makes of its half-word.
LEMMA TileIsDecoded ==
  ASSUME NEW v \in [pattern_addr : Nat, palette_id : Nat, mirror : Nat], AcceptsTile(v)
  PROVE  /\ ppu_make_tile(v) \in Nat /\ ppu_make_tile(v) < 65536
         /\ TileDecode(ppu_make_tile(v)) = v
<1> DEFINE p == v.pattern_addr
           q == v.palette_id
           m == v.mirror
           h == 64 * p + 4 * q + m
<1>1. p \in 0 .. 1023 /\ q \in 0 .. 15 /\ m \in 0 .. 3
  BY DEF AcceptsTile, PATTERN_MAXADDR, TILELAYER_MAX_PALETTES
<1>2. v = [pattern_addr |-> p, palette_id |-> q, mirror |-> m]
  OBVIOUS
<1>3. ppu_make_tile(v) = h
  BY DEF ppu_make_tile
<1> HIDE DEF p, q, m
<1>4. h \in Nat /\ h < 65536 /\ h \div 64 = p /\ (h \div 4) % 16 = q /\ h % 4 = m
  BY <1>1, SMT
<1> HIDE DEF h
<1>5. TileDecode(h) = [pattern_addr |-> p, palette_id |-> q, mirror |-> m]
  BY <1>1, <1>4, SMT DEF TileDecode
<1> QED BY <1>2, <1>3, <1>4, <1>5, SMT

\* A sprite that ppu_write_sprites accepts is what the sprite engine makes of its bytes.
LEMMA SpriteIsDecoded ==
  ASSUME NEW s \in [pattern_addr : Nat, palette_id : Nat, x : Nat, y : Nat,
                    mirror : Nat, height : Nat, width : Nat, prio : Nat], AcceptsSprite(s)
  PROVE  /\ SpriteWord(s) \in Nat /\ IsUint32(SpriteWord(s)) /\ SpriteExtra(s) \in 0 .. 255
         /\ SpriteDecode(SpriteWord(s), SpriteExtra(s)) = s
<1> DEFINE p == s.pattern_addr
           q == s.palette_id
           x == s.x
           y == s.y
           m == s.mirror
           h == s.height
           w == s.width
           o == s.prio
           word == SpriteWord(s)
           extra == SpriteExtra(s)
<1>1. /\ p \in 0 .. 1023 /\ q \in 0 .. 31 /\ y \in 0 .. 255 /\ x \in 0 .. 511
      /\ m \in 0 .. 3 /\ h \in 1 .. 4 /\ w \in 1 .. 4 /\ o \in 0 .. 2
  BY DEF AcceptsSprite, PATTERN_MAXADDR, SPRLAYER_MAX_PALETTES
<1>2. s = [pattern_addr |-> p, palette_id |-> q, y |-> y, x |-> x,
           mirror |-> m, height |-> h, width |-> w, prio |-> o]
  OBVIOUS
<1>3. word = 4194304 * p + 131072 * q + 512 * y + x
  BY SMT DEF SpriteWord
<1>4. extra = m * 64 + (h - 1) * 16 + (w - 1) * 4 + o
  BY DEF SpriteExtra
<1> HIDE DEF p, q, x, y, m, h, w, o, word, extra
<1>5. /\ word \in Nat /\ IsUint32(word)
      /\ word \div 4194304 = p /\ (word \div 131072) % 32 = q
      /\ (word \div 512) % 256 = y /\ word % 512 = x
  <2> DEFINE rest == 131072 * q + 512 * y + x
             low == 512 * y + x
  <2>1. low \in Nat /\ low < 131072 /\ low % 512 = x
    BY <1>1, SMT
  <2>2. rest \in Nat /\ rest < 4194304 /\ word = 4194304 * p + rest
    BY <1>1, <1>3, SMT
  <2>3. word \in Nat /\ word % 512 = x /\ word \div 512 = 8192 * p + 256 * q + y
    BY <1>1, <1>3, SMT
  <2>4. word = 131072 * (32 * p + q) + low
    BY <1>1, <1>3, SMT
  <2> HIDE DEF rest, low
  <2>5. word \div 4194304 = p /\ word \div 65536 < 65536
    BY <1>1, <2>2, SMT
  <2>6. word \div 131072 = 32 * p + q
    BY <1>1, <2>1, <2>4, SMT
  <2>7. (32 * p + q) % 32 = q /\ (8192 * p + 256 * q + y) % 256 = y
    BY <1>1, SMT
  <2>8. IsUint32(word)
    BY <2>5, SMT DEF IsUint32
  <2> QED BY <2>3, <2>5, <2>6, <2>7, <2>8, SMT
<1>6. /\ extra \in 0 .. 255 /\ extra \div 64 = m /\ ((extra \div 16) % 4) + 1 = h
      /\ ((extra \div 4) % 4) + 1 = w /\ extra % 4 = o
  BY <1>1, <1>4, SMT
<1>7. SpriteDecode(word, extra)
        = [pattern_addr |-> p, palette_id |-> q, y |-> y, x |-> x,
           mirror |-> m, height |-> h, width |-> w, prio |-> o]
  BY <1>1, <1>5, <1>6, SMT DEF SpriteDecode
<1> QED BY <1>2, <1>5, <1>6, <1>7, SMT DEF word, extra


----------------------------------------------------------------------------
(* What lies at a place, and what the PPU reads there. *)

\* The addresses that a request writes.
Covered(req) == IF req.op = "pwrite" THEN req.addr .. req.addr + Len(req.bytes) - 1 ELSE {}

\* The byte that call c has to lay at address a of a place.
Laid(c, loc, a) ==
  CASE loc[1] = "tile"    ->
         ByteIn(ppu_make_tile(Drawn(c)[loc]), a - TileByte(loc[2], loc[3], loc[4]))
    [] loc[1] = "pattern" -> ByteIn(Drawn(c)[loc], a - PatternByte(loc[2], loc[3], loc[4]))
    [] loc[1] = "color"   -> ByteIn(c.color[loc[4]], a - ColorByte(loc[2], loc[3], loc[4]))
    [] loc[1] = "sprite"  ->
         IF a = OamExtByte(loc[2]) THEN SpriteExtra(Drawn(c)[loc])
         ELSE ByteIn(SpriteWord(Drawn(c)[loc]), a - OamMainByte(loc[2]))
    [] OTHER              -> Drawn(c)[loc]

\* Call c lays all the bytes of a place, and nothing else there.
LaysAt(c, loc) ==
  \A a \in Bytes(loc) :
     /\ \E i \in DOMAIN Requests(c) : a \in Covered(Requests(c)[i])
     /\ \A i \in DOMAIN Requests(c) :
          a \in Covered(Requests(c)[i]) => Stored(Requests(c)[i])[a] = Laid(c, loc, a)

Lays(c) == \A loc \in DOMAIN Drawn(c) : LaysAt(c, loc)

\* The bytes of a place, and its register, are what call c has to put there.
Lies(c, loc, bytes, regs) ==
  /\ \A a \in Bytes(loc) : ByteAt(bytes, a) = Laid(c, loc, a)
  /\ loc[1] = "reg" => regs[loc[2]] = Requests(c)[1].param

\* The PPU then reads there what call c has drawn.
Legible(c, loc) ==
  \A bytes, regs : Lies(c, loc, bytes, regs) => Reads(bytes, regs, loc) = Drawn(c)[loc]

\* What a write of n-byte words stores: byte b of word k.
LEMMA PackedBytes ==
  ASSUME NEW words, NEW n \in {2, 4}, Len(words) \in Nat, NEW addr \in Nat
  PROVE  /\ Covered(Pwrite(addr, Packed(words, n))) = addr .. addr + n * Len(words) - 1
         /\ \A k \in 1 .. Len(words), b \in 0 .. n - 1 :
              Stored(Pwrite(addr, Packed(words, n)))[addr + n * (k - 1) + b] = ByteIn(words[k], b)
<1> DEFINE len == Len(words)
           bytes == Packed(words, n)
           req == Pwrite(addr, bytes)
           byte(j) == ByteIn(words[((j - 1) \div n) + 1], (j - 1) % n)
<1>1. Len(bytes) = n * len
  BY PackedLen
<1>2. bytes = [j \in 1 .. n * len |-> byte(j)]
  BY DEF Packed
<1>3. len \in Nat /\ n * len \in Nat
  OBVIOUS
<1> HIDE DEF len, bytes, byte
<1>4. req.op = "pwrite" /\ req.addr = addr /\ req.bytes = bytes
  BY DEF Pwrite
<1> HIDE DEF req
<1>5. Covered(req) = addr .. addr + n * len - 1
  BY <1>1, <1>4 DEF Covered
<1>6. Stored(req) = [a \in addr .. addr + n * len - 1 |-> bytes[a - addr + 1]]
  BY <1>1, <1>4 DEF Stored
<1>7. ASSUME NEW k \in 1 .. len, NEW b \in 0 .. n - 1
      PROVE  Stored(req)[addr + n * (k - 1) + b] = ByteIn(words[k], b)
  <2> DEFINE j == n * (k - 1) + b + 1
  <2>1. j \in 1 .. n * len /\ ((j - 1) \div n) + 1 = k /\ (j - 1) % n = b
    <3>1. CASE n = 2
      BY <1>3, <3>1
    <3>2. CASE n = 4
      BY <1>3, <3>2
    <3> QED BY <3>1, <3>2
  <2>2. byte(j) = ByteIn(words[k], b)
    BY <2>1 DEF byte
  <2>3. addr + n * (k - 1) + b \in addr .. addr + n * len - 1
          /\ addr + n * (k - 1) + b - addr + 1 = j
    <3>1. CASE n = 2
      BY <1>3, <2>1, <3>1
    <3>2. CASE n = 4
      BY <1>3, <2>1, <3>2
    <3> QED BY <3>1, <3>2
  <2> HIDE DEF j
  <2>4. Stored(req)[addr + n * (k - 1) + b] = bytes[j]
    BY <1>6, <2>3
  <2>5. bytes[j] = byte(j)
    BY <1>2, <2>1
  <2> QED BY <2>2, <2>4, <2>5
<1> QED BY <1>5, <1>7 DEF len, req, bytes

\* What the PPU reads of a place, place by place.
LEMMA ReadsAre ==
  ASSUME NEW bytes, NEW regs
  PROVE  /\ \A layer, x, y : Reads(bytes, regs, TileAt(layer, x, y))
                               = TileDecode(HalfAt(bytes, TileByte(layer, x, y)))
         /\ \A x, y, row : Reads(bytes, regs, PatternRowAt(x, y, row))
                             = WordAt(bytes, PatternByte(x, y, row))
         /\ \A layer, palette, i : Reads(bytes, regs, ColorAt(layer, palette, i))
                             = Rgb(WordAt(bytes, ColorByte(layer, palette, i)))
         /\ \A id : Reads(bytes, regs, SpriteAt(id))
                      = SpriteDecode(WordAt(bytes, OamMainByte(id)), ByteAt(bytes, OamExtByte(id)))
         /\ \A addr : Reads(bytes, regs, ByteOf(addr)) = ByteAt(bytes, addr)
<1>1. \A layer, x, y : Reads(bytes, regs, TileAt(layer, x, y))
                         = TileDecode(HalfAt(bytes, TileByte(layer, x, y)))
  BY SMT DEF Reads, TileAt
<1>2. \A x, y, row : Reads(bytes, regs, PatternRowAt(x, y, row))
                       = WordAt(bytes, PatternByte(x, y, row))
  BY SMT DEF Reads, PatternRowAt
<1>3. \A layer, palette, i : Reads(bytes, regs, ColorAt(layer, palette, i))
                       = Rgb(WordAt(bytes, ColorByte(layer, palette, i)))
  BY SMT DEF Reads, ColorAt
<1>4. \A id : Reads(bytes, regs, SpriteAt(id))
                = SpriteDecode(WordAt(bytes, OamMainByte(id)), ByteAt(bytes, OamExtByte(id)))
  BY SMT DEF Reads, SpriteAt
<1>5. \A addr : Reads(bytes, regs, ByteOf(addr)) = ByteAt(bytes, addr)
  BY SMT DEF Reads, ByteOf
<1> QED BY <1>1, <1>2, <1>3, <1>4, <1>5, SMT

\* What call c has to lay, place by place.
LEMMA LaidIs ==
  ASSUME NEW c
  PROVE  /\ \A layer, x, y, a : Laid(c, TileAt(layer, x, y), a)
              = ByteIn(ppu_make_tile(Drawn(c)[TileAt(layer, x, y)]), a - TileByte(layer, x, y))
         /\ \A x, y, row, a : Laid(c, PatternRowAt(x, y, row), a)
              = ByteIn(Drawn(c)[PatternRowAt(x, y, row)], a - PatternByte(x, y, row))
         /\ \A layer, palette, i, a : Laid(c, ColorAt(layer, palette, i), a)
              = ByteIn(c.color[i], a - ColorByte(layer, palette, i))
         /\ \A id, a : Laid(c, SpriteAt(id), a)
              = IF a = OamExtByte(id) THEN SpriteExtra(Drawn(c)[SpriteAt(id)])
                ELSE ByteIn(SpriteWord(Drawn(c)[SpriteAt(id)]), a - OamMainByte(id))
         /\ \A addr, a : Laid(c, ByteOf(addr), a) = Drawn(c)[ByteOf(addr)]
<1>1. \A layer, x, y, a : Laid(c, TileAt(layer, x, y), a)
        = ByteIn(ppu_make_tile(Drawn(c)[TileAt(layer, x, y)]), a - TileByte(layer, x, y))
  BY SMT DEF Laid, TileAt
<1>2. \A x, y, row, a : Laid(c, PatternRowAt(x, y, row), a)
        = ByteIn(Drawn(c)[PatternRowAt(x, y, row)], a - PatternByte(x, y, row))
  BY SMT DEF Laid, PatternRowAt
<1>3. \A layer, palette, i, a : Laid(c, ColorAt(layer, palette, i), a)
        = ByteIn(c.color[i], a - ColorByte(layer, palette, i))
  BY SMT DEF Laid, ColorAt
<1>4. \A id, a : Laid(c, SpriteAt(id), a)
        = IF a = OamExtByte(id) THEN SpriteExtra(Drawn(c)[SpriteAt(id)])
          ELSE ByteIn(SpriteWord(Drawn(c)[SpriteAt(id)]), a - OamMainByte(id))
  BY SMT DEF Laid, SpriteAt
<1>5. \A addr, a : Laid(c, ByteOf(addr), a) = Drawn(c)[ByteOf(addr)]
  BY SMT DEF Laid, ByteOf
<1> QED BY <1>1, <1>2, <1>3, <1>4, <1>5

\* Four bytes in a row are a word.
LEMMA WordOfBytes ==
  ASSUME NEW bytes, NEW at \in Nat, NEW w, \A b \in 0 .. 3 : ByteAt(bytes, at + b) = ByteIn(w, b)
  PROVE  WordAt(bytes, at) = Together(w)
<1>1. WordAt(bytes, at)
        = ByteAt(bytes, at) + 256 * ByteAt(bytes, at + 1)
            + 65536 * (ByteAt(bytes, at + 2) + 256 * ByteAt(bytes, at + 2 + 1))
  BY SMT DEF WordAt, HalfAt
<1>2. at + 0 = at /\ at + 2 + 1 = at + 3
  OBVIOUS
<1>3. /\ ByteAt(bytes, at) = ByteIn(w, 0) /\ ByteAt(bytes, at + 1) = ByteIn(w, 1)
      /\ ByteAt(bytes, at + 2) = ByteIn(w, 2) /\ ByteAt(bytes, at + 2 + 1) = ByteIn(w, 3)
  <2>1. \A b \in 0 .. 3 : ByteAt(bytes, at + b) = ByteIn(w, b)
    OBVIOUS
  <2>2. 0 \in 0 .. 3 /\ 1 \in 0 .. 3 /\ 2 \in 0 .. 3 /\ 3 \in 0 .. 3
    OBVIOUS
  <2> QED BY <1>2, <2>1, <2>2
<1> QED BY <1>1, <1>3, SMT DEF Together

\* A tile.
LEMMA TileIsLegible ==
  ASSUME NEW c, NEW layer, NEW x \in Cell, NEW y \in Cell,
         Drawn(c)[TileAt(layer, x, y)] \in [pattern_addr : Nat, palette_id : Nat, mirror : Nat],
         AcceptsTile(Drawn(c)[TileAt(layer, x, y)])
  PROVE  Legible(c, TileAt(layer, x, y))
<1> DEFINE loc == TileAt(layer, x, y)
           at == TileByte(layer, x, y)
           v == Drawn(c)[loc]
           h == ppu_make_tile(v)
<1>1. h \in Nat /\ h < 65536 /\ TileDecode(h) = v
  BY TileIsDecoded, SMT
<1>2. Bytes(loc) = at .. at + 1
  BY BytesAre
<1>3. at \in Nat
  BY TileByteIs
<1>4. \A a : Laid(c, loc, a) = ByteIn(h, a - at)
  BY LaidIs
<1> HIDE DEF at, h, v
<1>5. ASSUME NEW bytes, NEW regs, \A a \in Bytes(loc) : ByteAt(bytes, a) = Laid(c, loc, a)
      PROVE  Reads(bytes, regs, loc) = v
  <2>1. Reads(bytes, regs, loc) = TileDecode(HalfAt(bytes, at))
    BY ReadsAre, SMT DEF at
  <2> HIDE DEF loc
  <2>2. at \in Bytes(loc) /\ at + 1 \in Bytes(loc) /\ at - at = 0 /\ at + 1 - at = 1
    BY <1>2, <1>3
  <2>3. ByteAt(bytes, at) = Laid(c, loc, at) /\ ByteAt(bytes, at + 1) = Laid(c, loc, at + 1)
    BY <1>5, <2>2
  <2>4. ByteAt(bytes, at) = ByteIn(h, 0) /\ ByteAt(bytes, at + 1) = ByteIn(h, 1)
    BY <1>3, <1>4, <2>2, <2>3
  <2>5. HalfAt(bytes, at) = ByteIn(h, 0) + 256 * ByteIn(h, 1)
    BY <2>4, SMT DEF HalfAt
  <2>6. ByteIn(h, 0) + 256 * ByteIn(h, 1) = h
    BY <1>1, HalfIsRead, SMT
  <2> QED BY <1>1, <2>1, <2>5, <2>6, SMT
<1> HIDE DEF loc
<1> QED BY <1>5 DEF Legible, Lies, v, loc

\* A row of a pattern.
LEMMA PatternRowIsLegible ==
  ASSUME NEW c, NEW x \in 0 .. 31, NEW y \in 0 .. 31, NEW row \in 0 .. 7,
         Drawn(c)[PatternRowAt(x, y, row)] \in Nat, IsUint32(Drawn(c)[PatternRowAt(x, y, row)])
  PROVE  Legible(c, PatternRowAt(x, y, row))
<1> DEFINE loc == PatternRowAt(x, y, row)
           at == PatternByte(x, y, row)
           v == Drawn(c)[loc]
<1>1. at \in Nat
  BY DEF PatternByte, VRAM_PATTERNOFFSET
<1>2. Bytes(loc) = at .. at + 3
  BY BytesAre
<1>3. \A a : Laid(c, loc, a) = ByteIn(v, a - at)
  BY LaidIs
<1>4. v \in Nat /\ IsUint32(v)
  OBVIOUS
<1> HIDE DEF at, v
<1>5. ASSUME NEW bytes, NEW regs, \A a \in Bytes(loc) : ByteAt(bytes, a) = Laid(c, loc, a)
      PROVE  Reads(bytes, regs, loc) = v
  <2>1. Reads(bytes, regs, loc) = WordAt(bytes, at)
    BY ReadsAre, SMT DEF at
  <2> HIDE DEF loc
  <2>2. ASSUME NEW b \in 0 .. 3
        PROVE  ByteAt(bytes, at + b) = ByteIn(v, b)
    <3>1. at + b \in at .. at + 3 /\ at + b - at = b
      BY <1>1, SMT
    <3>2. ByteAt(bytes, at + b) = Laid(c, loc, at + b)
      BY <1>2, <1>5, <3>1, SMT
    <3> QED BY <1>1, <1>3, <3>1, <3>2, SMT
  <2>3. WordAt(bytes, at) = Together(v)
    BY <1>1, <2>2, WordOfBytes, SMT
  <2> QED BY <1>4, <2>1, <2>3, WordIsRead, SMT
<1> HIDE DEF loc
<1> QED BY <1>5 DEF Legible, Lies, v, loc

\* A colour, of which the last byte is ignored.
LEMMA ColorIsLegible ==
  ASSUME NEW c, NEW layer, NEW palette, NEW i, ColorByte(layer, palette, i) \in Nat,
         c.color[i] \in Nat, Drawn(c)[ColorAt(layer, palette, i)] = Rgb(c.color[i])
  PROVE  Legible(c, ColorAt(layer, palette, i))
<1> DEFINE loc == ColorAt(layer, palette, i)
           at == ColorByte(layer, palette, i)
           w == c.color[i]
<1>1. at \in Nat /\ w \in Nat
  BY SMT
<1>2. Bytes(loc) = at .. at + 3
  BY BytesAre, SMT
<1>3. \A a : Laid(c, loc, a) = ByteIn(w, a - at)
  BY LaidIs, SMT
<1>4. Drawn(c)[loc] = Rgb(w)
  BY SMT
<1> HIDE DEF at, w
<1>5. ASSUME NEW bytes, NEW regs, \A a \in Bytes(loc) : ByteAt(bytes, a) = Laid(c, loc, a)
      PROVE  Reads(bytes, regs, loc) = Drawn(c)[loc]
  <2>1. Reads(bytes, regs, loc) = Rgb(WordAt(bytes, at))
    BY ReadsAre, SMT DEF at
  <2> HIDE DEF loc
  <2>2. ASSUME NEW b \in 0 .. 3
        PROVE  ByteAt(bytes, at + b) = ByteIn(w, b)
    <3>1. at + b \in at .. at + 3 /\ at + b - at = b
      BY <1>1, SMT
    <3>2. ByteAt(bytes, at + b) = Laid(c, loc, at + b)
      BY <1>2, <1>5, <3>1, SMT
    <3> QED BY <1>1, <1>3, <3>1, <3>2, SMT
  <2>3. WordAt(bytes, at) = Together(w)
    BY <1>1, <2>2, WordOfBytes, SMT
  <2> QED BY <1>1, <1>4, <2>1, <2>3, ColorIsRead, SMT
<1> HIDE DEF loc
<1> QED BY <1>5, SMT DEF Legible, Lies, loc

\* A sprite.
LEMMA SpriteIsLegible ==
  ASSUME NEW c, NEW id \in Nat, id < 64,
         Drawn(c)[SpriteAt(id)] \in [pattern_addr : Nat, palette_id : Nat, x : Nat, y : Nat,
                                     mirror : Nat, height : Nat, width : Nat, prio : Nat],
         AcceptsSprite(Drawn(c)[SpriteAt(id)])
  PROVE  Legible(c, SpriteAt(id))
<1> DEFINE loc == SpriteAt(id)
           at == OamMainByte(id)
           ext == OamExtByte(id)
           v == Drawn(c)[loc]
           w == SpriteWord(v)
           e == SpriteExtra(v)
<1>1. w \in Nat /\ IsUint32(w) /\ SpriteDecode(w, e) = v
  BY SpriteIsDecoded
<1>2. Bytes(loc) = (at .. at + 3) \cup {ext}
  BY BytesAre
<1>3. at \in Nat /\ ext \notin at .. at + 3
  BY DEF OamMainByte, OamExtByte, VRAM_SPRITESOFFSET, SPRITE_MAXCOUNT
<1>4. \A a : Laid(c, loc, a) = IF a = ext THEN e ELSE ByteIn(w, a - at)
  BY LaidIs
<1> HIDE DEF at, ext, v, w, e
<1>5. ASSUME NEW bytes, NEW regs, \A a \in Bytes(loc) : ByteAt(bytes, a) = Laid(c, loc, a)
      PROVE  Reads(bytes, regs, loc) = v
  <2>1. Reads(bytes, regs, loc) = SpriteDecode(WordAt(bytes, at), ByteAt(bytes, ext))
    BY ReadsAre, SMT DEF at, ext
  <2> HIDE DEF loc
  <2>2. ByteAt(bytes, ext) = e
    BY <1>2, <1>4, <1>5
  <2>3. ASSUME NEW b \in 0 .. 3
        PROVE  ByteAt(bytes, at + b) = ByteIn(w, b)
    <3>1. at + b \in at .. at + 3 /\ at + b - at = b
      BY <1>3
    <3>2. at + b \in Bytes(loc) /\ at + b # ext
      BY <1>2, <1>3, <3>1
    <3>3. ByteAt(bytes, at + b) = Laid(c, loc, at + b)
      BY <1>5, <3>2
    <3> QED BY <1>3, <1>4, <3>1, <3>2, <3>3
  <2>4. WordAt(bytes, at) = Together(w)
    BY <1>3, <2>3, WordOfBytes
  <2>5. Together(w) = w
    BY <1>1, WordIsRead, SMT
  <2> QED BY <1>1, <2>1, <2>2, <2>4, <2>5, SMT
<1> HIDE DEF loc
<1> QED BY <1>5 DEF Legible, Lies, v, loc

\* A byte.
LEMMA ByteIsLegible ==
  ASSUME NEW c, NEW addr
  PROVE  Legible(c, ByteOf(addr))
<1> DEFINE loc == ByteOf(addr)
<1>1. Bytes(loc) = {addr} /\ \A a : Laid(c, loc, a) = Drawn(c)[loc]
  BY BytesAre, LaidIs
<1>2. \A bytes, regs : Reads(bytes, regs, loc) = ByteAt(bytes, addr)
  BY ReadsAre, SMT
<1> HIDE DEF loc
<1>3. Legible(c, loc)
  BY <1>1, <1>2 DEF Legible, Lies
<1> QED BY <1>3 DEF loc

(***************************************************************************)
(* What each call sends, lies where the PPU looks for it.                  *)
(***************************************************************************)

\* A request that sets a register is the only one of its call, and the register
\* its only place; a call that ends with a hand-off draws nothing.
Sets(c) ==
  /\ \A i \in DOMAIN Requests(c) :
       /\ Requests(c)[i].op = "set" =>
            /\ Len(Requests(c)) = 1 /\ Requests(c)[1].reg \in Registers
            /\ DOMAIN Drawn(c) = {Setting(Requests(c)[1].reg)}
       /\ Requests(c)[i].op = "update" => DOMAIN Drawn(c) = {}
  /\ \A loc \in DOMAIN Drawn(c) :
       loc[1] = "reg" => /\ Len(Requests(c)) = 1 /\ Requests(c)[1].op = "set"
                         /\ loc = Setting(Requests(c)[1].reg)

\* What is to be shown of each call.
Honest(c) == Lays(c) /\ Sets(c) /\ \A loc \in DOMAIN Drawn(c) : Legible(c, loc)

\* A call all of whose requests are writes, to places in VRAM.
LEMMA WritesSetNothing ==
  ASSUME NEW c, \A i \in DOMAIN Requests(c) : Requests(c)[i].op = "pwrite",
         \A loc \in DOMAIN Drawn(c) : loc[1] # "reg"
  PROVE  Sets(c)
BY DEF Sets

\* A call that sets a register.
LEMMA SettingIsHonest ==
  ASSUME NEW c, NEW reg \in Registers, NEW param, NEW v,
         Requests(c) = <<IoctlSet(reg, param)>>, Drawn(c) = Only(Setting(reg), v),
         (IF reg \in {"bgscroll", "fgscroll"} THEN ScrollDecode(param) ELSE param) = v
  PROVE  Honest(c)
<1> DEFINE loc == Setting(reg)
           req == IoctlSet(reg, param)
<1>1. loc[1] = "reg" /\ loc[2] = reg /\ Bytes(loc) = {}
  BY DEF Setting, Bytes
<1>2. req.op = "set" /\ req.reg = reg /\ req.param = param
  BY DEF IoctlSet
<1>3. Len(Requests(c)) = 1 /\ DOMAIN Requests(c) = {1} /\ Requests(c)[1] = req
  BY DEF req
<1>4. DOMAIN Drawn(c) = {loc} /\ Drawn(c)[loc] = v
  BY DEF Only
<1>5. \A bytes, regs :
        Reads(bytes, regs, loc)
          = IF reg \in {"bgscroll", "fgscroll"} THEN ScrollDecode(regs[reg]) ELSE regs[reg]
  BY DEF Reads, Setting
<1> HIDE DEF req
<1>6. Sets(c)
  BY <1>2, <1>3, <1>4 DEF Sets
<1> HIDE DEF loc
<1>7. Lays(c)
  BY <1>1, <1>4 DEF Lays, LaysAt
<1>8. Legible(c, loc)
  BY <1>1, <1>2, <1>3, <1>4, <1>5 DEF Legible, Lies
<1> QED BY <1>4, <1>6, <1>7, <1>8 DEF Honest

\* ppu_set_bgcolor, ppu_set_scroll, ppu_set_layer_enable and ppu_update.
LEMMA RegistersAreHonest ==
  ASSUME NEW c, Accepts(c), InRange(c), c.fn \in {"bgcolor", "scroll", "enable", "update"}
  PROVE  Honest(c)
<1>1. CASE c.fn = "bgcolor"
  <2>1. /\ Requests(c) = <<IoctlSet("bgcolor", Rgb(c.color))>>
        /\ Drawn(c) = Only(Setting("bgcolor"), Rgb(c.color))
    BY <1>1 DEF Requests, ppu_set_bgcolor, Drawn
  <2>2. "bgcolor" \in Registers /\ "bgcolor" \notin {"bgscroll", "fgscroll"}
    BY DEF Registers
  <2> QED BY <2>1, <2>2, SettingIsHonest
<1>2. CASE c.fn = "scroll"
  <2> DEFINE reg == IF c.layer = LAYER_FG THEN "fgscroll" ELSE "bgscroll"
             param == 65536 * c.scroll_y + c.scroll_x
             v == <<c.scroll_x, c.scroll_y>>
  <2>1. Requests(c) = <<IoctlSet(reg, param)>>
    BY <1>2, SMT DEF Requests, ppu_set_scroll
  <2>2. Drawn(c) = Only(Setting(reg), v)
    BY <1>2, SMT DEF Drawn
  <2>3. ScrollDecode(param) = v
    <3> DEFINE x == c.scroll_x
               y == c.scroll_y
    <3>1. x \in 0 .. 511 /\ y \in 0 .. 511
      BY <1>2, SMT DEF InRange
    <3> HIDE DEF x, y
    <3>2. (65536 * y + x) % 512 = x /\ ((65536 * y + x) \div 65536) % 512 = y
      BY <3>1, SMT
    <3>3. ScrollDecode(65536 * y + x) = <<x, y>>
      BY <3>2, SMT DEF ScrollDecode
    <3> QED BY <3>3, SMT DEF x, y
  <2>4. reg \in Registers /\ reg \in {"bgscroll", "fgscroll"}
    BY SMT DEF Registers
  <2> HIDE DEF reg, param, v
  <2> QED BY <2>1, <2>2, <2>3, <2>4, SettingIsHonest
<1>3. CASE c.fn = "enable"
  <2>1. /\ Requests(c) = <<IoctlSet("enable", c.mask % 8)>>
        /\ Drawn(c) = Only(Setting("enable"), c.mask % 8)
    BY <1>3 DEF Requests, ppu_set_layer_enable, Drawn
  <2>2. "enable" \in Registers /\ "enable" \notin {"bgscroll", "fgscroll"}
    BY DEF Registers
  <2> QED BY <2>1, <2>2, SettingIsHonest
<1>4. CASE c.fn = "update"
  <2>1. Drawn(c) = <<>>
    BY <1>4 DEF Drawn
  <2>2. Requests(c) = <<IoctlUpdate>>
    BY <1>4 DEF Requests, ppu_update
  <2>3. DOMAIN Drawn(c) = {}
    BY <2>1
  <2>4. \A i \in DOMAIN Requests(c) : Requests(c)[i].op = "update"
    BY <2>2 DEF IoctlUpdate
  <2> QED BY <2>3, <2>4 DEF Honest, Lays, LaysAt, Sets
<1> QED BY <1>1, <1>2, <1>3, <1>4

\* A call of one write that holds what its places have to hold.
LEMMA OneWriteIsHonest ==
  ASSUME NEW c, NEW req, Requests(c) = <<req>>, req.op = "pwrite",
         \A loc \in DOMAIN Drawn(c) :
           /\ loc[1] # "reg" /\ Legible(c, loc)
           /\ \A a \in Bytes(loc) : a \in Covered(req) /\ Stored(req)[a] = Laid(c, loc, a)
  PROVE  Honest(c)
<1>1. DOMAIN Requests(c) = {1} /\ Requests(c)[1] = req
  OBVIOUS
<1>2. Lays(c)
  BY <1>1 DEF Lays, LaysAt
<1>3. Sets(c)
  BY <1>1, WritesSetNothing
<1> QED BY <1>2, <1>3 DEF Honest

\* ppu_write_vram.
LEMMA VramIsHonest ==
  ASSUME NEW c, IsCall(c), c.fn = "vram", Accepts(c)
  PROVE  Honest(c)
<1> DEFINE from == c.offset
           bytes == c.bytes
           places == {ByteOf(from + i - 1) : i \in DOMAIN bytes}
           req == Pwrite(from, bytes)
           byte(l) == bytes[l[2] - from + 1]
<1>1. from \in Nat /\ Len(bytes) \in Nat /\ DOMAIN bytes = 1 .. Len(bytes)
  <2>1. c.offset \in Nat /\ c.bytes \in Seq(0 .. 255)
    BY DEF IsCall
  <2> QED BY <2>1
<1>2. Requests(c) = <<req>>
  BY DEF Requests, ppu_write_vram
<1>3. Drawn(c) = [l \in places |-> byte(l)]
  BY DEF Drawn
<1>4. req.op = "pwrite" /\ req.addr = from /\ req.bytes = bytes
  BY DEF Pwrite
<1> HIDE DEF from, bytes, req
<1>5. ASSUME NEW loc \in places
      PROVE  /\ loc[1] # "reg" /\ Legible(c, loc)
             /\ \A a \in Bytes(loc) : a \in Covered(req) /\ Stored(req)[a] = Laid(c, loc, a)
  <2>1. PICK i \in DOMAIN bytes : loc = ByteOf(from + i - 1)
    OBVIOUS
  <2> DEFINE at == from + i - 1
  <2>2. Bytes(loc) = {at} /\ Laid(c, loc, at) = Drawn(c)[loc]
    BY <2>1, BytesAre, LaidIs
  <2>3. loc[1] # "reg" /\ loc[2] = at
    BY <2>1 DEF ByteOf
  <2>4. Drawn(c)[loc] = bytes[at - from + 1]
    BY <1>3, <2>3
  <2>5. at \in from .. from + Len(bytes) - 1
    BY <1>1
  <2>6. at \in Covered(req) /\ Stored(req)[at] = bytes[at - from + 1]
    BY <1>4, <2>5 DEF Covered, Stored
  <2>7. Legible(c, loc)
    BY <2>1, ByteIsLegible
  <2> QED BY <2>2, <2>3, <2>4, <2>6, <2>7
<1> HIDE DEF places, byte
<1>6. DOMAIN Drawn(c) = places
  BY <1>3
<1> QED BY <1>2, <1>4, <1>5, <1>6, OneWriteIsHonest

\* ppu_write_palette.
LEMMA PaletteIsHonest ==
  ASSUME NEW c, IsCall(c), c.fn = "palette", Accepts(c)
  PROVE  Honest(c)
<1> DEFINE base == PaletteBase(c)
           addr == 49152 + base + 4
           req == Pwrite(addr, Packed(c.color, 4))
           place(i) == ColorAt(c.layer, c.palette_id, i)
           places == {place(i) : i \in 1 .. 15}
           start(i) == ColorByte(c.layer, c.palette_id, i)
           color(l) == Rgb(c.color[l[4]])
<1>1. base \in Nat /\ base <= 4032 /\ \A i \in 1 .. 15 : start(i) = 49152 + base + 4 * i
  BY PaletteStarts
<1>2. Requests(c) = <<req>>
  BY PaletteRequests
<1>3. Drawn(c) = [l \in places |-> color(l)]
  BY DEF Drawn
<1>4. Len(c.color) = 15 /\ \A i \in 1 .. 15 : c.color[i] \in Nat
  BY DEF IsCall
<1>5. req.op = "pwrite"
  BY DEF Pwrite
<1> HIDE DEF base
<1>6. addr \in Nat
  BY <1>1
<1> HIDE DEF addr
<1>7. /\ Covered(req) = addr .. addr + 4 * 15 - 1
      /\ \A k \in 1 .. 15, b \in 0 .. 3 :
           Stored(req)[addr + 4 * (k - 1) + b] = ByteIn(c.color[k], b)
  <2>1. Len(c.color) \in Nat /\ 4 \in {2, 4} /\ 4 - 1 = 3
    BY <1>4
  <2>2. /\ Covered(req) = addr .. addr + 4 * Len(c.color) - 1
        /\ \A k \in 1 .. Len(c.color), b \in 0 .. 4 - 1 :
             Stored(req)[addr + 4 * (k - 1) + b] = ByteIn(c.color[k], b)
    BY <1>6, <2>1, PackedBytes
  <2> HIDE DEF req
  <2> QED BY <1>4, <2>1, <2>2
<1> HIDE DEF req, start
<1>8. ASSUME NEW i \in 1 .. 15
      PROVE  /\ place(i)[1] # "reg" /\ Legible(c, place(i))
             /\ \A a \in Bytes(place(i)) :
                  a \in Covered(req) /\ Stored(req)[a] = Laid(c, place(i), a)
  <2>1. Bytes(place(i)) = start(i) .. start(i) + 3
    BY BytesAre DEF start
  <2>2. \A a : Laid(c, place(i), a) = ByteIn(c.color[i], a - start(i))
    BY LaidIs DEF start
  <2>3. place(i)[1] = "color" /\ place(i)[4] = i
    BY DEF ColorAt
  <2>4. Drawn(c)[place(i)] = Rgb(c.color[i])
    BY <1>3, <2>3
  <2>5. start(i) \in Nat /\ start(i) = addr + 4 * (i - 1)
    BY <1>1 DEF addr
  <2>6. Legible(c, place(i))
    BY <1>4, <2>4, <2>5, ColorIsLegible DEF start
  <2> HIDE DEF place
  <2>7. ASSUME NEW a \in Bytes(place(i))
        PROVE  a \in Covered(req) /\ Stored(req)[a] = Laid(c, place(i), a)
    <3> DEFINE b == a - start(i)
    <3>1. b \in 0 .. 3 /\ a = addr + 4 * (i - 1) + b
      BY <1>6, <2>1, <2>5
    <3>2. Laid(c, place(i), a) = ByteIn(c.color[i], b)
      BY <2>2
    <3> HIDE DEF b
    <3>3. a \in addr .. addr + 4 * 15 - 1
      BY <1>6, <3>1
    <3> QED BY <1>7, <3>1, <3>2, <3>3
  <2>8. place(i)[1] # "reg"
    BY <2>3
  <2> QED BY <2>6, <2>7, <2>8
<1> HIDE DEF place, color
<1>9. DOMAIN Drawn(c) = places
  BY <1>3
<1> QED BY <1>2, <1>5, <1>8, <1>9, OneWriteIsHonest

\* ppu_write_sprites, of one sprite at most: a word in the one table, a byte in the other.
LEMMA SpritesAreHonest ==
  ASSUME NEW c, IsCall(c), c.fn = "sprites", Accepts(c), InRange(c)
  PROVE  Honest(c)
<1> DEFINE id == c.sprite_id
           n == Len(c.sprites)
           words == [i \in DOMAIN c.sprites |-> SpriteWord(c.sprites[i])]
           extras == [i \in DOMAIN c.sprites |-> SpriteExtra(c.sprites[i])]
           main == 53248 + id * 4
           ext == 53504 + id
           first == Pwrite(main, Packed(words, 4))
           second == Pwrite(ext, SubSeq(Packed(extras, 4), 1, Len(extras)))
           places == {SpriteAt(id + i - 1) : i \in DOMAIN c.sprites}
           sprite(l) == c.sprites[l[2] - id + 1]
           s == c.sprites[1]
           loc == SpriteAt(id)
<1>1. id \in Nat /\ n \in Nat /\ DOMAIN c.sprites = 1 .. n /\ id + n <= 64
  BY SpritesStart
<1>2. Requests(c) = <<first, second>>
  BY SpriteRequests
<1>3. Drawn(c) = [l \in places |-> sprite(l)]
  BY DEF Drawn
<1>4. n <= 1
  BY DEF InRange
<1>5. first.op = "pwrite" /\ second.op = "pwrite"
  BY DEF Pwrite
<1>6. DOMAIN Requests(c) = {1, 2} /\ Requests(c)[1] = first /\ Requests(c)[2] = second
  BY <1>2
<1>7. \A l \in places : l[1] = "sprite"
  BY DEF SpriteAt
<1>8. DOMAIN Drawn(c) = places
  BY <1>3
<1>9. Sets(c)
  <2> HIDE DEF first, second, places
  <2> QED BY <1>5, <1>6, <1>7, <1>8, WritesSetNothing
<1>10. CASE n = 0
  <2>1. places = {}
    BY <1>1, <1>10
  <2> HIDE DEF places
  <2> QED BY <1>8, <1>9, <2>1 DEF Honest, Lays, LaysAt
<1>11. CASE n = 1
  <2>1. DOMAIN c.sprites = {1} /\ places = {loc}
    BY <1>1, <1>11
  <2>2. s \in [pattern_addr : Nat, palette_id : Nat, x : Nat, y : Nat,
               mirror : Nat, height : Nat, width : Nat, prio : Nat]
    <3> DEFINE S == [pattern_addr : Nat, palette_id : Nat, x : Nat, y : Nat,
                     mirror : Nat, height : Nat, width : Nat, prio : Nat]
    <3>1. c.sprites \in Seq(S)
      BY DEF IsCall
    <3> HIDE DEF S
    <3>2. s \in S
      BY <2>1, <3>1
    <3> QED BY <3>2 DEF S
  <2>3. AcceptsSprite(s)
    <3>1. AcceptsSprites(c)
      BY DEF Accepts
    <3> QED BY <2>1, <3>1 DEF AcceptsSprites
  <2>4. Drawn(c)[loc] = s
    <3>1. loc[2] = id /\ loc \in places
      BY <2>1 DEF SpriteAt
    <3>2. sprite(loc) = s
      BY <1>1, <3>1
    <3> HIDE DEF places, sprite, loc, s
    <3> QED BY <1>3, <3>1, <3>2
  <2>5. id < 64
    BY <1>1, <1>11
  <2>6. Legible(c, loc)
    <3> HIDE DEF s, id
    <3> QED BY <1>1, <2>2, <2>3, <2>4, <2>5, SpriteIsLegible
  <2>7. words = <<SpriteWord(s)>> /\ extras = <<SpriteExtra(s)>>
    BY <2>1
  <2>8. SpriteExtra(s) \in 0 .. 255
    <3> HIDE DEF s
    <3> QED BY <2>2, <2>3, SpriteIsDecoded, SMT
  <2> DEFINE w == SpriteWord(s)
             e == SpriteExtra(s)
  <2>9. /\ Bytes(loc) = (main .. main + 3) \cup {ext}
        /\ \A a : Laid(c, loc, a) = IF a = ext THEN e ELSE ByteIn(w, a - main)
    <3>1. OamMainByte(id) = main /\ OamExtByte(id) = ext
      BY <1>1 DEF OamMainByte, OamExtByte, VRAM_SPRITESOFFSET, SPRITE_MAXCOUNT
    <3>2. Bytes(loc) = (OamMainByte(id) .. OamMainByte(id) + 3) \cup {OamExtByte(id)}
      BY BytesAre
    <3>3. \A a : Laid(c, loc, a) = IF a = OamExtByte(id) THEN SpriteExtra(Drawn(c)[loc])
                                   ELSE ByteIn(SpriteWord(Drawn(c)[loc]), a - OamMainByte(id))
      BY LaidIs
    <3> HIDE DEF main, ext, id, s, loc
    <3> QED BY <2>4, <3>1, <3>2, <3>3
  <2> HIDE DEF s, w, e, words, extras
  <2>10. main \in Nat /\ ext \in Nat /\ main + 3 < ext
    BY <1>1, <2>5
  <2> HIDE DEF main, ext
  <2>11. /\ Covered(first) = main .. main + 3
         /\ \A b \in 0 .. 3 : Stored(first)[main + b] = ByteIn(w, b)
    <3>1. Len(words) = 1 /\ words[1] = w
      BY <2>7 DEF w
    <3>2. Len(words) \in Nat /\ 4 \in {2, 4} /\ 4 - 1 = 3 /\ 1 \in 1 .. 1
      BY <3>1
    <3>3. /\ Covered(first) = main .. main + 4 * Len(words) - 1
          /\ \A k \in 1 .. Len(words), b \in 0 .. 4 - 1 :
               Stored(first)[main + 4 * (k - 1) + b] = ByteIn(words[k], b)
      BY <2>10, <3>2, PackedBytes
    <3> HIDE DEF first
    <3>4. \A b \in 0 .. 3 : Stored(first)[main + 4 * (1 - 1) + b] = ByteIn(w, b)
      BY <3>1, <3>2, <3>3
    <3>5. \A b \in 0 .. 3 : main + 4 * (1 - 1) + b = main + b
      BY <2>10
    <3>6. main + 4 * 1 - 1 = main + 3
      BY <2>10
    <3> QED BY <3>1, <3>3, <3>4, <3>5, <3>6
  <2>12. Covered(second) = {ext} /\ Stored(second)[ext] = e
    <3> DEFINE all == Packed(extras, 4)
               byte(k) == ByteIn(extras[((k - 1) \div 4) + 1], (k - 1) % 4)
               part == SubSeq(all, 1, Len(extras))
    <3>1. Len(extras) = 1 /\ extras[1] = e
      BY <2>7 DEF e
    <3>2. all = [k \in 1 .. 4 * Len(extras) |-> byte(k)]
      BY DEF Packed
    <3>3. byte(1) = e
      <4>1. byte(1) = ByteIn(e, 0)
        BY <3>1
      <4>2. ByteIn(e, 0) = e % 256
        BY <2>8, LowByte, SMT DEF e
      <4>3. e % 256 = e
        BY <2>8 DEF e
      <4> QED BY <4>1, <4>2, <4>3
    <3> HIDE DEF byte
    <3>4. all[1] = e
      BY <3>1, <3>2, <3>3
    <3>5. second.op = "pwrite" /\ second.addr = ext /\ second.bytes = part
      BY DEF Pwrite
    <3> HIDE DEF all, second
    <3>6. Len(part) = 1 /\ part[1] = e
      <4>1. \A i \in 1 .. 1 : all[i] \in {e}
        BY <3>4
      <4>2. SubSeq(all, 1, 1) \in Seq({e}) /\ Len(SubSeq(all, 1, 1)) = 1
        BY <4>1, SubSeqProperties
      <4>3. SubSeq(all, 1, 1)[1] = e
        BY <4>2
      <4> QED BY <3>1, <4>2, <4>3
    <3> HIDE DEF part
    <3>7. ext .. ext + 1 - 1 = {ext} /\ ext - ext + 1 = 1
      BY <2>10
    <3>8. Covered(second) = {ext}
      BY <3>5, <3>6, <3>7 DEF Covered
    <3>9. Stored(second)[ext] = part[ext - ext + 1]
      BY <3>5, <3>6, <3>7 DEF Stored
    <3> QED BY <3>6, <3>7, <3>8, <3>9
  <2> HIDE DEF first, second, loc
  <2>13. ASSUME NEW a \in Bytes(loc)
         PROVE  /\ \E i \in DOMAIN Requests(c) : a \in Covered(Requests(c)[i])
                /\ \A i \in DOMAIN Requests(c) :
                     a \in Covered(Requests(c)[i]) => Stored(Requests(c)[i])[a] = Laid(c, loc, a)
    <3>1. CASE a = ext
      <4>1. Laid(c, loc, a) = e /\ a \notin Covered(first) /\ a \in Covered(second)
        BY <2>9, <2>10, <2>11, <2>12, <3>1
      <4> QED BY <1>6, <2>12, <3>1, <4>1
    <3>2. CASE a # ext
      <4> DEFINE b == a - main
      <4>1. b \in 0 .. 3 /\ a = main + b
        BY <2>9, <2>10, <3>2
      <4>2. Laid(c, loc, a) = ByteIn(w, b)
        BY <2>9, <3>2
      <4> HIDE DEF b
      <4>3. Stored(first)[a] = Laid(c, loc, a)
        BY <2>11, <4>1, <4>2
      <4>4. a \in Covered(first) /\ a \notin Covered(second)
        BY <2>10, <2>11, <2>12, <3>2, <4>1
      <4> QED BY <1>6, <4>3, <4>4
    <3> QED BY <3>1, <3>2
  <2> HIDE DEF places
  <2>14. Lays(c)
    BY <1>8, <2>1, <2>13 DEF Lays, LaysAt
  <2>15. \A l \in DOMAIN Drawn(c) : Legible(c, l)
    BY <1>8, <2>1, <2>6
  <2> QED BY <1>9, <2>14, <2>15 DEF Honest
<1> HIDE DEF n
<1>12. n = 0 \/ n = 1
  BY <1>1, <1>4
<1> QED BY <1>10, <1>11, <1>12

\* A place of m + 1 bytes that one request lays, and no other request touches.
LEMMA OneRequestLays ==
  ASSUME NEW c, NEW loc, NEW at \in Nat, NEW m \in Nat, Bytes(loc) = at .. at + m, NEW w,
         \A a : Laid(c, loc, a) = ByteIn(w, a - at), NEW i \in DOMAIN Requests(c),
         \A b \in 0 .. m : /\ at + b \in Covered(Requests(c)[i])
                           /\ Stored(Requests(c)[i])[at + b] = ByteIn(w, b),
         \A j \in DOMAIN Requests(c) :
           j # i => \A b \in 0 .. m : at + b \notin Covered(Requests(c)[j])
  PROVE  LaysAt(c, loc)
<1> SUFFICES ASSUME NEW a \in Bytes(loc)
             PROVE  /\ \E j \in DOMAIN Requests(c) : a \in Covered(Requests(c)[j])
                    /\ \A j \in DOMAIN Requests(c) :
                         a \in Covered(Requests(c)[j])
                           => Stored(Requests(c)[j])[a] = Laid(c, loc, a)
  BY DEF LaysAt
<1> DEFINE b == a - at
<1>1. b \in 0 .. m /\ a = at + b
  OBVIOUS
<1>2. Laid(c, loc, a) = ByteIn(w, b)
  OBVIOUS
<1> HIDE DEF b
<1>3. a \in Covered(Requests(c)[i]) /\ Stored(Requests(c)[i])[a] = ByteIn(w, b)
  BY <1>1
<1>4. \A j \in DOMAIN Requests(c) : j # i => a \notin Covered(Requests(c)[j])
  BY <1>1
<1> QED BY <1>2, <1>3, <1>4

\* The k-th tile that is written is the k-th that is promised.
LEMMA TileIsCyclic ==
  ASSUME NEW c, IsCall(c), c.fn \in {"horizontal", "vertical"}, c.tiles # <<>>,
         \A i \in DOMAIN c.tiles : AcceptsTile(c.tiles[i]),
         NEW k \in 0 .. TileCount(c) - 1,
         NEW v, v = Cyclic(SubSeq(c.tiles, 1, unsigned_min(Len(c.tiles), 64)), k)
  PROVE  /\ v \in [pattern_addr : Nat, palette_id : Nat, mirror : Nat] /\ AcceptsTile(v)
         /\ WriteTiles(c)[k + 1] = ppu_make_tile(v)
<1> DEFINE T == [pattern_addr : Nat, palette_id : Nat, mirror : Nat]
           tiles == c.tiles
           len == unsigned_min(Len(tiles), 64)
           part == SubSeq(tiles, 1, len)
           i == (k % len) + 1
           tile(j) == ppu_make_tile(tiles[((j - 1) % len) + 1])
           n == TileCount(c)
<1>1. tiles \in Seq(T)
  BY DEF IsCall
<1>2. WriteTiles(c) = [j \in 1 .. n |-> tile(j)]
  BY DEF WriteTiles, TILELAYER_WIDTH, TileCount
<1>3. n \in 0 .. 64
  BY TilesLen DEF TileCount
<1>4. tiles # <<>> /\ \A j \in DOMAIN tiles : AcceptsTile(tiles[j])
  OBVIOUS
<1>5. v = Cyclic(part, k) /\ k \in 0 .. n - 1
  OBVIOUS
<1> HIDE DEF T, tiles, n
<1>6. len \in 1 .. Len(tiles) /\ DOMAIN tiles = 1 .. Len(tiles)
  <2>1. Len(tiles) \in Nat \ {0} /\ DOMAIN tiles = 1 .. Len(tiles)
    BY <1>1, <1>4
  <2> QED BY <2>1 DEF unsigned_min
<1> HIDE DEF len
<1>7. k \in Nat /\ i \in 1 .. len
  BY <1>3, <1>5, <1>6
<1>8. Len(part) = len /\ \A j \in 1 .. len : part[j] = tiles[j]
  <2>1. \A j \in 1 .. len : tiles[j] \in T
    BY <1>1, <1>6
  <2>2. 1 \in Int /\ len \in Int /\ 1 <= len /\ len - 1 + 1 = len
    BY <1>6
  <2>3. Len(part) = len - 1 + 1 /\ \A j \in 1 .. len - 1 + 1 : part[j] = tiles[1 + j - 1]
    BY <2>1, <2>2, SubSeqProperties
  <2>4. \A j \in 1 .. len : 1 + j - 1 = j
    BY <2>2
  <2> QED BY <2>2, <2>3, <2>4
<1> HIDE DEF part, tile
<1>9. v = tiles[i]
  BY <1>5, <1>7, <1>8 DEF Cyclic
<1>10. tile(k + 1) = ppu_make_tile(tiles[i])
  <2>1. k + 1 - 1 = k
    BY <1>7
  <2> QED BY <2>1 DEF tile
<1>11. WriteTiles(c)[k + 1] = tile(k + 1)
  <2>1. k + 1 \in 1 .. n
    BY <1>3, <1>5
  <2> QED BY <1>2, <2>1
<1>12. i \in DOMAIN tiles /\ tiles[i] \in T
  BY <1>1, <1>6, <1>7
<1> QED BY <1>4, <1>9, <1>10, <1>11, <1>12 DEF T

\* Once round a layer, and back.
LEMMA AroundTheLayer ==
  ASSUME NEW x \in 0 .. 63, NEW k \in 0 .. 63
  PROVE  /\ (x + k) % 64 = IF x + k < 64 THEN x + k ELSE x + k - 64
         /\ (((x + k) % 64) - x + 64) % 64 = k
<1>1. CASE x + k < 64
  BY <1>1
<1>2. CASE x + k >= 64
  BY <1>2
<1> QED BY <1>1, <1>2

\* A write at addr of the tiles from the one to the other.
StoresTiles(c, req, from, to, addr) ==
  /\ req.op = "pwrite"
  /\ Covered(req) = addr .. addr + 2 * (to - from + 1) - 1
  /\ \A j \in from .. to, b \in 0 .. 1 :
       Stored(req)[addr + 2 * (j - from) + b] = ByteIn(WriteTiles(c)[j], b)

\* So are the writes of a row of tiles.
LEMMA PartStores ==
  ASSUME NEW c, NEW from \in Nat, NEW to \in Nat, NEW addr \in Nat, from <= to + 1
  PROVE  StoresTiles(c, TilePart(c, from, to, addr), from, to, addr)
<1> DEFINE tiles == WriteTiles(c)
           part == SubSeq(tiles, from, to)
           len == to - from + 1
           req == Pwrite(addr, Packed(part, 2))
           S == {tiles[j] : j \in from .. to}
<1>1. req.op = "pwrite" /\ TilePart(c, from, to, addr) = req
  BY DEF Pwrite, TilePart
<1>2. \A j \in from .. to : tiles[j] \in S
  OBVIOUS
<1> HIDE DEF S, tiles
<1>3. /\ Len(part) = IF from <= to THEN len ELSE 0
      /\ \A i \in 1 .. len : part[i] = tiles[from + i - 1]
  <2>1. from \in Int /\ to \in Int
    OBVIOUS
  <2>2. /\ Len(part) = IF from <= to THEN to - from + 1 ELSE 0
        /\ \A i \in 1 .. to - from + 1 : part[i] = tiles[from + i - 1]
    BY <1>2, <2>1, SubSeqProperties
  <2> HIDE DEF part
  <2> QED BY <2>2
<1>4. len \in Nat /\ Len(part) = len
  BY <1>3
<1> HIDE DEF part
<1>5. /\ Covered(req) = addr .. addr + 2 * Len(part) - 1
      /\ \A k \in 1 .. Len(part), b \in 0 .. 2 - 1 :
           Stored(req)[addr + 2 * (k - 1) + b] = ByteIn(part[k], b)
  <2>1. Len(part) \in Nat /\ 2 \in {2, 4}
    BY <1>4
  <2> QED BY <2>1, PackedBytes
<1> HIDE DEF req
<1>6. ASSUME NEW j \in from .. to, NEW b \in 0 .. 1
      PROVE  Stored(req)[addr + 2 * (j - from) + b] = ByteIn(tiles[j], b)
  <2> DEFINE k == j - from + 1
  <2>1. k \in 1 .. len /\ k - 1 = j - from /\ from + k - 1 = j
    OBVIOUS
  <2> HIDE DEF k
  <2>2. b \in 0 .. 2 - 1
    OBVIOUS
  <2>3. Stored(req)[addr + 2 * (k - 1) + b] = ByteIn(part[k], b)
    BY <1>4, <1>5, <2>1, <2>2
  <2>4. part[k] = tiles[j]
    BY <1>3, <2>1
  <2> QED BY <2>1, <2>3, <2>4
<1>7. Covered(req) = addr .. addr + 2 * len - 1
  BY <1>4, <1>5
<1> QED BY <1>1, <1>6, <1>7 DEF tiles, StoresTiles

\* ppu_write_tiles_horizontal.
LEMMA HorizontalIsHonest ==
  ASSUME NEW c, IsCall(c), c.fn = "horizontal", Accepts(c), Requests(c) # <<>>
  PROVE  Honest(c)
<1> DEFINE x == c.x
           y == c.y
           n == TileCount(c)
           m == BeforeEdge(c)
           row == RowStart(c)
           part == SubSeq(c.tiles, 1, unsigned_min(Len(c.tiles), 64))
           place(k) == TileAt(c.layer, (x + k) % 64, y)
           places == {place(k) : k \in 0 .. n - 1}
           tile(l) == Cyclic(part, (l[3] - x + 64) % 64)
           first == TilePart(c, 1, m, row + 2 * x)
           second == TilePart(c, m + 1, n, row)
<1>1. x \in 0 .. 63 /\ y \in 0 .. 63
  BY HorizontalStarts
<1>2. n \in Nat /\ n <= 64 /\ m \in Nat /\ m <= n /\ x + m <= 64 /\ (m # n => x + m = 64)
  BY HorizontalNumbers, Zenon
<1>3. row \in Nat
  BY RowStartIs
<1>4. c.tiles # <<>> /\ Requests(c) = IF m = n THEN <<first>> ELSE <<first, second>>
  BY HorizontalRequests
<1>5. Drawn(c) = [l \in places |-> tile(l)]
  BY DEF Drawn, TILELAYER_WIDTH, TileCount
<1>6. \A i \in DOMAIN c.tiles : AcceptsTile(c.tiles[i])
  BY DEF Accepts
<1> HIDE DEF n, m, row, x, y
<1>7. /\ first.op = "pwrite" /\ Covered(first) = row + 2 * x .. row + 2 * x + 2 * m - 1
      /\ \A j \in 1 .. m, b \in 0 .. 1 :
           Stored(first)[row + 2 * x + 2 * (j - 1) + b] = ByteIn(WriteTiles(c)[j], b)
  <2> DEFINE addr == row + 2 * x
  <2>1. 1 \in Nat /\ m \in Nat /\ addr \in Nat /\ 1 <= m + 1 /\ m - 1 + 1 = m
    BY <1>1, <1>2, <1>3
  <2> HIDE DEF addr
  <2>2. StoresTiles(c, TilePart(c, 1, m, addr), 1, m, addr)
    BY <2>1, PartStores
  <2>3. StoresTiles(c, first, 1, m, addr)
    BY <2>2 DEF addr
  <2> HIDE DEF first
  <2>4. /\ first.op = "pwrite" /\ Covered(first) = addr .. addr + 2 * m - 1
        /\ \A j \in 1 .. m, b \in 0 .. 1 :
             Stored(first)[addr + 2 * (j - 1) + b] = ByteIn(WriteTiles(c)[j], b)
    BY <2>1, <2>3 DEF StoresTiles
  <2> QED BY <2>4 DEF addr
<1>8. /\ second.op = "pwrite" /\ Covered(second) = row .. row + 2 * (n - m) - 1
      /\ \A j \in m + 1 .. n, b \in 0 .. 1 :
           Stored(second)[row + 2 * (j - (m + 1)) + b] = ByteIn(WriteTiles(c)[j], b)
  <2>1. m + 1 \in Nat /\ n \in Nat /\ m + 1 <= n + 1 /\ n - (m + 1) + 1 = n - m
    BY <1>2
  <2>2. StoresTiles(c, second, m + 1, n, row)
    BY <1>3, <2>1, PartStores
  <2> HIDE DEF second
  <2> QED BY <2>1, <2>2 DEF StoresTiles
<1> HIDE DEF first, second
<1>9. /\ DOMAIN Requests(c) = IF m = n THEN {1} ELSE {1, 2}
      /\ Requests(c)[1] = first /\ (m # n => Requests(c)[2] = second)
  BY <1>4
<1>10. ASSUME NEW k \in 0 .. n - 1
       PROVE  Legible(c, place(k)) /\ LaysAt(c, place(k))
  <2> DEFINE X == (x + k) % 64
             at == row + 2 * X
             v == Cyclic(part, k)
             w == ppu_make_tile(v)
             loc == TileAt(c.layer, X, y)
  <2>1. X = (IF x + k < 64 THEN x + k ELSE x + k - 64) /\ X \in 0 .. 63 /\ k \in 0 .. 63
    <3>1. k \in 0 .. 63
      BY <1>2
    <3>2. X = (IF x + k < 64 THEN x + k ELSE x + k - 64)
      BY <1>1, <3>1, AroundTheLayer
    <3> HIDE DEF X
    <3> QED BY <1>1, <3>1, <3>2
  <2>11. (X - x + 64) % 64 = k
    BY <1>1, <2>1, AroundTheLayer
  <2> HIDE DEF X
  <2>2. loc \in places /\ loc[3] = X
    BY DEF TileAt, X
  <2>3. Drawn(c)[loc] = v
    <3>1. tile(loc) = v
      BY <2>11, <2>2
    <3> HIDE DEF tile, v, loc, places
    <3> QED BY <1>5, <2>2, <3>1
  <2>4. /\ v \in [pattern_addr : Nat, palette_id : Nat, mirror : Nat] /\ AcceptsTile(v)
        /\ WriteTiles(c)[k + 1] = w
    <3>1. k \in 0 .. TileCount(c) - 1 /\ c.fn \in {"horizontal", "vertical"}
      BY DEF n
    <3>2. c.tiles # <<>>
      BY <1>4
    <3> HIDE DEF v
    <3> QED BY <1>6, <3>1, <3>2, TileIsCyclic DEF v
  <2>5. X \in Cell /\ y \in Cell
    BY <1>1, <2>1 DEF Cell
  <2>6. Legible(c, loc)
    <3> HIDE DEF v
    <3> QED BY <2>3, <2>4, <2>5, TileIsLegible
  <2>7. TileByte(c.layer, X, y) = at
    <3>1. TileByte(c.layer, X, y) = TileStart(c.layer, X, y)
      BY <2>5, TileByteIs
    <3> QED BY <3>1 DEF TileStart, row, RowStart, y
  <2>8. Bytes(loc) = at .. at + 1 /\ \A a : Laid(c, loc, a) = ByteIn(w, a - at)
    <3>1. /\ Bytes(loc) = TileByte(c.layer, X, y) .. TileByte(c.layer, X, y) + 1
          /\ \A a : Laid(c, loc, a)
                      = ByteIn(ppu_make_tile(Drawn(c)[loc]), a - TileByte(c.layer, X, y))
      BY BytesAre, LaidIs
    <3> HIDE DEF at, v, loc
    <3> QED BY <2>3, <2>7, <3>1
  <2>9. at \in Nat /\ 1 \in Nat
    BY <1>1, <1>3, <2>1
  <2> HIDE DEF loc, v, w, places, part
  <2>10. LaysAt(c, loc)
    <3>1. CASE k < m
      <4>1. X = x + k /\ k + 1 \in 1 .. m
        BY <1>1, <1>2, <2>1, <3>1
      <4>2. \A b \in 0 .. 1 : /\ at + b \in Covered(first)
                              /\ Stored(first)[at + b] = ByteIn(w, b)
        <5> SUFFICES ASSUME NEW b \in 0 .. 1
                     PROVE  at + b \in Covered(first) /\ Stored(first)[at + b] = ByteIn(w, b)
          OBVIOUS
        <5>1. at + b = row + 2 * x + 2 * ((k + 1) - 1) + b
          BY <1>1, <1>3, <4>1
        <5>2. at + b \in row + 2 * x .. row + 2 * x + 2 * m - 1
          BY <1>1, <1>2, <1>3, <3>1, <4>1
        <5>3. Stored(first)[row + 2 * x + 2 * ((k + 1) - 1) + b] = ByteIn(WriteTiles(c)[k + 1], b)
          BY <1>7, <4>1
        <5> QED BY <1>7, <2>4, <5>1, <5>2, <5>3
      <4>3. m # n => \A b \in 0 .. 1 : at + b \notin Covered(second)
        BY <1>1, <1>2, <1>3, <1>8, <4>1
      <4> HIDE DEF at
      <4>4. \A j \in DOMAIN Requests(c) : j # 1 => Requests(c)[j] = second /\ m # n
        BY <1>9
      <4>5. 1 \in DOMAIN Requests(c) /\ Requests(c)[1] = first
        BY <1>9
      <4>6. \A b \in 0 .. 1 : /\ at + b \in Covered(Requests(c)[1])
                              /\ Stored(Requests(c)[1])[at + b] = ByteIn(w, b)
        BY <4>2, <4>5, Zenon
      <4>7. \A j \in DOMAIN Requests(c) :
              j # 1 => \A b \in 0 .. 1 : at + b \notin Covered(Requests(c)[j])
        BY <4>3, <4>4, Zenon
      <4> QED BY <2>8, <2>9, <4>5, <4>6, <4>7, OneRequestLays, Zenon
    <3>2. CASE k >= m
      <4>1. m # n /\ x + m = 64 /\ X = k - m /\ k + 1 \in m + 1 .. n
        BY <1>1, <1>2, <2>1, <3>2
      <4>2. \A b \in 0 .. 1 : /\ at + b \in Covered(second)
                              /\ Stored(second)[at + b] = ByteIn(w, b)
        <5> SUFFICES ASSUME NEW b \in 0 .. 1
                     PROVE  at + b \in Covered(second) /\ Stored(second)[at + b] = ByteIn(w, b)
          OBVIOUS
        <5>1. at + b = row + 2 * ((k + 1) - (m + 1)) + b
          BY <1>2, <1>3, <4>1
        <5>2. at + b \in row .. row + 2 * (n - m) - 1
          BY <1>2, <1>3, <4>1
        <5>3. Stored(second)[row + 2 * ((k + 1) - (m + 1)) + b] = ByteIn(WriteTiles(c)[k + 1], b)
          BY <1>8, <4>1
        <5> QED BY <1>8, <2>4, <5>1, <5>2, <5>3
      <4>3. \A b \in 0 .. 1 : at + b \notin Covered(first)
        BY <1>1, <1>2, <1>3, <1>7, <4>1
      <4> HIDE DEF at
      <4>4. \A j \in DOMAIN Requests(c) : j # 2 => Requests(c)[j] = first
        BY <1>9
      <4>5. 2 \in DOMAIN Requests(c) /\ Requests(c)[2] = second
        BY <1>9, <4>1
      <4>6. \A b \in 0 .. 1 : /\ at + b \in Covered(Requests(c)[2])
                              /\ Stored(Requests(c)[2])[at + b] = ByteIn(w, b)
        BY <4>2, <4>5, Zenon
      <4>7. \A j \in DOMAIN Requests(c) :
              j # 2 => \A b \in 0 .. 1 : at + b \notin Covered(Requests(c)[j])
        BY <4>3, <4>4, Zenon
      <4> QED BY <2>8, <2>9, <4>5, <4>6, <4>7, OneRequestLays, Zenon
    <3> QED BY <1>2, <3>1, <3>2
  <2> QED BY <2>6, <2>10 DEF loc, X, x, y
<1>11. \A k : place(k)[1] # "reg"
  BY DEF TileAt
<1> HIDE DEF place, tile
<1>12. DOMAIN Drawn(c) = places
  BY <1>5
<1>13. Sets(c)
  <2>1. \A i \in DOMAIN Requests(c) : Requests(c)[i].op = "pwrite"
    BY <1>7, <1>8, <1>9
  <2> QED BY <1>11, <1>12, <2>1, WritesSetNothing
<1> QED BY <1>10, <1>12, <1>13 DEF Honest, Lays

\* ppu_write_tiles_vertical.
LEMMA VerticalIsHonest ==
  ASSUME NEW c, IsCall(c), c.fn = "vertical", Accepts(c), Requests(c) # <<>>
  PROVE  Honest(c)
<1> DEFINE x == c.x
           y == c.y
           n == TileCount(c)
           start == ColumnStart(c)
           part == SubSeq(c.tiles, 1, unsigned_min(Len(c.tiles), 64))
           place(k) == TileAt(c.layer, x, (y + k) % 64)
           places == {place(k) : k \in 0 .. n - 1}
           tile(l) == Cyclic(part, (l[4] - y + 64) % 64)
           req(k) == TileWrite(c, k)
<1>1. x \in 0 .. 63 /\ y \in 0 .. 63
  BY VerticalStarts
<1>2. n \in Nat /\ n <= 64
  BY VerticalNumbers, Zenon
<1>3. start \in Nat
  BY ColumnStartIs
<1>4. c.tiles # <<>> /\ Requests(c) = [k \in 1 .. n |-> req(k)]
  BY VerticalRequests
<1>5. Drawn(c) = [l \in places |-> tile(l)]
  BY DEF Drawn, TILELAYER_HEIGHT, TileCount
<1>6. \A i \in DOMAIN c.tiles : AcceptsTile(c.tiles[i])
  BY DEF Accepts
<1>7. \A k \in 1 .. n : LineOfTile(c, k) = (y + (k - 1)) % 64
  BY DEF LineOfTile
<1> HIDE DEF n, start, x, y
<1>8. ASSUME NEW k \in 1 .. n
      PROVE  LET at == start + 128 * ((y + (k - 1)) % 64)
             IN /\ req(k).op = "pwrite" /\ Covered(req(k)) = at .. at + 1
                /\ \A b \in 0 .. 1 : Stored(req(k))[at + b] = ByteIn(WriteTiles(c)[k], b)
  <2> DEFINE at == start + 128 * ((y + (k - 1)) % 64)
             words == <<WriteTiles(c)[k]>>
             r == Pwrite(at, Packed(words, 2))
  <2>1. req(k) = r
    BY <1>7 DEF TileWrite, start
  <2>2. at \in Nat
    <3>1. y + (k - 1) \in Nat
      BY <1>1, <1>2
    <3>2. (y + (k - 1)) % 64 \in Nat
      BY <3>1
    <3> QED BY <1>3, <3>2
  <2>3. Len(words) = 1 /\ words[1] = WriteTiles(c)[k]
    OBVIOUS
  <2> HIDE DEF at, words
  <2>4. Len(words) \in Nat /\ 2 \in {2, 4} /\ 2 - 1 = 1
    BY <2>3
  <2>5. /\ Covered(r) = at .. at + 2 * Len(words) - 1
        /\ \A j \in 1 .. Len(words), b \in 0 .. 2 - 1 :
             Stored(r)[at + 2 * (j - 1) + b] = ByteIn(words[j], b)
    BY <2>2, <2>4, PackedBytes
  <2>6. r.op = "pwrite"
    BY DEF Pwrite
  <2> HIDE DEF req, r
  <2>7. at + 2 * 1 - 1 = at + 1 /\ \A b \in 0 .. 1 : at + 2 * (1 - 1) + b = at + b
    BY <2>2
  <2>8. \A b \in 0 .. 1 : Stored(r)[at + 2 * (1 - 1) + b] = ByteIn(words[1], b)
    BY <2>3, <2>4, <2>5
  <2> QED BY <2>1, <2>3, <2>5, <2>6, <2>7, <2>8 DEF at
<1> HIDE DEF req
<1>9. DOMAIN Requests(c) = 1 .. n /\ \A k \in 1 .. n : Requests(c)[k] = req(k)
  BY <1>4
<1>10. ASSUME NEW k \in 0 .. n - 1
       PROVE  Legible(c, place(k)) /\ LaysAt(c, place(k))
  <2> DEFINE Y == (y + k) % 64
             at == start + 128 * Y
             v == Cyclic(part, k)
             w == ppu_make_tile(v)
             loc == TileAt(c.layer, x, Y)
  <2>1. Y \in 0 .. 63 /\ k \in 0 .. 63
    BY <1>1, <1>2
  <2>2. (Y - y + 64) % 64 = k
    BY <1>1, <2>1, AroundTheLayer
  <2> HIDE DEF Y
  <2>3. loc \in places /\ loc[4] = Y
    BY DEF TileAt, Y
  <2>4. Drawn(c)[loc] = v
    <3>1. tile(loc) = v
      BY <2>2, <2>3
    <3> HIDE DEF tile, v, loc, places
    <3> QED BY <1>5, <2>3, <3>1
  <2>5. /\ v \in [pattern_addr : Nat, palette_id : Nat, mirror : Nat] /\ AcceptsTile(v)
        /\ WriteTiles(c)[k + 1] = w
    <3>1. k \in 0 .. TileCount(c) - 1 /\ c.fn \in {"horizontal", "vertical"}
      BY DEF n
    <3>2. c.tiles # <<>>
      BY <1>4
    <3> HIDE DEF v
    <3> QED BY <1>6, <3>1, <3>2, TileIsCyclic DEF v
  <2>6. x \in Cell /\ Y \in Cell
    BY <1>1, <2>1 DEF Cell
  <2>7. Legible(c, loc)
    <3> HIDE DEF v
    <3> QED BY <2>4, <2>5, <2>6, TileIsLegible
  <2>8. TileByte(c.layer, x, Y) = at
    <3>1. TileByte(c.layer, x, Y) = TileStart(c.layer, x, Y)
      BY <2>6, TileByteIs
    <3>2. TileLayerOffset(c.layer) \in Nat
      BY DEF TileLayerOffset, TILERAM_FGOFFSET
    <3>3. start = TileLayerOffset(c.layer) + 2 * x
      BY DEF start, ColumnStart, x
    <3> QED BY <1>1, <2>1, <3>1, <3>2, <3>3 DEF TileStart
  <2>9. Bytes(loc) = at .. at + 1 /\ \A a : Laid(c, loc, a) = ByteIn(w, a - at)
    <3>1. /\ Bytes(loc) = TileByte(c.layer, x, Y) .. TileByte(c.layer, x, Y) + 1
          /\ \A a : Laid(c, loc, a)
                      = ByteIn(ppu_make_tile(Drawn(c)[loc]), a - TileByte(c.layer, x, Y))
      BY BytesAre, LaidIs
    <3> HIDE DEF at, v, loc
    <3> QED BY <2>4, <2>8, <3>1
  <2>10. at \in Nat /\ 1 \in Nat
    BY <1>3, <2>1
  <2> HIDE DEF loc, v, w, places, part
  <2>11. k + 1 \in DOMAIN Requests(c) /\ Requests(c)[k + 1] = req(k + 1) /\ (k + 1) - 1 = k
    <3>1. k + 1 \in 1 .. n
      BY <1>2
    <3> QED BY <1>9, <2>1, <3>1
  <2>12. \A b \in 0 .. 1 : /\ at + b \in Covered(Requests(c)[k + 1])
                           /\ Stored(Requests(c)[k + 1])[at + b] = ByteIn(w, b)
    <3>1. /\ Covered(req(k + 1)) = at .. at + 1
          /\ \A b \in 0 .. 1 : Stored(req(k + 1))[at + b] = ByteIn(WriteTiles(c)[k + 1], b)
      <4>1. k + 1 \in 1 .. n
        BY <1>2
      <4> QED BY <1>8, <2>11, <4>1 DEF Y
    <3>2. \A b \in 0 .. 1 : at + b \in at .. at + 1
      BY <2>10
    <3> HIDE DEF at
    <3> QED BY <2>5, <2>11, <3>1, <3>2
  <2>13. ASSUME NEW j \in DOMAIN Requests(c), j # k + 1, NEW b \in 0 .. 1
         PROVE  at + b \notin Covered(Requests(c)[j])
    <3> DEFINE d == j - 1
               line == (y + d) % 64
    <3>1. d \in 0 .. 63 /\ d # k /\ j \in 1 .. n
      <4>1. j \in 1 .. n
        BY <1>9
      <4>2. j \in Int /\ k \in Int /\ j # k + 1
        BY <2>1, <2>13, <4>1
      <4> QED BY <1>2, <4>1, <4>2
    <3>2. Covered(Requests(c)[j]) = start + 128 * line .. start + 128 * line + 1
      BY <1>8, <1>9, <3>1
    <3> HIDE DEF d
    <3>3. line \in 0 .. 63 /\ (line - y + 64) % 64 = d
      BY <1>1, <3>1, AroundTheLayer
    <3> HIDE DEF line
    <3>4. line # Y
      BY <2>2, <3>1, <3>3
    <3> QED BY <1>3, <2>1, <3>2, <3>3, <3>4
  <2> HIDE DEF at
  <2>14. LaysAt(c, loc)
    <3>1. \A j \in DOMAIN Requests(c) :
            j # k + 1 => \A b \in 0 .. 1 : at + b \notin Covered(Requests(c)[j])
      BY <2>13
    <3> DEFINE i == k + 1
    <3>2. i \in DOMAIN Requests(c)
      BY <2>11
    <3>3. \A b \in 0 .. 1 : /\ at + b \in Covered(Requests(c)[i])
                            /\ Stored(Requests(c)[i])[at + b] = ByteIn(w, b)
      BY <2>12
    <3>4. \A j \in DOMAIN Requests(c) :
            j # i => \A b \in 0 .. 1 : at + b \notin Covered(Requests(c)[j])
      BY <3>1
    <3> HIDE DEF i
    <3> QED BY <2>9, <2>10, <3>2, <3>3, <3>4, OneRequestLays, Zenon
  <2> QED BY <2>7, <2>14 DEF loc, Y
<1>11. \A k : place(k)[1] # "reg"
  BY DEF TileAt
<1> HIDE DEF place, tile
<1>12. DOMAIN Drawn(c) = places
  BY <1>5
<1>13. Sets(c)
  <2>1. \A i \in DOMAIN Requests(c) : Requests(c)[i].op = "pwrite"
    BY <1>8, <1>9
  <2> QED BY <1>11, <1>12, <2>1, WritesSetNothing
<1> QED BY <1>10, <1>12, <1>13 DEF Honest, Lays

\* Once round Pattern RAM, and back.
LEMMA AroundThePatterns ==
  ASSUME NEW x \in 0 .. 31, NEW k \in 0 .. 31
  PROVE  (x + k) % 32 \in 0 .. 31 /\ (((x + k) % 32) - x + 32) % 32 = k
<1>1. CASE x + k < 32
  BY <1>1
<1>2. CASE x + k >= 32
  BY <1>2
<1> QED BY <1>1, <1>2

\* A write of the 8 rows of a tile pattern.
StoresRows(req, base, rows) ==
  /\ req.op = "pwrite" /\ Covered(req) = base .. base + 31
  /\ \A r \in 0 .. 7, b \in 0 .. 3 : Stored(req)[base + 4 * r + b] = ByteIn(rows[r + 1], b)

\* The k-th request of ppu_write_pattern is one.
LEMMA RowsAreStored ==
  ASSUME NEW base \in Nat, NEW rows, Len(rows) = 8
  PROVE  StoresRows(Pwrite(base, Packed(rows, 4)), base, rows)
<1> DEFINE req == Pwrite(base, Packed(rows, 4))
<1>1. req.op = "pwrite"
  BY DEF Pwrite
<1>2. Len(rows) \in Nat /\ 4 \in {2, 4} /\ 4 - 1 = 3
  OBVIOUS
<1>3. /\ Covered(req) = base .. base + 4 * Len(rows) - 1
      /\ \A k \in 1 .. Len(rows), b \in 0 .. 4 - 1 :
           Stored(req)[base + 4 * (k - 1) + b] = ByteIn(rows[k], b)
  BY <1>2, PackedBytes
<1> HIDE DEF req
<1>4. Covered(req) = base .. base + 31
  BY <1>3
<1>5. ASSUME NEW r \in 0 .. 7, NEW b \in 0 .. 3
      PROVE  Stored(req)[base + 4 * r + b] = ByteIn(rows[r + 1], b)
  <2> DEFINE k == r + 1
  <2>1. k \in 1 .. Len(rows) /\ k - 1 = r /\ b \in 0 .. 4 - 1
    OBVIOUS
  <2> HIDE DEF k
  <2>2. Stored(req)[base + 4 * (k - 1) + b] = ByteIn(rows[k], b)
    BY <1>3, <2>1
  <2> QED BY <2>1, <2>2 DEF k
<1> QED BY <1>1, <1>4, <1>5 DEF StoresRows, req

\* ppu_write_pattern.
LEMMA PatternIsHonest ==
  ASSUME NEW c, IsCall(c), c.fn = "pattern", Accepts(c), InRange(c)
  PROVE  Honest(c)
<1> DEFINE p == c.pattern_addr
           w == c.width
           h == c.height
           x == p % 32
           y == p \div 32
           rows(k) == c.pattern[k]
           place(i, j, r) == PatternRowAt((x + i) % 32, (y + j) % 32, r)
           places == {place(i, j, r) : i \in 0 .. w - 1, j \in 0 .. h - 1, r \in 0 .. 7}
           pixels(l) == rows(((l[3] - y + 32) % 32) * w + ((l[2] - x + 32) % 32) + 1)[l[4] + 1]
           base(k) == 16384 + 32 * (32 * TileRow(c, k) + TileColumn(c, k))
           req(k) == Pwrite(base(k), Packed(rows(k), 4))
<1>1. p \in Nat /\ w \in Nat /\ h \in Nat /\ c.pattern \in [1 .. w * h -> [1 .. 8 -> Nat]]
  BY DEF IsCall
<1>2. \A k \in 1 .. w * h, r \in 1 .. 8 : rows(k)[r] \in Nat /\ IsUint32(rows(k)[r])
  <2>1. \A k \in DOMAIN c.pattern, r \in 1 .. 8 : IsUint32(c.pattern[k][r])
    BY Zenon DEF IsCall
  <2> QED BY <1>1, <2>1
<1>3. w > 0 /\ h > 0 /\ w <= 32 /\ h <= 32 /\ p <= 1023
  <2>1. AcceptsPattern(c)
    BY DEF Accepts
  <2> QED BY <2>1 DEF AcceptsPattern, InRange, PATTERN_MAXADDR
<1>4. Requests(c) = [k \in 1 .. w * h |-> req(k)]
  BY PatternRequests
<1>5. Drawn(c) = [l \in places |-> pixels(l)]
  BY DEF Drawn
<1>6. \A k \in 1 .. w * h : Len(rows(k)) = 8
  <2>1. \A k \in 1 .. w * h : rows(k) \in [1 .. 8 -> Nat]
    BY <1>1
  <2> HIDE DEF rows
  <2> QED BY <2>1
<1>7. \A k : /\ TileColumn(c, k) = (x + ((k - 1) % w)) % 32
             /\ TileRow(c, k) = (y + ((k - 1) \div w)) % 32
  BY DEF TileColumn, TileRow
<1> HIDE DEF p, w, h, rows
<1>8. x \in 0 .. 31 /\ y \in 0 .. 31 /\ w * h \in Nat
  BY <1>1, <1>3
<1> HIDE DEF x, y
\* The k-th tile.
<1>9. ASSUME NEW k \in 1 .. w * h
      PROVE  LET i == (k - 1) % w
                 j == (k - 1) \div w
             IN /\ i \in 0 .. 31 /\ j \in 0 .. 31 /\ k = w * j + i + 1
                /\ TileColumn(c, k) \in 0 .. 31 /\ (TileColumn(c, k) - x + 32) % 32 = i
                /\ TileRow(c, k) \in 0 .. 31 /\ (TileRow(c, k) - y + 32) % 32 = j
                /\ base(k) \in Nat /\ StoresRows(req(k), base(k), rows(k))
  <2> DEFINE i == (k - 1) % w
             j == (k - 1) \div w
  <2>1. j \in 0 .. h - 1 /\ i \in 0 .. w - 1
    <3>1. k - 1 \in Nat /\ k - 1 < w * h
      BY <1>8
    <3> QED BY <1>1, <1>3, <3>1, RowOf
  <2>2. k - 1 = w * j + i
    <3>1. k - 1 \in Int
      BY <1>8
    <3> QED BY <1>1, <1>3, <3>1
  <2>3. TileColumn(c, k) = (x + i) % 32 /\ TileRow(c, k) = (y + j) % 32
    BY <1>7
  <2> HIDE DEF i, j, base
  <2>4. i \in 0 .. 31 /\ j \in 0 .. 31
    BY <1>1, <1>3, <2>1
  <2>5. TileColumn(c, k) \in 0 .. 31 /\ (TileColumn(c, k) - x + 32) % 32 = i
    BY <1>8, <2>3, <2>4, AroundThePatterns
  <2>6. TileRow(c, k) \in 0 .. 31 /\ (TileRow(c, k) - y + 32) % 32 = j
    BY <1>8, <2>3, <2>4, AroundThePatterns
  <2>7. base(k) \in Nat
    BY <2>5, <2>6 DEF base
  <2>8. StoresRows(req(k), base(k), rows(k))
    BY <1>6, <2>7, RowsAreStored
  <2>9. k = w * j + i + 1
    <3>1. w * j \in Int
      BY <1>1, <2>4
    <3> QED BY <2>2, <2>4, <3>1
  <2> QED BY <2>4, <2>5, <2>6, <2>7, <2>8, <2>9 DEF i, j
<1> HIDE DEF req
<1>10. DOMAIN Requests(c) = 1 .. w * h /\ \A k \in 1 .. w * h : Requests(c)[k] = req(k)
  BY <1>4
<1>11. ASSUME NEW i \in 0 .. w - 1, NEW j \in 0 .. h - 1, NEW r \in 0 .. 7
       PROVE  Legible(c, place(i, j, r)) /\ LaysAt(c, place(i, j, r))
  <2> DEFINE k == w * j + i + 1
             X == TileColumn(c, k)
             Y == TileRow(c, k)
             loc == PatternRowAt(X, Y, r)
             at == base(k) + 4 * r
             v == rows(k)[r + 1]
  <2>1. k \in 1 .. w * h /\ (k - 1) % w = i /\ (k - 1) \div w = j
    <3>0. w \in Nat /\ w > 0 /\ h \in Nat /\ j \in Nat /\ j <= h - 1 /\ i \in 0 .. w - 1
      BY <1>1, <1>3
    <3>1. (w * j + i) % w = i /\ (w * j + i) \div w = j
      BY <3>0, Quotient
    <3>2. w * j + i \in Nat /\ w * j + i < w * h
      <4> DEFINE a == w * j
                 b == w * h
      <4>1. a \in Nat /\ a <= w * (h - 1)
        BY <3>0
      <4>2. w * (h - 1) = b - w /\ b \in Nat
        BY <3>0
      <4> HIDE DEF a, b
      <4>3. i \in Nat /\ i < w
        BY <3>0
      <4>4. a + i \in Nat /\ a + i < b
        BY <3>0, <4>1, <4>2, <4>3
      <4> QED BY <4>4 DEF a, b
    <3>3. k - 1 = w * j + i
      BY <3>2
    <3>4. k \in 1 .. w * h
      BY <1>8, <3>2
    <3> QED BY <3>1, <3>3, <3>4
  <2>2. X = (x + i) % 32 /\ Y = (y + j) % 32
    BY <1>7, <2>1
  <2>3. /\ X \in 0 .. 31 /\ (X - x + 32) % 32 = i
        /\ Y \in 0 .. 31 /\ (Y - y + 32) % 32 = j
        /\ base(k) \in Nat /\ StoresRows(req(k), base(k), rows(k))
    BY <1>9, <2>1
  <2>4. loc \in places /\ loc[2] = X /\ loc[3] = Y /\ loc[4] = r
    BY <2>2 DEF PatternRowAt
  <2>5. j * w + i + 1 = k
    BY <1>1
  <2>6. base(k) = 16384 + 32 * (32 * Y + X)
    OBVIOUS
  <2> HIDE DEF k, X, Y, base
  <2>7. Drawn(c)[loc] = v
    <3>1. pixels(loc) = v
      BY <2>3, <2>4, <2>5
    <3> HIDE DEF pixels, v, loc, places
    <3> QED BY <1>5, <2>4, <3>1
  <2>8. v \in Nat /\ IsUint32(v)
    BY <1>2, <2>1
  <2>9. Legible(c, loc)
    <3> HIDE DEF v
    <3> QED BY <2>3, <2>7, <2>8, PatternRowIsLegible
  <2>10. PatternByte(X, Y, r) = at
    BY <2>3, <2>6 DEF PatternByte, VRAM_PATTERNOFFSET
  <2>11. Bytes(loc) = at .. at + 3 /\ \A a : Laid(c, loc, a) = ByteIn(v, a - at)
    <3>1. /\ Bytes(loc) = PatternByte(X, Y, r) .. PatternByte(X, Y, r) + 3
          /\ \A a : Laid(c, loc, a) = ByteIn(Drawn(c)[loc], a - PatternByte(X, Y, r))
      BY BytesAre, LaidIs
    <3> HIDE DEF at, v, loc
    <3> QED BY <2>7, <2>10, <3>1
  <2>12. at \in Nat /\ 3 \in Nat
    BY <2>3
  <2>13. \A b \in 0 .. 3 : /\ at + b \in Covered(req(k))
                           /\ Stored(req(k))[at + b] = ByteIn(v, b)
    <3>1. \A b \in 0 .. 3 : at + b \in base(k) .. base(k) + 31
      BY <2>3
    <3> QED BY <2>3, <3>1 DEF StoresRows
  <2>14. ASSUME NEW m \in DOMAIN Requests(c), m # k, NEW b \in 0 .. 3
         PROVE  at + b \notin Covered(Requests(c)[m])
    <3> DEFINE i2 == (m - 1) % w
               j2 == (m - 1) \div w
               X2 == TileColumn(c, m)
               Y2 == TileRow(c, m)
    <3>1. m \in 1 .. w * h /\ Requests(c)[m] = req(m)
      BY <1>10
    <3>2. /\ i2 \in 0 .. 31 /\ j2 \in 0 .. 31 /\ m = w * j2 + i2 + 1
          /\ X2 \in 0 .. 31 /\ (X2 - x + 32) % 32 = i2
          /\ Y2 \in 0 .. 31 /\ (Y2 - y + 32) % 32 = j2
          /\ base(m) \in Nat /\ StoresRows(req(m), base(m), rows(m))
      BY <1>9, <3>1
    <3>3. base(m) = 16384 + 32 * (32 * Y2 + X2)
      BY DEF base
    <3> HIDE DEF i2, j2, X2, Y2
    <3>4. i2 # i \/ j2 # j
      BY <2>14, <3>2 DEF k
    <3>5. X2 # X \/ Y2 # Y
      BY <2>3, <3>2, <3>4
    <3>6. Covered(req(m)) = base(m) .. base(m) + 31
      BY <3>2 DEF StoresRows
    <3>7. at + b \notin base(m) .. base(m) + 31
      BY <2>3, <2>6, <3>2, <3>3, <3>5
    <3> QED BY <3>1, <3>6, <3>7
  <2> HIDE DEF at, loc, v
  <2>15. LaysAt(c, loc)
    <3>1. k \in DOMAIN Requests(c) /\ Requests(c)[k] = req(k)
      BY <1>10, <2>1
    <3>2. \A b \in 0 .. 3 : /\ at + b \in Covered(Requests(c)[k])
                            /\ Stored(Requests(c)[k])[at + b] = ByteIn(v, b)
      BY <2>13, <3>1
    <3>3. \A m \in DOMAIN Requests(c) :
            m # k => \A b \in 0 .. 3 : at + b \notin Covered(Requests(c)[m])
      BY <2>14
    <3> QED BY <2>11, <2>12, <3>1, <3>2, <3>3, OneRequestLays, Zenon
  <2> QED BY <2>2, <2>9, <2>15 DEF loc
<1>12. \A i, j, r : place(i, j, r)[1] # "reg"
  BY DEF PatternRowAt
<1> HIDE DEF place, pixels
<1>13. DOMAIN Drawn(c) = places
  BY <1>5
<1>14. Sets(c)
  <2>1. ASSUME NEW k \in DOMAIN Requests(c)
        PROVE  Requests(c)[k].op = "pwrite"
    <3>1. k \in 1 .. w * h /\ Requests(c)[k] = req(k)
      BY <1>10
    <3> HIDE DEF base
    <3>2. StoresRows(req(k), base(k), rows(k))
      BY <1>9, <3>1
    <3> QED BY <3>1, <3>2 DEF StoresRows
  <2> QED BY <1>12, <1>13, <2>1, WritesSetNothing
<1> QED BY <1>11, <1>13, <1>14 DEF Honest, Lays

(***************************************************************************)
(* Once all the requests of a call in range have been served, the PPU      *)
(* reads what the call has drawn.                                          *)
(***************************************************************************)
LEMMA CallsAreHonest ==
  ASSUME NEW c, IsCall(c), Accepts(c), Requests(c) # <<>>, InRange(c)
  PROVE  Honest(c)
<1>1. c.fn \in {"horizontal", "vertical", "pattern", "palette", "sprites", "vram",
                "bgcolor", "scroll", "enable", "update"}
  BY DEF IsCall
<1> QED BY <1>1, HorizontalIsHonest, VerticalIsHonest, PatternIsHonest, PaletteIsHonest,
           SpritesAreHonest, VramIsHonest, RegistersAreHonest

----------------------------------------------------------------------------
(***************************************************************************)
(* The invariant behind DrawnAsPromised.  A call in progress has written   *)
(* what the requests that it has sent so far had to write, and what is     *)
(* promised and not dirty lies in VRAM and in the control registers as the *)
(* call of some thread has laid it.                                        *)
(***************************************************************************)

\* A call has sent n of its requests, and has the others left.
HasSent(c, todo, n) ==
  /\ n \in Nat /\ n + Len(todo) = Len(Requests(c))
  /\ \A i \in 1 .. Len(todo) : todo[i] = Requests(c)[n + i]

\* What the first n requests of a call write is in VRAM.
Written(c, n, bytes) ==
  \A loc \in DOMAIN Drawn(c), i \in 1 .. n :
    \A a \in Bytes(loc) \cap Covered(Requests(c)[i]) : ByteAt(bytes, a) = Laid(c, loc, a)

\* Thread t in status st, the PPU being open or not, with n requests of call c sent.
Progress(t, st, open, c, todo, n, bytes, soiled) ==
  /\ st \in {"running", "locked"} => open
  /\ st = "closing" => ~open
  /\ st \in {"ready", "closing"} => n = 0
  /\ st \in {"running", "locked", "busy"} => c \in Drawing(program, t)
  /\ st \in {"running", "locked"} => HasSent(c, todo, n) /\ Written(c, n, bytes)
  /\ st = "locked" \/ (st = "running" /\ n # 0) => DOMAIN Drawn(c) \subseteq soiled

CallsProgress ==
  \A t \in threads :
    Progress(t, status[t], ppu_fd, call[t], left[t], sent[t], vram, dirty)

\* Program p has drawn what is promised at a place, and there it lies unless it is dirty.
Kept(p, loc, value, soiled, bytes, regs) ==
  \E t \in DOMAIN p.calls : \E c \in Drawing(p, t) :
    /\ loc \in DOMAIN Drawn(c) /\ value = Drawn(c)[loc]
    /\ loc \notin soiled => Lies(c, loc, bytes, regs)

PromisesAreKept ==
  \A loc \in DOMAIN promised : Kept(program, loc, promised[loc], dirty, vram, ctrl)

PictureInvariant == CallsProgress /\ PromisesAreKept /\ DOMAIN ctrl = Registers

\* The calls of a thread, in a program that draws as it should.
LEMMA CallsOfProgram ==
  ASSUME program \in Programs, Orderly(program), NEW t \in threads, NEW c \in Drawing(program, t)
  PROVE  Known(c) /\ InRange(c) /\ Honest(c) /\ Tame(c)
<1>1. IsCall(c) /\ Accepts(c) /\ Requests(c) # <<>>
  BY ProgramsAreCalls DEF Drawing
<1>2. InRange(c)
  BY DEF Orderly, threads
<1>3. Honest(c)
  BY <1>1, <1>2, CallsAreHonest
<1>4. Tame(c)
  BY <1>1, CallsAreTame
<1> QED BY <1>1, <1>2, <1>3, <1>4 DEF Known

\* A place that another call has drawn shares no byte with what this call draws.
LEMMA PlacesAreApart ==
  ASSUME Orderly(program), NEW t \in threads, NEW c \in Drawing(program, t),
         NEW u \in threads, NEW d \in Drawing(program, u),
         NEW loc \in DOMAIN Drawn(d), loc \notin DOMAIN Drawn(c)
  PROVE  Bytes(loc) \cap Places(c) = {}
<1> SUFFICES ASSUME NEW place \in DOMAIN Drawn(c)
             PROVE  Bytes(loc) \cap Bytes(place) = {}
  BY DEF Places
<1>1. loc \in Canvas(program, u) /\ place \in Canvas(program, t) /\ loc # place
  BY DEF Canvas
<1> QED BY <1>1 DEF Orderly, threads

\* Two threads draw different places.
LEMMA CallsAreApart ==
  ASSUME Orderly(program), NEW t \in threads, NEW c \in Drawing(program, t),
         NEW u \in threads, u # t, NEW d \in Drawing(program, u)
  PROVE  DOMAIN Drawn(c) \cap DOMAIN Drawn(d) = {}
<1> SUFFICES ASSUME NEW loc \in DOMAIN Drawn(c), loc \in DOMAIN Drawn(d)
             PROVE  FALSE
  OBVIOUS
<1>1. loc \in Canvas(program, u) /\ loc \in Canvas(program, t)
  BY DEF Canvas
<1> QED BY <1>1 DEF Orderly, threads

\* A step stores only where call c draws.
Spares(c) ==
  /\ \A a : a \notin Places(c) => ByteAt(vram', a) = ByteAt(vram, a)
  /\ \A reg \in Registers : Setting(reg) \notin DOMAIN Drawn(c) => ctrl'[reg] = ctrl[reg]
  /\ DOMAIN ctrl' = DOMAIN ctrl

\* A place that it spares is as it was.
LEMMA SparedLies ==
  ASSUME Orderly(program), program \in Programs, NEW t \in threads, NEW c \in Drawing(program, t),
         Spares(c), NEW u \in threads, NEW d \in Drawing(program, u),
         NEW loc \in DOMAIN Drawn(d), loc \notin DOMAIN Drawn(c), Lies(d, loc, vram, ctrl)
  PROVE  Lies(d, loc, vram', ctrl')
<1>1. \A a \in Bytes(loc) : ByteAt(vram', a) = Laid(d, loc, a)
  BY PlacesAreApart DEF Spares, Lies
<1>2. ASSUME loc[1] = "reg"
      PROVE  ctrl'[loc[2]] = Requests(d)[1].param
  <2>1. Sets(d)
    BY CallsOfProgram DEF Honest
  <2>2. /\ Len(Requests(d)) = 1 /\ Requests(d)[1].op = "set"
        /\ loc = Setting(Requests(d)[1].reg)
    BY <1>2, <2>1 DEF Sets
  <2>3. Requests(d)[1].reg \in Registers
    <3>1. 1 \in DOMAIN Requests(d)
      BY <2>2, CallsOfProgram DEF Tame
    <3> QED BY <2>1, <2>2, <3>1 DEF Sets
  <2>4. loc = Setting(loc[2]) /\ loc[2] \in Registers
    BY <2>2, <2>3 DEF Setting
  <2>5. ctrl'[loc[2]] = ctrl[loc[2]]
    BY <2>4 DEF Spares
  <2> QED BY <1>2, <2>5 DEF Lies
<1> QED BY <1>1, <1>2 DEF Lies

\* Another thread's call has what it has written.
LEMMA SparedWritten ==
  ASSUME Orderly(program), NEW t \in threads, NEW c \in Drawing(program, t), Spares(c),
         NEW u \in threads, u # t, NEW d \in Drawing(program, u),
         NEW n, Written(d, n, vram)
  PROVE  Written(d, n, vram')
<1> SUFFICES ASSUME NEW loc \in DOMAIN Drawn(d), NEW i \in 1 .. n,
                    NEW a \in Bytes(loc) \cap Covered(Requests(d)[i])
             PROVE  ByteAt(vram', a) = Laid(d, loc, a)
  BY DEF Written
<1>1. loc \notin DOMAIN Drawn(c)
  BY CallsAreApart
<1>2. a \notin Places(c)
  BY <1>1, PlacesAreApart
<1>3. ByteAt(vram', a) = ByteAt(vram, a)
  BY <1>2 DEF Spares
<1>4. ByteAt(vram, a) = Laid(d, loc, a)
  BY DEF Written
<1> QED BY <1>3, <1>4

\* What is promised at a place is kept if the step does not touch the place.
LEMMA SparedKept ==
  ASSUME Orderly(program), program \in Programs, NEW t \in threads, NEW c \in Drawing(program, t),
         Spares(c), NEW loc, NEW value, Kept(program, loc, value, dirty, vram, ctrl),
         loc \notin dirty' => loc \notin dirty /\ loc \notin DOMAIN Drawn(c)
  PROVE  Kept(program, loc, value, dirty', vram', ctrl')
<1>1. PICK u \in threads : \E d \in Drawing(program, u) :
        /\ loc \in DOMAIN Drawn(d) /\ value = Drawn(d)[loc]
        /\ loc \notin dirty => Lies(d, loc, vram, ctrl)
  BY DEF Kept, threads
<1>2. PICK d \in Drawing(program, u) :
        /\ loc \in DOMAIN Drawn(d) /\ value = Drawn(d)[loc]
        /\ loc \notin dirty => Lies(d, loc, vram, ctrl)
  BY <1>1
<1>3. loc \notin dirty' => Lies(d, loc, vram', ctrl')
  BY <1>2, SparedLies
<1>4. u \in DOMAIN program.calls
  BY DEF threads
<1> QED BY <1>2, <1>3, <1>4 DEF Kept
----------------------------------------------------------------------------
(* Every action keeps that invariant. *)

Orderliness == program \in Programs /\ Orderly(program)

\* The invariant holds when nothing has been drawn.
LEMMA InitIsPicture == Init => PictureInvariant
<1> SUFFICES ASSUME Init PROVE PictureInvariant
  OBVIOUS
<1>1. \A t \in threads : status[t] = "ready" /\ sent[t] = 0
  BY ProgramsAreCalls DEF Init
<1>2. CallsProgress
  BY <1>1 DEF CallsProgress, Progress
<1>3. promised = <<>> /\ DOMAIN ctrl = Registers
  BY DEF Init
<1>4. DOMAIN promised = {}
  BY <1>3
<1> QED BY <1>2, <1>3, <1>4 DEF PictureInvariant, PromisesAreKept

\* What the invariant says of a thread.
LEMMA ThreadProgress ==
  ASSUME PictureInvariant, NEW t \in threads
  PROVE  Progress(t, status[t], ppu_fd, call[t], left[t], sent[t], vram, dirty)
BY DEF PictureInvariant, CallsProgress

\* What has been drawn may only be dirtied.
LEMMA KeptAside ==
  ASSUME PictureInvariant, UNCHANGED <<program, vram, ctrl, promised>>, dirty \subseteq dirty'
  PROVE  PromisesAreKept'
BY DEF PictureInvariant, PromisesAreKept, Kept

\* A thread's own step keeps the invariant if it does not touch the device.
LEMMA PictureThreadStep ==
  ASSUME LibraryInvariant, PictureInvariant, NEW t \in threads, Elsewhere(t),
         UNCHANGED <<ppu_fd, vram, ctrl, promised>>, dirty \subseteq dirty',
         Progress(t, status'[t], ppu_fd, call'[t], left'[t], sent'[t], vram, dirty')
  PROVE  PictureInvariant'
<1>1. threads' = threads /\ program' = program /\ threads \subseteq Thread
  BY ProgramsAreCalls DEF Elsewhere, threads, LibraryInvariant, Functions
<1>2. PromisesAreKept'
  BY <1>1, KeptAside
<1>3. ASSUME NEW u \in threads
      PROVE  Progress(u, status[u], ppu_fd, call[u], left[u], sent[u], vram, dirty)'
  <2>1. CASE u = t
    BY <1>1, <2>1 DEF Progress
  <2>2. CASE u # t
    <3>1. /\ status'[u] = status[u] /\ call'[u] = call[u]
          /\ left'[u] = left[u] /\ sent'[u] = sent[u]
      BY <1>1, <2>2 DEF Elsewhere
    <3>2. Progress(u, status[u], ppu_fd, call[u], left[u], sent[u], vram, dirty)
      BY ThreadProgress
    <3> QED BY <1>1, <3>1, <3>2 DEF Progress
  <2> QED BY <2>1, <2>2
<1> QED BY <1>1, <1>2, <1>3 DEF PictureInvariant, CallsProgress

\* Noway and the steps of the rest of the system.
LEMMA OthersKeepPicture ==
  ASSUME PictureInvariant,
         UNCHANGED <<program, ppu_fd, vram, ctrl, status, call, left, sent, promised, dirty>>
  PROVE  PictureInvariant'
BY DEF PictureInvariant, CallsProgress, Progress, PromisesAreKept, Kept, threads

\* The device is opened when no close is under way.
LEMMA EnableKeepsPicture ==
  ASSUME LibraryInvariant, PictureInvariant, NEW t \in threads, Enable(t), program' = program
  PROVE  PictureInvariant'
<1>1. CASE Noway
  <2>1. UNCHANGED <<ppu_fd, vram, ctrl, status, call, left, sent, promised, dirty>>
    BY <1>1 DEF Noway, deviceVars, callVars, pictureVars
  <2> QED BY <2>1, OthersKeepPicture
<1>2. CASE ~Noway
  <2>1. /\ ppu_fd' = TRUE /\ \A u \in Thread : status[u] # "closing"
        /\ UNCHANGED <<vram, ctrl, status, call, left, sent, promised, dirty>>
    BY <1>2 DEF Enable, deviceVars, callVars, pictureVars
  <2>2. threads' = threads /\ threads \subseteq Thread
    BY ProgramsAreCalls DEF threads, LibraryInvariant, Functions
  <2>3. PromisesAreKept'
    BY <2>1, KeptAside
  <2>4. CallsProgress'
    BY <2>1, <2>2 DEF PictureInvariant, CallsProgress, Progress
  <2> QED BY <2>1, <2>3, <2>4 DEF PictureInvariant
<1> QED BY <1>1, <1>2

\* It is closed when no other thread is in a call.
LEMMA DisableKeepsPicture ==
  ASSUME LibraryInvariant, PictureInvariant, NEW t \in threads, Disable(t), program' = program
  PROVE  PictureInvariant'
<1>1. CASE Noway
  <2>1. UNCHANGED <<ppu_fd, vram, ctrl, status, call, left, sent, promised, dirty>>
    BY <1>1 DEF Noway, deviceVars, callVars, pictureVars
  <2> QED BY <2>1, OthersKeepPicture
<1>2. CASE ~Noway
  <2>1. /\ ppu_fd' = FALSE /\ \A u \in Thread \ {t} : status[u] \in {"ready", "busy"}
        /\ status[t] = "ready" /\ status' = [status EXCEPT ![t] = "closing"]
        /\ UNCHANGED <<vram, ctrl, call, left, sent, promised, dirty>>
    BY <1>2 DEF Disable, Goto, deviceVars, callVars, pictureVars
  <2>2. threads' = threads /\ threads \subseteq Thread
    BY ProgramsAreCalls DEF threads, LibraryInvariant, Functions
  <2>3. PromisesAreKept'
    BY <2>1, KeptAside
  <2>4. ASSUME NEW u \in threads
        PROVE  Progress(u, status[u], ppu_fd, call[u], left[u], sent[u], vram, dirty)'
    <3>1. Progress(u, status[u], ppu_fd, call[u], left[u], sent[u], vram, dirty)
      BY ThreadProgress
    <3>2. CASE u = t
      <4>1. status'[u] = "closing"
        BY <2>1, <3>2, ThreadFacts
      <4>2. sent[u] = 0
        BY <2>1, <3>1, <3>2 DEF Progress
      <4> QED BY <2>1, <4>1, <4>2 DEF Progress
    <3>3. CASE u # t
      <4>1. status'[u] = status[u] /\ status[u] \in {"ready", "busy"}
        BY <2>1, <2>2, <3>3
      <4> QED BY <2>1, <3>1, <4>1 DEF Progress
    <3> QED BY <3>2, <3>3
  <2>5. CallsProgress'
    BY <2>2, <2>4 DEF CallsProgress
  <2> QED BY <2>1, <2>3, <2>5 DEF PictureInvariant
<1> QED BY <1>1, <1>2

\* The close leaves a blank picture, and no promise.
LEMMA ClosedKeepsPicture ==
  ASSUME LibraryInvariant, PictureInvariant, NEW t \in threads, Closed(t), program' = program
  PROVE  PictureInvariant'
<1>1. /\ status[t] = "closing" /\ status' = [status EXCEPT ![t] = "ready"]
      /\ UNCHANGED <<ppu_fd, call, left, sent>> /\ Blanked
  BY DEF Closed, Goto, callVars
<1>2. ~ppu_fd
  BY <1>1, ThreadProgress DEF Progress
<1>3. threads' = threads
  BY DEF threads
<1>4. ASSUME NEW u \in threads
      PROVE  Progress(u, status[u], ppu_fd, call[u], left[u], sent[u], vram, dirty)'
  <2>1. Progress(u, status[u], ppu_fd, call[u], left[u], sent[u], vram, dirty)
    BY ThreadProgress
  <2>2. status[u] \notin {"running", "locked"}
    BY <1>2, <2>1 DEF Progress
  <2>3. CASE u = t
    <3>1. status'[u] = "ready" /\ sent'[u] = 0
      BY <1>1, <2>1, <2>3, ThreadFacts DEF Progress
    <3> QED BY <3>1 DEF Progress
  <2>4. CASE u # t
    <3>1. status'[u] = status[u]
      BY <1>1, <2>4, ThreadFacts
    <3> QED BY <1>1, <2>1, <2>2, <3>1 DEF Progress
  <2> QED BY <2>3, <2>4
<1>5. promised' = <<>> /\ DOMAIN ctrl' = Registers
  BY <1>1 DEF Blanked
<1>6. DOMAIN promised' = {}
  BY <1>5
<1> QED BY <1>3, <1>4, <1>5, <1>6 DEF PictureInvariant, CallsProgress, PromisesAreKept

\* So does the end of the program.
LEMMA RestartKeepsPicture ==
  ASSUME LibraryInvariant, Restart, program' = program
  PROVE  PictureInvariant'
<1>1. /\ status' = [t \in Thread |-> "ready"] /\ sent' = [t \in Thread |-> 0] /\ Blanked
  BY DEF Restart
<1>2. threads' = threads /\ threads \subseteq Thread
  BY ProgramsAreCalls DEF threads, LibraryInvariant, Functions
<1>3. \A u \in threads : status'[u] = "ready" /\ sent'[u] = 0
  BY <1>1, <1>2
<1>4. CallsProgress'
  BY <1>2, <1>3 DEF CallsProgress, Progress
<1>5. promised' = <<>> /\ DOMAIN ctrl' = Registers
  BY <1>1 DEF Blanked
<1>6. DOMAIN promised' = {}
  BY <1>5
<1> QED BY <1>4, <1>5, <1>6 DEF PictureInvariant, PromisesAreKept

\* A call begins with nothing sent.
LEMMA NothingSent ==
  ASSUME NEW c, Tame(c), NEW bytes
  PROVE  HasSent(c, Requests(c), 0) /\ Written(c, 0, bytes)
<1>1. Len(Requests(c)) \in Nat
  BY DEF Tame
<1>2. \A i \in 1 .. Len(Requests(c)) : 0 + i = i
  BY <1>1
<1> QED BY <1>1, <1>2 DEF HasSent, Written

\* A call that is accepted.
LEMMA CallKeepsPicture ==
  ASSUME LibraryInvariant, PictureInvariant, Orderliness,
         NEW t \in threads, Call(t), program' = program
  PROVE  PictureInvariant'
<1>1. status[t] = "ready"
  BY DEF Call
<1>2. PICK c \in program.calls[t] : IF ppu_fd /\ Accepts(c) THEN Begin(t, c) ELSE Noway
  BY DEF Call
<1>3. CASE Noway
  <2>1. UNCHANGED <<ppu_fd, vram, ctrl, status, call, left, sent, promised, dirty>>
    BY <1>3 DEF Noway, deviceVars, callVars, pictureVars
  <2> QED BY <2>1, OthersKeepPicture
<1>4. CASE ppu_fd /\ Accepts(c) /\ Begin(t, c)
  <2>1. /\ call' = [call EXCEPT ![t] = c] /\ left' = [left EXCEPT ![t] = Requests(c)]
        /\ status' = [status EXCEPT ![t] = "running"] /\ Requests(c) # <<>>
        /\ UNCHANGED <<ppu_fd, vram, ctrl, sent, promised, dirty>>
    BY <1>4 DEF Begin, deviceVars, pictureVars
  <2>2. status'[t] = "running" /\ call'[t] = c /\ left'[t] = Requests(c) /\ sent'[t] = 0
    BY <1>1, <2>1, ThreadFacts, ThreadProgress DEF Progress
  <2>3. Elsewhere(t)
    BY <2>1, ThreadFacts DEF Elsewhere
  <2>4. c \in Drawing(program, t)
    BY <1>4, <2>1 DEF Drawing
  <2>5. HasSent(c, Requests(c), 0) /\ Written(c, 0, vram)
    BY <2>4, CallsOfProgram, NothingSent DEF Orderliness
  <2>6. Progress(t, status'[t], ppu_fd, call'[t], left'[t], sent'[t], vram, dirty')
    BY <1>4, <2>2, <2>4, <2>5 DEF Progress
  <2> QED BY <2>1, <2>3, <2>6, PictureThreadStep
<1> QED BY <1>2, <1>3, <1>4

\* A call that is repeated.
LEMMA RetryKeepsPicture ==
  ASSUME LibraryInvariant, PictureInvariant, Orderliness,
         NEW t \in threads, Retry(t), program' = program
  PROVE  PictureInvariant'
<1>1. CASE Noway
  <2>1. UNCHANGED <<ppu_fd, vram, ctrl, status, call, left, sent, promised, dirty>>
    BY <1>1 DEF Noway, deviceVars, callVars, pictureVars
  <2> QED BY <2>1, OthersKeepPicture
<1>2. CASE ppu_fd
  <2> DEFINE c == call[t]
  <2>1. /\ status[t] = "busy" /\ status' = [status EXCEPT ![t] = "running"]
        /\ left' = [left EXCEPT ![t] = Requests(c)] /\ sent' = [sent EXCEPT ![t] = 0]
        /\ UNCHANGED <<ppu_fd, call, vram, ctrl, promised, dirty>>
    BY <1>2 DEF Retry, deviceVars, pictureVars
  <2>2. status'[t] = "running" /\ call'[t] = c /\ left'[t] = Requests(c) /\ sent'[t] = 0
    BY <2>1, ThreadFacts
  <2>3. Elsewhere(t)
    BY <2>1, ThreadFacts DEF Elsewhere
  <2>4. c \in Drawing(program, t)
    BY <2>1, ThreadProgress DEF Progress
  <2>5. HasSent(c, Requests(c), 0) /\ Written(c, 0, vram)
    BY <2>4, CallsOfProgram, NothingSent DEF Orderliness
  <2>6. Progress(t, status'[t], ppu_fd, call'[t], left'[t], sent'[t], vram, dirty')
    BY <1>2, <2>2, <2>4, <2>5 DEF Progress
  <2> QED BY <2>1, <2>3, <2>6, PictureThreadStep
<1> QED BY <1>1, <1>2 DEF Retry

\* A call that is not repeated.
LEMMA GiveUpKeepsPicture ==
  ASSUME LibraryInvariant, PictureInvariant, NEW t \in threads, GiveUp(t), program' = program
  PROVE  PictureInvariant'
<1>1. /\ status' = [status EXCEPT ![t] = "ready"] /\ call' = [call EXCEPT ![t] = NoCall]
      /\ left' = [left EXCEPT ![t] = <<>>] /\ sent' = [sent EXCEPT ![t] = 0]
      /\ UNCHANGED <<ppu_fd, vram, ctrl, promised, dirty>>
  BY DEF GiveUp, Goto, deviceVars, pictureVars
<1>2. status'[t] = "ready" /\ sent'[t] = 0
  BY <1>1, ThreadFacts
<1>3. Elsewhere(t)
  BY <1>1, ThreadFacts DEF Elsewhere
<1>4. Progress(t, status'[t], ppu_fd, call'[t], left'[t], sent'[t], vram, dirty')
  BY <1>2 DEF Progress
<1> QED BY <1>1, <1>3, <1>4, PictureThreadStep

\* A request that finds the PPU busy.
LEMMA RequestBusyKeepsPicture ==
  ASSUME LibraryInvariant, PictureInvariant, NEW t \in threads, RequestBusy(t), program' = program
  PROVE  PictureInvariant'
<1>1. /\ status[t] = "running" /\ status' = [status EXCEPT ![t] = "busy"]
      /\ UNCHANGED <<ppu_fd, call, left, sent, vram, ctrl, promised, dirty>>
  BY DEF RequestBusy, Goto, deviceVars, callVars, pictureVars
<1>2. status'[t] = "busy"
  BY <1>1, ThreadFacts
<1>3. Elsewhere(t)
  BY <1>1, ThreadFacts DEF Elsewhere
<1>4. Progress(t, status'[t], ppu_fd, call'[t], left'[t], sent'[t], vram, dirty')
  BY <1>1, <1>2, ThreadProgress DEF Progress
<1> QED BY <1>1, <1>3, <1>4, PictureThreadStep

\* A request that takes the lock dirties what its call draws.
LEMMA RequestLockKeepsPicture ==
  ASSUME LibraryInvariant, PictureInvariant, NEW t \in threads, RequestLock(t), program' = program
  PROVE  PictureInvariant'
<1>1. /\ status[t] = "running" /\ status' = [status EXCEPT ![t] = "locked"]
      /\ dirty' = dirty \cup DOMAIN Drawn(call[t])
      /\ UNCHANGED <<ppu_fd, call, left, sent, vram, ctrl, promised>>
  BY DEF RequestLock, Goto, callVars
<1>2. status'[t] = "locked"
  BY <1>1, ThreadFacts
<1>3. Elsewhere(t)
  BY <1>1, ThreadFacts DEF Elsewhere
<1>4. Progress(t, status'[t], ppu_fd, call'[t], left'[t], sent'[t], vram, dirty')
  BY <1>1, <1>2, ThreadProgress DEF Progress
<1> QED BY <1>1, <1>3, <1>4, PictureThreadStep

\* What the invariant says of a thread whose request is being served.
LEMMA ServedFacts ==
  ASSUME LibraryInvariant, PictureInvariant, Orderliness, NEW t \in threads, status[t] = "locked"
  PROVE  LET c == call[t]
         IN /\ c \in Drawing(program, t) /\ Tame(c) /\ Honest(c) /\ ppu_fd
            /\ sent[t] \in Nat /\ Len(left[t]) \in Nat /\ Len(left[t]) > 0
            /\ Head(left[t]) = Requests(c)[sent[t] + 1]
            /\ sent[t] + 1 \in DOMAIN Requests(c) /\ Head(left[t]) \in Sent(c)
            /\ DOMAIN Requests(c) = 1 .. Len(Requests(c))
            /\ sent[t] + Len(left[t]) = Len(Requests(c))
            /\ \A i \in 1 .. Len(left[t]) : left[t][i] = Requests(c)[sent[t] + i]
            /\ Written(c, sent[t], vram) /\ DOMAIN Drawn(c) \subseteq dirty
<1> DEFINE c == call[t]
           todo == left[t]
           n == sent[t]
<1>1. c \in Drawing(program, t) /\ HasSent(c, todo, n) /\ Written(c, n, vram)
        /\ DOMAIN Drawn(c) \subseteq dirty /\ ppu_fd
  BY ThreadProgress DEF Progress
<1>2. Tame(c) /\ Honest(c)
  BY <1>1, CallsOfProgram DEF Orderliness
<1>3. todo \in Seq(Sent(c)) /\ todo # <<>>
  BY ThreadFacts DEF InCall
<1> HIDE DEF c, todo, n
<1>4. Len(todo) \in Nat /\ Len(todo) > 0 /\ Head(todo) = todo[1] /\ Head(todo) \in Sent(c)
  BY <1>3
<1>5. n \in Nat /\ n + Len(todo) = Len(Requests(c))
        /\ \A i \in 1 .. Len(todo) : todo[i] = Requests(c)[n + i]
  BY <1>1 DEF HasSent
<1>6. DOMAIN Requests(c) = 1 .. Len(Requests(c)) /\ Len(Requests(c)) \in Nat
  BY <1>2 DEF Tame
<1>7. 1 \in 1 .. Len(todo)
  BY <1>4
<1>8. todo[1] = Requests(c)[n + 1] /\ n + 1 \in DOMAIN Requests(c)
  BY <1>4, <1>5, <1>6, <1>7
<1> QED BY <1>1, <1>2, <1>4, <1>5, <1>6, <1>8 DEF c, todo, n

\* What the served request has stored.
LEMMA ServedBytes ==
  ASSUME NEW req, Serve(req), req.op \in {"pwrite", "set"}
  PROVE  /\ \A a : ByteAt(vram', a) = IF a \in Covered(req) THEN Stored(req)[a] ELSE ByteAt(vram, a)
         /\ req.op = "set" => ctrl' = [ctrl EXCEPT ![req.reg] = req.param]
         /\ req.op = "pwrite" => ctrl' = ctrl
<1>1. CASE req.op = "pwrite"
  <2>1. vram' = Overlay(Stored(req), vram) /\ ctrl' = ctrl
    BY <1>1 DEF Serve
  <2>2. DOMAIN Stored(req) = Covered(req)
    BY <1>1 DEF Stored, Covered
  <2>3. \A a : a \in DOMAIN vram' <=> a \in Covered(req) \/ a \in DOMAIN vram
    BY <2>1, <2>2 DEF Overlay
  <2>4. \A a \in DOMAIN vram' : vram'[a] = IF a \in Covered(req) THEN Stored(req)[a] ELSE vram[a]
    BY <2>1, <2>2 DEF Overlay
  <2> HIDE DEF Serve
  <2>5. \A a : ByteAt(vram', a) = IF a \in Covered(req) THEN Stored(req)[a] ELSE ByteAt(vram, a)
    BY <2>3, <2>4 DEF ByteAt
  <2> QED BY <1>1, <2>1, <2>5
<1>2. CASE req.op = "set"
  <2>1. vram' = vram /\ ctrl' = [ctrl EXCEPT ![req.reg] = req.param]
    BY <1>2 DEF Serve
  <2>2. Covered(req) = {}
    BY <1>2 DEF Covered
  <2> QED BY <1>2, <2>1, <2>2
<1> QED BY <1>1, <1>2

\* It touches nothing but what its call draws.
LEMMA ServedSpares ==
  ASSUME LibraryInvariant, PictureInvariant, Orderliness, NEW t \in threads,
         status[t] = "locked", Serve(Head(left[t]))
  PROVE  Spares(call[t])
<1> DEFINE c == call[t]
           req == Head(left[t])
<1>1. Tame(c) /\ Honest(c) /\ req \in Sent(c) /\ DOMAIN Requests(c) = 1 .. Len(Requests(c))
  BY ServedFacts
<1>2. req.op # "update"
  BY ThreadFacts DEF Served
<1>3. Harmless(c, req) /\ Sets(c)
  BY <1>1 DEF Tame, Honest
<1>4. Serve(req) /\ DOMAIN ctrl = Registers
  BY DEF PictureInvariant
<1> HIDE DEF c, req
<1>5. req.op \in {"pwrite", "set"}
  BY <1>2, <1>3 DEF Harmless
<1>6. /\ \A a : ByteAt(vram', a) = IF a \in Covered(req) THEN Stored(req)[a] ELSE ByteAt(vram, a)
      /\ req.op = "set" => ctrl' = [ctrl EXCEPT ![req.reg] = req.param]
      /\ req.op = "pwrite" => ctrl' = ctrl
  BY <1>4, <1>5, ServedBytes
<1>7. \A a \in Covered(req) : a \in Places(c)
  BY <1>3, <1>5 DEF Covered, Harmless, Within
<1>8. \A a : a \notin Places(c) => ByteAt(vram', a) = ByteAt(vram, a)
  BY <1>6, <1>7
<1>9. CASE req.op = "pwrite"
  BY <1>6, <1>8, <1>9 DEF Spares, c
<1>10. CASE req.op = "set"
  <2>1. PICK i \in DOMAIN Requests(c) : req = Requests(c)[i]
    BY <1>1 DEF Sent
  <2>2. Len(Requests(c)) = 1 /\ DOMAIN Drawn(c) = {Setting(Requests(c)[1].reg)}
    BY <1>3, <1>10, <2>1 DEF Sets
  <2>3. i = 1
    BY <1>1, <2>2
  <2>4. Setting(req.reg) \in DOMAIN Drawn(c)
    BY <2>1, <2>2, <2>3
  <2>5. \A reg \in Registers : reg # req.reg => ctrl'[reg] = ctrl[reg]
    BY <1>4, <1>6, <1>10
  <2>6. \A reg \in Registers : Setting(reg) \notin DOMAIN Drawn(c) => ctrl'[reg] = ctrl[reg]
    BY <2>4, <2>5
  <2>7. DOMAIN ctrl' = DOMAIN ctrl
    BY <1>6, <1>10
  <2> QED BY <1>8, <2>6, <2>7 DEF Spares, c
<1> QED BY <1>5, <1>9, <1>10

\* A served request has been written.
LEMMA ServedWrites ==
  ASSUME LibraryInvariant, PictureInvariant, Orderliness, NEW t \in threads,
         status[t] = "locked", Serve(Head(left[t]))
  PROVE  Written(call[t], sent[t] + 1, vram')
<1> DEFINE c == call[t]
           n == sent[t]
           req == Head(left[t])
<1>1. /\ Tame(c) /\ Honest(c) /\ n \in Nat /\ req = Requests(c)[n + 1]
      /\ n + 1 \in DOMAIN Requests(c) /\ req \in Sent(c) /\ Written(c, n, vram)
  BY ServedFacts
<1>2. req.op # "update"
  BY ThreadFacts DEF Served
<1>3. req.op \in {"pwrite", "set"}
  BY <1>1, <1>2 DEF Tame, Harmless
<1>4. Serve(req)
  OBVIOUS
<1> HIDE DEF c, n, req
<1>5. \A a : ByteAt(vram', a) = IF a \in Covered(req) THEN Stored(req)[a] ELSE ByteAt(vram, a)
  BY <1>3, <1>4, ServedBytes
<1>6. ASSUME NEW loc \in DOMAIN Drawn(c), NEW i \in 1 .. n + 1,
             NEW a \in Bytes(loc) \cap Covered(Requests(c)[i])
      PROVE  ByteAt(vram', a) = Laid(c, loc, a)
  <2>1. CASE a \in Covered(req)
    <3>1. Stored(req)[a] = Laid(c, loc, a)
      BY <1>1, <2>1 DEF Honest, Lays, LaysAt
    <3> QED BY <1>5, <2>1, <3>1
  <2>2. CASE a \notin Covered(req)
    <3>1. i # n + 1
      BY <1>1, <2>2
    <3>2. i \in 1 .. n
      BY <1>1, <3>1
    <3>3. ByteAt(vram, a) = Laid(c, loc, a)
      BY <1>1, <3>2 DEF Written
    <3> QED BY <1>5, <2>2, <3>3
  <2> QED BY <2>1, <2>2
<1> QED BY <1>6 DEF Written, c, n

\* When the last request of a call has been served, all that it draws lies there.
LEMMA CompleteLies ==
  ASSUME LibraryInvariant, PictureInvariant, Orderliness, NEW t \in threads,
         status[t] = "locked", Serve(Head(left[t])), Len(left[t]) = 1,
         NEW loc \in DOMAIN Drawn(call[t])
  PROVE  Lies(call[t], loc, vram', ctrl')
<1> DEFINE c == call[t]
           n == sent[t]
           req == Head(left[t])
<1>1. /\ Honest(c) /\ n \in Nat /\ req = Requests(c)[n + 1] /\ n + 1 = Len(Requests(c))
      /\ DOMAIN Requests(c) = 1 .. Len(Requests(c))
  BY ServedFacts
<1>2. Written(c, n + 1, vram')
  BY ServedWrites
<1>3. Serve(req) /\ DOMAIN ctrl = Registers
  BY DEF PictureInvariant
<1> HIDE DEF c, n, req
<1>4. ASSUME NEW a \in Bytes(loc)
      PROVE  ByteAt(vram', a) = Laid(c, loc, a)
  <2>1. PICK i \in DOMAIN Requests(c) : a \in Covered(Requests(c)[i])
    BY <1>1 DEF c, Honest, Lays, LaysAt
  <2>2. i \in 1 .. n + 1
    BY <1>1
  <2> QED BY <1>2, <2>1, <2>2 DEF Written, c
<1>5. ASSUME loc[1] = "reg"
      PROVE  ctrl'[loc[2]] = Requests(c)[1].param
  <2>1. /\ Len(Requests(c)) = 1 /\ Requests(c)[1].op = "set"
        /\ loc = Setting(Requests(c)[1].reg)
    BY <1>1, <1>5 DEF c, Honest, Sets
  <2>2. req = Requests(c)[1] /\ 1 \in DOMAIN Requests(c)
    BY <1>1, <2>1
  <2>3. req.reg \in Registers /\ req.op = "set" /\ loc[2] = req.reg
    BY <1>1, <2>1, <2>2 DEF Honest, Sets, Setting
  <2>4. ctrl' = [ctrl EXCEPT ![req.reg] = req.param]
    BY <1>3, <2>3, ServedBytes
  <2> QED BY <1>3, <2>2, <2>3, <2>4
<1> QED BY <1>4, <1>5 DEF Lies, c

\* A step that stores only where the call of one thread draws.
LEMMA PictureStep ==
  ASSUME LibraryInvariant, PictureInvariant, Orderliness,
         NEW t \in threads, NEW c \in Drawing(program, t), Spares(c), Elsewhere(t),
         ppu_fd' = ppu_fd, dirty \ DOMAIN Drawn(c) \subseteq dirty',
         Progress(t, status[t], ppu_fd, call[t], left[t], sent[t], vram, dirty)',
         PromisesAreKept'
  PROVE  PictureInvariant'
<1>1. threads' = threads /\ program' = program /\ threads \subseteq Thread
  BY ProgramsAreCalls DEF Elsewhere, threads, Orderliness
<1>2. ASSUME NEW u \in threads, u # t
      PROVE  Progress(u, status[u], ppu_fd, call[u], left[u], sent[u], vram, dirty)'
  <2> DEFINE d == call[u]
  <2>1. /\ status'[u] = status[u] /\ call'[u] = d /\ left'[u] = left[u] /\ sent'[u] = sent[u]
    BY <1>1, <1>2 DEF Elsewhere
  <2>2. Progress(u, status[u], ppu_fd, d, left[u], sent[u], vram, dirty)
    BY ThreadProgress
  <2> HIDE DEF d
  <2>3. ASSUME status[u] \in {"running", "locked"}
        PROVE  Written(d, sent[u], vram')
    <3>1. d \in Drawing(program, u) /\ Written(d, sent[u], vram)
      BY <2>2, <2>3 DEF Progress
    <3> QED BY <1>2, <3>1, SparedWritten DEF Orderliness
  <2>4. ASSUME status[u] = "locked" \/ (status[u] = "running" /\ sent[u] # 0)
        PROVE  DOMAIN Drawn(d) \subseteq dirty'
    <3>1. d \in Drawing(program, u) /\ DOMAIN Drawn(d) \subseteq dirty
      BY <2>2, <2>4 DEF Progress
    <3>2. DOMAIN Drawn(c) \cap DOMAIN Drawn(d) = {}
      BY <1>2, <3>1, CallsAreApart DEF Orderliness
    <3> QED BY <3>1, <3>2
  <2> QED BY <1>1, <2>1, <2>2, <2>3, <2>4 DEF Progress
<1>3. CallsProgress'
  BY <1>1, <1>2 DEF CallsProgress
<1>4. DOMAIN ctrl' = Registers
  BY DEF Spares, PictureInvariant
<1> QED BY <1>3, <1>4 DEF PictureInvariant

\* A call that returns promises what it has drawn.
LEMMA ReturnKeepsPicture ==
  ASSUME LibraryInvariant, PictureInvariant, Orderliness, NEW t \in threads, Return(t),
         call[t] \in Drawing(program, t), Spares(call[t]), ppu_fd' = ppu_fd, program' = program,
         \A loc \in DOMAIN Drawn(call[t]) : Lies(call[t], loc, vram', ctrl')
  PROVE  PictureInvariant'
<1> DEFINE c == call[t]
<1>1. status'[t] = "ready" /\ sent'[t] = 0 /\ Elsewhere(t)
  BY Returned
<1>2. promised' = Overlay(Drawn(c), promised) /\ dirty' = dirty \ DOMAIN Drawn(c)
  BY DEF Return
<1> HIDE DEF c
<1>4. Progress(t, status[t], ppu_fd, call[t], left[t], sent[t], vram, dirty)'
  BY <1>1 DEF Progress
<1>5. ASSUME NEW loc \in DOMAIN promised'
      PROVE  Kept(program, loc, promised'[loc], dirty', vram', ctrl')
  <2>1. CASE loc \in DOMAIN Drawn(c)
    <3>1. promised'[loc] = Drawn(c)[loc]
      BY <1>2, <2>1 DEF Overlay
    <3>2. Lies(c, loc, vram', ctrl') /\ c \in Drawing(program, t)
      BY <2>1 DEF c
    <3> QED BY <2>1, <3>1, <3>2 DEF Kept, threads
  <2>2. CASE loc \notin DOMAIN Drawn(c)
    <3>1. promised'[loc] = promised[loc] /\ loc \in DOMAIN promised
      BY <1>2, <2>2 DEF Overlay
    <3>2. Kept(program, loc, promised[loc], dirty, vram, ctrl)
      BY <3>1 DEF PictureInvariant, PromisesAreKept
    <3>3. loc \notin dirty' => loc \notin dirty /\ loc \notin DOMAIN Drawn(c)
      BY <1>2, <2>2
    <3> QED BY <3>1, <3>2, <3>3, SparedKept DEF Orderliness, c
  <2> QED BY <2>1, <2>2
<1>6. PromisesAreKept'
  BY <1>5 DEF PromisesAreKept
<1>7. dirty \ DOMAIN Drawn(call[t]) \subseteq dirty'
  BY <1>2 DEF c
<1> QED BY <1>1, <1>4, <1>6, <1>7, PictureStep

\* A call that has more requests to send goes on.
LEMMA ContinueKeepsPicture ==
  ASSUME LibraryInvariant, PictureInvariant, Orderliness, NEW t \in threads,
         status[t] = "locked", Serve(Head(left[t])), Len(left[t]) # 1, Continue(t),
         ppu_fd' = ppu_fd, program' = program
  PROVE  PictureInvariant'
<1> DEFINE c == call[t]
           n == sent[t]
           todo == left[t]
<1>1. /\ c \in Drawing(program, t) /\ ppu_fd /\ n \in Nat /\ Len(todo) \in Nat /\ Len(todo) > 0
      /\ n + Len(todo) = Len(Requests(c))
      /\ \A i \in 1 .. Len(todo) : todo[i] = Requests(c)[n + i]
      /\ DOMAIN Drawn(c) \subseteq dirty
  BY ServedFacts
<1>2. status'[t] = "running" /\ Elsewhere(t) /\ promised' = promised /\ dirty' = dirty
  BY Continued
<1>3. call'[t] = c /\ sent'[t] = n + 1 /\ left'[t] = Tail(todo)
  BY ThreadFacts DEF Continue
<1>4. Written(c, n + 1, vram') /\ Spares(c)
  BY ServedWrites, ServedSpares
<1>5. todo \in Seq(Sent(c)) /\ todo # <<>>
  BY ThreadFacts DEF InCall
<1>6. ppu_fd' /\ program' = program
  BY <1>1
<1> HIDE DEF c, n, todo
<1>7. HasSent(c, Tail(todo), n + 1)
  <2>1. /\ Len(Tail(todo)) = Len(todo) - 1
        /\ \A i \in 1 .. Len(Tail(todo)) : Tail(todo)[i] = todo[i + 1]
    <3>1. Len(Tail(todo)) = Len(todo) - 1
      BY <1>5
    <3>2. \A i \in 1 .. Len(Tail(todo)) : Tail(todo)[i] = todo[i + 1]
      BY <1>5, <3>1
    <3> QED BY <3>1, <3>2
  <2>2. n + 1 + Len(Tail(todo)) = Len(Requests(c))
    <3> DEFINE len == Len(todo)
               rest == Len(Tail(todo))
    <3>1. n \in Nat /\ len \in Nat /\ n + len = Len(Requests(c)) /\ rest = len - 1
      BY <1>1, <2>1
    <3> HIDE DEF len, rest
    <3>2. n + 1 + rest = Len(Requests(c))
      BY <3>1
    <3> QED BY <3>2 DEF rest
  <2>3. ASSUME NEW i \in 1 .. Len(Tail(todo))
        PROVE  Tail(todo)[i] = Requests(c)[n + 1 + i]
    <3>1. i + 1 \in 1 .. Len(todo) /\ n + (i + 1) = n + 1 + i
      BY <1>1, <2>1
    <3>2. todo[i + 1] = Requests(c)[n + (i + 1)]
      BY <1>1, <3>1
    <3> QED BY <2>1, <3>1, <3>2
  <2>4. n + 1 \in Nat
    BY <1>1
  <2> QED BY <2>2, <2>3, <2>4, Zenon DEF HasSent
<1>8. Progress(t, status[t], ppu_fd, call[t], left[t], sent[t], vram, dirty)'
  BY <1>1, <1>2, <1>3, <1>4, <1>6, <1>7 DEF Progress
<1>9. ASSUME NEW loc \in DOMAIN promised
      PROVE  Kept(program, loc, promised[loc], dirty', vram', ctrl')
  <2>1. Kept(program, loc, promised[loc], dirty, vram, ctrl)
    BY DEF PictureInvariant, PromisesAreKept
  <2>2. loc \notin dirty' => loc \notin dirty /\ loc \notin DOMAIN Drawn(c)
    BY <1>1, <1>2
  <2> QED BY <1>1, <1>4, <2>1, <2>2, SparedKept DEF Orderliness
<1>10. PromisesAreKept'
  BY <1>2, <1>6, <1>9 DEF PromisesAreKept
<1>11. dirty \ DOMAIN Drawn(c) \subseteq dirty'
  BY <1>2
<1> QED BY <1>1, <1>2, <1>4, <1>8, <1>10, <1>11, PictureStep

\* A request has been served.
LEMMA RequestDoneKeepsPicture ==
  ASSUME LibraryInvariant, PictureInvariant, Orderliness,
         NEW t \in threads, RequestDone(t), program' = program
  PROVE  PictureInvariant'
<1>1. status[t] = "locked" /\ Serve(Head(left[t])) /\ ppu_fd' = ppu_fd
  BY DEF RequestDone
<1>2. CASE Len(left[t]) = 1
  <2>1. Return(t)
    BY <1>2 DEF RequestDone
  <2>2. call[t] \in Drawing(program, t) /\ Spares(call[t])
    BY <1>1, ServedFacts, ServedSpares
  <2>3. \A loc \in DOMAIN Drawn(call[t]) : Lies(call[t], loc, vram', ctrl')
    BY <1>1, <1>2, CompleteLies
  <2> QED BY <1>1, <2>1, <2>2, <2>3, ReturnKeepsPicture
<1>3. CASE Len(left[t]) # 1
  <2>1. Continue(t)
    BY <1>3 DEF RequestDone
  <2> QED BY <1>1, <1>3, <2>1, ContinueKeepsPicture
<1> QED BY <1>2, <1>3

\* ppu_update draws nothing.
LEMMA RequestUpdateKeepsPicture ==
  ASSUME LibraryInvariant, PictureInvariant, Orderliness,
         NEW t \in threads, RequestUpdate(t), program' = program
  PROVE  PictureInvariant'
<1> DEFINE c == call[t]
<1>1. /\ status[t] = "running" /\ Head(left[t]).op = "update" /\ Return(t)
      /\ UNCHANGED <<ppu_fd, vram, ctrl>>
  BY DEF RequestUpdate
<1>2. c \in Drawing(program, t)
  BY <1>1, ThreadProgress DEF Progress
<1>3. left[t] \in Seq(Sent(c)) /\ left[t] # <<>>
  BY <1>1, ThreadFacts DEF InCall
<1>4. Sets(c)
  BY <1>2, CallsOfProgram DEF Orderliness, Honest
<1> HIDE DEF c
<1>5. PICK i \in DOMAIN Requests(c) : Head(left[t]) = Requests(c)[i]
  BY <1>3 DEF Sent
<1>6. DOMAIN Drawn(c) = {}
  BY <1>1, <1>4, <1>5 DEF Sets
<1>7. Spares(c)
  BY <1>1 DEF Spares
<1> QED BY <1>1, <1>2, <1>6, <1>7, ReturnKeepsPicture DEF c

\* The invariant is inductive for programs that draw as they should.
LEMMA StepKeepsPicture ==
  ASSUME LibraryInvariant, PictureInvariant, Orderliness, [Next]_vars
  PROVE  PictureInvariant'
<1>1. CASE UNCHANGED vars
  BY <1>1, OthersKeepPicture DEF vars
<1>2. CASE Next
  <2>1. program' = program
    BY <1>2 DEF Next
  <2>2. CASE Restart
    BY <2>1, <2>2, RestartKeepsPicture
  <2>3. CASE OtherProgram \/ HandOffDone
    <3>1. UNCHANGED <<ppu_fd, vram, ctrl, status, call, left, sent, promised, dirty>>
      BY <2>3 DEF OtherProgram, HandOffDone, deviceVars, callVars, pictureVars
    <3> QED BY <2>1, <3>1, OthersKeepPicture
  <2>4. ASSUME NEW t \in threads,
               Enable(t) \/ Disable(t) \/ Call(t) \/ GiveUp(t) \/ LibraryStep(t)
        PROVE  PictureInvariant'
    BY <2>1, <2>4, EnableKeepsPicture, DisableKeepsPicture, CallKeepsPicture,
       GiveUpKeepsPicture, ClosedKeepsPicture, RetryKeepsPicture, RequestBusyKeepsPicture,
       RequestLockKeepsPicture, RequestDoneKeepsPicture, RequestUpdateKeepsPicture
       DEF LibraryStep
  <2> QED BY <1>2, <2>2, <2>3, <2>4 DEF Next
<1> QED BY <1>1, <1>2

\* What is promised and not dirty is what the PPU reads.
LEMMA PromisesAreRead ==
  ASSUME PictureInvariant, Orderliness
  PROVE  DrawnAsPromised
<1> SUFFICES ASSUME NEW loc \in DOMAIN promised \ dirty
             PROVE  Reads(vram, ctrl, loc) = promised[loc]
  BY DEF DrawnAsPromised
<1>1. Kept(program, loc, promised[loc], dirty, vram, ctrl)
  BY DEF PictureInvariant, PromisesAreKept
<1>2. PICK t \in threads : \E c \in Drawing(program, t) :
        loc \in DOMAIN Drawn(c) /\ promised[loc] = Drawn(c)[loc] /\ Lies(c, loc, vram, ctrl)
  BY <1>1 DEF Kept, threads
<1>3. PICK c \in Drawing(program, t) :
        loc \in DOMAIN Drawn(c) /\ promised[loc] = Drawn(c)[loc] /\ Lies(c, loc, vram, ctrl)
  BY <1>2
<1>4. Legible(c, loc)
  BY <1>3, CallsOfProgram DEF Honest, Orderliness
<1> QED BY <1>3, <1>4 DEF Legible

(***************************************************************************)
(* In every program that draws as it should, with any number of threads    *)
(* and any calls, repeated or given up in any order, what the completed    *)
(* calls have drawn is what the PPU reads, until another call overwrites   *)
(* it.                                                                     *)
(***************************************************************************)
THEOREM PictureIsDrawn ==
  ASSUME \A p \in Programs : Orderly(p)
  PROVE  Spec => []DrawnAsPromised
<1> DEFINE Inv == LibraryInvariant /\ PictureInvariant
<1>1. Init => Inv
  BY InitIsInvariant, InitIsPicture
<1>2. LibraryInvariant => Orderliness
  BY DEF LibraryInvariant, Functions, Orderliness
<1>3. Inv /\ [Next]_vars => Inv'
  BY <1>2, StepKeepsInvariant, StepKeepsPicture
<1>4. Inv => DrawnAsPromised
  BY <1>2, PromisesAreRead
<1> QED BY <1>1, <1>3, <1>4, PTL DEF Spec

----------------------------------------------------------------------------
(* Sprites and their patterns. *)

\* Only ppu_write_sprites draws sprites, and only those that it accepts.
LEMMA SpritesAreAccepted ==
  ASSUME NEW d, IsCall(d), Accepts(d), NEW loc \in DOMAIN Drawn(d), loc[1] = "sprite"
  PROVE  LET s == Drawn(d)[loc]
         IN s.y \in Nat /\ s.pattern_addr \in Nat /\ s.pattern_addr <= 1023
              /\ s.height \in 1 .. 4 /\ s.width \in 1 .. 4
<1>1. d.fn = "sprites"
  <2>1. d.fn \in {"horizontal", "vertical", "pattern", "palette", "sprites", "vram",
                  "bgcolor", "scroll", "enable", "update"}
    BY DEF IsCall
  <2>2. /\ \A layer, x, y : TileAt(layer, x, y)[1] = "tile"
        /\ \A x, y, r : PatternRowAt(x, y, r)[1] = "pattern"
        /\ \A layer, p, i : ColorAt(layer, p, i)[1] = "color"
        /\ \A a : ByteOf(a)[1] = "byte"
        /\ \A r : Setting(r)[1] = "reg"
    BY DEF TileAt, PatternRowAt, ColorAt, ByteOf, Setting
  <2>3. d.fn # "horizontal"
    BY <2>2 DEF Drawn
  <2>4. d.fn # "vertical"
    BY <2>2 DEF Drawn
  <2>5. d.fn # "pattern"
    BY <2>2 DEF Drawn
  <2>6. d.fn # "palette"
    BY <2>2 DEF Drawn
  <2>7. d.fn # "vram"
    BY <2>2 DEF Drawn
  <2>8. d.fn \notin {"bgcolor", "scroll", "enable"}
    BY <2>2 DEF Drawn, Only
  <2>9. d.fn # "update"
    BY DEF Drawn
  <2> QED BY <2>1, <2>3, <2>4, <2>5, <2>6, <2>7, <2>8, <2>9
<1> DEFINE places == {SpriteAt(d.sprite_id + i - 1) : i \in DOMAIN d.sprites}
           sprite(l) == d.sprites[l[2] - d.sprite_id + 1]
<1>2. Drawn(d) = [l \in places |-> sprite(l)]
  BY <1>1 DEF Drawn
<1>3. loc \in places /\ Drawn(d)[loc] = sprite(loc)
  BY <1>2
<1>4. PICK i \in DOMAIN d.sprites : loc = SpriteAt(d.sprite_id + i - 1)
  BY <1>3
<1>5. d.sprite_id \in Nat /\ i \in Nat
  BY <1>1, <1>4, SpritesStart
<1>6. Drawn(d)[loc] = d.sprites[i]
  <2>1. loc[2] = d.sprite_id + i - 1
    BY <1>4 DEF SpriteAt
  <2>2. loc[2] - d.sprite_id + 1 = i
    BY <1>5, <2>1
  <2> HIDE DEF places
  <2> QED BY <1>3, <2>2
<1>7. AcceptsSprite(d.sprites[i])
  <2>1. AcceptsSprites(d)
    BY <1>1 DEF Accepts
  <2> QED BY <2>1 DEF AcceptsSprites
<1>8. d.sprites[i].y \in Nat /\ d.sprites[i].pattern_addr \in Nat
  <2> DEFINE Sprites == [pattern_addr : Nat, palette_id : Nat, x : Nat, y : Nat,
                         mirror : Nat, height : Nat, width : Nat, prio : Nat]
             sprites == d.sprites
             s == sprites[i]
  <2>1. sprites \in Seq(Sprites)
    BY <1>1 DEF IsCall
  <2>2. i \in DOMAIN sprites
    BY <1>4
  <2> HIDE DEF Sprites, sprites
  <2>3. sprites[i] \in Sprites
    BY <2>1, <2>2
  <2> HIDE DEF s
  <2>4. s.y \in Nat /\ s.pattern_addr \in Nat
    BY <2>3 DEF s, Sprites
  <2> QED BY <2>4 DEF s, sprites
<1> QED BY <1>6, <1>7, <1>8 DEF AcceptsSprite, PATTERN_MAXADDR

\* A sprite of the size of a pattern shows each of its rows of pixels.
LEMMA RowsAreShown ==
  ASSUME DrawnAsPromised, NEW c, IsCall(c), c.fn = "pattern", Complete(c),
         NEW s, s.y \in Nat, s.pattern_addr \in Nat, s.pattern_addr <= 1023,
         s.height \in 1 .. 4, s.width \in 1 .. 4,
         s.pattern_addr = c.pattern_addr, s.width = c.width, s.height = c.height
  PROVE  ShowsPattern(s, c)
<1> DEFINE w == c.width
           h == c.height
           x == c.pattern_addr % 32
           y == c.pattern_addr \div 32
           place(i, j, k) == PatternRowAt((x + i) % 32, (y + j) % 32, k)
           places == {place(i, j, k) : i \in 0 .. w - 1, j \in 0 .. h - 1, k \in 0 .. 7}
           pixels(l) == c.pattern[((l[3] - y + 32) % 32) * w + ((l[2] - x + 32) % 32) + 1][l[4] + 1]
<1>1. w \in 1 .. 4 /\ h \in 1 .. 4 /\ x \in 0 .. 31 /\ y \in 0 .. 31
  OBVIOUS
<1>2. Drawn(c) = [l \in places |-> pixels(l)]
  BY DEF Drawn
<1> SUFFICES ASSUME NEW row \in 0 .. 8 * h - 1, NEW index \in 0 .. w - 1
             PROVE  LET r == IF s.mirror >= 2 THEN 8 * h - 1 - row ELSE row
                    IN WordAt(vram, SpriteAddr(s, index, s.y + row))
                         = c.pattern[(r \div 8) * w + index + 1][(r % 8) + 1]
  BY DEF ShowsPattern
<1> DEFINE r == IF s.mirror >= 2 THEN 8 * h - 1 - row ELSE row
           j == r \div 8
           k == r % 8
           loc == place(index, j, k)
<1>3. r \in 0 .. 8 * h - 1
  BY <1>1
<1>4. s.y + row - s.y = row
  BY <1>1
<1>5. SpriteAddr(s, index, s.y + row) = PatternByte((x + index) % 32, (y + j) % 32, k)
  BY <1>4 DEF SpriteAddr
<1> HIDE DEF r, w, h, x, y
<1>6. j \in 0 .. h - 1 /\ k \in 0 .. 7 /\ j \in 0 .. 31 /\ index \in 0 .. 31
  BY <1>1, <1>3
<1> HIDE DEF j, k
<1>7. /\ (x + index) % 32 \in 0 .. 31 /\ (((x + index) % 32) - x + 32) % 32 = index
      /\ (y + j) % 32 \in 0 .. 31 /\ (((y + j) % 32) - y + 32) % 32 = j
  BY <1>1, <1>6, AroundThePatterns
<1>8. loc[1] = "pattern" /\ loc[2] = (x + index) % 32 /\ loc[3] = (y + j) % 32 /\ loc[4] = k
  BY DEF PatternRowAt
<1>9. loc \in places
  BY <1>6
<1>10. pixels(loc) = c.pattern[j * w + index + 1][k + 1]
  BY <1>7, <1>8
<1> HIDE DEF loc, places, pixels
<1>11. loc \in DOMAIN Drawn(c) /\ Drawn(c)[loc] = c.pattern[j * w + index + 1][k + 1]
  BY <1>2, <1>9, <1>10
<1>12. Reads(vram, ctrl, loc) = Drawn(c)[loc]
  BY <1>11 DEF Complete, DrawnAsPromised
<1>13. Reads(vram, ctrl, loc) = WordAt(vram, PatternByte(loc[2], loc[3], loc[4]))
  BY <1>8 DEF Reads
<1> QED BY <1>5, <1>8, <1>11, <1>12, <1>13 DEF j, k, r

(***************************************************************************)
(* In every program that draws as it should a sprite shows the pattern     *)
(* that was written for it, whatever its place in Pattern RAM, its size    *)
(* and its mirroring: what ppu_write_pattern wraps round the edges is what *)
(* sprite_addr_gen finds there.                                            *)
(***************************************************************************)
THEOREM SpritesShowPatterns ==
  ASSUME \A p \in Programs : Orderly(p)
  PROVE  Spec => []SpriteShowsItsPattern
<1> DEFINE Inv == LibraryInvariant /\ PictureInvariant
<1>1. Init => Inv
  BY InitIsInvariant, InitIsPicture
<1>2. LibraryInvariant => Orderliness
  BY DEF LibraryInvariant, Functions, Orderliness
<1>3. Inv /\ [Next]_vars => Inv'
  BY <1>2, StepKeepsInvariant, StepKeepsPicture
<1>4. Inv => SpriteShowsItsPattern
  <2> SUFFICES ASSUME LibraryInvariant, PictureInvariant,
                      NEW c \in AllCalls, c.fn = "pattern",
                      NEW loc \in DOMAIN promised, loc[1] = "sprite", Complete(c),
                      promised[loc].pattern_addr = c.pattern_addr,
                      promised[loc].width = c.width, promised[loc].height = c.height
               PROVE  ShowsPattern(promised[loc], c)
    BY DEF SpriteShowsItsPattern
  <2>1. Orderliness /\ DrawnAsPromised
    BY <1>2, PromisesAreRead
  <2>2. IsCall(c)
    BY <2>1, ProgramsAreCalls DEF AllCalls, Orderliness
  <2>3. PICK t \in threads : \E d \in Drawing(program, t) :
          loc \in DOMAIN Drawn(d) /\ promised[loc] = Drawn(d)[loc]
    BY DEF PictureInvariant, PromisesAreKept, Kept, threads
  <2>4. PICK d \in Drawing(program, t) :
          loc \in DOMAIN Drawn(d) /\ promised[loc] = Drawn(d)[loc]
    BY <2>3
  <2>5. IsCall(d) /\ Accepts(d)
    BY <2>1, CallsOfProgram DEF Known, Orderliness
  <2> DEFINE s == promised[loc]
  <2>6. s.y \in Nat /\ s.pattern_addr \in Nat /\ s.pattern_addr <= 1023
          /\ s.height \in 1 .. 4 /\ s.width \in 1 .. 4
    BY <2>4, <2>5, SpritesAreAccepted
  <2> QED BY <2>1, <2>2, <2>6, RowsAreShown
<1> QED BY <1>1, <1>3, <1>4, PTL DEF Spec
----------------------------------------------------------------------------
(***************************************************************************)
(* The loaders.  After so many turns of its loop a loader has read the     *)
(* file so far, and stored what it read.                                   *)
(***************************************************************************)
Size == Len(job.file)
Turn(n) == unsigned_min(count, n)

\* All that a loader of tiles has stored is below its count.
TilesInv ==
  /\ count \in Nat /\ count <= job.len /\ job.len \in Nat
  /\ loading = "running" => count < job.len
  /\ DOMAIN out = 0 .. count - 1
  /\ Readable /\ loading # "aborted" =>
       /\ count <= Size + 1 /\ pos = Turn(Size) + 1
       /\ loading = "running" => count <= Size
       /\ loading = "done" => count = job.len \/ count = Size + 1
       /\ \A i \in 0 .. Turn(Size) - 1 : out[i] = ppu_make_tile(Value(i + 1))
       /\ count \in 1 .. Size => local = Value(count)
       /\ count = Size + 1 /\ Size >= 1 => out[Size] = out[Size - 1] /\ local = Value(Size)

\* The first colour is read and not stored.
ColorsInv ==
  /\ count \in 0 .. 16
  /\ loading = "running" => count < 16
  /\ DOMAIN out = 0 .. count - 2
  /\ Readable /\ Size = 16 =>
       /\ pos = count + 1 /\ (loading = "done" => count = 16)
       /\ \A i \in 0 .. count - 2 : out[i] = Value(i + 2)

\* g is f, but for what it says of i.
SameBut(f, g, i) == \A k \in DOMAIN f : k # i => g[k] = f[k]

\* What a store changes.
LEMMA StoringIs ==
  ASSUME NEW i, NEW v, NEW out2, out2 = Storing(i, v)
  PROVE  /\ DOMAIN out2 = DOMAIN out \cup {i}
         /\ out2[i] = v
         /\ SameBut(out, out2, i)
BY Zenon DEF Storing, Overlay, SameBut

\* A call and its file.
LEMMA JobIs ==
  ASSUME job \in Jobs
  PROVE  /\ job.fn \in {"tilemap", "pattern", "palette"}
         /\ Size \in Nat /\ DOMAIN job.file = 1 .. Size
         /\ \A i \in DOMAIN job.file : job.file[i].matched \in {"all", "first", "none"}
         /\ job.fn = "tilemap" => job.len \in Nat /\ job.len >= 1
         /\ job.fn = "pattern" => /\ job.width \in Nat /\ job.width >= 1
                                  /\ job.height \in Nat /\ job.height >= 1
<1>1. /\ job.fn \in {"tilemap", "pattern", "palette"}
      /\ Len(job.file) \in Nat /\ DOMAIN job.file = 1 .. Len(job.file)
      /\ \A i \in DOMAIN job.file : job.file[i].matched \in {"all", "first", "none"}
      /\ job.fn = "tilemap" => job.len \in Nat \ {0}
      /\ job.fn = "pattern" => job.width \in Nat \ {0} /\ job.height \in Nat \ {0}
  BY LoaderAssumption, Zenon DEF LoaderAssumption
<1> QED BY <1>1 DEF Size

\* Of a readable file every token is scanned as a whole.
LEMMA ScanIs ==
  ASSUME job \in Jobs, Readable, pos \in 1 .. Size + 1, NEW n \in {1, 3}, Advance
  PROVE  /\ pos <= Size => Result(n) = n /\ ~AtEnd /\ Token.value = Value(pos) /\ pos' = pos + 1
         /\ pos = Size + 1 => Result(n) = EOF /\ AtEnd /\ pos' = pos
<1>1. CASE pos <= Size
  <2>1. pos \in DOMAIN job.file /\ ~AtEnd
    BY <1>1, JobIs DEF AtEnd, Size
  <2>2. Token.matched = "all"
    BY <2>1 DEF Readable, Token
  <2>3. Token # Unreadable
    BY <2>2 DEF Unreadable
  <2>4. Result(n) = n
    BY <2>1, <2>2 DEF Result
  <2> QED BY <1>1, <2>1, <2>3, <2>4, JobIs DEF Advance, Token, Value
<1>2. CASE pos = Size + 1
  <2>1. AtEnd
    BY <1>2, JobIs DEF AtEnd, Size
  <2> QED BY <1>2, <2>1, JobIs DEF Advance, Result
<1> QED BY <1>1, <1>2, JobIs

\* A loader begins with nothing.
LEMMA LoaderStarts ==
  ASSUME LoaderInit
  PROVE  /\ job \in Jobs /\ count = 0 /\ pos = 1 /\ DOMAIN out = {} /\ loading = "running"
         /\ job.fn = "tilemap" => TilesInv
         /\ job.fn = "palette" => ColorsInv
<1>1. job \in Jobs /\ count = 0 /\ pos = 1 /\ out = <<>> /\ loading = "running"
  BY DEF LoaderInit
<1>2. DOMAIN out = {}
  BY <1>1
<1>3. Size \in Nat
  BY <1>1, JobIs
<1>4. Turn(Size) = 0 /\ 0 .. count - 1 = {} /\ 0 .. count - 2 = {} /\ 0 .. Turn(Size) - 1 = {}
  BY <1>1, <1>3 DEF Turn, unsigned_min
<1>5. job.fn = "tilemap" => TilesInv
  <2>1. Readable => count # Size + 1 /\ count \notin 1 .. Size
    BY <1>1, <1>3
  <2> QED BY <1>1, <1>2, <1>3, <1>4, <2>1, JobIs DEF TilesInv
<1>6. job.fn = "palette" => ColorsInv
  BY <1>1, <1>2, <1>4 DEF ColorsInv
<1> QED BY <1>1, <1>2, <1>5, <1>6

\* Reading a tile.
LEMMA TileIsLoaded ==
  ASSUME job \in Jobs, TilesInv, LoadTile
  PROVE  TilesInv'
<1>1. /\ loading = "running" /\ job.fn = "tilemap" /\ job' = job
      /\ local' = ScannedTile /\ Advance
      /\ IF AcceptsTile(local') THEN StoreTile ELSE NowayLoading
  BY DEF LoadTile
<1>2. /\ count \in Nat /\ job.len \in Nat /\ count < job.len /\ Size \in Nat
      /\ DOMAIN out = 0 .. count - 1
  BY <1>1, JobIs DEF TilesInv
<1>3. Size' = Size /\ Readable' = Readable /\ (\A i : Value(i)' = Value(i))
  BY <1>1 DEF Size, Readable, Value
<1>4. CASE NowayLoading
  <2>1. count' = count /\ out' = out /\ loading' = "aborted"
    BY <1>4 DEF NowayLoading
  <2> QED BY <1>1, <1>2, <2>1 DEF TilesInv
<1>5. CASE StoreTile
  <2>1. /\ out' = Storing(count, ppu_make_tile(local')) /\ count' = count + 1
        /\ loading' = IF Result(3) # EOF /\ count + 1 < job.len THEN "running" ELSE "done"
    BY <1>5 DEF StoreTile
  <2>2. DOMAIN out' = 0 .. count' - 1
    <3>1. DOMAIN out' = DOMAIN out \cup {count}
      BY <2>1, StoringIs
    <3>2. (0 .. count - 1) \cup {count} = 0 .. (count + 1) - 1
      BY <1>2
    <3> QED BY <1>2, <2>1, <3>1, <3>2
  <2>3. /\ out'[count] = ppu_make_tile(local')
        /\ \A i \in 0 .. count - 1 : out'[i] = out[i]
    <3>1. \A i \in 0 .. count - 1 : i # count
      BY <1>2
    <3>2. SameBut(out, out', count)
      BY <2>1, StoringIs, Zenon
    <3>3. out'[count] = ppu_make_tile(local')
      BY <2>1, StoringIs, Zenon
    <3> QED BY <1>2, <3>1, <3>2, <3>3 DEF SameBut
  <2>4. ASSUME Readable
        PROVE  /\ count' <= Size + 1 /\ pos' = Turn(Size)' + 1
               /\ loading' = "running" => count' <= Size
               /\ loading' = "done" => count' = job.len \/ count' = Size + 1
               /\ \A i \in 0 .. Turn(Size)' - 1 : out'[i] = ppu_make_tile(Value(i + 1))
               /\ count' \in 1 .. Size => local' = Value(count')
               /\ count' = Size + 1 /\ Size >= 1 => out'[Size] = out'[Size - 1] /\ local' = Value(Size)
    <3>1. /\ count <= Size /\ pos = Turn(Size) + 1
          /\ \A i \in 0 .. Turn(Size) - 1 : out[i] = ppu_make_tile(Value(i + 1))
          /\ count \in 1 .. Size => local = Value(count)
      BY <1>1, <2>4 DEF TilesInv
    <3>2. Turn(Size) = count /\ pos = count + 1 /\ pos \in 1 .. Size + 1
      BY <1>2, <3>1 DEF Turn, unsigned_min
    <3>3. Turn(Size)' = IF count < Size THEN count + 1 ELSE Size
      BY <1>2, <1>3, <2>1 DEF Turn, unsigned_min
    <3>4. CASE count < Size
      <4>1. Result(3) = 3 /\ Token.value = Value(pos) /\ pos' = pos + 1
        BY <1>1, <1>2, <2>4, <3>2, <3>4, ScanIs
      <4>2. local' = Value(count + 1)
        BY <1>1, <3>2, <4>1 DEF ScannedTile
      <4>3. \A i \in 0 .. count : out'[i] = ppu_make_tile(Value(i + 1))
        <5> TAKE i \in 0 .. count
        <5>1. CASE i = count
          BY <2>3, <4>2, <5>1
        <5>2. CASE i \in 0 .. count - 1
          BY <2>3, <3>1, <3>2, <5>2
        <5> QED BY <1>2, <5>1, <5>2
      <4>4. Result(3) # EOF
        BY <4>1 DEF EOF
      <4> QED BY <1>2, <2>1, <3>2, <3>3, <3>4, <4>1, <4>2, <4>3, <4>4
    <3>5. CASE count = Size
      <4>1. Result(3) = EOF /\ pos' = pos
        BY <1>1, <1>2, <2>4, <3>2, <3>5, ScanIs
      <4>2. local' = local
        BY <1>1, <4>1 DEF ScannedTile, EOF
      <4>3. Size >= 1 => local' = Value(Size) /\ out'[Size] = out'[Size - 1]
        <5> HAVE Size >= 1
        <5>1. local' = Value(Size)
          BY <1>2, <3>1, <3>5, <4>2
        <5>2. Size - 1 \in 0 .. count - 1 /\ Size - 1 \in 0 .. Turn(Size) - 1 /\ (Size - 1) + 1 = Size
          BY <1>2, <3>2, <3>5
        <5>3. out'[Size - 1] = ppu_make_tile(Value(Size))
          BY <2>3, <3>1, <5>2
        <5> QED BY <2>3, <3>5, <5>1, <5>3
      <4>4. \A i \in 0 .. Size - 1 : out'[i] = ppu_make_tile(Value(i + 1))
        BY <2>3, <3>1, <3>2, <3>5
      <4> QED BY <1>2, <2>1, <3>2, <3>3, <3>5, <4>1, <4>3, <4>4
    <3> QED BY <1>2, <3>1, <3>4, <3>5
  <2>5. count' \in Nat /\ count' <= job'.len /\ job'.len \in Nat
        /\ (loading' = "running" => count' < job'.len)
    BY <1>1, <1>2, <2>1
  <2>6. Turn(Size)' = unsigned_min(count', Size)
    BY <1>3 DEF Turn
  <2> QED BY <1>1, <1>3, <2>2, <2>4, <2>5 DEF TilesInv
<1> QED BY <1>1, <1>4, <1>5

\* Reading a colour.
LEMMA ColorIsLoaded ==
  ASSUME job \in Jobs, ColorsInv, LoadColor
  PROVE  ColorsInv'
<1>1. /\ loading = "running" /\ job' = job /\ Advance
      /\ local' = IF Result(1) = 1 THEN Token.value ELSE local
      /\ out' = IF count > 0 THEN Storing(count - 1, local') ELSE out
      /\ count' = count + 1
      /\ loading' = IF Result(1) # EOF /\ count' < 16 THEN "running" ELSE "done"
  BY DEF LoadColor, StoreColor, CountLine
<1>2. count \in 0 .. 15 /\ DOMAIN out = 0 .. count - 2
  BY <1>1 DEF ColorsInv
<1>3. Size' = Size /\ Readable' = Readable /\ (\A i : Value(i)' = Value(i)) /\ Size \in Nat
  BY <1>1, JobIs DEF Size, Readable, Value
<1>4. DOMAIN out' = 0 .. count' - 2
  <2>1. CASE count = 0
    <3>1. 0 .. count - 2 = {} /\ 0 .. (count + 1) - 2 = {}
      BY <2>1
    <3> QED BY <1>1, <1>2, <2>1, <3>1
  <2>2. CASE count > 0
    <3>0. out' = Storing(count - 1, local')
      BY <1>1, <2>2
    <3>1. DOMAIN out' = DOMAIN out \cup {count - 1}
      BY <3>0, StoringIs, Zenon
    <3>2. (0 .. count - 2) \cup {count - 1} = 0 .. (count + 1) - 2
      BY <1>2, <2>2
    <3> QED BY <1>1, <1>2, <3>1, <3>2
  <2> QED BY <1>2, <2>1, <2>2
<1>5. ASSUME Readable, Size = 16
      PROVE  /\ pos' = count' + 1 /\ (loading' = "done" => count' = 16)
             /\ \A i \in 0 .. count' - 2 : out'[i] = Value(i + 2)
  <2>1. pos = count + 1 /\ (\A i \in 0 .. count - 2 : out[i] = Value(i + 2))
    BY <1>5 DEF ColorsInv
  <2>2. pos \in 1 .. Size + 1 /\ pos <= Size
    BY <1>2, <1>5, <2>1
  <2>3. Result(1) = 1 /\ Token.value = Value(pos) /\ pos' = pos + 1
    BY <1>1, <1>5, <2>2, ScanIs
  <2>4. local' = Value(count + 1)
    BY <1>1, <2>1, <2>3
  <2>5. \A i \in 0 .. count' - 2 : out'[i] = Value(i + 2)
    <3> TAKE i \in 0 .. count' - 2
    <3>0. count > 0 /\ out' = Storing(count - 1, local')
      BY <1>1, <1>2
    <3>1. out'[count - 1] = local' /\ SameBut(out, out', count - 1)
      BY <3>0, StoringIs, Zenon
    <3>2. CASE i = count - 1
      <4>1. i + 2 = count + 1
        BY <1>2, <3>2
      <4> QED BY <2>4, <3>1, <3>2, <4>1
    <3>3. CASE i \in 0 .. count - 2
      <4>1. i # count - 1
        BY <1>2, <3>3
      <4> QED BY <1>2, <2>1, <3>1, <3>3, <4>1 DEF SameBut
    <3> QED BY <1>1, <1>2, <3>2, <3>3
  <2>6. Result(1) # EOF
    BY <2>3 DEF EOF
  <2> QED BY <1>1, <1>2, <2>1, <2>3, <2>5, <2>6
<1> QED BY <1>1, <1>2, <1>3, <1>4, <1>5 DEF ColorsInv

\* Lines of 8 * w tokens for each row of tiles: tile line t, row r, column p.
At(w, t, r, p) == 8 * (t * w) + r * w + p

\* Its parts are found again.
LEMMA PartsOfLine ==
  ASSUME NEW w \in Nat, w > 0, NEW t \in Nat, NEW r \in 0 .. 7, NEW p \in 0 .. w - 1
  PROVE  /\ At(w, t, r, p) \in Nat
         /\ At(w, t, r, p) % w = p /\ (At(w, t, r, p) \div w) % 8 = r
         /\ At(w, t, r, p) \div (8 * w) = t
<1>1. w * (8 * t + r) + p = At(w, t, r, p)
  BY DEF At
<1>2. At(w, t, r, p) % w = p /\ At(w, t, r, p) \div w = 8 * t + r
  <2>1. 8 * t + r \in Nat
    OBVIOUS
  <2>2. (w * (8 * t + r) + p) \div w = 8 * t + r /\ (w * (8 * t + r) + p) % w = p
    BY <2>1, Quotient
  <2> QED BY <1>1, <2>2, Zenon
<1>3. (8 * t + r) % 8 = r
  OBVIOUS
<1>4. r * w + p \in 0 .. 8 * w - 1
  <2>1. CASE r = 0
    BY <2>1
  <2>2. r * w \in Nat /\ r * w <= 7 * w
    OBVIOUS
  <2> QED BY <2>2
<1>5. (8 * w) * t + (r * w + p) = At(w, t, r, p)
  BY DEF At
<1>6. At(w, t, r, p) \div (8 * w) = t
  <2>1. 8 * w \in Nat /\ 8 * w > 0
    OBVIOUS
  <2> HIDE DEF At
  <2> QED BY <1>4, <1>5, <2>1, Quotient
<1>7. At(w, t, r, p) \in Nat
  <2>1. t * w \in Nat /\ r * w \in Nat
    OBVIOUS
  <2> QED BY <2>1 DEF At
<1> QED BY <1>2, <1>3, <1>6, <1>7

\* Every line is one of these.
LEMMA LineHasParts ==
  ASSUME NEW w \in Nat, w > 0, NEW c \in Nat
  PROVE  /\ c \div (8 * w) \in Nat /\ (c \div w) % 8 \in 0 .. 7 /\ c % w \in 0 .. w - 1
         /\ c = At(w, c \div (8 * w), (c \div w) % 8, c % w)
<1> DEFINE d == c \div w
           p == c % w
           t == d \div 8
           r == d % 8
<1>0. d \in Int /\ p \in 0 .. w - 1 /\ c = w * d + p
  OBVIOUS
<1>1. d \in Nat /\ p \in 0 .. w - 1 /\ c = w * d + p
  <2> HIDE DEF d, p
  <2>1. ~(d <= -1)
    <3> SUFFICES ASSUME d <= -1 PROVE FALSE
      OBVIOUS
    <3>1. w * d <= w * (-1)
      BY <1>0
    <3> QED BY <1>0, <3>1
  <2> QED BY <1>0, <2>1
<1>2. t \in Nat /\ r \in 0 .. 7 /\ d = 8 * t + r
  <2> HIDE DEF d
  <2> QED BY <1>1
<1>3. c = At(w, t, r, p)
  <2> HIDE DEF d, p, t, r
  <2>1. w * d = w * (8 * t) + w * r
    BY <1>2
  <2> QED BY <1>1, <1>2, <2>1 DEF At
<1>4. c \div (8 * w) = t
  <2> HIDE DEF d, p, t, r
  <2>1. At(w, t, r, p) \div (8 * w) = t
    BY <1>1, <1>2, PartsOfLine
  <2> QED BY <1>3, <2>1, Zenon
<1> QED BY <1>1, <1>2, <1>3, <1>4
----------------------------------------------------------------------------
\* A square pattern: the line of the file that goes to row r of a tile, its place,
\* and what is stored there.
Wide == job.width
Square == job.fn = "pattern" /\ job.width = job.height
LineOf(tile, r) == At(Wide, tile \div Wide, r, tile % Wide)
PlaceOf(c) == <<(c % Wide) + (c \div (8 * Wide)) * Wide, (c \div Wide) % 8>>
RowPlaces == (0 .. Wide * Wide - 1) \X (0 .. 7)
RowRead(i) == Reversed([n \in 0 .. 7 |-> Value(i)[8 - n]])

RowsInv ==
  /\ count \in Nat /\ count <= (8 * Wide) * Wide
  /\ loading = "running" => count < (8 * Wide) * Wide /\ pos = count + 1
  /\ loading = "done" => count = (8 * Wide) * Wide
  /\ DOMAIN out = {p \in RowPlaces : LineOf(p[1], p[2]) < count}
  /\ \A p \in DOMAIN out : out[p] = RowRead(LineOf(p[1], p[2]) + 1)

\* A line goes to one place, and a place has one line.
LEMMA PlaceOfLine ==
  ASSUME job \in Jobs, Square, NEW c \in Nat, c < (8 * Wide) * Wide
  PROVE  /\ PlaceOf(c) \in RowPlaces
         /\ LineOf(PlaceOf(c)[1], PlaceOf(c)[2]) = c
<1> DEFINE w == Wide
           t == c \div (8 * w)
           r == (c \div w) % 8
           p == c % w
<1>1. w \in Nat /\ w > 0
  BY JobIs DEF Square, Wide
<1> HIDE DEF w
<1>2. t \in Nat /\ r \in 0 .. 7 /\ p \in 0 .. w - 1 /\ c = At(w, t, r, p)
  BY <1>1, LineHasParts
<1>3. t \in 0 .. w - 1
  <2>1. 8 * w \in Nat /\ 8 * w > 0 /\ c < (8 * w) * w
    BY <1>1 DEF w
  <2> QED BY <1>1, <2>1, RowOf
<1>4. PlaceOf(c) = <<p + t * w, r>>
  BY DEF PlaceOf, w
<1> HIDE DEF t, r, p
<1>5. p + t * w \in 0 .. w * w - 1
  <2>1. t * w \in Nat /\ t * w <= (w - 1) * w
    BY <1>1, <1>3
  <2>2. (w - 1) * w = w * w - w /\ w * w \in Nat
    BY <1>1
  <2> QED BY <1>1, <1>2, <2>1, <2>2
<1>6. (p + t * w) \div w = t /\ (p + t * w) % w = p
  <2>1. p + t * w = w * t + p
    BY <1>1, <1>2
  <2>2. (w * t + p) \div w = t /\ (w * t + p) % w = p
    BY <1>1, <1>2, Quotient
  <2> QED BY <2>1, <2>2
<1>7. LineOf(p + t * w, r) = c
  <2>1. LineOf(p + t * w, r) = At(w, (p + t * w) \div w, r, (p + t * w) % w)
    BY DEF LineOf, w
  <2> QED BY <1>2, <1>6, <2>1, Zenon
<1>8. <<p + t * w, r>> \in RowPlaces
  BY <1>2, <1>5 DEF RowPlaces, w
<1> QED BY <1>4, <1>7, <1>8

\* The other way round.
LEMMA LineOfPlace ==
  ASSUME job \in Jobs, Square, NEW tile \in 0 .. Wide * Wide - 1, NEW r \in 0 .. 7
  PROVE  /\ LineOf(tile, r) \in Nat /\ LineOf(tile, r) < (8 * Wide) * Wide
         /\ PlaceOf(LineOf(tile, r)) = <<tile, r>>
<1> DEFINE w == Wide
           t == tile \div w
           p == tile % w
           c == At(w, t, r, p)
<1>1. w \in Nat /\ w > 0 /\ w * w \in Nat
  BY JobIs DEF Square, Wide
<1>2. c = LineOf(tile, r)
  BY DEF LineOf
<1>3. tile \in Nat /\ tile < w * w
  BY <1>1
<1> HIDE DEF w
<1>4. t \in 0 .. w - 1 /\ p \in 0 .. w - 1
  BY <1>1, <1>3, RowOf
<1>5. tile = w * t + p
  BY <1>1, <1>3
<1> HIDE DEF t, p
<1>6. c \in Nat /\ c % w = p /\ (c \div w) % 8 = r /\ c \div (8 * w) = t
  <2>1. t \in Nat /\ w > 0
    BY <1>1, <1>4
  <2>2. /\ At(w, t, r, p) \in Nat
        /\ At(w, t, r, p) % w = p /\ (At(w, t, r, p) \div w) % 8 = r
        /\ At(w, t, r, p) \div (8 * w) = t
    BY <1>1, <1>4, <2>1, PartsOfLine, Zenon
  <2> QED BY <2>2
<1>7. c < (8 * w) * w
  <2>1. t * w \in Nat /\ t * w <= (w - 1) * w /\ r * w \in Nat /\ r * w <= 7 * w
    BY <1>1, <1>4
  <2>2. (w - 1) * w = w * w - w /\ (8 * w) * w = 8 * (w * w)
    BY <1>1
  <2> QED BY <1>1, <1>4, <2>1, <2>2 DEF At
<1> HIDE DEF c
<1>8. PlaceOf(c) = <<p + t * w, r>>
  BY <1>6, Zenon DEF PlaceOf, w
<1>9. p + t * w = tile
  BY <1>1, <1>4, <1>5
<1> QED BY <1>2, <1>6, <1>7, <1>8, <1>9 DEF w

\* Reading a row of a tile of a pattern.
LEMMA RowIsLoaded ==
  ASSUME job \in Jobs, Square, RowsInv, LoadRow
  PROVE  RowsInv'
<1> DEFINE total == (8 * Wide) * Wide
<1>1. Wide \in Nat /\ Wide > 0 /\ job.height = Wide /\ total \in Nat
  BY JobIs DEF Square, Wide
<1>2. /\ loading = "running" /\ job' = job /\ Advance
      /\ IF Result(1) # 1 THEN NowayLoading
         ELSE /\ out' = Storing(<<Pxrow + Tile * job.height, RowOfTile>>, Reversed(ScannedRow))
              /\ count' = count + 1
              /\ loading' = IF count + 1 < TILEPATTERN_HEIGHT * job.width * job.height
                            THEN "running" ELSE "done"
  BY DEF LoadRow
<1>3. /\ count \in Nat /\ count < total /\ pos = count + 1
      /\ DOMAIN out = {p \in RowPlaces : LineOf(p[1], p[2]) < count}
      /\ \A p \in DOMAIN out : out[p] = RowRead(LineOf(p[1], p[2]) + 1)
  BY <1>2 DEF RowsInv
<1>4. /\ Wide' = Wide /\ RowPlaces' = RowPlaces
      /\ (\A tile, r : LineOf(tile, r)' = LineOf(tile, r)) /\ (\A i : RowRead(i)' = RowRead(i))
  BY <1>2 DEF Wide, RowPlaces, LineOf, At, RowRead, Value, Reversed, Swap
<1>5. Size \in Nat
  BY JobIs
<1>6. CASE Result(1) # 1
  <2>1. count' = count /\ out' = out /\ loading' = "aborted"
    BY <1>2, <1>6 DEF NowayLoading
  <2> QED BY <1>2, <1>3, <1>4, <2>1 DEF RowsInv
<1>7. CASE Result(1) = 1
  <2>1. /\ out' = Storing(PlaceOf(count), RowRead(count + 1)) /\ count' = count + 1
        /\ loading' = IF count + 1 < total THEN "running" ELSE "done"
    <3>1. <<Pxrow + Tile * job.height, RowOfTile>> = PlaceOf(count)
      BY <1>1 DEF Pxrow, Tile, RowOfTile, PlaceOf, Wide, TILEPATTERN_HEIGHT
    <3>2. Reversed(ScannedRow) = RowRead(count + 1)
      BY <1>3 DEF ScannedRow, RowRead, Token, Value
    <3>3. TILEPATTERN_HEIGHT * job.width * job.height = total
      BY <1>1 DEF Wide, TILEPATTERN_HEIGHT
    <3> QED BY <1>2, <1>7, <3>1, <3>2, <3>3
  <2>2. pos' = count + 2
    <3>1. ~AtEnd
      BY <1>7 DEF Result, EOF
    <3>2. Token.matched # "none"
      BY <1>7, <3>1 DEF Result
    <3>3. Token # Unreadable
      BY <3>2 DEF Unreadable
    <3> QED BY <1>2, <1>3, <3>1, <3>3 DEF Advance
  <2>3. /\ PlaceOf(count) \in RowPlaces
        /\ LineOf(PlaceOf(count)[1], PlaceOf(count)[2]) = count
    BY <1>3, PlaceOfLine
  <2>4. /\ DOMAIN out' = DOMAIN out \cup {PlaceOf(count)}
        /\ out'[PlaceOf(count)] = RowRead(count + 1) /\ SameBut(out, out', PlaceOf(count))
    BY <2>1, StoringIs, Zenon
  <2>5. ASSUME NEW p \in RowPlaces
        PROVE  /\ LineOf(p[1], p[2]) \in Nat
               /\ LineOf(p[1], p[2]) = count <=> p = PlaceOf(count)
    <3>1. p[1] \in 0 .. Wide * Wide - 1 /\ p[2] \in 0 .. 7 /\ p = <<p[1], p[2]>>
      BY DEF RowPlaces
    <3>2. LineOf(p[1], p[2]) \in Nat /\ PlaceOf(LineOf(p[1], p[2])) = <<p[1], p[2]>>
      BY <3>1, LineOfPlace
    <3> QED BY <2>3, <3>1, <3>2, Zenon
  <2>6. DOMAIN out' = {p \in RowPlaces : LineOf(p[1], p[2]) < count + 1}
    <3>1. ASSUME NEW p \in RowPlaces
          PROVE  LineOf(p[1], p[2]) < count + 1 <=> LineOf(p[1], p[2]) < count \/ p = PlaceOf(count)
      <4>1. LineOf(p[1], p[2]) < count + 1
              <=> LineOf(p[1], p[2]) < count \/ LineOf(p[1], p[2]) = count
        BY <1>3, <2>5
      <4> QED BY <2>5, <4>1, Zenon
    <3> HIDE DEF total
    <3>2. DOMAIN out = {p \in RowPlaces : LineOf(p[1], p[2]) < count}
      BY <1>3
    <3> QED BY <2>3, <2>4, <3>1, <3>2, Zenon
  <2>7. ASSUME NEW p \in DOMAIN out'
        PROVE  out'[p] = RowRead(LineOf(p[1], p[2]) + 1)
    <3>1. CASE p = PlaceOf(count)
      BY <2>3, <2>4, <3>1, Zenon
    <3>2. CASE p # PlaceOf(count)
      <4>1. p \in DOMAIN out
        BY <2>4, <3>2
      <4> QED BY <1>3, <2>4, <3>2, <4>1 DEF SameBut
    <3> QED BY <3>1, <3>2
  <2>8. /\ count' \in Nat /\ count' <= total
        /\ loading' = "running" => count' < total /\ pos' = count' + 1
        /\ loading' = "done" => count' = total
    BY <1>1, <1>3, <2>1, <2>2
  <2>9. \A p : LineOf(p[1], p[2])' = LineOf(p[1], p[2])
              /\ RowRead(LineOf(p[1], p[2]) + 1)' = RowRead(LineOf(p[1], p[2]) + 1)
    BY <1>2 DEF Wide, LineOf, At, RowRead, Value, Reversed, Swap
  <2>10. DOMAIN out' = {p \in RowPlaces : LineOf(p[1], p[2])' < count'}
    BY <2>1, <2>6, <2>9
  <2> HIDE DEF total
  <2>11. /\ RowPlaces' = RowPlaces
         /\ \A p \in DOMAIN out' : out'[p] = RowRead(LineOf(p[1], p[2]) + 1)'
    BY <1>4, <2>7, <2>9, Zenon
  <2> QED BY <1>4, <2>8, <2>10, <2>11 DEF RowsInv, total
<1> QED BY <1>6, <1>7

\* A row of pixels is what the text has, from left to right.
LEMMA RowIsReversed ==
  ASSUME NEW i, NEW x \in 0 .. 7
  PROVE  RowRead(i)[x] = Value(i)[x + 1]
<1> DEFINE w0 == [n \in 0 .. 7 |-> Value(i)[8 - n]]
           w1 == Swap(w0, 1)
           w2 == Swap(w1, 2)
<1>1. \A n \in 0 .. 7 : w0[n] = Value(i)[8 - n]
  OBVIOUS
<1> HIDE DEF w0
<1>2. \A n \in 0 .. 7 : w1[n] = IF (n \div 1) % 2 = 0 THEN w0[n + 1] ELSE w0[n - 1]
  BY DEF Swap
<1> HIDE DEF w1
<1>3. \A n \in 0 .. 7 : w2[n] = IF (n \div 2) % 2 = 0 THEN w1[n + 2] ELSE w1[n - 2]
  BY DEF Swap
<1> HIDE DEF w2
<1>4. \A n \in 0 .. 7 : Swap(w2, 4)[n] = IF (n \div 4) % 2 = 0 THEN w2[n + 4] ELSE w2[n - 4]
  BY DEF Swap
<1>5. RowRead(i) = Swap(w2, 4)
  BY DEF RowRead, Reversed, w2, w1, w0
<1>6. x = 0 \/ x = 1 \/ x = 2 \/ x = 3 \/ x = 4 \/ x = 5 \/ x = 6 \/ x = 7
  OBVIOUS
<1>7. Swap(w2, 4)[x] = w0[7 - x]
  BY <1>2, <1>3, <1>4, <1>6
<1>8. w0[7 - x] = Value(i)[8 - (7 - x)] /\ 8 - (7 - x) = x + 1
  BY <1>1
<1> QED BY <1>5, <1>7, <1>8

----------------------------------------------------------------------------
(***************************************************************************)
(* What is true of a loader in every state.                                *)
(***************************************************************************)
LoaderInv ==
  /\ job \in Jobs
  /\ job.fn = "tilemap" => TilesInv
  /\ job.fn = "palette" => ColorsInv
  /\ Square => RowsInv

\* A loader begins so.
LEMMA LoaderBegins == LoaderInit => LoaderInv
<1> SUFFICES ASSUME LoaderInit PROVE LoaderInv
  OBVIOUS
<1>1. /\ job \in Jobs /\ count = 0 /\ pos = 1 /\ DOMAIN out = {} /\ loading = "running"
      /\ job.fn = "tilemap" => TilesInv
      /\ job.fn = "palette" => ColorsInv
  BY LoaderStarts
<1>2. ASSUME Square PROVE RowsInv
  <2>1. Wide \in Nat /\ Wide > 0 /\ (8 * Wide) * Wide \in Nat /\ (8 * Wide) * Wide > 0
    <3>1. Wide \in Nat /\ Wide > 0
      BY <1>1, <1>2, JobIs DEF Square, Wide
    <3> QED BY <3>1
  <2>2. \A p \in RowPlaces : LineOf(p[1], p[2]) \in Nat
    <3> TAKE p \in RowPlaces
    <3>1. p[1] \in 0 .. Wide * Wide - 1 /\ p[2] \in 0 .. 7
      BY DEF RowPlaces
    <3> QED BY <1>1, <1>2, <3>1, LineOfPlace
  <2>3. \A p \in RowPlaces : ~(LineOf(p[1], p[2]) < count)
    BY <1>1, <2>2
  <2>4. DOMAIN out = {p \in RowPlaces : LineOf(p[1], p[2]) < count}
    BY <1>1, <2>3, Zenon
  <2>5. \A p \in DOMAIN out : out[p] = RowRead(LineOf(p[1], p[2]) + 1)
    BY <1>1
  <2> QED BY <1>1, <2>1, <2>4, <2>5 DEF RowsInv
<1> QED BY <1>1, <1>2 DEF LoaderInv

\* Each turn of its loop keeps it so.
LEMMA LoaderGoesOn == LoaderInv /\ [LoaderNext]_loaderVars => LoaderInv'
<1> SUFFICES ASSUME LoaderInv, [LoaderNext]_loaderVars PROVE LoaderInv'
  OBVIOUS
<1>1. job \in Jobs
  BY DEF LoaderInv
<1>2. CASE LoadTile
  <2>1. job' = job /\ job.fn = "tilemap"
    BY <1>2 DEF LoadTile
  <2>2. TilesInv'
    BY <1>1, <1>2, <2>1, TileIsLoaded DEF LoaderInv
  <2> QED BY <1>1, <2>1, <2>2 DEF LoaderInv, Square
<1>3. CASE LoadColor
  <2>1. job' = job /\ job.fn = "palette"
    BY <1>3 DEF LoadColor
  <2>2. ColorsInv'
    BY <1>1, <1>3, <2>1, ColorIsLoaded DEF LoaderInv
  <2> QED BY <1>1, <2>1, <2>2 DEF LoaderInv, Square
<1>4. CASE LoadRow
  <2>1. job' = job /\ job.fn = "pattern"
    BY <1>4 DEF LoadRow
  <2>2. Square => RowsInv'
    BY <1>1, <1>4, RowIsLoaded DEF LoaderInv
  <2> QED BY <1>1, <2>1, <2>2 DEF LoaderInv, Square
<1>5. CASE UNCHANGED loaderVars
  <2>1. /\ job' = job /\ pos' = pos /\ local' = local /\ count' = count /\ out' = out
        /\ loading' = loading
    BY <1>5 DEF loaderVars
  <2>2. TilesInv => TilesInv'
    BY <2>1 DEF TilesInv, Turn, Size, Readable, Value
  <2>3. ColorsInv => ColorsInv'
    BY <2>1 DEF ColorsInv, Size, Readable, Value
  <2>4. RowsInv => RowsInv'
    <3>1. /\ Wide' = Wide /\ RowPlaces' = RowPlaces
          /\ \A p : LineOf(p[1], p[2])' = LineOf(p[1], p[2])
          /\ \A p : RowRead(LineOf(p[1], p[2]) + 1)' = RowRead(LineOf(p[1], p[2]) + 1)
      BY <2>1 DEF Wide, RowPlaces, LineOf, At, RowRead, Value, Reversed, Swap
    <3> HAVE RowsInv
    <3>2. DOMAIN out' = {p \in RowPlaces : LineOf(p[1], p[2])' < count'}
      BY <2>1, <3>1 DEF RowsInv
    <3>3. \A p \in DOMAIN out' : out'[p] = RowRead(LineOf(p[1], p[2]) + 1)'
      BY <2>1, <3>1 DEF RowsInv
    <3> QED BY <2>1, <3>1, <3>2, <3>3, Zenon DEF RowsInv
  <2> QED BY <2>1, <2>2, <2>3, <2>4 DEF LoaderInv, Square
<1> QED BY <1>2, <1>3, <1>4, <1>5 DEF LoaderNext

(***************************************************************************)
(* A tilemap file of any length, for any len: its tiles in their order,    *)
(* the last one once more behind a short file, nothing past the array.     *)
(***************************************************************************)
THEOREM TilesAreLoaded == LoaderSpec => []TilemapAsInFile
<1>1. ASSUME LoaderInv PROVE TilemapAsInFile
  <2>1. ASSUME job.fn = "tilemap" PROVE DOMAIN out \subseteq 0 .. job.len - 1
    BY <1>1, <2>1 DEF LoaderInv, TilesInv
  <2>2. ASSUME Loaded("tilemap"), Readable
        PROVE  LET n == Len(job.file)
               IN /\ \A i \in FirstOf(n, job.len) : out[i] = ppu_make_tile(Value(i + 1))
                  /\ DOMAIN out = FirstOf(n + 1, job.len)
                  /\ n \in 1 .. job.len - 1 => out[n] = out[n - 1]
    <3>1. TilesInv /\ loading = "done" /\ Size \in Nat
      BY <1>1, <2>2, JobIs DEF LoaderInv, Loaded
    <3>2. /\ count \in Nat /\ count <= job.len /\ job.len \in Nat
          /\ DOMAIN out = 0 .. count - 1
          /\ count <= Size + 1 /\ (count = job.len \/ count = Size + 1)
          /\ \A i \in 0 .. Turn(Size) - 1 : out[i] = ppu_make_tile(Value(i + 1))
          /\ count = Size + 1 /\ Size >= 1 => out[Size] = out[Size - 1]
      BY <2>2, <3>1 DEF TilesInv
    <3>3. Turn(Size) = unsigned_min(Size, job.len)
      BY <3>1, <3>2 DEF Turn, unsigned_min
    <3>4. count = unsigned_min(Size + 1, job.len)
      BY <3>1, <3>2 DEF unsigned_min
    <3>5. Size \in 1 .. job.len - 1 => count = Size + 1
      BY <3>1, <3>2
    <3> QED BY <3>1, <3>2, <3>3, <3>4, <3>5 DEF FirstOf, Size
  <2> QED BY <2>1, <2>2 DEF TilemapAsInFile
<1> QED BY <1>1, LoaderBegins, LoaderGoesOn, PTL DEF LoaderSpec

(***************************************************************************)
(* Whatever lines a palette file has, no colour is stored past the         *)
(* palette; of 16 colours the last 15 are.                                 *)
(***************************************************************************)
THEOREM ColorsAreLoaded == LoaderSpec => []SixteenLines
<1>1. ASSUME LoaderInv PROVE SixteenLines
  <2> SUFFICES ASSUME job.fn = "palette"
               PROVE  /\ DOMAIN out \subseteq 0 .. 14
                      /\ loading = "done" /\ Len(job.file) = 16 /\ Readable =>
                           \A i \in 0 .. 14 : out[i] = Value(i + 2)
    BY DEF SixteenLines
  <2>1. ColorsInv
    BY <1>1 DEF LoaderInv
  <2> QED BY <2>1 DEF ColorsInv, Size
<1> QED BY <1>1, LoaderBegins, LoaderGoesOn, PTL DEF LoaderSpec

(***************************************************************************)
(* A square pattern of any size: each pixel of the text is in the tile,    *)
(* the row and the nibble of its place, and nothing is stored elsewhere.   *)
(***************************************************************************)
THEOREM SquareIsLoaded == LoaderSpec => []SquareAsDrawn
<1>1. ASSUME LoaderInv PROVE SquareAsDrawn
  <2> SUFFICES ASSUME Loaded("pattern"), job.width = job.height PROVE LoadedAsDrawn
    BY DEF SquareAsDrawn
  <2>1. job \in Jobs /\ Square /\ RowsInv /\ loading = "done"
    BY <1>1 DEF LoaderInv, Loaded, Square
  <2>2. Wide \in Nat /\ Wide > 0 /\ job.width = Wide /\ job.height = Wide
    BY <2>1, JobIs DEF Square, Wide
  <2>3. DOMAIN out = RowPlaces
    <3>1. DOMAIN out = {p \in RowPlaces : LineOf(p[1], p[2]) < (8 * Wide) * Wide}
      BY <2>1 DEF RowsInv
    <3>2. \A p \in RowPlaces : LineOf(p[1], p[2]) < (8 * Wide) * Wide
      <4> TAKE p \in RowPlaces
      <4>1. p[1] \in 0 .. Wide * Wide - 1 /\ p[2] \in 0 .. 7
        BY DEF RowPlaces
      <4> QED BY <2>1, <4>1, LineOfPlace
    <3> QED BY <3>1, <3>2, Zenon
  <2>4. ASSUME NEW x \in 0 .. 8 * job.width - 1, NEW y \in 0 .. 8 * job.height - 1
        PROVE  Pixel(x, y) = PixelInFile(x, y)
    <3> DEFINE w == Wide
               t == (y \div 8) * w + (x \div 8)
               r == y % 8
    <3>1. x \in Nat /\ y \in Nat /\ x <= 8 * w - 1 /\ y <= 8 * w - 1
      BY <2>2
    <3>2. x \div 8 \in 0 .. w - 1 /\ y \div 8 \in 0 .. w - 1 /\ r \in 0 .. 7
          /\ y = 8 * (y \div 8) + r
      BY <2>2, <3>1
    <3> HIDE DEF r
    <3>3. t \in 0 .. w * w - 1 /\ t \div w = y \div 8 /\ t % w = x \div 8
      <4> DEFINE q == y \div 8
                 p == x \div 8
      <4>1. q \in 0 .. w - 1 /\ p \in 0 .. w - 1 /\ w \in Nat /\ w > 0
        BY <2>2, <3>2
      <4> HIDE DEF q, p, w
      <4>2. q * w \in Nat /\ q * w <= (w - 1) * w /\ (w - 1) * w = w * w - w /\ w * w \in Nat
        BY <4>1
      <4>3. q * w + p = w * q + p
        BY <4>1
      <4>4. (w * q + p) \div w = q /\ (w * q + p) % w = p
        BY <4>1, Quotient
      <4>5. q * w + p \in 0 .. w * w - 1
        BY <4>1, <4>2
      <4>6. (q * w + p) \div w = q /\ (q * w + p) % w = p
        BY <4>3, <4>4
      <4> QED BY <4>5, <4>6, Zenon DEF q, p
    <3>4. <<t, r>> \in DOMAIN out
      BY <2>3, <3>2, <3>3 DEF RowPlaces, w
    <3>5. out[<<t, r>>] = RowRead(LineOf(t, r) + 1)
      <4>1. \A p \in DOMAIN out : out[p] = RowRead(LineOf(p[1], p[2]) + 1)
        BY <2>1 DEF RowsInv
      <4> HIDE DEF t
      <4> QED BY <3>4, <4>1
    <3>6. LineOf(t, r) = y * w + (x \div 8)
      <4> DEFINE q == y \div 8
                 p == x \div 8
      <4>1. LineOf(t, r) = At(w, q, r, p)
        BY <3>3 DEF LineOf
      <4>2. q \in Nat /\ p \in Nat /\ y = 8 * q + r /\ r \in Nat /\ w \in Nat
        BY <2>2, <3>2
      <4> HIDE DEF q, p, w, t
      <4>3. 8 * (q * w) + r * w + p = (8 * q + r) * w + p
        BY <4>2
      <4> QED BY <4>1, <4>2, <4>3 DEF At, p
    <3>7. x % 8 \in 0 .. 7
      BY <3>1
    <3>8. RowRead(LineOf(t, r) + 1)[x % 8] = Value(LineOf(t, r) + 1)[(x % 8) + 1]
      BY <3>7, RowIsReversed, Zenon
    <3> QED BY <2>2, <3>5, <3>6, <3>8 DEF Pixel, PixelInFile, r
  <2>5. RowPlaces = (0 .. job.width * job.height - 1) \X (0 .. 7)
    BY <2>2 DEF RowPlaces
  <2> QED BY <2>3, <2>4, <2>5, Zenon DEF LoadedAsDrawn
<1> QED BY <1>1, LoaderBegins, LoaderGoesOn, PTL DEF LoaderSpec
==============================================================================
