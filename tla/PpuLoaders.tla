----------------------------- MODULE PpuLoaders ------------------------------
(***************************************************************************)
(* ppu_load_tilemap, ppu_load_pattern and ppu_load_palette of              *)
(* Library/src/ppu.c: text files become tiles, patterns and palettes.      *)
(*                                                                         *)
(* A file is a sequence of tokens, each what one fscanf may meet.  fscanf  *)
(* returns how many of its conversions matched and assigns only those; it  *)
(* does not move past a token of which nothing matches, and returns EOF    *)
(* at the end, assigning nothing.  The locals it assigns to are not        *)
(* initialised: at first they hold anything.                               *)
(*                                                                         *)
(* A step is one turn of a loader's loop.  With len 0 ppu_load_tilemap     *)
(* returns at once, and with width or height 0 ppu_load_pattern ends the   *)
(* program; such calls are not modelled.                                   *)
(***************************************************************************)
EXTENDS VramLayout

CONSTANTS Jobs,       \* the calls: records [fn, file, and their arguments]
          AnyTile,    \* what the locals of ppu_load_tilemap may hold at first
          AnyColor    \* and that of ppu_load_palette

ASSUME LoaderAssumption ==
  \A j \in Jobs :
    /\ j.fn \in {"tilemap", "pattern", "palette"}
    /\ Len(j.file) \in Nat /\ DOMAIN j.file = 1 .. Len(j.file)
    /\ \A i \in DOMAIN j.file : j.file[i].matched \in {"all", "first", "none"}
    /\ j.fn = "tilemap" => j.len \in Nat \ {0}
    /\ j.fn = "pattern" => j.width \in Nat \ {0} /\ j.height \in Nat \ {0}

VARIABLES job,     \* the call
          pos,     \* the next token of the file
          local,   \* the locals assigned by fscanf
          count,   \* turns of the loop so far
          out,     \* what has been stored: index -> value
          loading  \* "running", "done", or "aborted" by nowaymsg

loaderVars == <<job, pos, local, count, out, loading>>

EOF == -1

(***************************************************************************)
(* The file is never read behind its end, and each loader's locals are its *)
(* own.                                                                    *)
(***************************************************************************)
LoaderTypeOK ==
  /\ job \in Jobs
  /\ pos \in 1 .. Len(job.file) + 1
  /\ count \in Nat
  /\ loading \in {"running", "done", "aborted"}

LoaderInit ==
  /\ job \in Jobs
  /\ pos = 1
  /\ local \in CASE job.fn = "tilemap" -> AnyTile
                 [] job.fn = "palette" -> AnyColor
                 [] job.fn = "pattern" -> {<<>>}
  /\ count = 0
  /\ out = <<>>
  /\ loading = "running"

----------------------------------------------------------------------------
\* Tokens.  A cut-off token, of which only some conversions match, is consumed.
Whole(v)      == [matched |-> "all", value |-> v]
CutOff(v)     == [matched |-> "first", value |-> v]   \* "(XXX" and then something else
Unreadable    == [matched |-> "none"]

AtEnd == pos > Len(job.file)
Token == job.file[pos]

\* What fscanf returns, n being the number of conversions of the format.
Result(n) ==
  IF AtEnd THEN EOF
  ELSE CASE Token.matched = "all" -> n
         [] Token.matched = "first" -> 1
         [] Token.matched = "none" -> 0

\* out with v stored at index i.
Storing(i, v) == Overlay([k \in {i} |-> v], out)

Advance == pos' = IF AtEnd \/ Token = Unreadable THEN pos ELSE pos + 1

NowayLoading ==
  /\ loading' = "aborted"
  /\ UNCHANGED <<count, out>>

----------------------------------------------------------------------------
\* ppu_load_tilemap: a do-while loop that looks at result after it has stored.
ScannedTile ==
  CASE Result(3) = 3 -> Token.value
    [] Result(3) = 1 -> [local EXCEPT !.pattern_addr = Token.value.pattern_addr]
    [] OTHER         -> local

StoreTileToTheEnd ==
  /\ out' = Storing(count, ppu_make_tile(local'))
  /\ count' = count + 1
  /\ loading' = IF Result(3) # EOF THEN "running" ELSE "done"

StoreTile ==
  /\ out' = Storing(count, ppu_make_tile(local'))
  /\ count' = count + 1
  /\ loading' = IF Result(3) # EOF /\ count + 1 < job.len THEN "running" ELSE "done"

LoadTile ==
  /\ loading = "running" /\ job.fn = "tilemap"
  /\ local' = ScannedTile
  /\ Advance
  /\ IF AcceptsTile(local') THEN StoreTile ELSE NowayLoading
  /\ UNCHANGED job

----------------------------------------------------------------------------
(* ppu_load_pattern.  A token is a row of 8 pixels; scanned by %8X, the     *)
(* first pixel ends up in the highest nibble of a word.  A word is here a   *)
(* function from the number of a nibble, 0 the lowest, to a pixel.          *)

ScannedRow == [n \in 0 .. 7 |-> Token.value[8 - n]]

\* ((w & mask) << 4k) | ((w & ~mask) >> 4k): neighbouring groups of k nibbles.
Swap(w, k) == [n \in 0 .. 7 |-> IF (n \div k) % 2 = 0 THEN w[n + k] ELSE w[n - k]]

WithoutBytes(w) == Swap(Swap(w, 1), 4)
Reversed(w) == Swap(Swap(Swap(w, 1), 2), 4)

\* The three loops of ppu_load_pattern: tile, row and pxrow.
Tile == count \div (TILEPATTERN_HEIGHT * job.width)
RowOfTile == (count \div job.width) % TILEPATTERN_HEIGHT
Pxrow == count % job.width

LoadRow ==
  /\ loading = "running" /\ job.fn = "pattern"
  /\ Advance
  /\ IF Result(1) # 1 THEN NowayLoading
     ELSE /\ out' = Storing(<<Pxrow + Tile * job.height, RowOfTile>>, Reversed(ScannedRow))
          /\ count' = count + 1
          /\ loading' = IF count + 1 < TILEPATTERN_HEIGHT * job.width * job.height
                       THEN "running" ELSE "done"
  /\ UNCHANGED <<job, local>>

----------------------------------------------------------------------------
\* ppu_load_palette: the first colour is read and not stored.
StoreColorAtCount == out' = Storing(count, local')

StoreColor == out' = IF count > 0 THEN Storing(count - 1, local') ELSE out

CountLine == count' = count + 1

LoadColor ==
  /\ loading = "running" /\ job.fn = "palette"
  /\ local' = IF Result(1) = 1 THEN Token.value ELSE local
  /\ Advance
  /\ StoreColor
  /\ CountLine
  /\ loading' = IF Result(1) # EOF /\ count' < 16 THEN "running" ELSE "done"
  /\ UNCHANGED job

LoaderNext == LoadTile \/ LoadRow \/ LoadColor

LoaderSpec == LoaderInit /\ [][LoaderNext]_loaderVars

----------------------------------------------------------------------------
Readable == \A i \in DOMAIN job.file : job.file[i].matched = "all"
Loaded(fn) == loading = "done" /\ job.fn = fn
Value(i) == job.file[i].value
FirstOf(n, m) == 0 .. unsigned_min(n, m) - 1

(***************************************************************************)
(* ppu_load_tilemap copies the tiles of the file in their order, whatever  *)
(* the locals held, and stores nothing past the array; behind a file       *)
(* shorter than len it repeats the last tile once, because EOF is seen     *)
(* after the store.                                                        *)
(***************************************************************************)
TilemapAsInFile ==
  /\ job.fn = "tilemap" => DOMAIN out \subseteq 0 .. job.len - 1
  /\ Loaded("tilemap") /\ Readable =>
       LET n == Len(job.file)
       IN /\ \A i \in FirstOf(n, job.len) : out[i] = ppu_make_tile(Value(i + 1))
          /\ DOMAIN out = FirstOf(n + 1, job.len)
          /\ n \in 1 .. job.len - 1 => out[n] = out[n - 1]

\* A pixel by its place in the picture of width * height tiles.
Pixel(x, y) ==
  out[<<(y \div 8) * job.width + (x \div 8), y % 8>>][x % 8]
PixelInFile(x, y) == Value(y * job.width + (x \div 8) + 1)[(x % 8) + 1]

LoadedAsDrawn ==
  /\ DOMAIN out = (0 .. job.width * job.height - 1) \X (0 .. 7)
  /\ \A x \in 0 .. 8 * job.width - 1, y \in 0 .. 8 * job.height - 1 :
        Pixel(x, y) = PixelInFile(x, y)

(***************************************************************************)
(* The pixels of a square pattern end up where the text has them: pixel x  *)
(* of a row in nibble x, where the tile engine looks for it, after the     *)
(* three swaps of ppu_load_pattern.                                        *)
(***************************************************************************)
SquareAsDrawn == Loaded("pattern") /\ job.width = job.height => LoadedAsDrawn

(***************************************************************************)
(* Of a file of 16 colours ppu_load_palette stores the last 15, and        *)
(* nothing is ever stored past the palette, whatever lines the file has.   *)
(***************************************************************************)
SixteenLines ==
  job.fn = "palette" =>
    /\ DOMAIN out \subseteq 0 .. 14
    /\ loading = "done" /\ Len(job.file) = 16 /\ Readable =>
         \A i \in 0 .. 14 : out[i] = Value(i + 2)
=============================================================================
