------------------------------ MODULE MCPpuLogic ------------------------------
(***************************************************************************)
(* Scroll positions at the borders of a pixel, a tile, a chunk of tiles    *)
(* and of the layer, with one OAM; and any four sprites of four, of which  *)
(* two fit on a line, around the last rows of the screen: one that is on   *)
(* the first of the two rows only, tall and wide ones that are mirrored,   *)
(* one that ends below the screen, where a limit of eight bits would wrap, *)
(* and one that begins just below; a fifth, in OAMs of its own, ends just  *)
(* above.                                                                  *)
(***************************************************************************)
EXTENDS PpuLogic, TLC

InColumns(tile) == tile[2] % 2 = 1
InPairsOfRows(tile) == ((tile[1] + tile[2]) \div 2) % 2 = 1

Conf(tile, y, h, x, w, ym, xm, fg, bg) ==
  [tile |-> tile, y |-> y, h |-> h, x |-> x, w |-> w, y_mirror |-> ym, x_mirror |-> xm,
   fg_prio |-> fg, bg_prio |-> bg]

Small == Conf(<<1, 1>>, 231, 0, 10, 0, FALSE, FALSE, FALSE, FALSE)
Large == Conf(<<30, 30>>, 208, 3, 4, 3, TRUE, TRUE, FALSE, TRUE)
Front == Conf(<<9, 9>>, 238, 3, 12, 1, FALSE, TRUE, TRUE, FALSE)
Above == Conf(<<4, 4>>, 230, 0, 10, 2, FALSE, FALSE, TRUE, TRUE)
Below == Conf(<<5, 5>>, 240, 3, 10, 2, FALSE, FALSE, TRUE, TRUE)

FourSprites == {Small, Large, Front, Below}
FiveSprites == FourSprites \cup {Above}
Striped(chunk, i) == (chunk[2] + i) % 4 # 0

Scene(x, y, sprites) == [scroll_x |-> x, scroll_y |-> y, oam |-> sprites]
ScenesShown ==
  {Scene(x, y, 0 :> Small @@ 1 :> Large @@ 2 :> Front @@ 3 :> Below) :
     x \in {0, 7, 8, 31, 504, 511}, y \in {0, 511}}
  \cup {Scene(0, 0, sprites) : sprites \in [0 .. 3 -> FourSprites]}
  \cup {Scene(0, 0, 0 :> Above @@ 1 :> s @@ 2 :> Above @@ 3 :> Large) : s \in FiveSprites}

LastRows == {238, 239}
Across == {3, 4, 9, 10, 12, 17, 18, 27, 28, 35, 36}
=============================================================================
