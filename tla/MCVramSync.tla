------------------------------ MODULE MCVramSync ------------------------------
(***************************************************************************)
(* The first two and the last two words of every segment, and one between. *)
(***************************************************************************)
EXTENDS VramSync

Borders ==
  UNION {{s[1], s[1] + 1, (s[1] + s[2]) \div 2, s[2] - 1, s[2]} :
           s \in {<<0, 1023>>, <<1024, 3071>>, <<3072, 3327>>, <<3328, 3347>>}}
TwoFrames == {1, 2}
=============================================================================
