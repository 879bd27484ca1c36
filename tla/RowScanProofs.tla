---------------------------- MODULE RowScanProofs ----------------------------
(***************************************************************************)
(* Proofs about RowScan, for any number of lines, any time the engines     *)
(* need up to most of a row, and any picture: every visible pixel is the   *)
(* one that belongs there.                                                 *)
(***************************************************************************)
EXTENDS RowScan, Integers, TLAPS

----------------------------------------------------------------------------
\* The pixel that belongs to row r and column c, as the mixer chooses it when
\* the sprite layer is on or off.
SpriteColumn(c) == IF c = MAX_PIXEL_ADDR THEN c ELSE c + 1

Chosen(on, r, c, sc) ==
  LET src == FinalSource(BgOpaque(c), FgOpaque(c), on /\ SprOpaque(sc), SprPrio(sc))
  IN IF src = "spr" THEN Named("spr", r, sc) ELSE Named(src, r, c)

Right(on, r, c) == Chosen(on, r, c, SpriteColumn(c))

Filled(cells, r) == \A c \in Column : cells[c] = Right(sprites, r, c)

Written == rr[WrittenRam].cells
ReadRam == IF swapped THEN 2 ELSE 1
Read == rr[ReadRam].cells

(***************************************************************************)
(* Where the picture is: the line of the last swap, and the clocks since.  *)
(***************************************************************************)
After == h > SwapPoint + 1 \/ (h = SwapPoint + 1 /\ edge)
Line == IF v % 2 = 0 THEN v - 1 ELSE IF After THEN v ELSE v - 2

Since == (IF v % 2 = 0 THEN 2 * (h + 661)
          ELSE IF After THEN 2 * (h - (SwapPoint + 1)) ELSE 2 * (h + 1461))
         + (IF edge THEN 1 ELSE 0)

InPicture == Line >= v_start - 2 /\ Line <= v_start + v_visible - 2

RowAt(line) == IF line <= v_start + v_visible - 3 THEN (line - (v_start - 2)) \div 2 ELSE 0

(***************************************************************************)
(* The video output follows its counters.                                  *)
(***************************************************************************)
HdmiStates == {"IDLE", "SWAP", "DISPLAY"}
TimeInv ==
  /\ h \in 0 .. h_total - 1 /\ v \in 0 .. v_total - 1
  /\ edge \in BOOLEAN /\ swapped \in BOOLEAN /\ disp \in BOOLEAN
  /\ disp <=> /\ v > v_start - 2 \/ (v = v_start - 2 /\ (h > 0 \/ edge))
              /\ v < v_start + v_visible \/ (v = v_start + v_visible /\ h = 0 /\ ~edge)
  /\ ignore_swap = (disp /\ v % 2 = 1 /\ h = SwapPoint + 1 /\ edge)
  /\ hdmi.state = IF h <= SwapPoint \/ h >= h_sync + h_backporch + h_visible THEN "IDLE"
                  ELSE IF h = SwapPoint + 1 THEN "SWAP" ELSE "DISPLAY"
  /\ hdmi.toggle = (hdmi.state = "DISPLAY" /\ h % 2 = 1)
  /\ hdmi.rdaddr \in Column
  /\ hdmi.state = "DISPLAY" =>
       hdmi.rdaddr = IF h <= 779 THEN (h - 140) \div 2 ELSE MAX_PIXEL_ADDR

\* The address of the row RAM at a pixel of the line.
ReadAt(x) == IF x <= 779 THEN (x - 140) \div 2 ELSE MAX_PIXEL_ADDR

(***************************************************************************)
(* The pixels on their way from the row RAM to the screen.                 *)
(***************************************************************************)
DisplayInv ==
  hdmi.state = "DISPLAY" =>
    /\ edge => rr[ReadRam].port.mid = Read[ReadAt(h)]
    /\ ~edge /\ h >= 141 => rr[ReadRam].port.mid = Read[ReadAt(h - 1)]
    /\ h >= 141 => rr[ReadRam].port.q = Read[ReadAt(h - 1)]
    /\ h >= 142 => hdmi.color = Read[ReadAt(h - 2)]
    /\ edge /\ h >= 142 => palram.mid = Read[ReadAt(h - 2)]
    /\ ~edge /\ h >= 143 => palram.mid = Read[ReadAt(h - 3)]
    /\ h >= 143 => palram.q = Read[ReadAt(h - 3)]
    /\ h >= 144 => hdmi.rgb = Read[ReadAt(h - 4)]

(***************************************************************************)
(* The row that is prepared and mixed.                                     *)
(***************************************************************************)
Mixed(a, b, w) == mixer.addr = a /\ mixer.buf = b /\ mixer.wraddr = w

Idle == engine = 0 /\ ~rec /\ mixer.state = "WAIT" /\ Mixed(0, 0, 0)

Preparing == /\ engine \in 1 .. EngineTime /\ ~rec /\ mixer.state = "WAIT" /\ Mixed(0, 0, 0)
             /\ Since + engine <= EngineTime + 1

Recorded == /\ engine = 0 /\ rec /\ mixer.state = "WAIT" /\ Mixed(0, 0, 0)
            /\ Since <= EngineTime + 2

Filling == /\ engine = 0 /\ mixer.state = "FETCH"
           /\ \/ Mixed(0, 0, 0) /\ Since <= EngineTime + 3
              \/ Mixed(1, 0, 0) /\ ~rec /\ Since <= EngineTime + 4
              \/ /\ mixer.wraddr \in Column /\ ~rec
                 /\ mixer.buf = SpriteColumn(mixer.wraddr)
                 /\ mixer.addr = SpriteColumn(mixer.buf)
                 /\ Since <= EngineTime + 5 + mixer.wraddr
                 /\ \A c \in Column : c < mixer.wraddr => Written[c] = Right(sprites, row, c)

Settling == /\ engine = 0 /\ ~rec /\ mixer.state = "WAIT"
            /\ \/ Mixed(319, 319, 319) /\ Since <= EngineTime + 325
               \/ Mixed(0, 319, 319) /\ Since <= EngineTime + 326
               \/ Mixed(0, 0, 319) /\ Since <= EngineTime + 327
            /\ Filled(Written, row)

Busy == Preparing \/ Recorded \/ Filling \/ Settling

MixerInv ==
  /\ tile = [mid |-> mixer.buf, q |-> mixer.wraddr] /\ col = mixer.buf
  /\ Idle \/ (Busy /\ InPicture)
  /\ ignore_swap => engine = EngineTime
  /\ InPicture => /\ row = RowAt(Line)
                  /\ Line >= v_start => Filled(Read, (Line - v_start) \div 2)
                  /\ Idle => Filled(Written, row)

\* What the memories hold are pixels.
Pixel == [src : {"none", "bg", "fg", "spr", "blank"}, row : Nat, col : Nat]

RowTypeOK ==
  /\ sprites \in BOOLEAN /\ row \in 0 .. (v_visible \div 2) - 1 /\ rec \in BOOLEAN
  /\ hdmi \in [state : HdmiStates, toggle : BOOLEAN, rdaddr : Column, color : Pixel, rgb : Pixel]
  /\ palram \in [mid : Pixel, q : Pixel]
  /\ rr \in [{1, 2} -> [cells : [Column -> Pixel], port : [mid : Pixel, q : Pixel]]]
  /\ mixer \in [state : {"WAIT", "FETCH"}, addr : Column, buf : Column, wraddr : Column]

RowInv == RowTypeOK /\ TimeInv /\ DisplayInv /\ MixerInv

----------------------------------------------------------------------------
\* What RowScanAssumption says of the lines.
LEMMA Lines ==
  /\ v_start \in Nat /\ v_start >= 3 /\ v_start % 2 = 1
  /\ v_visible \in Nat /\ v_visible >= 2 /\ v_visible % 2 = 0
  /\ v_frontporch \in Nat /\ v_frontporch >= 2 /\ v_frontporch % 2 = 0
  /\ v_total = v_start + v_visible + v_frontporch
BY RowScanAssumption DEF RowScanAssumption, v_start, v_total

\* The mixer's choice is the layer on top: the cases of final_source are the
\* order of the priorities.
LEMMA TopIsChosen ==
  ASSUME NEW c \in Column, NEW sc \in Column, NEW r
  PROVE  Chosen(sprites, r, c, sc) = OnTop(r, c, sc)
<1> DEFINE prio == SprPrio(sc)
           bg == BgOpaque(c)
           fg == FgOpaque(c)
           spr == sprites /\ SprOpaque(sc)
           opaque == {s \in {"bg", "fg", "spr"} :
                        CASE s = "bg" -> BgOpaque(c) [] s = "fg" -> FgOpaque(c)
                          [] s = "spr" -> sprites /\ SprOpaque(sc)}
           top == CHOOSE s \in opaque : \A t \in opaque : Height(t, prio) <= Height(s, prio)
           src == FinalSource(bg, fg, spr, prio)
<1>1. prio \in 0 .. 3
  BY RowScanAssumption DEF RowScanAssumption
<1>2. /\ "bg" \in opaque <=> bg
      /\ "fg" \in opaque <=> fg
      /\ "spr" \in opaque <=> spr
      /\ opaque \subseteq {"bg", "fg", "spr"}
  OBVIOUS
<1>3. /\ Height("bg", prio) = 1 /\ Height("fg", prio) = 3
      /\ prio = 0 => Height("spr", prio) = 0
      /\ prio = 1 => Height("spr", prio) = 2
      /\ prio >= 2 => Height("spr", prio) = 4
  BY <1>1 DEF Height
<1>4. OnTop(r, c, sc) = IF opaque = {} THEN NoPixel
                        ELSE [src |-> top, row |-> r, col |-> IF top = "spr" THEN sc ELSE c]
  BY DEF OnTop
<1>5. Chosen(sprites, r, c, sc) = IF src = "spr" THEN Named("spr", r, sc) ELSE Named(src, r, c)
  BY DEF Chosen
<1> HIDE DEF prio, opaque
<1>6. ASSUME NEW s \in opaque, \A t \in opaque : t # s => Height(t, prio) < Height(s, prio)
      PROVE  top = s
  <2>1. \A t \in opaque : Height(t, prio) \in Nat
    BY <1>1, <1>2, <1>3
  <2>2. \A t \in opaque : Height(t, prio) <= Height(s, prio)
    BY <1>6, <2>1
  <2>3. top \in opaque /\ \A t \in opaque : Height(t, prio) <= Height(top, prio)
    BY <2>2
  <2> QED BY <1>6, <2>1, <2>3
<1>7. CASE ~bg /\ ~fg /\ ~spr
  <2>1. opaque = {} /\ src = "none"
    BY <1>2, <1>7 DEF FinalSource
  <2> QED BY <1>4, <1>5, <2>1 DEF Named
<1>8. CASE bg \/ fg \/ spr
  <2>1. src \in opaque /\ src \in {"bg", "fg", "spr"}
    BY <1>1, <1>2, <1>8 DEF FinalSource
  <2>2. ASSUME NEW t \in opaque, t # src PROVE Height(t, prio) < Height(src, prio)
    <3>1. CASE prio >= 2
      <4>1. src = IF spr THEN "spr" ELSE IF fg THEN "fg" ELSE "bg"
        BY <1>1, <1>8, <3>1 DEF FinalSource
      <4> QED BY <1>1, <1>2, <1>3, <2>2, <3>1, <4>1
    <3>2. CASE prio = 1
      <4>1. src = IF fg THEN "fg" ELSE IF spr THEN "spr" ELSE "bg"
        BY <1>8, <3>2 DEF FinalSource
      <4> QED BY <1>2, <1>3, <2>2, <3>2, <4>1
    <3>3. CASE prio = 0
      <4>1. src = IF fg THEN "fg" ELSE IF bg THEN "bg" ELSE "spr"
        BY <1>8, <3>3 DEF FinalSource
      <4> QED BY <1>2, <1>3, <2>2, <3>3, <4>1
    <3> QED BY <1>1, <3>1, <3>2, <3>3
  <2>3. top = src
    BY <1>6, <2>1, <2>2
  <2> HIDE DEF top, src
  <2>4. opaque # {} /\ src # "none"
    BY <2>1
  <2> QED BY <1>4, <1>5, <2>3, <2>4 DEF Named
<1> QED BY <1>7, <1>8

\* Without sprites the column of the sprite layer does not matter.
LEMMA TopWithoutSprites ==
  ASSUME ~sprites, NEW c \in Column, NEW sc \in Column, NEW r
  PROVE  Chosen(sprites, r, c, sc) = OnTop(r, c, c)
<1>1. /\ FinalSource(BgOpaque(c), FgOpaque(c), sprites /\ SprOpaque(sc), SprPrio(sc))
         = IF FgOpaque(c) THEN "fg" ELSE IF BgOpaque(c) THEN "bg" ELSE "none"
      /\ FinalSource(BgOpaque(c), FgOpaque(c), sprites /\ SprOpaque(c), SprPrio(c))
         = IF FgOpaque(c) THEN "fg" ELSE IF BgOpaque(c) THEN "bg" ELSE "none"
  BY DEF FinalSource
<1>2. Chosen(sprites, r, c, sc) = Chosen(sprites, r, c, c)
  BY <1>1 DEF Chosen
<1> QED BY <1>2, TopIsChosen

----------------------------------------------------------------------------
(* The video output.                                                       *)

\* The state of the video output at a pixel of the line.
HdmiState(x) == IF x <= 138 \/ x >= 784 THEN "IDLE" ELSE IF x = 139 THEN "SWAP" ELSE "DISPLAY"

\* What the state machine does at an edge of the pixel clock.
LEMMA ScanIs ==
  ASSUME RowTypeOK, PixelClock
  PROVE  /\ hdmi'.state = IF hdmi.state = "IDLE" THEN (IF h = 138 THEN "SWAP" ELSE "IDLE")
                          ELSE IF hdmi.state = "SWAP" THEN "DISPLAY"
                          ELSE IF h = 783 THEN "IDLE" ELSE "DISPLAY"
         /\ hdmi'.toggle <=> hdmi.state = "DISPLAY" /\ ~hdmi.toggle
         /\ hdmi'.rdaddr = IF hdmi.state = "SWAP" THEN 0
                           ELSE IF hdmi.state = "DISPLAY" /\ hdmi.toggle /\ h < 779
                                THEN hdmi.rdaddr + 1 ELSE hdmi.rdaddr
         /\ hdmi'.color = rowram_rddata
         /\ hdmi'.rgb = IF hdmi.state = "DISPLAY" THEN color_rddata ELSE Black
         /\ hdmi' = [state |-> hdmi'.state, toggle |-> hdmi'.toggle, rdaddr |-> hdmi'.rdaddr,
                     color |-> hdmi'.color, rgb |-> hdmi'.rgb]
         /\ hdmi'.toggle \in BOOLEAN
<1>1. hdmi = [state |-> hdmi.state, toggle |-> hdmi.toggle, rdaddr |-> hdmi.rdaddr,
              color |-> hdmi.color, rgb |-> hdmi.rgb]
  BY DEF RowTypeOK
<1>2. hdmi.state \in HdmiStates /\ hdmi.toggle \in BOOLEAN
  BY DEF RowTypeOK
<1>3. hdmi' = [Scan EXCEPT !.color = rowram_rddata]
  BY DEF PixelClock
<1> USE DEF SwapPoint, h_sync, h_backporch, h_visible
<1>4. CASE hdmi.state = "IDLE"
  <2> DEFINE next == IF h = 138 THEN "SWAP" ELSE "IDLE"
  <2>1. Scan = [hdmi EXCEPT !.state = next, !.toggle = FALSE, !.rgb = Black]
    <3>1. 96 + 48 - 6 = 138
      OBVIOUS
    <3> QED BY <1>4, <3>1 DEF Scan
  <2> HIDE DEF next
  <2>2. hdmi' = [state |-> next, toggle |-> FALSE,
                 rdaddr |-> hdmi.rdaddr, color |-> rowram_rddata, rgb |-> Black]
    BY <1>1, <1>3, <2>1
  <2> QED BY <1>4, <2>2 DEF next
<1>5. CASE hdmi.state = "SWAP"
  <2>1. Scan = [hdmi EXCEPT !.state = "DISPLAY", !.rdaddr = 0, !.toggle = FALSE, !.rgb = Black]
    BY <1>5 DEF Scan
  <2>2. hdmi' = [state |-> "DISPLAY", toggle |-> FALSE,
                 rdaddr |-> 0, color |-> rowram_rddata, rgb |-> Black]
    BY <1>1, <1>3, <2>1
  <2> QED BY <1>5, <2>2
<1>6. CASE hdmi.state = "DISPLAY"
  <2> DEFINE onward == IF hdmi.toggle /\ h < 779 THEN hdmi.rdaddr + 1 ELSE hdmi.rdaddr
             next == IF h = 783 THEN "IDLE" ELSE "DISPLAY"
             other == ~hdmi.toggle
  <2>1. Scan = [hdmi EXCEPT !.state = next, !.rdaddr = onward, !.toggle = other,
                            !.rgb = color_rddata]
    <3>1. 96 + 48 + 640 - 1 = 783 /\ 96 + 48 + 640 - 5 = 779
      OBVIOUS
    <3> QED BY <1>6, <3>1 DEF Scan
  <2> HIDE DEF next, onward, other
  <2>2. hdmi' = [state |-> next, toggle |-> other,
                 rdaddr |-> onward, color |-> rowram_rddata, rgb |-> color_rddata]
    BY <1>1, <1>3, <2>1
  <2>3. /\ hdmi'.state = next /\ hdmi'.toggle = other /\ hdmi'.rdaddr = onward
        /\ hdmi'.color = rowram_rddata /\ hdmi'.rgb = color_rddata
    BY <2>2
  <2>4. hdmi' = [state |-> hdmi'.state, toggle |-> hdmi'.toggle, rdaddr |-> hdmi'.rdaddr,
                 color |-> hdmi'.color, rgb |-> hdmi'.rgb]
    BY <2>2, <2>3
  <2>5. hdmi'.toggle = ~hdmi.toggle
    BY <2>3 DEF other
  <2>6. (hdmi'.toggle <=> hdmi.state = "DISPLAY" /\ ~hdmi.toggle) /\ hdmi'.toggle \in BOOLEAN
    BY <1>2, <1>6, <2>5
  <2>7. hdmi'.state = IF h = 783 THEN "IDLE" ELSE "DISPLAY"
    BY <2>3 DEF next
  <2>8. hdmi'.rdaddr = IF hdmi.state = "DISPLAY" /\ hdmi.toggle /\ h < 779
                       THEN hdmi.rdaddr + 1 ELSE hdmi.rdaddr
    BY <1>6, <2>3 DEF onward
  <2> QED BY <1>6, <2>3, <2>4, <2>6, <2>7, <2>8
<1> QED BY <1>2, <1>4, <1>5, <1>6 DEF HdmiStates

\* What the row RAMs, Palette-RAM and the tile buffers hold and show after a
\* clock: a row RAM is written by the mixer or read by the video output.
LEMMA MemoriesAre ==
  ASSUME RowTypeOK, PpuClock
  PROVE  /\ palram'.mid = hdmi.color /\ palram'.q = palram.mid
         /\ palram' \in [mid : Pixel, q : Pixel]
         /\ tile' = [mid |-> mixer.addr, q |-> tile.mid] /\ col' = mixer.addr
         /\ \A i \in {1, 2} :
              /\ rr'[i].port.q = rr[i].port.mid
              /\ i # WrittenRam => /\ rr'[i].port.mid = rr[i].cells[hdmi.rdaddr]
                                   /\ rr'[i].cells = rr[i].cells
              /\ i = WrittenRam =>
                   rr'[i].cells = IF mixer.state = "FETCH"
                                  THEN [rr[i].cells EXCEPT ![mixer.wraddr] = wrdata]
                                  ELSE rr[i].cells
         /\ wrdata \in Pixel =>
              rr' \in [{1, 2} -> [cells : [Column -> Pixel], port : [mid : Pixel, q : Pixel]]]
<1>1. palram' = [mid |-> hdmi.color, q |-> palram.mid]
  BY DEF PpuClock, ReadClock
<1>2. hdmi.color \in Pixel /\ palram.mid \in Pixel
  BY DEF RowTypeOK
<1>3. tile' = [mid |-> mixer.addr, q |-> tile.mid] /\ col' = mixer.addr
  BY DEF PpuClock, ReadClock
<1>4. ASSUME NEW i \in {1, 2}
      PROVE  /\ rr'[i].port.q = rr[i].port.mid
             /\ i # WrittenRam => /\ rr'[i].port.mid = rr[i].cells[hdmi.rdaddr]
                                  /\ rr'[i].cells = rr[i].cells
             /\ i = WrittenRam =>
                  rr'[i].cells = IF mixer.state = "FETCH"
                                 THEN [rr[i].cells EXCEPT ![mixer.wraddr] = wrdata]
                                 ELSE rr[i].cells
             /\ wrdata \in Pixel => rr'[i] \in [cells : [Column -> Pixel], port : [mid : Pixel, q : Pixel]]
  <2> DEFINE addr == IF i = WrittenRam THEN mixer.wraddr ELSE hdmi.rdaddr
             cells == WriteClock(rr[i].cells, i = WrittenRam /\ mixer.state = "FETCH", addr, wrdata)
             port == [mid |-> rr[i].cells[addr], q |-> rr[i].port.mid]
  <2>1. rr'[i] = [cells |-> cells, port |-> port]
    BY DEF PpuClock, RamClock, ReadClock
  <2>2. /\ rr[i].cells \in [Column -> Pixel] /\ rr[i].port.mid \in Pixel
        /\ mixer.wraddr \in Column /\ hdmi.rdaddr \in Column
    BY DEF RowTypeOK
  <2>3. addr \in Column /\ DOMAIN rr[i].cells = Column
    BY <2>2
  <2> HIDE DEF addr
  <2>4. cells = IF i = WrittenRam /\ mixer.state = "FETCH"
                THEN [rr[i].cells EXCEPT ![addr] = wrdata] ELSE rr[i].cells
    BY <2>3 DEF WriteClock
  <2> HIDE DEF cells
  <2>5. wrdata \in Pixel => cells \in [Column -> Pixel]
    BY <2>2, <2>3, <2>4
  <2>6. port \in [mid : Pixel, q : Pixel]
    BY <2>2, <2>3
  <2>7. rr'[i].port.mid = rr[i].cells[addr] /\ rr'[i].port.q = rr[i].port.mid /\ rr'[i].cells = cells
    BY <2>1
  <2> HIDE DEF port
  <2>8. wrdata \in Pixel => rr'[i] \in [cells : [Column -> Pixel], port : [mid : Pixel, q : Pixel]]
    BY <2>1, <2>5, <2>6
  <2> QED BY <2>4, <2>7, <2>8 DEF addr
<1>5. rr' = [i \in {1, 2} |-> RamClock(i)]
  BY DEF PpuClock
<1>6. wrdata \in Pixel =>
        rr' \in [{1, 2} -> [cells : [Column -> Pixel], port : [mid : Pixel, q : Pixel]]]
  <2> DEFINE Ram == [cells : [Column -> Pixel], port : [mid : Pixel, q : Pixel]]
  <2>1. wrdata \in Pixel => \A i \in {1, 2} : rr'[i] \in Ram
    BY <1>4
  <2> HIDE DEF Ram
  <2>2. wrdata \in Pixel => rr' \in [{1, 2} -> Ram]
    BY <1>5, <2>1
  <2> QED BY <2>2 DEF Ram
<1> QED BY <1>1, <1>2, <1>3, <1>4, <1>6

\* The engines need at least a clock, and not longer than until the row is full.
LEMMA EngineTimeIs == EngineTime \in Nat /\ EngineTime >= 1 /\ EngineTime <= 2500
BY RowScanAssumption DEF RowScanAssumption

\* Time goes on: a clock is the second half of a pixel, or the next pixel.
LEMMA TimePasses ==
  ASSUME RowTypeOK, TimeInv, Next
  PROVE  /\ edge' = ~edge
         /\ ~edge => h' = h /\ v' = v /\ hdmi' = hdmi
         /\ edge => /\ PixelClock
                    /\ h' = IF h = 799 THEN 0 ELSE h + 1
                    /\ v' = IF h # 799 THEN v ELSE IF v = v_total - 1 THEN 0 ELSE v + 1
         /\ h \in 0 .. 799 /\ h' \in 0 .. 799 /\ v \in 0 .. v_total - 1 /\ v' \in 0 .. v_total - 1
<1>1. h \in 0 .. 799 /\ v \in 0 .. v_total - 1 /\ edge \in BOOLEAN
  BY DEF TimeInv, h_total
<1>2. edge' = ~edge
  BY DEF Next
<1>3. CASE ~edge
  BY <1>1, <1>2, <1>3 DEF Next
<1>4. CASE edge
  <2>1. PixelClock
    BY <1>4 DEF Next
  <2>2. h' = IF h = 799 THEN 0 ELSE h + 1
    BY <2>1 DEF PixelClock, h_total
  <2>3. v' = IF h # 799 THEN v ELSE IF v = v_total - 1 THEN 0 ELSE v + 1
    BY <2>1 DEF PixelClock, h_total
  <2>4. h' \in 0 .. 799 /\ v' \in 0 .. v_total - 1
    BY <1>1, <2>2, <2>3, Lines
  <2> QED BY <1>1, <1>2, <1>4, <2>1, <2>2, <2>3, <2>4
<1> QED BY <1>1, <1>3, <1>4

\* The address at the next pixel: it grows after the odd pixels, up to the last.
LEMMA ReadAtMoves ==
  ASSUME NEW x \in Int, x >= 140, x <= 782
  PROVE  /\ ReadAt(x) \in 0 .. 319 /\ ReadAt(x + 1) \in 0 .. 319
         /\ ReadAt(x + 1) = IF x < 779 /\ x % 2 = 1 THEN ReadAt(x) + 1 ELSE ReadAt(x)
<1> USE DEF MAX_PIXEL_ADDR
<1>1. CASE x < 779 /\ x % 2 = 1
  <2>1. ReadAt(x) = (x - 140) \div 2 /\ ReadAt(x + 1) = ((x + 1) - 140) \div 2
    BY <1>1 DEF ReadAt
  <2>2. ((x + 1) - 140) \div 2 = (x - 140) \div 2 + 1
    BY <1>1
  <2>3. (x - 140) \div 2 >= 0 /\ (x - 140) \div 2 <= 318 /\ (x - 140) \div 2 \in Int
    BY <1>1
  <2> QED BY <1>1, <2>1, <2>2, <2>3
<1>2. CASE x < 779 /\ x % 2 # 1
  <2>1. ReadAt(x) = (x - 140) \div 2 /\ ReadAt(x + 1) = ((x + 1) - 140) \div 2
    BY <1>2 DEF ReadAt
  <2>2. ((x + 1) - 140) \div 2 = (x - 140) \div 2
    BY <1>2
  <2>3. (x - 140) \div 2 >= 0 /\ (x - 140) \div 2 <= 319 /\ (x - 140) \div 2 \in Int
    BY <1>2
  <2> QED BY <1>2, <2>1, <2>2, <2>3
<1>3. CASE x >= 779
  <2>1. ReadAt(x) = 319 /\ ReadAt(x + 1) = 319
    BY <1>3 DEF ReadAt
  <2> QED BY <1>3, <2>1
<1> QED BY <1>1, <1>2, <1>3

\* The video output and the flags of the driver side follow the counters.
LEMMA TimeStep ==
  ASSUME RowTypeOK, TimeInv, Next
  PROVE  TimeInv'
<1> USE DEF SwapPoint, h_sync, h_backporch, h_visible, h_total, Column, MAX_PIXEL_ADDR
<1>1. /\ edge' = ~edge /\ edge \in BOOLEAN /\ edge' \in BOOLEAN
      /\ h \in 0 .. 799 /\ h' \in 0 .. 799 /\ v \in 0 .. v_total - 1 /\ v' \in 0 .. v_total - 1
  <2>1. edge \in BOOLEAN
    BY DEF TimeInv
  <2>2. /\ edge' = ~edge /\ h \in 0 .. 799 /\ h' \in 0 .. 799
        /\ v \in 0 .. v_total - 1 /\ v' \in 0 .. v_total - 1
    BY TimePasses, Zenon
  <2>3. edge' \in BOOLEAN
    BY <2>1, <2>2
  <2> QED BY <2>1, <2>2, <2>3
<1>2. /\ ~edge => h' = h /\ v' = v /\ hdmi' = hdmi
      /\ edge => /\ PixelClock
                 /\ h' = IF h = 799 THEN 0 ELSE h + 1
                 /\ v' = IF h # 799 THEN v ELSE IF v = v_total - 1 THEN 0 ELSE v + 1
  BY TimePasses
<1>3. hdmi.state = HdmiState(h)
  BY <1>1 DEF TimeInv, HdmiState
<1>4. hdmi'.state = HdmiState(h')
  <2>1. CASE ~edge
    BY <1>2, <1>3, <2>1
  <2>2. CASE edge
    <3>1. hdmi'.state = IF hdmi.state = "IDLE" THEN (IF h = 138 THEN "SWAP" ELSE "IDLE")
                        ELSE IF hdmi.state = "SWAP" THEN "DISPLAY"
                        ELSE IF h = 783 THEN "IDLE" ELSE "DISPLAY"
      BY <1>2, <2>2, ScanIs
    <3> QED BY <1>1, <1>2, <1>3, <2>2, <3>1 DEF HdmiState
  <2> QED BY <1>1, <2>1, <2>2
<1>5. hdmi'.toggle = (hdmi'.state = "DISPLAY" /\ h' % 2 = 1)
  <2>1. CASE ~edge
    BY <1>2, <2>1 DEF TimeInv
  <2>2. CASE edge
    <3>1. hdmi.toggle = (hdmi.state = "DISPLAY" /\ h % 2 = 1)
      BY DEF TimeInv
    <3>2. /\ hdmi'.toggle <=> hdmi.state = "DISPLAY" /\ ~hdmi.toggle
          /\ hdmi'.toggle \in BOOLEAN
      BY <1>2, <2>2, ScanIs
    <3>3. (hdmi.state = "DISPLAY" /\ ~(h % 2 = 1)) <=> (hdmi'.state = "DISPLAY" /\ h' % 2 = 1)
      <4>1. h' = IF h = 799 THEN 0 ELSE h + 1
        BY <1>2, <2>2
      <4>2. /\ hdmi.state = "DISPLAY" <=> h \in 140 .. 783
            /\ hdmi'.state = "DISPLAY" <=> h' \in 140 .. 783
        BY <1>1, <1>3, <1>4 DEF HdmiState
      <4>3. (h \in 140 .. 783 /\ ~(h % 2 = 1)) <=> (h' \in 140 .. 783 /\ h' % 2 = 1)
        BY <1>1, <4>1
      <4> QED BY <4>2, <4>3
    <3> QED BY <3>1, <3>2, <3>3
  <2> QED BY <1>1, <2>1, <2>2
<1>6. /\ hdmi'.rdaddr \in 0 .. 319
      /\ hdmi'.state = "DISPLAY" => hdmi'.rdaddr = ReadAt(h')
  <2>1. /\ hdmi.rdaddr \in 0 .. 319
        /\ hdmi.state = "DISPLAY" => hdmi.rdaddr = ReadAt(h)
    BY DEF TimeInv, ReadAt
  <2>2. CASE ~edge
    BY <1>2, <2>1, <2>2
  <2>3. CASE edge
    <3> DEFINE odd == hdmi.state = "DISPLAY" /\ hdmi.toggle /\ h < 779
    <3>1. hdmi'.rdaddr = IF hdmi.state = "SWAP" THEN 0
                         ELSE IF odd THEN hdmi.rdaddr + 1 ELSE hdmi.rdaddr
      BY <1>2, <2>3, ScanIs
    <3>2. odd <=> (h \in 140 .. 778 /\ h % 2 = 1)
      <4>1. hdmi.toggle = (hdmi.state = "DISPLAY" /\ h % 2 = 1)
        BY DEF TimeInv
      <4>2. odd <=> (hdmi.state = "DISPLAY" /\ h % 2 = 1 /\ h < 779)
        BY <4>1
      <4> HIDE DEF odd
      <4> QED BY <1>1, <1>3, <4>2 DEF HdmiState
    <3> HIDE DEF odd
    <3>3. CASE h \in 140 .. 782
      <4>1. hdmi.state = "DISPLAY" /\ h' = h + 1
        BY <1>2, <1>3, <2>3, <3>3 DEF HdmiState
      <4>2. hdmi.rdaddr = ReadAt(h) /\ ReadAt(h) \in 0 .. 319 /\ ReadAt(h') \in 0 .. 319
            /\ ReadAt(h') = IF h < 779 /\ h % 2 = 1 THEN ReadAt(h) + 1 ELSE ReadAt(h)
        <5>1. h \in Int /\ h >= 140 /\ h <= 782
          BY <3>3
        <5> QED BY <2>1, <4>1, <5>1, ReadAtMoves
      <4>3. odd <=> (h < 779 /\ h % 2 = 1)
        BY <3>2, <3>3
      <4>4. hdmi'.rdaddr = ReadAt(h')
        BY <3>1, <4>1, <4>2, <4>3
      <4> QED BY <4>2, <4>4
    <3>4. CASE h = 139
      <4>1. hdmi.state = "SWAP" /\ h' = 140
        BY <1>2, <1>3, <2>3, <3>4 DEF HdmiState
      <4>2. hdmi'.rdaddr = 0 /\ ReadAt(h') = 0
        BY <3>1, <4>1 DEF ReadAt
      <4> QED BY <4>2
    <3>5. CASE h \notin 139 .. 782
      <4>1. hdmi.state # "SWAP" /\ ~odd
        BY <1>1, <1>3, <3>2, <3>5 DEF HdmiState
      <4>2. hdmi'.rdaddr = hdmi.rdaddr
        BY <3>1, <4>1
      <4>3. h' \notin 140 .. 783
        BY <1>1, <1>2, <2>3, <3>5
      <4>4. hdmi'.state # "DISPLAY"
        BY <1>1, <1>4, <4>3 DEF HdmiState
      <4> QED BY <2>1, <4>2, <4>4
    <3>6. h = 139 \/ h \in 140 .. 782 \/ h \notin 139 .. 782
      BY <1>1
    <3> QED BY <3>3, <3>4, <3>5, <3>6
  <2> QED BY <1>1, <2>2, <2>3
<1>7. /\ disp' \in BOOLEAN
      /\ disp' <=> /\ v' > v_start - 2 \/ (v' = v_start - 2 /\ (h' > 0 \/ edge'))
                   /\ v' < v_start + v_visible \/ (v' = v_start + v_visible /\ h' = 0 /\ ~edge')
  <2> DEFINE here == /\ v > v_start - 2 \/ (v = v_start - 2 /\ (h > 0 \/ edge))
                     /\ v < v_start + v_visible \/ (v = v_start + v_visible /\ h = 0 /\ ~edge)
             there == /\ v' > v_start - 2 \/ (v' = v_start - 2 /\ (h' > 0 \/ edge'))
                      /\ v' < v_start + v_visible \/ (v' = v_start + v_visible /\ h' = 0 /\ ~edge')
             on == v = v_start - 2 /\ h = 0
             off == v = v_start + v_visible /\ h = 0
  <2>1. disp \in BOOLEAN /\ (disp <=> here)
    BY DEF TimeInv
  <2>2. disp' = IF on THEN TRUE ELSE IF off THEN FALSE ELSE disp
    <3>1. v_total - v_frontporch = v_start + v_visible
      BY Lines
    <3>2. disp' = IF vblank_end_soon THEN TRUE ELSE IF vblank_start THEN FALSE ELSE disp
      BY DEF Next, PpuClock
    <3> QED BY <3>1, <3>2 DEF vblank_end_soon, vblank_start
  <2>3. there <=> on \/ (~off /\ here)
    <3>1. /\ v_start \in Nat /\ v_start >= 3 /\ v_visible \in Nat /\ v_visible >= 2
          /\ v_total \in Nat /\ v_total > v_start + v_visible
      BY Lines
    <3>2. CASE ~edge
      <4>1. h' = h /\ v' = v /\ edge'
        BY <1>1, <1>2, <3>2
      <4> QED BY <1>1, <3>1, <3>2, <4>1
    <3>3. CASE edge
      <4>1. /\ h' = IF h = 799 THEN 0 ELSE h + 1
            /\ v' = IF h # 799 THEN v ELSE IF v = v_total - 1 THEN 0 ELSE v + 1
            /\ ~edge'
        BY <1>1, <1>2, <3>3
      <4>2. h \in 0 .. 799 /\ v \in 0 .. v_total - 1
        BY <1>1
      <4>3. CASE h # 799
        <5>1. h' = h + 1 /\ v' = v
          BY <4>1, <4>3
        <5> QED BY <3>1, <3>3, <4>1, <4>2, <5>1
      <4>4. CASE h = 799
        BY <3>1, <3>3, <4>1, <4>2, <4>4
      <4> QED BY <4>3, <4>4
    <3> QED BY <1>1, <3>2, <3>3
  <2> HIDE DEF here, there, on, off
  <2>4. disp' \in BOOLEAN /\ (disp' <=> there)
    BY <2>1, <2>2, <2>3
  <2> QED BY <2>4 DEF there
<1>8. ignore_swap' = (disp' /\ v' % 2 = 1 /\ h' = 139 /\ edge')
  <2>1. ignore_swap' = IF prep THEN ~ignore_swap ELSE ignore_swap
    BY DEF Next, PpuClock
  <2>2. ignore_swap = (disp /\ v % 2 = 1 /\ h = 139 /\ edge)
    BY DEF TimeInv
  <2>3. prep <=> disp /\ v % 2 = 1 /\ h = 139
    BY <1>1, <1>3 DEF prep, rowram_swap, HdmiState
  <2>4. ignore_swap' = (prep /\ ~edge)
    <3>1. disp \in BOOLEAN
      BY DEF TimeInv
    <3>2. prep \in BOOLEAN
      BY DEF prep, rowram_swap
    <3> QED BY <1>1, <2>1, <2>2, <2>3, <3>1, <3>2
  <2>5. h = 139 /\ ~edge => disp' = disp
    <3>1. disp' = IF vblank_end_soon THEN TRUE ELSE IF vblank_start THEN FALSE ELSE disp
      BY DEF Next, PpuClock
    <3> QED BY <3>1 DEF vblank_end_soon, vblank_start
  <2>6. (prep /\ ~edge) <=> (disp' /\ v' % 2 = 1 /\ h' = 139 /\ edge')
    <3>1. CASE ~edge
      <4>1. h' = h /\ v' = v /\ edge'
        BY <1>1, <1>2, <3>1
      <4>2. prep <=> (disp' /\ v % 2 = 1 /\ h = 139)
        BY <2>3, <2>5, <3>1
      <4> QED BY <3>1, <4>1, <4>2
    <3>2. CASE edge
      BY <1>1, <3>2
    <3> QED BY <1>1, <3>1, <3>2
  <2> QED BY <2>4, <2>6
<1>9. swapped' \in BOOLEAN
  BY DEF Next, PpuClock, NextSwapped, TimeInv
<1> QED
  <2>1. hdmi'.state = IF h' <= 138 \/ h' >= 784 THEN "IDLE"
                      ELSE IF h' = 139 THEN "SWAP" ELSE "DISPLAY"
    BY <1>4 DEF HdmiState
  <2>2. 96 + 48 - 6 = 138 /\ 96 + 48 + 640 = 784 /\ 138 + 1 = 139 /\ 800 - 1 = 799
    OBVIOUS
  <2>3. hdmi'.state = "DISPLAY" => hdmi'.rdaddr = IF h' <= 779 THEN (h' - 140) \div 2 ELSE 319
    BY <1>6 DEF ReadAt
  <2>4. /\ h' \in 0 .. h_total - 1 /\ v' \in 0 .. v_total - 1 /\ edge' \in BOOLEAN
        /\ hdmi'.rdaddr \in Column
    BY <1>1, <1>6
  <2>5. hdmi'.state = IF h' <= SwapPoint \/ h' >= h_sync + h_backporch + h_visible THEN "IDLE"
                      ELSE IF h' = SwapPoint + 1 THEN "SWAP" ELSE "DISPLAY"
    BY <2>1, <2>2
  <2>6. ignore_swap' = (disp' /\ v' % 2 = 1 /\ h' = SwapPoint + 1 /\ edge')
    BY <1>8, <2>2
  <2> HIDE DEF SwapPoint, h_sync, h_backporch, h_visible, h_total, Column
  <2> QED BY <1>5, <1>7, <1>9, <2>3, <2>4, <2>5, <2>6 DEF TimeInv

\* The first of the two clocks of the pixel clock in which row_ram_swap.sv may
\* exchange the row RAMs.
Moment == v % 2 = 1 /\ h = 139 /\ ~edge

\* prep is high for two clocks; ignore_swap lets only the first of them count.
LEMMA SwapMoment ==
  ASSUME RowTypeOK, TimeInv, Next
  PROVE  /\ swapped' = IF disp /\ Moment THEN ~swapped ELSE swapped
         /\ prep <=> disp /\ v % 2 = 1 /\ h = 139
         /\ ignore_swap <=> disp /\ v % 2 = 1 /\ h = 139 /\ edge
<1> USE DEF SwapPoint, h_sync, h_backporch, h_visible, h_total
<1>1. h \in 0 .. 799 /\ edge \in BOOLEAN /\ disp \in BOOLEAN
  BY DEF TimeInv
<1>2. hdmi.state = HdmiState(h)
  BY <1>1 DEF TimeInv, HdmiState
<1>3. prep <=> disp /\ v % 2 = 1 /\ h = 139
  BY <1>1, <1>2 DEF prep, rowram_swap, HdmiState
<1>4. ignore_swap = (disp /\ v % 2 = 1 /\ h = 139 /\ edge)
  BY DEF TimeInv
<1>5. swapped' = IF prep /\ ~ignore_swap THEN ~swapped ELSE swapped
  BY DEF Next, PpuClock, NextSwapped
<1>6. (prep /\ ~ignore_swap) <=> (disp /\ Moment)
  BY <1>1, <1>3, <1>4 DEF Moment
<1>7. ignore_swap <=> disp /\ v % 2 = 1 /\ h = 139 /\ edge
  BY <1>4
<1> QED BY <1>3, <1>5, <1>6, <1>7

\* The pixels of a line in which the video output is in its display state.
Shows(x) == x >= 140 /\ x <= 783

\* The pixels move on, one stage at a clock of their memory.
LEMMA DisplayStep ==
  ASSUME RowTypeOK, TimeInv, DisplayInv, Next
  PROVE  DisplayInv'
<1> USE DEF SwapPoint, h_sync, h_backporch, h_visible, h_total
<1>1. /\ edge' = ~edge
      /\ ~edge => h' = h /\ hdmi' = hdmi
      /\ edge => PixelClock /\ h' = IF h = 799 THEN 0 ELSE h + 1
      /\ h \in 0 .. 799 /\ h' \in 0 .. 799 /\ edge \in BOOLEAN
  BY TimePasses DEF TimeInv
<1>2. /\ hdmi.state = "DISPLAY" <=> Shows(h)
      /\ hdmi'.state = "DISPLAY" <=> Shows(h')
  <2>1. TimeInv'
    BY TimeStep
  <2>2. /\ hdmi.state = HdmiState(h)
        /\ hdmi'.state = HdmiState(h')
    BY <2>1, <1>1 DEF TimeInv, HdmiState
  <2>3. \A x \in Int : HdmiState(x) = "DISPLAY" <=> Shows(x)
    BY DEF HdmiState, Shows
  <2>4. h \in Int /\ h' \in Int
    BY <1>1
  <2> QED BY <2>2, <2>3, <2>4
<1> SUFFICES ASSUME Shows(h')
             PROVE  DisplayInv'
  BY <1>2 DEF DisplayInv
<1>3. swapped \in BOOLEAN /\ swapped' = swapped
  <2>0. (~edge => h' = h) /\ h \in Int /\ h' \in Int
    BY <1>1
  <2>1. ~(h = 139 /\ ~edge)
    BY <2>0 DEF Shows
  <2> QED BY <2>1, SwapMoment DEF Moment, TimeInv
<1>4. ReadRam \in {1, 2} /\ ReadRam # WrittenRam /\ ReadRam' = ReadRam
  BY <1>3 DEF ReadRam, WrittenRam
<1>5. PpuClock
  BY DEF Next
<1>6. /\ rr'[ReadRam].port.q = rr[ReadRam].port.mid
      /\ rr'[ReadRam].port.mid = Read[hdmi.rdaddr]
      /\ Read' = Read
      /\ palram'.mid = hdmi.color /\ palram'.q = palram.mid
  BY <1>4, <1>5, MemoriesAre DEF Read
<1>7. Shows(h) => hdmi.rdaddr = ReadAt(h)
  BY <1>2 DEF TimeInv, ReadAt, MAX_PIXEL_ADDR
<1> DEFINE at(x) == Read[ReadAt(x)]
           mid == rr[ReadRam].port.mid
           q == rr[ReadRam].port.q
<1>8. Shows(h) =>
        /\ edge => mid = at(h)
        /\ ~edge /\ h >= 141 => mid = at(h - 1)
        /\ h >= 141 => q = at(h - 1)
        /\ h >= 142 => hdmi.color = at(h - 2)
        /\ edge /\ h >= 142 => palram.mid = at(h - 2)
        /\ ~edge /\ h >= 143 => palram.mid = at(h - 3)
        /\ h >= 143 => palram.q = at(h - 3)
        /\ h >= 144 => hdmi.rgb = at(h - 4)
  BY <1>2 DEF DisplayInv
<1>9. /\ rr'[ReadRam].port.q = mid
      /\ Shows(h) => rr'[ReadRam].port.mid = at(h)
      /\ palram'.mid = hdmi.color /\ palram'.q = palram.mid
  BY <1>6, <1>7
<1>10. rowram_rddata = q /\ color_rddata = palram.q
  BY DEF rowram_rddata, RowRam, ReadRam, color_rddata
<1>11. SUFFICES
        /\ edge' => rr'[ReadRam].port.mid = at(h')
        /\ ~edge' /\ h' >= 141 => rr'[ReadRam].port.mid = at(h' - 1)
        /\ h' >= 141 => rr'[ReadRam].port.q = at(h' - 1)
        /\ h' >= 142 => hdmi'.color = at(h' - 2)
        /\ edge' /\ h' >= 142 => palram'.mid = at(h' - 2)
        /\ ~edge' /\ h' >= 143 => palram'.mid = at(h' - 3)
        /\ h' >= 143 => palram'.q = at(h' - 3)
        /\ h' >= 144 => hdmi'.rgb = at(h' - 4)
  BY <1>4, <1>6 DEF DisplayInv
<1> HIDE DEF at, mid, q
<1>12. CASE ~edge
  <2>1. h' = h /\ hdmi' = hdmi /\ edge'
    BY <1>1, <1>12
  <2>2. Shows(h)
    BY <2>1
  <2>3. /\ h >= 141 => mid = at(h - 1)
        /\ h >= 141 => q = at(h - 1)
        /\ h >= 142 => hdmi.color = at(h - 2)
        /\ h >= 143 => palram.mid = at(h - 3)
        /\ h >= 143 => palram.q = at(h - 3)
        /\ h >= 144 => hdmi.rgb = at(h - 4)
    BY <1>8, <1>12, <2>2
  <2> QED BY <1>9, <2>1, <2>2, <2>3
<1>13. CASE edge
  <2>1. h \in Int /\ h >= 139 /\ h <= 782 /\ h' = h + 1 /\ ~edge'
    <3>1. h' = (IF h = 799 THEN 0 ELSE h + 1) /\ ~edge'
      BY <1>1, <1>13
    <3>2. h \in Int /\ h' >= 140 /\ h' <= 783
      BY <1>1 DEF Shows
    <3>3. h' = h + 1
      BY <3>1, <3>2
    <3> QED BY <3>1, <3>2, <3>3
  <2>2. hdmi'.color = q
    BY <1>1, <1>10, <1>13, ScanIs
  <2>3. h >= 140 => hdmi'.rgb = palram.q
    <3>1. h >= 140 => hdmi.state = "DISPLAY"
      BY <1>2, <2>1 DEF Shows
    <3> QED BY <1>1, <1>10, <1>13, <3>1, ScanIs
  <2>4. /\ h + 1 - 1 = h /\ h + 1 - 2 = h - 1 /\ h + 1 - 3 = h - 2 /\ h + 1 - 4 = h - 3
    BY <2>1
  <2>5. h >= 140 => /\ mid = at(h)
                    /\ h >= 141 => q = at(h - 1)
                    /\ h >= 142 => hdmi.color = at(h - 2)
                    /\ h >= 142 => palram.mid = at(h - 2)
                    /\ h >= 143 => palram.q = at(h - 3)
    BY <1>8, <1>13, <2>1 DEF Shows
  <2> QED BY <1>9, <2>1, <2>2, <2>3, <2>4, <2>5 DEF Shows
<1> QED BY <1>1, <1>12, <1>13

----------------------------------------------------------------------------
(* The mixer.                                                              *)

\* The clocks since the last swap, and its line.
LEMMA Elapses ==
  ASSUME RowTypeOK, TimeInv, Next
  PROVE  /\ Since \in Nat
         /\ Moment => Since = 3200 /\ Since' = 1 /\ Line = v - 2 /\ Line' = v
         /\ Moment => (disp <=> InPicture')
         /\ Moment /\ disp => v >= v_start - 2 /\ v <= v_start + v_visible - 2
         /\ ~Moment => (InPicture' <=> InPicture)
         /\ ~Moment /\ InPicture => Since' = Since + 1 /\ Line' = Line
<1> DEFINE half == IF edge THEN 1 ELSE 0
           half2 == IF edge' THEN 1 ELSE 0
           odd == v % 2 = 1
           odd2 == v' % 2 = 1
<1> USE DEF SwapPoint, h_sync, h_backporch, h_visible, h_total
<1>1. /\ edge' = ~edge /\ edge \in BOOLEAN
      /\ ~edge => h' = h /\ v' = v
      /\ edge => /\ h' = IF h = 799 THEN 0 ELSE h + 1
                 /\ v' = IF h # 799 THEN v ELSE IF v = v_total - 1 THEN 0 ELSE v + 1
      /\ h \in 0 .. 799 /\ h' \in 0 .. 799 /\ v \in 0 .. v_total - 1 /\ v' \in 0 .. v_total - 1
  BY TimePasses DEF TimeInv
<1>2. /\ After <=> h > 139 \/ (h = 139 /\ edge)
      /\ After' <=> h' > 139 \/ (h' = 139 /\ edge')
  BY <1>1 DEF After
<1>3. /\ Since = (IF v % 2 = 0 THEN 2 * (h + 661)
                  ELSE IF After THEN 2 * (h - 139) ELSE 2 * (h + 1461)) + half
      /\ Since' = (IF v' % 2 = 0 THEN 2 * (h' + 661)
                   ELSE IF After' THEN 2 * (h' - 139) ELSE 2 * (h' + 1461)) + half2
  <2>1. 96 + 48 - 6 + 1 = 139
    OBVIOUS
  <2> QED BY <2>1 DEF Since
<1>4. /\ Line = IF v % 2 = 0 THEN v - 1 ELSE IF After THEN v ELSE v - 2
      /\ Line' = IF v' % 2 = 0 THEN v' - 1 ELSE IF After' THEN v' ELSE v' - 2
  BY DEF Line
<1>5. /\ half = (IF edge THEN 1 ELSE 0) /\ half2 = (IF edge THEN 0 ELSE 1)
  BY <1>1
<1>6. /\ v_start \in Nat /\ v_start >= 3 /\ v_start % 2 = 1
      /\ v_visible \in Nat /\ v_visible >= 2 /\ v_visible % 2 = 0
      /\ v_total \in Nat /\ v_total >= v_start + v_visible + 2 /\ v_total % 2 = 1
  BY Lines
<1> HIDE DEF half, half2, odd, odd2, SwapPoint, h_sync, h_backporch, h_visible, h_total
<1>7. Since \in Nat
  <2>1. half \in {0, 1} /\ (After => h >= 139)
    BY <1>1, <1>2, <1>5
  <2>2. h \in 0 .. 799
    BY <1>1
  <2> QED BY <1>3, <2>1, <2>2
<1>8. ASSUME Moment
      PROVE  /\ Since = 3200 /\ Since' = 1 /\ Line = v - 2 /\ Line' = v
             /\ disp <=> InPicture'
             /\ disp => v >= v_start - 2 /\ v <= v_start + v_visible - 2
  <2>1. v % 2 = 1 /\ h = 139 /\ ~edge
    BY <1>8 DEF Moment
  <2>2. h' = 139 /\ v' = v /\ edge' /\ ~After /\ After'
    <3>1. h' = h /\ v' = v /\ edge'
      BY <1>1, <2>1
    <3>2. ~(h > 139)
      BY <2>1
    <3> QED BY <1>2, <2>1, <3>1, <3>2
  <2>3. half = 0 /\ half2 = 1
    BY <1>5, <2>1
  <2>4. v \in Nat
    BY <1>1, <1>6
  <2>5. Since = 3200 /\ Since' = 1 /\ Line = v - 2 /\ Line' = v
    BY <1>3, <1>4, <2>1, <2>2, <2>3, <2>4
  <2>6. disp <=> /\ v > v_start - 2 \/ v = v_start - 2
                 /\ v < v_start + v_visible
    BY <2>1 DEF TimeInv
  <2>7. InPicture' <=> v >= v_start - 2 /\ v <= v_start + v_visible - 2
    BY <2>5 DEF InPicture, v_start
  <2>8. v # v_start + v_visible - 1
    BY <1>6, <2>1, <2>4
  <2>9. disp <=> v >= v_start - 2 /\ v <= v_start + v_visible - 2
    BY <1>6, <2>4, <2>6, <2>8
  <2> QED BY <2>5, <2>7, <2>9
<1>9. ASSUME ~Moment
      PROVE  /\ InPicture' <=> InPicture
             /\ InPicture => Since' = Since + 1 /\ Line' = Line
  <2>1. /\ InPicture <=> Line >= v_start - 2 /\ Line <= v_start + v_visible - 2
        /\ InPicture' <=> Line' >= v_start - 2 /\ Line' <= v_start + v_visible - 2
    BY DEF InPicture, v_start
  <2>2. CASE ~edge
    <3>1. h' = h /\ v' = v /\ edge' /\ half = 0 /\ half2 = 1
      BY <1>1, <1>5, <2>2
    <3>2. v % 2 = 1 => (After <=> After')
      BY <1>1, <1>2, <1>9, <2>2, <3>1 DEF Moment
    <3>3. h \in 0 .. 799 /\ v \in Nat
      BY <1>1, <1>6
    <3>4. v % 2 = 0 \/ v % 2 = 1
      BY <3>3
    <3> QED BY <1>3, <1>4, <2>1, <3>1, <3>2, <3>3, <3>4
  <2>3. CASE edge
    <3>1. /\ h' = IF h = 799 THEN 0 ELSE h + 1
          /\ v' = IF h # 799 THEN v ELSE IF v = v_total - 1 THEN 0 ELSE v + 1
          /\ ~edge' /\ half = 1 /\ half2 = 0
      BY <1>1, <1>5, <2>3
    <3>2. h \in 0 .. 799 /\ v \in 0 .. v_total - 1
      BY <1>1
    <3>3. (After <=> h >= 139) /\ (After' <=> h' > 139)
      BY <1>1, <1>2, <2>3, <3>1
    <3>4. CASE h # 799
      <4>1. h' = h + 1 /\ v' = v /\ (After <=> After')
        BY <3>1, <3>2, <3>3, <3>4
      <4> QED BY <1>3, <1>4, <2>1, <3>1, <3>2, <4>1
    <3>5. CASE h = 799 /\ v = v_total - 1
      <4>1. v' = 0 /\ Line = v - 1 /\ Line' = 0 - 1
        BY <1>4, <1>6, <3>1, <3>2, <3>5
      <4> QED BY <1>6, <2>1, <3>5, <4>1
    <3>6. CASE h = 799 /\ v # v_total - 1
      <4>1. h' = 0 /\ v' = v + 1 /\ After /\ ~After'
        BY <3>1, <3>2, <3>3, <3>6
      <4>2. CASE v % 2 = 0
        <5>1. v' % 2 = 1
          BY <3>2, <4>1, <4>2
        <5>2. Line = v - 1 /\ Line' = v + 1 - 2
          <6>1. Line = v - 1
            BY <1>4, <4>2
          <6>2. v' % 2 # 0
            BY <5>1
          <6>3. Line' = v' - 2
            BY <1>4, <4>1, <6>2
          <6>4. v' = v + 1 /\ v \in Nat
            BY <3>2, <4>1
          <6> HIDE <4>1
          <6> QED BY <6>1, <6>3, <6>4
        <5>3. Since = 2921 /\ Since' = 2922
          BY <1>3, <3>1, <3>6, <4>1, <4>2, <5>1
        <5> QED BY <2>1, <3>2, <5>2, <5>3
      <4>3. CASE v % 2 = 1
        <5>1. v' % 2 = 0
          BY <3>2, <4>1, <4>3
        <5>2. Line = v /\ Line' = v + 1 - 1
          BY <1>4, <4>1, <4>3, <5>1
        <5>3. Since = 1321 /\ Since' = 1322
          BY <1>3, <3>1, <3>6, <4>1, <4>3, <5>1
        <5> QED BY <2>1, <3>2, <5>2, <5>3
      <4> QED BY <3>2, <4>2, <4>3
    <3> QED BY <3>4, <3>5, <3>6
  <2> QED BY <1>1, <2>2, <2>3
<1> QED BY <1>7, <1>8, <1>9

\* The row the engines are asked for: it stays the same until the mixer is done.
LEMMA NextRowIs ==
  ASSUME RowTypeOK, TimeInv
  PROVE  /\ NextRow \in 0 .. (v_visible \div 2) - 1
         /\ InPicture /\ Since < 2922 => NextRow = RowAt(Line)
         /\ v >= v_start - 2 => NextRow = RowAt(v)
<1>1. /\ v_start \in Nat /\ v_start >= 3 /\ v_start % 2 = 1
      /\ v_visible \in Nat /\ v_visible >= 2 /\ v_visible % 2 = 0
      /\ v_total \in Nat /\ v_total >= v_start + v_visible + 2
  BY Lines
<1>2. h \in 0 .. 799 /\ v \in 0 .. v_total - 1 /\ edge \in BOOLEAN
  BY DEF TimeInv, h_total
<1>3. NextRow \in 0 .. (v_visible \div 2) - 1
  BY <1>1, <1>2 DEF NextRow
<1>4. v >= v_start - 2 => NextRow = RowAt(v)
  BY <1>1, <1>2 DEF NextRow, RowAt
<1>5. ASSUME InPicture, Since < 2922
      PROVE  NextRow = RowAt(Line)
  <2>1. CASE v % 2 = 0
    <3>1. Line = v - 1
      BY <2>1 DEF Line
    <3>2. v - 1 >= v_start - 2 /\ v - 1 <= v_start + v_visible - 2
      BY <1>5, <3>1 DEF InPicture
    <3> QED BY <1>1, <1>2, <2>1, <3>1, <3>2 DEF NextRow, RowAt
  <2>2. CASE v % 2 = 1
    <3>1. After
      <4>1. SUFFICES ASSUME ~After PROVE FALSE
        OBVIOUS
      <4>2. Since = 2 * (h + 1461) + (IF edge THEN 1 ELSE 0)
        BY <2>2, <4>1 DEF Since
      <4> QED BY <1>2, <1>5, <4>2
    <3>2. Line = v
      BY <2>2, <3>1 DEF Line
    <3> QED BY <1>4, <1>5, <3>2 DEF InPicture
  <2> QED BY <1>2, <2>1, <2>2
<1> QED BY <1>3, <1>4, <1>5

\* What the engines and the registers of the mixer do at a clock.
LEMMA MixIs ==
  ASSUME RowTypeOK, Next
  PROVE  /\ prep /\ engine = 0 => engine' = EngineTime /\ row' = NextRow
         /\ ~(prep /\ engine = 0) =>
              /\ engine' = IF engine = 0 THEN 0 ELSE engine - 1
              /\ row' = row
         /\ rec' \in BOOLEAN
         /\ rec' <=> mixer.state = "WAIT" /\ (rec \/ engine = 1)
         /\ mixer'.state = IF mixer.state = "WAIT" THEN (IF rec THEN "FETCH" ELSE "WAIT")
                           ELSE IF mixer.wraddr = 319 THEN "WAIT" ELSE "FETCH"
         /\ mixer'.addr = IF mixer.state = "WAIT" THEN 0
                          ELSE IF mixer.addr = 319 THEN 319 ELSE mixer.addr + 1
         /\ mixer'.buf = mixer.addr /\ mixer'.wraddr = mixer.buf
         /\ mixer' \in [state : {"WAIT", "FETCH"}, addr : Column, buf : Column, wraddr : Column]
<1> USE DEF MAX_PIXEL_ADDR, Column
<1>1. /\ prep /\ engine = 0 => engine' = EngineTime /\ row' = NextRow
      /\ ~(prep /\ engine = 0) => /\ engine' = IF engine = 0 THEN 0 ELSE engine - 1
                                  /\ row' = row
  BY DEF Next, PpuClock
<1>2. rec' = (mixer.state = "WAIT" /\ (rec \/ engine = 1))
  BY DEF Next, PpuClock
<1>7. rec' \in BOOLEAN /\ (rec' <=> mixer.state = "WAIT" /\ (rec \/ engine = 1))
  BY <1>2
<1>3. /\ mixer = [state |-> mixer.state, addr |-> mixer.addr,
                  buf |-> mixer.buf, wraddr |-> mixer.wraddr]
      /\ mixer.state \in {"WAIT", "FETCH"}
      /\ mixer.addr \in 0 .. 319 /\ mixer.buf \in 0 .. 319 /\ mixer.wraddr \in 0 .. 319
  BY DEF RowTypeOK
<1>4. mixer' = Mix
  BY DEF Next, PpuClock
<1>5. CASE mixer.state = "WAIT"
  <2> DEFINE next == IF rec THEN "FETCH" ELSE "WAIT"
  <2>1. Mix = [mixer EXCEPT !.addr = 0, !.buf = mixer.addr, !.wraddr = mixer.buf, !.state = next]
    BY <1>5 DEF Mix
  <2>2. next \in {"WAIT", "FETCH"}
    OBVIOUS
  <2> HIDE DEF next
  <2>3. mixer' = [state |-> next, addr |-> 0, buf |-> mixer.addr, wraddr |-> mixer.buf]
    BY <1>3, <1>4, <2>1
  <2>4. mixer' \in [state : {"WAIT", "FETCH"}, addr : Column, buf : Column, wraddr : Column]
    BY <1>3, <2>2, <2>3
  <2>5. mixer'.state = next /\ mixer'.addr = 0 /\ mixer'.buf = mixer.addr /\ mixer'.wraddr = mixer.buf
    BY <2>3
  <2>6. mixer'.state = IF rec THEN "FETCH" ELSE "WAIT"
    BY <2>5 DEF next
  <2> QED BY <1>1, <1>5, <1>7, <2>4, <2>5, <2>6
<1>6. CASE mixer.state = "FETCH"
  <2> DEFINE next == IF mixer.wraddr = 319 THEN "WAIT" ELSE "FETCH"
             onward == IF mixer.addr = 319 THEN 319 ELSE mixer.addr + 1
  <2>1. Mix = [mixer EXCEPT !.addr = onward, !.buf = mixer.addr, !.wraddr = mixer.buf,
                            !.state = next]
    <3>1. mixer.state # "WAIT"
      BY <1>6
    <3>2. Mix = [mixer EXCEPT !.addr = IF mixer.addr = MAX_PIXEL_ADDR THEN mixer.addr ELSE mixer.addr + 1,
                              !.buf = mixer.addr, !.wraddr = mixer.buf,
                              !.state = IF RowFull THEN "WAIT" ELSE "FETCH"]
      BY <1>6, <3>1, Zenon DEF Mix
    <3>3. next = IF RowFull THEN "WAIT" ELSE "FETCH"
      BY DEF RowFull
    <3>4. onward = IF mixer.addr = MAX_PIXEL_ADDR THEN mixer.addr ELSE mixer.addr + 1
      OBVIOUS
    <3> HIDE DEF next, onward
    <3> QED BY <3>2, <3>3, <3>4, Zenon
  <2>2. next \in {"WAIT", "FETCH"} /\ onward \in 0 .. 319
    BY <1>3
  <2> HIDE DEF next, onward
  <2>3. mixer' = [state |-> next, addr |-> onward, buf |-> mixer.addr, wraddr |-> mixer.buf]
    BY <1>3, <1>4, <2>1
  <2>4. mixer' \in [state : {"WAIT", "FETCH"}, addr : Column, buf : Column, wraddr : Column]
    BY <1>3, <2>2, <2>3
  <2>5. mixer.state # "WAIT"
    BY <1>6
  <2>6. mixer'.state = next /\ mixer'.addr = onward /\ mixer'.buf = mixer.addr /\ mixer'.wraddr = mixer.buf
    BY <2>3
  <2>7. mixer'.state = IF mixer.wraddr = 319 THEN "WAIT" ELSE "FETCH"
    BY <2>6 DEF next
  <2>8. mixer'.addr = IF mixer.addr = 319 THEN 319 ELSE mixer.addr + 1
    BY <2>6 DEF onward
  <2> QED BY <1>1, <1>7, <2>4, <2>5, <2>6, <2>7, <2>8
<1> QED BY <1>3, <1>5, <1>6

\* What is written is a pixel, and while the row that is prepared is also the
\* one the tile engines are asked for it is the one the mixer should choose.
LEMMA WrittenIs ==
  ASSUME RowTypeOK, TimeInv, MixerInv
  PROVE  /\ wrdata \in Pixel
         /\ NextRow = row => wrdata = Chosen(sprites, row, mixer.wraddr, mixer.buf)
<1>1. /\ mixer.wraddr \in Nat /\ mixer.buf \in Nat /\ tile.q = mixer.wraddr /\ col = mixer.buf
      /\ row \in Nat /\ NextRow \in Nat
  <2>1. row \in Nat /\ NextRow \in Nat
    BY NextRowIs, Lines DEF RowTypeOK
  <2> QED BY <2>1 DEF RowTypeOK, MixerInv, Column, MAX_PIXEL_ADDR
<1>2. TileRow \in Nat /\ (NextRow = row => TileRow = row)
  BY <1>1 DEF TileRow
<1> DEFINE src == FinalSource(BgOpaque(mixer.wraddr), FgOpaque(mixer.wraddr),
                              sprites /\ SprOpaque(mixer.buf), SprPrio(mixer.buf))
<1>3. wrdata = IF src = "spr" THEN Named("spr", row, mixer.buf)
               ELSE Named(src, TileRow, mixer.wraddr)
  BY <1>1 DEF wrdata
<1>4. Chosen(sprites, row, mixer.wraddr, mixer.buf)
        = IF src = "spr" THEN Named("spr", row, mixer.buf) ELSE Named(src, row, mixer.wraddr)
  BY DEF Chosen
<1>5. src \in {"none", "bg", "fg", "spr"}
  BY DEF FinalSource
<1> HIDE DEF src
<1>6. \A s \in {"none", "bg", "fg", "spr"}, r \in Nat, c \in Nat : Named(s, r, c) \in Pixel
  BY DEF Named, NoPixel, Pixel
<1> QED BY <1>1, <1>2, <1>3, <1>4, <1>5, <1>6

\* The row RAMs while they are not swapped.
LEMMA RamsStay ==
  ASSUME RowTypeOK, TimeInv, Next, ~(disp /\ Moment)
  PROVE  /\ Read' = Read
         /\ mixer.state = "WAIT" => Written' = Written
         /\ mixer.state = "FETCH" => Written' = [Written EXCEPT ![mixer.wraddr] = wrdata]
         /\ Written \in [Column -> Pixel]
<1>1. swapped' = swapped /\ swapped \in BOOLEAN
  BY SwapMoment DEF TimeInv
<1>2. /\ ReadRam \in {1, 2} /\ WrittenRam \in {1, 2} /\ ReadRam # WrittenRam
      /\ ReadRam' = ReadRam /\ WrittenRam' = WrittenRam
  BY <1>1 DEF ReadRam, WrittenRam
<1>3. PpuClock
  BY DEF Next
<1>4. /\ rr'[ReadRam].cells = rr[ReadRam].cells
      /\ rr'[WrittenRam].cells = IF mixer.state = "FETCH"
                                 THEN [rr[WrittenRam].cells EXCEPT ![mixer.wraddr] = wrdata]
                                 ELSE rr[WrittenRam].cells
  BY <1>2, <1>3, MemoriesAre
<1>5. Written \in [Column -> Pixel]
  BY <1>2 DEF Written, RowTypeOK
<1> QED BY <1>2, <1>4, <1>5 DEF Read, Written

\* The mixer is done long before the next swap.
LEMMA DoneInTime ==
  ASSUME RowTypeOK, Since \in Nat, Busy
  PROVE  Since <= 2827
<1>1. EngineTime \in Nat /\ EngineTime >= 1 /\ EngineTime <= 2500
  BY EngineTimeIs
<1>2. mixer.wraddr \in 0 .. 319
  BY DEF RowTypeOK, Column, MAX_PIXEL_ADDR
<1> QED BY <1>1, <1>2 DEF Busy, Preparing, Recorded, Filling, Settling

\* The mixer goes through its stages and fills its row RAM with the row.
LEMMA BusyStep ==
  ASSUME RowTypeOK, TimeInv, MixerInv, Next, Busy, InPicture
  PROVE  Busy' \/ (Idle' /\ Filled(Written, row)')
<1> USE DEF MAX_PIXEL_ADDR
<1>1. EngineTime \in Nat /\ EngineTime >= 1 /\ EngineTime <= 2500
  BY EngineTimeIs
<1>2. Since \in Nat /\ Since < 2922 /\ ~Moment
  BY Elapses, DoneInTime
<1>3. Since' = Since + 1
  BY <1>2, Elapses
<1>4. sprites' = sprites /\ NextRow = row
  <2>1. NextRow = RowAt(Line)
    BY <1>2, NextRowIs
  <2> QED BY <2>1 DEF MixerInv, Next
<1>5. wrdata = Chosen(sprites, row, mixer.wraddr, mixer.buf)
  BY <1>4, WrittenIs
<1>6. ~(prep /\ engine = 0)
  <2>1. prep => ignore_swap
    BY <1>2, SwapMoment DEF Moment
  <2> QED BY <1>1, <2>1 DEF MixerInv
<1>7. engine' = (IF engine = 0 THEN 0 ELSE engine - 1) /\ row' = row
  BY <1>6, MixIs
<1>8. /\ rec' \in BOOLEAN /\ rec \in BOOLEAN
      /\ rec' <=> mixer.state = "WAIT" /\ (rec \/ engine = 1)
  BY MixIs DEF RowTypeOK
<1>9. /\ mixer'.state = IF mixer.state = "WAIT" THEN (IF rec THEN "FETCH" ELSE "WAIT")
                        ELSE IF mixer.wraddr = 319 THEN "WAIT" ELSE "FETCH"
      /\ mixer'.addr = IF mixer.state = "WAIT" THEN 0
                       ELSE IF mixer.addr = 319 THEN 319 ELSE mixer.addr + 1
      /\ mixer'.buf = mixer.addr /\ mixer'.wraddr = mixer.buf
  BY MixIs
<1>10. /\ mixer.state = "WAIT" => Written' = Written
       /\ mixer.state = "FETCH" => Written' = [Written EXCEPT ![mixer.wraddr] = wrdata]
       /\ Written \in [Column -> Pixel]
  BY <1>2, RamsStay
<1>11. ASSUME Preparing PROVE Busy'
  <2>1. /\ engine \in 1 .. EngineTime /\ ~rec /\ mixer.state = "WAIT" /\ Mixed(0, 0, 0)
        /\ Since + engine <= EngineTime + 1
    BY <1>11 DEF Preparing
  <2>2. Mixed(0, 0, 0)' /\ mixer'.state = "WAIT"
    BY <1>9, <2>1 DEF Mixed
  <2>3. CASE engine = 1
    <3>1. rec'
      BY <1>8, <2>1, <2>3
    <3>2. engine' = 0 /\ Since' <= EngineTime + 2
      BY <1>1, <1>2, <1>3, <1>7, <2>1, <2>3
    <3> QED BY <2>2, <3>1, <3>2 DEF Busy, Recorded
  <2>4. CASE engine # 1
    <3>1. ~rec'
      BY <1>8, <2>1, <2>4
    <3>2. engine' \in 1 .. EngineTime /\ Since' + engine' <= EngineTime + 1
      BY <1>1, <1>2, <1>3, <1>7, <2>1, <2>4
    <3> QED BY <2>2, <3>1, <3>2 DEF Busy, Preparing
  <2> QED BY <2>3, <2>4
<1>12. ASSUME Recorded PROVE Busy'
  <2>1. engine = 0 /\ rec /\ mixer.state = "WAIT" /\ Mixed(0, 0, 0) /\ Since <= EngineTime + 2
    BY <1>12 DEF Recorded
  <2>2. Mixed(0, 0, 0)' /\ mixer'.state = "FETCH"
    BY <1>9, <2>1 DEF Mixed
  <2>3. engine' = 0 /\ Since' <= EngineTime + 3
    BY <1>1, <1>2, <1>3, <1>7, <2>1
  <2> QED BY <2>2, <2>3 DEF Busy, Filling
<1>13. ASSUME Filling PROVE Busy'
  <2>1. engine = 0 /\ mixer.state = "FETCH"
    BY <1>13 DEF Filling
  <2>2. engine' = 0 /\ ~rec'
    <3>1. engine' = 0
      BY <1>7, <2>1
    <3>2. mixer.state # "WAIT"
      BY <2>1
    <3> QED BY <1>8, <3>1, <3>2
  <2>3. /\ mixer'.state = IF mixer.wraddr = 319 THEN "WAIT" ELSE "FETCH"
        /\ mixer'.addr = IF mixer.addr = 319 THEN 319 ELSE mixer.addr + 1
        /\ mixer'.buf = mixer.addr /\ mixer'.wraddr = mixer.buf
    <3>1. mixer.state # "WAIT"
      BY <2>1
    <3> QED BY <1>9, <3>1
  <2>4. Written' = [Written EXCEPT ![mixer.wraddr] = wrdata]
    BY <1>10, <2>1
  <2>5. CASE Mixed(0, 0, 0) /\ Since <= EngineTime + 3
    <3>1. Mixed(1, 0, 0)' /\ mixer'.state = "FETCH"
      BY <2>3, <2>5 DEF Mixed
    <3>2. Since' <= EngineTime + 4
      BY <1>1, <1>2, <1>3, <2>5
    <3> QED BY <2>2, <3>1, <3>2 DEF Busy, Filling
  <2>6. CASE Mixed(1, 0, 0) /\ ~rec /\ Since <= EngineTime + 4
    <3>1. Mixed(2, 1, 0)' /\ mixer'.state = "FETCH"
      BY <2>3, <2>6 DEF Mixed
    <3>2. Since' <= EngineTime + 5
      BY <1>1, <1>2, <1>3, <2>6
    <3>3. /\ mixer'.wraddr \in Column
          /\ mixer'.buf = SpriteColumn(mixer'.wraddr)
          /\ mixer'.addr = SpriteColumn(mixer'.buf)
          /\ Since' <= EngineTime + 5 + mixer'.wraddr
          /\ \A c \in Column : ~(c < mixer'.wraddr)
      BY <1>1, <3>1, <3>2 DEF Mixed, SpriteColumn, Column
    <3> QED BY <2>2, <3>1, <3>3 DEF Busy, Filling
  <2>7. CASE /\ mixer.wraddr \in Column /\ ~rec
             /\ mixer.buf = SpriteColumn(mixer.wraddr)
             /\ mixer.addr = SpriteColumn(mixer.buf)
             /\ Since <= EngineTime + 5 + mixer.wraddr
             /\ \A c \in Column : c < mixer.wraddr => Written[c] = Right(sprites, row, c)
    <3>1. wrdata = Right(sprites, row, mixer.wraddr)
      BY <1>5, <2>7 DEF Right
    <3>2. \A c \in Column : c <= mixer.wraddr => Written'[c] = Right(sprites, row, c)
      <4> SUFFICES ASSUME NEW c \in Column, c <= mixer.wraddr
                   PROVE  Written'[c] = Right(sprites, row, c)
        OBVIOUS
      <4>1. c = mixer.wraddr \/ c < mixer.wraddr
        <5>1. c \in Int /\ mixer.wraddr \in Int
          BY <2>7 DEF Column, MAX_PIXEL_ADDR
        <5> QED BY <5>1
      <4>2. CASE c = mixer.wraddr
        BY <1>10, <2>4, <2>7, <3>1, <4>2
      <4>3. CASE c # mixer.wraddr /\ c < mixer.wraddr
        <5>1. Written'[c] = Written[c]
          BY <1>10, <2>4, <4>3
        <5> QED BY <2>7, <4>3, <5>1
      <4> QED BY <4>1, <4>2, <4>3
    <3>3. CASE mixer.wraddr = 319
      <4>1. Mixed(319, 319, 319)' /\ mixer'.state = "WAIT"
        BY <2>3, <2>7, <3>3 DEF Mixed, SpriteColumn
      <4>2. Since' <= EngineTime + 325
        BY <1>1, <1>2, <1>3, <2>7, <3>3
      <4>3. Filled(Written, row)'
        <5>1. \A c \in Column : Written'[c] = Right(sprites, row, c)
          BY <3>2, <3>3 DEF Column
        <5> QED BY <1>4, <1>7, <5>1 DEF Filled
      <4> QED BY <2>2, <4>1, <4>2, <4>3 DEF Busy, Settling
    <3>4. CASE mixer.wraddr # 319
      <4>1. /\ mixer.wraddr \in 0 .. 318 /\ mixer.buf = mixer.wraddr + 1
            /\ mixer.addr = IF mixer.buf = 319 THEN 319 ELSE mixer.buf + 1
        BY <2>7, <3>4 DEF SpriteColumn, Column
      <4>2. /\ mixer'.state = "FETCH" /\ mixer'.wraddr = mixer.wraddr + 1
            /\ mixer'.buf = mixer.addr
            /\ mixer'.addr = IF mixer.addr = 319 THEN 319 ELSE mixer.addr + 1
        BY <2>3, <3>4, <4>1
      <4>3. /\ mixer'.wraddr \in Column
            /\ mixer'.buf = SpriteColumn(mixer'.wraddr)
            /\ mixer'.addr = SpriteColumn(mixer'.buf)
        BY <4>1, <4>2 DEF SpriteColumn, Column
      <4>4. Since' <= EngineTime + 5 + mixer'.wraddr
        BY <1>1, <1>2, <1>3, <2>7, <4>1, <4>2
      <4>5. \A c \in Column : c < mixer'.wraddr => Written'[c] = Right(sprites', row', c)
        <5>1. \A c \in Column : c < mixer.wraddr + 1 => c <= mixer.wraddr
          BY <4>1 DEF Column
        <5> QED BY <1>4, <1>7, <3>2, <4>2, <5>1
      <4> QED BY <2>2, <4>2, <4>3, <4>4, <4>5 DEF Busy, Filling
    <3> QED BY <3>3, <3>4
  <2> QED BY <1>13, <2>5, <2>6, <2>7 DEF Filling
<1>14. ASSUME Settling PROVE Busy' \/ (Idle' /\ Filled(Written, row)')
  <2>1. /\ engine = 0 /\ ~rec /\ mixer.state = "WAIT" /\ Filled(Written, row)
        /\ \/ Mixed(319, 319, 319) /\ Since <= EngineTime + 325
           \/ Mixed(0, 319, 319) /\ Since <= EngineTime + 326
           \/ Mixed(0, 0, 319) /\ Since <= EngineTime + 327
    BY <1>14 DEF Settling
  <2>2. engine' = 0 /\ ~rec' /\ mixer'.state = "WAIT"
    <3>1. engine' = 0
      BY <1>7, <2>1
    <3>2. ~rec'
      <4>1. engine # 1
        BY <2>1
      <4> QED BY <1>8, <2>1, <4>1
    <3> QED BY <1>9, <2>1, <3>1, <3>2
  <2>3. Filled(Written, row)'
    BY <1>4, <1>7, <1>10, <2>1 DEF Filled
  <2>4. mixer'.addr = 0 /\ mixer'.buf = mixer.addr /\ mixer'.wraddr = mixer.buf
    BY <1>9, <2>1
  <2>5. CASE Mixed(319, 319, 319) /\ Since <= EngineTime + 325
    <3>1. Mixed(0, 319, 319)' /\ Since' <= EngineTime + 326
      BY <1>1, <1>2, <1>3, <2>4, <2>5 DEF Mixed
    <3> QED BY <2>2, <2>3, <3>1 DEF Busy, Settling
  <2>6. CASE Mixed(0, 319, 319) /\ Since <= EngineTime + 326
    <3>1. Mixed(0, 0, 319)' /\ Since' <= EngineTime + 327
      BY <1>1, <1>2, <1>3, <2>4, <2>6 DEF Mixed
    <3> QED BY <2>2, <2>3, <3>1 DEF Busy, Settling
  <2>7. CASE Mixed(0, 0, 319)
    <3>1. Mixed(0, 0, 0)'
      BY <2>4, <2>7 DEF Mixed
    <3> QED BY <2>2, <2>3, <3>1 DEF Idle
  <2> QED BY <2>1, <2>5, <2>6, <2>7
<1> QED BY <1>11, <1>12, <1>13, <1>14 DEF Busy

\* At the moment of a swap the mixer has long been done.
LEMMA IdleAtMoment ==
  ASSUME RowTypeOK, TimeInv, MixerInv, Next, Moment
  PROVE  Idle
<1>1. Since \in Nat /\ Since = 3200
  BY Elapses
<1>2. ~Busy
  BY <1>1, DoneInTime
<1> QED BY <1>2 DEF MixerInv

\* The swap itself: the filled row is shown and the engines start on the next.
LEMMA MixerAtSwap ==
  ASSUME RowTypeOK, TimeInv, MixerInv, Next, disp, Moment
  PROVE  /\ InPicture' /\ Preparing' /\ engine' = EngineTime
         /\ row' = RowAt(Line)'
         /\ Line' >= v_start => Filled(Read, (Line - v_start) \div 2)'
<1>1. Idle
  BY IdleAtMoment
<1>2. Since' = 1 /\ Line = v - 2 /\ Line' = v /\ InPicture'
  BY Elapses
<1>3. v >= v_start - 2 /\ v <= v_start + v_visible - 2 /\ v \in Nat /\ v % 2 = 1
  BY Elapses, Lines DEF TimeInv, Moment
<1>4. prep
  BY SwapMoment DEF Moment
<1>5. engine' = EngineTime /\ row' = NextRow
  BY <1>1, <1>4, MixIs DEF Idle
<1>6. row' = RowAt(Line')
  BY <1>2, <1>3, <1>5, NextRowIs
<1>7. Preparing'
  <2>1. EngineTime \in Nat /\ EngineTime >= 1 /\ EngineTime <= 2500
    BY EngineTimeIs
  <2>2. ~rec'
    <3>1. rec' \in BOOLEAN /\ (rec' <=> mixer.state = "WAIT" /\ (rec \/ engine = 1))
      BY MixIs
    <3>2. ~rec /\ engine # 1
      BY <1>1 DEF Idle
    <3> QED BY <3>1, <3>2
  <2>3. mixer'.state = "WAIT" /\ Mixed(0, 0, 0)'
    <3>1. ~rec /\ mixer.state = "WAIT" /\ Mixed(0, 0, 0)
      BY <1>1 DEF Idle
    <3> QED BY <3>1, MixIs DEF Mixed
  <2>4. engine' \in 1 .. EngineTime /\ Since' + engine' <= EngineTime + 1
    BY <1>2, <1>5, <2>1
  <2> QED BY <2>2, <2>3, <2>4 DEF Preparing
<1>8. ASSUME v >= v_start
      PROVE  Filled(Read, (Line - v_start) \div 2)'
  <2>1. v_start \in Nat /\ v_start % 2 = 1 /\ v_visible \in Nat
    BY Lines
  <2>2. InPicture
    BY <1>2, <1>3, <1>8, <2>1 DEF InPicture
  <2>3. Filled(Written, row) /\ row = RowAt(Line)
    BY <1>1, <2>2 DEF MixerInv
  <2>4. row = (Line' - v_start) \div 2
    BY <1>2, <1>3, <1>8, <2>1, <2>3 DEF RowAt
  <2>5. Read' = Written
    <3>1. swapped' = ~swapped /\ swapped \in BOOLEAN
      BY SwapMoment DEF TimeInv
    <3>2. ReadRam' = WrittenRam /\ WrittenRam \in {1, 2}
      BY <3>1 DEF ReadRam, WrittenRam
    <3>3. mixer.state # "FETCH"
      BY <1>1 DEF Idle
    <3>4. PpuClock
      BY DEF Next
    <3>5. rr'[WrittenRam].cells = rr[WrittenRam].cells
      BY <3>2, <3>3, <3>4, MemoriesAre
    <3> QED BY <3>2, <3>5 DEF Read, Written
  <2>6. sprites' = sprites
    BY DEF Next
  <2> QED BY <2>3, <2>4, <2>5, <2>6 DEF Filled
<1> QED BY <1>2, <1>5, <1>6, <1>7, <1>8

\* Row RAMs and mixer at a clock: a swap, a stage of the mixer, or rest.
LEMMA MixerStep ==
  ASSUME RowTypeOK, TimeInv, MixerInv, Next
  PROVE  MixerInv'
<1>1. tile' = [mid |-> mixer'.buf, q |-> mixer'.wraddr] /\ col' = mixer'.buf
  <2>1. tile' = [mid |-> mixer.addr, q |-> tile.mid] /\ col' = mixer.addr
    BY MemoriesAre DEF Next
  <2>2. tile.mid = mixer.buf
    BY DEF MixerInv
  <2>3. mixer'.buf = mixer.addr /\ mixer'.wraddr = mixer.buf
    BY MixIs
  <2> QED BY <2>1, <2>2, <2>3
<1>2. CASE disp /\ Moment
  <2>1. /\ InPicture' /\ Preparing' /\ engine' = EngineTime
        /\ row' = RowAt(Line)'
        /\ Line' >= v_start => Filled(Read, (Line - v_start) \div 2)'
    BY <1>2, MixerAtSwap
  <2>2. EngineTime # 0
    BY RowScanAssumption DEF RowScanAssumption
  <2>3. ~Idle'
    BY <2>1, <2>2 DEF Idle
  <2> QED BY <1>1, <2>1, <2>3 DEF MixerInv, Busy
<1>3. CASE ~(disp /\ Moment)
  <2>1. ~ignore_swap'
    <3>1. ignore_swap' = IF prep THEN ~ignore_swap ELSE ignore_swap
      BY DEF Next, PpuClock
    <3>2. ignore_swap => prep
      BY SwapMoment
    <3>3. prep => ignore_swap
      <4>1. edge \in BOOLEAN
        BY DEF TimeInv
      <4> QED BY <1>3, <4>1, SwapMoment DEF Moment
    <3> QED BY <3>1, <3>2, <3>3
  <2>2. CASE Busy /\ InPicture
    <3>1. Busy' \/ (Idle' /\ Filled(Written, row)')
      BY <2>2, BusyStep
    <3>2. ~Moment
      <4>1. Since \in Nat /\ Since <= 2827
        BY <2>2, Elapses, DoneInTime
      <4> QED BY <4>1, Elapses
    <3>3. InPicture' /\ Line' = Line
      BY <2>2, <3>2, Elapses
    <3>4. Read' = Read /\ sprites' = sprites
      BY <1>3, RamsStay DEF Next
    <3>5. row' = row
      <4>1. ~(prep /\ engine = 0)
        <5>1. EngineTime # 0
          BY RowScanAssumption DEF RowScanAssumption
        <5>2. prep => ignore_swap
          <6>1. edge \in BOOLEAN
            BY DEF TimeInv
          <6> QED BY <3>2, <6>1, SwapMoment DEF Moment
        <5> QED BY <5>1, <5>2 DEF MixerInv
      <4> QED BY <4>1, MixIs
    <3>6. /\ row = RowAt(Line)
          /\ Line >= v_start => Filled(Read, (Line - v_start) \div 2)
      BY <2>2 DEF MixerInv
    <3>7. /\ row' = RowAt(Line)'
          /\ (Line >= v_start)' => Filled(Read, (Line - v_start) \div 2)'
      BY <3>3, <3>4, <3>5, <3>6 DEF Filled, RowAt, v_start
    <3>8. ~(Idle' /\ Busy')
      <4>1. EngineTime \in Nat /\ EngineTime >= 1 /\ EngineTime <= 2500
        BY EngineTimeIs
      <4> QED BY <4>1 DEF Idle, Busy, Preparing, Recorded, Filling, Settling, Mixed
    <3>9. Idle' => Filled(Written, row)'
      BY <3>1, <3>8
    <3> QED BY <1>1, <2>1, <3>1, <3>3, <3>7, <3>9 DEF MixerInv
  <2>3. CASE Idle
    <3>1. ~prep
      <4>1. edge \in BOOLEAN /\ EngineTime # 0
        BY RowScanAssumption DEF TimeInv, RowScanAssumption
      <4>2. prep => ignore_swap
        BY <1>3, <4>1, SwapMoment DEF Moment
      <4> QED BY <2>3, <4>1, <4>2 DEF Idle, MixerInv
    <3>2. engine' = 0 /\ row' = row
      BY <2>3, <3>1, MixIs DEF Idle
    <3>3. ~rec'
      <4>1. rec' \in BOOLEAN /\ (rec' <=> mixer.state = "WAIT" /\ (rec \/ engine = 1))
        BY MixIs
      <4>2. ~rec /\ engine # 1
        BY <2>3 DEF Idle
      <4> QED BY <4>1, <4>2
    <3>4. mixer'.state = "WAIT" /\ Mixed(0, 0, 0)'
      <4>1. ~rec /\ mixer.state = "WAIT" /\ Mixed(0, 0, 0)
        BY <2>3 DEF Idle
      <4> QED BY <4>1, MixIs DEF Mixed
    <3>5. Idle'
      BY <3>2, <3>3, <3>4 DEF Idle
    <3>6. Read' = Read /\ Written' = Written /\ sprites' = sprites
      BY <1>3, <2>3, RamsStay DEF Next, Idle
    <3>7. ASSUME InPicture'
          PROVE  /\ row' = RowAt(Line)'
                 /\ (Line >= v_start)' => Filled(Read, (Line - v_start) \div 2)'
                 /\ Filled(Written, row)'
      <4>1. ~Moment
        BY <1>3, <3>7, Elapses
      <4>2. InPicture /\ Line' = Line
        BY <3>7, <4>1, Elapses
      <4>3. /\ row = RowAt(Line) /\ Filled(Written, row)
            /\ Line >= v_start => Filled(Read, (Line - v_start) \div 2)
        BY <2>3, <4>2 DEF MixerInv
      <4> QED BY <3>2, <3>6, <4>2, <4>3 DEF Filled, RowAt, v_start
    <3> QED BY <1>1, <2>1, <3>5, <3>7 DEF MixerInv
  <2> QED BY <2>2, <2>3 DEF MixerInv
<1> QED BY <1>2, <1>3

\* Only pixels are stored, in registers and in the row RAMs.
LEMMA TypeStep ==
  ASSUME RowTypeOK, TimeInv, MixerInv, Next
  PROVE  RowTypeOK'
<1>1. wrdata \in Pixel
  BY WrittenIs
<1>2. PpuClock /\ sprites' = sprites
  BY DEF Next
<1>3. /\ palram' \in [mid : Pixel, q : Pixel]
      /\ rr' \in [{1, 2} -> [cells : [Column -> Pixel], port : [mid : Pixel, q : Pixel]]]
  BY <1>1, <1>2, MemoriesAre
<1>4. /\ rec' \in BOOLEAN
      /\ mixer' \in [state : {"WAIT", "FETCH"}, addr : Column, buf : Column, wraddr : Column]
      /\ row' = NextRow \/ row' = row
  BY MixIs
<1>5. row' \in 0 .. (v_visible \div 2) - 1
  BY <1>4, NextRowIs DEF RowTypeOK
<1>6. hdmi' \in [state : HdmiStates, toggle : BOOLEAN, rdaddr : Column,
                 color : Pixel, rgb : Pixel]
  <2>1. CASE ~edge
    <3>1. hdmi' = hdmi
      BY <2>1, TimePasses
    <3> QED BY <3>1 DEF RowTypeOK
  <2>2. CASE edge
    <3>1. PixelClock
      BY <2>2, TimePasses
    <3>2. /\ hdmi'.state \in HdmiStates /\ hdmi'.toggle \in BOOLEAN
          /\ hdmi' = [state |-> hdmi'.state, toggle |-> hdmi'.toggle, rdaddr |-> hdmi'.rdaddr,
                      color |-> hdmi'.color, rgb |-> hdmi'.rgb]
      BY <3>1, ScanIs DEF HdmiStates
    <3>3. hdmi'.rdaddr \in Column
      BY TimeStep DEF TimeInv
    <3>4. hdmi'.color \in Pixel
      <4>1. hdmi'.color = rr[ReadRam].port.q
        BY <3>1, ScanIs DEF rowram_rddata, RowRam, ReadRam
      <4>2. ReadRam \in {1, 2}
        BY DEF ReadRam
      <4> QED BY <4>1, <4>2 DEF RowTypeOK
    <3>5. hdmi'.rgb \in Pixel
      <4>1. hdmi'.rgb = palram.q \/ hdmi'.rgb = Black
        BY <3>1, ScanIs DEF color_rddata
      <4>2. palram.q \in Pixel /\ Black \in Pixel
        BY DEF RowTypeOK, Black, Pixel
      <4> QED BY <4>1, <4>2
    <3> QED BY <3>2, <3>3, <3>4, <3>5
  <2>3. edge \in BOOLEAN
    BY DEF TimeInv
  <2> QED BY <2>1, <2>2, <2>3
<1> QED BY <1>2, <1>3, <1>4, <1>5, <1>6 DEF RowTypeOK

----------------------------------------------------------------------------
(* The theorems.                                                           *)

\* After reset the mixer is idle and the video output at the first line.
LEMMA RowInit ==
  Init => RowInv
<1> SUFFICES ASSUME Init PROVE RowInv
  OBVIOUS
<1>1. /\ v_start \in Nat /\ v_start >= 3 /\ v_total \in Nat /\ v_total >= 1
      /\ v_visible \in Nat /\ v_visible >= 2
  BY Lines
<1>2. NoPixel \in Pixel /\ Black \in Pixel
  BY DEF NoPixel, Black, Pixel
<1>3. RowTypeOK
  <2>1. /\ hdmi \in [state : HdmiStates, toggle : BOOLEAN, rdaddr : Column,
                     color : Pixel, rgb : Pixel]
        /\ mixer \in [state : {"WAIT", "FETCH"}, addr : Column, buf : Column, wraddr : Column]
    BY <1>2 DEF Init, HdmiStates, Column, MAX_PIXEL_ADDR
  <2>2. palram \in [mid : Pixel, q : Pixel]
    BY <1>2 DEF Init, Latency
  <2>3. rr \in [{1, 2} -> [cells : [Column -> Pixel], port : [mid : Pixel, q : Pixel]]]
    BY <1>2 DEF Init, Latency
  <2>4. sprites \in BOOLEAN /\ row = 0 /\ rec \in BOOLEAN
    BY DEF Init
  <2>5. 0 \in 0 .. (v_visible \div 2) - 1
    BY <1>1
  <2> QED BY <2>1, <2>2, <2>3, <2>4, <2>5 DEF RowTypeOK
<1>4. h = 0 /\ v = 0 /\ edge = FALSE /\ swapped = FALSE /\ disp = FALSE /\ ignore_swap = FALSE
  BY DEF Init
<1>5. hdmi.state = "IDLE" /\ hdmi.toggle = FALSE /\ hdmi.rdaddr = 0
  BY DEF Init
<1>6. TimeInv
  <2>1. h \in 0 .. h_total - 1 /\ v \in 0 .. v_total - 1 /\ hdmi.rdaddr \in Column
    BY <1>1, <1>4, <1>5 DEF h_total, Column, MAX_PIXEL_ADDR
  <2>2. ~(v > v_start - 2) /\ v # v_start - 2
    BY <1>1, <1>4
  <2>3. h <= SwapPoint
    BY <1>4 DEF SwapPoint, h_sync, h_backporch
  <2>4. ignore_swap = (disp /\ v % 2 = 1 /\ h = SwapPoint + 1 /\ edge)
    BY <1>4
  <2>5. hdmi.toggle = (hdmi.state = "DISPLAY" /\ h % 2 = 1)
    BY <1>5
  <2>6. hdmi.state # "DISPLAY"
    BY <1>5
  <2> QED BY <1>4, <1>5, <2>1, <2>2, <2>3, <2>4, <2>5, <2>6 DEF TimeInv
<1>7. DisplayInv
  BY <1>5 DEF DisplayInv
<1>8. MixerInv
  <2>1. Idle
    BY DEF Init, Idle, Mixed
  <2>2. tile = [mid |-> mixer.buf, q |-> mixer.wraddr] /\ col = mixer.buf
    BY DEF Init, Latency
  <2>3. ~InPicture
    <3>1. Line = 0 - 1
      BY <1>4 DEF Line
    <3> QED BY <1>1, <3>1 DEF InPicture
  <2> QED BY <1>4, <2>1, <2>2, <2>3 DEF MixerInv
<1> QED BY <1>3, <1>6, <1>7, <1>8 DEF RowInv

\* A clock keeps the invariant.
LEMMA RowStep ==
  RowInv /\ [Next]_vars => RowInv'
<1>1. CASE RowInv /\ Next
  <2>1. RowTypeOK /\ TimeInv /\ DisplayInv /\ MixerInv /\ Next
    BY <1>1 DEF RowInv
  <2>2. RowTypeOK' /\ TimeInv' /\ DisplayInv' /\ MixerInv'
    BY <2>1, TypeStep, TimeStep, DisplayStep, MixerStep
  <2> QED BY <2>2 DEF RowInv
<1>2. CASE RowInv /\ UNCHANGED vars
  <2> USE <1>2 DEF RowInv, vars
  <2>1. RowTypeOK'
    BY DEF RowTypeOK
  <2>2. TimeInv'
    BY DEF TimeInv
  <2>3. DisplayInv'
    BY DEF DisplayInv, ReadRam, Read
  <2>4. MixerInv'
    BY DEF MixerInv, Idle, Busy, Preparing, Recorded, Filling, Settling, Mixed, Filled,
           InPicture, Line, After, Since, RowAt, Read, Written, ReadRam, WrittenRam, v_start
  <2> QED BY <2>1, <2>2, <2>3, <2>4
<1> QED BY <1>1, <1>2

\* What the row RAMs, the pipeline and the mixer are about at every clock of
\* row_ram_swap.sv, pixel_mixer.sv and hdmi_video_output.sv.
THEOREM RowsAreRight == Spec => []RowInv
BY RowInit, RowStep, PTL DEF Spec

\* The counters and addresses of the video output and of the mixer stay in
\* their ranges, and the row that is prepared is one of the picture.
THEOREM RowTypeCorrect == Spec => []TypeOK
<1>1. RowInv => TypeOK
  <2> SUFFICES ASSUME RowInv PROVE TypeOK
    OBVIOUS
  <2>1. /\ h \in 0 .. h_total - 1 /\ v \in 0 .. v_total - 1 /\ hdmi.rdaddr \in Column
        /\ mixer.addr \in Column /\ mixer.wraddr \in Column /\ row \in 0 .. (v_visible \div 2) - 1
    BY DEF RowInv, RowTypeOK, TimeInv
  <2>2. EngineTime \in Nat /\ EngineTime >= 1 /\ EngineTime <= 2500
    BY EngineTimeIs
  <2>3. engine \in 0 .. EngineTime
    <3>1. Idle \/ Busy
      BY DEF RowInv, MixerInv
    <3>2. engine = 0 \/ engine \in 1 .. EngineTime
      BY <3>1 DEF Idle, Busy, Preparing, Recorded, Filling, Settling
    <3> QED BY <2>2, <3>2
  <2> QED BY <2>1, <2>3 DEF TypeOK
<1> QED BY <1>1, RowsAreRight, PTL

\* In the visible part of a line the screen shows the pixel that the mixer
\* should have chosen for that row and column.
LEMMA ShownIs ==
  ASSUME RowInv, vga_de
  PROVE  /\ hdmi.rgb = Chosen(sprites, ShownRow, ShownColumn, SpriteColumn(ShownColumn))
         /\ ShownColumn \in Column /\ SpriteColumn(ShownColumn) \in Column
<1>1. h \in 144 .. 783 /\ v >= v_start /\ v < v_start + v_visible /\ v \in Nat
  BY Lines DEF vga_de, RowInv, TimeInv, h_sync, h_backporch, h_visible, h_total
<1>2. /\ v_start \in Nat /\ v_start % 2 = 1 /\ v_visible \in Nat /\ v_visible % 2 = 0
  BY Lines
<1>3. hdmi.state = "DISPLAY"
  <2>1. 96 + 48 - 6 = 138 /\ 96 + 48 + 640 = 784 /\ 138 + 1 = 139
    OBVIOUS
  <2>2. hdmi.state = IF h <= 138 \/ h >= 784 THEN "IDLE"
                     ELSE IF h = 139 THEN "SWAP" ELSE "DISPLAY"
    BY <2>1 DEF RowInv, TimeInv, SwapPoint, h_sync, h_backporch, h_visible
  <2> QED BY <1>1, <2>2
<1>4. hdmi.rgb = Read[ReadAt(h - 4)]
  BY <1>1, <1>3 DEF RowInv, DisplayInv
<1>5. ShownColumn = (h - 144) \div 2 /\ ShownColumn \in 0 .. 319
  <2>1. 96 + 48 = 144
    OBVIOUS
  <2>2. ShownColumn = (h - 144) \div 2
    BY <2>1 DEF ShownColumn, h_sync, h_backporch
  <2> QED BY <1>1, <2>2
<1>6. ReadAt(h - 4) = ShownColumn
  <2>1. h - 4 <= 779 /\ h - 4 - 140 = h - 144
    BY <1>1
  <2>2. ReadAt(h - 4) = (h - 4 - 140) \div 2
    BY <2>1 DEF ReadAt
  <2> QED BY <1>5, <2>1, <2>2
<1>7. After
  BY <1>1 DEF After, SwapPoint, h_sync, h_backporch
<1>8. /\ Line >= v_start /\ Line <= v_start + v_visible - 2
      /\ (Line - v_start) \div 2 = ShownRow
  <2>1. CASE v % 2 = 0
    <3>1. Line = v - 1
      BY <2>1 DEF Line
    <3> QED BY <1>1, <1>2, <2>1, <3>1 DEF ShownRow
  <2>2. CASE v % 2 = 1
    <3>1. Line = v
      BY <1>7, <2>2 DEF Line
    <3> QED BY <1>1, <1>2, <2>2, <3>1 DEF ShownRow
  <2> QED BY <1>1, <2>1, <2>2
<1>9. InPicture
  <2>1. Line \in Int
    BY <1>1 DEF Line
  <2> QED BY <1>2, <1>8, <2>1 DEF InPicture
<1>10. Filled(Read, ShownRow)
  BY <1>8, <1>9 DEF RowInv, MixerInv
<1>11. ShownColumn \in Column /\ SpriteColumn(ShownColumn) \in Column
  BY <1>5 DEF SpriteColumn, Column, MAX_PIXEL_ADDR
<1> QED BY <1>4, <1>6, <1>10, <1>11 DEF Filled, Right

\* Every visible pixel of the tile layers shows the row and the column that
\* belong there, from the first frame on, however the lines are divided and
\* whatever the engines take of the time they have.
THEOREM PictureCorrect == Spec => []PictureIsRight
<1>1. RowInv => PictureIsRight
  <2> SUFFICES ASSUME RowInv, vga_de, ~sprites
               PROVE  hdmi.rgb = OnTop(ShownRow, ShownColumn, ShownColumn)
    BY DEF PictureIsRight
  <2> QED BY ShownIs, TopWithoutSprites
<1> QED BY <1>1, RowsAreRight, PTL

\* With sprites, the layers lie over each other in the order of the priorities
\* at every visible pixel.  The sprite pixel is that of the next column.
THEOREM LayersCorrect == Spec => []LayersInOrder
<1>1. RowInv => LayersInOrder
  <2> SUFFICES ASSUME RowInv, vga_de, sprites
               PROVE  \E sc \in Column \cap (ShownColumn - 1 .. ShownColumn + 1) :
                        hdmi.rgb = OnTop(ShownRow, ShownColumn, sc)
    BY DEF LayersInOrder
  <2>1. hdmi.rgb = OnTop(ShownRow, ShownColumn, SpriteColumn(ShownColumn))
    BY ShownIs, TopIsChosen
  <2>2. SpriteColumn(ShownColumn) \in Column /\ ShownColumn \in 0 .. MAX_PIXEL_ADDR
    BY ShownIs DEF Column
  <2>3. SpriteColumn(ShownColumn) \in ShownColumn - 1 .. ShownColumn + 1
    BY <2>2 DEF SpriteColumn, MAX_PIXEL_ADDR
  <2> QED BY <2>1, <2>2, <2>3
<1> QED BY <1>1, RowsAreRight, PTL

\* The row RAMs are only swapped when the engines and the mixer are done with
\* the row: row_ram_swap.sv asks neither.
THEOREM SwapsAreSafe == Spec => SwapFindsRowDone
<1>1. RowInv /\ [Next]_vars =>
        [swapped' # swapped => engine = 0 /\ ~rec /\ mixer.state = "WAIT"]_vars
  <2> SUFFICES ASSUME RowInv, Next, swapped' # swapped
               PROVE  engine = 0 /\ ~rec /\ mixer.state = "WAIT"
    OBVIOUS
  <2>1. RowTypeOK /\ TimeInv /\ MixerInv
    BY DEF RowInv
  <2>2. Moment
    BY <2>1, SwapMoment
  <2> QED BY <2>1, <2>2, IdleAtMoment DEF Idle
<1> QED BY <1>1, RowsAreRight, PTL DEF Spec, SwapFindsRowDone
==============================================================================
