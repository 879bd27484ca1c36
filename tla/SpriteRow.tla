------------------------------- MODULE SpriteRow -------------------------------
(***************************************************************************)
(* The sprite engine preparing a row: oam_scanner reads the sprites of OAM *)
(* in turn and offers those on the row to sprite_manager, which fetches    *)
(* their patterns and sends them down the chain of sprite units, the first *)
(* one to the far end.  sprite_tournament picks the pixel of a column.     *)
(*                                                                         *)
(* A step is one clock.  A word of Pattern-RAM is named by its address,    *)
(* <<<<tile_y, tile_x>>, pair of rows>>, and a chunk of eight pixels by    *)
(* tile and row.                                                           *)
(***************************************************************************)
EXTENDS SyncWriter, FiniteSets

CONSTANTS MAX_SPRITES, MAX_SPRITES_PER_LINE,
          Confs,         \* sprites that OAM may hold
          Opaque(_, _)   \* whether a pixel of a chunk has a colour

VARIABLES clear,     \* input: a row begins
          next_row,  \* input: which one
          patPort,   \* input: read port of Pattern-RAM
          oam,       \* the sprites
          row,       \* the row to prepare
          scanner,   \* state and oam_addr
          avail,     \* oam_read one and two clocks ago
          oamPort,   \* read port of Sprite-RAM
          manager,   \* state, sprite_conf, pat_buf and the counters
          patPipe,   \* pattern_read and the half of the word, one and two clocks ago
          unit,      \* the sprite units
          age        \* clocks since the row began; 0 before the first one

Id == 0 .. MAX_SPRITES - 1
Unit == 0 .. MAX_SPRITES_PER_LINE - 1

NoConf == CHOOSE c \in Confs : TRUE
NoChunk == <<<<0, 0>>, 0>>

\* The clocks that a row may take; age is not counted beyond them.
TimeAllowed == 4 + 3 * MAX_SPRITES + 9 * MAX_SPRITES_PER_LINE

Init ==
  /\ row = 0
  /\ scanner = [state |-> "INIT", oam_addr |-> 0]
  /\ avail = <<FALSE, FALSE>> /\ oamPort = Latency(NoConf)
  /\ manager = [state |-> "CONF_READ", conf |-> NoConf, pat |-> [k \in 0 .. 3 |-> NoChunk],
                req |-> 0, ack |-> 0, count |-> 0]
  /\ patPipe = <<[read |-> FALSE, sel |-> 0], [read |-> FALSE, sel |-> 0]>>
  /\ unit = [u \in Unit |-> [valid |-> FALSE, conf |-> NoConf, pat |-> [k \in 0 .. 3 |-> NoChunk]]]
  /\ age = 0

----------------------------------------------------------------------------
\* oam_scanner.
h_limit(conf) == (conf.y + 8 * (conf.h + 1)) % 512

in_range(conf) == conf.y <= row /\ row < h_limit(conf)

more_conf == scanner.oam_addr < MAX_SPRITES

conf_exists == scanner.state = "MEM_REQ" \/ more_conf

MayRead == manager.count < MAX_SPRITES_PER_LINE

conf_req == manager.state = "CONF_READ" /\ conf_exists /\ MayRead

oam_read == scanner.state = "STANDBY" /\ conf_req /\ conf_exists

conf_ack == scanner.state = "MEM_REQ" /\ avail[2] /\ in_range(oamPort.q)

NextScanner ==
  [oam_addr |-> CASE clear -> 0
                  [] ~clear /\ oam_read -> scanner.oam_addr + 1
                  [] OTHER -> scanner.oam_addr,
   state |->
     CASE scanner.state = "INIT" -> IF clear THEN "STANDBY" ELSE "INIT"
       [] scanner.state = "STANDBY" -> IF oam_read /\ ~clear THEN "MEM_REQ" ELSE "STANDBY"
       [] scanner.state = "MEM_REQ" ->
            IF avail[2] \/ clear
            THEN IF more_conf THEN "STANDBY" ELSE "INIT" ELSE "MEM_REQ"]

\* sprite_addr_gen: the chunk of a sprite on the row.
ChunkAddr(conf, index) ==
  LET row_offset == (row - conf.y) % 32
      row_index == IF conf.y_mirror THEN 8 * (conf.h + 1) - 1 - row_offset ELSE row_offset
  IN <<<<(conf.tile[1] + (row_index \div 8)) % 32, (conf.tile[2] + index) % 32>>, row_index % 8>>

\* pattern_wrapper: the word of a chunk, and the chunk in a word.
addr == ChunkAddr(manager.conf, manager.req % 4)
patram_addr == <<addr[1], addr[2] \div 2>>
pattern_avail == patPipe[2].read
pattern_data == <<patPort.q[1], 2 * patPort.q[2] + patPipe[2].sel>>

\* sprite_manager.
pattern_read == manager.state = "PAT_READ" /\ manager.req <= manager.conf.w

AllReadFour == manager.ack > 3

AllRead == manager.ack > manager.conf.w

\* A unit takes what the one to its right, or the manager, has to give.
in_valid(u) ==
  IF u = MAX_SPRITES_PER_LINE - 1 THEN manager.state = "SEND_SPRITE" ELSE unit[u + 1].valid
in_ack(u) == in_valid(u) /\ ~unit[u].valid /\ ~clear
sprite_ack == in_ack(MAX_SPRITES_PER_LINE - 1)

NextState ==
  IF clear THEN "CONF_READ"
  ELSE CASE manager.state = "CONF_READ" ->
              IF ~conf_req THEN "SIGNAL" ELSE IF conf_ack THEN "PAT_READ" ELSE "CONF_READ"
         [] manager.state = "PAT_READ" -> IF AllRead THEN "SEND_SPRITE" ELSE "PAT_READ"
         [] manager.state = "SEND_SPRITE" -> IF sprite_ack THEN "CONF_READ" ELSE "SEND_SPRITE"
         [] manager.state \in {"SIGNAL", "DONE"} -> "DONE"

NextManager ==
  LET counts == manager.state = "PAT_READ" /\ ~clear
  IN [state |-> NextState,
      conf |-> IF manager.state = "CONF_READ" /\ conf_req /\ conf_ack /\ ~clear
               THEN oamPort.q ELSE manager.conf,
      pat |-> IF manager.state = "PAT_READ" /\ pattern_avail
              THEN [manager.pat EXCEPT ![manager.ack] = pattern_data] ELSE manager.pat,
      req |-> CASE counts /\ pattern_read -> manager.req + 1
                [] clear \/ manager.state = "CONF_READ" -> 0
                [] OTHER -> manager.req,
      ack |-> CASE counts /\ pattern_avail -> manager.ack + 1
                [] clear \/ manager.state = "CONF_READ" -> 0
                [] OTHER -> manager.ack,
      count |-> CASE clear -> 0
                  [] ~clear /\ manager.state = "SEND_SPRITE" /\ sprite_ack -> manager.count + 1
                  [] OTHER -> manager.count]

NextUnit(u) ==
  CASE clear \/ (u > 0 /\ unit[u].valid /\ in_ack(u - 1)) -> [unit[u] EXCEPT !.valid = FALSE]
    [] in_ack(u) ->
         IF u = MAX_SPRITES_PER_LINE - 1
         THEN [valid |-> TRUE, conf |-> manager.conf, pat |-> manager.pat]
         ELSE unit[u + 1]
    [] OTHER -> unit[u]

----------------------------------------------------------------------------
Busy == age > 0 /\ (manager.state # "DONE" \/ \E u \in Unit : in_ack(u))

Clk ==
  /\ row' = IF clear THEN next_row ELSE row
  /\ age' = IF clear THEN 1 ELSE IF age \in 1 .. TimeAllowed THEN age + 1 ELSE age
  /\ scanner' = NextScanner
  /\ avail' = <<oam_read, avail[1]>>
  /\ oamPort' = ReadClock(oamPort, IF more_conf /\ scanner.oam_addr \in Id
                                   THEN oam[scanner.oam_addr] ELSE NoConf)
  /\ manager' = NextManager
  /\ patPipe' = <<[read |-> pattern_read, sel |-> addr[2] % 2], patPipe[1]>>
  /\ unit' = [u \in Unit |-> NextUnit(u)]
  /\ UNCHANGED oam

----------------------------------------------------------------------------
(* The pixel of a column.                                                  *)

Width(conf) == 8 * (conf.w + 1)

\* sprite_unit.
PatIndex(u, col) ==
  LET conf == unit[u].conf
      pat_offset == (col - conf.x) % 32
  IN IF conf.x_mirror THEN Width(conf) - 1 - pat_offset ELSE pat_offset

Pixel(u, col) == LET i == PatIndex(u, col) IN <<unit[u].pat[i \div 8], i % 8>>

Visible(u, col) ==
  LET conf == unit[u].conf
  IN /\ unit[u].valid /\ conf.x <= col /\ col < conf.x + Width(conf)
     /\ Opaque(Pixel(u, col)[1], Pixel(u, col)[2])

\* sprite_tournament.
ContestantsByOrder(col) == {u \in Unit : Visible(u, col)}

Contestants(col) ==
  LET visible == {u \in Unit : Visible(u, col)}
      fg == {u \in visible : unit[u].conf.fg_prio}
      bg == {u \in visible : unit[u].conf.bg_prio}
  IN IF fg # {} THEN fg ELSE IF bg # {} THEN bg ELSE visible

NoSprite == <<"transparent">>

sp_pixel_data(col) ==
  IF Contestants(col) = {} THEN NoSprite
  ELSE LET u == CHOOSE u \in Contestants(col) : \A w \in Contestants(col) : u <= w
       IN <<unit[u].conf, Pixel(u, col)>>

----------------------------------------------------------------------------
(* What the documentation of the sprites says.                             *)

Ready == manager.state \in {"SIGNAL", "DONE"}

OnRow(id) == oam[id].y <= row /\ row < oam[id].y + 8 * (oam[id].h + 1)

\* The sprites of the row, the first ones in OAM.
Shown ==
  {id \in Id : OnRow(id) /\ Cardinality({j \in 0 .. id : OnRow(j)}) <= MAX_SPRITES_PER_LINE}

\* The pixel of sprite id at column col.
SpritePixel(id, col) ==
  LET c == oam[id]
      dx == IF c.x_mirror THEN Width(c) - 1 - (col - c.x) ELSE col - c.x
      dy == IF c.y_mirror THEN 8 * (c.h + 1) - 1 - (row - c.y) ELSE row - c.y
  IN <<<<<<(c.tile[1] + (dy \div 8)) % 32, (c.tile[2] + (dx \div 8)) % 32>>, dy % 8>>, dx % 8>>

Covers(id, col) ==
  /\ oam[id].x <= col /\ col < oam[id].x + Width(oam[id])
  /\ Opaque(SpritePixel(id, col)[1], SpritePixel(id, col)[2])

Rank(id) == IF oam[id].fg_prio THEN 0 ELSE IF oam[id].bg_prio THEN 1 ELSE 2

Expected(col) ==
  LET at == {id \in Shown : Covers(id, col)}
      first == CHOOSE id \in at :
                 \A j \in at : Rank(id) < Rank(j) \/ (Rank(id) = Rank(j) /\ id <= j)
  IN IF at = {} THEN NoSprite ELSE <<oam[first], SpritePixel(first, col)>>

SpriteTypeOK ==
  /\ scanner.oam_addr \in 0 .. MAX_SPRITES
  /\ manager.req \in 0 .. 4 /\ manager.ack \in 0 .. 4
  /\ manager.count \in 0 .. MAX_SPRITES_PER_LINE
  /\ scanner.state \in {"INIT", "STANDBY", "MEM_REQ"}
=============================================================================
