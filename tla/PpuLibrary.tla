----------------------------- MODULE PpuLibrary ------------------------------
(***************************************************************************)
(* Library/src/ppu.c: threads of a program that draw.                      *)
(*                                                                         *)
(* A call sends its requests to the driver one after the other.  The       *)
(* driver is what PpuSystem shows it to be: a request holds vram_lock from *)
(* its start to its end, ppu_update leaves it to the hand-off, and a       *)
(* request that finds it held fails with EBUSY.  A call then returns -1,   *)
(* even if some of its requests have been served; ppu.h asks the caller to *)
(* poll.  Wrong arguments and calls without the device end the program     *)
(* (noway.c); the kernel then closes its files.                            *)
(***************************************************************************)
EXTENDS VramPicture

CONSTANTS Thread,    \* threads a program may have
          Programs   \* the programs, of which one is run

\* The arguments that the types of ppu.h allow. The numbers are those of C as long
\* as sprite_id + len, which ppu.h wants below 64, does not wrap round at 32 bits;
\* the kernel refuses a negative offset before the driver sees it.
MaxSpriteId == 2147483647
IsUint32(n) == n \div 65536 < 65536

IsCall(c) ==
  /\ c.fn \in {"horizontal", "vertical", "pattern", "palette", "sprites", "vram",
               "bgcolor", "scroll", "enable", "update"}
  /\ c.fn \in {"horizontal", "vertical"} =>
       /\ c.tiles \in Seq([pattern_addr : Nat, palette_id : Nat, mirror : Nat])
       /\ {c.layer, c.x, c.y, c.count} \subseteq Nat
  /\ c.fn = "pattern" =>
       /\ {c.width, c.height, c.pattern_addr} \subseteq Nat
       /\ c.pattern \in [1 .. c.width * c.height -> [1 .. 8 -> Nat]]
       /\ \A k \in DOMAIN c.pattern, r \in 1 .. 8 : IsUint32(c.pattern[k][r])
  /\ c.fn = "palette" => c.palette_id \in Nat /\ c.color \in [1 .. 15 -> Nat]
  /\ c.fn = "sprites" =>
       /\ c.sprite_id \in 0 .. MaxSpriteId - Len(c.sprites)
       /\ c.sprites \in Seq([pattern_addr : Nat, palette_id : Nat, x : Nat, y : Nat,
                             mirror : Nat, height : Nat, width : Nat, prio : Nat])
  /\ c.fn = "vram" => c.offset \in Nat /\ c.bytes \in Seq(0 .. 255)

\* A program is given by the calls that each of its threads makes and by whether
\* it repeats a call that failed until it succeeds.
ASSUME LibraryAssumption ==
  /\ {"free", "handoff"} \cap Thread = {}
  /\ \A p \in Programs :
       /\ DOMAIN p.calls \subseteq Thread /\ p.polls \in BOOLEAN
       /\ \A t \in DOMAIN p.calls : \A c \in p.calls[t] : IsCall(c)

VARIABLES program,   \* the program
          ppu_fd,    \* the PPU is open in this program
          other,     \* it is open in another one
          vram_lock, \* "free", "handoff", or the thread whose request is being served
          vram,      \* the kernel's VRAM
          ctrl,      \* the control registers
          status,    \* what each thread does
          call,      \* its call
          left,      \* the requests it has not sent yet
          sent,      \* how many of this call have been served
          aborted,   \* the program has been ended
          promised,  \* what the completed calls have drawn
          dirty      \* what incomplete calls may have overwritten

vars == <<program, ppu_fd, other, vram_lock, vram, ctrl, status, call, left, sent,
          aborted, promised, dirty>>

Registers == {"bgcolor", "bgscroll", "fgscroll", "enable"}
NoCall == [fn |-> "none"]
threads == DOMAIN program.calls
AllCalls == UNION {program.calls[t] : t \in threads}

(***************************************************************************)
(* A request that is being served holds vram_lock, and what pwrite lets    *)
(* through lies in VRAM, to the last byte (ppu_write_vram, ppu_write).     *)
(***************************************************************************)
TypeOK ==
  /\ program \in Programs /\ ppu_fd \in BOOLEAN /\ other \in BOOLEAN
  /\ vram_lock \in {"free", "handoff"} \cup Thread
  /\ DOMAIN vram \subseteq 0 .. VRAM_SIZE - 1
  /\ \A a \in DOMAIN vram : vram[a] \in 0 .. 255
  /\ DOMAIN ctrl = Registers
  /\ status \in [Thread -> {"ready", "running", "locked", "busy", "closing"}]
  /\ call \in [Thread -> AllCalls \cup {NoCall}]
  /\ \A t \in Thread : status[t] = "locked" => vram_lock = t /\ left[t] # <<>>
  /\ aborted \in BOOLEAN

----------------------------------------------------------------------------
\* The nowaymsg checks of a call, besides that of ppu_fd.
Accepts(c) ==
  CASE c.fn = "horizontal" -> AcceptsHorizontal(c) /\ \A i \in DOMAIN c.tiles : AcceptsTile(c.tiles[i])
    [] c.fn = "vertical"   -> AcceptsVertical(c) /\ \A i \in DOMAIN c.tiles : AcceptsTile(c.tiles[i])
    [] c.fn = "pattern"    -> AcceptsPattern(c)
    [] c.fn = "palette"    -> AcceptsPalette(c)
    [] c.fn = "sprites"    -> AcceptsSprites(c)
    [] c.fn = "vram"       -> AcceptsVram(c)
    [] c.fn = "scroll"     -> AcceptsScroll(c)
    [] OTHER               -> TRUE

Requests(c) ==
  CASE c.fn = "horizontal" -> ppu_write_tiles_horizontal(c)
    [] c.fn = "vertical"   -> ppu_write_tiles_vertical(c)
    [] c.fn = "pattern"    -> ppu_write_pattern(c)
    [] c.fn = "palette"    -> ppu_write_palette(c)
    [] c.fn = "sprites"    -> ppu_write_sprites(c)
    [] c.fn = "vram"       -> ppu_write_vram(c)
    [] c.fn = "bgcolor"    -> ppu_set_bgcolor(c)
    [] c.fn = "scroll"     -> ppu_set_scroll(c)
    [] c.fn = "enable"     -> ppu_set_layer_enable(c)
    [] c.fn = "update"     -> ppu_update

Init ==
  /\ program \in Programs
  /\ ppu_fd = FALSE /\ other = FALSE
  /\ vram_lock = "free"
  /\ vram = <<>>
  /\ ctrl = [r \in Registers |-> 0]
  /\ status = [t \in Thread |-> "ready"]
  /\ call = [t \in Thread |-> NoCall]
  /\ left = [t \in Thread |-> <<>>]
  /\ sent = [t \in Thread |-> 0]
  /\ aborted = FALSE
  /\ promised = <<>>
  /\ dirty = {}

deviceVars == <<vram_lock, vram, ctrl>>
callVars   == <<call, left, sent>>
pictureVars == <<promised, dirty>>

Goto(t, from, to) == status[t] = from /\ status' = [status EXCEPT ![t] = to]

\* noway, nowaymsg: abort().
Noway ==
  /\ aborted' = TRUE
  /\ UNCHANGED <<ppu_fd, other, status, deviceVars, callVars, pictureVars>>

----------------------------------------------------------------------------
\* ppu_enable; a failed open (EBUSY) returns -1 and leaves no trace.
Enable(t) ==
  /\ ~aborted /\ status[t] = "ready"
  /\ IF ppu_fd THEN Noway
     ELSE /\ ~other /\ \A u \in Thread : status[u] # "closing"
          /\ ppu_fd' = TRUE
          /\ UNCHANGED <<other, status, deviceVars, callVars, aborted, pictureVars>>

\* A program closes the PPU when none of its other threads is in a call: a call
\* that spans ppu_disable and another ppu_enable would lose what it wrote before.
Disable(t) ==
  /\ ~aborted
  /\ \A u \in Thread \ {t} : status[u] \in {"ready", "busy"}
  /\ \/ /\ status[t] = "ready" /\ ~ppu_fd
        /\ Noway
     \/ /\ ppu_fd
        /\ Goto(t, "ready", "closing")
        /\ ppu_fd' = FALSE
        /\ UNCHANGED <<other, deviceVars, callVars, aborted, pictureVars>>

\* What ppu_release leaves behind.
Blanked ==
  /\ vram_lock = "free"
  /\ vram' = <<>>
  /\ ctrl' = [r \in Registers |-> 0]
  /\ promised' = <<>>
  /\ dirty' = {}
  /\ UNCHANGED vram_lock

\* The kernel releases the file and close returns.
Closed(t) ==
  /\ ~aborted
  /\ Goto(t, "closing", "ready")
  /\ Blanked
  /\ UNCHANGED <<ppu_fd, other, callVars, aborted>>

\* The program has ended, its file is released, and it is started again.
Restart ==
  /\ aborted
  /\ Blanked
  /\ aborted' = FALSE /\ ppu_fd' = FALSE
  /\ status' = [t \in Thread |-> "ready"]
  /\ call' = [t \in Thread |-> NoCall]
  /\ left' = [t \in Thread |-> <<>>]
  /\ sent' = [t \in Thread |-> 0]
  /\ UNCHANGED other

OtherProgram ==
  /\ ~ppu_fd /\ ~aborted /\ \A t \in Thread : status[t] # "closing"
  /\ other' = ~other
  /\ UNCHANGED <<ppu_fd, status, deviceVars, callVars, aborted, pictureVars>>

----------------------------------------------------------------------------
Begin(t, c) ==
  /\ Requests(c) # <<>>
  /\ call' = [call EXCEPT ![t] = c]
  /\ left' = [left EXCEPT ![t] = Requests(c)]
  /\ status' = [status EXCEPT ![t] = "running"]
  /\ UNCHANGED <<ppu_fd, other, sent, deviceVars, aborted, pictureVars>>

\* A call with nothing to do (count or len is 0) returns 0 at once.
Call(t) ==
  /\ ~aborted /\ status[t] = "ready"
  /\ \E c \in program.calls[t] :
        IF ppu_fd /\ Accepts(c) THEN Begin(t, c) ELSE Noway

Retry(t) ==
  /\ ~aborted /\ status[t] = "busy"
  /\ IF ppu_fd
     THEN /\ left' = [left EXCEPT ![t] = Requests(call[t])]
          /\ sent' = [sent EXCEPT ![t] = 0]
          /\ status' = [status EXCEPT ![t] = "running"]
          /\ UNCHANGED <<ppu_fd, other, call, deviceVars, aborted, pictureVars>>
     ELSE Noway

GiveUp(t) ==
  /\ ~aborted /\ ~program.polls
  /\ Goto(t, "busy", "ready")
  /\ call' = [call EXCEPT ![t] = NoCall]
  /\ left' = [left EXCEPT ![t] = <<>>]
  /\ sent' = [sent EXCEPT ![t] = 0]
  /\ UNCHANGED <<ppu_fd, other, deviceVars, aborted, pictureVars>>

\* A write or an ioctl that sets a register has taken vram_lock.
RequestLock(t) ==
  /\ ~aborted /\ ppu_fd
  /\ Goto(t, "running", "locked")
  /\ Head(left[t]).op # "update"
  /\ vram_lock = "free" /\ vram_lock' = t
  /\ dirty' = dirty \cup DOMAIN Drawn(call[t])
  /\ UNCHANGED <<ppu_fd, other, vram, ctrl, callVars, aborted, promised>>

Serve(req) ==
  CASE req.op = "pwrite" -> vram' = Overlay(Stored(req), vram) /\ ctrl' = ctrl
    [] req.op = "set"    -> ctrl' = [ctrl EXCEPT ![req.reg] = req.param] /\ vram' = vram

\* The call has sent its last request: it returns 0.
Return(t) ==
  /\ status' = [status EXCEPT ![t] = "ready"]
  /\ promised' = Overlay(Drawn(call[t]), promised)
  /\ dirty' = dirty \ DOMAIN Drawn(call[t])
  /\ call' = [call EXCEPT ![t] = NoCall]
  /\ left' = [left EXCEPT ![t] = <<>>]
  /\ sent' = [sent EXCEPT ![t] = 0]

Continue(t) ==
  /\ status' = [status EXCEPT ![t] = "running"]
  /\ left' = [left EXCEPT ![t] = Tail(@)]
  /\ sent' = [sent EXCEPT ![t] = @ + 1]
  /\ UNCHANGED <<call, pictureVars>>

\* The driver answers EBUSY and the call returns -1.
RequestBusy(t) ==
  /\ ~aborted /\ ppu_fd
  /\ Goto(t, "running", "busy")
  /\ vram_lock # "free"
  /\ UNCHANGED <<ppu_fd, other, deviceVars, callVars, aborted, pictureVars>>

RequestDoneHandingOff(t) ==
  /\ status[t] = "locked"
  /\ Serve(Head(left[t]))
  /\ vram_lock' = "handoff"
  /\ IF Len(left[t]) = 1 THEN Return(t) ELSE Continue(t)
  /\ UNCHANGED <<ppu_fd, other, aborted>>

RequestDone(t) ==
  /\ status[t] = "locked"
  /\ Serve(Head(left[t]))
  /\ vram_lock' = "free"
  /\ IF Len(left[t]) = 1 THEN Return(t) ELSE Continue(t)
  /\ UNCHANGED <<ppu_fd, other, aborted>>

\* ppu_update: the lock stays with the hand-off.
RequestUpdate(t) ==
  /\ ~aborted /\ ppu_fd
  /\ status[t] = "running"
  /\ Head(left[t]).op = "update"
  /\ vram_lock = "free" /\ vram_lock' = "handoff"
  /\ Return(t)
  /\ UNCHANGED <<ppu_fd, other, vram, ctrl, aborted>>

HandOffDoneAtRelease ==
  /\ vram_lock = "handoff" /\ (aborted \/ ~ppu_fd)
  /\ vram_lock' = "free"
  /\ UNCHANGED <<ppu_fd, other, vram, ctrl, status, callVars, aborted, pictureVars>>

\* ppu_irq.
HandOffDone ==
  /\ vram_lock = "handoff"
  /\ vram_lock' = "free"
  /\ UNCHANGED <<ppu_fd, other, vram, ctrl, status, callVars, aborted, pictureVars>>

----------------------------------------------------------------------------
LibraryStep(t) ==
  \/ Closed(t) \/ Retry(t)
  \/ RequestBusy(t) \/ RequestLock(t) \/ RequestDone(t) \/ RequestUpdate(t)

Next ==
  /\ \/ Restart \/ OtherProgram \/ HandOffDone
     \/ \E t \in threads : Enable(t) \/ Disable(t) \/ Call(t) \/ GiveUp(t) \/ LibraryStep(t)
  /\ UNCHANGED program

Spec == Init /\ [][Next]_vars

\* The hand-off ends, and threads are scheduled.
Fairness ==
  /\ WF_vars(HandOffDone /\ UNCHANGED program)
  /\ \A t \in Thread : WF_vars(t \in threads /\ LibraryStep(t) /\ UNCHANGED program)

FairSpec == Spec /\ Fairness

----------------------------------------------------------------------------
(***************************************************************************)
(* A program that draws as it should.  Its arguments are in the ranges     *)
(* that no call checks: a pattern is no larger than Pattern RAM, a scroll  *)
(* position no larger than a layer.  It writes its sprites one by one (the *)
(* extra bytes of more of them are wrong).  Its places do not overlap, as  *)
(* a place of VRAM and the tile that lies there would, and each is drawn   *)
(* by one thread only.                                                     *)
(***************************************************************************)
InRange(c) ==
  /\ c.fn = "pattern" => c.width <= 32 /\ c.height <= 32
  /\ c.fn = "scroll" => c.scroll_x \in 0 .. 511 /\ c.scroll_y \in 0 .. 511
  /\ c.fn = "sprites" => Len(c.sprites) <= 1

\* The calls of thread t that send requests, and what they draw.
Drawing(p, t) == {c \in p.calls[t] : Accepts(c) /\ Requests(c) # <<>>}
Canvas(p, t) == UNION {DOMAIN Drawn(c) : c \in Drawing(p, t)}

Orderly(p) ==
  \A t, u \in DOMAIN p.calls :
    /\ \A c \in Drawing(p, t) : InRange(c)
    /\ \A loc \in Canvas(p, t), place \in Canvas(p, u) :
         IF loc = place THEN t = u ELSE Bytes(loc) \cap Bytes(place) = {}

----------------------------------------------------------------------------
(***************************************************************************)
(* What a completed call has drawn is what the PPU reads, until another    *)
(* call overwrites it: addresses, wrap-around, the packing of tiles,       *)
(* colours and sprites, and nothing overwritten by a neighbour, whether    *)
(* the call went through at once or was repeated after some of its         *)
(* requests had been served.                                               *)
(***************************************************************************)
DrawnAsPromised ==
  \A loc \in DOMAIN promised \ dirty : Reads(vram, ctrl, loc) = promised[loc]

(***************************************************************************)
(* No call stores outside the places it names: not in another layer, not   *)
(* in the transparent colour of a palette, not past the end.               *)
(***************************************************************************)
StoresWhereItSays ==
  DOMAIN vram \subseteq UNION {Bytes(loc) : loc \in DOMAIN promised \cup dirty}

(***************************************************************************)
(* A sprite shows the pattern that was written for it: pixel row by pixel  *)
(* row and tile column by tile column, upside down if mirrored, and also   *)
(* round the edges of Pattern RAM (ppu_write_pattern and sprite_addr_gen). *)
(***************************************************************************)
Complete(c) ==
  \A loc \in DOMAIN Drawn(c) :
     loc \in DOMAIN promised \ dirty /\ promised[loc] = Drawn(c)[loc]

ShowsPattern(s, c) ==
  \A row \in 0 .. 8 * s.height - 1, index \in 0 .. s.width - 1 :
     LET r == IF s.mirror >= 2 THEN 8 * s.height - 1 - row ELSE row
     IN WordAt(vram, SpriteAddr(s, index, s.y + row))
          = c.pattern[(r \div 8) * c.width + index + 1][(r % 8) + 1]

SpriteShowsItsPattern ==
  \A c \in {c \in AllCalls : c.fn = "pattern"} :
    \A loc \in {l \in DOMAIN promised : l[1] = "sprite"} :
      LET s == promised[loc]
      IN Complete(c) /\ s.pattern_addr = c.pattern_addr
           /\ s.width = c.width /\ s.height = c.height => ShowsPattern(s, c)

(***************************************************************************)
(* In a program with one thread a call that returns -1 has done nothing:   *)
(* only its first request can find the PPU busy ("will return -1 if the    *)
(* modification could not be made", ppu.h).                                *)
(***************************************************************************)
BusyOnlyAtFirst ==
  [][\A t \in threads :
        threads = {t} /\ status[t] = "running" /\ status'[t] = "busy" => sent[t] = 0]_vars

(***************************************************************************)
(* Polling ends: a call that found the PPU busy succeeds, unless the       *)
(* program is ended.                                                       *)
(***************************************************************************)
PollingSucceeds ==
  \A t \in Thread :
     program.polls /\ status[t] = "busy" ~> status[t] = "ready" \/ aborted
=============================================================================
