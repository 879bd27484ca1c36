------------------------------ MODULE SyncWriter ------------------------------
(***************************************************************************)
(* sync_writer: copies the words 0 .. max of one memory to another, a word *)
(* each clock.  The memories answer two clocks after an address, so that   *)
(* the write address runs two clocks behind the read address; until the    *)
(* first word arrives the writer writes what it has to address 0.          *)
(***************************************************************************)
EXTENDS Naturals

\* state, done and the address registers; wren_to is high in SYNC only.
Reset == [state |-> "IDLE", done |-> FALSE, addr_from |-> 0, addr_to_buf |-> 0, addr_to |-> 0]

StartKeepingDone(w) == [Reset EXCEPT !.state = "SYNC", !.done = w.done]

Start(w) == [Reset EXCEPT !.state = "SYNC"]

AtEndTooLate(w, max) == w.addr_to = max + 1

AtEnd(w, max) == w.addr_to = max

Advance(w, max) ==
  [w EXCEPT !.addr_from = IF w.addr_from = max THEN 0 ELSE w.addr_from + 1,
            !.addr_to_buf = w.addr_from,
            !.addr_to = w.addr_to_buf]

\* The registers after a clock.
Clock(w, sync, clr_done, max) ==
  CASE w.state = "IDLE" /\ sync -> Start(w)
    [] w.state = "IDLE" /\ ~sync -> [w EXCEPT !.done = w.done /\ ~clr_done]
    [] w.state = "SYNC" /\ AtEnd(w, max) -> [w EXCEPT !.state = "IDLE", !.done = TRUE]
    [] w.state = "SYNC" /\ ~AtEnd(w, max) -> Advance(w, max)

wren_to(w) == w.state = "SYNC"

----------------------------------------------------------------------------
(* The memories: an address is registered at one clock and its word        *)
(* appears at the output at the next one.                                  *)

Latency(word) == [mid |-> word, q |-> word]

\* The read port after a clock at which it sees the word at its address.
ReadClock(port, word) == [mid |-> word, q |-> port.mid]

\* The words after a clock.
WriteClock(mem, wren, addr, word) ==
  IF wren /\ addr \in DOMAIN mem THEN [mem EXCEPT ![addr] = word] ELSE mem
=============================================================================
