---------------------------- MODULE ControllerPort ----------------------------
(***************************************************************************)
(* The controller port (controller.sv): sixty times a second it latches    *)
(* the buttons of an SNES pad, shifts them in one bit per period of a      *)
(* divided clock and publishes the sixteen bits at once in con_state.      *)
(*                                                                         *)
(* A word is the set of its bits that are 1, and a 1 is a released button. *)
(* A step is an edge of the divided clock, div_clk, or a tick of the 60 Hz *)
(* timer: nothing else makes the state machine move.  The two periods are  *)
(* not multiples of each other, so the tick comes at any point.            *)
(***************************************************************************)
EXTENDS Naturals

CONSTANT Buttons    \* the buttons that somebody presses

Button == {"B", "Y", "SELECT", "START", "UP", "DOWN", "LEFT", "RIGHT", "A", "X", "L", "R"}

ASSUME ButtonAssumption == Buttons \subseteq Button

VARIABLES held,            \* the buttons held down
          pad,             \* the pad's shift register
          snapshot,        \* the buttons held when they were last latched
          state,           \* the state of the machine
          div_clk,         \* the level of the divided clock
          sample_counter,  \* bits sampled, modulo 16
          new_input,       \* the bits shifted in so far
          con_state        \* what the port publishes

portVars == <<held, pad, snapshot, state, div_clk, sample_counter, new_input, con_state>>

Bit == 0 .. 15

\* con.h: CON_BUT_B and its companions.
CON_BUT ==
  [b \in Button |->
     CASE b = "B" -> 15 [] b = "Y" -> 14 [] b = "SELECT" -> 13 [] b = "START" -> 12
       [] b = "UP" -> 11 [] b = "DOWN" -> 10 [] b = "LEFT" -> 9 [] b = "RIGHT" -> 8
       [] b = "A" -> 7 [] b = "X" -> 6 [] b = "L" -> 5 [] b = "R" -> 4]

CON_IS_PRESSED(word, b) == CON_BUT[b] \notin word
CON_IS_RELEASED(word, b) == CON_BUT[b] \in word

\* The buttons in the order in which the pad sends them.
Sent(n) ==
  CASE n = 0 -> "B" [] n = 1 -> "Y" [] n = 2 -> "SELECT" [] n = 3 -> "START"
    [] n = 4 -> "UP" [] n = 5 -> "DOWN" [] n = 6 -> "LEFT" [] n = 7 -> "RIGHT"
    [] n = 8 -> "A" [] n = 9 -> "X" [] n = 10 -> "L" [] n = 11 -> "R"

PortTypeOK ==
  /\ held \subseteq Buttons /\ snapshot \subseteq Buttons
  /\ pad \subseteq Bit /\ new_input \subseteq Bit /\ con_state \subseteq Bit
  /\ state \in {"INIT", "WAIT_CLOCK", "PULSE", "SAMPLE"}
  /\ div_clk \in BOOLEAN
  /\ sample_counter \in Bit

\* Bit n of the pad's register is the n-th it sends; the last four are 1.
Parallel(pressed) == {n \in Bit : n < 12 => Sent(n) \notin pressed}

\* shift_reg: a bit enters on the right.
ShiftIn(word, in) == {b + 1 : b \in word \ {15}} \cup (IF in THEN {0} ELSE {})

con_serial == 0 \in pad

\* con_state, new_input and the counter are reset to 0.
PortInit ==
  /\ held = {} /\ pad = {} /\ snapshot = {}
  /\ state = "INIT" /\ div_clk = FALSE
  /\ sample_counter = 0 /\ new_input = {} /\ con_state = {}

----------------------------------------------------------------------------
\* Somebody presses or lets go of a button.  The pad's register follows while
\* the latch is high.
Press(b) ==
  /\ held' = IF b \in held THEN held \ {b} ELSE held \cup {b}
  /\ IF state = "PULSE"
     THEN pad' = Parallel(held') /\ snapshot' = held'
     ELSE UNCHANGED <<pad, snapshot>>
  /\ UNCHANGED <<state, div_clk, sample_counter, new_input, con_state>>

\* The tick is lost on a machine that is not in INIT.
Tick60 ==
  /\ state' = IF state = "INIT" THEN "WAIT_CLOCK" ELSE state
  /\ UNCHANGED <<held, pad, snapshot, div_clk, sample_counter, new_input, con_state>>

\* The pad shifts on a rising edge of con_clock, which is div_clk in SAMPLE.
NextBit == pad' = {n \in Bit : n + 1 \in pad}

StartPulse ==
  /\ state = "WAIT_CLOCK"
  /\ state' = "PULSE"
  /\ pad' = Parallel(held) /\ snapshot' = held
  /\ UNCHANGED <<sample_counter, con_state>>

StartSampling ==
  /\ state = "PULSE"
  /\ state' = "SAMPLE"
  /\ UNCHANGED <<pad, snapshot, sample_counter, con_state>>

CountBitEarly ==
  /\ state = "SAMPLE"
  /\ sample_counter' = (sample_counter + 1) % 16
  /\ LET finish == sample_counter' = 15
     IN /\ state' = IF finish THEN "INIT" ELSE "SAMPLE"
        /\ con_state' = IF finish THEN new_input ELSE con_state
  /\ NextBit
  /\ UNCHANGED snapshot

CountBitNoFinish ==
  /\ state = "SAMPLE"
  /\ sample_counter' = (sample_counter + 1) % 16
  /\ state' = "SAMPLE"
  /\ con_state' = IF sample_counter' = 0 THEN new_input ELSE con_state
  /\ NextBit
  /\ UNCHANGED snapshot

\* The counter wraps: all sixteen bits are in.
CountBit ==
  /\ state = "SAMPLE"
  /\ sample_counter' = (sample_counter + 1) % 16
  /\ LET finish == sample_counter' = 0
     IN /\ state' = IF finish THEN "INIT" ELSE "SAMPLE"
        /\ con_state' = IF finish THEN new_input ELSE con_state
  /\ NextBit
  /\ UNCHANGED snapshot

\* pos_change.
PosChange ==
  /\ ~div_clk /\ div_clk' = TRUE
  /\ \/ state = "INIT" /\ UNCHANGED <<state, pad, snapshot, sample_counter, con_state>>
     \/ StartPulse
     \/ StartSampling
     \/ CountBit
  /\ UNCHANGED <<held, new_input>>

\* neg_change, which is also sample_en.
NegChange ==
  /\ div_clk /\ div_clk' = FALSE
  /\ new_input' = IF state = "SAMPLE" THEN ShiftIn(new_input, con_serial) ELSE new_input
  /\ UNCHANGED <<held, pad, snapshot, state, sample_counter, con_state>>

PortStep == Tick60 \/ PosChange \/ NegChange

PortNext == PortStep \/ \E b \in Buttons : Press(b)

\* The oscillator runs: its edges and its ticks keep coming.  A tick always
\* finds the machine in INIT in time: a poll takes 10200 clocks of 833333.
PortFairness == WF_portVars(PosChange \/ NegChange) /\ WF_portVars(Tick60)

----------------------------------------------------------------------------
\* con_state shows exactly these buttons as pressed.
Shows(pressed) ==
  /\ \A b \in Button : CON_IS_PRESSED(con_state, b) <=> b \in pressed
  /\ \A b \in Button : CON_IS_RELEASED(con_state, b) <=> b \notin pressed

(***************************************************************************)
(* A new con_state shows every button as it was when the pad latched it,   *)
(* under its own mask of con.h: no bit of an earlier poll, none of the     *)
(* buttons that changed while the bits were shifted in.                    *)
(***************************************************************************)
PublishesOnePoll == [][con_state' # con_state => Shows(snapshot)']_portVars
=============================================================================
