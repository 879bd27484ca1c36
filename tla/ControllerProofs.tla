--------------------------- MODULE ControllerProofs ---------------------------
(***************************************************************************)
(* Proofs about ControllerPort and ControllerSystem.  For any set of       *)
(* buttons, pressed at any moment, the port publishes one poll of the pad  *)
(* at a time.  For a program of one thread, however often open and atexit  *)
(* fail, the device file is closed when the program ends.                  *)
(***************************************************************************)
EXTENDS ControllerSystem, FiniteSetTheorems, TLAPS

USE ButtonAssumption, ThreadsAssumption DEF ButtonAssumption, ThreadsAssumption

----------------------------------------------------------------------------
(***************************************************************************)
(* While a poll is under way, the pad has shifted once for every bit       *)
(* counted, and new_input ends in the bits received since the latch: they  *)
(* are one more than those counted between the falling edge of the divided *)
(* clock, which samples, and the rising one, which counts.                 *)
(***************************************************************************)
Received == IF div_clk THEN sample_counter ELSE sample_counter + 1

PadShifted == pad = {n \in Bit : n + sample_counter \in Parallel(snapshot)}

BitsAreIn ==
  \A j \in Bit : j < Received =>
    (j \in new_input <=> (Received - 1) - j \in Parallel(snapshot))

PortInv ==
  /\ PortTypeOK
  /\ state # "SAMPLE" => sample_counter = 0
  /\ state = "PULSE" => pad = Parallel(snapshot)
  /\ state = "SAMPLE" => PadShifted /\ BitsAreIn

(***************************************************************************)
(* What get_con_state has done to the one file, by where its thread is.    *)
(***************************************************************************)
NoFile == dev_file_fd = 0 /\ open = {} /\ handlers = 0
OneFile(registered) ==
  dev_file_fd # 0 /\ open = {dev_file_fd} /\ handlers = registered

Places == {"idle", "open", "atexit", "ioctl", "cleanup"}

FileInv(t) ==
  /\ dev_file_fd \in 0 .. opened /\ opened \in Nat
  /\ pc \in [Threads -> Places]
  /\ close_fd \in [Threads -> BOOLEAN]
  /\ program \in {"running", "exiting", "exited", "aborted"}
  /\ program = "running" =>
       /\ pc[t] = "idle" => NoFile \/ OneFile(1)
       /\ pc[t] = "open" => NoFile /\ ~close_fd[t]
       /\ pc[t] = "atexit" => OneFile(0) /\ ~close_fd[t]
       /\ pc[t] = "ioctl" => OneFile(IF close_fd[t] THEN 0 ELSE 1)
       /\ pc[t] = "cleanup" => OneFile(0)
  /\ program = "exiting" => NoFile \/ OneFile(1)
  /\ program = "exited" => NoFile
  /\ program = "aborted" => "open" \in MayFail

----------------------------------------------------------------------------
\* The masks of con.h and the order in which the pad sends the buttons agree.
LEMMA MaskIsPlace ==
  ASSUME NEW b \in Button
  PROVE  CON_BUT[b] \in 4 .. 15 /\ Sent(15 - CON_BUT[b]) = b
<1>1. CASE b = "B"
  <2>1. CON_BUT[b] = 15
    BY <1>1 DEF CON_BUT
  <2>2. 15 - 15 = 0
    OBVIOUS
  <2> QED BY <1>1, <2>1, <2>2 DEF Sent
<1>2. CASE b = "Y"
  <2>1. CON_BUT[b] = 14
    BY <1>2 DEF CON_BUT
  <2>2. 15 - 14 = 1
    OBVIOUS
  <2> QED BY <1>2, <2>1, <2>2 DEF Sent
<1>3. CASE b = "SELECT"
  <2>1. CON_BUT[b] = 13
    BY <1>3 DEF CON_BUT
  <2>2. 15 - 13 = 2
    OBVIOUS
  <2> QED BY <1>3, <2>1, <2>2 DEF Sent
<1>4. CASE b = "START"
  <2>1. CON_BUT[b] = 12
    BY <1>4 DEF CON_BUT
  <2>2. 15 - 12 = 3
    OBVIOUS
  <2> QED BY <1>4, <2>1, <2>2 DEF Sent
<1>5. CASE b = "UP"
  <2>1. CON_BUT[b] = 11
    BY <1>5 DEF CON_BUT
  <2>2. 15 - 11 = 4
    OBVIOUS
  <2> QED BY <1>5, <2>1, <2>2 DEF Sent
<1>6. CASE b = "DOWN"
  <2>1. CON_BUT[b] = 10
    BY <1>6 DEF CON_BUT
  <2>2. 15 - 10 = 5
    OBVIOUS
  <2> QED BY <1>6, <2>1, <2>2 DEF Sent
<1>7. CASE b = "LEFT"
  <2>1. CON_BUT[b] = 9
    BY <1>7 DEF CON_BUT
  <2>2. 15 - 9 = 6
    OBVIOUS
  <2> QED BY <1>7, <2>1, <2>2 DEF Sent
<1>8. CASE b = "RIGHT"
  <2>1. CON_BUT[b] = 8
    BY <1>8 DEF CON_BUT
  <2>2. 15 - 8 = 7
    OBVIOUS
  <2> QED BY <1>8, <2>1, <2>2 DEF Sent
<1>9. CASE b = "A"
  <2>1. CON_BUT[b] = 7
    BY <1>9 DEF CON_BUT
  <2>2. 15 - 7 = 8
    OBVIOUS
  <2> QED BY <1>9, <2>1, <2>2 DEF Sent
<1>10. CASE b = "X"
  <2>1. CON_BUT[b] = 6
    BY <1>10 DEF CON_BUT
  <2>2. 15 - 6 = 9
    OBVIOUS
  <2> QED BY <1>10, <2>1, <2>2 DEF Sent
<1>11. CASE b = "L"
  <2>1. CON_BUT[b] = 5
    BY <1>11 DEF CON_BUT
  <2>2. 15 - 5 = 10
    OBVIOUS
  <2> QED BY <1>11, <2>1, <2>2 DEF Sent
<1>12. CASE b = "R"
  <2>1. CON_BUT[b] = 4
    BY <1>12 DEF CON_BUT
  <2>2. 15 - 4 = 11
    OBVIOUS
  <2> QED BY <1>12, <2>1, <2>2 DEF Sent
<1> QED BY <1>1, <1>2, <1>3, <1>4, <1>5, <1>6, <1>7, <1>8, <1>9, <1>10, <1>11, <1>12 DEF Button

\* A button of a published word is up exactly when the bit sent for it is 1.
LEMMA WordShows ==
  ASSUME NEW pressed, NEW word,
         \A j \in Bit : j \in word <=> 15 - j \in Parallel(pressed),
         NEW b \in Button
  PROVE  /\ CON_IS_PRESSED(word, b) <=> b \in pressed
         /\ CON_IS_RELEASED(word, b) <=> b \notin pressed
<1> SUFFICES CON_BUT[b] \in word <=> b \notin pressed
  BY DEF CON_IS_PRESSED, CON_IS_RELEASED
<1> DEFINE j == CON_BUT[b]
<1>1. j \in 4 .. 15 /\ Sent(15 - j) = b
  BY MaskIsPlace
<1> HIDE DEF j
<1>2. j \in Bit /\ 15 - j \in Bit /\ 15 - j < 12
  BY <1>1 DEF Bit
<1>3. 15 - j \in Parallel(pressed) <=> b \notin pressed
  BY <1>1, <1>2 DEF Parallel
<1> QED BY <1>2, <1>3 DEF j

\* The counter of four bits.
LEMMA CounterCounts ==
  ASSUME NEW c \in Bit
  PROVE  /\ c = 15 => (c + 1) % 16 = 0
         /\ c # 15 => (c + 1) % 16 = c + 1
         /\ (c + 1) % 16 \in Bit
BY DEF Bit

\* Buttons that are pressed or let go change the snapshot only under the latch.
LEMMA PressKeepsPort ==
  ASSUME PortInv, NEW b \in Buttons, Press(b)
  PROVE  PortInv'
<1>1. UNCHANGED <<state, div_clk, sample_counter, new_input, con_state>>
  BY DEF Press
<1>2. held' \subseteq Buttons
  BY DEF PortInv, PortTypeOK, Press
<1>3. \A p : Parallel(p) \subseteq Bit
  BY DEF Parallel
<1>4. CASE state = "PULSE"
  <2>1. pad' = Parallel(held') /\ snapshot' = held'
    BY <1>4 DEF Press
  <2>2. Parallel(snapshot') = (Parallel(snapshot))'
    BY DEF Parallel
  <2>3. PortTypeOK'
    BY <1>1, <1>2, <1>3, <2>1 DEF PortInv, PortTypeOK
  <2>4. pad' = (Parallel(snapshot))'
    BY <2>1, <2>2
  <2> QED BY <1>1, <1>4, <2>3, <2>4 DEF PortInv
<1>5. CASE state # "PULSE"
  <2>1. pad' = pad /\ snapshot' = snapshot
    BY <1>5 DEF Press
  <2>2. PadShifted' = PadShifted /\ BitsAreIn' = BitsAreIn
    BY <1>1, <2>1 DEF PadShifted, BitsAreIn, Received, Parallel
  <2>3. PortTypeOK'
    BY <1>1, <1>2, <2>1 DEF PortInv, PortTypeOK
  <2> QED BY <1>1, <1>5, <2>2, <2>3 DEF PortInv
<1> QED BY <1>4, <1>5

\* The tick of the timer starts a poll on a machine at rest and does nothing else.
LEMMA TickKeepsPort ==
  ASSUME PortInv, Tick60
  PROVE  PortInv'
<1>1. UNCHANGED <<held, pad, snapshot, div_clk, sample_counter, new_input, con_state>>
  BY DEF Tick60
<1>2. PortTypeOK'
  BY DEF PortInv, PortTypeOK, Tick60
<1>3. PadShifted' = PadShifted /\ BitsAreIn' = BitsAreIn
  BY <1>1 DEF PadShifted, BitsAreIn, Received, Parallel
<1>4. state' = "SAMPLE" <=> state = "SAMPLE"
  BY DEF Tick60
<1>5. state' = "PULSE" <=> state = "PULSE"
  BY DEF Tick60
<1>6. (Parallel(snapshot))' = Parallel(snapshot)
  BY <1>1 DEF Parallel
<1> QED BY <1>1, <1>2, <1>3, <1>4, <1>5, <1>6 DEF PortInv

\* The falling edge takes in the next bit of the pad, the one the pad has come
\* to by its shifts.
LEMMA FallingEdgeKeepsPort ==
  ASSUME PortInv, NegChange
  PROVE  PortInv'
<1>1. /\ div_clk = TRUE /\ div_clk' = FALSE
      /\ UNCHANGED <<held, pad, snapshot, state, sample_counter, con_state>>
  BY DEF NegChange, PortInv, PortTypeOK
<1>2. sample_counter \in 0 .. 15
  BY DEF PortInv, PortTypeOK, Bit
<1>3. \A w, in : w \subseteq Bit => ShiftIn(w, in) \subseteq Bit
  BY DEF ShiftIn, Bit
<1>4. PortTypeOK'
  BY <1>1, <1>3 DEF PortInv, PortTypeOK, NegChange
<1>5. PadShifted' = PadShifted /\ (Parallel(snapshot))' = Parallel(snapshot)
  BY <1>1 DEF PadShifted, Parallel
<1>6. ASSUME state = "SAMPLE" PROVE BitsAreIn'
  <2>1. Received = sample_counter /\ Received' = sample_counter + 1
    BY <1>1 DEF Received
  <2>2. new_input' = ShiftIn(new_input, 0 \in pad)
    BY <1>6 DEF NegChange, con_serial
  <2>3. 0 \in pad <=> sample_counter \in Parallel(snapshot)
    BY <1>2, <1>6 DEF PortInv, PadShifted, Bit
  <2>4. SUFFICES ASSUME NEW j \in Bit, j < sample_counter + 1
                 PROVE  j \in new_input' <=> sample_counter - j \in Parallel(snapshot)
    BY <1>2, <1>5, <2>1 DEF BitsAreIn
  <2>5. CASE j = 0
    <3>1. \A b \in new_input \ {15} : b + 1 # 0
      BY DEF PortInv, PortTypeOK, Bit
    <3>2. 0 \in new_input' <=> 0 \in pad
      BY <2>2, <3>1 DEF ShiftIn
    <3> QED BY <1>2, <2>3, <2>5, <3>2
  <2>6. CASE j # 0
    <3>1. j - 1 \in Bit /\ j - 1 < sample_counter /\ (sample_counter - 1) - (j - 1) = sample_counter - j
      BY <1>2, <2>4, <2>6 DEF Bit
    <3>2. j - 1 \in new_input <=> sample_counter - j \in Parallel(snapshot)
      BY <1>6, <2>1, <3>1 DEF PortInv, BitsAreIn
    <3>3. j \in new_input' <=> j - 1 \in new_input
      <4>1. j - 1 # 15 /\ (j - 1) + 1 = j
        BY DEF Bit
      <4>2. \A b \in new_input : b + 1 = j => b = j - 1
        BY DEF PortInv, PortTypeOK, Bit
      <4> QED BY <2>2, <2>6, <4>1, <4>2 DEF ShiftIn
    <3> QED BY <3>2, <3>3
  <2> QED BY <2>5, <2>6
<1> QED BY <1>1, <1>4, <1>5, <1>6 DEF PortInv

\* The rising edge counts the bit, and with the sixteenth it publishes them all.
LEMMA RisingEdgeKeepsPort ==
  ASSUME PortInv, PosChange
  PROVE  PortInv' /\ (con_state' # con_state => Shows(snapshot)')
<1>1. div_clk = FALSE /\ div_clk' = TRUE /\ UNCHANGED <<held, new_input>>
  BY DEF PosChange, PortInv, PortTypeOK
<1>2. sample_counter \in 0 .. 15
  BY DEF PortInv, PortTypeOK, Bit
<1>3. \A p : Parallel(p) \subseteq Bit
  BY DEF Parallel
<1>4. CASE state = "INIT" /\ UNCHANGED <<state, pad, snapshot, sample_counter, con_state>>
  <2>1. PortTypeOK'
    BY <1>1, <1>4 DEF PortInv, PortTypeOK
  <2> QED BY <1>4, <2>1 DEF PortInv
<1>5. CASE StartPulse
  <2>1. PortTypeOK'
    BY <1>1, <1>3, <1>5 DEF PortInv, PortTypeOK, StartPulse
  <2>2. pad' = (Parallel(snapshot))'
    BY <1>5 DEF StartPulse, Parallel
  <2> QED BY <1>5, <2>1, <2>2 DEF PortInv, StartPulse
<1>6. CASE StartSampling
  <2>1. PortTypeOK'
    BY <1>1, <1>6 DEF PortInv, PortTypeOK, StartSampling
  <2>2. pad' = Parallel(snapshot) /\ sample_counter' = 0 /\ snapshot' = snapshot
    BY <1>6 DEF PortInv, StartSampling
  <2>3. (Parallel(snapshot))' = Parallel(snapshot) /\ Received' = 0
    BY <1>1, <2>2 DEF Parallel, Received
  <2>4. PadShifted'
    <3>1. Parallel(snapshot) = {n \in Bit : n + 0 \in Parallel(snapshot)}
      BY <1>3 DEF Bit
    <3> QED BY <2>2, <2>3, <3>1 DEF PadShifted
  <2>5. BitsAreIn'
    BY <2>3 DEF BitsAreIn, Bit
  <2> QED BY <1>6, <2>1, <2>4, <2>5 DEF PortInv, StartSampling
<1>7. CASE CountBit
  <2>1. /\ state = "SAMPLE" /\ PadShifted /\ BitsAreIn
        /\ sample_counter' = (sample_counter + 1) % 16
        /\ snapshot' = snapshot /\ NextBit
    BY <1>7 DEF CountBit, PortInv
  <2>2. Received = sample_counter + 1
    BY <1>1 DEF Received
  <2>3. (Parallel(snapshot))' = Parallel(snapshot)
    BY <2>1 DEF Parallel
  <2>4. sample_counter \in Bit
    BY <1>2 DEF Bit
  <2>5. pad' \subseteq Bit
    BY <2>1 DEF NextBit
  <2>6. CASE sample_counter = 15
    <3>1. sample_counter' = 0
      BY <2>1, <2>4, <2>6, CounterCounts
    <3>2. state' = "INIT" /\ con_state' = new_input
      BY <1>7, <3>1 DEF CountBit
    <3>3. PortTypeOK'
      BY <1>1, <2>1, <2>5, <3>1, <3>2 DEF PortInv, PortTypeOK, Bit
    <3>4. \A j \in Bit : j \in con_state' <=> 15 - j \in Parallel(snapshot)
      BY <2>1, <2>2, <2>6, <3>2 DEF BitsAreIn, Bit
    <3>5. \A b \in Button : /\ CON_IS_PRESSED(con_state', b) <=> b \in snapshot
                            /\ CON_IS_RELEASED(con_state', b) <=> b \notin snapshot
      BY <3>4, WordShows
    <3>6. Shows(snapshot)'
      BY <2>1, <3>5 DEF Shows, CON_IS_PRESSED, CON_IS_RELEASED
    <3> QED BY <3>1, <3>2, <3>3, <3>6 DEF PortInv
  <2>7. CASE sample_counter # 15
    <3>1. sample_counter' = sample_counter + 1 /\ sample_counter' # 0
      BY <1>2, <2>1, <2>4, <2>7, CounterCounts
    <3>2. state' = "SAMPLE" /\ con_state' = con_state
      BY <1>7, <3>1 DEF CountBit
    <3>3. PortTypeOK'
      BY <1>1, <1>2, <2>1, <2>5, <2>7, <3>1, <3>2 DEF PortInv, PortTypeOK, Bit
    <3>4. PadShifted'
      <4>1. pad' = {n \in Bit : n + 1 \in pad}
        BY <2>1 DEF NextBit
      <4>2. \A n \in Bit : n + 1 \in pad
                             <=> n + (sample_counter + 1) \in Parallel(snapshot)
        <5> SUFFICES ASSUME NEW n \in Bit
                     PROVE  n + 1 \in pad <=> n + (sample_counter + 1) \in Parallel(snapshot)
          OBVIOUS
        <5>1. n + 1 \in pad <=> n + 1 \in Bit /\ (n + 1) + sample_counter \in Parallel(snapshot)
          BY <2>1 DEF PadShifted
        <5>2. (n + 1) + sample_counter = n + (sample_counter + 1)
          BY <1>2 DEF Bit
        <5>3. n + (sample_counter + 1) \in Bit => n + 1 \in Bit
          BY <1>2 DEF Bit
        <5> QED BY <1>3, <5>1, <5>2, <5>3
      <4> QED BY <2>3, <3>1, <4>1, <4>2 DEF PadShifted
    <3>5. BitsAreIn'
      <4>1. Received' = Received
        BY <1>1, <2>2, <3>1 DEF Received
      <4> QED BY <1>1, <2>1, <2>3, <4>1 DEF BitsAreIn
    <3> QED BY <3>2, <3>3, <3>4, <3>5 DEF PortInv
  <2> QED BY <2>6, <2>7
<1> QED BY <1>4, <1>5, <1>6, <1>7 DEF PosChange

\* Every step of the port keeps the invariant and publishes one poll or nothing.
LEMMA PortStepIsRight ==
  ASSUME PortInv, [PortNext]_portVars
  PROVE  PortInv' /\ (con_state' # con_state => Shows(snapshot)')
<1>1. ASSUME NEW b \in Buttons, Press(b) PROVE PortInv' /\ con_state' = con_state
  BY <1>1, PressKeepsPort DEF Press
<1>2. ASSUME Tick60 PROVE PortInv' /\ con_state' = con_state
  BY <1>2, TickKeepsPort DEF Tick60
<1>3. ASSUME NegChange PROVE PortInv' /\ con_state' = con_state
  BY <1>3, FallingEdgeKeepsPort DEF NegChange
<1>4. ASSUME UNCHANGED portVars PROVE PortInv' /\ con_state' = con_state
  <2>1. PadShifted' = PadShifted /\ BitsAreIn' = BitsAreIn
    BY <1>4 DEF portVars, PadShifted, BitsAreIn, Received, Parallel
  <2>2. (Parallel(snapshot))' = Parallel(snapshot) /\ PortTypeOK' = PortTypeOK
    BY <1>4 DEF portVars, Parallel, PortTypeOK
  <2> QED BY <1>4, <2>1, <2>2 DEF portVars, PortInv
<1> QED BY <1>1, <1>2, <1>3, <1>4, RisingEdgeKeepsPort DEF PortNext, PortStep

\* At reset nothing is under way.
LEMMA PortStarts ==
  PortInit => PortInv
<1> SUFFICES ASSUME PortInit PROVE PortInv
  OBVIOUS
<1>1. PortTypeOK
  <2>1. sample_counter \in Bit
    BY DEF PortInit, Bit
  <2>2. div_clk \in BOOLEAN
    BY DEF PortInit
  <2> QED BY <2>1, <2>2 DEF PortInit, PortTypeOK
<1>2. state = "INIT" /\ sample_counter = 0
  BY DEF PortInit
<1> QED BY <1>1, <1>2 DEF PortInv

\* In the composition the port does its own steps or nothing.
LEMMA PortInSystem ==
  [Next]_vars => [PortNext]_portVars
BY DEF Next, vars

(***************************************************************************)
(* The invariant of the port holds at every moment, with what the program  *)
(* does beside it: while a poll is under way new_input ends in the bits of *)
(* this poll, in the order in which the pad sent them.                     *)
(***************************************************************************)
THEOREM PortCorrect == Spec => []PortInv
<1>1. Init => PortInv
  BY PortStarts DEF Init
<1>2. PortInv /\ [Next]_vars => PortInv'
  BY PortInSystem, PortStepIsRight
<1> QED BY <1>1, <1>2, PTL DEF Spec

(***************************************************************************)
(* PublishesOnePoll of ControllerPort, of the whole system: whenever       *)
(* con_state of controller.sv changes it shows the buttons as the pad      *)
(* latched them, each under its mask of con.h.                             *)
(***************************************************************************)
THEOREM PollsArePublished == Spec => PublishesOnePoll
<1>1. PortInv /\ [Next]_vars => [con_state' # con_state => Shows(snapshot)']_portVars
  BY PortInSystem, PortStepIsRight
<1> QED BY <1>1, PortCorrect, PTL DEF Spec, PublishesOnePoll

----------------------------------------------------------------------------
\* Where a thread goes from one step of get_con_state to the next.
LEMMA ThreadMoves ==
  ASSUME NEW t \in Threads, NEW place \in Places,
         pc \in [Threads -> Places], Goto(t, place)
  PROVE  pc' \in [Threads -> Places] /\ pc'[t] = place
BY DEF Goto

\* A step of get_con_state keeps track of the one file: opening it, having it
\* closed at exit or, when atexit refuses, at the end of the call.
LEMMA WorkKeepsFile ==
  ASSUME NEW t \in Threads, FileInv(t), program = "running",
         Enter(t) \/ Work(t)
  PROVE  FileInv(t)'
<1> USE DEF NoFile, OneFile
<1>1. /\ dev_file_fd \in 0 .. opened /\ opened \in Nat
      /\ pc \in [Threads -> Places]
      /\ close_fd \in [Threads -> BOOLEAN]
  BY DEF FileInv
<1>2. CASE Enter(t)
  <2>1. pc[t] = "idle" /\ (NoFile \/ OneFile(1))
    BY <1>2 DEF Enter, FileInv
  <2>2. /\ UNCHANGED <<dev_file_fd, opened, open, handlers, program>>
        /\ close_fd' = [close_fd EXCEPT ![t] = FALSE]
        /\ Goto(t, IF dev_file_fd = 0 THEN "open" ELSE "ioctl")
    BY <1>2 DEF Enter
  <2>3. ~close_fd'[t] /\ close_fd' \in [Threads -> BOOLEAN]
    BY <1>1, <2>2
  <2>4. CASE dev_file_fd = 0
    <3>1. pc'[t] = "open" /\ pc' \in [Threads -> Places]
      BY <1>1, <2>2, <2>4, ThreadMoves DEF Places
    <3> QED BY <1>1, <2>1, <2>2, <2>3, <2>4, <3>1 DEF FileInv
  <2>5. CASE dev_file_fd # 0
    <3>1. pc'[t] = "ioctl" /\ pc' \in [Threads -> Places]
      BY <1>1, <2>2, <2>5, ThreadMoves DEF Places
    <3> QED BY <1>1, <2>1, <2>2, <2>3, <2>5, <3>1 DEF FileInv
  <2> QED BY <2>4, <2>5
<1>3. CASE OpenDevice(t)
  <2>1. pc[t] = "open" /\ NoFile /\ ~close_fd[t] /\ opened' = opened + 1
    BY <1>3 DEF OpenDevice, FileInv
  <2>2. /\ dev_file_fd' = opened' /\ open' = open \cup {opened'}
        /\ UNCHANGED <<handlers, close_fd, program>>
    BY <1>3 DEF OpenDevice
  <2>3. pc'[t] = "atexit" /\ pc' \in [Threads -> Places]
    BY <1>1, <1>3, ThreadMoves DEF OpenDevice, Places
  <2>4. opened' \in Nat /\ dev_file_fd' \in 0 .. opened' /\ dev_file_fd' # 0 /\ open' = {dev_file_fd'}
    BY <1>1, <2>1, <2>2
  <2>5. handlers' = 0
    BY <2>1, <2>2
  <2>6. close_fd' = close_fd /\ ~close_fd'[t]
    BY <2>1, <2>2
  <2> QED BY <1>1, <2>2, <2>3, <2>4, <2>5, <2>6 DEF FileInv
<1>4. CASE OpenFails(t)
  <2>1. /\ program' = "aborted" /\ "open" \in MayFail
        /\ UNCHANGED <<dev_file_fd, opened, pc, close_fd>>
    BY <1>4 DEF OpenFails
  <2> QED BY <1>1, <2>1 DEF FileInv
<1>5. CASE Atexit(t)
  <2>1. pc[t] = "atexit" /\ OneFile(0) /\ ~close_fd[t]
    BY <1>5 DEF Atexit, FileInv
  <2>2. UNCHANGED <<dev_file_fd, opened, open, program>>
    BY <1>5 DEF Atexit
  <2>3. pc'[t] = "ioctl" /\ pc' \in [Threads -> Places]
    BY <1>1, <1>5, ThreadMoves DEF Atexit, Places
  <2>4. CASE handlers' = handlers + 1 /\ UNCHANGED close_fd
    BY <1>1, <2>1, <2>2, <2>3, <2>4 DEF FileInv
  <2>5. CASE close_fd' = [close_fd EXCEPT ![t] = TRUE] /\ UNCHANGED handlers
    <3>1. close_fd'[t] /\ close_fd' \in [Threads -> BOOLEAN]
      BY <1>1, <2>5
    <3> QED BY <1>1, <2>1, <2>2, <2>3, <2>5, <3>1 DEF FileInv
  <2> QED BY <1>5, <2>4, <2>5 DEF Atexit
<1>6. CASE Ioctl(t)
  <2>1. pc[t] = "ioctl" /\ OneFile(IF close_fd[t] THEN 0 ELSE 1)
    BY <1>6 DEF Ioctl, FileInv
  <2>2. UNCHANGED <<dev_file_fd, opened, open, handlers, close_fd, program>>
    BY <1>6 DEF Ioctl
  <2>3. /\ pc'[t] = IF close_fd[t] THEN "cleanup" ELSE "idle"
        /\ pc' \in [Threads -> Places]
    BY <1>1, <1>6, ThreadMoves DEF Ioctl, Places
  <2>4. CASE close_fd[t]
    BY <1>1, <2>1, <2>2, <2>3, <2>4 DEF FileInv
  <2>5. CASE ~close_fd[t]
    BY <1>1, <2>1, <2>2, <2>3, <2>5 DEF FileInv
  <2> QED BY <2>4, <2>5
<1>7. CASE Cleanup(t)
  <2>1. pc[t] = "cleanup" /\ OneFile(0)
    BY <1>7 DEF Cleanup, FileInv
  <2>2. open' = {} /\ dev_file_fd' = 0 /\ UNCHANGED <<opened, handlers, close_fd, program>>
    BY <1>7, <2>1 DEF Cleanup, con_cleanup
  <2>3. pc'[t] = "idle" /\ pc' \in [Threads -> Places]
    BY <1>1, <1>7, ThreadMoves DEF Cleanup, Places
  <2> QED BY <1>1, <2>1, <2>2, <2>3 DEF FileInv
<1> QED BY <1>2, <1>3, <1>4, <1>5, <1>6, <1>7 DEF Work

\* The end of the program: what atexit was given is called once, for the one
\* file there may be.
LEMMA EndKeepsFile ==
  ASSUME NEW t \in Threads, FileInv(t), Exit \/ RunHandler
  PROVE  FileInv(t)'
<1> USE DEF NoFile, OneFile
<1>1. CASE Exit
  <2>1. program = "running" /\ pc[t] = "idle"
    BY <1>1 DEF Exit
  <2>2. NoFile \/ OneFile(1)
    BY <2>1 DEF FileInv
  <2> QED BY <1>1, <2>2 DEF FileInv, Exit
<1>2. CASE RunHandler
  <2>1. program = "exiting" /\ UNCHANGED <<opened, pc, close_fd>>
    BY <1>2 DEF RunHandler
  <2>2. CASE NoFile
    <3>1. program' = "exited" /\ UNCHANGED <<dev_file_fd, open, handlers>>
      BY <1>2, <2>2 DEF RunHandler
    <3> QED BY <2>1, <2>2, <3>1 DEF FileInv
  <2>3. CASE OneFile(1)
    <3>1. handlers' = 0 /\ open' = {} /\ dev_file_fd' = 0 /\ program' = program
      BY <1>2, <2>3 DEF RunHandler, con_cleanup
    <3> QED BY <2>1, <3>1 DEF FileInv
  <2> QED BY <2>1, <2>2, <2>3 DEF FileInv
<1> QED BY <1>1, <1>2

(***************************************************************************)
(* ExitClosesFiles of ControllerSystem, for a program that calls           *)
(* get_con_state of the library's con.c from one thread: con_cleanup is    *)
(* registered with atexit exactly when a file is left for it, and the      *)
(* program ends with none open, whichever calls of open and atexit fail.   *)
(***************************************************************************)
THEOREM OneThreadClosesFiles ==
  ASSUME NEW t, Threads = {t}
  PROVE  Spec => []ExitClosesFiles
<1> USE DEF NoFile, OneFile
<1>1. ASSUME Init PROVE FileInv(t)
  <2>1. pc \in [Threads -> Places] /\ close_fd \in [Threads -> BOOLEAN]
    BY <1>1 DEF Init, Places
  <2>2. NoFile /\ opened = 0 /\ program = "running" /\ pc[t] = "idle"
    BY <1>1 DEF Init
  <2> QED BY <2>1, <2>2 DEF FileInv
<1>2. ASSUME FileInv(t), [Next]_vars PROVE FileInv(t)'
  <2>1. ASSUME program = "running", NEW u \in Threads, Enter(u) \/ Work(u)
        PROVE  FileInv(t)'
    <3>1. u = t
      OBVIOUS
    <3> QED BY <1>2, <2>1, <3>1, WorkKeepsFile
  <2>2. CASE Exit \/ RunHandler
    BY <1>2, <2>2, EndKeepsFile
  <2>3. CASE UNCHANGED libVars
    BY <1>2, <2>3 DEF libVars, FileInv
  <2> QED BY <1>2, <2>1, <2>2, <2>3 DEF Next, vars, LibraryNext
<1>3. ASSUME FileInv(t) PROVE ExitClosesFiles
  <2>1. Cardinality({}) = 0 /\ Cardinality({dev_file_fd}) = 1
    BY FS_EmptySet, FS_Singleton
  <2>2. NoFile => open = {dev_file_fd} \ {0} /\ handlers = Cardinality(open)
    BY <2>1
  <2>3. OneFile(1) => open = {dev_file_fd} \ {0} /\ handlers = Cardinality(open)
    BY <2>1
  <2> QED BY <1>3, <2>2, <2>3 DEF FileInv, ExitClosesFiles
<1> QED BY <1>1, <1>2, <1>3, PTL DEF Spec
===============================================================================
