---------------------------- MODULE FrameHandoff ----------------------------
(***************************************************************************)
(* What the PPU promises to the process that uses it, without driver,      *)
(* locks, DMA or clocks.                                                   *)
(*                                                                         *)
(* One process at a time owns the PPU.  It edits a draft of the frame (the *)
(* kernel's VRAM copy and the control registers) one location at a time,   *)
(* and submits it.  From then on the draft is frozen until the hardware    *)
(* has presented it, as a whole, and has acknowledged it.  A process gives *)
(* the PPU back only with an empty draft and an empty screen.              *)
(***************************************************************************)
CONSTANTS Proc,      \* the processes
          NoProc,    \* "the PPU is not open"
          Word,      \* the addresses of VRAM
          Reg,       \* the control registers
          Value,     \* what a VRAM word or a register holds
          Blank      \* the value after a reset

VARIABLES owner,     \* the process that has the PPU, or NoProc
          draft,     \* the frame being edited
          phase,     \* where the draft is on its way to the screen
          shown      \* the frame the display reads

abstractVars == <<owner, draft, phase, shown>>

Frame      == [vram : [Word -> Value], ctrl : [Reg -> Value]]
BlankFrame == [vram |-> [w \in Word |-> Blank], ctrl |-> [r \in Reg |-> Blank]]

AbstractInit ==
  /\ owner = NoProc
  /\ draft = BlankFrame
  /\ phase = "drafting"
  /\ shown = BlankFrame

Claim(p) ==
  /\ owner = NoProc
  /\ owner' = p
  /\ UNCHANGED <<draft, phase, shown>>

Edit ==
  /\ owner # NoProc
  /\ phase = "drafting"
  /\ \E v \in Value :
        \/ \E w \in Word : draft' = [draft EXCEPT !.vram[w] = v]
        \/ \E r \in Reg  : draft' = [draft EXCEPT !.ctrl[r] = v]
  /\ UNCHANGED <<owner, phase, shown>>

Submit ==
  /\ owner # NoProc
  /\ phase = "drafting"
  /\ phase' = "submitted"
  /\ UNCHANGED <<owner, draft, shown>>

Present ==
  /\ phase = "submitted"
  /\ phase' = "presented"
  /\ shown' = draft
  /\ UNCHANGED <<owner, draft>>

Acknowledge ==
  /\ phase = "presented"
  /\ phase' = "drafting"
  /\ UNCHANGED <<owner, draft, shown>>

GiveBack ==
  /\ owner # NoProc
  /\ phase = "drafting"
  /\ draft = BlankFrame
  /\ shown = BlankFrame
  /\ owner' = NoProc
  /\ UNCHANGED <<draft, phase, shown>>

AbstractNext ==
  \/ \E p \in Proc : Claim(p)
  \/ Edit
  \/ Submit
  \/ Present
  \/ Acknowledge
  \/ GiveBack

AbstractSafety == AbstractInit /\ [][AbstractNext]_abstractVars

AbstractSpec == AbstractSafety /\ WF_abstractVars(Present) /\ WF_abstractVars(Acknowledge)
=============================================================================
