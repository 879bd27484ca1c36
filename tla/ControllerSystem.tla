--------------------------- MODULE ControllerSystem ---------------------------
(***************************************************************************)
(* The controller from the pad to the program: the port of ControllerPort, *)
(* con_ioctl of the kernel driver (con.c), which reads con_state, and      *)
(* get_con_state of the library (con.c), which opens the device file at    *)
(* its first call and leaves the closing to a function given to atexit.    *)
(***************************************************************************)
EXTENDS ControllerPort, FiniteSets

CONSTANTS Threads,    \* the program's threads
          MayFail,    \* of "open" and "atexit"
          MaxFiles    \* device files ever opened

ASSUME ThreadsAssumption == MaxFiles \in Nat \ {0}

VARIABLES dev_file_fd,  \* -1, or the number of a file
          opened,       \* files opened so far
          open,         \* the files that are open
          handlers,     \* how often con_cleanup is registered with atexit
          pc,           \* where each thread is
          close_fd,     \* local of get_con_state
          ret,          \* what get_con_state returned last, -1 or a word
          program       \* "running", "exiting", "exited" or "aborted"

libVars == <<dev_file_fd, opened, open, handlers, pc, close_fd, ret, program>>
vars == <<portVars, libVars>>

Failed == {16}    \* -1: no word has a bit 16

Init ==
  /\ PortInit
  /\ dev_file_fd = 0 /\ opened = 0 /\ open = {} /\ handlers = 0
  /\ pc = [t \in Threads |-> "idle"]
  /\ close_fd = [t \in Threads |-> FALSE]
  /\ ret = [t \in Threads |-> {}]
  /\ program = "running"

Goto(t, place) == pc' = [pc EXCEPT ![t] = place]

----------------------------------------------------------------------------
\* The driver.
con_ioctl == con_state

\* get_con_state, one step per call that it makes.
Enter(t) ==
  /\ pc[t] = "idle"
  /\ Goto(t, IF dev_file_fd = 0 THEN "open" ELSE "ioctl")
  /\ close_fd' = [close_fd EXCEPT ![t] = FALSE]
  /\ UNCHANGED <<dev_file_fd, opened, open, handlers, ret, program>>

OpenDevice(t) ==
  /\ pc[t] = "open" /\ opened < MaxFiles
  /\ opened' = opened + 1
  /\ dev_file_fd' = opened' /\ open' = open \cup {opened'}
  /\ Goto(t, "atexit")
  /\ UNCHANGED <<handlers, close_fd, ret, program>>

\* noway.
OpenFails(t) ==
  /\ pc[t] = "open" /\ "open" \in MayFail
  /\ program' = "aborted" /\ open' = {}
  /\ UNCHANGED <<dev_file_fd, opened, handlers, pc, close_fd, ret>>

AtexitKeepingFile(t) ==
  /\ pc[t] = "atexit"
  /\ \/ handlers' = handlers + 1 /\ UNCHANGED close_fd
     \/ "atexit" \in MayFail /\ UNCHANGED <<handlers, close_fd>>
  /\ Goto(t, "ioctl")
  /\ UNCHANGED <<dev_file_fd, opened, open, ret, program>>

Atexit(t) ==
  /\ pc[t] = "atexit"
  /\ \/ handlers' = handlers + 1 /\ UNCHANGED close_fd
     \/ /\ "atexit" \in MayFail
        /\ close_fd' = [close_fd EXCEPT ![t] = TRUE] /\ UNCHANGED handlers
  /\ Goto(t, "ioctl")
  /\ UNCHANGED <<dev_file_fd, opened, open, ret, program>>

Ioctl(t) ==
  /\ pc[t] = "ioctl"
  /\ ret' = [ret EXCEPT ![t] = IF dev_file_fd \in open THEN con_ioctl ELSE Failed]
  /\ Goto(t, IF close_fd[t] THEN "cleanup" ELSE "idle")
  /\ UNCHANGED <<dev_file_fd, opened, open, handlers, close_fd, program>>

\* The outcome of con_cleanup; without a file noway ends the program.
con_cleanup ==
  IF dev_file_fd = 0
  THEN program' = "aborted" /\ open' = {} /\ UNCHANGED dev_file_fd
  ELSE open' = open \ {dev_file_fd} /\ dev_file_fd' = 0 /\ UNCHANGED program

Cleanup(t) ==
  /\ pc[t] = "cleanup"
  /\ con_cleanup
  /\ Goto(t, "idle")
  /\ UNCHANGED <<opened, handlers, close_fd, ret>>

\* The program ends: exit() calls what atexit registered, once each.
Exit ==
  /\ program = "running" /\ \A t \in Threads : pc[t] = "idle"
  /\ program' = "exiting"
  /\ UNCHANGED <<dev_file_fd, opened, open, handlers, pc, close_fd, ret>>

RunHandler ==
  /\ program = "exiting"
  /\ IF handlers = 0
     THEN program' = "exited" /\ UNCHANGED <<dev_file_fd, open, handlers>>
     ELSE handlers' = handlers - 1 /\ con_cleanup
  /\ UNCHANGED <<opened, pc, close_fd, ret>>

Work(t) == OpenDevice(t) \/ OpenFails(t) \/ Atexit(t) \/ Ioctl(t) \/ Cleanup(t)

LibraryNext ==
  \/ program = "running" /\ \E t \in Threads : Enter(t) \/ Work(t)
  \/ Exit \/ RunHandler

Next ==
  \/ PortNext /\ UNCHANGED libVars
  \/ LibraryNext /\ UNCHANGED portVars

Spec == Init /\ [][Next]_vars

\* The hardware runs and a call returns; nobody has to make one.
FairSpec ==
  /\ Spec
  /\ WF_vars((PosChange \/ NegChange) /\ UNCHANGED libVars)
  /\ WF_vars(Tick60 /\ UNCHANGED libVars)
  /\ \A t \in Threads : WF_vars(program = "running" /\ Work(t) /\ UNCHANGED portVars)

----------------------------------------------------------------------------
TypeOK ==
  /\ PortTypeOK
  /\ dev_file_fd \in 0 .. opened /\ opened \in 0 .. MaxFiles
  /\ open \subseteq 1 .. opened /\ handlers \in 0 .. opened
  /\ pc \in [Threads -> {"idle", "open", "atexit", "ioctl", "cleanup"}]
  /\ close_fd \in [Threads -> BOOLEAN]
  /\ ret \in [Threads -> SUBSET (0 .. 16)]
  /\ program \in {"running", "exiting", "exited", "aborted"}

(***************************************************************************)
(* "The fd will be closed by a function registered to atexit()" (con.c),   *)
(* and when atexit fails by get_con_state itself: when the program exits   *)
(* the only file still open is the one dev_file_fd names, con_cleanup is   *)
(* registered once for it and not at all without one (noway would abort    *)
(* the exit), and afterwards none is open.                                 *)
(***************************************************************************)
ExitClosesFiles ==
  /\ program = "exiting" =>
       open = {dev_file_fd} \ {0} /\ handlers = Cardinality(open)
  /\ program = "exited" => open = {}
  /\ program = "aborted" => "open" \in MayFail

(***************************************************************************)
(* A program that keeps asking sees the buttons that are held down and no  *)
(* others, once they stay as they are.                                     *)
(***************************************************************************)
ProgramSees ==
  \A t \in Threads : \A pressed \in SUBSET Buttons :
    <>[](held = pressed) /\ []<>(pc[t] = "ioctl")
      => <>[](\A b \in Button : CON_IS_PRESSED(ret[t], b) <=> b \in pressed)
=============================================================================
