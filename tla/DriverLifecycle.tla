--------------------------- MODULE DriverLifecycle ---------------------------
(***************************************************************************)
(* How the kernel modules of the PPU, the APU and the controller come and  *)
(* go: probe acquires what the driver works with, one thing after the      *)
(* other, remove gives it back, and programs use the device file meanwhile.*)
(*                                                                         *)
(* probe undoes nothing when a step fails, and does not notice when the    *)
(* mapping, the class or the device cannot be created: it goes on without. *)
(* The driver core binds the driver when probe returns 0, calls remove     *)
(* only then, and may try again later.  The file operations name no owner, *)
(* so that an open file does not keep the module: whoever removes it has   *)
(* to wait until it is closed.                                             *)
(***************************************************************************)
EXTENDS Naturals, Sequences, FiniteSets

CONSTANTS Drivers,   \* the drivers looked at, of "ppu", "apu" and "con"
          MayFail,   \* the steps of a probe that may fail
          Bases,     \* DMA addresses that dma_alloc_coherent may return
          MaxFiles,  \* open files of a driver without a lock
          LateOpen   \* a program may still open the device while remove runs

ASSUME LifecycleAssumption ==
  /\ Drivers \subseteq {"ppu", "apu", "con"}
  /\ MaxFiles \in Nat \ {0}
  /\ LateOpen \in BOOLEAN

VARIABLES drv,       \* the driver
          todo,      \* steps still to do
          phase,     \* "unbound", "probing", "bound" or "removing"
          failing,   \* the probe will return an error
          held,      \* what the driver holds
          unnoticed, \* what it lacks because creating it failed unnoticed
          files,     \* open files
          locked,    \* ppu_lock, apu_lock
          base,      \* vram_base_p
          aligned,   \* where vram_addr_v and vram_addr_p point
          bad        \* accesses to what is not there: <<who, what, unnoticed>>

vars == <<drv, todo, phase, failing, held, unnoticed, files, locked, base, aligned, bad>>

Resources == {"chrdev", "mapping", "dma", "irq", "device"}

\* The results of io_mapping_create_wc, class_create and device_create are
\* not looked at.
Unchecked == {"mapping", "device"}

(***************************************************************************)
(* The PPU and the APU are open once at most, and ppu_lock and apu_lock    *)
(* say whether they are, across probes and removals.                       *)
(***************************************************************************)
TypeOK ==
  /\ drv \in Drivers
  /\ phase \in {"unbound", "probing", "bound", "removing"}
  /\ held \subseteq Resources
  /\ unnoticed \subseteq Unchecked \ held
  /\ files \in 0 .. MaxFiles
  /\ drv # "con" => files = IF locked THEN 1 ELSE 0

----------------------------------------------------------------------------
\* The steps of probe, of remove, and what they acquire.
ProbeStepsDeviceFirst(d) ==
  CASE d = "ppu" -> <<"chrdev", "device", "mapping", "dma", "locks", "irq", "port">>
    [] d = "apu" -> <<"chrdev", "mapping", "dma", "irq", "device">>
    [] d = "con" -> <<"chrdev", "mapping", "device">>

ProbeSteps(d) ==
  CASE d = "ppu" -> <<"chrdev", "mapping", "dma", "locks", "irq", "port", "device">>
    [] d = "apu" -> <<"chrdev", "mapping", "dma", "irq", "device">>
    [] d = "con" -> <<"chrdev", "mapping", "device">>

RemoveSteps(d) ==
  CASE d = "ppu" -> <<"device", "chrdev", "mapping", "dma", "irq">>
    [] d = "apu" -> <<"device", "chrdev", "mapping", "dma", "mute", "irq">>
    [] d = "con" -> <<"device", "chrdev", "mapping">>

\* A step whose failure ends the probe at once.  apu_probe goes on without its
\* interrupt and returns the error at the end.
EndsProbe(d, step) ==
  step \in CASE d = "ppu" -> {"chrdev", "dma", "irq", "port"}
             [] d = "apu" -> {"chrdev", "dma"}
             [] d = "con" -> {"chrdev"}

\* A major number and an interrupt line have one owner.
Taken(step) == step \in {"chrdev", "irq"} \cap held

\* ppu_probe: vram_addr_v, as an offset from vram_base_v, and vram_addr_p.
AlignVram(b) ==
  IF b % 16 # 0 THEN [v |-> 8, p |-> b + 1] ELSE [v |-> 0, p |-> b]

Init ==
  /\ drv \in Drivers
  /\ todo = <<>> /\ phase = "unbound" /\ failing = FALSE
  /\ held = {} /\ unnoticed = {} /\ files = 0 /\ locked = FALSE
  /\ base = 0 /\ aligned = [v |-> 0, p |-> 0]
  /\ bad = {}

----------------------------------------------------------------------------
Probe ==
  /\ phase = "unbound" /\ phase' = "probing"
  /\ todo' = ProbeSteps(drv)
  /\ failing' = FALSE
  /\ UNCHANGED <<drv, held, unnoticed, files, locked, base, aligned, bad>>

\* On to the next step, or back to the driver core with the result.
GoOn ==
  /\ todo' = Tail(todo)
  /\ phase' = IF todo' # <<>> THEN "probing" ELSE IF failing THEN "unbound" ELSE "bound"
  /\ UNCHANGED failing

Acquire(step) ==
  /\ ~Taken(step)
  /\ held' = IF step \in Resources THEN held \cup {step} ELSE held
  /\ unnoticed' = unnoticed \ {step}
  /\ locked' = IF step = "locks" THEN FALSE ELSE locked
  /\ IF step = "dma" /\ drv = "ppu"
     THEN \E b \in Bases : base' = b /\ aligned' = AlignVram(b)
     ELSE UNCHANGED <<base, aligned>>
  /\ GoOn

\* A failure that is noticed ends the probe or, in apu_probe, its success; one
\* that is not leaves a NULL or an error in the place of what was to be created.
Fail(step) ==
  /\ Taken(step) \/ step \in MayFail
  /\ \/ /\ EndsProbe(drv, step)
        /\ phase' = "unbound" /\ todo' = <<>> /\ failing' = TRUE
        /\ UNCHANGED <<held, unnoticed>>
     \/ /\ drv = "apu" /\ step = "irq"
        /\ failing' = TRUE /\ todo' = Tail(todo)
        /\ UNCHANGED <<phase, held, unnoticed>>
     \/ /\ step \in Unchecked
        /\ held' = held \ {step} /\ unnoticed' = unnoticed \cup {step}
        /\ GoOn
  /\ UNCHANGED <<locked, base, aligned>>

ProbeStep ==
  /\ phase = "probing"
  /\ Acquire(Head(todo)) \/ Fail(Head(todo))
  /\ UNCHANGED <<drv, files, bad>>

\* The module is taken out while no program has the device open.
Remove ==
  /\ phase = "bound" /\ files = 0
  /\ phase' = "removing"
  /\ todo' = RemoveSteps(drv)
  /\ UNCHANGED <<drv, failing, held, unnoticed, files, locked, base, aligned, bad>>

\* free_irq(irq, NULL) finds no handler with this dev_id: the probe gave another.
GiveBack(step) ==
  /\ held' = IF step \in {"irq", "mute"} THEN held ELSE held \ {step}
  /\ unnoticed' = unnoticed \ {step}

\* What a step of remove goes through: the mapping or class that it gives back,
\* NULL or not, and the mapping once more to mute the APU, after it is freed.
WithoutIts(step) ==
  LET needed == IF step = "mute" THEN {"mapping"} ELSE {step} \cap Unchecked
  IN {<<"remove", r, r \in unnoticed>> : r \in needed \ held}

RemoveStep ==
  /\ phase = "removing"
  /\ GiveBack(Head(todo))
  /\ bad' = bad \cup WithoutIts(Head(todo))
  /\ todo' = Tail(todo)
  /\ phase' = IF todo' = <<>> THEN "unbound" ELSE "removing"
  /\ UNCHANGED <<drv, failing, files, locked, base, aligned>>

----------------------------------------------------------------------------
(* A program.  Every handler of a driver reads or writes through the        *)
(* mapping, and write, release and the interrupt through the DMA memory.    *)

Uses(d) == IF d = "con" THEN {"mapping"} ELSE {"mapping", "dma"}
Missing(d) == {<<"file", r, r \in unnoticed>> : r \in Uses(d) \ held}

Open ==
  /\ {"device", "chrdev"} \subseteq held
  /\ LateOpen \/ phase # "removing"
  /\ ~locked
  /\ files < MaxFiles
  /\ locked' = (drv # "con")
  /\ files' = files + 1
  /\ UNCHANGED <<drv, todo, phase, failing, held, unnoticed, base, aligned, bad>>

\* write, ioctl.
UseFile ==
  /\ files > 0
  /\ bad' = bad \cup Missing(drv)
  /\ UNCHANGED <<drv, todo, phase, failing, held, unnoticed, files, locked, base, aligned>>

Close ==
  /\ files > 0
  /\ files' = files - 1
  /\ locked' = FALSE
  /\ bad' = IF drv = "con" THEN bad ELSE bad \cup Missing(drv)
  /\ UNCHANGED <<drv, todo, phase, failing, held, unnoticed, base, aligned>>

Next ==
  Probe \/ ProbeStep \/ Remove \/ RemoveStep \/ Open \/ UseFile \/ Close

Spec == Init /\ [][Next]_vars

----------------------------------------------------------------------------
(***************************************************************************)
(* What a handler of con_fops, ppu_fops or apu_fops does not find is only  *)
(* what probe failed to create without noticing (the NULL mapping that     *)
(* io_mapping_create_wc returned).  Nothing else is ever missing, not even *)
(* for a program that opens the device while probe is still running or     *)
(* after a probe that failed, however often the driver was probed before.  *)
(***************************************************************************)
FilesAreSafe == \A a \in bad : a[1] = "file" => a[3]
=============================================================================
