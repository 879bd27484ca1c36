# Verification of FP-GAme

FP-GAme turns a DE10-Nano board into a small game console. Its programs run
under Linux on the two ARM cores of the board's HPS; picture and sound are made
by an FPGA, which reads what the programs prepare in SDRAM. This directory holds
TLA+ models of the library, the drivers and the circuits, the TLC runs that check
them, and TLAPS proofs, for every value of the constants, of the hand-off between
software and hardware, of its refinements, and of the circuits it rests on.

Contents: [the system](#the-system) ·
[the modules](#the-modules-and-the-code) ·
[what the runs check](#the-runs) · [fairness](#fairness) ·
[what is proved](#the-proofs) · [findings](#findings) ·
[other divergences](#other-divergences) ·
[what is not modelled](#what-is-not-modelled) · [the plan](#the-plan)


## The system

    program ── Library/src ── ioctl, write, signals ── Kernel/{ppu,apu,con}
                                                          │ MMIO, IRQ, SDRAM
                                                       fpgame.sv (PIOs, IRQs)
                                                          │
              ppu.sv ─ dma_engine ─ VRAM-C ─ sync ─ VRAM-P ─ ppu_logic ─ HDMI
              apu.sv ─ sample_fetcher ─ chunk_player ─ i2s_comm
              ioss.sv ─ controller.sv

| Component | State | Operations | What makes it correct |
|---|---|---|---|
| PPU driver (`Kernel/ppu/ppu.c`) | `ppu_lock`, `vram_lock`, the kernel's copy of VRAM, the control registers it writes | open, write, ioctl, release, `ppu_irq` | the copy is never written while the DMA engine may read it; the lock always comes free; nothing of one process is left for the next |
| PPU state machine (`ppu.sv`) | three states, a few pulses, `dma_rdy_for_sync` | accept an address, start the DMA, sync in the vertical blank, raise the interrupt | one interrupt per accepted address, after all of the frame is in VRAM-P |
| DMA address PIO (`pio_write_w_avail.sv`) | `update_avail` | write, acknowledge | no address is lost |
| DMA engine (`dma_engine.v`) | counters, FIFO, `started`, `done` | read SDRAM, write VRAM-C | every word, once, in order |
| VRAM, interconnect, sync writer | VRAM-C, VRAM-P, four sync writers | write by DMA, copy, read by `ppu_logic` | no reader while there is a writer |
| Control registers (`dbuf_ppu_ctrl_regs.sv`) | two copies | copy on `vram_sync` | they change together with VRAM-P |
| PPU logic, sprite engine, row RAMs | row buffers, done latches, OAM counters | tile, sprite and mixer stages per row | a row is complete before it is shown; 16 sprites per row; priorities |
| HDMI output and its I2C set-up | video counters, LUT index | sync and blank pulses, register writes with retry | the blank is long enough for a sync; each register is acknowledged |
| APU driver (`Kernel/apu/apu.c`) | `apu_lock`, `sample.req`, `sample.pid`, `write_lock`, `active_buf`, two buffers | open, ioctl, write, release, `apu_irq` | a buffer does not change while it is in use; the process is asked again and again |
| APU (`apu.sv`, `sample_fetcher.sv`, `chunk_player.sv`, `i2s_comm.sv`) | queued buffer, interrupt, fetcher, player, serialiser | queue, fetch, play, raise the interrupt | samples come out whole, in order, once |
| APU library (`Library/src/apu.c`) | the callback, the file, the signal mask | enable, disable, block, handle a signal | a signal finds a callback |
| Controller (`ioss/`, `Kernel/con`, `Library/src/con.c`) | shift register, bit counter, the published buttons | poll 60 times a second, read | a published word is one complete sample |
| PPU library (`Library/src/ppu.c`) | the file | load files, write tiles, patterns, palettes, sprites | the bytes written are those the layout of VRAM asks for |

How they interact. `ppu_update` locks the kernel's VRAM and writes its address
to a PIO; the PPU transfers it to VRAM-C, waits for the vertical blank, copies
VRAM-C to VRAM-P together with the registers, and interrupts; only the interrupt
handler gives the lock back. `apu_ioctl` arms the APU's interrupt; it is raised
when no buffer is queued; the handler notes the request and signals the process,
whose signal handler asks the callback for samples and writes them; `apu_write`
fills the buffer that is not active, queues it, and the driver arms the interrupt
again. The controller is only read: its port publishes a word sixty times a
second, and a program asks for it when it likes. Within the FPGA the video output
leads: its swap pulse starts the preparation of a row, the tile engines start the
sprite engine and hand it their port of Pattern-RAM, the last engine starts the
mixer, and the mixer fills one row RAM while the video output reads the other.

What is hard. Two cores, an interrupt handler, several threads, and a clocked
circuit share locks, memory and registers, with no other synchronisation than
the order in which things happen. A lock is taken by one party and given back by
another. Pulses are one clock long and must not be missed. Drivers are closed
and opened again while the hardware is still busy. `PROJECT.json` lists these
hazards line by line, with the properties that cover each.


## The modules and the code

| Module | Stands for | |
|---|---|---|
| `FrameHandoff` | | abstract: what the PPU promises to a process |
| `PpuBus` | shared state of driver and PPU | extended by the next two |
| `PpuDriver` | `Kernel/ppu/ppu.c` | one action per step of a system call |
| `PpuCore` | `ppu.sv`, `dma_engine.v`, sync writer, control registers, PIO, video timing | one action, `Clock`, with a conjunct per register |
| `PpuSystem` | | driver and PPU together, the properties, the refinement of `FrameHandoff` |
| `PpuSystemProofs` | | theorems: the lock, the stages, the timing, the data of a hand-off, what a release leaves, and the refinement of `FrameHandoff` |
| `DmaEngine` | `dma_engine.v` | the engine clock by clock; it implements the one of `PpuCore` |
| `DmaEngineProofs` | | theorems |
| `SyncWriter` | `sync_writer.sv`, two-clock memories | operators on one writer; used by all that follow |
| `VramSync` | `vram_sync_writer.sv`, `vram_interconnect.sv` | four writers, their latches, the address decoder, in real sizes |
| `TileEngine` | `tile_engine.sv`, `indirect_sync_writer.sv` | one tile engine clock by clock |
| `SpriteRow` | `sprite_engine/` | scanner, manager, the chain of units, tournament |
| `PpuLogic` | `ppu_logic.sv` | the two together, with the port of Pattern-RAM they share |
| `PpuLogicProofs` | | theorems about `PpuLogic`, and about `VramSync`, which has the same sync writer |
| `RowScan` | `pixel_mixer.sv`, `row_ram_swap.sv`, `hdmi_video_output.sv` | mixer, row RAMs and video output, with both clocks |
| `RowScanProofs` | | theorems about the screen |
| `SampleStream` | | abstract: what the APU promises to a process |
| `ApuHardware` | `apu.sv`, `sample_fetcher.sv`, `chunk_player.sv` | the operator `Clock`, with the driver's MMIO writes as inputs |
| `ApuDriver` | `Kernel/apu/apu.c`, `Library/src/apu.c` | one action per step; an MMIO write is a clock |
| `ApuSystem` | | driver and APU together, the properties, the refinement of `SampleStream` |
| `ApuSystemProofs` | | theorems, with the refinement of `SampleStream` |
| `ControllerPort` | `controller.sv` | the port, edge by edge of its divided clock |
| `ControllerSystem` | `Kernel/con/con.c`, `Library/src/con.c` | port, driver and library together |
| `ControllerProofs` | | theorems about the two |
| `VramLayout` | `Library/src/ppu.c`, `ppu.h` | which bytes a call stores, and where |
| `VramPicture` | addressing in `ppu_logic/` | which bytes the PPU reads for a place of the picture |
| `PpuLibrary` | `Library/src/ppu.c`, `noway.c` | calls as sequences of system calls that may find the PPU busy |
| `PpuLoaders` | `ppu_load_...` of `Library/src/ppu.c` | one turn of a loader's loop per step |
| `PpuLibraryProofs` | | theorems about the two |
| `DriverLifecycle` | probe and remove of `Kernel/{ppu,apu,con}` | one resource per step |
| `DriverLifecycleProofs` | | theorems |

`MCPpuSystem`, `MCApuSystem`, `MCDmaEngine`, ... give the constants of a module
their values for TLC.

How they compose. `PpuDriver` and `PpuCore` share the variables of `PpuBus`;
`ApuDriver` calls the clock of `ApuHardware`; `ControllerSystem` extends
`ControllerPort`; `PpuLogic` instantiates `TileEngine` and `SpriteRow` over the
read port they share. What is abstract in one module is detailed in
another: the FIFO and the copy of `PpuCore` in `DmaEngine` and `VramSync`, the
driver that `PpuLibrary` calls in `PpuSystem`, the prepared row that `RowScan`
mixes in `PpuLogic`, the tiles and patterns that `TileEngine` names in
`VramPicture`.

`PROJECT.json` maps every definition to its lines. Variables keep the names of
the code. Definitions such as `IoctlUpdateUnlocking`, whose name adds a word to
the one of the definition that follows it, are mutants: the code with a plausible
mistake. Each property is violated by one of them, which shows that the property
says something about the code.

**Steps of software.** A system call is cut wherever another core, the interrupt
handler or the hardware could see the difference: at each `atomic_xchg` and
`atomic_set`, each MMIO write, each word or chunk stored in shared memory. What
happens in between is one action. `pc[t]` is where thread `t` is. The interrupt
handlers run on another core, interleaved with the rest; `ppu_irq` is one
action (it has a single access to shared state), `apu_irq` four. A
system call that fails without a trace is a stuttering step.

**Steps of hardware.** A clock edge is one action that gives every register its
next value, read from the registers before the edge. Memory grants and video or
audio timing are inputs: SDRAM may answer in any clock, I2S may ask for a sample
in any clock. The PPU's clocks interleave freely with the steps of the software;
this includes every relative speed of the two.

**PPU driver.** `vram_lock` guards the kernel's VRAM. `WriteLock`, `CopyWord`,
`WriteUnlock` are `ppu_write`; `IoctlLock` and `IoctlUpdate`, `IoctlSet` or
`IoctlInvalid` with `IoctlUnlock` are `ppu_ioctl`, where `IoctlUpdate` returns
with the lock held. `Release` to `ReleaseUnlockPpu` are `ppu_release`: the first
spin waits for a hand-off in progress, then VRAM and the registers are cleared
and submitted, and the second spin waits for that. `Release` runs when no thread
of the process is in another call on the file, as the kernel calls it only when
the last reference is dropped. A copy that faults half-way is a `WriteUnlock`
before the end.

**PPU hardware.** `state`, `vram_sync`, `dma_rdy_for_sync`, `dma_engine_start`
and the interrupt are the registers of `ppu.sv`. `timer` counts clocks from the
start of the vertical blank; the PPU sees each pulse of the slower video clock
for two clocks. The DMA engine reads and writes words through a FIFO of
`FifoDepth`. The four segments of VRAM are one memory of `NumWords` words, copied
a word per clock.

**APU driver and library.** The main program of a process goes through
`Open`, `Register`, `Ioctl…` (`apu_enable`), `Close`, `Release…`, `Forget`
(`apu_disable`), with `Mask` for blocking and unblocking the signal. The signal
handler runs from `Deliver` on, only while the main program is outside the
kernel. `Write…`, `Copy…`, `SendBuf`, `Flip` are `apu_write`. The callback that
`Register` notes is always `"valid"` or supplies `"any"` buffers: too many bytes,
or pointers that fault half-way.

**APU hardware.** `buf_irq` is a level: it stays up while the interrupt is armed
and nothing is queued. A buffer is `NumChunks` chunks; the contents of a chunk
are a value, its samples a counter of `ChunkLen`.

**DMA engine.** A step of `DmaEngine` is a clock. `ReadMaster` and the operators
beside it are the read master, `Fifo` the pointers, flags and memory of the
FIFO, `EngineClock` the counters, `started` and `done`. The two buses are
inputs: the read bus may let the master wait and answers later, in order; the
write bus may let it wait. `fifo` reconstructs the sequence of `PpuCore` from
the pointers; `Core` is `PpuCore` with that sequence.

**VRAM copy.** `Step` clocks `vram_sync_writer` and its four sync writers, each
a record of `SyncWriter`; `latch` holds the completions. `Demux` is the address
decoder of the interconnect, from the bits it looks at. A transfer is one step,
as the PPU never starts a sync during one (`SyncIsolated`).

**Preparing a row.** `PpuLogic` clocks both engines; `Swap` asks for the next
row with any scroll position and any OAM of `Scenes`. In `TileEngine`, `fetcher`
copies eleven chunks of tiles, then `Indirect` looks up two pixel rows of each
of 44 tiles; the port of Pattern-RAM belongs to the sprite engine while `mux` is
set. In `SpriteRow`, `NextScanner` reads OAM, `NextManager` fetches patterns,
`NextUnit` moves sprites down the chain.

**From row to screen.** `RowScan` has the line and pixel counters, the state
machine of the video output, the mixer, and two row RAMs whose ports are
exchanged by `swapped`. The pixel clock is every second edge of the PPU's.

**Controller.** A word is a set of bits. `PosChange` and `NegChange` are the
edges of the divided clock, `Tick60` the timer; buttons change between any two
steps. A thread of `ControllerSystem` opens the file, registers its closing with
`atexit` and asks for `con_state`.

**PPU library.** `VramLayout` has an operator per call of `ppu.h`, which returns
the requests it sends: writes of bytes, ioctls, or the end of the program
(`noway.c`). `VramPicture` has the other side: `Reads` is what the tile, sprite
and colour logic finds at a place of the picture. In `PpuLibrary` a thread
begins a call, sends its requests one at a time, and returns, busy or done;
`promised` is what its calls have said about each place, `dirty` the places of
which a call has not said its last word. `OtherProgram` lets another process use
the PPU between two sessions.

**Loaders.** A token of a file is matched wholly, in part or not at all;
`Result` is what `fscanf` returns, and what it does not match stays what it was.

**Lifecycle.** `ProbeSteps` and `RemoveSteps` list what probe and remove do, in
order. A step may fail, and what was acquired before stays. A failure that probe
looks for ends it (in `apu_probe`, the interrupt's only its success); one that it
does not look for, of the mapping, the class or the device, is noted in
`unnoticed`, and probe goes on. `bad` collects accesses to what is not there.


## The runs

Each run asks one question.

| Run | Instance | Properties | Shows |
|---|---|---|---|
| `ppu` | 2 threads of one process, 1 of another, 2 words, 2 registers | `TypeOK`, `VramExclusive`, `OneStage`, `SyncIsolated`, `AcknowledgedIsShown`, `ClosedIsBlank`, `FrozenInFlight`, `LockComesFree`, `ReleaseReturns`, `ImplementsFrameHandoffLive` | frames are handed over whole and isolated, every one is shown and acknowledged, nothing is left for the next process |
| `apu` | 1 session, 2 chunks of 2 samples | `TypeOK`, `OneRequest`, `InUseUnchanged`, `SamplesWanted`, `ImplementsSampleStreamLive` | requests are single, buffers in use are safe, samples are heard as submitted and in the end |
| `apu_reopen` | 2 sessions | `InUseUnchanged` violated | finding 1 |
| `library` | 4 programs that draw, the fourth of 2 threads; one that loads: 3 loaders, all files of up to 3 tile tokens, pictures of 1 to 9 tiles, 0 to 17 colours | `DrawnAsPromised`, `StoresWhereItSays`, `SpriteShowsItsPattern`, `BusyOnlyAtFirst`, `PollingSucceeds`, `TilemapAsInFile`, `SquareAsDrawn`, `SixteenLines` | what the PPU reads is what was drawn, whatever was busy meanwhile; what is loaded is what was in the file, also in short and broken ones |
| `two` | one call with 2 sprites | `DrawnAsPromised` violated | finding 2 |
| `lifecycle` | 3 drivers, every step that can may fail | `FilesAreSafe` | a file operation misses nothing but a mapping whose failure went unnoticed |
| `controller` | 2 buttons, 1 thread, `open` and `atexit` may fail | `ExitClosesFiles`, `PublishesOnePoll`, `ProgramSees` | a word is one poll; what is held is seen; no file stays open |
| `dma` | 12 words, FIFO of 4 | `EndsDrained`, `ImplementsDmaEngine`, `TransferEnds` | the FIFO is the sequence of `PpuCore`, and the transfer ends |
| `copy` | memories of full size, 2 frames | `DoneIsCopied`, `DoneOncePerSync`, `SyncEnds` | `done` comes after the last word of all four, once |
| `engines` | 12 scroll positions, 261 OAMs of 4 sprites, 2 of them on a line, rows 238 and 239 | `RowIsPrepared`, `SpritesAreRight`, `ReadyInTime` | a prepared row is the right one, in time |
| `picture` | lines of full length, 6 of them visible | `PictureIsRight`, `LayersInOrder`, `SwapFindsRowDone` | every pixel of the tile layers on the screen is the one that belongs there; layers lie in their order |
| `sprite_column` | the same lines, 2 of them visible | `SpritesInTheirColumn` violated | finding 3 |

*PPU properties.* `VramExclusive` is rule 2 of `ppu.c`: the lock is held exactly
while one thread is in a section or a hand-off is under way, never both.
`OneStage` says that a hand-off is at one stage at a time. Together they explain
why `ppu_irq` may unlock without asking, and why no address is lost though the
PIO forgets it after one clock, accepted or not. `FrozenInFlight`: from
submission to interrupt nothing changes the kernel's VRAM or the registers. `SyncIsolated`: the sync writer runs only inside
the blank and never together with a transfer. `AcknowledgedIsShown`: at the
interrupt, VRAM-P and the registers are what was submitted. `ClosedIsBlank`:
while the device is closed, kernel, VRAM-C, VRAM-P and registers are blank.
`ImplementsFrameHandoffLive`: driver and hardware implement `FrameHandoff`, both
its steps and its promise that every frame submitted is presented and
acknowledged.

*Inside the FPGA.* `ImplementsDmaEngine`: each clock of the pointers and flags
is a clock that the engine of `PpuCore` allows, so that what the proofs say of
its sequence holds of the circuit. `EndsDrained`: `done` flushes the FIFO, and
no read is then under way whose answer would start the next frame.
`DoneIsCopied` needs the two clocks of read latency, the four lengths and the
latches to agree; `DoneOncePerSync` that the latches are cleared in time.
`RowIsPrepared` and `SpritesAreRight` compare what the mixer will read, at every
clock at which it may, with definitions that know nothing of buffers, addresses
or clocks: `LayerPixel` and `Expected`. `PictureIsRight` does the same for the screen
without sprites. With sprites `LayersInOrder` asks for the order of the layers
over the right tile pixel; it leaves open which of three neighbouring columns the
sprite pixel is from, as that is wrong in the code (finding 3,
`SpritesInTheirColumn`).

*APU properties.* `OneRequest`: a request is armed, in the interrupt handler,
noted, or being answered, and only one of these. `InUseUnchanged` is the rule at
the head of `apu.c`. `ImplementsSampleStreamLive`: chunks leave the APU's
player in the order of submission, none lost, repeated or altered, all of them in
the end, and a buffer joins only behind at most one buffer and one chunk. What
is heard is another variable of `SampleStream`, `sound`: it is what goes to I2S,
zeros when `apu_en` is off. As long as a process has the APU enabled, what leaves
the player is what is heard; a configuration written without `APU_ENABLE`, by an
interrupt or a write of samples, would break this. Once `apu_disable` is called
nothing is promised of `sound` but that it is the chunk or silence: the rest of
the stream drains unheard (see [other divergences](#other-divergences)).
`SamplesWanted`: whenever nothing is queued in an enabled APU, something will
be, or the process blocks the signal or closes.

*Library properties.* `DrawnAsPromised`: once a call has returned successfully,
the PPU finds at each place what the call said it would put there, until another
call names the place, whatever other threads, hand-offs and processes did in
between. `StoresWhereItSays`: no byte outside the places named is stored.
`SpriteShowsItsPattern`: the address generator of the sprite engine walks a
pattern as `ppu_write_pattern` laid it out. `BusyOnlyAtFirst`: in a program of
one thread a call that returns busy has done nothing, which is what makes
polling correct; with several threads it may have been half done.
`ExitClosesFiles`: a program that has exited has closed the controller, or never
opened it.

`TypeOK` is a property of the two runs whose theorems state it, in any instance.
In `PpuLogic` it is proved without being run; in the other modules it documents
the variables.

**Bounds.**
- `ppu`: words, registers and values are few, as the code treats all words
  alike; what matters is that there are several, so that a copy can be half-way
  and a reset half done, and that two values differ. `FrameLen` and `VBlankLen`
  stand for 840000 and 68800 clocks. They are the smallest that satisfy
  `TimingAssumption` with a display phase long enough for a transfer to end in
  it; a slow memory makes a transfer end in any phase. Two threads are enough
  for a race for a lock; the third, of another process, for what release leaves
  behind. The proofs drop these bounds.
- `apu`: one session; `MaxSessions` also bounds the counter in the guard of
  `Open`. With two, `apu_reopen` fails. One process: a second one cannot open
  the device during the session. The proofs hold for any number. The queue of
  signals (`SIGRTMAX` is queued, not merged) needs no bound: each needs a
  request, and in one session there is one at a time.
- `dma`: 12 words go round a FIFO of 4 three times; the circuit has 32 slots for
  3348 words. A pointer is compared, counted down and wrapped, never used in
  another way.
- `copy`: the memories have their real sizes, as their borders are the question;
  the contents are kept of the first two, the last two and one more word of
  each.
- `engines`: a row of 44 tiles in full. The scroll positions are those at the
  borders of pixel, tile, chunk and layer. Four OAM entries and two units show a
  line that fills before OAM ends, one that does not, and an OAM with no sprite
  on the row; rows 238 and 239 are where a limit of eight bits would wrap.
- `picture`: lines have all 800 clocks and 320 columns; there are 2, 3, 6 and 2
  lines of sync, back porch, picture and front porch for 2, 33, 480 and 10.
  `EngineTime` is 600 clocks, more than the about 70 of a tile engine and the
  340 of the sprite engine (`ReadyInTime`) one after the other. Opacity and
  priority vary along the columns so that all combinations occur. The
  theorems have any of these.
- `sprite_column`: the smallest frame of which a row is shown.
- `library`: tiles, patterns, palettes and sprites at the corners of their
  sections, over their edges and refused; each program is a set of calls made in
  any order, any number of times. `MCPpuProgram` has the drawing programs and the
one that loads in one instance, as both are calls of `Library/src/ppu.c`; the
loaders share nothing with the drawing calls, so a program that draws has only an
empty file to load.
- `controller`: the first and the last button sent. All take the same path.
- `lifecycle`: `MaxFiles` bounds the open files of the controller, which has no
  lock. No program opens a device while its remove runs (`LateOpen`): the kernel
  would take the file away under it, which is outside this code.

No run disables the deadlock check: a clock or another program can always go on.


## Fairness

- *The clock runs* (`WF(Hardware)`): the PPU's clock and the video counters are
  free-running.
- *Memory answers* (`Hardware /\ DmaMoves`, `Hardware /\ FetchMoves`): the SDRAM
  controller serves every master in bounded time. It is a separate conjunct, as
  a clock in which the DMA engine waits is a legal clock.
- *I2S asks for samples* (`Hardware /\ PlayMoves`): the word select is a divided
  clock.
- *An interrupt is taken* (`PpuIrq`, `IrqStep`): interrupts are enabled in every
  section of the drivers; the PPU's edge is latched by the interrupt controller,
  the APU's line stays up.
- *A thread inside the kernel goes on* (`KernelStep(t)`, `CallStep(p)`), and *a
  signal that is not blocked is delivered* (`HandlerStep(p)`): the Linux
  scheduler. Weak fairness of a spin is weak: `ReleaseAcquire` is fair
  only if the lock stays free, which it does as the releasing thread is the
  only one that has the file.
- *The circuits inside the PPU*: `DmaEngine` has `WF` of its clock, and `SF` of
  an accepted read, an answer and an accepted write: an Avalon slave does not
  refuse a master for ever, though it may in any clock. `VramSync` has `WF` of
  `Run`.
- *The controller's timer and divided clock run* (`WF` of the edges together and
  of `Tick60`), and a thread that has begun to ask gets on (`Work(t)`).
- *The library*: a thread inside a call goes on, or polls if its program does
  (`LibraryStep(t)`); a hand-off ends (`HandOffDone`), which is `LockComesFree`
  of `PpuSystem`.

Nothing makes a program call the driver: `Open`, `WriteLock`, `IoctlLock`,
`Release`, `Close`, `Mask`, and in the library `Begin`, have no fairness.
Nothing makes anybody press or release a button: `ProgramSees` speaks of buttons
that stay as they are from some moment on.


## The proofs

TLAPS checks the modules named `...Proofs`. Liveness, `ENABLED`, and what needs
induction over data stay with TLC. Each inductive invariant was checked by TLC
on the instance of its run before it was proved.

**PPU**, for every number of threads, processes, words and registers, every FIFO
depth and every timing. The assumptions are those of the modules:
`BusAssumption` and `DriverAssumption` (non-empty memory, each thread has a
process), and `TimingAssumption`: a sync of `NumWords` words fits into the
vertical blank with two clocks to spare. In the circuit the blank is 68800 clocks,
against 3350 for all words of VRAM one after the other; the four segments are
copied at once, the longest of 2048 words.

1. `TypeCorrect` — `[]TypeOK`.
2. `HandOffCorrect` — `VramExclusive /\ OneStage` is inductive. A thread's step
   does one of five things to the lock (`ThreadSteps`: keep out, take, keep,
   drop, hand over), a clock moves a hand-off to its next stage. Neither
   half is inductive alone: exclusion needs that no interrupt is raised twice,
   and the stages need that nobody writes the PIO during a hand-off.
   Hence `VramIsExclusive`, `StagesAreDistinct`.
3. `FrameIsFrozen` — only holders of the lock store (`OnlyHoldersStore`), and
   there are none during a hand-off.
4. `TimingCorrect` — `SyncTiming` ties the sync address to the clocks since
   `vblank_start`; with `TimingAssumption` a sync ends before `vblank_end_soon`.
   Hence `SyncIsIsolated`.
5. `DataCorrect` — `DataInv` says which words have arrived: what was written is
   a prefix of the kernel's VRAM, the FIFO holds the words between the two
   counters, VRAM-C equals the kernel's copy from `done` on, and VRAM-P equals
   VRAM-C up to the sync address. Its induction uses 1 to 4.
   Hence `AcknowledgedFrameIsShown`.

**APU**, for every number of processes, chunks and samples.

1. `TypesCorrect` — `TypeInv`, in any number of sessions: types, and that the
   fetcher waits for the memory only on behalf of a buffer. Hence `TypeCorrect`.
2. `RequestsCorrect`, for one session (`MaxSessions = 1`) — `ApuInv` is
   inductive. It has four parts. `Alone`: only the process that opened the APU is
   ever signalled or writes. `FirstRequest`: the APU is quiet until `apu_ioctl`
   arms it. `RequestInv` is `OneRequest` with the faulted copy counted as
   an answer and with an empty queue while a buffer is filled. `BufferInv` says
   which buffer is where: the queue holds the one sent last, the fetcher
   that one if the queue is empty and the other one if it is not. Most steps
   stand aside (`Aside`); the rest are a clock, the three steps
   that move a request, and `Flip`. Hence `RequestsAreSingle`.
3. `BuffersInUseAreSafe` — `InUseUnchanged`: `apu_write` stores only in the
   buffer that is not active, at a time when the queue is empty, hence the
   fetcher has the active one or none.

The hypothesis `MaxSessions = 1` is needed: `apu_reopen` is the counterexample
without it.

4. `SamplesAreHeard`, for one session — driver, library and APU implement the
   steps of `SampleStream`: what has been played, what is in the player, what the
   fetcher has still to read and what is queued, one after the other, is what was
   submitted. `FetcherInv` adds that the fetcher asks the memory only when its
   chunk has been played and begins a buffer at its first chunk. A step without
   a clock changes none of the four (`StoresAreInaudible`, from 3); a clock moves
   a chunk from one to the next (`ClockRefines`). That it is heard needs
   `HeardInv`: `apu_en` is on from the end of `apu_ioctl` to the write of
   `apu_release`, since the interrupt handler and `apu_write` write the
   configuration with `APU_ENABLE` (`ClockMutes`), and samples are only written
   by a process that has the APU enabled (`WritersAreEnabled`).

**What a process leaves, and the promise of the PPU** (also `PpuSystemProofs`), under
the assumptions of the hand-off.

1. `ReleaseCorrect` — `ReleaseInv` is inductive beside the invariants above.
   `OneOwner`: whoever is inside the driver is a thread of the process that has
   it open, and a release is alone. `Erased` says how far each step of
   `ppu_release` has come; its second spin ends only when the blank frame has
   passed through VRAM-C to the screen (`AckedInVramC`). Hence
   `ClosedPpuIsBlank`: it needs both spins, as a hand-off in progress would
   otherwise show the old frame after the registers are cleared.
2. `FramesAreHandedOff` — the initial states of `PpuSystem` are those of
   `FrameHandoff`, and each step is a `Claim`, `Edit`, `Submit`, `Present`,
   `Acknowledge` or `GiveBack` of it, or nothing. A clock presents the frame or
   does nothing, by the stage of the hand-off (`OneStage`) and the contents that
   `DataInv` gives; the rest are steps of the driver (`DriverRefines`).

**DMA engine** (`DmaEngineProofs`), for every length of the transfer, every depth
of the FIFO from two on, every wait and every delay of the buses.

1. `DmaCorrect` — `DmaInv` is inductive. `Lengths`: what is still to be written is
   what is still to be read and what is in flight, and a read is on the bus only
   if there is room for its answer. `Pointers`: `estimated_wraddress` runs ahead
   of the read pointer by as much as is in flight, which is why its meeting the
   read pointer means full. `WordBeside`: the word in the register beside the
   memory is the one at the read pointer. The invariant is needed as the flag
   `fifo_full` is about reads that are not answered yet, and may stay set for
   a clock too long but never be missing.
2. `EngineIsFifo` — `ImplementsDmaEngine`. `Words` is what is stored from the read
   pointer on; an answer moves the border between what is stored and what is to
   come (`WordComes`), a write takes the head (`WordLeaves`), a read joins at the
   end (`WordAsked`). So the theorems about `PpuCore` hold with this circuit in
   its place.
3. `NothingIsLeft` — `EndsDrained`.

**VRAM copy** (the last part of `PpuLogicProofs`). The sizes are those of the circuit; the proof is
for any set of watched words, hence for all 3348 at once.
`SyncInv`: of a writer under way, two addresses are on their way through the
memory and all words before `addr_to` are copied; a writer that has stopped
has copied its memory; only such a writer's latch is set; between two syncs
nobody works. Hence `DoneMeansCopied` and `DoneIsOnce`. `DemuxIs` and
`DemuxInjective` say where the decoder puts each word, and no two in one place.

**Controller** (`ControllerProofs`), for any buttons pressed at any moment.

1. `PollsArePublished` — `PortInv`: while a poll is under way, the pad has shifted
   once for every bit counted, and `new_input` ends in the bits received, which
   are one more than those counted between the two edges of the divided clock.
2. `OneThreadClosesFiles`, for a program of one thread — `FileInv` follows
   `get_con_state`: at each place of the thread there is no file, or one that
   will be closed, by `atexit` or by the call itself. With two threads it does
   not hold (see [other divergences](#other-divergences)).

**From row to screen** (`RowScanProofs`), for any number of lines (an odd number
before the picture, an even number in it and after, as 2 + 33, 480 and 10), any
time of the engines up to 2500 of the 3200 clocks of a row, and any
opacities and priorities along the columns. A line has its 800 pixels and 320
columns, as in the circuit. `RowInv` is inductive and has four parts.

1. `RowTypeOK` says that what is stored are pixels, hence `RowTypeCorrect`.
2. `TimeInv` ties the state of the video output, its read address, `disp` and
   `ignore_swap` to the counters (`TimeStep`).
3. `DisplayInv` says which column of the row RAM is at each of the six stages
   from its port to the screen, for both halves of a pixel clock. Its
   induction needs that the RAMs are never exchanged during display
   (`SwapMoment`).
4. `MixerInv` follows the engines and the mixer by the clocks since the last
   swap (`Since`). `BusyStep` has a case per stage: each column below the write
   address holds its pixel (`Right`), though column 0 is written three times,
   first with a sprite pixel that is not its own. `DoneInTime` then gives that
   the mixer rests when the next swap comes (`IdleAtMoment`), and
   `MixerAtSwap` that the row being shown is the one that was asked for two
   lines before.

With `TopIsChosen`, that the nested conditions of `final_source` pick the highest
layer, this gives `PictureCorrect` and `LayersCorrect` (where the sprite is shown
to be that of the next column, `SpriteColumn`); `SwapsAreSafe` is
`IdleAtMoment`. The theorems take `EngineTime` for granted. The next one bounds
the sprite engine's share of it: at most 340 clocks with 64 sprites in OAM and 16
on the line (`TimeAllowed`). The other share, about 70 clocks from the request
to `tile_done`, is that of the counters of `TileEngine`, which wait for nothing;
it is not stated as a property.

**Preparing a row** (`PpuLogicProofs`), for any contents of Tile-RAM and Pattern-RAM,
any number of sprites in OAM and of sprite units, any OAM, and any chunk pixels
that are opaque. `PpuLogicAssumption` has the widths of the registers, from
`sprite_defines.vh` and the scroll registers: 8 bits for y, 2 for width and
height, 9 for a scroll position. The inductive invariant, `LogicInv`, has three
parts.

1. `RowInv` — the eight phases of a tile engine. While the tiles are fetched, two
   addresses are on their way and the chunks before `addr_to` are copied
   (`ChunksOnTheirWay`); during the look-up four words are under way through tile
   buffer, mirror bits and Pattern-RAM, and slot `targ` and those after are still
   to be written (`WordsOnTheirWay`). `ColumnIsRight` is the arithmetic: the
   slot, word and nibble that the mixer addresses for a column are those of the
   pixel that the scroll position puts there, around the border of the layer.
   Hence `LayerIsPrepared`.
2. `SpriteInv` — the phases of a row in the sprite engine, each with the number n
   of OAM entries that are decided. `Chain`: the units hold the sprites of the
   row among the first n, in the order of OAM, wherever they are on their way
   down. `NoGap`: two sprites stand beside each other only if all units below are
   taken too. So a sprite at the top of a chain with room moves on in the next
   clock (`TopGetsFree`, by counting the units), and the manager never waits for
   one. That is what the budget `Within` needs: three clocks for an
   entry, nine for a sprite carried. Hence `SpritesInTime`.
3. `Turns` — the sprite engine has done with a row before the next is asked for,
   so that nothing of the one is in the pipelines of the other.

`SpritesShown` follows from `LogicInv` without another induction: at the end the
chain holds the first sprites of OAM that are on the row, and no others, a unit's
chunk has the pixel of its sprite for a column (`PixelIs`), and the tournament's
choice among the units, by priority and then by position, is the one among the
entries of OAM. `LogicTypeCorrect` is `[]LogicTypeOK`, which no run checks.

**PPU library** (`PpuLibraryProofs`), for any programs, threads, calls and arguments
of the types of `ppu.h` (`IsCall` in `LibraryAssumption`).

1. `CallsAreTame` — each request of an accepted call is a `set`, an `update`, or a
   write within VRAM to bytes of what the call draws (`Harmless`). It
   compares the arithmetic of `ppu.c` with that of the circuits in `VramPicture`:
   `HorizontalIsTame` splits a row at its end (`ToTheEnd`,
   `FromTheStart`), `VerticalIsTame` walks a column, `PatternIsTame` goes through
   the tiles of a pattern row by row (`RowOf`) round both edges of Pattern RAM,
   `PaletteIsTame` has the three offsets, `SpritesAreTame` the two tables.
2. `WritesStayInPlace`, `WritesStayInVram` — `LibraryInvariant` is inductive. A
   thread in a call has an accepted one, and what it has left to send are requests
   of it (`CallsAreKnown`); while one is served its thread alone has the lock, and
   what its call draws is promised or dirty (`LockIsHeld`).
3. `FailedCallsDoNothing` — `FreeWhenAlone`: between two requests of the only
   thread the lock is free, since only `ppu_update`, a call of its own, leaves it
   to the hand-off.
4. `CallsAreHonest` — the other half of 1, for the accepted calls whose arguments
   are in range (`InRange`). What the requests of a call store, taken together,
   are the bytes that each place it draws has to have (`Lays`), in spite of parts,
   wrap-around and repetition: no request overwrites what another has laid
   (`TileIsCyclic`, `AroundTheLayer`, `AroundThePatterns`). And such bytes are
   decoded by the PPU to what was drawn (`Legible`): tile, sprite and extra bits,
   colours, scroll positions.
5. `PictureIsDrawn` — `DrawnAsPromised` for programs that are `Orderly`: the
   arguments are in range, no two places of different kinds share a byte, and no
   place is drawn by two threads. `PictureInvariant` has two halves. A call in
   progress has written what the requests sent so far had to write, and what it
   draws is dirty from the first of them on (`CallsProgress`); no call is half
   sent when the device is closed, unless it has been refused. What is promised has
   been drawn by a call of some thread, and lies there unless it is dirty
   (`PromisesAreKept`). A served request spares the places of all other calls (`Spares`), hence the
   promises made there. A call may be refused half-way, repeated or given up at any
   of its requests.
6. `SpritesShowPatterns` — `SpriteShowsItsPattern` follows from 5: the
   address that `sprite_addr_gen` computes for a row and a column of a sprite is
   that of the pattern row drawn for them (`RowsAreShown`).

`Orderly` asks of a program what no call checks and `library` has of its four
programs; `MCPpuLibrary` checks it of each of them (`ProgramsAreOrderly`). One
part of it is a limit of the code and not of the program: a call writes at most
one sprite. With two, the theorem is false, which is finding 2.

**Loaders** (also `PpuLibraryProofs`), for any files, broken ones among them, any
`len`, width and height above 0 and anything in the locals (`LoaderAssumption`).
`LoaderInv` says how far a loader is after `count` turns.

1. `TilesAreLoaded` — `TilesInv`: before the end of a readable file `pos` is one
   ahead of `count`; at its end the locals still hold the last tile, which is then
   stored again.
2. `ColorsAreLoaded` — `ColorsInv`, which is one colour behind.
3. `SquareIsLoaded` — `RowsInv`. `LineOf` and `PlaceOf` take a line of the file to
   a row of a tile and back (`PlaceOfLine`, `LineOfPlace`), so no line overwrites
   another; `RowIsReversed` follows a pixel through the three swaps. `PlaceOfLine`
   needs `width = height`: this is where an oblong pattern goes wrong.

**Lifecycle** (`DriverLifecycleProofs`), for any set of steps that may fail, checked
or not, and any number of probes and open files.

1. `LifecycleIsSafe` — `LifecycleInv`: the device file is the last thing a probe
   creates and the first that remove takes away; a probe under way has, of what
   it has passed, everything but what is `unnoticed` (`Passed`). A step that the
   probe goes on from is acquired or unnoticed (`GoingOnKeepsInv`).
2. `MappedFilesAreSafe` — without failures of `io_mapping_create_wc` nothing is
   missing, as that is the only unchecked step whose result a handler uses
   (`OnlyUnnoticed`).

The hypothesis `LateOpen = FALSE` is the one of the run.

Some definitions of the models are written for the provers as well: the pointers
of the FIFO wrap by a comparison instead of a remainder (`Down`, `Minus`),
`stored` and `fifo` follow them, and `BitOf` takes the weight of a bit.
`LifecycleAssumption` names the three drivers. `FinalSource` is a chain of
conditions, as in the circuit, since a `CASE` with two true guards has no certain
value. `Overlay` and `Only` stand for `@@` and `:>`, which the provers do not
know, and the weights of bits and bytes are numbers and no powers of two.

**Only model-checked**: the liveness properties (`LockComesFree`,
`ReleaseReturns`, `SamplesWanted`, `TransferEnds`, `SyncEnds`, `ProgramSees`,
`PollingSucceeds`, and what `ImplementsFrameHandoffLive` and
`ImplementsSampleStreamLive` say beyond the steps).


## Findings

1. *The second session may overwrite the buffer being played* (`apu_reopen`). An
   `apu_irq` left over from the first session signals the owner of the second
   before its own first request is armed. From then on there are two requests,
   and one of them is answered into the buffer the APU fetches. It needs an
   interrupt handler delayed on the other core, or raised between two lines of
   `apu_ioctl`.
2. *The second of two sprites written together loses its extra bytes* (`two`).
   `ppu_write_sprites` collects one byte per sprite in an array of `uint32_t`
   and sends the first `len` bytes of that array (`Library/src/ppu.c:486`,
   `519`). With two sprites the second gets the zero bytes of the first word: no
   mirroring, size 1 by 1, priority 0. A single sprite is right, which is why
   `library` writes one at a time.
3. *Sprites appear one column to the left of their x* (`sprite_column`). The mixer
   writes a pixel two clocks after it has asked for it
   (`pixel_mixer.sv:179-181`), as the tile buffers need, but the sprite engine
   answers after one (`sprite_engine.sv:99`). `ppu.h:91` has x relative to the
   top-left of the screen, and `pixel_mixer.sv:17-18` has all engines respond
   after the same time.


## Other divergences

Seen while modelling, and described here instead of being run.

- *A closed APU can be unmuted.* `apu_release` writes 0 to the configuration
  register to "Mute output and disable apu IRQs" (`Kernel/apu/apu.c:334`). This
  clears `apu_en` but not `irq_en`, which only an acknowledgement clears
  (`apu.sv:94`). An interrupt still armed is raised later and `apu_irq` answers
  it with `APU_IRQ_ACK | APU_ENABLE`. `ApuSystem` has these states.
- *A released APU is silenced in the middle of a buffer.* `apu.h:65` says "After
  the current buffer finishing playing, the APU will be silenced". The write of 0
  in `apu_release` clears `apu_en` with the next clock (`Kernel/apu/apu.c:335`,
  `apu.sv:88`), whatever the player and the fetcher still have; they go on and
  drain, muted. `SampleStream` therefore promises nothing of what is heard after
  `apu_disable` has begun.
- *A mapping that cannot be made is not noticed.* The three probes do not look at
  what `io_mapping_create_wc` returns (`Kernel/ppu/ppu.c:169`,
  `Kernel/apu/apu.c:175`, `Kernel/con/con.c:69`). With NULL they go on, create
  the device and succeed, and every handler then goes through the NULL mapping;
  so does remove. The results of `class_create` and `device_create` are not
  looked at either: a driver is then bound without a device. The run has these
  states, and `FilesAreSafe` says that nothing else is ever missing.
- *The text of `ppu_write_palette`* numbers the layers 0, 1 and else
  (`ppu.h:340-343`), while its parameter is a `layer_e`, 1, 2 and 4, and the code
  compares with those. The model has the enumeration; a caller who passes 1 for
  the foreground writes a background palette.
- *A late signal aborts the program.* The library's handler asserts that a
  callback is registered (`Library/src/apu.c:89`); `apu_disable` forgets the
  callback (`apu.c:63`) while a signal may still be blocked or on its way.
  `ApuDriver` reaches `handler_pc = "aborted"`.
- *A pattern that is not square is loaded wrongly*: the tiles of a line of tiles
  are stored `height` apart, not `width` (`Library/src/ppu.c:204`).
  `SquareAsDrawn` is what holds; the oblong ones are in the run, as loads that
  end.
- *A palette file needs 16 lines*, of which the first is skipped, for the 15
  colours of `ppu.h:239` (`Library/src/ppu.c:228`). `SixteenLines` says so.
- *Buffers leak when the PPU is busy*: the write functions return before they
  free (`Library/src/ppu.c:298`, `319`, `387`, `516`, `523`). Memory is not
  modelled.
- *A sprite id close to 2^32 is not refused*: the check adds two unsigned numbers
  (`Library/src/ppu.c:483`), and the address then lies before Sprite RAM.
  `ppu.h:360` wants the id in [0, 63 - len]; `IsCall` has no ids that wrap round.
- *Two threads may ask for the controller at once*: both find no file open and
  open one, and the first is never closed (`Library/src/con.c:40-42`). The run
  has one thread.
- *`ppu_remove` and `apu_remove` free the interrupt with another `dev_id`* than
  it was requested with (`Kernel/ppu/ppu.c:239`, `201`; `Kernel/apu/apu.c:363`),
  so that the kernel keeps the handler. `RemoveSteps` ends with `"irq"` still
  held.
- *`apu_remove` writes to the APU after unmapping it* (`Kernel/apu/apu.c:358`,
  `362`).
- *The alignment of the DMA buffer* moves the physical address by bytes and the
  virtual one by words (`Kernel/ppu/ppu.c:178-185`). `AlignVram` has it; the
  kernel returns whole pages, so the branch is never taken.
- *The file operations name no owner*, so that an open file does not keep its
  module. `Remove` of `DriverLifecycle` is the removal by somebody who waits
  until the files are closed.


## What is not modelled

- Posted writes: an MMIO write or a store to the coherent buffer takes effect in
  program order. The code relies on it without barriers.
- A process that is killed: the kernel closes its file, which is the same
  `release`. A callback in progress then never returns; the signal handler is
  simply not scheduled again, which safety runs include.
- The serialiser of I2S: it is the input that asks for a sample.
- The configuration of the HDMI transmitter over I2C: a list of register writes,
  each repeated until it is acknowledged, that shares no state with the rest.
- The levels of `h_sync` and `v_sync` at the pins, and the values of colours.
- Generated memories, PLLs, the Qsys interconnect: a memory is a function with
  two clocks of latency, a PLL a clock.
- The board image, build scripts, documentation and example programs: no
  behaviour of the running system. `Library/src/noway.c` is the end of a
  program.


## The plan

Done, in this order: the hand-off of frames and its proofs; the APU and its
proofs; `DmaEngine` and `VramSync`, which detail the hardware below the
hand-off; `PpuLogic` and `RowScan`, from VRAM to the screen; `ControllerSystem`;
`PpuLibrary` and `PpuLoaders`; `DriverLifecycle`; the proofs of the two
refinements, of what a release leaves, of `DmaEngine`, `VramSync`, the controller
and the lifecycle; those about `RowScan`; those about `PpuLibrary`; those about
`PpuLogic` and `PpuLoaders`.

Left, in the order of importance:

1. The clocks of a tile engine as a theorem, so that `EngineTime` of `RowScan` is
   proved as a whole.
2. Two tile engines in `PpuLogic` instead of one that stands for both, and with
   them the three done latches of the mixer in `RowScan`, so that engines that
   are done at different times could be told apart.
3. `HdmiConfig`: the I2C writes with their retry.
