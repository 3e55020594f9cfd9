# Formal models of the EBAZ4205 layer's drivers and boot code

The repository is a Yocto/PetaLinux layer for the EBAZ4205 board.  Most of it is
recipes and generated register tables; the programs of its own are four kernel
modules, the board's first-stage boot hooks, the register-table interpreter of
the generated boot code and a small HTTP server.  This directory models them in
TLA+, checks the models with TLC and proves the central theorems with TLAPS.

## 1. Inventory

| Component | State | Operations | Talks to |
|---|---|---|---|
| **pulsecap** (`pulsecap.c`), edge capture with an AXI timer pair | `flags`, `edge_ptr`, `edge_target`, `stored_edges[]`, TCSR/TLR of two timers | `timer_irq_handler`, `start_capture`, `cancel_capture`, `edge_data_show`/`read_edges`, state queries | AXI timer (registers, shared edge-triggered interrupt), sysfs callers, kswfloppy |
| **dma-proxy** transfers (`dma-proxy.c`) | channel `bdindex`; per buffer: completion, cookie, status | ioctls `START_XFER`, `FINISH_XFER`, `XFER`; `sync_callback` | DMA engine (submission, callback in a tasklet), application threads sharing the mapped buffers |
| **dma-proxy** devices | `total_count`, the class pointer, per channel device/cdev/DMA channel | `probe`, `remove`, `create_channel`, `cdevice_init`/`exit` | driver core, sysfs |
| **aximux** (`aximux.c`) | the selection register, instance table, shared attribute array | `aximux_set_src`/`get_src`, sysfs store/show, `probe`, `remove` | mux register, kswfloppy, sysfs |
| **kswfloppy** (`kswfloppy.c`) | `cur_track`, `HOMED`, the dump buffer, GPIO outputs, the mux it found | `floppy_step`, `_home`, `_seek`, `_dump_track`, `probe`, `remove` | drive (GPIO), aximux, pulsecap |
| **ps7_init** (`ps7_init_gpl.c`, two copies) | the instruction pointer and `finish`; the register tables; the registers | `ps7_config` (CLEAR, WRITE, MASKWRITE, MASKPOLL, MASKDELAY, EXIT), `ps7_init`, `ps7_post_config` | PS registers, FSBL |
| **FSBL hooks** (`te_fsbl_hooks*.c`) | the status each hook returns; PCAP registers | before/after bitstream, before handoff, fallback; `te_read_IDCODE` | FSBL, PCAP |
| **pwmctrl-server** (`pwmctrl-server.py`, its systemd service) | none of its own: the sysfs PWM files | startup, shutdown, four routes | sysfs, systemd |
| patches, device tree, configuration | none of their own | | |

What is hard in them, and what makes them correct:

* **pulsecap** - The interrupt handler runs between any two register or field
  accesses of the sysfs entry points and takes a lock nobody else takes.  Two
  timers share one edge-triggered line.  Register bits are changed by
  read-modify-write on both sides.  Correct means: the handler stores inside
  the array; the edges alternate, are in order and none is skipped; `DONE`
  means that the promised number of edges is there and stays; a capture ends;
  a cancel stops the timers; a read-out is a snapshot.
* **dma-proxy transfers** - Callbacks of transfers that timed out arrive during
  later transfers of the same buffer; transfers fail; the buffer index is shared
  by all threads of a channel; a failed start is not reported.  Correct means: the reported
  status is the status of the transfer the caller started; every ioctl returns.
* **dma-proxy devices, driver instances** - Resources shared by all instances
  (class, counters, minor numbers, attribute arrays) over arbitrary sequences
  of probe and remove, with steps that fail half way and undo nothing.
* **aximux** - One register for all ports, unlocked read-modify-write from
  sysfs and kswfloppy: no port's selection may be lost.
* **kswfloppy** - A dead-reckoned head position, homing with a retry bound, a
  bit-banged dump into a fixed buffer that nothing checks, and an unbounded wait
  for index pulses of a disk that may be taken out.
* **ps7_init** - Some 6000 lines of register tables for three silicon versions,
  twice, whose order carries the meaning: what a poll waits for must have been
  started, a locked SLCR swallows writes in silence, peripherals need their
  clocks, a failed section must end the boot.
* **FSBL hooks** - Polls without a bound on flags that an earlier transfer may
  have set.
* **pwmctrl-server** - The state lives in the kernel and outlives the server,
  which is started again whatever its last end has left there.

`PROJECT.json` lists every hazard at its line with the property that covers it.

## 2. Plan

In this order; all of it is done.

1. `AxiTimer`, `Pulsecap`, `PulsecapProofs` - the capture driver, the most
   concurrent part of the system.
2. `DmaEngine`, `DmaProxy` - transfers, timeouts and late callbacks.
3. `EdgeCapture` - the abstract capture: a run of consecutive edges of the
   signal that grows until `DONE`; `Pulsecap` with an empty `Overlap` implements
   it (refinement as a property of `pulsecap_sequential`).
4. `Aximux` and `Kswfloppy`, composed: one run in which sysfs writers and the
   floppy driver share the register and the drive moves its head.
5. `PulsecapDevices`, `AximuxDevices`, `DmaProxyDevices`, composed by `Devices`:
   modules loaded and unloaded in any order, with probes that fail.
6. `Ps7Sections`, `Ps7Tables`, `Ps7TablesUboot`, `Ps7Config` and `FsblHooks`,
   composed into the boot by `Boot`; `PwmCtrl`.
7. Proofs: every safety invariant and action property of the modules
   above that the runs check, as theorems, and the refinement of 3.
8. The bring-up across tables in `BringUpProofs`: what a table waits for or
   configures has been set up by the tables before it, and stands.

Recursion is written as recursive functions or folds, never with `RECURSIVE`,
so that every module can be proved about.

## 3. Modules and how they correspond to the code

`AxiTimer` (external).  The timer pair and the latch of the interrupt
controller, as the driver uses them: TCSR bits `ENT`, `ENIT`, `TINT`, `ENALL`,
the captured times, and `irq`, set by a *rising* line because the handler is
requested with `IRQF_TRIGGER_RISING`.  A time is the number of its edge: odd
edges rise and go to timer 0, even edges fall and go to timer 1.  Two constants
stand for what the driver's source cannot tell.  `EnallSticky`: ENALL reads
back as written, so that writing a register back enables both timers again
(what the timer's documentation says), or is a command that reads back as 0.
`HoldUnread`: with ARHT clear, as `initialize_timer` leaves it, a captured time
is held until it is read (what the documentation says), or the next capture
overwrites it.  The table below names each run's choice.

`Pulsecap`.  One step per access to a register or to a field another thread may
change; computation on locals is part of the step before or after.

* `drv->lock` is taken by the handler only, so it orders nothing and is left out.
* `edge_ptr` is loaded by `Judge` (line 184) and used again for the comparison
  with the edge before (`Compare`), the two stores (`StoreType`, `StoreCount`),
  the test of the target (`TestTarget`) and the increment (`Advance`).  The field
  is not volatile: at each of them the compiled code may go on with the value it
  has or load the field again (`Pointers`), and a reload replaces the copy
  (`Use`).  A start that resets the field in between makes the comparison look
  in front of element 0, where the struct has the driver's `regs` pointer and
  more of its own: whether that differs from the edge is left open (`Differs`).
* The first edge is stored by `StoreFirst`, in element 0 whatever `edge_ptr` is by
  then, and sets `edge_ptr` to 1.
* `flags |= ...` and `&= ...` are a read step and a write step.  Consecutive
  assignments to `flags` in one function are one read and one write.
* Locals that are dead are reset to their initial value: this merges states
  and changes no behaviour.
* Early returns (`-EBUSY`, `-EINVAL`, `-EIO`) leave the state as it is.
* The stores past the array write `edge_ptr` and `edge_target`, which follow
  `stored_edges` in the struct, with values brought into a small range.
* Times do not wrap (a 32-bit count in the code); a read-out reads
  `edge_target` and the limit once each, as `edge_data_show` does.

`EdgeCapture` is what the driver promises a caller when the handler keeps up.
In the refinement mapping (`Mode`, `Captured` in `Pulsecap`) a start takes place
when `edge_target` is written; until `edge_ptr` is reset the captured edges are
mapped to none, and until `flags` is written the mode is mapped to "run".

`PulsecapProofs` and `PulsecapRefinement` hold the theorems; `MCPulsecap` the sets the configurations use.

`DmaEngine` (external).  One channel of the kernel's DMA engine: cookies in
submission order, the end of transfers in order and at any time or never, each
complete (`CompleteTransfer`) or with an error (`FailTransfer`), callbacks after
it, in both cases.

`DmaProxy`.  One channel, several threads.  `CopyIndex` writes the channel's
`bdindex`, `LoadIndex` and `Wait` read it back.  `done[i]` is the count inside
the completion of buffer `i`; `InitCompletion` zeroes it, `SyncCallback`
increments it, `WakeUp` takes one.  The three seconds may be over at any moment
(`TimeOut`), so a waiter whose completion was re-initialised under it is not
different from one whose time runs out.  A refused preparation or submission
leaves `start_transfer` early and nothing tells the caller.  The channels come
from `devm_kmalloc`: `initialised` names the buffers whose completion
`init_completion` has reached, and a wait on another (`WaitUninitialised`) is
undefined: it ends at once with any status or as a timeout, or never
(`pc` is then `"lost"`).  `Result` is what line 244 makes of the wait: an error
for `DMA_ERROR` and for a transfer that is still in progress.  The application is
part of the model only as far as it must be disciplined for anything to make
sense: it passes valid buffer indices, does not start a buffer that another
thread has in hand, and finishes what it started (`outstanding`).  `latest` is
a history variable: the cookie of the transfer last started for a buffer,
`SubmitError` when the engine refused it.

`Aximux`.  `sel` is the register as the set of ports whose bit is set.  A call
of `aximux_set_src` is `Begin`, `Read` (the register into `cursrc`) and `Write`
(the whole register, masked).  `alone` is a history variable: whether nobody
else was in the function since the call began.  A port outside the mask, as a
device tree may name one, changes nothing.

`Kswfloppy` extends it with the floppy driver and the drive.  One turn of a
loop of the code is a step: a step of homing, of seeking, a sample of the dump.
The signals that matter are kept (drive select, motor, step, track 0, index);
side, write and density are not.  The drive is external: it may be absent,
without a disk, or ready, its head starts anywhere, its sensor may not work.
A disk may be taken out or put in at any moment (`DiskMoved`), and the sensor
fail or recover (`SensorChanges`).  The driver sees every position of the disk,
for any number of samples: nothing in the code bounds them from above.  Only that
a byte takes two elements of the buffer is kept of the data.  Behind the buffer
are the fields `pcap_inst`, `mux_inst` and `capture_pin` (`Behind`): `ReadByte`
overwrites them when it gets there (`clobbered`), and past the instance
(`ReadTooFar`), or when remove follows an overwritten `mux_inst` (`UnsetLost`),
the memory written is not the driver's: `kpc` is then `"lost"` and nothing more
is said of the driver.

`PulsecapDevices`, `AximuxDevices`, `DmaProxyDevices`.  What probe, remove,
module init and exit of each driver do to counts, minors, devices, the class
and the node's data, with the outcomes probe can have.  For aximux the count
grows before the device is created; for pulsecap after.

dma-proxy works channel by channel, one step each.  `create_channel` requests the
DMA channel (`Request`) and makes the character device and the device
(`cdevice_init`), and each step of it may fail: no DMA channel
(`refuse_channel`), no region or character device, which keeps the DMA channel
(`refuse_cdev`), no buffers, which keeps everything (`refuse_buffers`); the probe
fails and undoes nothing (`FailProbe`; `abandoned` is history: the channels
something is left of).  `cdevice_init` itself has three outcomes: a device
(`DeviceCreated`); a device that is refused, upon which `init_error3` destroys
the class of all channels and returns the 0 of `cdev_add`, so that the probe
goes on (`DeviceRefused`); and a class that cannot be created, which the test
on another pointer misses (`NoClass`).  `local_class_p` keeps pointing to a class
that was destroyed (`ClassDestroyed`): the next device is created in it, or the
kernel stumbles over it (`create_in_dead_class`), as it does over a device that
was never made (`remove_refused`); after those `undefined` is set and the driver's
task goes no further.  `spoilt` is history: a device or buffers were refused, or a
device went into a class destroyed before.  A node without channels is bound by a
loop that does nothing; the theorems cover it, the run has none.

`Devices` loads and unloads the modules: probes in any order, removes latest
first, as the driver core does; `Rebind` unbinds and binds an instance of
dma-proxy by hand, in any order, and also after the last was removed.
kswfloppy's two phandles are looked up in the nodes' data, which no remove
clears.  That
kswfloppy needs aximux loaded but not pulsecap follows from the symbols it
uses.

`Ps7Sections` names what the tables consist of: an instruction is its opcode,
its register and the bits a property is about.  `Ps7Tables` and
`Ps7TablesUboot` define each array of each copy; the three silicon versions
differ in the timer registers of the DDR controller, the two copies in PL
clocks and AXI widths, and `Declared` holds the frequencies of the header.  The
names of the copy under `u-boot` end in `_uboot` (the C files are never linked
together, the modules are).
`Ps7Config` interprets them: one instruction, or one read of a poll, is a
step.  Between two steps the hardware (external) may lock a PLL, finish the
calibration or bring the memory into operation, each only when what it needs
has been set up.  `PollTime` stands for `PS7_MASK_POLL_TIME`.

`FsblHooks`: the hook before the handoff, statement by statement, against the
PCAP (external), which moves the data of a queued transfer, then ends it.
`Boot` composes both with the loader (external): `ps7_init`, perhaps
`ps7_debug`, a bitstream or none, `ps7_post_config`, the hook, the handoff.  The
hooks exist with the copy under `platform-init` only; the copy under `u-boot`
is run by U-Boot's SPL, whose answer to a failure is not in the repository and
is taken to be the fallback.

`PwmCtrl`: the writes of startup and shutdown one by one, each route as one
step (its handler has no `await`), the kernel's PWM chip as the rules its files
go by (external), systemd, which starts the server again, and kills.
`MCPwmCtrl` and `MCDevices` hold the sets that a configuration cannot write.

## 4. Runs

Runs that pass:

| Run | Asks | Bounds |
|---|---|---|
| `pulsecap_races` | With one caller that starts, cancels and reads out while the handler is anywhere and edges come at any time: stores in bounds, a read-out is a snapshot | array of 2, counts 1 and 3 (refused), 3 edges; ENALL a command, times overwritten (the variant with the fewest register bits to tell apart: the properties are about memory) |
| `pulsecap_free_running` | One caller that starts and reads out at any moment, also while the handler runs, and edges at any moment, also inside the handler and inside `start`: the edges alternate, `DONE` means complete and frozen | array of 4, counts 1..3, 5 edges; documented timer |
| `pulsecap_sequential` | The handler keeps up with the signal: the driver implements `EdgeCapture`, so no edge is missed, doubled or out of place, and (with fairness) a capture ends | array of 4, counts 1..3, edge numbers wrap after 3, so the signal never ends; documented timer |
| `dma_proxy_one_user` | One thread that may retry after timeouts, errors and refusals (the first start of a buffer included), late callbacks, an engine that may stall or fail: the three statuses mean what they say of accepted transfers, no completion is lost, every ioctl returns unless it waits on memory nothing has initialised | 2 buffers, 3 transfers |
| `floppy` | kswfloppy against any drive, whose disk comes and goes and whose sensor fails, with sysfs writes to the mux: the counted position is the head's once homed; the dump is of the right track, one turn if the disk stays, and spares what is behind its buffer for as long as it has room; the drive is let go; a call nobody overlaps sets its port; probe and remove return | 3 tracks, 3 homing steps, a turn of 3 positions, a byte of 2 bits, a buffer of 2 and fields of 2 elements, one writer, a mask of 2 bits, pin inside or outside it |
| `devices` | Modules loaded and unloaded, instances of dma-proxy bound and unbound, probes that fail at every step: own devices, the class outlives its devices until one is refused, nothing left but what failed probes left, a live mux | 2 nodes each for aximux and pulsecap, dma-proxy nodes with 2 and 1 channels |
| `boot` | All tables of both copies in all silicon versions: writes take, polls can succeed, order of bring-up, success means up, clocks as declared, the readback is valid, the boot ends | 2 reads after the first of a poll; registers with the bits of section 3 |
| `pwm` | Start, requests, stop, kill, restart: set up while serving, true answers, outputs off at the start, comes up unless killed | 2 channels (and one number that is none), duty cycles -1, 0, 29, 100, 101, one kill |

Runs that show where the code and its comments disagree (section 6):
`pulsecap_overrun`, `pulsecap_lost_interrupt`, `dma_proxy_wrong_buffer`,
`dma_proxy_stale_success`.

Why the bounds are enough.  The handler looks only at the last stored edge and
compares `edge_ptr` with the target, so arrays of two to four elements have a
first, a middle, a last and a next-to-last element.  The interesting
interleavings involve one interrupt in progress, one that is pending and one
edge more: three to seven edges contain all of them, together with a capture
that is restarted.  For the DMA proxy, a stale completion needs a transfer that
timed out and a later one of the same buffer, a stale cookie one more: three
cookies on two buffers.  In `pulsecap_races` `edge_ptr` is 0 or 1, the last
element: enough to tell a store in bounds from one that is not, not for the
order of the edges, which is asked of `pulsecap_free_running`.

Homing, seeking and the dump each have a first, a middle and a last turn with
three tracks and three positions; a second probe starts where the first has
left the head.  The dump of a disk that is sampled slowly enough runs through its
buffer, the three fields behind it and past the instance: a byte for each and one
more, as the samples of a turn are not bounded.  For the devices two
instances tell the older from the younger, and the last channel of an instance
from the last of all.  The tables are finite and complete, and a poll that is read again,
succeeds late or runs out needs two retries.  The PWM server's two channels are
its own number; one kill at any point is what a start has to cope with, and
after it the model goes on for ever.

`CHECK_DEADLOCK FALSE` is used for the DMA proxy, whose model ends when
`MaxCookie` transfers were submitted, for the boot, which ends, and for the
devices, where nothing is modelled after undefined behaviour.  The other systems
never stop: a caller may always try again.

Each property has a mutant in `PROJECT.json`: the definitions named `Faulty...`
in the modules are plausible slips in the code (a dropped half of a test, `<=`
for `<`, a missing reset of a flag), and each makes its property fail.

### Fairness

`Pulsecap!FairSpec`: weak fairness of the handler (a pending interrupt is
served and the handler has no loop), weak fairness of a call in progress (the
kernel schedules a runnable thread, and no entry point waits), strong fairness
of the signal: it keeps changing, though callers may be busy again and again in
between.  Nobody is made to call anything.  `DmaProxy!FairSpec`: weak fairness
of an ioctl in progress, timeouts included; neither the engine nor the
callbacks are fair, since the hardware may stall.
`Kswfloppy!Spec`: weak fairness of the thread in probe or remove, and of a disk
that is there, selected and driven by its motor.  Sysfs writers owe
nothing, nor need a disk come back or a sensor recover.  `ProbeReturns` excuses a
probe whose disk is not there or was taken out, since it never returns, and one
that wrote past its instance.
`Boot!Spec`: weak fairness of the processor and of the PCAP, since the hook's
loops have no bound; none for PLLs, calibration and memory, since `ps7_config`
stops waiting for them.  `PwmCtrl!Spec`: weak fairness of the server's own
startup and shutdown and of the service that restarts it
(`pwmctrl-server.service:11`).

## 5. Proofs

All theorems are checked by TLAPS and hold for every value of the constants that
meets the modules' assumptions.  In eight modules:

| Module | Theorem | States | Under |
|---|---|---|---|
| `PulsecapProofs` | `TypeCorrect` | `TypeOK` | `CountsFit` |
| | `StoresInBounds` | `StoreInBounds` | `CountsFit` |
| | `EdgesAlternate` | `Alternating` | `Calm`, `CountsPositive`, `CountsFit` |
| | `DoneIsComplete`, `DoneStaysFrozen` | `DoneMeansComplete`, `DoneIsFrozen` | the same |
| | `ReadOutIsConsistent` | `ReadOutConsistent` | `OneCaller`, `CountsFit` |
| `PulsecapRefinement` | `CapturesRefine` | `ImplementsEdgeCapture` | `InPhase` |
| `DmaProxyProofs` | `TypeCorrect` | `TypeOK` | |
| | `NoErrorIsTransferred` | `NoErrorMeansTransferred` | `OneUser` |
| | `ErrorsHaveCause` | `ErrorHasCause` | `OneUser` |
| | `CompletionIsNotLost` | `NoLostCompletion` | `OneUser` |
| `KswfloppyProofs` | `TypeCorrect` | `TypeOK` | |
| | `HeadIsKnown`, `DumpsTheTrack`, `LetsGo` | `HomedMeansKnown`, `DumpOnTrack`, `DriveReleased` | |
| | `DumpHasRoom`, `DumpsOneTurn` | `RoomInDump`, `OneTurn` | |
| | `WritesStick` | `SoloWriteSticks` | |
| `DevicesProofs` | `TypeCorrect` | `TypeOK` | |
| | `DevicesAreOwn`, `ClassIsLive`, `LeavesNothing` | `OwnDevice`, `ClassOutlivesDevices`, `NothingLeft` | |
| | `FloppyMuxIsAlive` | `FloppyMuxAlive` | |
| `BootProofs` | `TypeCorrect` | `TypeOK` | |
| | `SlcrIsOpen`, `PllsFeedLocked` | `SlcrWritesTake`, `NeverOnUnlockedPll` | |
| | `ReadsBackTheIdcode` | `ReadbackValid` | |
| `BringUpProofs` | `PollsAwaitWhatIsStarted` | `PollsCanSucceed` | |
| | `BringsUpInOrder` | `BringUpOrder` | |
| | `UpOnSuccess`, `ClocksAreDeclared` | `UpWhenSuccessful`, `ClocksAsDeclared` | |
| `PwmCtrlProofs` | `TypeCorrect` | `TypeOK` | |
| | `ServesPrepared`, `AnswersTruly`, `OutputsStartOff` | `ServingMeansPrepared`, `RepliesTrue`, `StartsOff` | |

### The hypotheses

They restrict the environment, never the code, and each is there because the
property fails without it:

* `CountsFit == MaxCount > 1 /\ MaxCount \notin Counts`: no caller asks for
  exactly `PULSECAP_MAX_COUNT` edges (`pulsecap_overrun` shows what then
  happens); `CountsPositive`: none asks for 0, for which one edge is stored all
  the same.
* `Calm`: either `Serialised`, no call begins while another call or an interrupt
  is being served, or `OneCaller` without cancels, whose starts and read-outs may
  begin at any moment; edges come at any moment, inside the handler as well.
  Without it a start may put 0 in `edge_ptr` while the handler is between its
  uses of it: two callers who pass the busy test together do that, and so does
  one who cancels and starts again.  The handler then stores a falling edge in
  element 0, and neither the order of the edges nor `DONE` nor the target
  survives; TLC shows it in a few steps, and only that the stores stay inside
  the array is left, which needs no hypothesis but `CountsFit`.
* `OneCaller`: one caller, who may race the handler in any way, cancels included;
  read-outs and starts of two would race for the array.
* `InPhase`: calls and edges come one at a time, when the handler and the callers
  rest.  An edge inside the handler may be lost
  (`pulsecap_lost_interrupt`), and then a capture is no run of consecutive
  edges.
* `OneUser`: one thread has the DMA channel open, since `bdindex` is shared
  (`dma_proxy_wrong_buffer`).

The assumptions on constants are those the modules state: `FloppyAssumption`
(the track is one of the disk's, homing has at least as many attempts as there
are tracks; nothing about the size of the buffer), `PulsecapDevicesAssumption`
(no more nodes than the instance array has elements; no code checks it),
`AximuxDevicesAssumption` (at least one minor), `DevicesAssumption` (kswfloppy's
phandles are nodes), `DmaProxyAssumption` (finitely many threads, since
submissions are counted), and those that give constants their types.

### The inductive invariants

**Pulsecap.** `IInv == TypeOK /\ Bounded /\ Carried`.  `StoreInBounds` is not
inductive alone: that the element the handler is about to store is inside the
array follows from `edge_ptr`, the handler's copy of it and the target being below
`MaxCount` at all times (`Bounded`), which includes the counts that calls in
progress carry in `arg`.  `Carried` says what is true of `edge_ptr` from the
handler's load of it to its increment, while starts may reset it any number of
times: it is the value the handler holds or 0.

`SInv` adds for a calm driver that a start finds no handler at work, that a
running capture has a target which it does not pass, that the handler's copy of
`edge_ptr` is the field (so that a reload gives nothing new, and the increment
cannot pass the target), and that the copy of `flags` a call in progress carries
is still current.  `AInv` adds to it `Alternating` and what is true of an edge in
flight (`InFlight`): its type fits the element it goes to, and after the store
that element has it.  `RInv` adds to `IInv` for one caller that the handler stores
at `edge_ptr` or above while a read-out of a cancelled capture copies what is
below it.

The refinement needs `TInv`, which says in which step of which call the timer
registers are, and that at rest the signal, the timers and the array agree: the
next edge is the one the array expects, or one edge is pending and its timer is
the one the handler will look at (`InStep`).  Each step of the driver is then
shown to be a step of `EdgeCapture` or to leave `Mode` and `Captured` alone;
steps of a start that has not written `flags` yet stutter.

**DmaProxy.** With `TInv == TypeOK /\ Bounds` for any number of threads, `UInv`
for one: a transfer is submitted only with its completion initialised; a buffer
whose transfer nobody waited for keeps the cookie of its last start; a completion
comes from the callback of a transfer of the same buffer; and the callback of the
last start, once it has run, stays counted until somebody waits for it
(`Initialised`, `Cookies`, `Completions`); `Grounds` says what each result of a
wait rests on.  The status of an accepted transfer is taken from its cookie,
not from who woke the waiter: this is why a late callback can cause an error, but
never a false success.

**Kswfloppy.** `MuxInv`: a call that is by itself has read what the register
still holds.  `DriverInv`: where in probe the drive is selected (`Lines`), that
homing and seeking move the head and the count together (`OnTrack`), where the
disk is in a dump it stays for (`Turns`), and that the bytes stored and the bits
left over are the samples taken (`Room`), from which follows how many samples fit;
no assumption on the drive does it.

**Devices.** A part for each driver (a device and its instance know each other;
pulsecap's instances have the first minors in the order of their probes) and a
part for what the
loader guarantees it (no node is probed twice, removes come latest first).  That
pulsecap removes by the count is right only because of the last.  For dma-proxy
`ChannelInv` says that the DMA channels held are those of bound nodes and of the
probe or remove in progress, and the abandoned; `ClassInv` compares `total_count`
with the devices there are: a live class has no fewer devices than are counted,
and until something is spoilt no more, which is why the last one counted is the
last one.

**Boot.** The tables are thousands of instructions, so nothing is proved of them
one by one.  `Complete(s)` says what the interpreter relies on in a table: its
only EXIT is at the end, each write that needs the SLCR unlocked comes after an
unlock that no lock has undone (`Protected`), a bypass ends right after the poll
for the lock and a reset begins right after the bypass (`Orderly`).  Lemmas about
concatenation show it of every section the way the sections are put together.
`RunsInv` then carries "where the table has unlocked the SLCR, it is unlocked"
through the interpreter's steps, and `PllInv` what the last instruction has
brought about, besides that a PLL in reset is not locked; a poll that times out
leaves the bypass on.  `HookInv` says for each step of the readback which
transfers are in flight and what `D_P_DONE` can stand for.

**The bring-up across tables.** `RunsInv` says that a write takes, not that it is
still there when a later table depends on it.  `BringUpProofs` therefore speaks
of the tables once more: `LastsTo(s, p, x)` says that the write `x` is among the
first `p - 1` instructions of `s` and that none between it and `p` touches its
bits (or, for the lock key, unlocks), and `Achieves(s, R, G)` that `s` touches no
tracked register outside `R` and that every write of `G` lasts to its end.
Lemmas about concatenation give `Achieves(Table(n), Own[n], Goals[n])` for every
table of both copies and each version from the pieces it is made of, and the
sets `Own` of two tables meet in the unlock key only (`OwnsAreApart`).  So
nothing is computed instruction by instruction, and the order of the tables,
not their text, carries the proof.  `BringUpInv` takes it through the steps:

* `SettledInv`: what the table that runs has written and not undone `Stands`,
  that is, its bits are in the register (for the lock key: the SLCR is locked);
* `UpInv`: so do the goals of every table before it, and after the memory's
  table the memory operates.  None of the four properties is inductive without
  these two: each is about a register that an instruction far back has written.
* `PassedInv`: a status that the table has awaited stays (the calibration that
  the memory needs, the operating mode), as nothing resets it within the table;
* `OrderInv`: the routine that runs fits the stage of the loader, `ps7_init` runs
  once and `ps7_debug` with the SLCR locked, so the tables before the present one
  are those of `ps7_init` in their order;
* `FieldsInv`: each register keeps the fields it had after the boot ROM, without
  which the value of a bit that a masked write leaves alone means nothing;
* `LevelInv`: that the PL is out of reset only behind enabled level shifters.

The lock of a PLL is not among the goals: `PllInv` gives it, and `UpInv` that the
bypass was taken off.  `ClocksAreDeclared` then follows from the goals of the
`pll` and `clock` tables, the arithmetic being that of constants.

**PwmCtrl.** The writes still to do are the rest of a startup or of a shutdown,
and the channels are as the writes done so far have left them (`Progress`).

### What the theorems add to the runs

`pulsecap_races` has one caller: that two or more who pass the busy test together
do not lead the handler out of its array is only proved (that they do spoil what
is in it is not a property: see the hypotheses).  The DMA proxy's late callbacks
are covered for any number of transfers, the dump for the buffer's real size,
homing for every number of tracks, the loading of modules for any number of nodes
and channels (none included), and the boot for the thousands of reads that
`PS7_MASK_POLL_TIME` really allows.

### Only model-checked

* Liveness (`CaptureEnds`, `IoctlReturns`, `ProbeReturns`, `BootEnds`,
  `ServesUnlessKilled`): the provers do not reason about fairness and `ENABLED`.
* The findings of section 6: a violation is an example.

## 6. Where the code does not do what it says

* `StoreInBounds` (`pulsecap_overrun`): a capture of n edges stores n + 1
  elements; `PULSECAP_MAX_COUNT` is accepted and stores behind the array.
* `LineReleased` (`pulsecap_lost_interrupt`): the two flags are cleared one
  after the other; an edge in between keeps the shared line high, no rising
  edge follows and the capture never ends.  This is why `CaptureEnds` is
  checked with an empty `Overlap`.
* `BufferAsAsked` (`dma_proxy_wrong_buffer`): `bdindex` is the channel's, so
  a second thread redirects the first one's transfer.
* `NoErrorMeansStarted` (`dma_proxy_stale_success`): a refused transfer is
  reported successful when a late callback is taken for its own.

Seen in the models, without a statement in the repository to hold them against:

* The handler's write-back of register values it read before a cancel starts
  the timers again, and an edge whose flag it cleared unread may leave its time
  to be stored for a later edge.
* Overlapping calls of `aximux_set_src` lose a port's selection;
  `SoloWriteSticks` says that nothing else does.
* Two writers of `capture`, or one who cancels and starts again while the handler
  is in progress, can reset `edge_ptr` under it: a falling edge lands in element
  0 or `edge_ptr` passes the target.
* An ioctl whose first start of a buffer was refused waits on memory that was never
  initialised.
* A dump with no disk in the drive, or one that is taken out, never ends, and so
  never does probe.  Nothing stops a dump at the end of its buffer: 128008
  samples fit, `udelay(1)` alone admits 200000 in a turn of 200 ms, and what is
  overwritten then is `pcap_inst`, `mux_inst` and `capture_pin`, which remove
  uses.  When homing gives up, the dump is of whatever track the head is on.
* dma-proxy: a device that cannot be created takes the class away from all
  channels and lets the probe succeed; a probe after the last remove creates its
  devices in a destroyed class; a probe that fails leaves DMA channels, devices
  and counts behind (`spoilt` and `abandoned` name these states;
  `ClassOutlivesDevices` and `NothingLeft` say that there are no others).
* `aximux_exit` gives its region of minors back under the count of instances,
  not under the size it was taken with; the region stays.
* After a probe of the mux that failed, kswfloppy may be bound to the mux
  instance of an earlier load (the exception in `FloppyMuxAlive`).
* A poll that runs out leaves the SLCR unlocked.
* The hook's status is that of the board hook, which is always success.  The
  polls of the desynchronisation see the flags of the readback before them.
* A PWM server that was killed leaves its channels exported, and no later start
  succeeds (`ServesUnlessKilled` says what does hold).

## 7. What is not modelled, and why

* `edges_captured`, `get_state`, `get_max_edges` read state and change none.
* A capture of 0 edges: nothing says what it should do.
* What `DONE` and the order of the edges mean after a cancel or a second writer
  raced the handler: `flags` and `edge_ptr` updates are lost, as the model shows
  when `Alternating` or `DoneMeansComplete` is checked with `"calls"` in `Overlap`
  and cancels or a second caller; nothing in the repository says what should hold
  there.
* `mmap`, `open`, the internal test of the DMA proxy: no shared state beyond the
  buffers themselves.
* FINISH_XFER for a buffer that was never started: the application of the model
  finishes what it started.
* Unbinding single instances of pulsecap and aximux by hand: the older of two
  then takes the younger one's device, or the next number is one in use, and
  what follows is undefined.
* dma-proxy: what follows undefined behaviour (a device destroyed in a class that
  is gone), what a user does to the character device of a probe that failed, and
  failures of probe before its first channel, which change nothing.  Removes in
  parallel: the driver core removes one at a time on unload.
* kswfloppy: what follows a write past the instance, or through an overwritten
  pointer.  That the count of tracks saturates one behind the last is in
  `floppy_step`, but the only seek is to track 40.
* aximux: the attribute array shared by all instances, which has no terminator
  when the width is 8.  The node properties kswfloppy does not find: it takes
  the missing property for one that is there, and reads through NULL.
* ps7_init: `CLEAR`, `MASKDELAY` and unknown opcodes, which no table contains,
  and with `MASKDELAY` the global timer.  Bits of registers no property is
  about.  A write to the QSPI controller although its bus clock is off: what the
  bus answers is not in the repository.
* FSBL hooks: what `XDcfg_Transfer` does; it is taken at its callers' word.
* pwmctrl-server: requests that overlap inside a handler cannot be (no
  `await`); the text of answers.
* kswfloppy's data bits: `data_byte` is cleared before it is stored, so the
  dump holds zeros.
* Device trees, recipes and patches: data, or changes to programs whose source
  is not here.
