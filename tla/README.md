# Formal models of the Advanced Linux Driver Development examples

The repository accompanies a course on Linux drivers: about sixty small kernel modules (`part1` to
`part10`), some with a test application. This directory holds TLA+ models of those that have state
worth checking, the TLC configurations that check them, and proofs, checked by TLAPS, of the
results that can be proved for every number of readers, processes, clients and so on.

The kernel (VFS, wait queues, workqueues, tasklets, DRM and SPI cores) is not in the repository. It
is modelled only as far as the drivers rely on it, and each module's opening comment says how.

## 1. Inventory

| Component | State | Operations | Interacts through | What is hard |
|---|---|---|---|---|
| **Key character devices** `part5/{block_io,nonblokck-io,poll,epoll,select}` | `ev_press`, the wait queue | `key_irq`, `key_read`, `key_poll` | interrupt against application threads; wait queue; poll's timer | wake-up before the flag, two readers for one press, signals, timeouts, several CPUs |
| **Loading and unloading** of the modules of `part2` to `part6` | the pin, its interrupt, device numbers, cdevs, classes, device files, bus, device and driver names | init with its `goto err` ladders, exit | the same pin, the same names, the map of device numbers | a step of many failing; two modules at once; cdevs nobody deletes |
| **memfs** `part1/memfs` | inode and block bitmaps, the lists `child`/`brother`, block numbers and sizes | mkdir, create, rmdir, unlink, open, read, write, close, mount, umount | VFS, dentry cache, open files | list surgery, slots reused dirty, eviction, a second mount, unlocked bitmaps |
| **lfs** `part1/lfs` | two counters, each open file's offset | open, read, write of a counter file | concurrent readers and writers | `atomic_read` and `atomic_inc` are two steps; a number read in pieces is computed anew for each |
| **Deferred work** `part6/{work,delay_work,workqueue}` | a kernel thread, work items, a timer, a queue | init, the thread, the handlers, exit | workqueue, `kthread_stop`, `cancel_work_sync` | exit against a thread that queues again |
| **Tasklet** `part6/tasklet` | SCHED, RUN and the disable count; key, interrupt, device | `async_init`, `key_irq`, handler, `async_exit` | interrupt, softirq, module exit | disable before kill; failures that leave the interrupt behind |
| **Threaded interrupt** `part6/thread_irq` | none of its own | handlers that print | interrupt | init and exit only |
| **Hotplug detection** `part7/{hotplug-interrupt,hotplug-poll}` | `connector.status`, `unplugged`, `delayed_event` | `detect_ctx`, `check_irq_thread`, `output_poll_work` | pin, interrupt thread, clients' probes | two writers of the status; who tells of a change |
| **Display drivers** `part7` (eight) | shadow buffer, pins, `unplugged`, the SRCU read sections | probe, `pipe_update`, `pipe_enable`, remove | DRM core, fbdev, clients | remove against commits, error returns inside `drm_dev_enter` |
| **SPI controllers and device** `part9` | FIFO, `BURST_CNT`, `XCH`, clock divider | probe, `set_cs`, `transfer_one`, remove | SPI core's queue, the hardware | `transfer_one` returns before the exchange ends |
| **mmap, ioctl, sysfs, SIGIO demos** `part4`, `part5` | a page, an LED flag | init, exit, read, write, mmap, ioctl | applications | their init and exit |
| **Device model, hotplug and helper demos** `part2`, `part3` | buses, classes, devices, kobjects | register, unregister | driver core, udev | partial registration |
| **Device tree buses** `part2/dummy-bus`, `part3/hotplug_led` | class, bus, the devices of each node, GPIO lines, the interrupt of the check pin | walk over the device tree with error labels; probe, remove, `check_irq_thread` | driver core, other users of the lines, the plug | partial failure in a loop; probe that fails half-way; an edge during the thread |
| **GPIO and pin control** `part8` | MUX, CFG and DAT registers, a spinlock, `led_pin` | `set_mux`, the `gpio_chip` operations, the LED driver's files | pinctrl and GPIO cores, several CPUs | read-modify-write with and without a lock; files that outlive remove |
| **I2C** `part10`, **component framework** `part2/component` | none that lasts | a transfer that prints; bind and unbind that print | subsystem cores | nothing concurrent |
| **Processes, inline assembly, part0, DMA** | none | user-space examples; a fragment that does not compile | | |

What makes each of them correct, in short: a press reaches a reader and is not invented; a module
that is loaded holds everything it asked for, and one that is gone leaves nobody running in it;
memfs's lists stay a forest and every slot and block has one owner; the work, the tasklet and the
remove functions end; status, pin and events agree; nobody draws into a freed buffer; the FIFO
never mixes two messages, and no device is clocked too fast; a failed init leaves what its labels
say, and registers hold what each of their users wrote. The properties below say it precisely.

## 2. Modules and the code

| Module | Code | Correspondence |
|---|---|---|
| `KeyIo` | the five key drivers and their applications | One driver is loaded; the interrupt is two steps (`IrqWake`, `IrqSet`) as in `key_irq`; each reader is a program counter over the statements of `wait_event_interruptible`, `key_read` and `key_poll`. The driver is a record that says whether `key_read` copies before it clears, and whether `key_poll` exists. |
| `MemFs` | `part1/memfs/memfs.c` | One step per inode or file operation; the slots' fields are functions `mode`, `idx`, `child`, `brother`, `data`, `file_size`; the dentry cache, the mounts and open files are the VFS's. Each mount has dentries of its own over the one table. |
| `DirTree` | what `memfs.c` promises of its directories | Abstract specification: nodes, and for each directory a set of named entries. Making adds one entry, removing takes one away, mounting empties the root. |
| `MemFsAlloc` | the bitmap code of `memfs.c` | The same operations instruction by instruction: `get_idle_index`, then the load and the store of `set_bitmap` and `reset_bitmap`, under the directory's `i_rwsem`. A create of a file that finds no block returns with the slot's bit set and the slot on no list (`NoBlock`; `orphans` remembers such slots). |
| `SlotAllocator` | what `memfs.c` promises | Abstract specification: a free slot is taken by one process in one step, becomes a directory's, is given back. |
| `DeferredWork` | the three workqueue demos of `part6` | The demo is a record (delay, own queue, order of exit); thread, timer, queue, worker and module exit are the actors. |
| `TaskletKey` | `part6/tasklet/tasklet_demo.c` | `async_init` step by step with each failure, `key_irq`, the softirq, `async_exit` step by step. |
| `ModuleLife` | init and exit of 23 modules of `part2` to `part6` | A module is a record: what init takes in order, what exit gives back in order, what the label a failing step jumps to gives back. The actions interpret those records for several `insmod` and `rmmod` at once. `unadded` remembers the modules whose init overlooked that `cdev_add` failed. |
| `DrmHotplug` | `detect_ctx`, `check_irq_thread` and the poll settings of the two hotplug drivers | Pin, worker and clients step by step around `mode_config.mutex`. |
| `DrmDisplay` | probe, update, enable and remove of all eight display drivers | The driver is a record (who calls `detect_ctx`, which kernel's update); probe and remove are sequences of steps; an update goes through `drm_dev_enter`, mapping, copying, sending, `drm_dev_exit`. |
| `Spi` | `part9`'s two controllers and its device | The core's handling of a message, `set_cs` and `transfer_one` with the read and the write of `TFR_CTL` apart, the controller's shifting, probe and remove, `err_0`'s and devm's unregistration of a master that is not registered included (`master`). The FIFO is a sequence of its bytes' owners; the divider is computed as in `transfer_one`, roundings and logarithm included. |
| `DtBus` | `part2/dummy-bus` and `part3/hotplug_led`, three modules each | The bus module's init is a walk over a tree of nodes with one action for each call that can fail, allocations and registrations apart, and a jump to the label (`Goto`). `allocated` holds the objects whose memory is not freed, from the `kzalloc` on, `named` the ports whose name no label frees; then the two driver modules come and go, with probe and remove line by line, and the interrupt thread of the check pin in three steps. |
| `Pins` | the two pin controllers, the GPIO controller and its LED driver of `part8` | A register is the set of pins whose field is not 0, with the field's value; a read-modify-write is two actions, under `chip->lock` or not, as in the code. |
| `Lfs` | `part1/lfs/lfs-demo.c` | An open file is a process; a read from offset 0 is two steps, `atomic_read` and `atomic_inc`; an `int` wraps around at its ends (`Inc`, `Dec`); numbers are sequences of digits, because reads in pieces are. |

`X_proofs` extends `X` with its proofs (section 4); `MCX` gives the constants of `X` for TLC. `MCPart6` is both `DeferredWork` and `TaskletKey`. `SpiState`, `LfsState`,
`TaskletState` and `WorkState` hold the constants, the variables and the safety properties of `Spi`, `Lfs`, `TaskletKey` and
`DeferredWork`, whose actions are in the module that extends them. The proofs about these four share a module with another
component's: `Pins_proofs` extends `Pins` and `SpiState` and instantiates `Spi`, and so do `MemFs_proofs` with `Lfs` and
`KeyIo_proofs` with `TaskletKey` and `DeferredWork`. Since `INSTANCE` keeps the names of the actions apart, only the state and
the properties have to be told apart by name. Operators that a
comment calls a *Mutation* are plausible slips in the code; they are used by no specification, and
`PROJECT.json` says which property each of them breaks.

How the modules compose: `MemFs` takes each operation for one step because the VFS locks the
directory; `MemFsAlloc` looks into that step and shows when it may be taken for one.
`MemFsAlloc` implements `SlotAllocator` (property `IsAllocator`), and `MemFs` implements `DirTree` (`IsDirTree`). `KeyIo` describes loaded drivers,
`ModuleLife` how they are loaded and unloaded; `DrmHotplug` describes what detection tells, `DrmDisplay` what
detection, updates and remove do to each other. `TaskletKey` has the init and exit of its own
module, because its interrupt and softirq run through them. `MCPart6` is one of the kernel-thread demos inserted beside the tasklet demo:
they share no state, so that each sees every interleaving of its own, and the other's steps are stutters to it.

## 3. The runs

| Run | Configuration | What it shows |
|---|---|---|
| `key_io` | `MCKeyIo` | A sleeping reader nobody has woken sleeps through at most one press, and through none with one CPU (`MissesAtMostOnePress`). Only signals and rival readers let `key_read` go on without a press (`NoPhantomRead`). What an undisturbed read hands over, driver by driver (`DeliveredValue`). poll's timeout finds a slept-through press (`TimedPollReadsPress`), and so does the next press (`RepeatedPressIsRead`). |
| `memfs` | `MCMemFs` | With two mounts, used at once or one after the other: the table implements the directories of `DirTree` (`IsDirTree`), free slots are clean and the lists form a forest (`Tree`), blocks have one owner and open files keep theirs, and every cached name leads to a listed entry, except names in the root of a mount that another mount followed (`DentriesAreListed`): only those make rmdir and unlink loop for ever. |
| `memfs_alloc` | `MCMemFsAlloc` | Until a store crosses an operation in another directory (`raced`), no slot is taken twice, the set bits are those of the listed slots and of the ones lost for want of a block (`BitmapMatchesLists`), and the code implements `SlotAllocator`. |
| `lfs` | `MCLfs` | A number read in pieces is one number unless somebody else changes the counter meanwhile (`ReadsOneNumber`); no number is given to two reads unless they overlap or the counter is set or wraps around in between (`ReadTwiceOnlyIfOverlapped`). |
| `part6` | `MCPart6` | Nothing runs, is armed or is queued in a thread demo that is gone; two items that take turns never lose more than a turn; exit ends. A disabled tasklet does not run; the key outlives its users after an orderly init; each press is handled; the tasklet's exit ends exactly if the tasklet is not scheduled between its disabling and its killing (`ExitEndsOrHangs`). |
| `drm_hotplug` | `MCDrmHotplug` | `unplugged` and `status` agree; the interrupt driver's status follows the pin; the polling driver tells every lasting change. |
| `drm_told` | `MCDrmTold` | The interrupt driver alone. A violation is expected: its thread does not tell of an ordinary plug (`ThreadTellsChange`), although a comment says so (section 5). |
| `drm_display` | `MCDrmDisplay` | The shadow buffer outlives every update but those of a device that a late probe revived; the handlers find their pins and driver data, `check_irq_thread` as long as remove has not begun (`HandlersFindTheirDevice`); remove ends unless an update never left its section. |
| `module_life` | `MCModuleLife` | Any two modules of 23 loaded and unloaded at once with every failure: names are free when they are asked for, a loaded module has all it took, a device file leads to its own module's cdev, but in the middle of two modules' exits and after a `cdev_add` that failed unseen (`DeviceFileLeadsHome`). |
| `dt_bus` | `MCDtBus` | What a failed init leaves, registered and allocated, label by label (`FailedInitLeaves`); who holds which line, also after a probe that failed half-way (`LinesAreAccountedFor`); the last event says what the check pin says (`LastEventTellsLine`). |
| `pins` | `MCPins` | A selected function has all its pins unless its `set_mux` overlapped another's (`MuxIsSelected`); the GPIO registers hold what each line was last told (`LinesKeepWhatTheyWereTold`); the LED's files drive the LED's line whenever the driver is bound, and before the first unbinding whenever they are there (`LedDrivesItsOwnLine`). |
| `spi` | `MCSpi` | The FIFO holds bytes of one message only, though `transfer_one` does not wait and `set_cs` can start an exchange again; a byte reaches another device than its own only between that device's `set_cs` and the reset, if an exchange ran when `set_cs` looked (`FifoHoldsOneMessage`). The clock is never too fast; every message returns, and so does remove, whatever devm does after it. |

Every component has a type invariant `TypeOK`, which section 4 proves. The bounds that matter to somebody else are part of other properties: a file never ends past its
block (`BlocksHaveOneOwner`), the FIFO is never overfilled (`FifoHoldsOneMessage`).

### Bounds

| Run | Bounds | Why they are enough |
|---|---|---|
| `key_io` | two readers, one or more CPUs, all five drivers, `pend` counts presses up to two | Readers interact only by `ev_press` and the wait queue: one to be robbed and one to rob. The proofs drop the bound on readers. |
| `memfs` | four inode slots, two blocks, files of one byte, writes of none or one, two names and two mounts (interchangeable, hence the symmetry), one open file | Three entries give an entry to remove first, in the middle and last, and a directory inside a directory; two blocks and three slots meet both kinds of shortage. Two mounts are one that loses its entries and one that takes them. The view `Live` leaves out what free slots still hold beside their links, which is overwritten before it is read. The constraint `NotStuck` ends a behaviour at the step that loops for ever. The proofs drop the bounds. |
| `memfs_alloc` | two processes, two directories, three slots in one byte | One directory holds two processes apart, two let them race; three slots give one that is free, one taken and one listed. The proofs drop the bounds. |
| `lfs` | one counter, three open files, values set to -1 and 9, ints from -11 to 10 (`IntMax`), reads of one character and of a whole number, two values given out before the counter is set again (`ReadsMax`) | Counters have nothing in common. Two files overlap, the third sets the counter; 9 is followed by a number of two characters and then by the wrap-around, -1 by a number of fewer. The proofs drop the bounds. |
| `part6` | the three thread demos as they are; the tasklet demo has no constants | Threads, items and queue are fixed in the code; only the number of handler runs in a row is cut off, after three, where a property has already failed. |
| `drm_hotplug` | two clients, the worker, both drivers | Two clients can store stale results one over the other. The proofs drop the bound. |
| `drm_told` | as `drm_hotplug`, the interrupt driver only | The counterexample has one edge and no client. |
| `drm_display` | two applications and fbdev, eight drivers | One commit at a time is let in by the core; the others may probe the connector meanwhile. The proofs drop the bound. |
| `module_life` | two slots for modules, two device numbers, 23 modules | The property is about pairs; two numbers let a number be used again or a fresh one be given out. The proofs drop the first two bounds. |
| `dt_bus` | four device trees: the two of the repository, one with two controllers, one whose second child is refused; one line at a time held by others (`OtherMax`) | The failures of a second node, after a first that succeeded, are the ones whose undoing is incomplete. The proofs are for every tree, and for any number of lines held by others. |
| `pins` | two processes, the LED's specifier, a neighbour in its bank and one past the last pin; functions and GPIO lines not used in the same behaviour (constraint `OneAtATime`) | A race needs two. The two controllers share no register and never call each other. The proofs drop the bounds and the constraint. |
| `spi` | two devices, 3 kHz and 40 MHz, three module clock rates, a FIFO of two bytes, messages up to three | One message shorter than the FIFO, one longer, and one from another device behind it; the speeds need both dividers, and one of the rates is no multiple of anything. The proofs drop the bounds. |

Deadlock is checked where the system cannot stop. It is switched off where it may: a module
or driver that failed to load or is gone for good (`MCPart6`, `DrmDisplay`, `DtBus`, `Spi`).

### Fairness

Safety only, no fairness: `MemFs`, `MemFsAlloc`, `Lfs`, `ModuleLife`, `DtBus`, `Pins`. Otherwise fairness says that what is
running goes on, never that an application calls, a user presses or an administrator unloads:

* `KeyIo`: an interrupt handler ends; a thread inside a call, or with a POLLIN in hand, gets the CPU
  (strong, because with one CPU handlers may interrupt it again and again), and poll's timer fires.
* `DeferredWork`: the kernel thread, the workers, the timer and module exit run.
* `TaskletKey`: handler and softirq run; exit is strongly fair, because the softirq takes and
  returns the RUN bit of a disabled tasklet over and over, and the wait for that bit must not starve.
* `DrmHotplug`: interrupt thread, poll work and clients run, and get the mutex that others hold
  only briefly (strong).
* `DrmDisplay`: remove, workers and clients run. Nothing is asked of the detect pin.
* `Spi`: the core serves waiting messages in turn (strong), remove goes on. The controller need not
  even shift: the drivers never wait for it.

## 4. What is proved

All proofs are for arbitrary values of the constants; the only assumptions are the named `ASSUME`s of
the modules, which TLC evaluates in the runs. They say that the configured drivers are among those the
module describes, that sets which are told apart in the code are disjoint (a marker like `Nobody` is
no process, a device number is no resource's name, a device tree is one the code can walk), that
table sizes are at least 1, that an `int` has 32 bits at the most, and that clock rates and device speeds are at most 2^30 Hz (`HzMax`),
far above what these clocks run at and low enough that nothing `transfer_one` computes exceeds its `unsigned int`. Each proof has the same shape: an inductive invariant, one lemma for each
action or group of actions, and the properties of the runs as consequences. In most of them the
inductive invariant is itself a theorem, for it says more than the properties do.

**`KeyIo_proofs`** (any set of readers, drivers, CPU counts)

* `TypeCorrect`: `TypeOK` is inductive.
* `MissesAtMostOne`: `MissesAtMostOnePress` is not inductive, for a reader may fall asleep in the
  middle of the handler. `SleepInv` adds that the flag is down exactly when no press is pending, that a reader
  asleep and not woken between the handler's two statements sees no press pending, and that with
  one CPU nobody falls asleep inside the handler at all.
* `NoPhantom`, `Delivered`: `ReadInv` adds what a reader's copied value is from the statement that
  copied it until the return, and that a 1 that was copied after clearing stays pending.

**`MemFsAlloc_proofs`** (any processes, directories and number of slots in the byte)

* `TypeCorrect`.
* `SlotsAreFree`, `LeaksOnlyForWantOfBlock` and `ImplementsAllocator` say what the code guarantees until `raced`:
  until a process stores to the byte while another, in another directory, is between its load and its store
  (or has chosen the same slot, or has cleared its bit and still lists it). The inductive invariant is `IInv`: `LockInv` (whoever is inside memfs
  holds the lock of its directory, so that there is one in each, `AloneInDir`) and, unless `raced`, `OwnInv`: each set
  bit has one owner, a directory that lists the slot or a create that has stored it
  (`BitsAreOwned`, `OneListEach`, `LinkedIsFree`), or it is lost for want of a block and nobody's (`OrphansAreApart`), and each process knows at each statement that what it
  has loaded is still what the byte holds (`ProcKnows`). The refinement maps a slot to the process that has
  stored its bit, to the directory that lists it, or, once lost, to `Nobody`; one lemma for each of the steps that move a slot says which
  step of `SlotAllocator` it is (`StoreSetOwns`, `LinkHandsOn`, `StoreClearFrees`, `UnlistKeeps`; `NoBlock` hands the slot on
  to `Nobody`), and every other step stutters. With one directory nothing ever races, so there the guarantee has no condition.

**`DrmDisplay_proofs`** (any clients, any of the eight drivers)

* `TypeCorrect`, with at most one update inside `drm_dev_enter` and `drm_dev_exit`.
* `BufferOutlivesUpdates`: the inductive invariant `IInv` joins `TurnInv` (only the client whose
  turn it is is inside a commit), `BufferInv` (the buffer is alive from its allocation to the last
  step of remove), `StoppedInv` (past the steps of remove that stop them, interrupt thread and poll
  work are idle for good) and `UnplugInv` (unless revived, from `drm_dev_unplug` on `unplugged` stays
  set, and every update still inside is one remove waits for). `UnplugInv` needs the other three: a
  detection still running could clear `unplugged`.

* `HandlersHaveWhatTheyUse`: `FoundInv` adds what probe has got at each of its steps, and what remove
  has not yet given back as long as the interrupt or the poll work may still run.

**`MemFs_proofs`** (any number of slots, blocks, names, mounts and open files)

* `TypeCorrect`, which includes that no write ends past its block.
* `SlotsAreGivenBackClean`, `ListsFormATree`, `EachBlockHasOneFile`, `NamesLeadToEntries`: the inductive
  invariant `IInv` says that unless an operation has begun to loop (`stuck`), the state is `Sound`:
  free slots are clean; pointers lead to slots in use; one pointer at most leads to each slot
  (`OnePointerEach`, which is what makes a list without the removed entry a list); every slot in use is
  in a directory's list or an orphan of an earlier mount; cached names are in their directory's list, or are
  orphans in the root of a mount that another one followed; each block has one file; and an open file's name is still cached. None of the four properties is
  inductive alone: rmdir leaves a clean slot only if no other entry leads to it, and it does not loop only
  if the name it was found by is still listed.
* A list is a closure, and the prover has no induction over it. `Entries` is therefore defined as the least
  set that holds the head and follows `brother`, and everything is derived from two facts: the list is such a
  set (`ListIsClosed`), and every such set contains it (`ListIsLeast`). `ListAppends`, `ListDropsHead`
  and `ListDropsMiddle` are what creating and the two ways to unlink do to a list.
* `ImplementsDirTree`: a slot maps to its mode, or "free"; a directory to the set of its entries with their names. From the
  lemmas on lists follows which step of `DirTree` each operation is (`CreateMakes`, `CreateNoBlockLoses`, `UnlinkSlotRemoves`,
  `MountEmpties`); that the other lists keep their entries needs `OnePointerEach`, and that an entry keeps its name, that no
  free slot is listed. Open, close, read, write, eviction and umount stutter.

**`DrmHotplug_proofs`** (any number of clients, both drivers)

* `DriverViewsAgree`, `InterruptStatusIsRight`: the invariant joins `Locking` (between detect
  and store an actor holds `mode_config.mutex`; only `check_irq_thread`'s own first probe does not), `Arming`,
  `Views` (whoever holds the mutex leaves `unplugged` and `status` in agreement) and `Fresh` (unless an
  edge waits, every result about to be stored is what the pin says). `Fresh` excepts the time between an edge and the thread's
  second probe, in which a client may still store what it saw before.

**`ModuleLife_proofs`** (any number of modules loading and unloading at once, any device numbers)

* `WellMade` states what the 23 records have in common, in the order of init, exit and error labels: a class
  or device file named for the key is taken only with the interrupt held, the names of the mmap demo only after
  `mmap_test`, a label gives back no interrupt and no device file, but the key's and the ioctl demo's class if init has got so
  far; exit gives back whatever has a name. That every module keeps to it is proved record by record.
* `NamesAreNotTaken`, `LoadedModulesAreWhole`, `DeviceFilesLeadHome`: from `WellMade`, `IInv` follows for any number of
  slots: names have one holder (`OwnerInv`), a failed init leaves a name behind only together
  with what has to be taken before it (`LeftInv`), and each module holds at each step what it has taken so far
  (`Holding`, `Pending`). So whoever asks for a key's name holds the interrupt, and then nobody else can
  hold the name. A device file leads home since the number goes after the file, or after the cdev (`CdevFound`); `CdevMissed` follows the
  modules that have no cdev though init went on. In the exits of dummy-mmap and mdev_hotplug (`FileLast`) the cdev goes first,
  and from there until `device_destroy` the file may lead to another module's.

**`DtBus_proofs`** (any device tree, both demos)

* `FailedInitLeavesEarlierNodes`: `InitInv` says what has been made at each statement of the walk: everything of the
  nodes before, and of this one what its labels are about to undo (`Made` says how much of a node, and with the memory of the object that
  was refused). `NameInv` keeps account of the ports' names, which nothing frees.
* `LinesAreInTheRightHands`: `LineInv` adds the line each statement of probe and remove holds, and those lost by
  a probe that failed half-way; `LoadInv` that only loaded drivers have devices.
* `LastEventIsRight`: `IrqInv` (the thread runs only while the interrupt is installed) and `EventInv` (unless an edge waits,
  what the thread has read is what the line says).

**`Pins_proofs`** (any number of processes, any specifiers in the device tree, pin control and GPIO calls at once)

* `RegistersAreNotTorn`: `Locked` and `Registers`: under `chip->lock` the word a process has loaded is still the
  register when it stores it.
* `SelectedFunctionsKeepTheirPins`: without a lock that fails; `Alone` and `Selected` say what is left of it: a
  function that is not in `raced` was alone in `set_mux`, and its pins are in the register and in every
  word that another process has loaded since and is still to store.
* `FilesDriveTheLed`: `Led`: one process at most is in the LED driver's probe, and from there until it is unbound
  the driver holds its line, each time it is bound anew.

**`Spi`, in `Pins_proofs`** (either controller, any devices, rates, FIFO size and lengths of messages)

* `SpiTypeCorrect`, with at most one message on the bus.
* `FifoIsNotMixed`: `FifoHoldsOneMessage` alone is not inductive, since a message that is being prepared could meet the bytes of
  the one before. `FifoInv` adds where the reset is: from there until the message fills the FIFO it is empty, and from then on
  holds bytes of this message only, however the exchange before goes on. `PhaseInv` says that a controller in reset has none.
  `SelectInv` says that the device selected is the bus message's, from the write of its `set_cs` on, and that an exchange which
  runs between that write and the reset is one that ran when `set_cs` read `TFR_CTL`.
* `DividersFit`: `ClkInv` says that from `SetMode` on the divider is the one computed for the message's device, and
  `DividerDivides` that this divider is never too small. Its parts are `RoundsUp` (`DIV_ROUND_UP`) and `Order2Fits` (`order_base_2`
  has a value up to 30, and its power of two is not below the rate). An induction over the exponents is avoided by
  taking a set that is closed downwards among thirty-one numbers (`Descends`).

**`Lfs`, in `MemFs_proofs`** (any number of counters, open files and sizes, any `int` of up to 32 bits)

* `NumbersAreReadWhole`: `PieceInv` adds that the number a file is in the middle of is the counter's less one, wrapped as the
  counter wraps, unless another file has changed the counter; so each further piece is cut from the same text. `Wraps` is
  the fact that one less than one more is the same `int`; `TextIs` and `WidthIs` bound the digits; `Piece` joins two pieces.
* `ValuesAreGivenOnce`: `GivenInv` says that a read that overlaps no other is alone between `atomic_read` and
  `atomic_inc`, and that every value given out is below the counter until it begins anew.

**`TaskletKey`, in `KeyIo_proofs`** (no parameters)

* `DisabledTaskletIsStopped`, `KeyOutlivesItsUsers`: `TaskletInv` joins `DisabledInv` (what `tasklet_disable` has waited for),
  `KeyInv` (who is still installed at each step of init and exit), `SchedInv` (a tasklet on its way is scheduled, and is in one
  place only) and `LateInv` (without a press during exit, nothing is on its way).
* `HungExitsStayHung`: an exit that has begun to wait for a scheduled, disabled tasklet has no way out. It is the safety half of
  `ExitEndsOrHangs`; that the exit ends otherwise is liveness.

**`DeferredWork`, in `KeyIo_proofs`** (the three demos; the run covers every state they have, the proofs say why it holds)

* `NothingIsLeftBehind`: `ItemsOK` (an item is armed or on the queue once, never both) and `ExitInv` (what each step of exit has
  already stopped: the thread before anything else, then the queue, the timer, the handler).
* `WorkersTakeTurns`: `TurnsInv` ties the streak of a handler to the queue and to the item the thread queues next: a
  handler that has run twice in a row finds the other item ahead of it, or about to be.

**Only model-checked**: liveness. `TimedPollReadsPress`, `RepeatedPressIsRead`, `ExitEnds`, `PressIsHandled`, the liveness half of
`ExitEndsOrHangs`, `PollTellsChange`, `RemoveEnds` and `EveryCallReturns` rest on fairness, that is on `ENABLED`, which the provers
here cannot do. Every invariant and every action property that a passing run checks is also proved.

## 5. What the code does otherwise than it says

The first is a disagreement with a comment that the run `drm_told` shows as an expected violation. Most of the others are stated by
a property that says exactly when the code does what it is meant to and when not, so that a repair of the code would show
as a stronger property.

* `part7/hotplug-interrupt/drm-hotplug-int.c:264`: `check_irq_thread` assigns the probed status itself, so the
  helper called next sees no change and sends no event, while the comment at line 348 says that
  the bottom half sends it: `ThreadTellsChange` is violated after one plug that nobody else looks at.
* `part1/memfs/memfs.c:206` obtains "a free inode", but `set_bitmap` and `reset_bitmap` (line 49) are unlocked
  read-modify-writes, and `get_idle_index` looks and marks in two steps: creates in two directories can obtain the
  same one. `SlotsAreFreeWhenTaken`, `BitmapMatchesLists` and `IsAllocator` hold until `raced`. And a create that finds no
  block (line 225) returns `-ENOSPC` with the slot's bit set: nothing gives the slot back, which `BitmapMatchesLists` says.
* `part1/memfs/memfs.c:387`: with `mount_nodev` a second mount gets a superblock of its own over the same slot 0, whose
  list `memfs_demo_fill_super` empties. `DentriesAreListed` names the dentries that lead nowhere after that.
* `part6/tasklet/tasklet_demo.c:117`: `async_exit` disables the tasklet before `tasklet_kill`. If the tasklet is
  scheduled at that time, the softirq puts it back for ever, and the kill that should "clean up the
  tasklet" (line 118) never returns: `ExitEndsOrHangs`.
* `part2/dummy-bus/dummy-bus-init.c:169`: the error labels undo the node they are jumped to from and not the nodes
  before, whose devices then sit on a bus that is gone: `FailedInitLeaves`. The port's name (line 120) is freed by
  no label at all. The device tree of
  `part3/hotplug_led` gives the controller and its child one name, so its child's registration, and with it the init, always fails.
* `part8`: `usb_group` is the name of the fourth function and of no group, and in the variant `pinctrl-pins` no
  function's group exists, so `set_mux` never runs there. `dummy_gpio_get` does not mask the bits of the
  higher pins (a high neighbour makes it answer 1), and `dummy_gpio_direction_output` ignores the value it is to put out.
  `MuxIsSelected` and `LinesKeepWhatTheyWereTold` are stated so as to hold of this code.
* `part8/gpio/dummy-gpiodev.c:53`: the files of an unbound LED driver stay with `led_pin`, the number of a line that has been given back:
  `LedDrivesItsOwnLine` begins again with the next probe.
* `part4/mmap/dummy-mmap.c:169` and `part3/mdev_hotplug/mdev_hotplug.c:91` give back the number and the cdev before the device
  file, which can then lead to another module's cdev: `DeviceFileLeadsHome` excepts the steps in between.
* `part9/h616/h616-spi-bsp-demo.c:110`: `set_cs` reads and writes back `TFR_CTL` while the exchange before may still run; its
  `XCH` bit, written back, starts what is left in the FIFO again, for the device now selected: `FifoHoldsOneMessage` says when.
* `part9/h616/h616-spi-bsp-demo.c:345` unregisters a master that was never registered, and after remove (line 357) devm
  unregisters the master a second time (line 333). `master` is "misused" from there on, and the model says nothing of what becomes of it. No
  property forbids it.
* `part1/lfs/lfs-demo.c:78`: when `copy_to_user` fails the counter has been incremented already, and the
  number is given to nobody. `ReadTwiceOnlyIfOverlapped` allows numbers that are skipped, not numbers given twice.

The wake-up that `key_irq` gives before it sets the flag (`part5/*/`, one line apart) contradicts no
comment: a press can be slept through, and `MissesAtMostOnePress`,
`TimedPollReadsPress` and `RepeatedPressIsRead` say how far that goes.

## 6. What is not modelled

* Inside modelled components: printing and formatting, pixels and panel registers, received SPI
  data, file names longer than the table's field, SIGIO's delivery, the ioctl and
  sysfs values, pin configuration (it prints), probe and remove of the `part8` controllers, the LED attributes and uevent
  variables of the buses. memfs's operations of two mounts on one root list are single steps, as
  if one lock covered both; `MemFsAlloc` looks into the steps only for the bitmaps.
* After an action that the code leaves undefined (an interrupt on a freed key, I/O
  through a file whose dentry is gone, a second unregistration of one SPI master, an oops, a loop that never ends with a slot given back) the models say nothing
  further of that actor, or, in `MemFs`, of the file system.
* The kernel's own memory allocation failures where the code does not look at the result.
* I2C (`part10`): a transfer prints the bytes of its caller's messages and keeps no state; the core lets one transfer
  in at a time. The component framework demo (`part2/component`): its functions print.
* `part0`, the process and inline assembly examples, the DMA fragment (which does not compile),
  Makefiles, device trees and kernel configurations.

## 7. Plan

Done, in this order: `KeyIo`, `MemFs`, `MemFsAlloc` with `SlotAllocator`, `DeferredWork`,
`TaskletKey`, `DrmHotplug`, `DrmDisplay`, `ModuleLife`, `Spi`, `DtBus`, `Pins`, `Lfs`; a second mount in `MemFs`; proofs
for `KeyIo`, `MemFsAlloc`, `DrmDisplay`, then for `MemFs`, `DrmHotplug`, `Pins`, `DtBus`, `ModuleLife`, then for `Spi`, `Lfs`,
`TaskletKey`, `DeferredWork`; `DirTree` and the proof that `MemFs` implements it.

What is left, by weight:

1. The liveness properties listed at the end of section 4: a proof needs a prover for `ENABLED`.
2. The list surgery of memfs load by load, as `MemFsAlloc` does it for the bitmaps: two mounts do not share the lock
   that makes each operation one step in `MemFs`.
3. The sysfs attributes and ioctl commands of `part5`, of which only init and exit are modelled.
