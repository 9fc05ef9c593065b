# TLA+ models of the rustberrypi kernel

rustberrypi is a bare-metal kernel for the Raspberry Pi 3, written in Rust: it
boots four cores, maps memory, drives UARTs, timers and interrupt controllers,
runs tasks under a preemptive scheduler, and reaches the network through USPi, a
C library for the USB host controller that is linked into the image.

This directory keeps TLA+ modules of the parts whose correctness depends on
order: which core, context or interrupt does what when. Paths below are relative
to the repository (`sched.rs` is `src/sched.rs`, `dwhcidevice.c` is
`ext/uspi/lib/dwhcidevice.c`). `PROJECT.json` lists, for every definition, the
lines it models, and for every property the fault that breaks it.

## 1. Inventory

| Component | State | Operations | Interacts with |
|---|---|---|---|
| Scheduler (`sched.rs`) | `SCHEDULER`: a spin lock around the deque `processes` and `last_id` | `add_task`, `deschedule`, `schedule`, `switch`, `exit_task`, `timer_tick` | called from the tick of a core and from system calls; calls tasks and the heap |
| Tasks and stacks (`process.rs`) | per task: state, frame, counter, priority, stack | `Task::new`, `is_ready`, `exit`, `add_process`, `add_kernel_process` | heap (`ALLOCATOR`), scheduler |
| System calls (`syscall.rs`, `exception.rs`) | the frame of the caller | `sleep`, `exit`, error on other numbers | scheduler, clock |
| Boot and coordination (`cpu.rs`, `main.rs`) | spin table, `CORE_COORD`, per-core MMU and IRQ masks | `kernel_init`, `kmain2`, `set_ready_and_wait`, `init_core_timer`, `kernel_main` | all of the others |
| Local timers and local interrupts (`timers.rs`, `local_ic.rs`) | handler tables under a reader-writer lock, timer registers | `register_handler`, `enable`, `handle_pending_irqs`, `tick` | scheduler |
| Peripheral interrupts and exception vectors (`peripheral_ic.rs`, `exception/asynchronous.rs`, `exception.S`) | handler table, enable and pending registers, FIQ source | registration, routing IRQ and FIQ to handlers | UART, USB, Timer3 |
| System timer and clock (`timers.rs`) | 64-bit counter in two halves, compare registers | `current_time`, `spin_sleep`, `tick_in` (the `SystemTimer` driver is not installed) | sleep, USPi |
| MMU and memory layout (`memory.rs`, `memory/mmu.rs`, `bsp/.../memory`) | translation tables, layout | `populate_tt_entries`, `core_setup`, `virt_addr_properties` | boot |
| Heap | `ALLOCATOR`: a spin lock around a free list | `init`, `allocate`, `deallocate` | stacks, boxes, USPi `malloc` |
| ATAGS (`bsp/.../atags`) | none (reads memory left by the firmware) | iterate, find the memory tag | heap |
| PL011 UART and console (`pl011_uart.rs`, `console.rs`, `print.rs`) | FIFOs, line settings, a lock | read, write, flush, receive interrupt | every log line, also of FIQ handlers |
| Mini UART, GPIO, mailbox | registers | fixed sequences of writes | - |
| Ethernet glue (`net.rs`, `net/uspi.rs`) | `USB`, `ETH` locks, C callbacks | `initialize`, timers, interrupt registration, `poll_ethernet` | USPi, peripheral interrupts |
| USPi kernel timers (`ext/uspi/env/lib/timer.c`) | table of timers, tick count | start, poll; `TimerCancelKernelTimer` has no caller in this build | USB transfers, network poll |
| USPi transfers (`dwhcidevice.c`, `dwhcixferstagedata.c`, `dwhciframesched*.c`) | allocated channels, stage data, channel and mask registers, `m_bWaiting` | blocking and asynchronous requests, interrupt handler, timer handler | drivers of devices, kernel timers |
| USPi set-up, enumeration and hubs (`uspilibrary.c`, `dwhcidevice.c`, `dwhcirootport.c`, `usbdevice.c`, `usbstandardhub.c`, `devicenameservice.c`) | tree of devices, next address, split routes, list of names | `USPiInitialize`: reset the core, power ports, address, configure, register, look up | USB transfers, all drivers |
| USPi configuration parser and driver selection (`usbconfigparser.c`, `usbdevicefactory.c`, `usbfunction.c`) | position in a descriptor, functions | validate, next descriptor, choose a driver, pick endpoints | enumeration |
| USPi mass storage (`usbmassdevice.c`) | tag, block count, offset | configure, read, write, reset | USB transfers |
| USPi Ethernet drivers (`smsc951x.c`, `lan7800.c`) | transmit buffer; registers of chip and PHY | configure, link status, send and receive frame | USB transfers, `net.rs` |
| USPi keyboard and key map (`usbkeyboard.c`, `keymap.c`) | last key, locks, LED status | completion routine, update and set LEDs | USB transfers, application |
| USPi mouse, MIDI, game pad (`usbmouse.c`, `usbmidi.c`, `usbgamepad.c`) | report buffer, decoded state | completion routine, status call | USB transfers, application |
| USPi strings, utilities, screen, samples; assembly, linker script, tests | - | - | - |

Interaction is through shared memory and interrupts. Four cores share the
`SCHEDULER` and `ALLOCATOR` locks and the handler tables. Cores 1 to 3 each get
a tick of their local timer; core 0 gets the peripheral IRQs (Timer3, UART)
and the FIQ of the USB controller. Handlers run with IRQs masked.

### What is hard here

* **A context switch in two critical sections.** `switch` releases the lock
  between `deschedule` and `schedule`, so another core can restore a task whose
  frame its first core has only just given up.
* **Identity by register.** The running task is found by `TPIDR_EL0`, also on a
  core that has run none, and the loop of `switch` ends on that same value.
* **Locks across blocking loops and panics.** A panic parks its core with the
  locks it holds. The read lock of the handler tables is held over the loop
  around `schedule`.
* **Boot order.** Secondary cores use page tables, handler tables and scheduler
  that core 0 prepares, and the waits go both ways.
* **Critical sections that do not exclude the interrupt handler.**
  `uspi_EnterCritical` masks IRQs, while the kernel registers the USB interrupt
  as FIQ. The handler can run between a load and the store that belongs to it.
* **Packets and handshakes.** Data PIDs, byte counts and retries have to agree
  with a device that repeats what was not acknowledged.
* **Failures in the middle of enumeration.** A hub configures the devices behind
  it before it knows whether it works itself; what it leaves behind is named in
  a list that nobody cleans.
* **Chips that take their time.** Resets and accesses to the PHY end later;
  registers written too early are lost.
* **Split transactions.** Three nested state machines per channel, with retries,
  delays and halts by the hardware, and a caller that waits without a time-out.

The list under `hazards` in `PROJECT.json` gives each at its line, with the
properties that would catch it. Section 7 has those that no property covers.

### What makes each part correct

* Scheduler: a task is on one core at most and on none after it exits; the deque
  holds each task once; a task goes on from where it was interrupted; round
  robin without starvation; a live task's stack is its own.
* Boot: no core walks the tables before they are filled; no tick before handler
  and scheduler exist; every core gets to run tasks.
* USB transfers: two requests never share a channel; no interrupt bit is lost;
  the assertions of the driver hold; a channel is programmed only when it is
  disabled; a blocking request returns.
* Kernel timers: the network poll, which starts itself again, is never lost,
  doubled or early; a device's timer fires while the device waits for it.
* Enumeration: addresses are unique, a split transfer names the hub that
  translates, no pointer that is handed out is freed memory, and it returns.
* Descriptors: exactly the well-formed ones are accepted, and every driver gets
  its own interface and endpoints.
* Packets: a request that succeeds has moved the next bytes of the stream, once
  and in order, and says how many.
* Drivers: a read or write that succeeds was done, on the blocks it names; a
  configured Ethernet chip has its configuration, tells a link state that was
  true and moves frames whole; a key press types what is printed on it and LEDs
  follow the locks; handlers are told of every good report.
* Parts not modelled: an interrupt reaches the handler of its core and is
  acknowledged; no core waits for a lock it holds itself; time never goes back;
  characters leave the UART in order.

## 2. Plan

Done, in this order:

1. `TaskPool`, `Scheduler` - the core of the system; proofs in
   `SchedulerProofs`.
2. `Boot` - everything up to the first ticks; proofs in `BootProofs`.
3. `UsbTransfer` - the part of USPi that both contexts of core 0 share; proofs
   in `UsbTransferProofs`.
4. `KernelTimer` - the timers of USPi's environment, which the driver and the
   network poll share between the same two contexts; proofs in
   `KernelTimerProofs`.
5. `UsbTree` - `USPiInitialize`: the controller, the tree of devices, the name
   service; proofs in `UsbTreeProofs`.
6. `UsbDescriptors`, `MassStorage`, `Ethernet`, `Keyboard`, `InputReports` - what
   drivers make of descriptors, transfers and reports; proofs in
   `MassStorageProofs`, in `ClassDriverProofs` (Ethernet and keyboard) and in
   `UsbDeviceProofs` (descriptors).
7. `UsbPackets` - one endpoint packet by packet, which `UsbTransfer` abstracts
   from; proofs in `UsbDeviceProofs`.

To come:

8. Interrupt controllers and locks of the kernel (section 7).

`Boot` composes the timers with an abstraction of `Scheduler` (how many tasks
are ready and asleep).
`UsbTransfer` takes timers from its environment that always fire; `KernelTimer`
shows how far that is true (`timer_assert`), and keeps of a transfer only
whether it runs or waits. `MCClassDrivers` puts the drivers of the classes into
one run: it extends the modules that are proved about and instantiates
`InputReports`. They share no state, so a behaviour has one of them; the
variables of the others say that there is no such device. What they take
from below is that a blocking request returns (`BlockingReturns`) and moves its
bytes (`BytesKept`) or fails.

## 3. Modules and code

### `Scheduler`, and `TaskPool` that it implements

| Variable | Code |
|---|---|
| `processes`, `last_id` | the fields of `Scheduler` |
| `state`, `counter`, `priority`, `context`, `stack` | the fields of `Task` |
| `heap` | blocks of `Stack::SIZE` that `ALLOCATOR` has handed out |
| `due` | sleeping tasks whose `target_time` has passed |
| `adder` | core 0 in `kernel_main`; "panicked" when it died inside `ALLOCATOR` |
| `pc`, `ec` | per core: where it is, and the frame it runs from or returns to |

One action is one section under the `SCHEDULER` lock. `Tick`, `Sleep` and `Exit`
are the first halves of `switch`, with `deschedule`; `Schedule` and
`ScheduleNone` are one turn each of the loop around `schedule`. In between the
core is in "pick", where it takes no tick because IRQs are masked. `NewTask` and
`AddTask` are `Task::new` and `add_task`. What goes wrong has its own actions:
`NewTaskOutOfMemory` (core 0 dies holding the lock of `ALLOCATOR`),
`SleepParked`, `ExitWedged` and `ScheduleStuck` (other cores then need that
lock), `UnknownSyscall` (the exception vector panics). `Execute` and `Elapse`
are the task and the clock.

A frame is reduced to the pid it restores (`tpidr`), how far its code has
computed (`step`, up to `MaxStep`) and what `sleep` has left in `x0` and `x7`.
The counter keeps its `i8` range. Small allocations succeed; only stacks, the
one large size, may run out.

`TaskPool` has three actions: a task is created, given to a core that has none,
and taken off the core that has it. The refinement mapping is `Pool` at the end
of `Scheduler`.

### `Boot`

`pc` walks each core through `kernel_init`, `kmain2` and `kernel_main`; the
other variables are the spin table, the tables and MMUs, the result of
`USB.initialize`, `CORE_COORD`, the handler tables with the holders of their
read lock, timers and IRQ masks. `TakeTick`, `Pick`, `TaskSleeps` and
`TaskWakes` are the ticks, with tasks reduced to counts, because what matters
here is how long the read lock is held. `PromptBoot` is an assumption on timing:
a core gets from the barrier to its unmasking of IRQs within the 200 ms of
another core's first tick. It can be switched off (`Prompt`).

### `UsbTransfer`

Two contexts on core 0 share the driver. The base context - `kernel_init`, later
the Timer3 handler - is split at every access to shared state: each test of the
loop in `AllocateChannel`, load and store of `m_nChannelAllocated` (which is
volatile), filling the stage data, load and store of `ALLCHAN_INT_MASK`, the
start of the channel. The interrupt handler may start before any of these. It
runs to completion, one `Serve...` action per channel, in ascending order, and
`fiq` holds the channels still to serve. Each `Serve...` action is one way
through the handler's three state machines, with the completion routine and the
resubmission it makes included.

The controller and the devices are external: a transaction is answered by ACK,
transferred data, NAK, NYET or an error, with the channel halted or not, and a
channel may halt without an answer. `ALLCHAN_INT` shows every raised channel
whatever `ALLCHAN_INT_MASK` says; the mask only decides whether the interrupt is
taken. A report fits one packet. Asserts in this build only log (`uspi.rs`
implements `uspi_assertion_failed`), so control goes on after one that fails:
that is why they are stated as a property. A complete split that is answered
with ACK alone is sent again, and moves the PID of a setup packet on
(`SplitPid`).

Kernel timers fire only after boot, when core 0 has unmasked IRQs, and not while
the base context is inside the driver.

### `KernelTimer`

| Variable | Code |
|---|---|
| `slots`, `ticks` | `m_KernelTimer` and `m_nTicks` |
| `initialized` | `TimerGet` has been called and Timer3 is connected |
| `hid` | per device: its request runs, or waits in `StageStatePeriodicDelay` |
| `pc`, `k`, `n`, `handler`, `arg` | the base context and its locals |
| `main` | the first start, from `kernel_main`, with FIQs masked |
| `left` | history: the ticks that the network poll still has to wait |

The base context is the Timer3 interrupt handler on core 0. FIQs are masked on
entry to an exception, but `handle_pending_irqs` unmasks them around the handler
of a peripheral (`peripheral_ic.rs:166`), and `kernel_init` does for the USB
drivers. The table is volatile, so the accesses are those of the source, and the
base context is split where an FIQ can come between two of them with an effect:
freeing a slot and loading its parameter, finding a slot free and filling it.
The FIQ never writes to a slot in use, and the rest needs no split. `Delay` is
the FIQ with the whole of `TimerStartKernelTimer`; nothing interrupts it.

`poll_ethernet` is reduced to the delay that it asks for. `TickMod` stands for
the 2^32 of `m_nTicks`.

### `UsbTree`

| Variable | Code |
|---|---|
| `cur`, `pc`, `fi`, `port`, `good` | where the nested calls are: whose code runs, and its loop variables |
| `host` | registers and fields of the controller that are set up once |
| `object`, `funcs` | every `TUSBDevice` and `TUSBFunction`: none, live or freed |
| `address`, `route` | `m_ucAddress`; split, hub address and hub port |
| `next`, `names`, `number`, `busy` | `s_ucNextAddress`, the list of the name service, device numbers, channels held by reports |
| `library` | the pointers that `USPiInitialize` keeps |
| `hw` | external: whether a device's port is on, and the address it hears |

All of it is sequential code on core 0 that calls itself through hubs: a hub's
`Configure` runs through its ports four times (power, reset and `Initialize`,
`Configure`, status). A call returns to the device's parent, so the stack is
the tree. Every action that sends a message has a failing counterpart; what is
freed then, and what is not, is taken from each path. A `SET_ADDRESS` that
fails may have reached the device.

### `UsbDescriptors`

A configuration is a sequence of descriptors with type and length, and the
total length that the device claims. `CheckHeader`, `Walk` and `WalkEnds` are
the constructor of the parser, `NextInterface` is one turn of the loop in
`USBDeviceInitialize` with the factory, `DriverPicks` is the search of one
driver for its endpoints, on its own copy of the parser. The reference is
`WellFormed`, which is written from the descriptors' offsets and not from the
walk. A descriptor has at least one byte (`BlobsAssumption`). `num` of a HID
descriptor is 0 if it announces no report descriptor, which mouse and game pad
drivers refuse.

### `MassStorage`

`Command` is split into its three transfers (command block, data, status), each
of which can fail before or after the device has acted. `Return` is what each
caller does with the result: the steps of `Configure`, and the loops of `Read`
and `Write` with reset and retry. A block is a value that says which call wrote
it. `AddrMod` and `LenMod` stand for the widths of block address and length.

### `Ethernet`

Both drivers. A function is the sequence `todo` of its register accesses, taken
in order; each access may fail and end the function. The chip ends resets and
PHY accesses in steps of its own, and the link changes at any time. A register
is the set of its bits that matter. What the boot loader left in registers and
PHY is the constant `LeftOver`; the proofs allow any bits there. The status
register of the PHY latches: its link bit stays off after a loss (`dropped`)
until it is read.

A frame has a number, a length with its FCS, an error bit, and how much of it
has left the chip (`at`). `FrameReceived` is `ReceiveFrame` after a transfer that
succeeded, with each of its early returns (`Accepted`). `ReceptionFails` is one
that did not: nothing of the frame is gone, all of it, or some packets of 512
bytes. The next call then gets the rest of that frame and reads a header out of
the middle of it: any error bit and any length of `TailLengths`. `torn` are the
frames to which this happened. A transfer to the chip that fails half-way ends
what is said about the wire (`broken`).

### `Keyboard`

The keyboard (keys and modifiers that are down) is external and sends reports.
`Completion` is the whole completion routine with `GenerateKeyEvent`,
`KeyMapTranslate` and `KeyMapGetString`; it may come between the three steps of
`UpdateLEDs`. Modifiers also change alone (`ModifiersOnly`), in a report with the
keys of the one before it. The first `SetLEDs`, in `Configure`, may have failed:
then the LEDs are what power-up left on (`PowerUpLEDs`). The key map is a row of
each kind that the code tells apart. The reference, `Wanted`, is what a user
expects of a press.

### `InputReports`

Reports are sequences of bytes, so that the bit fields of game pads are really
extracted. The HID items of a report descriptor become the steps of the decoder;
the reference is the layout that the HID specification gives for the same
items, written down by hand for two game pads. One of them has an axis of ten
bits that spans two bytes: it is decoded as `BitGetUnsigned` does, and the
properties leave its value out (`Plain`). The decoding by a status call goes in
the steps of the code: `DecodeLoad` reads one byte of a field, `DecodeStore` puts
the field into `m_State`, and the completion routine may come between any two.
A transfer or a message that fails may have written to the buffer.

| History | |
|---|---|
| `late` | the field that a status call had read, and not yet stored, when the routine last decoded |
| `spoiled` | a failed transfer has written to the buffer since the last decoding |

### `UsbPackets`

One endpoint - control, bulk or interrupt, split or not - and its requests. The
stage data, the PID of the endpoint, the result of the request and the three
frame schedulers are those of the code, with the frame number modulo 8. Bytes
are numbered in the order in which device or caller produce them, so a byte that
is lost, repeated or out of order shows in the buffer. The bus loses packets and
handshakes; a device repeats a packet that was not acknowledged under the same
PID; a hub keeps the answer of a periodic split for four micro-frames, and may
answer a complete split with NAK, NYET, or ACK alone (`HubAcks`), which both
frame schedulers take for a retry and the stage data for a transaction of no
packets. `lost` and `odd` are history: a request has failed since the PIDs were
last set; a split has been answered in one of the two ways that the driver
counts wrongly, an empty packet and ACK alone to a setup packet. `BytesKept`
speaks of the behaviour before either.

## 4. Runs

| Run | Configuration | Instance | States |
|---|---|---|---|
| `sched` | `Sched.cfg` | 2 cores, 3 tasks (one a kernel task), fair | 39 thousand |
| `sched_faults` | `SchedFaults.cfg` | 3 cores, 3 tasks, 2 stacks, any reset value, panics | 624 thousand |
| `sched_lost` | `SchedLost.cfg` | 2 cores, `TPIDR_EL0` 0 at reset | violation |
| `boot` | `Boot.cfg` | 4 cores, 4 tasks, link up or down, prompt, fair | 3 thousand |
| `boot_noeth` | `BootNoEthernet.cfg` | no Ethernet controller | violation |
| `usb` | `Usb.cfg` | 2 channels, split keyboard, mouse, control and bulk requests | 499 thousand |
| `usb_live` | `UsbLive.cfg` | 2 channels, 2 packets, split bulk device, fair | 44 thousand |
| `usb_setup` | `UsbSetup.cfg` | control requests with and without data | violation |
| `timer` | `Timer.cfg` | 2 devices, 3 slots, counter modulo 8, fair | 1.2 million |
| `timer_assert` | `TimerAssert.cfg` | the same | violation |
| `usb_tree` | `UsbTree.cfg` | 2 hubs, Ethernet, mouse, keyboard with MIDI, 2 channels, 4 addresses, fair | 141 thousand |
| `class_drivers` | `ClassDrivers.cfg` | see below | 2.3 million |

**`sched`** checks that a RUNNING task is on a core (`RunningIsOnACore`), that a
slice is one tick (`SliceIsOneTick`: the early return of `deschedule` is dead
code), that a task wakes with the result of its sleep in its registers
(`SleepHonoured`), that nobody overtakes a READY task twice (`BoundedBypass`),
the refinement of `TaskPool`, and that a ready or sleeping task runs again
(`EveryTaskRuns`). Three tasks on two cores leave one waiting, which is what
starvation and the rotations need.

**`sched_faults`** checks what must survive faults: `OneCorePerTask`,
`QueueExact`, `StackOwnership`, `ProgressKept`, `ZombieIsFinal`. With two stacks
for three tasks the third creation fails unless a task has exited, so both a
reused stack and a wedged allocator happen. `MaxStep` 1 is enough to see a frame
that is not saved. The cores are symmetric. The run does not check deadlock:
panics may stop every core.

**`boot`** checks `MmuNeedsTables`, `NoEarlyTick`, `NoBootPanic` and, under
fairness, `BootCompletes`. It uses all four cores of the board.

**`usb`** checks `AssertsHold`, `ChannelsExclusive`, `InterruptsKept` and
`ReprogramsHalted`. Three requests are in flight at most (two devices and the
base context), so two channels exhaust the pool and leave every race for a
channel in reach; the board has eight. `usb_live` checks
`BlockingReturns`; two packets make a second cycle of start and complete split
happen.

The critical sections of `AllocateChannel` do not exclude the interrupt handler,
and yet the run passes. The reason is that the completion routine of every driver
that has asynchronous requests (keyboard, mouse, gamepad, MIDI) resubmits at
once, whatever the status was. The handler then frees a channel and takes the
lowest free one; the set of allocated channels changes in no way that a load
before and a store after could miss. The mutant `ResubmitsOnSuccess`, a driver
that gives up after a failed report, breaks `ChannelsExclusive`. So the driver
depends on a convention that is written down nowhere.

**`timer`** checks `EthPollKept`, `EthOnTime` and, under fairness, `EthPolled`.
Three slots for two devices is the tight case: one slot less and the table can
be full, a start fails and the network poll is lost. Modulo 8 the counter wraps many times in a behaviour, and
the delays are below half of it, as on the board. The network poll survives the
races: the base context writes last, and `poll_ethernet` ignores its parameter.
A device's timer does not survive them, as `timer_assert` shows.

**`usb_tree`** checks `AddressesUnique`, `TranslatorRight`, `DriversAlive` and
`EnumerationEnds` on the hub of the board with its Ethernet controller, a mouse
and, behind a full-speed hub, a keyboard with a MIDI interface. Five devices
need more than the four addresses, a low-speed device behind two hubs needs an
inherited route, and three report requests need more than the two channels.
Every message may fail. The run does not check deadlock: enumeration ends.

`DriversAlive` holds although a hub may fail after the drivers behind it are
registered: `_USBDevice` calls `_USBFunction` for every function, never the
destructor of the hub, so the devices at its ports leak instead of being freed.
The mutant that calls the right destructor breaks the property. It names two
exceptions: a MIDI driver registers before its first request finds no channel,
and over-current at the root port frees the driver of the root device.

**`class_drivers`** has a part for each driver.

* Descriptors: every body of up to three descriptors out of fifteen, one of them
  of type 0, and bodies with two interfaces, with a claimed length that is
  right, up to two too small, or 0. `ParseExact`: the parser accepts exactly the
  well-formed ones, with two exceptions. It rejects those that end with a
  descriptor of two bytes, because its loop looks two bytes ahead, and it
  accepts a right header whose `wTotalLength` is 0, because its loop then ends
  where it starts. `DriversMatch`: one function per interface number, none
  forgotten, endpoints of the own interface. The search for HID and
  class-specific descriptors does not stop at the next interface, so this needs
  a device that has them where they belong.
* Mass storage: two calls, two faults, a medium of three or four blocks, offsets
  and counts inside, at and beyond the widths. `TransfersRight`,
  `OnlyAddressed`.
* Ethernet: both chips, three calls, two changes of the link, two frames, one
  failed message or transfer. Frames to send have lengths around the limit;
  those that arrive have no data (4 bytes) or take two packets, and the rest of a
  torn one passes for a frame without data or with some. The chip comes in one
  of four states: new, left with a receiver, a filter and an access to the PHY
  of somebody else, with both resets under way, or of another type. Four are
  examples; `ConfigurationTheorem` is for all. `ConfigurationKept`, `LinkTruth`,
  `FramesIntact`. `LinkTruth` says that "up" was true during the call; "down"
  may be a loss that the PHY remembers from before it, since the call that
  answered last, because `IsLinkUp` reads the latched bit once.
* Keyboard: two changes of keys or modifiers besides releases, two calls of the
  application, six strokes. `TypedRight`, `LedsFollow`.
* Mouse, MIDI, game pad: two reports, whole, short or without bytes, and one
  status call. `HandlerRight` names what the code does not decode as HID
  has it: fields that span bytes. `StateSettles`: of the fields inside a byte at
  most one is old after a status call was interrupted, `late`. Two reports are
  enough for a completion before and one in the middle of the call; with three
  (millions of states for this part alone) both properties hold too.
* Packets: two requests of no data, a short packet after a full one or two
  full packets, two faults, all types of
  endpoint, any number of NAK, NYET and ACK alone. `BytesKept`. Two faults are
  needed to lose the handshake of a packet and of its repetition.

None of the parts checks deadlock: their bounds end every behaviour.

### Fairness

* `Scheduler`: weak fairness of ticks, `Schedule`, `NewTask`, `AddTask` and
  `Elapse`. Timers are hardware; a core in the loop around `schedule` tries again
  and again; tasks promise nothing.
* `Boot`: weak fairness of each core's own steps, strong fairness of
  `RegisterHandler` and `Pick`, because these spin on a lock or on a deque that
  others take in turns. The spin locks are not fair, so this is an assumption on
  timing. Without `PromptBoot` a write lock could wait for readers that are
  inside the loop around `schedule`.
* `UsbTransfer`: the handler is taken when pending and runs on (weak). Strong
  fairness of `BaseStep`: a USB transaction takes longer than a few
  instructions, so the base context gets on between interrupts. Strong fairness
  of `HwAccepts` and `HwTransfers` per channel: a device that is asked again and
  again answers at last. Without it a device that says NAK for ever keeps the
  caller in its loop, because there is no time-out.
* `KernelTimer`: weak fairness of `BaseStep` and `Tick`. Core 0 executes its
  code, `poll_ethernet` returns (which rests on `BlockingReturns`), and the
  handler sets the compare register of Timer3 anew on every tick. Devices
  promise nothing.
* `UsbTree`: weak fairness of `Next`. One core runs the calls; every wait for a
  register has a time-out, and a blocking request returns (`BlockingReturns`).
  Whether a message fails or not is left open.

## 5. Proofs

16593 obligations in eight modules. The theorems hold for any number of cores,
tasks, stacks, channels, timer slots, devices, blocks, descriptors, frames and
packets, and for behaviours of any length; each states a property that a run
also checks, unless said otherwise.

The prover has no induction over data. Where a proof needs induction over
positions in a descriptor or over packets, it is either an induction over steps
(the invariant speaks of what is behind the current position), or the existence
of a least member of a set of numbers (`LeastMember`, with `Upwards` and
`Downwards` derived from it, in `UsbDeviceProofs`): a set is a constant that the
provers can instantiate.

**`SchedulerProofs`.** The inductive invariant is `SchedInv`, the conjunction of
`TypeOK`, `QueueExact`, `SliceIsOneTick`, `TaskTable`, `CoreTable` and
`OneCorePerTask`. None is inductive alone. `OneCorePerTask` needs `CoreTable` (a
core that has run no task carries no pid; a core that runs one carries a pid of
the table) and `TaskTable` (the saved frame of a task names the task itself,
so restoring it gives the core the right identity). `QueueExact` makes the task
that `deschedule` finds unique. `TypeOK` needs `SliceIsOneTick` and the range of
priorities, or the `i8` counters could overflow. From it follow `TypeCorrect`,
`OneCore`, `QueueIsExact` and `SliceTheorem`.

`ExitedForGood` proves `ZombieIsFinal`. If no core starts with 0 in `TPIDR_EL0`,
every RUNNING task is on a core (`RunningTheorem`), and the scheduler implements
`TaskPool` (`PoolTheorem`): each action is a pool step or a stutter. The
condition is necessary, as `sched_lost` shows.

What a task keeps:

* `StackTheorem`: a live task owns its stack alone, and the heap holds exactly
  the stacks of live tasks. With at least as many blocks as tasks the heap never
  runs out (`NeverOutOfMemory`, not a property of a run).
* `SleepTheorem`: a task goes on after `sleep` only with the result of its poll
  function. The invariant `SleepInv` adds that no READY task has a saved frame
  that still asks to sleep; that is what `Schedule` would put on a core.
* `ProgressTheorem`: no task loses computation, whichever core saves and
  restores its frame. It needs `OneCorePerTask`, or the frame of a task would
  not be one frame.
* `BypassTheorem`: a READY task is overtaken by each other task at most once. It
  needs a block for every task: a core that is wedged inside `exit` has not
  moved its task to the back.

**`BootProofs`.** The invariant `BootInv` is `TypeOK`, `BootOrder` (what each
label has behind it) and `BarrierCount` (`CORE_COORD` is the number of cores
that arrived; a core is past the barrier only if all have arrived). It gives
`TablesFirst`, `BarrierTheorem` and `NoPanic`. None of these uses `PromptBoot`.

**`UsbTransferProofs`.** `UsbInv` explains why two contexts can share the
allocation of channels and the interrupt mask without a lock. `LowestInUse`: the
channels in use are the lowest ones and the blocking request has the highest of
them, so a report request that the interrupt handler frees and submits again
gets its own channel back, and the word that the base context loaded before the
interrupt is still right (`ControlInv`). `MaskInv` does the same for
`ALLCHAN_INT_MASK`. `OwnerInv` and `ServiceInv` tie requests, stages, registers
and timers together, so that the handler finds what its assertions expect. From
it follow `ChannelTheorem`, `InterruptTheorem`, `AssertTheorem` and
`HaltTheorem` (a channel is programmed only while it is disabled).

**`KernelTimerProofs`.** `PollKept`: the network poll is never lost, and
`PollOnTime`: it comes when it was asked for, also when `m_nTicks` wraps.
Both rest on `TableHasRoom`: the start of a timer always finds a free slot. That is a count
(`CountInv`): timers of devices, plus devices that are busy, plus one timer that
the poll has taken out and not yet called, are never more than the devices, and
the table is larger. `ScanInv` says what the poll's loop has behind it,
`TimeInv` that no timer is more than half of the counter's range away, which
makes the signed comparison right.

**`UsbTreeProofs`.** `TreeInv`, for any tree and any failures. `ControlInv` is
the nesting of the calls: the device whose code runs is the innermost one, its
callers are at the port that leads to it, and what is further on is untouched.
`AddressInv` bounds `s_ucNextAddress` by the devices that have been given an
address, so that the 8-bit counter does not wrap (`AddressTheorem`). `RouteInv`
relates the route of a device to the devices above it; it needs that a hub keeps
its address while its ports are visited (`TranslatorTheorem`). `FuncsInv` and
`NamesInv` follow the drivers: what has been registered is not freed
(`DriverTheorem`), but for the two exceptions that the property names.

**`MassStorageProofs`.** `TransferTheorem`: a call that reports success moved
the addressed blocks. `AddressedTheorem`: no step changes any other block. The
heart of `MassInv` is `AnswerInv`, about a device that still has packets of
earlier tries: a good status of the last command is never next when data is
expected, and if it comes second, the first packet is the data of the same
command and the residue is what was not moved. `TagInv` (no status is of a later
command than the last) makes every new tag fresh, and `CallInv` ties the command
to the call. A residue of 0 then excludes a length that was cut to 16 bits
(`CommandExact`). The tag is a natural number here: in the code a stale status
could match again after 2^32 commands.

**`ClassDriverProofs`.** The keyboard and both Ethernet drivers.

* `TypedTheorem` (`KbdInv`): a press types what is printed on the key, once, for
  every key with every set of modifiers. The invariant relates the last key that
  the driver knows to the keys that are down, separately for a report that is
  on its way and one that is not; modifiers that change alone leave it true
  (`ModifiersKeep`). It is claimed for as long as one key at a time
  is down and no report is lost (`clean`); otherwise it says types only.
* `LedTheorem` (`LedInv`): the LEDs follow the locks, also when a key changes
  them during `UpdateLEDs`. What is sent and what is remembered is the status
  read at the start, so a later change is found by the next call.
* `FramesTheorem` (`FrameInv`): what was delivered came before what waits in the
  chip, and both are positions in what arrived; only the first frame in the chip
  can have lost a part, and then it is in `torn`. Of torn frames it says only
  that they are delivered at most once and in order.
* `ConfigurationTheorem` and `LinkTheorem` (`RegInv`): for every register access
  that is still to do, what those before it have left in the registers
  (`LanRight`, `SmscRight`), whatever the boot loader left there and however long
  resets take. `LinkRight` follows an access to the PHY that an earlier call may
  have left behind, and dates what the PHY remembers: it was lost since the last
  call that answered, and once the status has been read, during this call.

**`UsbDeviceProofs`.** The parser, the choice of drivers and the packets.

* `ParseTheorem` (`ParseInv`): behind the position of the walk everything is in
  place, `audio` is that of the interface last seen, and the step before still
  had more than two bytes in front of it. The last part is what tells the
  configurations apart that the loop's look ahead rejects.
* `DriversTheorem` adds `FunctionInv` (the numbers of functions ascend; a
  function has the first setting of its number that has a driver; interfaces
  behind the position are served) and `PickInv` (what drivers have taken is
  their own). The search of the MIDI driver is a recursive function; one
  unfolding and a least counterexample are enough.
* `BytesTheorem` (`PacketInv`): a request that succeeds has moved the next bytes
  of the stream, once and in order, for every packet size and every length.
  `BytesKept` speaks only of the end of a request; `PacketInv` says for each
  point of it what caller and device agree on (`Sync`): the PIDs are the same,
  or the handshake of a packet was lost, one side has it already and its
  repetition comes under the PID that shows it; the number of the next byte is the first byte of the
  request plus what was counted, plus what the running transaction has moved.
  `SplitRight` and `WholeRight` are the two ways in which a stage is cut into
  transactions. `SchedRight` shows that a periodic complete split asks the hub
  only while it keeps the answer: the distance of the frames is between 2 and 5
  less the tries that are left. ACK alone to a data or status packet changes
  nothing, because `SkipPID` with no packets keeps the PID; it also shows that
  the hub knows a setup packet from others. Nothing is claimed after an empty
  packet over a split, after ACK alone to a setup packet (`odd`), and after a
  failed request until `USBEndpointResetPID`.

Assumptions:

* `SchedulerConstants`, `BootConstants`, `UsbConstants` and `MassConstants`
  state the types of the constants, and that the barrier waits for as many as
  there are cores. `KeyboardConstants` says that strokes are keys of the map
  with known modifiers, `EthernetConstants` that frames on the wire fit into the
  receive buffer with their header, and that no reset of an SMSC951x runs when
  its driver starts, which starts none and waits for none; `PacketConstants`
  that short packets are shorter than a full one. That packets of a control endpoint have room for the
  8 bytes of a setup packet, as USB demands, is part of `PktInit`.
* `BlobsAssumption`: a buffer is cut into descriptors of at least one byte that
  cover it. A descriptor of length 0 keeps the parser in its loop (section 7).
* `ResetIsNoPid`: no reset value of `TPIDR_EL0` is the number of a task. The
  architecture leaves that value unknown and nothing in the boot code sets it,
  so this is an assumption on the board. That it is not 0 either is a
  hypothesis of `RunningTheorem` and `PoolTheorem` only.
* A block of the heap for every task, where said above. The kernel's heap holds
  far more stacks than the kernel creates tasks.
* `KernelTimerConstants`: delays are below half of the counter's range, and the
  table (20 slots) has more slots than there are devices with reports.
* `UsbTreeConstants`: the devices form a tree, nothing behind a slow hub is fast
  (USB does not allow it), there are fewer than 255 (USB has 127 addresses), and
  a device has at most one hub function (alternate settings are skipped when
  functions are created, and a hub has one interface).

Only model-checked:

* Liveness (`EveryTaskRuns`, `BootCompletes`, `BlockingReturns`, `EthPolled`,
  `EnumerationEnds`), which is out of the prover's reach.
* `HandlerRight` and `StateSettles`: `InputReports` extracts the fields of
  reports with `Bitwise`, which the prover does not take.

## 6. Where code and text disagree

* `sched_lost`: `schedule` is documented to answer with the pid that was
  switched in (`sched.rs:128`) but answers with the one it replaces. If that is
  0, a core restores two tasks in a row and the first is lost.
* `boot_noeth`: "Unable to initialize Ethernet controller; skipping"
  (`main.rs:58`) is followed by an assertion that fails without one; core 0
  panics and the others wait at the barrier.
* `usb_setup`: a control request that fails after its setup stage leaves the PID
  of the endpoint at data. The next one then starts without a SETUP packet, and
  if it has no data the assertion `m_pBufferPointer != 0`
  (`dwhcixferstagedata.c:96`) fails.
* `timer_assert`: `TimerPollKernelTimers` frees a slot (`timer.c:270`) before it
  loads the parameter for the call (`timer.c:273`). If the FIQ fills the slot in
  between, the handler is called for the wrong request: the right one is never
  restarted, and the new timer fires later for a request that is running, against
  `assert(... == StageStatePeriodicDelay)` (`dwhcidevice.c:1222`).

## 7. Not modelled

* Interrupt controllers (pending words, masks, FIQ routing), the vector table,
  the clock, the UARTs and the console. `Boot`, `Scheduler`, `UsbTransfer` and
  `KernelTimer` take interrupts as steps that are enabled when the source
  enables them.
* The sockets of `net.rs` (smoltcp is an external crate) and the locks `ETH` and
  `USB`.
* GPIO, mini UART and mailbox (fixed register sequences, the last two not used
  by the image), the memory layout and ATAGS (constant tables, no state), start-up
  assembly before `kernel_init` (one core, no shared state), the linker script,
  tests and host utilities.
* USPi: strings, utilities, the screen and the samples; string descriptors,
  which are read for the log; `TTBR1_EL1` and the TLB maintenance of `flush_tlb`
  on the kernel's side.

Known weak points of the code that are outside the models, or that a property
leaves out on purpose:

* `local_ic.rs:42` says the handler tables are read-only after kernel init; the
  secondary cores register after the barrier, when others may run tasks.
  `local_ic.rs:74` looks for a duplicate in the table of core 0 only.
* `timers.rs:170`: the low half of the counter is read before the high half.
* `exception.S:113`: the frame does not hold `SP_EL1`; `process.rs:214`: a task's
  stack pointer starts at the lower end of its block; `exception.rs:85`: an FIQ
  that interrupts a task is not acknowledged; `uspi.rs:300`: the FIQ handler
  takes the console and heap locks.
* `uspios.h:36`: the library is built for 100 ticks a second, the timer ticks
  10 times, so delays last ten times as long.
* `usbconfigparser.c:53`: a `wTotalLength` of 0 is accepted; the device has no
  function then. `usbconfigparser.c:60`: an unknown descriptor of length 0 is walked over for
  ever; the descriptors of the run have lengths from 2. A second MIDI streaming
  endpoint fails `assert (pThis->m_pEndpointIn == 0)` (`usbmidi.c:112`).
* `usbmassdevice.c:660`: the reset clears the halt of endpoints 1 and 2, whatever
  the numbers of the device's endpoints are.
* `lan7800.c:566`, `smsc951x.c:382`: the link bit of the PHY's status is read once,
  so the first answer after a loss is "down" although the link may be up again.
* `lan7800.c:539`, `smsc951x.c:355`: the length in the receive header is compared
  with that of the transfer in an assertion only, which logs. After a transfer
  that failed half-way a header is read from the middle of a frame, with
  whatever length it gives. The drivers reset no PIDs after a failure: what chip
  and driver make of PIDs that differ is not modelled.
* `smsc951x.c:336` speaks of `HW_CFG_BIR`, which this driver never sets.
* `usbkeyboard.c:307`: with two keys down a release can type a key again, and
  after a lost report a press may be missed; `TypedRight` asks for one key at a
  time.
* `usbgamepad.c:161`: fields that span bytes are put together wrongly, most
  significant byte first and with the last byte unmasked; `HandlerRight` and
  `StateSettles` leave their values out. A descriptor with more axes than
  `MAX_AXIS` writes behind the array; the game pads of the run have no more.
* `usbgamepad.c:305`: a completion between the load and the store of a field by
  `USPiGamePadGetStatus` leaves that field old in `m_State` (`late`), and a
  transfer that fails may leave its bytes in the buffer, behind a shorter report
  that is decoded next (`spoiled`).
* `dwhcixferstagedata.c:162`: an empty packet over a split is counted as a full
  one, and after a short one the driver asks on. `usbendpoint.c:200`: ACK alone to
  the complete split of a setup packet makes its PID DATA1, so that the packet
  which does get through is followed by data under the wrong PID. `BytesKept`
  leaves both out. After a failed request PIDs may differ until
  `USBEndpointResetPID`.
* `dwhcidevice.c:841`: the transfer size is cut to 19 bits, the packet count to
  10. `dwhcidevice.c:1006`: an interrupt report of several packets forgets what
  it has when a NAK comes in between; reports of the run fit one packet.
