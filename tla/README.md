# A TLA+ model of the VL53L8CX Linux driver

The repository holds a driver for ST's VL53L8CX time-of-flight sensor: a small
kernel module that gives user space register access and an interrupt to wait
for, a platform layer over it, and the ultra-lite driver (ULD), which downloads
firmware into the sensor, configures it and reads ranging results. These modules
model its control: what happens in which order, what may fail, what is checked,
and what the caller is told. TLC checks them on small instances, and TLAPS proves
the main safety properties for all values of the constants.

## 1. The system

| component | code | state | operations |
|---|---|---|---|
| interrupt wait | `kernel/stmvl53l8cx.c` | `intr_ready_flag`, `wq` | interrupt handler, `ioctl(WAIT_FOR_INTERRUPT)` |
| register transfers | `kernel/stmvl53l8cx.c`, `user/platform/platform.c` | `reg_buf`, the device | `ioctl(TRANSFER)`, `read_write`, `read_regs`, `write_regs`, I2C and SPI |
| ranging session | `user/uld-driver/src/vl53l8cx_api.c` | `streamcount`, `temp_buffer`, `is_auto_stop_enabled`, the sensor's MCU and results window | `start_ranging`, `check_data_ready`, `get_ranging_data`, `stop_ranging` |
| init and power modes | same | sensor registers 0x06, 0x09, 0x0F, firmware and configuration | `init`, `get_power_mode`, `set_power_mode` |
| settings, DCI mailbox | same | blocks of sensor memory, the command mailbox, `temp_buffer` | `dci_read_data`, `dci_write_data`, `dci_replace_data`, `get_*`, `set_*` |
| detection thresholds | `..._plugin_detection_thresholds.c` | thresholds, auto-stop bit and its host copy | `set_detection_thresholds*` |
| crosstalk calibration | `..._plugin_xtalk.c` | saved settings, `xtalk_data`, the sensor's grid | `calibrate_xtalk`, `get_caldata_xtalk`, `set_caldata_xtalk` |
| grids | `vl53l8cx_api.c` | `signal_grid`, `range_grid` on the stack | `send_offset_data`, `send_xtalk_data` |
| results packets | `vl53l8cx_api.c`, `vl53l8cx_api.h` | the output list, `data_read_size`, `temp_buffer`, the results | `start_ranging`, `get_ranging_data`, the macros of sizes |
| motion indicator | `..._plugin_motion_indicator.c` | one configuration block | `motion_indicator_init`, `set_distance_motion`, `set_resolution` |
| I2C address | `vl53l8cx_api.c` | `platform.address`, the sensors' addresses and pages | `set_i2c_address`, `is_alive` |
| driver life cycle | `kernel/stmvl53l8cx.c` | registrations, wait queue, interrupt, misc device | module init and exit, probe, detect, remove |
| user-space I2C/SPI | `user/platform/platform.c` | position in a transfer | `write_read_multi` of the builds without kernel module |
| data | `inc/vl53l8cx_buffers.h` | - | - |

How they interact. Every ULD function is a sequence of register transfers that
or's the results into one `status` and in most places goes on after a failure. In
the kernel build each transfer is an `ioctl`, cut in chunks that pass through one
buffer per device. The sensor is a second actor: it measures on its own, replaces
the packet in its results window at any time, answers mailbox commands after a
while and changes power state after a while. The interrupt handler is a third: it
sets a flag and wakes a queue, with no lock.

What is hard here: a packet that is read in several transfers while it is being
replaced; an 8-bit stream count that wraps and has a special value; a flag that is
cleared after the wait; polls that time out while their command is still under
way; read-modify-write sequences that do not stop at a failing read; register
values that decide what a later call does; a buffer that several functions leave
their bytes in. `PROJECT.json` lists each at its line.

## 2. The modules

| module | models | state and actions |
|---|---|---|
| `Latch` | abstract: what the wait promises | a one-bit latch, raised by the interrupt and lowered by whoever leaves |
| `IrqWait` | handler and `ioctl(WAIT)` | flag, queue, a program counter per thread; each atomic operation, and each step of `wait_event_interruptible`, is an action |
| `IrqWait_proofs` | theorems | |
| `ChunkAccess` | abstract: what a transfer promises | chunks between caller memory and device, in one step each |
| `Transfer` | `ioctl(TRANSFER)`, `write_read_multi` of the kernel build | header, copy from user, bus, copy to user, next chunk; failures of bus and copies; a bus error of a write is dropped, as the code does |
| `MCTransfer` | instance for TLC | the requests |
| `Transfer_proofs` | theorems | |
| `Ranging` | a ranging session | host: one action per transfer or decision of the four functions; sensor: `Frame`, `Halt`, `Trigger` (auto-stop) |
| `Ranging_proofs` | theorems | |
| `KernelRanging` | `Ranging` and `IrqWait` composed | `VL53L8CX_wait_for_dataready` of the kernel build replaces polling; `Measure` is a frame and an edge of INT in one step |
| `KernelRanging_proofs` | theorems | those of `Ranging_proofs` and `IrqWait_proofs` put together |
| `PowerMode` | init and power modes | one action per register step of `set_power_mode`, per phase of `init` |
| `PowerMode_proofs` | theorems | |
| `Settings` | mailbox and all `set_*`/`get_*` | a function is a list (`job`) of mailbox commands; each is posted, polled for and, if a read, fetched; `copy` has the host's two flags that follow a setting |
| `Settings_proofs` | theorems | |
| `Calibration` | crosstalk plugin | a call is a list of steps (`Save`, `Full`, `Prepare`, `Launch`, `Await`, `Read`, `Load`, `Restore`, ...), each of which may fail without ending the call |
| `Calibration_proofs` | theorems | |
| `Zones` | how zones lie | the cell of a zone in both resolutions, as two parts of the code compute it |
| `ZoneGrid` | the reduction of a grid to 4x4 | one action per turn of the loops, on the array that it reads and writes |
| `Chunks` | `write_read_multi`, I2C and SPI | the arguments, the position, one action per message |
| `Results` | packets | the list of outputs, `data_read_size`, the packet, one action per turn of the walk over it |
| `Thresholds` | thresholds plugin | the application's array and the sensor's |
| `Motion` | motion indicator plugin | the application's struct and the sensor's |
| `Address` | `set_i2c_address`, `is_alive` | several sensors; one action per transfer, and the LPn pins |
| `Lifecycle` | module init and exit, probe, removal | one action per step of a probe, the release by devm, handlers and open files |
| `Parts_proofs` | theorems | about `Zones`, `ZoneGrid`, `Chunks`, `Results`, `Thresholds`, `Motion`, `Address` and `Lifecycle` |
| `MCParts` | instance for TLC | the nine modules from `Calibration` on: an initial state chooses one |

Names follow the source. Where a variable is not the program's (a history
variable, or the sensor's), its declaration says so. Operators whose comment begins
with "A mutant" are wrong versions of the definition below them, of a kind that a
careless change would bring (a dropped check, a missing reset, an off-by-one);
each property has one that breaks it, which shows that the property depends on
the code. They are not part of the specifications.

Abstractions.

* `Transfer`: a chunk (1024 bytes, the last one shorter) is one value and register
  indexes count chunks. I2C and SPI differ only in the transfer itself. Requests
  stay in the register space.
* `Ranging`: a packet is the number of its frame. The host sees only the stream
  count (`frame % CountMod`; 255 is `CountMod`, "no packet") and the identifier in
  header and footer (`frame % IdMod`). `head` stands for the first bytes of
  `temp_buffer`, which `check_data_ready` judges: those of a frame, those of a packet
  after `VL53L8CX_SwapBuffer`, or of another command's answer. `GetChunk` is any
  part of the read after which the sensor may replace the packet: the sensor is
  assumed to double-buffer nothing, which is the worst case for the footer check.
  Frames are numbered for ever; `MaxFrame` bounds them. A packet is read faster than
  identifiers come round (2^16 frames take more than fifteen minutes at 60 Hz): the
  guard of `Frame` and `Trigger`. An MCU that is held stopped does not take a start
  command. The optional CRC of packets is off, as it is by default.
  `page` is the page register (0x7fff): the window, the auto-stop flag and the mailbox
  are on page 2, the stop request and the MCU's status (register 6) on page 0. Each page
  select and each register of a stop is a write of its own, which may be lost, so that a
  read can find the other page: a byte of a packet in the place of register 6, or
  registers in the place of a packet. Of the sensor it is assumed that register 6 is not
  0 while the MCU is up or stopped (`init` and `set_power_mode` poll for its bit 0), and
  that page 0 never looks like a packet (`is_alive` reads 0x0C where a packet has 5).
* `PowerMode`: pages, GO1 and calibration buffers are left out; firmware and
  configuration are `"none"`, `"loaded"` or `"configured"`. A read that fails leaves an
  uninitialised byte (`tmp`, `stored_mode`): any outcome of the comparison. The
  sensor forgets its memory in deep sleep ("clears all memory", `vl53l8cx_api.h`).
  Settings registers other than 0x09 and 0x0F do not decide anything. The
  functions are not called while the sensor ranges, as the header asks.
* `Settings`: a block is the value that set functions change, and whose bytes the
  rest are. It is assumed that a command written to the mailbox replaces one that is still
  there, and clears the last answer (`Post`). The driver does nothing to make sure of
  either. So two hazards of the polls are assumed away: the 3 of an earlier command in
  `UI_CMD_STATUS` when the next poll begins (`vl53l8cx_api.c:53`), and a command given up
  by a timeout that keeps the next one out of the mailbox (line 39). Without either
  assumption TLC finds `GetTells` violated, without the first even when nothing fails;
  what is checked is what the driver makes of a firmware that keeps them. The
  functions share code and blocks, not more; an application uses some of them
  (`Applications`): those that write the same block or each other's are together.
* `Calibration`: a get or set function is one step, which does it or fails, with or
  without effect; `Settings` has their commands. A value that a failed read left is
  another valid one, or one that the set function refuses. The sharpener is kept as
  its byte. A grid is whose it is and its resolution. A measurement that timed out
  has ended when the default configuration is loaded, if not before.
* `ZoneGrid`: `Word` stands for 2^32 and is larger than the sum of four cells, as the
  calibrated values are; the grid of the test differs from a constant one in one zone,
  any of the 64.
* `Results`: values are counted in bytes and not computed. The footer, and the CRC in it,
  are walked over as if they were block headers; they are assumed to name no block.
* `Thresholds`: one entry with one limit stands for 64 with two, which the loops treat
  alike. No limit is so large that it overflows when scaled.
* `Motion`: the two numbers computed in floating point stand as the two distances.
* `Address`: the application holds back (LPn) any sensor that would share an address, and
  switches one whose call failed off and on. In the kernel build the kernel goes on using
  the address of its device tree, so that the function has no use there.
* `Lifecycle`: nobody unbinds a driver in sysfs, or pulls a device, under an open file. The
  memory of `misc.name` is not modelled.
* In `PowerMode` and `Settings` a failing transfer is reported, as in the builds
  without the kernel module and for reads in all builds. In `Ranging` a lost write
  may be reported or not.

External parts, modelled from how the code uses them: the sensor and its firmware,
`wait_event_interruptible` and `wake_up_interruptible`, signals, the driver core with
devm, the power supply and the LPn pins of sensors.

## 3. The runs

| run | properties | what it shows |
|---|---|---|
| `irq_wait` | `IInv`, `NoLostWakeup`, `ImplementsLatch`, `SignalServed`, `SomeoneServed` | two waiters and signals: no lost wake-up in any interleaving; the wait is a latch; a signalled process can leave; some waiter progresses |
| `transfer` | `IInv`, `ReadDelivers`, `WriteArrives`, `ImplementsChunkAccess` | two callers, two devices: the bounce buffer is invisible, headers, offsets and copies agree, every request ends |
| `transfer_lost` | `ZeroMeansWritten` (violated) | a refused write returns 0 |
| `ranging_faults` | `PacketInv`, `NoTornResult`, `StopSeen` | faults of all transfers, page selects included: no torn packet is returned with status 0; a stop that asked, and read the status registers, returns 0 only if the MCU stopped |
| `ranging_polling` | `FreshInv`, `FreshResults`, `NoFrameMissed`, `CallsEnd` | no result twice or from an earlier session, no frame leaves the application waiting, calls end |
| `kernel_ranging` | `KTypeOK`, `FrameDelivered` | the same with the interrupt: clearing the flag after the wait loses interrupts but no frame |
| `power_mode` | `TypeOK`, `InitRestores`, `ModeApplied`, `AwakeMeansReady`, `CallsReturn` | partial failures: what 0 means, and that `init` always recovers |
| `power_retry` | `RetryRestarts` (violated) | a retried wake-up returns 0 without firmware |
| `settings` | `TypeOK`, `SetHolds`, `GetTells`, `InStep`, `CopiesAgree` | failures, late answers and retries: 0 means that all blocks have the value, that the answer read was one's own, and that the host's flags for CRC and auto-stop are the sensor's |
| `calibration_thresholds` | `EnableTells` (violated) | a calibration resets half of the thresholds' switch |
| `lifecycle_noirq` | `WaitHasQueue` (violated) | a device without an interrupt is bound, with a queue nobody initialised |
| `parts` | the twelve below | |
| | `SavedKept`, `GridInUse`, `CaldataTells`, `HostWhole` | calibration: the seven settings survive whatever fails in between, the sensor uses the host's data, the data told is the host's, and the host's is never a reduced grid |
| | `GridReduced` | each cell is the average of the four zones that the motion indicator's map gives it too, although it is computed in place |
| | `ChunksWhole` | every byte once, at its register, on both buses, at all lengths; what a failure leaves; no message too long |
| | `PacketFits`, `PacketMapped` | for all 512 choices of outputs and 1 to 4 targets: the packet fits the buffer, whose size is computed elsewhere; every output is found, whole, converted once; the footer is where it is looked for |
| | `ThresholdsTold` | thresholds that were set are those got, and can be set again |
| | `MotionAsSet` | zones and distances of the sensor are those of the last calls, in any order |
| | `AnswersAlone` | every sensor has its address to itself, whatever failed for the others |
| | `UsedIsThere` | no handler, waiter or open file outlives what it uses, in any order of probes, failures, removals and unloading |

Bounds, and why they are enough.

* Two threads, two callers and two devices: the code treats them alike, and a race
  needs two. The proofs remove the bound.
* `MaxChunks = 2`, two registers, two values: a request with a following chunk, and
  payloads that differ. Proved for all.
* `Last = 2` (a first, a middle and a last transfer), `IdMod = 3`, `MaxFrame = 4`:
  the packet can be replaced at each boundary and identifiers wrap. `CountMod = 2`
  in `ranging_faults`: the stream count wraps. In `ranging_polling` and
  `kernel_ranging` it does not: an application that sleeps through exactly 255
  frames does not see the last of them, so `NoFrameMissed` assumes one that keeps up
  (4 seconds at 60 Hz). `FreshResults` does not need that and is proved for all.
* `MaxTries` is 1 to 3 for 200 and 500: a poll that is answered, one that is answered
  later, and the timeout. `PowerMode` is proved for all.
* `Settings`: `MaxTries = 1`, two values of each field, one unsupported. An earlier answer
  can be late by one command or more, which is enough to be taken for the next one's.
  Proved for all.
* `Calibration`: two steps fail, in one call or in two; the settings changed before it are
  one that the grids depend on and one that they do not. The percents of the sharpener
  are those of its default and of what a calibration makes of it. Proved for any failures
  and settings.
* `Chunks`: 4 and 5 bytes for 1024 and 4096, nine registers: transfers of 0 to 4 chunks, at,
  below and above multiples of all chunk lengths. Proved for all.
* `Results`: every build and resolution, so that TLC's check leaves nothing out; two packets,
  as the struct is used again, and the second leaves it as the first does. `Samples`,
  `Limits`, `Distances`: values that do not divide evenly, and distances on both sides of
  both limits. Proved for all.
* Three sensors, three addresses: the one that fails, one that is set and one that waits.
  One device on each bus: a device does not see others.
* `MaxFrame` ends the behaviours; after the last frame the application can still stop,
  so that no deadlock is hidden (deadlock is checked in all runs).

`FreshResults` is checked without faults, and `StopMeansStopped` by no run: it is proved
for sessions in which no transfer fails and auto-stop is not used. Section 6 says why.

## 4. Fairness

* `IrqWait`: weak fairness of the handler thread and of each thread in the ioctl. The
  kernel schedules runnable threads. Nothing is assumed of the sensor, of callers or of
  signals. That is not enough for each of two waiters to be served: one may take the
  flag every time. So `SomeoneServed`.
* `Transfer`, `PowerMode`: a call in progress goes on. The sensor need not answer.
* `Ranging`, `KernelRanging`: a call in progress goes on, and the application's loop
  (`while` in the examples) polls or waits again. The frames, the end of a session
  and the next one are open.
* `Settings` and the modules of `MCParts` state no fairness: only safety is checked there.

## 5. The proofs

`IrqWait_proofs`. `IrqWaitInvariant` proves `IInv`: types, `NoLostWakeup`, a clean queue
for threads outside the wait, and what `ret = EINTR` implies. `NoLostWakeup` alone is not
inductive: that `Recheck` may go to sleep only with the flag down and the thread queued
needs the clauses on `ret`. `WakeupNeverLost` follows. `WaitImplementsLatch`
proves that every step is a step of `Latch` or a stutter; an interrupted wait needs
the clause that `EINTR` means a pending signal.

`Transfer_proofs` assumes `Serialised`: the callers of one device take turns. The code has
no lock, and without the assumption the properties fail, as two callers share `reg_buf`;
the examples use one thread per device. `TransferInvariant` proves `IInv`: `Exclusive`
(one client per device), `Progress` (offsets), `Buffered` (what the bounce buffer holds at
each program point) and `Moved` (the chunks done so far are in place). `ReadsDeliver`
and `WritesArrive` follow at the end of the loop.

`Transfer_proofs` ends with `TransferImplementsAccess`: under `Serialised` every step of a
transfer is a step of `ChunkAccess` - the whole request of one client moves by one chunk,
or ends - or a stutter. `IInv` tells what the bounce buffer holds when it reaches the bus
or the caller, which is what the chunk of the abstract step must be.

`Ranging_proofs`. `PacketInvariant`: the parts of a packet read so far are in the order of
the frames and less than a turn of identifiers apart; so equal identifiers at both ends
mean equal frames (lemma `WholePacket`, by a lemma on remainders), and all between them
is equal too. `ResultsAreWhole` follows, with faults, for every packet length.
`FreshInvariant` (if `~Faults`): the stream count kept is that of the last frame taken while
nothing newer is in the window, and only `stop_ranging` holds the MCU (`Held`), so that
every start empties the window. `ResultsAreFresh` follows for every modulus: a
wrapped count can make the host overlook a frame, and never take one twice. `PollingTellsNew` says the same of what
`check_data_ready` announces. `ResultsAreWhole` also needs that no packet is announced while
page 0 is selected (`PageInv`): `start_ranging` leaves the answer of another command in
`temp_buffer`, and only page 2 has anything that looks like a packet.
`StopIsSeen` proves `StopSeen` with faults and auto-stop: a stop that is past its polls on
page 0 with status 0 has seen the MCU stopped (`StopInv`), and the sensor does not start by
itself. `StopStops` is what the header promises, `StopMeansStopped`, if `~Faults` and
`~AutoStop`: then every stop asks on page 0 or finds the MCU stopped by itself (`AskInv`).

`PowerMode_proofs`. `PowerInvariant` proves `ReadyInv`, in two parts. `PowerInv` says at each
step what the call has done if nothing failed in it (`Changing`, `Starting`), so that at its
end `Achieved` holds; `InitRestores` and `ModeApplied` follow, whatever the calls before
returned. `Remembered` is about runs in which nothing failed at all: if the memory may
be lost, then 0x0F holds 0x43, until `stored` has taken it over; `AwakeMeansReady`
follows. `power_retry` shows why the second part cannot allow failures.

`Settings_proofs`. The hazard is an answer, or a command, of an earlier call that gave up.
`IInv` has four parts. `JobInv`: while nothing failed in a call, every block that its function
is about (`About`) has the value or is still to be written, and all commands to come write
that value. `MailInv`: while nothing failed in it, the mailbox holds nothing, the call's
own command, or - before its first - what an earlier call left, which then concerns
blocks that are all still to be written; and an answer is there exactly if nothing is
pending. `CleanInv` speaks of runs in which no call failed at all: no block has the bytes
of another, and only the blocks of the call that runs may be out of step. `SetHolds` and
`GetTells` follow from the first two and hold whatever failed before, `InStep` and
`CopiesAgree` from the third.

`KernelRanging_proofs`. The wait in a session is `IrqWait` with one thread, but not step by
step under its own name: it stutters while the session does something else. `SameNext` and
`SessionUsesWait` show that every step of the composition is one of `IrqWait` or
a stutter, so that its invariant carries over, and so does its refinement: to a session the
interrupt is the one bit of `Latch` (`SessionSeesLatch`). `KInv` joins it with `WindowInv`, the first part of `PacketInv`, by
`InWait` (the thread is in the kernel only while the application waits). `StopSeen` holds
with the interrupt as it does with polling. `NoTornResult` does while page 2 is selected: the
interrupt announces a packet without a look at the window, also after a page select that was
lost. `FreshResults` does not hold (section 6).

`Calibration_proofs`. A call is a list of steps, so the invariant (`CalInv`) is about the
steps that are left: they are in the order of their ranks, and as long as one of them is not
a `restore` all the restores are (`JobShape`). So a value that is restored was told when nothing
had been changed (`Saving`), and what is restored is what was told (`Restoring`); the
sharpener, kept as a byte and told as a percent, needs arithmetic for all 253 bytes
(`SharpenerKept`). The grid follows the resolution, which is restored after all else that
moves it (`GridSet`), and what is read back or copied is read in 8x8 (`Whole`, `Telling`).

`Parts_proofs` has seven parts.

* `Chunks`: `CInv` says that the bytes before `position` are across and those from it on are
  not; `MessageMoves` that a message of n bytes moves this border by n, in both directions.
  `position` goes past the end in the last turn of SPI, so `CInv` speaks of `count` there.
  `ChunksWhole` follows for all lengths.
* `Address`: `AnswersAlone` is about the states between calls. `AInv` adds who has which
  address and page at each of the three transfers (`InCall`), and that no two sensors on
  the bus have addresses that meet, the old and the new one of a call included (`Apart`).
* `Lifecycle`: `LInv` says what a device has at each stage of its probe (`Built`), that who
  uses it needs the stage before (`InUse`), and that a module that is being unloaded has no
  open file (`Module`). The theorem assumes an interrupt for every device
  (`WithIrq = Devices`), as `lifecycle_noirq` shows it must.
* `Thresholds`: `RoundTrip`, a limit that was scaled is the same when it is scaled back, as
  the two switches agree and a product is divided without rest. `TInv`: the sensor has one
  of the entries asked for, scaled, and an array that may be set holds limits in the
  application's units. `ThresholdsTold` follows.
* `Motion`: `MInv`, unless a transfer failed the sensor's struct is the application's, which
  has the map of the last resolution; lemma `FourZones` says which zones the map of 8x8
  gives to an aggregate.
* `ZoneGrid`: the cells below `step` are reduced and those from it on are as the host has
  them (`Halfway`). A turn reads only zones from its own cell on (`FourZones` again), so the
  reduction in place is that of the whole grid, and a sum of four samples does not wrap.
* `Results`: two computations that know nothing of each other meet here. For the size,
  `ReadSizeFits` compares two sums entry by entry: each block that `start_ranging` counts
  (`RowSizes`: what a header's type and size make of it) is at most the macro's array and
  header (`SizesFit`), and the 40 and 20 bytes of the macro are just the 28 of the first
  three blocks and the 32 that are added. For the walk, blocks lie apart (`BlocksApart`), so
  a header is found in one place only, and behind a block the next one or the footer begins
  (`NextBlock`). So the walk, which knows nothing but the lengths in the headers, is always
  at a header or past the last block: `RInv`, with all that it passed copied (`Walked`).
  Without this the walk could be within a block, where data looks like a header.
  `PacketFits` and `PacketMapped` follow for every build.

Assumptions are those of the modules (`RangingAssumption`, ...) and those named above.
The invariants were model-checked before they were proved, and every invariant that a
passing run checks has its theorem. Model-checked only: liveness and fairness, hence the
fair part of the two refinements, `SignalServed`, `SomeoneServed`, `NoFrameMissed`,
`FrameDelivered`, `CallsEnd` and `CallsReturn`, as the prover has no rule for fairness.

## 6. Where the code and its words part

Four runs end in a counterexample; `PROJECT.json` (`findings`) quotes the words.

* `transfer_lost`: `write_regs` ends in `return 0`.
* `power_retry`: 0x0F, the only memory of a deep sleep, is reset before `init` runs.
* `calibration_thresholds`: the default configuration that a calibration loads has the block
  of the thresholds' interrupt and not that of their switch.
* `lifecycle_noirq`: `PTR_ERR(NULL)` is 0, and the probe goes on without an interrupt.

Others are visible in the models and have no run:

* A wait for a frame may return 1 although there is none: the flag is lowered by a wait only.
  An interrupt that comes between the end of a wait and the reading of the packet ends the
  next wait, for a packet that was read; one that nobody waited for before `stop_ranging`
  ends the first wait of the next session, whose window is empty. So neither
  `FreshResults` nor `ReadyMeansNew` holds in `KernelRanging` (TLC finds the second case
  when either is added to `KernelRanging.cfg`), while polling keeps both
  (`ResultsAreFresh`, `PollingTellsNew`). An application that compares the stream counts
  is not harmed; the examples do not.
* `dci_replace_data` writes back a block that it failed to read; a retry of the set function
  then returns 0 on a block with the wrong bytes around the value.
* `check_data_ready` judges `temp_buffer` when its read failed (`CheckFails`): old data is
  reported as new, with a status that is not 0. The examples look at the flag only.
* `stop_ranging` may return 0 while the sensor goes on ranging, although the header says
  "status : 0 if stop is OK" (`StopMeansStopped`). When the polls run out the status is the
  value of the register (`status |= tmp`, line 687). If the page select of line 672 is lost
  without an error - `write_regs` of the kernel module drops it - that is a byte of
  the results window: 0, or with bit 7 set, which ends the polls at once as "stopped". TLC
  finds this in nine states when `StopMeansStopped` is added to `RangingFaults.cfg`. What
  holds with faults is `StopSeen`: if the page was selected, the timeout is reported, as
  register 6 is not 0.
* With auto-stop enabled `stop_ranging` sends no stop request, and returns 0 while the
  sensor goes on ranging.
* `set_power_mode(SLEEP)` in deep sleep leaves 0x43 in 0x0F: still deep sleep, status 0.
* `set_resolution` sends the grids of 8x8 when asked for a resolution that does not exist;
  `set_ranging_mode` writes two blocks for a mode that does not exist. Both return 127.
* `set_ranging_frequency_hz` checks nothing: 60 Hz at 8x8 returns 0, where the header
  (`vl53l8cx_api.h`, lines 541-543) promises 127.
* A calibration also resets the sync pin and the repeat count of the VHV, and brings the
  sharpener back a percent smaller, as percents and bytes are rounded down both ways.
* When the cover glass is too good, the default data that `calibrate_xtalk` copies is
  overwritten by what it reads from the sensor; with wrong arguments in 4x4, the host's 8x8
  data is overwritten by the reduced grid. Both return an error (`HostWhole` is about
  calls that return 0). After a timeout the measurement is not stopped.
* The crosstalk plugin keeps the size of a block in a byte: 64 zones of 4 targets are 0.
* An array of thresholds that was set has been scaled: a second `set_detection_thresholds`
  with it, also after a failure, scales it again.
* `motion_indicator_set_distance_motion` accepts a minimum above the maximum, and converts
  a negative number to `uint8_t`; `motion_indicator_init` with a wrong resolution leaves
  the struct without a map.
* If `spi_register_driver` fails, the I2C driver stays registered after the module is gone.
* `misc.name` of a numbered device points to a buffer on the stack of a function that has
  returned.
* The results of zones that a smaller resolution does not have are divided again at every
  packet (`Results` counts the conversions of what was copied only).

## 7. Not modelled, and the plan

Not modelled:

* The firmware and the default data: 22,012 of the 28,759 lines of the implementation are
  bytes in `vl53l8cx_buffers.h`. What depends on them is modelled: whether they are in the
  sensor (`PowerMode`) and which blocks the default configuration has (`Calibration`). That
  the map covers a small share of all lines is due to this file; of the code it covers most.
* `comms_init` of the platform (opening a bus, its speed), `WaitMs`, `SwapBuffer`,
  `generate_crc_checksum`: no state of their own. With the CRC enabled `get_ranging_data`
  refuses packets that it would accept without; the models have it off, except that its flag
  is in `Settings`.
* The examples and the test menu, which are read as callers, device trees and Makefiles.

What could come next is the data that the models count and do not compute: the conversion of
the results with their widths, and the entries of an array of thresholds with their zones.
