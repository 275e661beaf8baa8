# TLA+ models of the Ex10 reader SDK on the nRF5340

The repository runs Impinj's Ex10 SDK under Zephyr RTOS: an application drives
an Ex10 (E710/E910) UHF reader chip over SPI, and the chip reports tag reads and
operation results through an event FIFO and one interrupt line, IRQ_N. These
modules model two parts of the SDK that are hard to test on a bench: what the
IRQ_N monitor thread, the GPIO interrupt service routine, the application thread
and the chip do to each other's state; and the translations between what an
application means and what the chip is given, where a mistake shows only for some
argument, after some sequence of calls, or after some failure.

Paths below are relative to `src/src/` (`board/zephyr_rtos/...`,
`src/ex10_api/...`, `include/...`).

## The system

| Component | State it keeps | Operations | Talks to |
|---|---|---|---|
| IRQ_N monitor, `board/zephyr_rtos/gpio_driver.c` | callback pointer, enable flag, edge count, semaphore, recursive lock | ISR, monitor thread, register, deregister, enable, `irq_enable` | called by Ex10Protocol and the power transactor; calls `interrupt_handler()` |
| Ex10Protocol, `src/ex10_api/ex10_protocol.c` | interrupt and FIFO data callbacks, upload progress | register access, `interrupt_handler()`, `read_event_fifo()`, callbacks, operations, reset, upload | commands, buffer lists, use cases |
| Buffer lists, `src/ex10_api/fifo_buffer_list.c` | free lists of 8 event and 4 result buffers | get, put, size, release | monitor thread takes, application returns |
| Event FIFO queue, `src/ex10_api/ex10_event_fifo_queue.c` | list of filled nodes, packet iterator, parsed packet | push, peek, remove, wait, timed wait, unwait | monitor thread pushes, application consumes |
| Use cases, `src/ex10_use_cases/`, `src_gen2x/ex10_use_cases/` | inventory state, stop conditions, parameters, place in a list of activities or powers | init, deinit, run, interrupt callback, FIFO callback, packet publishing | everything above |
| Power modes and power transactor | power mode | off, standby, ready cold, ready | protocol, ops, monitor |
| Ops, RF power, dynamic ramp, ramp modules | running operation, stored ramp variables, callbacks of the modules | start, wait, `cw_on`, `update_power`, stop transmitter | protocol, aggregate op builder, active region |
| Active region, regulatory regions | region, hop table, channel times, overshoot, one custom region | set region, next channel, single frequency, disable timers, timers, overshoot update | RF power, inventory |
| Commands, command transactor | command and response buffers | read, write, FIFO read, insert, upload, READY_N handshake | SPI |
| Gen2 transaction manager, Gen2 commands | local list of commands, masks of enabled slots | append, encode, decode, write, enable, read back | commands, use cases |
| Aggregate op builder | buffer of instructions | append, set, run | ops, RF power |
| Calibration, RSSI compensation | parameters of the part, tables and filter in use | conversions between power, attenuation, detector and RSSI | RF power, use cases |

Two threads matter. The IRQ_N monitor thread is cooperative, priority -5
(`gpio_driver.c:89`); the application runs at priority 5 in `main.c`. The monitor
thread calls the protocol's interrupt handler, which calls the use case back, which
may start the next inventory round; the application waits for packets. A call that
only translates (a Gen2 command, a power, a list of registers) runs on whichever
thread makes it, under the host lock as far as it touches the chip.

### Hard behaviours

* An edge of IRQ_N arrives at any instruction: during the handler, between the
  test and the reset of the count, while the application is disabling the monitor.
* Host commands of both threads share one pair of buffers under one recursive lock.
* The pool of event buffers runs empty; reading stops and has to be restarted by
  the consumer, while the monitor thread may just have taken the freed buffer.
* Commands fail on either side of their effect; buffers must survive every error path,
  and so must the power mode, the upload and the list of commands on the chip.
* A use case is closed and reopened while nodes are queued.
* Stop requests, stop conditions and errors end an inventory in different threads.
* A round halts on a tag, is cut by the regulatory timers, and is resumed by one thread
  while the other restarts it.
* The chip ends a ramp on its own timers, while the host still prepares or uses it; the
  host learns of it from registers that a failed start leaves as they were.
* The chip restarts by itself into its bootloader, which hears a slow clock only.
* Fields behind a pointer of variable length, registers split over several transfers,
  bytes borrowed for a response code and put back: an encoder and a decoder that must agree.

### Properties that make the components correct

* Monitor: no edge is lost; the handler never runs on an unpowered chip or while
  the application uses the host interface; an asserted line is served.
* Queue: no lost wake-up; what is being parsed is not recycled; waits end.
* Path: a node is in one place; no node leaks; reading restarts; packets arrive
  once and in order.
* Inventory and the other use cases: a run ends with exactly one summary, and only when no
  round is running; counts match what was delivered; every access meets its own tag, every
  activity is performed once and in order.
* Power modes and reset: a changed mode is the mode the chip is in; no supply is cut under
  a transmitter that is on; a reset gets hold of the chip whatever state it is in.
* Ramps: nothing is transmitted on a channel that was not heard to be quiet; an antenna is
  checked or the caller is told; the power changes by steps the board allows.
* Active region: times on and off a channel stay within the regulation, whatever cuts a
  ramp short; every channel is used in turn.
* Translations: what is decoded is what was encoded; the chip holds and runs what was built;
  a power and an RSSI are what the calibration of the part says.

## Modules

| Module | Models | Proofs |
|---|---|---|
| `IrqDelivery` | what the monitor promises, abstractly | |
| `IrqMonitor` | `gpio_driver.c` with the calls that register, enable, power up and down | `IrqMonitorProofs` |
| `EventFifoQueue` | `ex10_event_fifo_queue.c` with mutex, condition variable and waits | `EventPipelineProofs` |
| `EventStream` | what the FIFO path promises: packets in order, once | |
| `EventPipeline` | chip FIFO -> interrupt handler -> buffers -> queue -> packet loop | `EventPipelineProofs` |
| `InventoryRuns` | what `continuous_inventory()` promises to its caller | |
| `ContinuousInventory` | a run from start to return: application, monitor thread, Ex10 | `ContinuousInventoryProofs` |
| `ChannelTime` | time on each channel, regulatory timers, off time and overshoot, with `start_inventory()` and `cw_on()` | `ChannelTimeProofs` |
| `RfPower` | `cw_on()` with listen before talk, antenna disconnect and the ramp module manager | `RfPowerProofs` |
| `Device` | power, boot, reset, callbacks, upload and power modes over transfers that fail | `DeviceProofs` |
| `ActivitySequence`, `TagAccess`, `PowerSweep`, `FastTagTracking` | the other use cases, each with its two threads and the Ex10 | |
| `UseCases` | composes these four: one of them is initialized at a time | `UseCasesProofs` |
| `Gen2Commands`, `Gen2TxCommandManager` | the bits of every Gen2 command; the local list, the tables of the chip and its masks | |
| `EventPackets`, `Commands` | packets as bytes; splitting of reads, writes and FIFO reads over transfers | |
| `Calibration` | powers, detector values and RSSI of a calibrated part | |
| `RegulatoryRegions`, `ActiveRegion` | the regions as data; choosing, changing and hopping | |
| `Ops`, `AggregateOpBuilder`, `AggregateOp` | operations of the chip, what the builder appends in their place, and the run of a buffer on the chip | |
| `HostLibrary` | composes the last five rows: an application works with one of them, the others keep still | `HostLibraryProofs` |
| `MC*` | the instances that TLC checks | |

Two compositions keep the number of instances small: `UseCases` and `HostLibrary` hold modules
that do not act together in the code (two use cases are never initialized at once; a conversion
calls no other), so the initial state chooses one and the rest stays still. The modules that do
act together are composed by state instead: `ContinuousInventory` has the queue, the monitor
thread and the chip in one module, and rests on what `IrqMonitor` and `EventPipeline` establish.

### IrqMonitor

One action per atomic access of the ISR and of the monitor thread: taking the
semaphore, testing the count, zeroing it, taking the lock and testing callback and
flag, the handler's status read, its return. The application's calls are programs
over driver steps (`NextStep`): setup with `init_ex10()`, mask writes and commands of
a use case, power off, power on, teardown. Each assignment of `register_irq_callback()`,
`deregister_irq_callback()` and `irq_monitor_callback_enable()` is a step of its own,
because the ISR does not take the lock. `FailStep` says where a failing command leads.

Abstractions: the count is only zeroed, incremented and compared with zero, so it
saturates at 1; the lock is recursive and only its owner is kept; the chip is two
bits, "some interrupt bit set" and "some bit unmasked". Removing power drags IRQ_N
low, which is the edge the comment in `ex10_power_modes.c:153` speaks of. The
application starts a call only when the API allows it (`Usable`).

### EventFifoQueue

Two threads and an optional third that calls `packet_unwait()`. The condition
variable is the Zephyr one: `ex10_cond_signal()` is a broadcast, waiting gives the
mutex back atomically. A node stands for its packets: `packet_remove()` either leaves
the node or removes its last packet and pops it.

### EventPipeline

The handler holds the host lock for all of its run, so a host command of the
application is one step taken while the handler is idle; buffer and queue operations
interleave freely. A packet is a number, so that order and repetition can be seen;
`Ex10ResultPacket` (0) is an error report. The handler's and the application's places
are `irqPc` and `appPc`. IRQ_N is the latch `irq_pending`: `IrqMonitor` justifies it.

Abstractions: building an error packet and queueing it is one step where nobody else
can see the node in between; the flush of `ex10_discard_packets()` is left out, its
peek and remove loop is in; every event buffer holds a whole device FIFO, as
`fifo_buffer_list.c:80` demands; the chip stays in the Application.

### ContinuousInventory

The use case between the application (`appPc`: check, start, publish, peek, restart),
the monitor thread (`irqPc`: end of round, decision, continuation or summary, FIFO) and
the Ex10 (an operation that emits tags and ends, a FIFO, the interrupt status). It
stands on the other two modules: IRQ_N is the latch of `IrqMonitor`, a queued node is
the sequence of its packets as in `EventPipeline`, and a host command of the application
is a step taken while the monitor thread is idle. `inventory_state` is read and written
by both threads without a lock, so every access is in a step of its own thread.

`ex10_result` persists over the packets of a run as in `publish_packets()`: a subscriber
that asked to stop is taken to ask again with every later packet. The summary carries the
count at its insertion and gets its final count in `fifo_data_handler()`.

The limits, the sizes of the buffers and the failures of an instance are one record, `setup`,
chosen in the initial state from `Setups`: one run looks at limits and at failures.

Abstractions: the clock is two bits, `max_duration_us` over and twice that over; why a
round ends is one of three classes; Q, target and select bookkeeping, transmitter and
temperature are left out of `start_inventory()`, which is a check and a start, either of
which may fail, the start before or after it took effect. The packet filter is on.
`emitted` and `earlier` are observations of the Ex10, `reported` and `summary_tags` of
the subscriber.

### ChannelTime

`start_inventory()` from the look at the transmitter to the ramp (`pc`), the history that
`update_channel_time_tracking()` takes from the registers of the Ex10
(`channel_last_start`, `channel_last_end`, `channel_total_time`), the timers that
`get_regulatory_timers()` of the ETSI and Japan regions derives from it, their compensation,
the off time and the failures of `cw_on()`, and `update_timer_overshoot()`. The Ex10 keeps
time (`Tick`), ramps down on its timers or earlier, and remembers its last ramp up and down.
Time passes between any two steps of the host.

Of the calls that fail, some make the start return (`FailsBeforeRamp`, `AggregateOpFails`) and
others are ignored. `get_cw_is_on()` ignores its read (`ex10_rf_power.c:81`), in `start_inventory()`
and again in `cw_on()`: the start may take the wrong branch, and the ramp may be left out. So does
the read of the timestamp (`ex10_active_region.c:455`): the timers are then those of any time. When a
start ramps up a second time it ignores what `build_cw_configs()` returns (`ex10_inventory.c:174`);
the timers are not arbitrary for that: before they are computed only the synthesizer parameters can
fail, and only in the region that is not defined, and the antenna switch, which may fail too, comes
after them. An Ex10 that transmits is taken to refuse another ramp up.

What really happened is observed beside the code, in real time: `up_since`, `off_since` and
`occupied`, the time a channel has been held, in which a gap shorter than the off time counts
as held. `tracked` observes whether the last ramp has been tracked, `mistracked` whether one was
tracked twice, or while it was up; `misread` that the timers are for a time that was not read, and
`unsure` the channels that were ramped up with such timers and have not been silent for the off time
since. `LimitIsKept` relates the two sides, over many ramps. After a mistracked ramp it says nothing:
a start that returns before its ramp leaves the registers of the last ramp to be tracked again
(`ex10_inventory.c:122`), and a ramp that is tracked while it is up seems to end before it began. An
ignored read of the time costs less: the limit of that channel, until its next off time, and the off
time before that ramp; the history stays true.

Abstractions: the registers are read together with the clock in one step; of the timers the
extended one, which only bounds tag accesses, is left out; frequencies are channel indices.
The Ex10 squelches the transmitter at the regulatory timer and needs at most `Lag` beyond the
nominal one.
The region cannot change while time is tracked, and the registers of the last ramp are those of
the last channel; `ActiveRegion` has changes of the region, with fresh channels.

### RfPower

`cw_on()` step by step: the status of the transmitter, the off time, the callback before the
ramp, batches of RSSI measurements, the aggregate operation, the callback after the ramp, and
the ramp down of a disconnected antenna. The modules register and store their variables between
calls, in any order. The Ex10 may ramp down on its timers at any moment.

Abstractions: an operation is started and waited for in one step; a measured RSSI is quiet or
noisy; the reverse power is measured well, or too high, or not at all. `heard`, `came_up`, `told`
and `checked` are observations.

### Device

One thread calls the API, so each call is one action. An operator named after a function maps a
state to the set of states that it may leave, and `ok` says whether it returned an error: `Then`
goes on after success, `Always` where the code ignores the result. A transfer fails before or
after its effect (`MaxFailures`); the chip may restart by itself between calls (`MaxCrashes`). A
read of the running location that fails leaves any location, as the uninitialized variable in
`get_running_location()` does. `upload` observes the upload in chunks: "over" once it broke off or
was completed, "misstarted" from when `upload_start()` sets the lengths until its transfer has
succeeded. When that transfer fails the code keeps the lengths (`ex10_protocol.c:1067-1075`), and the
chunks that follow are sent: in the model they do reach an upload the chip has open from before.
`NothingAfterError` exempts them, until one fails. `deinit()` keeps the length, too. Waiting for an operation and the interrupt thread are left to
`RfPower` and `IrqMonitor`; `handlers`, `hung` and `cut_hot` observe what must not happen.

### The use cases

`ActivitySequence` walks a list of ramps, selects, ramp downs and rounds, first on the thread of
the application and then, at each end of a round, on the monitor thread; both run the same
operators with the thread as a parameter. `TagAccess` has one round that halts on each tag, with
the client's callback as the headers describe it. `PowerSweep` changes the power between rounds,
while the transmitter may go off. In these three a host command of the application is a step taken
while the monitor thread is idle, as in `ContinuousInventory`, and the monitor thread yields in
commands only. `FastTagTracking` is one thread over runs of the continuous inventory, which appear
as what `ContinuousInventory` shows of them; its time is modulo `Clock`.

Abstractions: target, Q and select bookkeeping; RF modes are members of a small set; tags are
numbered, and a tag's CRC is a model value. Commands of the application and of the handler fail, but
not the handler's own reads of the status and the FIFO (`ex10_protocol.c:228`): those fail in
`IrqMonitor`, `EventPipeline` and `ContinuousInventory`. `FastTagTracking` leaves out that a round
may report a tag twice, and what the client's callback does with a summary.

### Gen2Commands and Gen2TxCommandManager

The encoder and the decoder of each command are two sequences of steps (constants, fields, bit
vectors of variable length, spans), as in the generated source, where the two are apart too. The
manager keeps slots, packs the valid ones into the transmit buffer of the chip and writes offsets,
lengths, identifiers and controls, which may be lost, as may the buffer, each mask and each write of
`clear_sequence()`, because their results are ignored. What the chip would transmit is computed from its registers alone.

Abstractions: a span fits the 40 bytes of an encoded command, which the encoder trusts the caller
for; a decoded span is its bits, not a pointer into the encoded ones; the reads of
`read_device_to_local()` do not fail, and nothing is read back after a transfer was lost.

### Commands and EventPackets

Memory is a function from addresses to bytes, a list of registers is addresses and lengths, a
descriptor stands for its four bytes. `Burst` bounds a transfer, as the SPI bursts of the
chip do; buffers are small enough that a register, a descriptor or a packet falls on each side of
a boundary. A read borrows the last byte of what it has already received for the response code.

### Calibration

Parameters of a part are read by version; conversions interpolate in tables. The floats of the
source are exact fractions in hundredths of a dB, truncated where C truncates. Its properties speak
of powers that some detector can measure, and of RSSI values that corrections leave non-negative.

### RegulatoryRegions and ActiveRegion

The table of every region as data. `ActiveRegion` has the hop table and its shuffling, the
synthesizer settings, and the two changes that test modes make: both write the one
`custom_active_region`. The passing run changes one region only: what happens when a second one
is changed is a finding. Shuffling uses two generators, the TCXO is 24 MHz, channels are fresh.

### Ops, AggregateOpBuilder and AggregateOp

An operation is the registers it writes and the operation it runs. `AggregateOp` builds the
sequences of `cw_on()` and `update_power()` and those of an application, sets them (only the bytes
of the sequence are written: a longer one leaves its tail), and has the chip run them until the
exit instruction, an operation of its own, or a failure.

## Runs

| Run | Question | Bounds |
|---|---|---|
| `irq_monitor` | Does the monitor keep its promise, also when commands and reads fail? | none: the model is finite |
| `event_fifo_queue` | Is every push heard of, with plain and timed waits and unwaits? | 3 nodes: list, monitor thread and iterator can each hold one |
| `event_pipeline` | Are nodes and order safe under failures and reopening? Does the reading always restart while nothing of that happened, and is everything delivered? | 2 event and 1 result buffer, FIFO of 2, threshold 1, 4 packets, 2 failures |
| `inventory` | Do limits and requests to stop end two runs cleanly, with the right counts, and does a run return whatever fails? | `Limits`: 3 tags, limits of 2 rounds and 2 tags or none, 4 buffers, 2 runs. `Faults`: 1 + 1 buffers, 2 tags, 2 failures, 1 run |
| `channel_time` | Do the timers keep every channel within its limit? | 2 channels, nominal 3, limit 5, off time 2, lag 1, 9 units of time, 1 failure, noticed or ignored |
| `rf_power` | Is the channel heard and the antenna checked, and is the caller told? | batches of 2, 3 quiet ones required, 5 measurements at most, 2 failures |
| `device` | Does any sequence of setups, resets, modes, callbacks and uploads leave chip and host in step? | images of 2 chunks, 2 failures, 1 restart of the chip |
| `host_library` | Does each translation keep what was meant? | see below |
| `use_cases` | Does each of the four use cases do its work once, in order, and end? | 2 runs, 4 rounds, 2 tags, 1 failure, 1 cut by the timers |
| `inventory_stale` (violation) | Does a successful run mean that its stop conditions were met? | 2 tags, 2 runs, 1 round each |
| `gen2_long_pointers` (violation) | Is a pointer of three bytes decoded as it was encoded? | 3 commands, 3 calls |
| `region_overridden` (violation) | Is the region that was set the one that is active? | 2 regions, 5 requests |

What the passing runs check:

* `irq_monitor`: `NoLostEdge`, `HandlerIsArmed`, `HostInterfaceExclusive`, and that the monitor
  implements `IrqDelivery` (`ImplementsDelivery`).
* `event_fifo_queue`: `NoSleepOnData`, and `PushedIsSeen` under fairness.
* `event_pipeline`: `NodesAreNotShared`, `NoNodeLeaks`, `PacketIsStable`, that the path implements
  `EventStream`, and `AllDelivered`: the reading is never stranded and every packet arrives.
* `inventory`: `NoStrayRound`, `SummaryIsLast`, `RunEnds`, `StopIsHonoured`, and that a run
  implements `InventoryRuns`.
* `channel_time`: `LimitIsKept`, `HistoryIsTrue`, `OvershootIsBounded`, `OffTimeIsObserved`.
* `rf_power`: `ResultIsTrue`, `ListensFirst`, `CallEnds`.
* `device`: `SafeThroughout` (types, no supply cut under a transmitter that is on, an interrupt is
  heard, off is quiet), `ChangeMeansMode`, `ResetRecovers`, `NothingAfterError`.
* `host_library`: eight properties, each of the component in use and stated in its module.
* `use_cases`: one safety property for each use case, and `UseCaseEnds` for all of them.

Ten units of time are two full uses of both channels, or four short ramps on one; the
limit is the smallest that leaves room for one unit of gap and one of lag, as 3800 + 99 + Lag
<= 4000 does in the tables. `channel_time` does not check for deadlock: time ends. Nor do
`event_pipeline`, `inventory`, `use_cases` and `host_library`, in which the system rightly
stops once its bounded packets, runs or calls are used up.

The inventory needs two runs to show what one leaves to the next, and more tags than the
limit on tags. `round_count` saturates above the limit on rounds.

The pools are small on purpose: running empty is the interesting case, and with the lowest
threshold two packets take both buffers, so that the other two find the pool empty and the
reading stops and restarts. Two failures allow one to hit the handling of another.

In `rf_power` a row of three quiet measurements must span two batches of two, and five is reached
only by a third batch. In `device` two failures and a restart allow each recovery to fail once. In
`host_library` the list of commands is full after two, and pointers take one or two bytes, spans no
bit, part of a byte or more; there are two calibrated parts with different RF modes and an erased one;
registers, lists and packets end before, on and after the end of a transfer of 20 bytes; there are
three regions and a name without one; attenuations lie on all sides of the coarse step. In `use_cases` an
activity sequence has two rounds with everything between them, and the sweep two levels, so that it
goes back to the first.

### Fairness

Ready threads run and a pending ISR is served: weak fairness. `k_mutex_unlock()` hands
the mutex to the highest-priority waiter, so acquiring a lock is strongly fair; a host
command of the application is strongly fair because the handler, once idle, needs a new
edge to run again. Neither the chip nor the application has to begin anything: there is
no fairness on events, pushes, unwaits, closing or calls. Of the Ex10, the inventory and the other
use cases assume that a round ends, and that one cut off by the regulatory timer again and again is
done at last. They do not assume that time passes, so a run never ends only by its timeout.
`RfPower` assumes that a call that has begun goes on.

### Findings

* `inventory_stale`: a run that returned with an error leaves its summary behind, and the next run
  takes it for its own: it returns success while its inventory has only begun. The example drains
  the queue after an error, which helps only if the summary is already there.
* `gen2_long_pointers`: `ebv_length_decode()` never finds a pointer of three bytes, so such a
  command is decoded with a wrong pointer and wrong fields behind it when it is appended as bits or
  read back, and its reply length is wrong.
* `region_overridden`: the layers of two changed regions share one record. After the second was
  changed, setting the first one again loads the channels and timers of the second.

Other places where the code does not do what is written of it, or what a caller may expect. They
follow from the source as the modules have it; no run is spent on them, and where a property is
weaker because of one, its comment says so.

* A timed wait never times out on this port: the queue tests for `ETIMEDOUT`
  (`ex10_event_fifo_queue.c:233`), `k_condvar_wait()` returns `-EAGAIN`. As long as no packet
  arrives, `publish_packets()` does not reach its own timeout.
* If the mask write in `Ex10Protocol.deinit()` fails (`ex10_protocol.c:368`), the callback stays
  registered, power is removed with the monitor armed, and the resulting edge runs the handler on an
  unpowered chip (`PowerIsOn` is proved for commands that do not fail).
* A subscriber's error makes `continuous_inventory()` return while the round still runs; the next
  call forgets the request to stop before its start is refused, and the old inventory goes on.
* A start that fails before its ramp up makes the next `start_inventory()` track the last ramp a
  second time; the next ramps may then hold the channel beyond the limit.
* A ramp that is up while the millisecond clock of the Ex10 wraps leaves a start greater than its
  end, which `get_regulatory_timers()` takes for a transmitter that is still on.
* Listening that fails before it has measured returns `INT16_MIN`, which is under every threshold.
* `set_power_mode_off()` removes the power although the ramp down failed and keeps the old mode
  (`ex10_power_modes.c:169`); setting that mode again does nothing.
* The handler of the power sweep starts the next round after a power change that failed.
* `packet_unwait()` (`ex10_event_fifo_queue.c:239`), which nothing calls, is said to unblock a waiter
  "even when no packets are pending", but changes nothing that the waiter tests.
* The comment in `event_fifo_buffer_pop()` is sure that there is room for the error of a failed
  restart, while the buffer just released belongs to the other pool.

## Proofs

`IrqMonitorProofs` proves, for every value of the two failure switches, that
`MonitorInv` is an inductive invariant. `NoLostEdge` is not inductive alone. It needs
that the monitor is armed only while the chip's mask is clear and the line released
(`ArmingIsMasked`): then no edge can have been missed before. It needs the lock's owner
at each place of the two threads (`HandlerHasLock`, `CallHasLock`), since the
application's mask writes and arming must not happen inside the handler, and that an
unregistered callback is also disabled (`Deregistered`). `HandlerIsArmed`
follows: a call that disarms is a barrier against the handler. `PoweredOffQuiet` needs
`~AllowCommandFailure`: a failing mask write in a teardown makes it false. The last
theorem maps every step to a step of `IrqDelivery` or a stutter.

The last part of `EventPipelineProofs` is about `EventFifoQueue`, of which it has an instance,
`Queue`: the instance's variables are the variables of those names and four more, and no action of
`EventPipeline` is used. The lemmas on sequences without repetition serve both. It proves, for any number of nodes, that `QueueInv` is inductive: who owns the
mutex at each place of the two threads (`QueueOwnersMatch`), that the node in the hand of the
monitor thread is not in the list and none is there twice (`QueuedNodesAreApart`), and with them
that the node being parsed is the front of the list (`Queue!IteratorIsFront`). `NoLostWakeUp` proves
the `NoSleepOnData` of the run `event_fifo_queue`, which is inductive by itself: between the push
and the signal `irqPc` is "signal", and every test of the application reads the list under the
mutex.

`EventPipelineProofs` proves, for pools of any size and any number of failures, that
`NodeInv` is inductive: `NodesAreNotShared` together with which hands hold a node at each
point of the two threads (`HandsMatch`), the iterator being the front of the queue
(`IteratorIsFront`), queued nodes having data (`DataIsThere`) and a read fitting what the
FIFO holds (`ReadFits`). The sequence facts it uses come from `SequenceTheorems`.
`NoNodeLeaks` is proved from `DrainBeforeInit` and `ClosedIsQuiet`.

Its `NothingIsStranded` is the action part of `AllDelivered`, for any pool of event buffers that is
not empty. `NoStranded` is not inductive; `StrandInv` is, as long as nothing has failed or been
closed: an enabled status asserts the line until the handler reads it (`LineIsAsserted`), the mask
is enabled last, with both callbacks registered and an empty queue (`MaskIsLast`), and packets that
reach the threshold and that the status does not tell of are about to be read, or the
application is about to restart the reading, or no buffer is free (`ReadingGoesOn`).

`StreamIsImplemented` proves the refinement `Spec => ImplementsStream`: for pools and FIFOs of any
size, any number of failures, and however the use case is opened, drained and closed, the
application consumes what the Ex10 emits in the order of emission, nothing twice, and what is lost
is a run of neighbours and lost only if commands may fail or the use case may be closed. Its
invariant is `InOrder`: the packets at hand, those of each waiting node, of the node just filled and
of the FIFO rise from place to place and within each place, above the last that was delivered and
up to the last that was emitted (`Order`); error reports, which are no packets, may stand anywhere.
The lemmas `WayEmits` to `WayForgets` say of plain lists how the line moves; a lemma for each
kind of step (`ReadMoves`, `DeliveryMoves`, `TakeMoves`, `ConsumeMoves`, ...) maps it to one of
those moves, and so to `Emit`, `Deliver`, `Lose` or a stutter of `EventStream`. That an undisturbed
path loses nothing rests on `MaskIsLast`: then the node that the handler delivers has a consumer,
and `init()` finds the queue empty.

`ChannelTimeProofs` proves, for any number of channels, any timers with room for one off time
and the lag, and any number of failures, that `Inv` is inductive. `LimitIsKept` alone is not:
it needs that the nominal timer under preparation fits what is left of the channel, unless it is for
a time that was not read (`Fits`, `TimersInv`), which in turn needs that the history is true
(`HistoryInv`, with the ramp that has not been tracked yet as its only exception), and that the
registers are what happened (`RampInv`). The history is true of channels that were held for too
long as well: what is held is bounded by the time that has passed (`UseInv`). All of it but types,
registers and overshoot speaks of runs without a mistracked ramp. The theorems have the hypothesis `NoRollover`, that the clock does not wrap
within the time looked at: the code takes a start after its end for a transmitter that is on.

`RfPowerProofs` proves `ListensFirst` for batches of any size and any number of required quiet
measurements, provided that the limit of measurements leaves room for them, and `ResultIsTrue`
without conditions. `RowAfterBatch` says what a batch makes of a row of quiet measurements: that
there is a last noisy one, if any, is found as a least element (`LeastNumber`, from the
well-foundedness of the numbers). The invariant of listening is that, unless a measurement has
failed, the measurements that are counted are those that were made, and all of them if none was
noisy (`CountIsTrue`). `TellInv` strengthens `ResultIsTrue` to the places of a call at which a
transmitter may be up and not yet checked.

`ContinuousInventoryProofs` proves, for any limits, buffers and numbers of tags, rounds and runs,
what holds while nothing fails (`FaultFree`: no failing command or subscriber, no time limit, and
room in the queue for a run). Its invariant is `Calm`: between runs everything is clear; in a run a
round is running, or its end is being handled, or only the summary is missing (`Rounds`); the
counters agree with what was emitted (`Amounts`); and the packets of the FIFO and of the queue
stand in one line, the tags and then the summary (`Line`). `Line` says that there are positions
`at` that number the tags over both sequences, node by node: so a step moves positions, and nothing
has to be counted by induction. `NoStrayRound`, `SummaryIsLast` and the action part of
`StopIsHonoured` follow. `RunsAreImplemented` is the refinement of `InventoryRuns`: with
any failures for one run (`Tallied` relates the reported tags to the final count of the summary),
and through `Calm` for any number of runs while nothing fails. The hypothesis `Clean` says just
that, and all the instances that TLC checks satisfy it. Without it the
refinement is false: packets of a run that failed are published in the next one, as the
finding `inventory_stale` shows.

`UseCasesProofs` proves the safety of the four other use cases, each by an invariant of its own
under `use_case = ...`, while the other three keep still.

* `TagsAreTracked` needs of the state only where the caller is when the time is over; the rest are
  facts about the two sets of CRCs.
* `AccessReachesTags` (`AccessInv`): while no timer cuts the round, the packet of a halt is the last
  tag packet in the FIFO and the queue together and its tag is the one the Ex10 is halted on, until
  the callback has taken it (`AccessHalts`); each tag that was read waits or was offered
  (`AccessOffers`); and behind the last summary nothing of account comes (`AccessEnds`).
* `SequenceIsPerformed` (`SequenceInv`): only one of the two threads walks the list, and not while a
  round runs (`WalkTurns`); what was performed is the list up to the place of the walking thread
  (`OrderInv`, with the number of completed rounds as a cardinality); the transmitter, the RF mode
  and the selects at each place of the walk are those wanted there (`PowerInv`).
* `PowersAreSwept` (`SweepInv`): interrupts and the levels of the FIFO (`SweepFifo`), who has the
  round (`SweepTurns`), the index of the power against the number of completed rounds modulo the
  length of the list (`SweepLevels`, while no round is unaccounted for), an error that is queued is
  ahead of any summary that could tell of success (`SweepAhead`), and in a run without an error the
  summary, the tags in the FIFO and in the queue, and those published add up (`SweepSteady`). The
  steps are first mapped to twelve kinds of moves of packets (`SweepStep`), and the last two parts
  are proved for those.

`DeviceProofs` proves the four properties of `Device` for images of any length, and any number of
failures and restarts. The inductive invariant `Good` is small: types; the supply was never cut
under a transmitter that is on; only a running application has its interrupt mask open, and then, if
the chip has power, there is a callback; of an upload that is over nothing is left. The proof
follows the code's calls instead: an outcome lemma for each operator says what each state it may
leave has in common with the one it was given. `Same` is what a transfer leaves (all but the books),
`Leaves` what an operation does (mode, upload and observations), `Keeps` what a call does that may
change the mode, `Uploads` what an upload does; and `Then` chains them. What is special comes on
top: `StopOutcome` (a ramp down that succeeds leaves the transmitter off, so `PinsOutcome` finds no
supply cut hot), `AsTable` for the operations of each mode, `ResetOutcome`, and `ChunkFits` (a chunk
that is accepted fits what is left). The loop of `upload_image()` is a recursive function:
`ChunksExist` shows by the least length without one that it exists, `ChunksOutcome` by the first
chunk that would break the invariant that none does. `Promises` is then shown call by call.

`HostLibraryProofs` first proves the two properties of `HostLibrary` about Gen2 commands, for any number of
slots, any size of the transmit buffer, any commands an application uses and all values of their
arguments. The model's functions over bits and slots are recursive functions of a local definition.
A solution of such a recursion exists up to every number (`SolutionGoesOn`, by induction as a least
counterexample) and is the one that the definition chooses; then

* the codec: the pieces that an encoder lays out lie one after the other in the bits (`LaidOut`);
  each step of the decoder of a command answers the step of the encoder in its place
  (`TablesMatch`, table by table, as the source has the two apart), stands before its piece, and takes
  from it the value that was packed; the identifiers tell the commands apart (`CommandIsKnown`). So
  `DecodingInvertsEncoding`, except where `IsExact` fails;
* the list and the chip: `Gen2Inv` says of every slot of the list and of the chip what was meant for
  it. What `write_sequence()` lays out from slot to slot does not overlap and is read back from the
  offsets and lengths of the registers; the first free slot is the one an append takes;
* the answers: the bytes of a payload come back as words, and the length of the reply in the
  controls of each command is the one that `decode_reply()` expects.

`IsExact` is where the code gives back what it was given: pointers below 16384 (beyond is the finding
`gen2_long_pointers`), spans of fewer than 256 bits (the decoders count the bits left in a byte,
`copy_bits`), and neither the second half of a kill, whose bits are those of the first, nor an
authentication, whose reply length is not in its bits.

It then proves, about the calibration, `RssiIsRecovered` and the attenuator's part of
`PowerIsReached`, for any parts and any of the tables.

* `InterpolationIsBounded` and `InterpolationIsExact`: a table is interpolated to no more than the
  spread of its values (with the quotient of C, which rounds toward 0), and to its own value at its
  points; so corrections add up within 16 bits (`OffsetsAreBounded`) and `uint16()` takes nothing off.
* `CalibrationInv`: the parameters in use are, group by group, of the part or of the default, and while
  they are the part's the analog offsets were taken from the part (`OffsetsAreFresh`), whichever
  mode was read before and whichever table is in use. From it `PointIsExact` and `ModeIsExact`, and
  `StrengthComesBack`, where the linear conversion and its inverse meet within 1 (`ThereAndBack`).
* `FirstNearIsNearest`: among falling powers the first that is no further than the next is the nearest
  of all, which is what lets `choose_coarse_atten_v5()` stop there.

Assumptions: the two pools are disjoint and do not contain `NoNode`, sizes are natural
numbers, switches are Booleans; the timers of a region are positive, fit 16 bits and leave
room for one off time and the lag (`TimersAssumption`, `ClockAssumption`); a batch and a row of
quiet measurements are not empty and their counts fit a byte (`RfPowerConstants`); a setup of the
inventory has natural numbers (`InventoryConstants`); the sequences and lists of powers of the use
cases are well formed, the list of powers is not empty, and there is a buffer for results
(`UseCasesConstants` with the assumptions of the four modules); an image has a chunk, as the loop of
`upload_image()` starts nothing with an empty one (`DeviceConstants`); there is a slot, and a transmit
buffer, and the arguments of commands are numbers, and bits for a span, under the names that the
structs of `gen2_commands.h` give them (`HostLibraryConstants`, `CommandsAreTyped`). Of the
calibration (`CalibrationConstants`): the tables are as `rssi_compensation_lut.h` has them (rising
frequencies, and both with the same calibration modes); the default parameters have the version of no
part; raw values and corrections are far within 16 bits; and of a part of the supported version, which
is data that no code checks, that its powers fall with the attenuation once one was measured, that its
frequencies rise, that its gains add up to a small offset, and that it has no calibrated mode of the
second kind alone. TLC evaluates them in every run.

Only model-checked: everything under fairness (`PushedIsSeen`, that every packet arrives in
`AllDelivered`, `CallEnds`, `RunEnds`, `UseCaseEnds`, the first half of `StopIsHonoured`, the
`Served` half of `ImplementsDelivery`), and the other properties of `HostLibrary`
(`TransfersAreTrue`, `RegionIsKept`, `RunsWhatWasBuilt`, `PowerInSteps`, and of `PowerIsReached` the
targets of the power detectors): their functions fold over data, and would have to be turned into
recursive functions and shown to exist as those of the codec were, or they read the table of a region.
The sum of the gains of a part is such a fold too: hence the assumption on it above.

## Not modelled

* Algorithmic autoset (Gen2X): no application of the repository uses it. Its callback compares an
  index of the activity list with an activity type, so that with the basic sequence of two
  activities it never acts.
* The inventory sequence use case: an older and smaller form of the activity sequence.
* The Gen2X variant of the continuous inventory, the Q and target bookkeeping of rounds.
* `list_node.c`: sequential pointer code, used here as sequences and sets.
* Droop compensation, the extended timer, the manual timer calls, and the operations of production
  tests: no other part depends on what they leave.
* The device information page, the test and tuner calls of the protocol.
* `wait_for_event_fifo_empty()` (`ex10_protocol.c:784`), a part of `ex10_discard_packets()`: it spins
  until the monitor thread has read the FIFO, for ever if no FIFO callback is registered.
* `get_mutex()` of the Zephyr port (`ex10_osal.c:30`), which makes a mutex known before it is
  initialised: two threads would have to use the same mutex for the first time since the boot.
* Elapsed times as differences of 32-bit microsecond counters, outside `FastTagTracking`: they wrap
  after 71 minutes (`ex10_continuous_inventory_use_case.c:136`).
* A channel that has used up part of its time when its region is left and set again:
  `set_region()` clears the times (`ex10_active_region.c:183`).
* SPI, UART, GPIO of the Ex10, time, printing, examples and command line: pure I/O. The waveform of
  READY_N is a transfer that succeeds or fails.

## Plan

1. Proofs about the rest of `HostLibrary`: `RegionIsKept` for any table of regions, and, with
   recursive functions in the place of folds as in the codec, the splitting of reads and writes in
   `Commands`.
2. `ChannelTime` across a rollover, and with changes of the region (`ActiveRegion`).
3. The Gen2X variant of the continuous inventory, droop compensation, the inventory sequence.
