# TLA+ models of codal-libopencm3

This directory holds formal models of the firmware in this repository: a port of the
CODAL runtime to the STM32 Blue Pill on libopencm3, a bootloader, and a Sigfox
sensor application that runs its tasks under the cocoOS kernel. The modules are
translated from the source; TLC checks them on small instances and TLAPS proves the
central invariants for every instance. `PROJECT.json` names, for every definition,
the source lines it stands for.

| Part | Modules | Status |
|---|---|---|
| cocoOS message queues | `DelayQueue`, `LateQueue`, `MsgQueue`, `MsgQueueRefinement`, `MsgQueue_proofs`, `MsgQueueRefinement_proofs`, `MCMsgQueue` | modelled, checked, proved |
| cocoOS scheduler, tasks, semaphores, events, clocks | `Semaphore`, `CocoKernel`, `CocoSemaphores`, `CocoKernel_proofs`, `CocoSemaphores_proofs`, `MCCocoKernel` | modelled (without ROUND_ROBIN), checked, proved |
| sensor application | `SensorNet`, `SensorPort`, `SensorNet_proofs`, `MCSensorNet` | control modelled, checked, proved |
| SPI port over DMA, SPI command simulator | `SpiPort`, `SpiSimulator`, `SpiSimulator_proofs`, `SpiSimulatorReplay_proofs`, `MCSpiSimulator` | control modelled, checked, proved |
| firmware update: HF2, page cache, start-up modes, baseloader | `FlashUpdate`, `FlashUpdate_proofs`, `MCFlashUpdate` | control modelled, checked, proved |
| everything else | none | surveyed below, left out for the reasons in 1.6 |

To run: `tlc -config CocoQuiet.cfg MCCocoKernel`, `tlapm MsgQueue_proofs.tla`, and
so on; the table of runs below pairs configurations and modules. Each run ends in
less than two minutes on two workers.

## 1. Inventory

### 1.1 cocoOS kernel (`lib/cocoOS_5.0.3`)

*State.* One control block per task (state, saved state, timer, clock, semaphore,
wait queue, wait mode), the semaphores' values, per event the id of its last
signaller, one global "last signalled event", the running task. *Operations.* Macros
used in tasks (`sem_wait`, `sem_signal`, `event_wait`, `event_wait_timeout`,
`event_wait_multiple`, `event_signal`, `task_wait`, `task_suspend`, `task_resume`,
`task_kill`, `task_close`), functions called by interrupt handlers (`os_tick`,
`os_sub_tick`, `os_sub_nTick`, `sem_ISR_signal`, `event_ISR_signal`), and the
scheduler's endless loop. *Interaction.* A task is a coroutine: it runs until a
macro returns to the scheduler. Only interrupt handlers come in between, and they
come *anywhere*, because `os_disable_interrupts()` of the port is empty
(`os_port.h:45`). *Hard.* Test-then-wait sequences and read-modify-writes that a
handler can interrupt; timeouts that race events; suspend, resume and kill in any
state; handing a semaphore over to one of several waiting tasks. *Correct when* no
waiting task is beyond waking, tasks stay cooperative, tokens and waiting tasks do
not coexist, a signal frees the most urgent waiting task only, a timeout can be told
from an event, timed waits end and the most urgent ready task runs.

### 1.2 cocoOS message queues (`os_msgqueue.c/.h`)

*State.* A ring of slots with head and tail; each message has a delay and a reload
value. *Operations.* post (blocking or not, delayed, periodic), receive (blocking or
not), tick. *Interaction.* One event per queue announces every change to the
receiver and to blocked posters; the clock interrupt counts the delays down inside
the ring. *Hard.* A receive copies delayed messages from tail to head while the tick
works on the same ring; the scanning loop and the write at the head have no bounds
of their own. *Correct when* nothing is lost, duplicated, early or stuck.

### 1.3 Sensor application (`src/src`)

*State.* Per sensor task a position and a poll timer; the port semaphore shared by
the sensors; the network task's command list, index, response function, pending flag
and expected end; the UART task's command and timers; two queues; the one static
command buffer. *Operations.* the bodies of three kinds of task. *Interaction.*
sensors → (asynchronous post) → network → (blocking post) → UART → (two events, or a
blocking post back) → network. *Hard.* The shared command buffer; network and UART
blocking on each other; a response message that must find the right command list; a
timeout measured between one-second sleeps; a throttle that is the only thing
keeping two command lists apart, on a clock that wraps. *Correct when* one command
is carried out at a time, its buffer does not change meanwhile, every wait of the
network task is answered, in time, and every response message is expected.

### 1.4 Drivers (`stm32/`)

| Component | State and operations | Hard behaviour | Correct when |
|---|---|---|---|
| SPI over DMA (`spiint`) | a status that counts completions, receive remainder, completed semaphore; transceive, wait, open, close, four DMA interrupts | the two completions in either order; a timed-out transfer whose completion comes during the next one; close before the end | a transceive ends once, is reported once, and a late completion does not complete another transfer |
| SPI simulator (`simulator`) | mode per port, trail and merged trail; capture, merge, replay, simulate, mismatch | lengths that survive a mismatch; a trail at its limit | what is replayed is what the last polls captured |
| Logger (`logger`) | one buffer and its length; append, flush in chunks, from tasks and handlers | flush and append interleaved; overflow | logged text is written once, in order, or dropped whole |
| UART receive (`uartint`) | a single-producer single-consumer queue; begin, listen, end, the interrupt | late bytes of the last answer | an answer read belongs to the command sent |
| RTC and CODAL timer | a 32-bit counter, an alarm, a millisecond counter; set alarm, tick, wait | an alarm set to a moment that has passed; the wrap | a wait lasts as long as asked |
| I2C (`i2cint`) | an error flag and the bus; the master's transaction | a busy bus has no timeout; an error makes later calls do nothing | a transaction ends |

### 1.5 Bootloader (`stm32/bootloader`, `stm32/baseloader`)

| Component | State and operations | Hard behaviour | Correct when |
|---|---|---|---|
| Start-up mode (`target_stm32f103.c`, `backup.c`) | a request in backup registers; request, read and clear, restart | reset and power loss between the steps | the requested mode is entered once |
| HF2 flashing (`hf2.c`) | packets, staged bootloader, answer in progress, restart after the answer | the base vector looked for among stale pages | only a complete, staged bootloader is handed to the baseloader |
| Baseloader (`baseloader.c`) | source, destination, pages | power lost while the boot flash is rewritten | the device can start, or the copying can be taken up again |
| UF2 drive (`ghostfat.c`) | page cache with deferred flush, block counters, restart timer | reads during the deferral; the timer racing blocks | every block written is in the flash before the restart |
| Mass storage, DFU | phases of the USB protocols | host and device out of step | each command has its status |
| USB descriptors, CDC, WebUSB, WinUSB | a connected flag | none | not modelled |

### 1.6 Not modelled, and why

* The *logger*. Called from tasks alone it is sequential string handling. Called
  from handlers as well (the RTC tick polls USB, which logs,
  `codal_target_hal.cpp:35`) its flush and its append are unguarded
  read-modify-writes of one length: text is lost or doubled, the remaining length of
  a flush can come out below zero, and no property of the text is left that holds.
* The *UART receive queue* is a library queue (Boost) between one interrupt handler
  and one task; with `SIMULATE_WISOL`, which `platform.h` leaves commented out for the
  configuration as it stands, a simulated module takes its place. Whether and when
  bytes come is up to the radio. What the UART task can be told by either, late and
  missing answers included, is in `SensorNet`.
* The *RTC and CODAL timer*. Whether the counter passes an alarm between the read
  and the write is register timing, which a model would have to assume; the waits
  belong to CODAL, which is not in the repository. The wrap of `millis()` is
  modelled where the application meets it, in `SensorNet`.
* *I2C* is one caller's busy-waits on hardware flags, and built only without
  `SIMULATE_BME280`; whether a busy bus becomes free is up to the hardware.
* *USB mass storage*, the *UF2 drive* above the page cache and *DFU* are not in the
  build: `usb_conf.h` selects `HF2_AND_SERIAL_USB_INTERFACE` and leaves `INTF_MSC`
  and `INTF_DFU` undefined. The page cache itself is in `FlashUpdate`, because HF2
  writes through it. USB descriptors, CDC and WebUSB keep one connected flag.
* CODAL drivers (pins, PWM, SPI, I2C, serial), the board model and the string class
  forward calls or do sequential work on private data, and CODAL itself is not in
  the repository. Platform start-up, LED and ADC are straight-line I/O. The display
  task is a receive and a print, covered by the receiver of `MsgQueue`. The downlink
  code parses text and keeps nothing.
* The BME280 library, Boost, nano-float, assembler, linker scripts and build scripts
  are third-party or generated. They are nearly all of the repository's lines: the
  program's own code is a small part of it.

## 2. The models

### 2.1 `MsgQueue`, implementing `DelayQueue` and `LateQueue`

`MsgQueue` has `os_msg_receive` at the grain at which a tick can be seen: `Receive`
(the tests for "empty" and "all delayed"), `CopyByte` (one byte of the next message's
delay is copied), `CopyOut` (the last byte; the tail moves, the copy is examined),
`PutBack` (a delayed or periodic message is stored at the head), `Commit` (the tail is
stored, the change event signalled), and `EnterWait` (the wait takes effect after the
test). The delay is the only field that a tick writes, so it is the only one whose
bytes are told apart: `Byte` is what one access of the copy loop reads, `Word` what a
delay can hold (256 and 2^32 in the code; 2 and 4 in the runs, where 2 → 1 tears as
0x100 → 0x0ff does). A post is one step, because a tick within `queue_push` still sees
the old head and so is the same as a tick before the post; the put-back is one step
because the tick stops before the slot at the head. `Tick` walks the *stored* tail and
head, as the code does. Posters block and try again (`Post`, `Retry`) or give up
(`PostAsyncRefused`).

Two fields of a message are not in the code: `asked` is the delay that was asked for,
and `due` the number of ticks that really have to pass; they give "early" and "late"
their meaning. Payloads are reduced to the sender.

`DelayQueue` is the promise of `docMessages.h`: a bounded line of messages, each
tick counts for all, a receive takes the first message that is due, those passed go
to the back in order, and a periodic one joins behind them. `MsgQueueRefinement`
reads the line off the ring: in the middle of a receive the messages already put
back, and the one in hand, are still at the front (`QueueBar`). The receive takes
effect where `CopyOut` finds a due message.

`MsgQueue` does all of that only if no tick lands within a receive (`Preempt` is
`FALSE`) or if nothing is delayed. `LateQueue` is what is left where the ticks land
anywhere. It is the same bounded line, nothing is lost or doubled, and its clock counts
exactly; but the message served need not be the first that is due, nor be served as
soon as it is, and one whose delay takes more than a byte may be served at any time:
its copy can be torn.

### 2.2 `CocoKernel`, implementing `Semaphore`

The running task may make *any* call, so the model covers every program of tasks. Only
handlers come between the steps of a call. A call has one step for each store that a
handler can see or overwrite, and `call` keeps how far it has got and what it has
read:

* `SemWait` (the test), then `SemTake`, or `SemBlock` (the state) and `SemEnter` (the
  semaphore's id, until which the one of an earlier wait, or 0, stands there);
* `SemSignal` (the test and the search), then `SemIncrement` or `SemRelease`;
* `EventWaitMultiple`, then `ReadQueue`, `AddEvent` (the wait queue) and `SetWaiting`
  (the state) per event;
* `EventSignal`, then `Examine` and `WakeTask` for each task that waits for the event,
  and `EventSignaled`;
* `TaskSuspend` (the state is read), then `Suspend` (it is saved and overwritten);
* the scheduler: `Search` (it sees who is ready), then `Schedule` or `Sleep`; a task
  that becomes ready during the search may or may not be found.

The rest are one step: `EventWait` and `TaskWait` store the state last, and no handler
looks at the other fields of a task that does not wait; `TaskResume` changes a
suspended task, which no handler looks at; `TaskKill` and `TaskClose` are one store.
`OsTick`, `OsSubTick`, `SemISRSignal` and `EventISRSignal` are the handlers, which do
not nest; with `Preempt` they land anywhere, without it between calls only (a port that
implements `os_disable_interrupts` around whole calls). `cause` is not in the code: it
is what ended a task's last wait.

Abstracted: wait queues are sets of events rather than bits, all in one byte (this
firmware has few events, so `EVENT_QUEUE_SIZE` is 1); the restart point of a coroutine
is "the call is over"; a sub clock is ticked by handlers only, although a task may call
`os_sub_tick` too. Left out: ROUND_ROBIN (off in this build), which also drops the
count of ticks in `time` of tasks waiting for a semaphore; and message queues, which
have their own model.

`Semaphore` is the promise of `docSemaphores.h`: a wait takes a token or waits, a
signal frees the most urgent waiting task and is a token only if nobody waits, and a
task that is suspended or killed waits no more. `CocoSemaphores` reads the waiting
and the stopped tasks off the control blocks. A call takes effect with its last
step, where the value or the last field of a task is stored. That is right as long as
what the first step read still holds then, which is what handlers within a call break:
`ImplementsSemaphore` is for `Preempt = FALSE`.

### 2.3 `SensorNet`

All tasks of the application, under the priority scheduler. `running` is the task
that has the processor; it keeps it until it blocks (`Block`), then the most urgent
one that can go on is next (`Runs`). The kernel's waits are used with the meaning
the other two modules establish. What a task does between waits takes no time, so
`Tick` happens only when nobody can go on, or while the UART task polls: in the last
two receive delays of a command its loop keeps the processor (`uart.cpp:118-127`). A
semaphore signal that frees a waiting task gives the scheduler a choice, hence
`SensorRelease` and `SensorDone`; an event signal always yields, but the UART task
is the most urgent and goes on.

`UartReceive`, `UartSendChar`, `UartSent`, `UartWait`, `UartAnswered`,
`UartTimeout`, `UartPost` follow `uart.cpp`; `NetBegin`, `NetData`, `NetResponse`,
`NetNext`, `NetPost`, `NetAnswered` follow `wisol.cpp` with `aggregate.cpp`'s
throttle; `SensorStart`, `SensorNotReady`, `SensorReady`, `SensorRelease`,
`SensorDone` follow `sensor.cpp`. Priorities and tasks are those of
`main.cpp.old:122-155` (UART 10, network 20, sensors from 100). A command is its
role in the list; a response is what `checkChannel` can tell apart. Left out: the
aggregation table, digits and text of commands, the content of a downlink.

`SensorPort` says that the port semaphore of this model, a number and the sensors
that stand in front of it, is a `Semaphore` too.

### 2.4 `SpiPort` and `SpiSimulator`

`SpiPort` has the actions of the port that `spiint.cpp` implements: what tasks call
(`SpiOpen`, `SpiClose`, `SpiTransceive`, `SpiTimeout`), what the two DMA channels do
(`TxDone`, `RxDone`, `TxFault`, `RxFault`) and the handlers (`TxCompleteInterrupt`
and so on). A channel is one variable that says whether it moves bytes, has its flag
up, or has had it taken down. The handlers count both completions in one `status`
and erase the semaphore they signal.

`SpiSimulator` is a set of sensor tasks (`sensor.cpp`) on this port. A task takes
the port semaphore (`Begin`), polls its driver for real while its commands are
captured (`Transceive`, `Transceived`), or plays the captured trail, packet by
packet or merged into one burst (`Replay`, `Received`, `Woken`, `ReplayEnds`), or
polls the driver against the trail (`Simulated`), and gives the port back
(`Release`, part of `PollEnds` and `ReplayEnds`). A command that differs from the
trail, and a trail that overflows, lead to a mismatch. An event sensor sends its
command, waits, and waits once more if it is resumed early (`EventTransceive`,
`EventResume`). `clean` is not in the code: it says that every transceive of the
last replay succeeded, which neither the replay nor `sem_wait` looks at.

Abstracted: a packet is told by the command it belongs to, so that a received one is
right or not; packets of a legacy driver are one byte each way, as
`SPIInterface::transfer` sends them, so a record of the trail has four bytes (and
`TrailSize` is a multiple of four); a packet of before the last replay counts as no
answer. Whether a simulator merges is a parameter; the application always merges.
`sem_wait` is one step: its race is that of run `coco_idle_token`. Left out:
half-transfer flags, which only go to the history; the transmit semaphore, which is
always `NULL`; transceives that receive nothing or less than they send, which no
driver here makes; the byte that a transfer given up may leave in the data register;
the second port.

### 2.5 `FlashUpdate`

The host, the device and the flash. The device starts (`StartUp`: the request in the
backup register, and `baseloader_fetch`), copies as the baseloader (`CopyErase`,
`CopyProgram`), or answers the host as a bootloader or an application (`Connect`,
`StartFlash`, `RefuseWrite`, `WritePage`, `ResetIntoApp`, `ResetIntoBootloader`); a
restart is due once the answer has been sent (`Restart`). `WritePage` is all of
`handle_flash_write`: the search for the staged base vector table (`Found`), the
staging (`StagedAt`), the comparison of the staged bootloader with the one in use
(`IsIdentical`), the copy of the new baseloader behind it (`WithBaseloader`), the
page cache (`Stored`, `AfterWrite`, `Flushed`). `LosePower` is possible in every
mode, in the midst of an erase or of a write (`Interrupted`: a page is blank or
written in part), and with or without a battery for the backup register. The host
may send any image, break off, or ask for a restart, as often as `Spare` allows.

Abstracted: the packets of a page count as one, except the last one of the last
page, which `flash_write` refuses (`Accepted`); a page is told by what it belongs
to; the host sends `RESET_INTO_APP` only after the last page, and a device whose
mode is the baseloader's without one to be found (`stuck`) is told that an
application runs, so it is not written to. `lost` and `spare` are not in the code.

### 2.6 How they fit together

`MsgQueue` shows that a queue is a line of messages in this application (run
`msgq_app`: no delays, ticks anywhere), and `CocoKernel` that a wait ends when its
event, semaphore or time comes. `SensorNet` uses exactly that: its queues are
sequences of bounded length and its waits are conditions in `CanGoOn`. For the port
semaphore the two meet in one specification: the kernel's semaphores implement
`Semaphore` (`SemaphoreRefinement`), and what `SensorNet` takes a semaphore to be
implements it as well (`PortRefinesSemaphore`). No handler signals the port
semaphore, so the hypothesis of the former is met for it. The bounds on
its queues are one less than the pool sizes of the code, because a ring of N slots
holds N − 1 messages. `SpiSimulator` refines what a sensor task of `SensorNet` does
while it has the port: `PortIsExclusive` there is the reason why `Begin` needs a
free `holder` here, and `PortComesBack` here is what the wait for the port semaphore
there relies on. `FlashUpdate` stands alone: it is a program of its own, which
starts the application or replaces it.

## 3. What is checked

| Run | Module, configuration | Properties |
|---|---|---|
| `msgq_preempt` | `MCMsgQueue`, `MsgQueuePreempt.cfg` | `TypeOK`, `NeverEarly`, `ScanEnds`, `ImplementsLateQueue` |
| `msgq_quiet` | `MCMsgQueue`, `MsgQueueQuiet.cfg` | `DelayCountsTicks`, `NoLostWakeUp`, `ImplementsDelayQueue`, `QueuedIsReceived` |
| `msgq_app` | `MCMsgQueue`, `MsgQueueApp.cfg` | `ImplementsFairDelayQueue`, `BlockedPosts` |
| `coco_quiet` | `MCCocoKernel`, `CocoQuiet.cfg` | `NoIdleToken`, `ImplementsSemaphore`, `TimedWaitEnds`, `MostUrgentRuns` |
| `coco_preempt` | `MCCocoKernel`, `CocoPreempt.cfg` | `TypeOK`, `WaitersCanBeWoken`, `RunningIsReady`, `TimeoutTellsApart`, `NoTokenFromNothing` |
| `coco_idle_token` | `MCCocoKernel`, `CocoIdleToken.cfg` | `NoIdleToken` (violated) |
| `sensornet` | `MCSensorNet`, `SensorNet.cfg` | `TypeOK`, `PortIsExclusive`, `OneUartMessage`, `CommandIsStable`, `AnswerIsExpected`, `NetworkIsAnswered`, `AnsweredInTime` |
| `sensornet_wrap` | `MCSensorNet`, `SensorNetWrap.cfg` | `OneUartMessage` (violated) |
| `spi_simulator` | `MCSpiSimulator`, `SpiSimulator.cfg` | `TypeOK`, `WaitIsAnswered`, `NoStaleToken`, `WokenMeansComplete`, `CompleteMeansBoth`, `InjectsReplayed`, `PortComesBack`, `KeepsSimulating` |
| `spi_mismatch` | `MCSpiSimulator`, `SpiMismatch.cfg` | `InjectsReplayed` (violated) |
| `flash_update` | `MCFlashUpdate`, `FlashUpdate.cfg` | `TypeOK`, `CopiesWhole`, `OnlyCopyingBricks`, `StartsWholeApp`, `AcknowledgedIsFlashed`, `UpdateSucceeds` |
| `flash_stale` | `MCFlashUpdate`, `FlashStale.cfg` | `CopiesWhole` (violated) |

Beside one type invariant per model, the properties say in short:

* `MsgQueue`: the scan of a receive ends, because every turn leaves one message
  fewer to examine (`ScanEnds`); nothing whose delay fits a byte is early, wherever
  ticks land (`NeverEarly`), and nothing is lost, doubled or out of bounds
  (`ImplementsLateQueue`); without ticks in a receive delays count every tick, no
  receiver sleeps on a due message and the ring is a line of messages
  (`DelayCountsTicks`, `NoLostWakeUp`, `ImplementsDelayQueue`), as it is with ticks
  anywhere if nothing is delayed (`ImplementsFairDelayQueue`, with progress); what is
  queued is received (`QueuedIsReceived`); posters blocked on a full queue are not all
  left waiting (`BlockedPosts`): which of them gets in is not promised, since a woken
  one may lose the race for the free slot again and again.
* `CocoKernel`: a task that waits can be woken, unless a handler in the midst of a call
  had already woken it (`WaitersCanBeWoken`); tasks stay cooperative; tokens do not
  idle and the semaphores are semaphores, with handlers between calls (`NoIdleToken`,
  `ImplementsSemaphore`); with handlers anywhere signals can be lost, but no semaphore
  becomes worth more than it is (`NoTokenFromNothing`); a timeout can be told from an
  event (`TimeoutTellsApart`), timed waits end, the most urgent task runs.
* `SensorNet`: one sensor on the port, one command at a time in one stable buffer,
  every wait of the network task answered and in time, every response expected.
* `SpiSimulator`: a wait for a completion has its answer on the way, without a stale
  token, and finds both halves complete (`WaitIsAnswered`, `NoStaleToken`,
  `WokenMeansComplete`, `CompleteMeansBoth`); a simulated poll gets the answers of
  the last replay (`InjectsReplayed`); the port comes back (`PortComesBack`); a driver
  that makes the same poll each time, and one that fits the trails, is simulated again
  and again (`KeepsSimulating`).
* `FlashUpdate`: what is copied is one whole bootloader (`CopiesWhole`); only power
  lost while copying bricks the device (`OnlyCopyingBricks`); a started application
  is whole (`StartsWholeApp`); an acknowledged image is in the flash
  (`AcknowledgedIsFlashed`); a host that keeps trying succeeds (`UpdateSucceeds`).

### Bounds

* `msgq_preempt`: four slots, one poster, delays 0, 1 and 2, period 1, delays of two
  bytes with two values each, ticks anywhere. Three messages is the least number with
  which a receive can pass one message, find another and leave a third unread, in a
  ring that fills and wraps; a delay of 2 is the least that takes two bytes. Posters
  differ in name only there, so that one suffices. 799 thousand states.
* `msgq_quiet`: three slots, two posters, delays 0 and 2, period 2, no tick within a
  receive; two messages in line suffice for one to overtake the other, and a delay of
  2 for a message to be passed twice. How many bytes a delay has does not matter
  without ticks. 385 thousand states.
* `msgq_app`: four slots (one more than the largest pool the application uses between
  its tasks, so that the ring can hold, pass and wrap), two blocking posters, so that
  one can take the slot the other was woken for, and no delays. 5 thousand states.
* `coco_quiet`: two tasks of different priority, a semaphore up to 2 (so that an
  increment may or may not reach the maximum), the master clock and a sub clock,
  times 1 and 2. 16 thousand states. `coco_preempt`: two tasks, a binary semaphore and
  two events, the least with which "any" and "all" differ, and handlers between any two
  steps; 5.9 million states. The safety properties of these runs are proved for every
  number of tasks, semaphores, events and clocks, so the runs' bounds matter for the
  remaining properties only: those relate one or two tasks with one semaphore or one
  wait queue.
* `sensornet`: two sensors (the least that compete for the port), 40 ticks, which is
  the begin list and one or more send lists with all timeouts, since the commands'
  timeouts are scaled to 3, 4 and 5 ticks, the send interval to 4 and the poll
  interval to 3 (in the code 10 s, 20 s and 60 s, 20 s and 10 s). The order of these
  numbers is what matters: the throttle must outlast the longest command, which it
  does because it counts from the expected end. Deadlock is not checked because the
  clock stops at `Horizon`. 2.8 million states.
* `sensornet_wrap`: the same with a clock that wraps at 30.
* `spi_simulator`: a legacy sensor with a merged trail and steady polls of two
  commands, a legacy sensor without merging whose polls differ in command and
  length, one of them too long for the trail of two records, and an event sensor
  whose command receives more than it sends. So every mode, every mismatch and both
  overflow-free and overflowing captures occur, three tasks take turns on the port,
  transfers time out and fail. 458 thousand states.
* `spi_mismatch`: one sensor with merging and two different polls of one command,
  without faults: the least with which a mismatch is followed by a capture.
* `flash_update`: two bootloaders of three pages with baseloaders of two (so that
  the copying has a first, a middle and a last page, and a copy of the baseloader
  can be there in part), three images of which two share their bootloader, and
  applications of one and two pages; nine pages, one more than staging needs. Four
  mishaps (losses of power, other images sent, breaking off, restarts asked for)
  allow one image to be staged in part, another to be begun and power to be lost
  while it is copied. Deadlock is not checked because the device may be dead. 45
  thousand states.
* `flash_stale`: bootloaders of two and three pages, eight pages, three mishaps.

### Fairness

* `MsgQueue`: weak for the receiver's steps (it is an endless loop and the scheduler
  returns to it) and for a woken poster; strong for `Tick`, because the model
  without `Preempt` disables it during a receive, while the hardware delivers it as
  soon as the receive is over.
* `CocoKernel`: weak for the scheduler's loop (`Search`, then `Schedule` or `Sleep`)
  and for going on with a call; strong for the running task giving up the processor,
  which `docFundamentals.h:87` demands of every task; strong for the master clock.
  Nothing is assumed about semaphores or events being signalled.
* `SpiSimulator`: weak for every step of a task that is not `Begin`, for the
  transmitting channel, the arrival of the received bytes and the interrupt
  handlers: tasks, DMA and interrupts go on. Strong for `Begin`: the port semaphore
  is handed to a task that waits for it (`HandsOver`), and the task that gave it back
  waits its poll interval first, so that every task gets its turn. Nothing is
  assumed about faults and timeouts. Opening the port twice changes nothing the
  second time, so the fairness of a task's steps takes its poll to the end.
* `FlashUpdate`: weak for the device's own steps (start-up, copying, the restart
  after an answer) and for a host that, whenever it can, connects to send the image
  it wants on the device, starts flashing, writes the next page and asks for the
  application. Mishaps are bounded by `Spare`; that the host keeps trying is what an
  update means, not something the firmware can ensure.
* `SensorNet` states no liveness property: its clock is bounded, and whether a
  sensor's completion interrupt comes is not in the code's hands. What could be
  asked, that the network task is never left waiting, is stated as two invariants,
  `NetworkIsAnswered` and `AnsweredInTime`.

### Where the code and its documentation disagree

Four disagreements have a run and an entry under "findings":

1. A semaphore can have a token while a task waits for it, when a handler signals
   between test and wait (`coco_idle_token`). The semaphore of this application that
   is signalled for a task that may be about to wait is the sensor's completion
   semaphore (`sensor.cpp:81`).
2. When `millis()` wraps during a send, the throttle opens at once and a second
   command list overwrites the command in progress (`sensornet_wrap`).
3. After a mismatch the trail is emptied but the merged trail keeps its length, so
   the next replay sends old commands too and the driver is given their answers
   (`spi_mismatch`).
4. The base vector table of an update that was broken off is taken for the new
   one's, and the pages of two bootloaders of different sizes are copied
   (`flash_stale`).

Further ones were met while reading the code or trying a property out, and have no
run of their own:

* cocoOS queues: a queue of N slots holds N − 1 messages, so the pool of 3 that
  should "allow up to 3 sensor data messages" holds two. With delays, a tick can tear
  the copy of a delay of several bytes, so that the message is received early
  (`os_msgqueue.c:202-204` against `258`); a tick between copy-out and put-back is lost
  for that message (`200`); and a receiver can wait with a due message in its queue
  (`os_msgqueue.h:117`). `DelayCountsTicks` fails with `Preempt = TRUE`, and so does
  `NeverEarly` without its exception for long delays. This application posts no delayed
  messages (`msg_post_in` is called only under `#ifdef NOTUSED`, `wisol.cpp:182-192`);
  run `msgq_app` checks that case.
* cocoOS kernel, with handlers anywhere. A signal between the storing of the wait queue
  and of the state in `event_wait_multiple` leaves the task waiting on an empty queue
  for ever (`os_task.c:536-545`), and a wait for any event forgets one that comes
  between the adding of the first and the last (`os_event.c:190`). An event or timeout
  between the reading of the state and its being saved in `task_suspend` is undone
  (`os_task.c:432-447`): resumed, the task waits for nothing, or is told of a timeout
  although the event had come. A signal between the storing of the state and of the
  semaphore in `sem_wait` (`os_task.c:673-674`), if it is for the semaphore of an
  earlier wait or for semaphore 0, lets the task through without a token. A signal is
  lost in the read-modify-write of a semaphore (`os_sem.c:137-146`), or when a handler
  has released the same task (`os_task.c:383`). Here nothing suspends tasks, and the one
  `event_wait_multiple` (`wisol.cpp:118`) waits for events that a task signals, so the
  first two are not met by this application.
* cocoOS kernel, in any case: `event_last_signaled_get()` names the last event
  signalled, not the one that woke the task (`LastSignaledIsCause` of `CocoKernel`
  fails). A task that kills itself goes on and its next wait revives it
  (`os_task.c:464`). A task of priority 255 is accepted and never runs
  (`os_task.c:111`, `289`), and a signal to it is lost. The wait queue has too few
  bytes for 17, 25 or 26 events (`os_event.h:90`).
* SPI simulator: the status of a replay is not looked at, so a failed one feeds the
  driver what is in the buffer (`InjectsReplayed` says "clean"). A merged trail that
  has overflowed keeps its length and overflows again at every capture, so that the
  sensor alternates between capture and mismatch for ever: `KeepsSimulating` is about
  drivers whose polls do not vary.
* Firmware update: `flash_write` asks for `dst + length < FLASH_END`
  (`ghostfat.c:159`) where `VALID_FLASH_ADDR` of `hf2.c:32` has `<=`, so that the
  last packet of the last page is accepted and not written: an image may not fill
  the flash. `validate_application` looks at one word, so an application of which
  only the first page was written when power was lost is started. With bootloaders
  of different sizes a device can remain in the baseloader's mode, with nothing to
  copy, until it is reset.

## 4. What is proved

The proof modules are checked to the last leaf, for every value of the constants
that meets the assumptions of the module (a ring of 2 to 255 slots; tasks with
distinct priorities; initial values within their maxima; positive delays and
timeouts; loaders of two pages at least that fit into the flash with another one
staged) and the hypotheses a theorem states.

`MsgQueue_proofs` (ticks anywhere, also between the bytes of a delay): the inductive
invariant is

    IndInv == TypeOK /\ ScanWillFind /\ PutBackHasRoom /\ NeverEarly
                /\ MessagesPatient /\ CopySound

`ScanWillFind` (a due message lies ahead of the cursor while a scan goes on) is why
the unbounded loop ends. To preserve it `PutBack` must not write over that message,
which is `PutBackHasRoom`: the slot just emptied by the cursor is free, although the
ring may have been full. A tick cannot undo it, because a due message stays due: all
its bytes are 0. `NeverEarly` needs `MessagesPatient`: wherever a message is, in the
ring, in the receiver's hand or in a blocked poster's, the delay field of one that
asked for a byte at most is at least what is left to wait, and never more than was
asked for; and `CopySound`: the bytes copied so far are the whole of such a delay, and
without ticks the low bytes of any. The work is in the arithmetic of the ring (lemmas
about `Window`, `Succ` and the wrap) and of the bytes. From `IndInv` follow
`TypeCorrect`, `ScanFinds`, `PutBackSafe`, `NotEarly`, and `Conservation`
(`[][Conserved]_vars`: no message is lost, duplicated or mixed up). With `WaitInv` (what
a waiting receiver knows, it knows when it is about to wait) follows
`WaitsForNothingDue`. No theorem of this module has a hypothesis: where the place of the
ticks matters the property says so (`Preempt` is part of its statement).

`MsgQueueRefinement_proofs` relates the ring to the line of messages. The receive
walks the ring and writes while it reads, so the line cannot be read off between
tail and head: in the midst of a receive the messages already put back come last in
the ring and still belong in front. `Reading` (how many have been put back, and that
one that is due is among those left) is inductive with ticks anywhere. It gives
`ReceiveLoopEnds`, the argument that a loop without a bound ends: what is left to
examine falls with every turn and nothing adds to it. It also gives
`LateRefinement`, without a hypothesis: every step of a receive, a post or a tick,
wherever it lands, is a step of `LateQueue` or none. For `DelayQueue` two things
must be added, each under a hypothesis of its own. `Refinement` (`Preempt = FALSE`)
needs `QuietInv`, that every delay field is *exactly* what is left to wait, and
`Rotated`: the messages put back, the last of the line, are all delayed, so that the
one found is the first that is due. `UndelayedRefinement` and
`UndelayedWaits` (no delays and no periods, ticks anywhere, which is how this
firmware posts) rest on the invariant that every message is due wherever it is: the
shipped queue is first in, first out, and its receiver never waits for nothing. The
larger part of the module is lemmas about walks round the ring (what lies between
two slots after a step of either end) and about sequences turned round.

`CocoKernel_proofs` (handlers between any two stores): the inductive invariant is

    IndInv == TypeOK /\ TasksSound /\ CallSound /\ RunningFresh /\ RunningIsReady

`TasksSound` says of every task, in its state or in the one it will be resumed in, that
something can wake it or a handler already has, that a timer which has run out has
emptied the wait queue, and that a wait has no cause left over from an earlier one.
`CallSound` says what a call under way may still store: it belongs to a running task, a
multiple wait has events left to add, a `take` has seen a token, a task about to be
stored as waiting, or suspended in the state that was read, will be sound whatever
handlers have done since, and a task about to be woken has been waiting.
`RunningIsReady` is needed for the others, because a call writes the control block of
the task it takes to be running. From `IndInv` follow `TypeCorrect`, `NobodyIsStranded`,
`Cooperative` and `TimeoutsAreKnown`, none of them with a hypothesis. `HandsOver` (a
release goes to the one most urgent waiting task) needs `FoundSound` besides: whoever
`SemRelease` is about to free was the most urgent when it was found, and handlers only
shorten the list of those that wait; the uniqueness rests on `PrioAssumption`. Under
`~Preempt` the additional invariant `SeenIsFresh` (what a call has seen of the
semaphore's value and of its waiting tasks is still so) gives `NoTokenIsIdle`; the run
`coco_idle_token` shows that the hypothesis is needed.

`CocoSemaphores_proofs` has two results. `SemaphoreRefinement` (under `~Preempt`): the
kernel's semaphores implement `Semaphore`. `SeenIsFresh` is what lets a call take effect
with its last step; every other call and handler is shown to stop or resume one task, or
to leave semaphores alone. `NothingUnsignalled` (`NoTokenFromNothing`) has no
hypothesis: with handlers anywhere a signal can be lost, but a token is added only by a
signal, one at a time, up to the maximum and only where nobody waits, a signal that
frees a task adds no token and frees no other, and to take a token lowers the value. It
does not say which semaphore's signal frees a task that is still within `sem_wait`,
because the code frees it for the wrong one (`os_task.c:673-674`). The invariant is
`SeenIsCovered`: the value a call has seen is not above the one there is, because what
handlers do to a value in the meantime is to raise it.

`SensorNet_proofs` has two invariants. `PortIsTaken` (the port is free and nobody
uses or waits for it, or it is taken and exactly one sensor uses it) gives
`SensorsExcludeEachOther`; that a release frees exactly one task needs a most urgent
one among any number of waiting sensors, which the well-foundedness of the
priorities provides. With it `PortRefinesSemaphore` follows: taking, waiting for and
returning the port are steps of `Semaphore`, all other steps leave it alone. The
other is

    IndInv == TypeOK /\ ClockInv /\ Conversation

`Conversation` says where a command can be. Either nothing is on its way and the
network task expects nothing (`Preparing`), or it waits for an event and the UART
task has the command (`Waiting`), or it receives sensor data with its pending flag
set while the payload is queued, sent, waited for or answered (`Expecting`).
`OnTheWay` gives each stage its time: while sending, the time now plus what is left
to send is the moment counted from `lastSend`; while listening, the time now less
the elapsed time is. That is what makes the throttle strong enough: as long as a
payload is under way, `now` is below `lastSend + SendInterval`, so no command list
starts. Two hypotheses are needed. `NoWrap`: the run ends before `millis()` wraps
(`sensornet_wrap` shows what happens otherwise). `SendingIsShort`: sending a command
takes less than the send interval (200 ms and 10 ms a character against 20 s). The
constants of run `sensornet` meet both. From `IndInv` follow `OneAtATime`,
`BufferIsStable`, `NoDeadlock`, `EndsInTime` and `ResponsesAreExpected`;
`TypeCorrect` and `SensorsExcludeEachOther` need no hypothesis. In the code's terms
the bound that matters in `SendingIsShort` is `SEND_INTERVAL` (`aggregate.h:9`):
whoever shortens it below the time of a sending opens the throttle during a command.

`SpiSimulator_proofs`: the inductive invariant is

    TypeInv /\ TransferInv

`TransferInv` says that whoever has begun has the port and its interrupts
(`HolderHasPort`), that a transfer somebody waits for is in one of the stages that
its two channels and its status can be in together (`Progress`; the status counts
completions, so the stages must tell which came), and that a waiting task is either
the one the port will signal or has its token, never both (`Unsignalled`,
`HasToken`). The last makes `EventResume` sound, which waits a second time for what
is signalled once. From it follow `EveryWaitIsAnswered`, `TokensAreFresh`,
`WokenFindsComplete` and `CompletionsBelong`, for any number of sensors, polls,
trail sizes and faults, timeouts included.

`SessionsShrink` is what can be proved of `PortComesBack`. `WorkLeft` is a natural
number: twice the commands or records that are left, and how far the task is with
the next one. Every step of the task that has the port, except a new opening of it,
lowers the number, and nobody else changes it, whether the poll is captured,
replayed or mismatched and however long it is. An event sensor is the case that is
not obvious: it would go back to waiting if it were woken before its request is
complete, which `TransferInv` excludes. What is left for TLC is that the steps are
taken.

`SpiSimulatorReplay_proofs` adds what a simulated poll is given
(`InjectsTheReplayed`). Per sensor its invariant says where a task can be in each
mode (`PlaceInv`), that trail and merged trail hold the same commands, those of the
poll as far as it has been recorded (`TrailInv`), and that what has been replayed
has its answers, all but the packet under way (`ReplayInv`). The hypothesis
`SteadyPolls` says that a driver whose trail is merged makes one and the same poll
each time, which fits into both trails; `spi_mismatch` shows that it is needed, and
run `spi_simulator` meets it. Sensors without merging need no hypothesis: their
trail is recorded anew after a mismatch.

`FlashUpdate_proofs`: the inductive invariant is

    Inv == TypeOK /\ SizesKnown /\ BootInv /\ ModeInv /\ BaseInv /\ StagingInv /\ CopyInv /\ AppInv

under two hypotheses. `SameSizes`: all bootloaders have the same number of pages,
and so have their baseloaders (run `flash_stale` shows that `CopiesWhole` fails
otherwise). `ImagesFit`: no image fills the last page, whose last packet is refused.
The parts follow the bootloader on its way: what of it is staged while the host
sends it, maybe still in the page cache (`StagingInv`), that a request for the
baseloader is made only when all of it and its baseloader are there (`BaseInv`), how
much has been copied (`CopyInv`), and that a restart into the application finds it
(`AppInv`). `BootInv` says that only power lost while copying leaves less than a
bootloader, `ModeInv` that what a reset clears belongs to the mode it is used in.
Power may be lost in all of them. From `Inv` follow `TypeCorrect`,
`CopiesOneBootloader`, `BricksOnlyWhileCopying`, `StartsWhole`,
`AcknowledgedIsThere` and `BaseloaderIsThere`: a restart into the baseloader always
finds one, so the mode in which an update could not be taken up again is not reached
(`BaseloaderIsFound`, the safety part of `UpdateSucceeds`).

Only model-checked: all liveness (`QueuedIsReceived`, `BlockedPosts`,
`TimedWaitEnds`, `MostUrgentRuns`, `PortComesBack`, `KeepsSimulating`,
`UpdateSucceeds`) and the refinement with fairness (`ImplementsFairDelayQueue`),
which are out of the prover's reach. `DelayCountsTicks` is proved under `Preempt =
FALSE` only, as a conjunct of `QuietInv`, which `Refinement` rests on. Every other
invariant of the passing runs is proved, and so is the safety part of every refinement. Stated as theorems only, and in no run: `HandOff`,
which `ImplementsSemaphore` contains for `Preempt = FALSE`, `NothingLost`,
`PortIsSemaphore`, `SessionShrinks` and `BaseloaderIsFound`.

## 5. What could be added

* A driver that receives nothing, or less than it sends, would need `SpiPort`'s
  remainder to count both ways, and half-transfer flags if they ever do more than go
  to the history.
* The aggregation table and the digits of a payload, against a reference definition.
* A UART receive queue, composed with the UART task of `SensorNet`, which would have to
  assume when the radio's bytes come; the UF2 drive above `FlashUpdate`'s page cache,
  with its deferred flush and its restart timer, once `INTF_MSC` is defined.
* A logger that guards its buffer: then "written once, in order, or dropped whole"
  would be worth stating.
* The kernel's `ROUND_ROBIN` option, which this build does not set.
