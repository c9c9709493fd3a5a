# Verification of the power board firmware

TLA+ models of the FUmanoids power board firmware (`src/src`): a Cortex-M0
program on the *flawless* framework that measures voltages and currents, watches
the battery, switches the motor supply, keeps two thresholds in flash and talks
to the robot over one serial line. The models are checked with TLC; each
also has proofs that TLAPS checks for every value of the constants.

Paths below are relative to `src/src/` of the repository; `fw/` stands for
`framework/flawless/`, `t/` for `target/stm32f0/`.

## 1. The system

### 1.1 What runs

There is one core, no operating system and no threads. `main` runs the init
functions in the order of their section names (`fw/init/systemInitializer.c`)
and then calls `msgPump_pumpMessage` for ever. Five interrupt handlers preempt
that loop:

| handler | raised by | does |
|---|---|---|
| `tim2_isr` (`t/hwTimer.c`) | compare of TIM2 | runs the software timers and their callbacks |
| `dma1_ch1_isr` (`t/measuring.c`) | a conversion is complete | posts the measurement |
| `dma1_ch2_3_isr` (`t/communication.c`) | a piece is transmitted | releases it, starts the next |
| `usart1_isr` (`t/communication.c`) | a byte was received | feeds the protocol's receiver, which posts packets |
| `exti2_3_isr` (`t/gpio_interrupts.c`) | an edge at the motor switch | starts the debounce timer |

All have the same priority, so they preempt the main loop but never each other.
`system_mutex_lock` disables interrupts and counts its nesting: a locked section
runs undisturbed. `SystemLock` checks this instruction by instruction; the other
models rely on it. This gives the granularity of the models: **a locked section
is one step; a handler is one step or several that only hardware (DMA, pins)
can interleave with; the unlocked parts of the main loop are a program counter,
one step for each access to shared state.**

### 1.2 Components

| component | state | operations | hard because | correct if |
|---|---|---|---|---|
| message pump `fw/core/msg_msgPump.c` | callback vectors, ring of 16 entries, headers (flags, reference count) of pooled buffers | register, unregister, getFreeBuffer, post, lock, unlock, pump | posts from handlers between any two steps of the loop; pools and ring run full | messages arrive in order, once, unaltered; buffers neither lost nor used twice |
| serial transmission `t/communication.c` | ring of 128 bytes, size of the open transaction, DMA channel | phySendFunction0, trigger, `dma1_ch2_3_isr` | three actors on one ring; pieces end at the wrap | bytes leave in order, none stays behind, calls return |
| serial reception `t/communication.c` | circular DMA ring, read index | `usart1_isr` | DMA writes whether or not the handler runs; bytes come between its last look and its return | bytes reach the receiver in order and once, unless interrupts stay disabled for a whole ring |
| generic protocol `fw/protocol/genericFlawLessProtocol.c` | send: checksum, flag; receive: mode, count, sum, buffer | sendMessage, begin/inside/end of a frame, receiveByte | bytes lost and invented; escapes; no buffer free | a frame that arrives whole is delivered, nothing is stored outside the buffer |
| dispatcher, message proxy `fw/protocol/` | tables made by the linker | packets to endpoints, messages to packets, packets to messages | full pools; packets that inject messages | what was accepted for broadcast leaves the board unaltered |
| configuration store `t/configuration.c`, `t/flash.c` | flash page, variables in RAM | read at boot, compare, erase, program | power fails between any two flash operations | an update that ends is complete; nothing foreign is read |
| battery watchdog `application/powerCheck.c` | two thresholds | measurement callback, set thresholds, off | crossed and extreme thresholds, integer division | off at or below the threshold, level follows the voltage |
| measuring `t/measuring.c` | buffer being converted into, calibration flag, offsets | two triggers, DMA handler, two callbacks | timer, DMA, handler and main loop share a buffer; refused posts | measures for ever, calibrates first |
| motor power switch `t/motorPwr.c`, `t/gpio_interrupts.c` | line mask and pending bit, timer, output | edge handler, debounce callback, setMotorPower | the pin changes between any two steps | no edge is lost for good, the switch never goes deaf |
| software timers `fw/timer/swTimer.c`, `t/hwTimer.c` | slots, TIM2 | register, unregister, trigger | callbacks change the slots under the scan; the counter overflows; interrupts are late | no call is early, the next deadline is set |
| data distribution `application/dataDistribution.c` | two counters | every 50th message is passed on | refused posts at exactly the 50th | one of 50 is passed on; a refused post costs one more interval, no more |
| buck converter `t/buck.c` | one pin | late init, callback | it listens only after 100 ms | it starts once the battery is reported above empty |
| system lock `t/system.c` | nesting counter | lock, unlock | handlers lock between any two instructions of the main loop's lock | a locked section runs alone, interrupts are enabled after it |
| LED `t/led.c`, start-up, RPC/logging/assertions (not compiled), FIFO macros, libopencm3 | | | | |

The components meet in two places. **Messages**: measuring posts raw values,
its own callback turns them into power states, the watchdog and the
distribution receive these, the proxy frames what is distributed and sends it.
Everybody shares the ring of the pump, so one client can make another's post
fail. **Timers**: measuring, switch, buck and LED share the slots and TIM2.

`PROJECT.json` lists under `hazards` what is hard to test here, at the line
where it bites, with the properties that watch it.

## 2. The modules

| module | models | extends / instances |
|---|---|---|
| `MsgBus` | what the pump promises: a bounded FIFO of messages, each shown to its receivers before it is dropped | |
| `MsgPump` | `msg_msgPump.c` | implements `MsgBus` |
| `Measuring` | `measuring.c` on the pump | extends `MsgPump`: every post and every step of the loop is the pump's |
| `PumpProofs` | theorems about `MsgPump` and `Measuring` | `Measuring` |
| `ByteStream` | what the transmitter promises: a bounded stream of bytes | |
| `UartTx` | the sending half of `communication.c` and DMA | implements `ByteStream` |
| `UartTxProofs` | theorems about `UartTx` | `UartTx` |
| `Framing` | sender and receiver of `genericFlawLessProtocol.c`, the line, the receiver's pool | |
| `FramingProofs` | theorems about `Framing` | `Framing` |
| `FlashConfig` | `configuration.c` | |
| `FlashConfigProofs` | theorems about `FlashConfig` | `FlashConfig` |
| `SystemLock` | `system.c` | |
| `LossyStream` | what reception promises: a stream of bytes that overruns as a whole | |
| `UartRx` | the receiving half of `communication.c` and DMA | extends `SystemLock`, implements it and `LossyStream` |
| `UartRxProofs` | theorems about `SystemLock` and `UartRx` | `UartRx` |
| `MotorSwitch` | `motorPwr.c` on `gpio_interrupts.c` | |
| `MotorSwitchProofs` | theorems about `MotorSwitch` | `MotorSwitch` |
| `SwTimer` | `swTimer.c` on `hwTimer.c` | |
| `SwTimerProofs` | theorems about `SwTimer` | `SwTimer` |
| `PowerCheck` | thresholds, level and switching off of `powerCheck.c` | |
| `Reporting` | watchdog, distribution, proxy, dispatcher and buck on the pump | extends `PowerCheck` |
| `ReportingProofs` | theorems about `PowerCheck` and `Reporting` | `Reporting` |
| `MC...` | values of constants that a .cfg cannot write | |

Definitions have the names of the code where it has one. A definition named
`Mistake_D` is not used by any action: it is what a plausible bug would make of
`D`, and shows that the properties of a run would notice it.

### MsgPump

A buffer is a pair of message id and index. `flags`, `refCnt`, `data` are its
header and content; `queue`, `front`, `tail`, `size` are the ring as the code
has it; `pc`, `recv`, `handler` place the main loop. `refs` and `owned` say what
the clients hold: `owned` buffers came from `msgPump_getFreeBuffer` and may be
written (`Fill`). The functions of the interface are locked, so each is one
action (`Register`, `Unregister`, `GetFreeBuffer`, `LockMessage`,
`UnlockMessage`), and `msgPump_postMessage` is one for each of its three
branches: `PostOwn` (a pool buffer), `PostCopy` (memory of the caller),
`PostNull`. The loop is eight actions, `PumpBegin` to `PumpAdvance`; any
interface function may run between two of them.

A client may lock a buffer it is about to post (`Shared`). `msgPump_postMessage`
then refuses the post and resets the header (:205): the buffer is free although
somebody holds it. The history `lost` records these buffers. `refs` keeps
counting what the clients hold of them, so nothing is said of such a buffer any
more, and everything of all others.

The refinement maps the waiting entries, with the *present* content of their
buffers, to the FIFO of `MsgBus`. So a buffer that is handed out again, or
written, while its message waits is a step the FIFO does not have (only the
content of a `lost` one is hidden). An entry stops waiting when the loop unlocks
it, one step before the ring's front moves. The bus also has the receivers: its
`seats` are the callback vectors, and `due` the seats a message that is shown
has yet to be shown to, which are the entries of the vector behind the loop's
index. `Show` makes everybody due who has a seat, `Call` takes the first of them,
and `Retire` needs `due` to be empty, so a message nobody was called for cannot
be dropped.

### Measuring

`MeasurementIsr` is `dma1_ch1_isr`, `TriggerCalibration` and
`TriggerMeasurement` the timer callbacks, `OnRawGet` and `OnRawPost` the two
interruptible halves of `onRawMeasurement`. `Convert` is DMA writing the
buffer. `PostOrNot` is a post with its result ignored, as the code ignores it.
`Other` is the rest of the firmware, which fills the ring whenever it likes.
The history variable `refused` records a refused post. The formulas for
voltages and currents are left out; that offsets were computed is not.

### UartTx

The ring is `fifo`, `start`, `end`, `count`; `transaction` is
`g_currentTXTransactionSize`; `dma` is the channel (enabled, position, bytes
left) and `done` its transfer-complete flag. `phySendFunction0` is the loop
`Store`, `StartDma` - two locked sections an interrupt fits between - until
`left` is 0. `Trigger` is `trigger_transmision`, called from both sides. `Stream`, the bytes that are
stored and that DMA has not read yet, is what `ByteStream` sees.

### SystemLock and UartRx

`primask`, `lockCounter` are the code's; `reg` is the register that
`g_lockCounter++` and `--` go through, `at` the place of the main loop and of a
handler inside the two functions, `active` says that a handler has preempted the
loop. In `UartRx`, `DmaReceive` is the line: DMA stores a byte and the interrupt
becomes pending, whenever it likes. `usart1_isr` is `Enter`, `Check`, `Read`,
`Indicated`, `Leave`; `flawLess_ReceiveIndication` appears as the locked
sections it may enter (`Sections`). `LossyStream` sees the bytes between
`readIndex` and where DMA writes; a ring that comes round loses all that waits,
and this is the only way to lose a byte.

### Framing

Both ends run the same code on two boards. The sender's functions put bytes on
`line`; `ReceiveByte` takes each of them (`Begin`, `Overlong`, `Content`,
`Skip`, `Finish` are the branches of `genericProtocol_receiveByte`). `Lose` and
`Invent` are the line's faults; `Ignore` is a byte that finds no buffer.
Checksums are modulo `Modulus`. `frame` and `intact` remember what was sent and
whether the line treated it well; `settled`, whether the receiver was behind an
escape character when it began, which only a harmed packet can leave it. The
receiver's buffers come from a pool of the pump: `hasBuffer` says that it holds
one, `free` and `waiting` count those in the pool and those in the queue.
`Deliver` posts a packet and takes the next buffer; `Refill` is what happens
after a packet of which the post may have been refused, where the code loses a
buffer; `Release` is the main loop that dispatched one.

### FlashConfig

`flash` is the page in half-words, `Program(k)` the address and value of the
k-th half-word an update programs (records, data, end mark), `at` how far it
got. `Write` keeps a half-word that is not erased, as the hardware does.
`PowerLoss` is possible between any two operations; `wanted` remembers which
values updates were to store. `config_readFromFlash` is `Load`.

### MotorSwitch

`pending` and `unmasked` are the line's bits in EXTI; the edge handler is
`OnMotorPwrChange`, `Mask`, `GpioClear`, `DispatchClear` and the timer's
callback is `OnDebounceTimer`, `Post`, `Forget`, `Unmask`, because the pin may
change (`Flip`) between any two of these. The open-drain output pulls the pin,
too (`SetMotorPower`).

### SwTimer

`handles` is `g_swTimerHandles`; `cen`, `ticks`, `psc`, `ccr`, `sr` are TIM2 in
one-pulse mode, `irq` its pending interrupt, which may wait `Latency` ticks.
A scan (`swTimer_trigger`, called by the interrupt and by registrations from
outside a callback) is a step for each slot: `ScanFree`, `ScanRunning`,
`ScanExpired` and `CallbackReturns`, and `ScanEnds` sets the hardware timer.
Between `ScanExpired` and `CallbackReturns` the callback may register and
unregister (`RegisterNested`, `Unregister`). History variables: `left` is each
callback's exact time to its next call, `skipped` the slots a callback filled
after the scan had passed them, `adrift` the callbacks that were in such slots
when a scan ended that left the running hardware timer as it was, `late` the
callbacks whose timer a callback put into a slot the scan had come to, so that
the ticks elapsed stay on top of the interval.

### PowerCheck and Reporting

`PowerCheck` has the thresholds and the arithmetic. At boot the thresholds are the
defaults or what the flash has (`Loaded`), which after a torn update
(`FlashConfig`) may be any 32 bit value. `Reporting` uses of the pump
what `MsgBus` promises: `queue` is the FIFO of accepted messages, `turn` the
receiver of the front message that is called next, and `Room` says when a post
is accepted (ring and pool). `Release` and `Advance` are the two locked sections
at the end of a dispatch, between which the buffer is free and the entry still
counted. There is one action for each callback and for each endpoint of a
packet. A callback calls the pump at most once, so it is one step.
`IncommingEndpoint` is the packet that is a broadcast message itself. `Measured`,
`Switched` and `Received` are the others that post. `frame` is what the last step
gave to the protocol; `gap` and `refused` are the history of one distributed
message. The reply with the limits has their low half-words only (`LowHalf`). The
colours of the LED are left out.

## 3. The runs

| run | states | asks | shows |
|---|---|---|---|
| `pump` | 501,465 | can the pump lose, reorder, alter or double a message, drop one before its receivers were called, hand out a used buffer, or leave a message lying while handlers keep posting? | no, but for what happens to a buffer that is posted while somebody else has it locked: `BusSpec`, `QueuedBufferReserved`, `NoDuplicateReceiver`; `EveryMessageDispatched`, `BufferComesBack`; `IInv` is the invariant of the proofs |
| `measuring` | 91,066 | does measuring keep its buffers apart, calibrate first and go on? | `DmaTargetReserved`, `CalibratedFirst`, `NothingLost`; `MeasuresUnlessRefused`: for ever, unless a post was refused |
| `measuring_leak` | - | does it go on after a refused post? | **no**, see 6 |
| `uart_tx` | 21,488 | do the main loop, the handler and DMA together send the bytes? | `TxStream`, `NeverStalls`; `SendReturns`, `Drains`; `TxInv` is the invariant of the proofs |
| `uart_rx` | 27,072 | do bytes reach the protocol in order and once, and is a locked section ever disturbed, whatever nests in whatever? | `RxStream`, `Exclusive`, `RxServed`; `RxInv` is the invariant of the proofs |
| `framing` | 1,064,562 | does the receiver get whole packets after any one fault, and with refused posts? | `IntactFrameDelivered`: those that fit the buffer, but for one that begins behind a stray escape character, and nothing of those that do not fit; `BufferForFrame`: a frame finds a buffer unless all wait in the queue, and the last buffer is never lost; in `TypeOK` no store outside the buffer |
| `flash_config` | 127,512 | what survives a power failure at any moment? | `FInv` (the invariant of the proofs), `StoredWhenIdle`, `ProgramsErased`, `TornByErasureOnly`; `SettlesIdle` |
| `flash_torn` | - | is what boots always a value that was configured? | **no**, see 6 |
| `motor_switch` | 270 | can the line stay masked, can an edge be missed? | no: `NeverDeaf`, `EdgeSampled` |
| `motor_report` | - | is the last reported level the pin's level at rest? | **no**, see 6 |
| `sw_timer` | 549,752 | do timers expire, not early, whatever callbacks do to the slots? | `TypeOK` (no timer has more than its interval to wait unless a callback put it behind the scan), `OneSlot`, `Armed`, `NotEarly`, `Expires`, with the exceptions the properties state |
| `reporting` | 799,716 | from a measurement to a packet and from a packet to a threshold, on a pump that others fill | `LevelFollowsVoltage`, `CutsOff`, `Reported`, `BuckStarts`; in `RInv` that one message of an interval is passed on and a refusal costs exactly one interval |

Deadlock is checked except in two runs where the board really stops: after a
fault (`pump`) and after it switched itself off (`reporting`).

### Bounds, and why they are enough

* **Pump**: `QSize` 2 for 16, one pool of two buffers for 33, two receivers
  for 4, reference counts to 2 for 255. Every test in the code compares with a
  limit (full, empty, last slot, count at its maximum) and all limits are
  reached; ring and pool wrap and run out independently of each other (memory
  of the caller and NULL fill the ring without the pool). A second id would only
  add a second vector and pool that nothing relates to the first but the ring,
  and foreign entries are in the ring already. One of the two buffers is
  `Shared`, so that recovered buffers and well-treated ones meet in the queue.
  The theorems cover all sizes.
* **Measuring**: the pools as the firmware has them (1 calibration, 2 raw, 2
  states), a ring of 3 so that two measurements and a foreign message fill it.
* **UartTx**: `FifoSize` 4 for 128, packets up to 6 bytes, so a packet may be
  shorter, as long as or longer than the ring, and wraps once or twice.
* **UartRx**: `FifoSize` 3 for 128, so that DMA overtakes the handler at every
  distance; sections nest to 2, which is what tells an inner unlock from an
  outer one. The proofs cover all sizes and depths.
* **Framing**: `Modulus` 8 for 256, `MaxPacketLen` 4 and payloads up to 5, so
  packets below, at and far above the limit are sent; a payload is made of an
  ordinary byte and the beginning character, the endpoints of the end and the
  escape character, so each control character is escaped somewhere, and checksums
  hit them too. `MaxFaults` 1 derails the receiver at any byte; it then recovers
  beside intact packets. `Buffers` 2 for 20: one in use and one to lose or to
  wait. The proofs cover any bytes, sizes and number of faults.
* **FlashConfig**: two variables of two half-words, the two thresholds the
  firmware has; three values differ in the low half-word, as `uint32_t`
  variables set from `uint16_t` packets do.
* **SwTimer**: two callbacks in two slots, so that slots are free, full, passed
  and yet to come; counter range `Top` 3 with intervals 2 and 5, so one fits
  the counter and one needs the prescaler; one tick of latency. Callbacks that
  register themselves wait longer each time (section 6), in the code without
  limit; `MaxTicks` in the guard of `RegisterNested` ends that in the model.
  A timer can be adrift only when at least three callbacks share the slots, so
  here none is and `NotEarly` has no exception; the theorem covers the rest
  (three callbacks, interval 5 and a latency of 2 are an instance with early
  calls of such timers, too large for liveness). `MaxLate` is the lateness that is counted; a timer as late as that is
  taken to stay late until it is registered again.
* **Reporting**: a low and a full voltage, defaults between and beside them.
  Packets set the lower threshold to both ends of `uint16_t` and the upper one
  to 0, and at boot either may be a torn value, so the thresholds are in order,
  crossed by a packet or from the start, and equal (both 0, with a voltage above
  them); the lower one is raised and lowered while measurements wait. A torn value is
  0xffff0000 and more, which TLC's integers do not reach; 2000000000 stands for
  it (the proofs cover all voltages and thresholds). `Interval` 2 for 50, pools of 1
  and 2, and a ring of 3, which holds a measurement, the level made of it and
  what is passed on, or is full of anything else. `MaxRefused` 2 bounds the
  history only: the chain goes on after it.

### Fairness, and why the code justifies it

* `MsgPump`: `WF_vars(Pump)`. The loop of `main` never blocks, handlers return.
  The clients owe nothing. The promises end where a NULL message stopped the
  board.
* `Measuring`: the timers are periodic, a conversion that was started ends,
  the loop goes on, init runs to its end. Nothing is assumed of `Other`.
* `UartTx`: a started call takes its next step, DMA serves an enabled channel, a
  pending interrupt is served. `phySendFunction0` is called from the main loop
  only, with interrupts enabled; called from a handler it would spin for ever.
* `UartRx`: handlers and functions go on (weak); a locked section ends at each
  level of nesting, and a pending interrupt is taken if interrupts are enabled
  again and again (strong: the main loop locks and unlocks for ever, and the
  hardware takes a pending interrupt at the first instruction with interrupts
  enabled). No byte has to come.
* `Reporting`: `WF_vars(Loop)` and the late timer. Nobody has to post.
* `FlashConfig`: an update goes on while there is power, and somebody turns the
  board on again. `SettlesIdle` is about runs where power stays at last.
* `MotorSwitch`: handlers run to their end, a registered timer expires.
* `SwTimer`: time goes on, a pending interrupt is served, a scan ends.

## 4. What is proved

`PumpProofs`, for all ids, pools, sizes and callbacks that satisfy the named
assumptions of `MsgPump`:

* `PumpInvariant == Spec => []IInv`, and from it `PumpTypeOK`,
  `PumpRefCntExact`, `PumpQueuedBufferReserved`.
* `PumpImplementsBus == Spec => BusSpec`: every step of the pump is a step of
  `MsgBus` or a stutter. So messages are shown in the order they were accepted in,
  with the content they were posted with (unless the buffer was recovered under
  somebody's hands), to one callback at a time and in the order of the vector, and
  dropped once, after every callback was called that was registered when the
  showing began and still is.
* `PumpNoDuplicateReceiver`. The property speaks of callbacks beside which no
  other is unregistered: it is false otherwise (section 6, observations).

What these say of buffers excepts the `lost` ones, and holds of all others.

`RefCntExact` alone is not inductive. A post is harmless only if the buffer is
in no other entry, and that is so only because an owned buffer is not queued
(`OwnedInv`) and a free one has no reference (`RefCntExact`, `FreeIsUnused`).
Dropping the reference after a dispatch is right only if the entry's buffer is
in no other entry (`DistinctInv`) and its flag was cleared just before
(`FlagInv`), while an interrupt may post between the two steps. And which slots
are waiting changes as it should only if `tail` is where `front` and `size` put
it (`RingInv`). `IInv` is the conjunction; there is one lemma for each action,
and lemmas about the ring (`EnqueueRing`, `SameQueue`) that several share.

The refinement rests on `IInv` and on `HandlerInv`: a callback runs only while
an entry waits. A post appends, because the new entry is behind all that wait and
its buffer is in none of them (`AcceptStep`); `PumpBegin` shows the head,
`PumpCall` and `PumpReturn` call the first that is due, `PumpSkip` passes an entry
nobody has, `PumpUnlock` retires the head when the loop has passed all entries
(`RetireStep`), and `PumpAdvance`, which moves `front` past an entry that does not
wait any more, stutters. Whatever a client does to a buffer it holds leaves the
contents of the waiting ones alone (`ClientStep`).

Also in `PumpProofs`, for all ids, pools, queues and posts of others:
`MeasuringInvariant` (`MInv`), and from it `MeasuringDmaTarget`,
`MeasuringCalibratedFirst` and `MeasuringNothingLost`. `MeasuringUsesPump ==
MSpec => Spec` composes the two models: each step is one of the pump or its
clients, so `IInv` and, by `PumpImplementsBus`, the promises of the bus hold with
the measuring on it. `IInv` makes an owned buffer DMA's alone; `HeldInv` adds that
the converter's and the callback's are owned and different, `FirstInv` that the
calibration finds its pool untouched (which is why the first message is the
calibration, as `dma1_ch1_isr` takes for granted), and `OrderInv` follows the
calibration through the queue up to its callback. The pool of one that the
firmware declares for it is `PoolAssumption`.

`MotorSwitchProofs`: `SwitchInvariant`, `SwitchTypeOK` and `SwitchNeverDeaf`.
`NeverDeaf` speaks of the main loop's place only; the invariant adds, for every
place in the two handlers, who holds the line there (`HandOver`).

`SwTimerProofs`, for all callbacks, slots, intervals, latencies and counter
ranges: `TimerInvariant`, from it `TimersOneSlot` and `TimersArmed`, and with
more of it `TimersNotEarly` and `TimersTypeOK`. `Armed`
needs to know, while a scan runs, that `nextInterval` is no later than any
deadline of a slot that was passed (`NextInv`), that no deadline lies beyond the
longest interval (`NearInv`), so before 0x7fffffff, the value for "none", and that a running timer has not
yet reached its compare value (`RunInv`; otherwise it might overflow and stop
without an interrupt). That prescaler and compare value together never set a
later deadline than asked for is `SetupDeadline`. `IntervalAssumption` is what
it takes: intervals below 0x7fffffff ticks, 44 seconds. `NotEarly` follows from
`EarlyInv`: what a timer has left and what is still to be taken off its counter
(`Owed`: the ticks of the hardware timer, in a scan those elapsed until the slot
has been passed) together are never more than the counter. The hardware counter
rounds down, so this is lost if it goes on counting for a timer that was set in
between, and that is what `adrift` singles out. `TypeOK` says that between two
scans no timer has more than its interval to wait, unless it is `late`. That
rests on `PromptInv`: what has elapsed is on top of the interval in exactly those
slots the running scan has yet to come to. `MaxTicks` is in neither bound; what it
does is that no timer is put off past 44 seconds (`IntervalAssumption`), which
`Armed` needs. Two more parts are that the hardware counter passes the
compare value by no more than the interrupt has waited (`CountInv`, of which the
part for a served timer is `RunInv`), and that a callback that is not adrift is
due when it is called (`EarlyInv`), so what it has left afterwards is at most an
interval (`LeftInv`). That there is a longest interval is proved from their bound
(`LongestInterval`).

`UartRxProofs`: `LockExclusive`, from `LockInv`: the counter is the number of
sections of the context that runs, and the register that is about to be stored
is current (`CounterInv`), because from `Disable` on nobody else runs.
`RxImplementsLock` shows that reception takes only steps of the lock, so
`RxExclusive` follows; `RxInvariant` adds where the handler is. `RxRefinesStream`
proves `RxStream` for every ring size: the slot that is read is the head of what
waits, and a byte that DMA stores is appended or makes the ring come round.

`UartTxProofs`: `TxInvariant`, `TxNeverStalls`, `TxRefinesStream`, for every ring
size and packet. The types alone are not inductive: that DMA reads only stored
bytes needs the open transaction to lie in the ring and `end` to be `start` plus
`count` (`TransactionInRing`), and that the handler releases exactly what was
sent needs DMA's position to be `start` plus what it has sent. With these a byte
that DMA reads is the head of the stream, a packet's bytes are appended behind
it, and all other steps stutter.

`FlashConfigProofs`, for any number of variables and any sizes that fit a page of
1 kB: `ConfigInvariant` (`FInv`), and from it `ConfigStored`,
`ConfigProgramsErased` and `ConfigTornByErasureOnly`. That a value read back has
its type at all depends on where the reader ends its list, so the types are not
inductive without what the page looks like. While an update writes, the page is
exactly what it has written so far (`Prefix`); in every other state it is what
some update left: record words that are right or erased, an end of the list at
the right place (`Layout`), and data of one wanted value (`Data`). The k-th
half-word is at the quotient and remainder of k (`Split`, `Joined`), so no two of
an update have one address (`Apart`); the reader matches a record only of its own
variable (`MatchIs`), because descriptors differ and `Layout` leaves nothing
else in the list. Page size and descriptor addresses are the linker script's.

`ReportingProofs`: `ReportingInvariant` (`RInv`, for all pools, packets and
intervals) and `ReportingLevel` (`LevelFollowsVoltage`, for all voltages and
thresholds). The second rests on lemmas about integer division (`Quotient`,
`QuotientMonotone`) and on the bounds of a 12 bit conversion.
`Reporting` has a queue of its own instead of `MsgPump`. That the pump is such a
queue, and calls all receivers in order before it drops a message, as `Callback`
and `Release` have it, is `PumpImplementsBus`; the two models are not composed.

`FramingProofs`, for any alphabet of bytes, any packets, buffer length, number of
buffers and number of faults: `FramingInvariant` (`Inv`), and from it
`FramingDelivers`, `FramingBuffer` and `FramingTypeOK`. The receiver is written
as a function `Step` of its state and a byte (`ReceiveIsStep` shows that it is
what the actions do), and `Run(r, s)` is the fold of `Step` over the bytes `s`.
The invariant speaks of `Run(Receiver, line)`, the state the receiver will be in
when the line is drained. Then taking a byte off the line changes nothing, and
putting one on applies one more `Step` at the end: the interleaving of the two
sides disappears. What remains is what `Run` is at each point of the sender: never
just after an escape character, so that the next beginning is seen (`CalmInv`);
while a packet is sent that still fits, inside it with all of its bytes and their
sum (`InsideInv`); and after the packet, with exactly that packet handed on
(`DoneInv`). A fault voids `intact`, and with it all three. A packet then finds
the receiver anywhere; if that is not behind an escape character, its beginning
is seen (`FrameBegins`), and if it is, the packet is lost, but makes the receiver
calm again, so the packet after it is received (`settled`). Of packets longer than the buffer the invariant says nothing more;
none that is handed on can be as long (`States`). The lemmas `InsideUnit`, `InsideSeq`, `Beginning` and `Ending` say what
an escaped byte, a sequence of them, and the two ends of a packet do to `Run`.

The escaping and the checksum are recursive functions over sequences.
The library's induction takes a predicate as its parameter, which the provers
here cannot instantiate; `Smallest` takes a *set* instead (from `WFMin` and
`NatLessThanWellFounded`), `UpTo` is the induction that follows from it, and with
these the recursive functions are shown to be folds (`EscapedIsFold`,
`SumIsFold`) that can be taken apart at any point (`FoldConcat`). That the
checksum closes to 0 is `NegativeSum`, with modular sums (`ModOf`, `ModAdd`).

### Only model-checked

Liveness (all `~>` and fairness properties): the provers have no fairness and no
ENABLED here. These are `EveryMessageDispatched`, `BufferComesBack`,
`SendReturns`, `Drains`, `SettlesIdle`, `EdgeSampled`, `MeasuresUnlessRefused`,
`Expires`, `CutsOff`, `Reported`, `BuckStarts` and `RxServed`. Every invariant,
every action property and every refinement that a run checks is also proved.

## 5. Abstractions

* Locked sections and interrupt handlers take no time, except that the interrupt
  of the timer may be late; in the other models a timer expires at some time.
* A half-word of flash is programmed or not; power that fails *within* the
  programming of a half-word may leave other values.
* RAM is void after a power failure; the model writes the defaults there.
* The pump's vector is read without the lock. A handler that unregistered could
  make the loop call NULL (`msg_msgPump.c:417`); no handler of the firmware does,
  and `Unregister` is restricted to callbacks.
* Fields of an empty timer slot that nobody reads are reset in the model.
* `RegisterNested` has a guard with `MaxTicks` that `swTimer.c` does not have: a
  callback that registers itself again and again is put off further each time,
  and the model stops that. `Armed` is about timers put off by less than 44
  seconds.
* Tick counts are unbounded integers: intervals of more than 44 seconds, which
  nobody asks for, would wrap in the code.
* `UartRx`: DMA stores a byte before the handler looks for it. What the handler
  does about an overrun, clearing the flag and reading the data register that DMA
  has emptied (`t/communication.c:118`), changes no state of the model.
* `Reporting`: packets for no endpoint or of a wrong length are one kind,
  `other`. That an update of a threshold stops the loop while it writes flash is
  `FlashConfig`'s; here it is a step.
* `Framing` starts a packet when the line is drained, which bounds the line; it
  does not reset the receiver.

## 6. Findings

Three statements of the repository do not hold of the code; each has a run
that shows a counterexample.

1. **A refused post stops the measuring** (`measuring_leak`).
   `t/measuring.c:173` ignores the result of `msgPump_postMessage`, and the next
   statements forget the buffer. The pool of raw measurements has two; after two
   refusals `triggerMeasurement` never gets one again, and the watchdog no
   longer sees the battery. FEATURES:30 promises the state about every 50 ms.
   The ring is full when the main loop is away for long, and it is while
   `config_updateToFlash` busy-waits (`t/configuration.c:134`).
   `MeasuresUnlessRefused` shows that this is the only way.
2. **A torn update boots with values nobody configured** (`flash_torn`). A record
   is programmed before its data, so power failing between the two leaves a
   valid record of erased half-words; `config_readFromFlash` takes 0xffff for
   the value. `TornByErasureOnly` bounds the damage: never a mixture.
3. **The switch may be reported wrongly for good** (`motor_report`). An edge after
   the callback's sample and before the pending bit is cleared
   (`t/motorPwr.c:48`) is forgotten: the last report stays wrong until the next
   edge. `NeverDeaf` and `EdgeSampled` say what does hold.

Observations, met while modelling; no statement of the repository is against
them:

* A buffer that is posted while somebody else has it locked is recovered as free
  (`fw/core/msg_msgPump.c:205`), and the next client gets it although the other
  one still holds it, who may unlock it under the next one's hands. The other
  buffers are not affected (`RefCntExact`, `QueuedBufferReserved`). No client in
  the firmware locks a buffer it posts.
* `msgPump_unlockMessage` leaves the flag as it is, so a buffer that is taken
  from the pool and unlocked without being posted stays `InUse` and is lost
  (`fw/core/msg_msgPump.c:336`, against the comment at :318).
* `msgPump_registerOnMessage` takes the first slot that is empty or holds the
  callback (:84): after others unregistered, a callback can get a second slot.
* `msgPump_postMessage` accepts NULL; `msgPump_pumpMessage` then stores through a
  wild header address (:414).
* A whole packet is lost if a fault left the receiver behind an escape character:
  that takes the beginning with it, and the receiver waits for the next one
  (`genericFlawLessProtocol.c:166`). `IntactFrameDelivered` excepts it.
* A packet of exactly the maximum length is dropped (`genericFlawLessProtocol.c:190`).
* When a packet turns out longer than the buffer, the receiver goes to wait for a
  beginning (`genericFlawLessProtocol.c:195`) and reads the rest of it without
  regard to escapes. The rest may hold an escaped character that looks like a
  beginning; what follows is then received as a packet of its own, which its
  checksum must unmask. With a modulus of 8 TLC finds one it does not: of a
  packet to endpoint 1 with the data <6, 6, 6, 6, 2>, an empty packet to endpoint 2
  is handed on. `IntactFrameDelivered` says only that the long packet is not.
  A refused post in the receiver loses its buffer for good as long as the pool
  has another one (:255); the last one is kept (`BufferForFrame`).
* `config_updateToFlash` busy-waits, and the erasure of its page stalls the core
  for tens of milliseconds, longer than 128 bytes take on the line: the ring of
  the receiver may come round meanwhile. `RxStream` says what is lost then.
* A post that is refused at the end of an interval is not repeated: the message
  waits for one more interval (`application/dataDistribution.c:26`). `RInv`
  states it exactly.
* A packet that is a broadcast message is posted, and the proxy's own callback
  sends it back over the only interface, although the comment at
  `fw/protocol/msgProxy.c:122` wants to spare the sender.
* The pool of relative levels is declared with `batteryVoltageLevel_t`, and a
  level of one byte is posted (`application/powerCheck.c:38`, :87).
* `SendInsideFrame` and `EndTransmittingFrame` do not ask whether a frame was
  begun (:413); the firmware always begins one.
* The level 0 (`interfaces/battery.h:48`: empty, shutting down) is posted by a
  board that stays on if the thresholds are more than 255 cV apart
  (`application/powerCheck.c:68`). `LevelFollowsVoltage` states this exactly.
* A timer that a callback registers adds the ticks elapsed, which only a slot
  the scan has yet to reach gets taken off again (`fw/timer/swTimer.c:56`): a
  one-shot timer that re-registers itself waits 1, 2, 3... intervals. A slot the
  scan has passed is left out of the next deadline, and if no other timer is
  left the hardware timer is not set at all. If it happens to run on, from the
  registration whose scan this was, the timer is `adrift`: its callback may be
  called early, by less than a step of the prescaler. The blinking LED registers
  from a callback.
* When TIM2 overflows before its late interrupt is served it stops at 0 and the
  elapsed time is lost (`t/hwTimer.c:68`). Without any timer the compare flag is
  never cleared and the interrupt comes again for ever; the firmware always has
  periodic timers.

## 7. Plan

Done, in this order: pump and bus, measuring on the pump, transmission, framing,
configuration, switch, timers; reception with the lock; watchdog, distribution,
proxy, dispatcher and buck together on the pump; framing with the receiver's
pool; the proofs of pump, switch, timers, lock, reception, transmission,
reporting, the refinement of the bus with its receivers by the pump,
the configuration store, the measuring on the pump, that no timer is early and
how long timers have to wait, and the framing, for every packet.

Next, if the project goes on: `Reporting` has a queue of its own; still open is to
put it on `MsgPump` itself, as `Measuring` is.

### Not modelled, and why

* LED: display only; nothing depends on it.
* Start-up: a loop over functions in the order of the linker script, clocks and
  vectors. The order shows in the initial states.
* RPC, logging, assertions: renamed so that the Makefile does not compile them.
* FIFO macros: `communication.c` uses the structure (modelled in `UartTx`), never
  put or get.
* Motor switch: registration for other pins, which the firmware does not use.
* libopencm3 under `target/`: vendored register definitions and accessors, by far
  the most lines of the tree. The models take from it what a register does.

## 8. Running

In this directory, with TLC: `tlc -config X.cfg M` for the .cfg and module of each
run that `PROJECT.json` lists; the largest takes less than two minutes. With TLAPS: `tlapm M.tla` for the `...Proofs` modules.
