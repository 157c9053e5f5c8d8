# A TLA+ model of the USART virtual platform

The repository is a SystemC/QBOX virtual platform: an ARM vCPU under QEMU, two
USART device models with the bridges that wire them, and bare-metal firmware
that drives them. This directory models the parts with state and concurrency,
checks them with TLC and proves the main safety facts of the USART core, the
wrapper, its composition with the interrupt handler, both firmware programs and
the simple USART with TLAPS.

Paths below are relative to `src/`; `Usart.cc`, `Usart.h`, `Usart_regdefs.h` and
`usart2.h` are those of `peripherals/usart2`.

## 1. Inventory

| Component | State | Operations | Talks to |
|---|---|---|---|
| USART core (`Usart.cc`, `Usart.h`) | CON, BG, TBUF, RBUF, TSR, clock period, four IRQ assert times, two `sc_event`s | register reads and writes, `clear_rbuf`, `rx_inject`, clock and reset pins, `txDoneMethod`, `irqDeassertMethod`, `advance` | the wrapper (calls), four IRQ ports, `txd` |
| Register arithmetic (`Usart_regdefs.h`, `Usart.cc`) | none | masks, data and stop bits, parity, RBUF packing, baud and frame duration | the core |
| Usart2 wrapper (`usart2.h`) | `m_status`, seven event counters, receive queue, `m_rxd_busy` | `b_transport`, `rx_receive`, `rxd_try_start`, `rx_done_method`, `tir_auto_method`, `irq_method`, `irq_pulse_method` | core, bridge, GIC |
| SerialBridge (`serial_bridge.cc`) | none (its sockets queue) | `recv_from_a`, `recv_from_b` | two wrappers |
| Interrupt firmware (`hello_isr.c`) | `g_log`, `g_log_count`, test results | `irq_handler`, `wait_n`, `find_event`, five tests | both wrappers, GIC |
| Full-duplex firmware (`hello_fullduplex.c`) | test results | five tests, `wait_status`, `clr_status` | both wrappers, a console USART |
| Simple USART (`peripherals/usart`) | CR1, BRR, receive FIFO, `m_irq_state` | register accesses, `rx_receive`, `update_irq` | character backend, GIC |
| Demonstration firmware (`hello_usart.c`, `hello_usart2.c`) | none | straight-line output | the devices |
| Platform (`platforms/cortex-a53-virt`) | none | instantiation, wiring, sync policy | all |
| VCD tracing (in `usart2.h`) | `m_txd_queue`, `m_txd_busy`, `m_pending_trace_irqs` | `txd_try_start`, `tx_start_method`, `tx_done_method`, five expire methods; only when `vcd_file` is set | trace file |

**Interaction.** Every register access of the firmware is a call of
`b_transport` on the *vCPU thread*. Everything else is an `SC_METHOD` on the
*SystemC thread*. The interrupt configuration (`conf_isr.lua`) selects the sync
policy `multithread`, the other USART2 configurations `multithread-unconstrained`: the two
threads share the core's and the wrapper's members with no lock. A byte goes
`b_transport` -> `force_send` -> bridge -> `rx_receive` -> `m_rxd_pending_q` ->
`m_rxd_frame_byte` -> `rx_inject` -> RBUF. An event goes core pulse or counter ->
`m_status` -> `m_irq_event` -> `irq` low, then high one delta later -> GIC ->
`irq_handler` -> write-1-to-clear.

**What is hard.** Read-modify-writes from two threads (STATUS, CON, RBUF); the
hand-off of TBUF between a register write and the end of a frame; chains of
events that each schedule the next (transmitter, receiver, interrupt pulse);
bus accesses that run ahead of kernel time; registers that change during a
frame; WFI against an interrupt. `PROJECT.json` lists each hazard at its line.

**What makes each component correct.** *Core*: no line sticks high, an unread
byte is kept, no byte strands, the transmitter is a FIFO. *Wrapper*: bytes are
delivered in order, once, and in the end; no event is missed where the threads
do not overlap; no STATUS bit stands that nothing reports. *Firmware*: until the
threads meet in STATUS every test sees its own three events; WFI never outlives
its reason, the suite ends; a polled wait misses only the bits that the code
exposes to a race, and a test fails only after a wait that timed out. *Simple USART*: credits prevent loss, `irq`
agrees with the FIFO. *Tracing*: it does not disturb the device, and its chain of
frames does not break.

## 2. Modules

| Module | Models | Composes |
|---|---|---|
| `UsartRegs` | the register arithmetic, as operators | |
| `TxFifo` | abstract: a two-place transmitter | |
| `UsartCore` | the core alone, one action per handler | `UsartRegs`, refines `TxFifo` |
| `SerialLink` | abstract: a reliable link that counts what it delivers | |
| `Usart2` | the wrapper with its core, two threads, several USARTs, the bridge | refines `SerialLink` |
| `Usart2Events` | `Usart2` with a history of its events: which are counted and not yet in STATUS, where the threads have overlapped | extends `Usart2` |
| `Usart2System` | `Usart2` with the GIC and `irq_handler` | extends `Usart2` |
| `Usart2Traced` | `Usart2` with the waveform of txd | extends `Usart2`, implements it |
| `FullDuplex` | `hello_fullduplex.c` over the USARTs A and B | extends `Usart2` |
| `IsrFirmware` | `hello_isr.c` and what two threads do to STATUS under it | |
| `SimpleUsart` | the simple USART, its backend's credits, its driver | |
| `MC*` | the instances for TLC | |
| `UsartCore_proofs`, `SimpleUsart_proofs`, `IsrFirmware_proofs`, `Usart2_proofs` | theorems | the module each is named after |
| `Usart2Link_proofs`, `Usart2System_proofs`, `Usart2Traced_proofs` | theorems | `Usart2_proofs` |
| `FullDuplex_proofs` | theorems | `FullDuplex`, `Usart2Link_proofs` |

**`UsartCore`** has one action per handler and takes each handler as atomic: it
is the core as one thread sees it. Variables carry the members' names. A bus
access begins with `StampAdvance`/`Pulse(ExpiredAt(now + d), ...)`, which is
`advance()` at the access's local time; `d` is how far it is ahead of the
kernel. `assert_time` holds the four assert times, where 0 means "not asserted".
`tx_done_ev` and `irq_deassert_ev` are the pending `sc_event`s; `Notified` is the
kernel's rule that the earlier notification wins. `txd` is what the port last
carried. Time is in units of one picosecond.

**`Usart2`** splits each handler wherever the other thread can come between two
accesses to shared state: `pc["Q"]` and `pc["S"]` are the places of the vCPU and
the SystemC thread, `ld` the register a thread has loaded and not yet stored,
`ld_count` the event count. `update_status_from_core()` is one loop,
`UpdTest`/`UpdLoad`/`UpdStore`/`UpdCount`/`UpdFired`/`UpdEnd`, that either thread
runs: `m_status |= bit` is a load and a store, and so is `fired = count` after it.
`TirAuto` enters it for TIR alone, since
`tir_auto_method()` has the same shape. `ready`, `delta` and `timed` are the
kernel's processes to run, delta notifications and timed notifications. The data
of the core is abstracted: CON is the set of its flags among REN, OEN, R and OE,
in mode 1, and time is the order of timed events. `EarlyTbuf`, `LateBus` and
`IrqBound` name what the environment may do.

**`Usart2Events`** adds two history variables to `Usart2`, and `EventsReported` over
them: on a USART where the two threads have not overlapped in the report of events,
each update ends with the event it was called for in STATUS. What happens where they
have is what `Usart2_rir` and `Usart2_tbir` show; both histories are read off the steps of `Usart2`
and restrict none.

**`Usart2System`** adds a GIC that latches rising edges of `irq` and a vCPU that
takes the interrupt between two bus accesses; the handler's write-1-to-clear is
the same `W1C` as the program's and races the kernel likewise.

**`IsrFirmware`** holds the five tests as sequences of instructions over the two
USARTs' STATUS, RBUF and frames on the line. Every change of STATUS is a load and a
store: S's `|=` of TIR, RIR and EIR (`TirLoad`, `RxLoad`, `StoreBit`), Q's `|=` of TBIR
(`TbirLoad`, `TbirStore`), the W1C of `irq_handler()` (`IsrLoad`, `IsrStore`) and the
two of `test_begin()` (`ClearLoad`, `ClearStore`, twice). A report ends in
`m_irq_event` (`EndUpdate`) and in an edge at the GIC (`IrqEdge`), which are steps of
their own. The history `raced` becomes TRUE when a store overwrites a STATUS that has
changed since its load, or when both threads report RIR or EIR and TBIR of one USART
at a time, where the counts could be confused (`Usart2Events` has these counts; here
an update always reports). `PastRace` says whether the model goes on from there.
The sleep at `usart2.h:437` after a TBUF write is a time of the host, so a write may
return before or after the events it causes.
Of the log the model keeps the length and the records since the running test's
`base`, as a set: `find_event()` looks at no others and in no order.

**`Usart2Traced`** adds to `Usart2` the frames that the wrapper draws on txd for an
instance with a `vcd_file` (`conf_isr.lua` gives A and B one). They have a queue,
a start event from the bus thread and a chain of timers of their own. The events
of tracing have kernel sets of their own (`tready`, `tdelta`, `ttimed`), which
`TracedDeltaCycle` and `TracedAdvanceTime` move together with those of the
device; every other step of `Usart2` is taken as it is.

**`FullDuplex`** runs `fullduplex_main()` as one script of instructions for each
test, on the vCPU thread of `Usart2` and in place of its nondeterministic driver:
an instruction starts the bus access that `Usart2` then splits, so the program's
clears and polls race the scheduler as they do in the code. `wait_status()` is
`DoWait` when the bit is seen and `TimeOut` when its limit is over. The limit counts
polls (`hello_fullduplex.c:287`): with `Patient` its millions of them outlast whatever
the scheduler had to do (`Quiet`), without it a test may give up at any moment and
leave its byte in flight. A text on the console
takes tens of milliseconds, since `b_transport()` sleeps 2 ms for each byte of it;
`DoPutStr` waits for the same. The one sleep after a TBUF write to A or B is not
taken to outlast anything. A test that gives up goes on to the next with what it
has left in flight, in RBUF and in STATUS.

**`SimpleUsart`** splits `rx_receive`, `update_irq` and the driver's accesses
between their effects. Bytes are numbered as typed, so `taken` is both the byte
read last and the count of bytes read.

## 3. Runs

| Run | Expected | Shows |
|---|---|---|
| `UsartCore_safety` | pass | Any driver: `TypeOK`; `PulsesEnd` (a line is high only with its fall pending); `DoneEventBelongsToFrame`; `UnreadByteKept`; refinement of `TxFifo` |
| `UsartCore_driver` | pass | A driver that sets R first and keeps it: `NothingStranded`, `EveryFrameEnds` |
| `UsartCore_freeze` | violation | `FrozenFrameEnds`: clearing R across the end of a frame loses the frame for ever |
| `Usart2_link` | pass | `ImplementsLink`, `EveryByteArrives` (refinement of `SerialLink` without and with fairness), `ReceiverNeverStalls`, `EventsReported` |
| `Usart2_handoff` | pass | `TxHandOff`, `HeldByteLeaves`: a driver that keeps R set strands no byte in TBUF; `EventsReported` |
| `Usart2_w1c` | violation | `W1cClearsOnlyWritten`: a racing STATUS write clears an event it did not name |
| `Usart2_rbuf` | violation | `FullRbufHoldsByte`: a racing RBUF read wipes the byte just received |
| `Usart2System` | pass | `SysTypeOK`; `NoStrandedStatus`, `EveryEventServed`, with a program that clears STATUS too |
| `FullDuplex` | pass | `OnlyTransmitBitsMissed`: no wait for RIR or EIR ever times out; `FailuresExplained`: a test fails only for a wait that timed out; `TirIsOwn`; `SuiteReachesExit` |
| `IsrFirmware_suite` | pass | Until the threads meet in STATUS: `FailuresNeedARace`; `SleeperIsOwed`: a program asleep in WFI with events still missing is owed one by a device; `SuiteEnds`: the suite ends unless the threads meet or it hangs as in `IsrFirmware_wait`; under all 32 values of TEST_MASK |
| `IsrFirmware_wait` | violation | `SleepsOnlyForEvents`: the last interrupt served between the test and the WFI of `wait_n()` |
| `SimpleUsart` | pass | `TypeOK`, `NothingLost`, `IrqSettles`, `EveryByteRead` |

Each property of a passing run has a mutant of the code model in `PROJECT.json`
that breaks it (definitions marked `mutant` in the modules).

### Further instances

These configurations answer narrower questions and are not among the runs. Those marked
*refuted* stop at a counterexample, most of them within seconds: each shows what happens
where a theorem's assumption or a property's exception begins
(`tlc -config Usart2_rir.cfg MCUsart2Events`, and so on).

| Configuration | Module | Shows |
|---|---|---|
| `UsartCore_overrun` | `MCUsartCore` | *refuted* `OverrunImpliesUnread`: `clear_rbuf()` empties RBUF and leaves OE set |
| `Usart2_answer` | `MCUsart2Events` | `EventsReported` with TBUF writes and updates of the vCPU thread on both USARTs, and the program clearing STATUS |
| `Usart2_rir` | `MCUsart2Events` | *refuted* `ReceivedReported`: the vCPU thread copies the count of a byte that the scheduler has counted and not yet reported |
| `Usart2_tbir` | `MCUsart2Events` | *refuted* `WriteReported`: the scheduler stores TBIR, the program clears it and writes TBUF again, the scheduler copies the new count |
| `Usart2_late` | `MCUsart2Events` | *refuted* `ReceivedReported`: an access two clocks ahead of the kernel ends the RIR pulse before it is tested |
| `Usart2_wrap` | `MCUsart2Events` | *refuted* `WriteReported`: a counter that wraps hides the next event |
| `FullDuplex_impatient` | `MCFullDuplex` | `FirstFailureIsATimeOut`: a test may give up with its byte in flight, and still none fails before one has timed out (two million states) |
| `IsrFirmware_race` | `MCIsrFirmware` | *refuted* `NoTestFails`: once the threads have met in STATUS, test 1 fails |
| `Usart2Traced` | `MCUsart2Traced` | the instance of `Usart2_handoff`, STATUS left alone and `irq` wired, with A traced; also `WaveformNeverStalls` and `WaveformEnds`, in two minutes or so. The waveform is passive (`TracingIsPassive`) |

### Bounds

*Core.* Two TBUF values, one with bits that must be masked away; two received
bytes; a mode without and one with hardware parity; two clock periods; steps of
half a frame, clipped to the next event; access offsets 0 and 3, below and above
the age of two clocks at which a pulse is stale. `MaxTime` and `MaxFrames` stop
the environment, not the kernel. Two frames are enough for one to be held
behind another, the most the device can hold; the theorems drop the bounds.

*Wrapper.* In `Usart2_link` three TBUF writes put one byte in the frame, one in
the receiver's queue and one on the wire; elsewhere two, one on the line and
one in TBUF. `CountMod`, 2^32 in the
code, is 8, so no counter wraps. In `Usart2_link` A sends and B receives,
with CON, RBUF and one more register of B driven: bytes are dropped
before B is switched on, accepted, and refused by an overrun. In
`Usart2_handoff` A alone is driven, in CON, TBUF and STATUS: with two writes the second meets the end of
the first frame at every step. A receives nothing there, so the write-back of CON
with OE (`OeStore`) does not occur; that it takes R from nobody is `HandOffIsSafe`.
For `EventsReported`, B's accesses to RBUF and `other` run updates of their own on the
vCPU thread, between and across those in which the scheduler reports RIR and EIR, and A's writes
in `Usart2_handoff` follow each other while TIR is reported and STATUS is cleared; in
`Usart2_answer` each USART writes TBUF once and B's STATUS is cleared as well. Both leave
out what the refuted instances have: `LateBus` in `Usart2_late`, a count of one bit
(`CountMod = 2`) with any number of writes in `Usart2_wrap`, an overlap in
`Usart2_rir` and `Usart2_tbir`.
`Usart2System` wires one USART to itself, so that events which in a two-way
exchange reach one USART from two sides share one interrupt line; one TBUF write
gives TBIR, TIR and RIR there. EIR takes a second byte and does not occur in the
run; the theorem drops the bound and covers it.
The violation runs stop at their first counterexample.

*Firmware.* `PastRace`: `IsrFirmware_suite` and `IsrFirmware_wait` stop a behaviour
where the threads meet in STATUS, since nothing is claimed after that; `IsrFirmware_race`
goes on, with test 1 alone, and finds the failure. `Patient` as above; without it
the program's liveness is not checked. Otherwise none beyond the program's own
(`LOG_SIZE` 64, 40 iterations; eight bytes from A and one from B in `FullDuplex`, whose `MaxWrites` and `CountMod` are
large enough to bound nothing, whose alphabets are the program's own, and which
leaves the environment free: `EarlyTbuf` and `LateBus` are TRUE).

*Simple USART.* A FIFO of two places for 16, and five bytes, so that the
backend runs out of credit and the FIFO wraps through full and empty.

`CHECK_DEADLOCK FALSE` stands where the bounds stop the environment or the
program ends. `SimpleUsart` is checked for deadlock.

### Fairness

*Core, wrapper.* `WF` on processes and delta cycles: the SystemC kernel runs
what is ready. `SF` on `AdvanceTime`: an access may always notify a further
delta cycle, but the vCPU is not infinitely fast, so time passes (Zeno
behaviours are excluded). `SF` on `Bridge(u)`: the socket's asynchronous event
reaches the kernel although it is busy again and again. `WF` on an access in
progress: it returns. The driver itself has no fairness.

*System.* `WF` on the handler's steps, `SF` on `TakeIrq`: interrupts are enabled
whenever the handler is not running, and the program leaves gaps between
accesses.

*Tracing.* As for the wrapper; the waveform's processes count among the kernel's.

*Firmware.* `WF` on scheduler, program and handler, each as a whole; in
`FullDuplex` on the program, the access in progress and the kernel.

*Simple USART.* `WF` on the kernel's steps and on a bus access in progress;
`SF` on delivery, enabled again and again while there is credit; `SF` on a
handler that reads DR while `irq` is high. `EveryByteRead` assumes RXNEIE left on.

## 4. Proofs

`UsartCore_proofs` proves, for every value of the constants that satisfies the
four groups of assumptions in `UsartCore` (the driver writes natural
numbers to TBUF, 13 bits to BG, writable flag sets to CON, the far end sends
bytes, clock periods and time steps are positive):

| Theorem | Property |
|---|---|
| `TypeCorrect` | `TypeOK` |
| `PulsesAlwaysEnd` | `PulsesEnd` |
| `DoneEventHasFrame` | `DoneEventBelongsToFrame` |
| `UnreadByteIsKept` | `UnreadByteKept`, an action property |
| `NothingIsStranded` | `DriverDiscipline => (Spec => []NothingStranded)` |
| `CoreImplementsFifo` | `Spec => ImplementsFifo` |

The invariant is `IInv`, the conjunction of the type invariant, `PulsesEnd` and
`DoneEventBelongsToFrame`. None of the parts is inductive alone: that `tx_done_ev` is
not in the past when `loadTSR` schedules over it needs the type of `now` and of
the frame duration; that a line lasts only for the present instant needs that
time moves only when no falling edge is pending. `PulseLemma`, `AccessLemma` and
`LoadTSRLemma` are shared by all handlers; each handler has a lemma
(`WriteTbufStep`, `TxDoneStep`, `RxInjectStep`, `QuietAccessStep`, `KernelStep`).
`NothingIsStranded` adds `DriverInv`: a frame on the line means that R is set.
`CoreImplementsFifo` maps TSR and TBUF to a sequence of seven-bit payloads, the
bits that every frame format carries, and shows that each step is a step of
`TxFifo` or leaves it alone. The range facts of `UsartRegs` come first in the module.

**`SimpleUsart_proofs`**, for every depth of the FIFO and number of bytes:
`TypeCorrect` (`TypeOK`), `NoByteIsLost` (`NothingLost`) and `IrqAlwaysSettles`
(`IrqSettles`). `NothingLost` is not inductive: that a byte which arrives finds a
place needs `CreditAccount`, that the FIFO, the delivery under way, the credits
and the credit about to be given add up to `Depth`. `IrqSettles` speaks of quiet
states only; `IrqDue` says of every other state what will still put `irq` right.

**`Usart2_proofs`**, for every set of USARTs, wiring and driver:

| Theorem | Property | Assumes |
|---|---|---|
| `Usart2TypeCorrect` | `TypeOK` | |
| `ReceiverIsNeverStalled` | `ReceiverNeverStalls` | |
| `HandOffIsSafe` | `TxHandOff` | `KeepsR`: R is set before the first TBUF write and in every CON write |

`TypeInv` adds to `TypeOK` what each place of a thread says of its locals (which
bits `update_status_from_core()` has left, where it returns to). `RxInv` adds that
the timer is never both running and due, and `TxInv` that R is set while anything
is sent, *also in the copy of CON that the receiver is about to write back with OE*:
without the last part the race at `Usart.cc:497` could take R away and the end of
a frame would be ignored.

**`Usart2Link_proofs`**, while no counter wraps (`NoWrap`, fewer TBUF writes than
`CountMod`): `BytesTravelInOrder` (`ImplementsLink`), and `EventsAreReported`
(`EventsReported` of `Usart2Events`), the latter also for accesses less than two clocks
ahead of the kernel (`~LateBus`). `EveryStepMoves` shows that each of the wrapper's steps
keeps the channel, appends to it or takes its head; `FlowInv` accounts for the bytes, so
that no counter reaches `CountMod`. For the events, the invariant says where an event
that is counted and not yet stored may stand in the update of the one thread that is at
work on its USART, between the test, the store, and the copy of the count. Each of the
three assumptions, no wrap, no late access, no overlap, is needed: the instances
`Usart2_wrap`, `Usart2_late`, `Usart2_rir` and `Usart2_tbir` drop one of them each.

**`Usart2System_proofs`**: `SysTypeCorrect` (`SysTypeOK`), and `NoInterruptIsLost`
(`NoStrandedStatus`) if `irq` is wired (`IrqBound`). `IrqInv` says of each set bit
that a thread about to notify, an event, a pulse, the GIC or the handler has it in
hand, and the same of the copy of STATUS that the write-1-to-clear has loaded:
the store may bring back a bit or take one away, but never one without a cause.

**`Usart2Traced_proofs`**: `TracingIsPassive` (`TracedSpec => Spec`: what is proved
of `Usart2` holds with tracing on), and `WaveformGoesOn` (`WaveformNeverStalls`)
under `KeepsR`. `WaveInv` adds that R is set while a byte waits to be drawn, which
uses `TxInv` for the write-back of CON.

**`IsrFirmware_proofs`**, for every TEST_MASK, every log of at least 27 records (nine
bytes with three events each; the code has 64) and every `wait_n()` of at least nine
iterations (the code has 40): `TestsFailOnlyAfterARace` (`FailuresNeedARace`) and
`SleeperIsOwedUntilARace` (`SleeperIsOwed`). The invariant is `raced \/ IInv`, and the
step to prove is that of `IInv` for a step that leaves `raced` FALSE: a store then
writes to the STATUS it has loaded. `IInv` adds to the types

- `ProgramInv`: `todo` is the rest of a script, and the tests to come are later ones.
  `ScriptShape` and `Neighbours` state the scripts by position, so the proof never splits
  a sequence by hand. `Cur` is the position of the program, one further than `Pos` once a
  byte has left and its TBIR is still to be stored;
- `HandlerInv`: each set STATUS bit has an interrupt pending, a report that has been
  stored and will end in one, or a handler that has yet to read it;
- `StageInv`: what each instruction may rely on. Between bytes nothing is in
  flight and everything logged is kept (`Calm`, `KeptInv`). In a wait, each of the
  byte's three events is still to come, loaded and not stored, in STATUS, or in the log,
  exactly one of these (`Accounted`), and the iterations used plus the wakes still
  possible are at most eight, which is why nine iterations are enough.

**`FullDuplex_proofs`**. `ProgramIsADriver` is `FdSpec => Spec`: the program makes
no access that the driver of `Usart2` does not make, so the invariants above hold
under it. This is what `ProgramAssumption` is for: the driver's alphabets contain
the program's bytes, clears and CON value, and may contain more. Four theorems
carry the invariants: with polls that outlast the scheduler (`Patient`, the run's),
`WaitsThatMiss` (`OnlyTransmitBitsMissed`), `EveryFailureIsATimeOut`
(`FailuresExplained`) and `OwnTir` (`TirIsOwn`); without that assumption,
`TroubleStartsWithATimeOut` (`FirstFailureIsATimeOut`): up to the first wait that times
out nothing is in flight when a test begins, so the invariant of the other three
holds until then. The program is one fixed text; what the theorems add to TLC is every
alphabet, bound on the writes and size of the counters, and *the reason* for each. They
also assume `NoWrap`: the program sends nine bytes, the counters have 32 bits.

What `Usart2_proofs` and `Usart2Link_proofs` assume of a driver is proved of this one.
`KeepsR` is about the alphabets; the program needs only that its own accesses leave
R set and send nothing before it (`HoldsR`, from `ConInv`). `~LateBus` is about how
far an access runs ahead of the kernel; the program may run ahead as it likes,
since no pulse of a USART is high when it writes CON or TBUF there (`StartInv`). The
step of `TxInv` is therefore stated for one access (`StepTx`), and the runs leave
`EarlyTbuf` and `LateBus` TRUE.

`FdInvariant` is the inductive invariant, `IInv` with `DeviceInv`: `StartInv` and the
`TypeInv`, `RxInv`, `TxInv`, `FlowInv` and `CountInv` of `Usart2`, the last of which
says that no event fires that was not counted. `Pos` is the place
in the script, recovered from what is left of it (`ProgType`), and the rest is
stated by position:

- `BusInv`: the access in progress is that of the instruction before `Pos`.
  `RestInv`, `LinkInv`, `TxOne`: where the scheduler has nothing to do, that nothing
  travels against the direction of the test, and that no byte is ever held in TBUF;
- `ConInv`: R, REN and OEN are set from `DoCon` on, also in the copy that the
  receiver writes back with OE;
- `TirAccount`: each byte sent has had its TIR or is in the transmitter. `SentByA`
  makes it a count by position, and so `OwnTir` follows: the wait of test 5 finds
  TIR absent (`NoTir`) until A has completed its eighth byte;
- `ReportInv`, `LoadInv`, `InjectInv`, `PulseInv`: a count that
  `update_status_from_core()` has not caught up with belongs to a pulse still high and
  a thread on its way to it (`Owed`), or to a thread that has set the bit and is
  copying the count (`Closing`); the copy it holds is still the count;
- `StageInv`: where the byte is, before each position. `Reported(u, bit)` says that
  the scheduler is about to set the bit (`Owed`), or that it stands in STATUS *and in
  every copy of STATUS that a thread has loaded and not yet stored* (`Sticky`).
  This is why RIR and EIR are safe: while they are reported, the bus thread of
  their receiver does not write STATUS back without them, and TBIR and TIR of the
  sender have no such protection;
- `VerdictInv`: `missed` and `failed` agree. It needs `StageInv`, for the byte that
  `DoRead` compares.

**Only model-checked.** All liveness (`EveryFrameEnds`, `HeldByteLeaves`,
`EveryByteArrives`, `EveryEventServed`, `WaveformEnds`, `SuiteEnds`,
`SuiteReachesExit`, `EveryByteRead`): no prover here handles fairness. Every
invariant and every action property of a passing run has a theorem.

## 5. Where code and comments disagree

Found by the violation runs and the refuted instances above:

- `UsartCore_freeze`: a frame is lost by clearing R across its end;
- `UsartCore_overrun`: OE outlives the byte in RBUF, since the wrapper reads RBUF
  with `clear_rbuf()`, which `Usart_regdefs.h:157` does not know of;
- `Usart2_w1c`, `Usart2_rbuf`: the races of the two threads in STATUS and in RBUF;
- `Usart2_rir`, `Usart2_tbir`: the races in the event counters, by which a received byte
  or a TBUF write is never reported; `Usart2_late`, `Usart2_wrap`: the same without a
  race, by an access ahead of the kernel and by a counter that wraps;
- `IsrFirmware_race`: what the STATUS race does to a test of `hello_isr.c`;
- `IsrFirmware_wait`: the gap between the test and the WFI of `wait_n()`.

Seen while modelling, expressed in the modules as the code has it, and not
given a run of their own:

- `Usart.h:22` says a pulse lasts two clock periods; `assertIrq()` ends it in the
  next delta cycle (`Usart.cc:546`).
- `Usart_regdefs.h:127` says a TBUF write to an idle shift register transfers at
  once; written before R it stays, and setting R later does not start it.
- `Usart_regdefs.h:113` says CON bits 11..9 are read-only; `CON_RW_MASK` has bit
  11, so a write can set PE.
- `Usart_regdefs.h:164` shifts the received byte in mode 1; `rx_inject()` does not.
- `usart2.h:20` says TBIR means TBUF went to the shift register; it is raised
  for every TBUF write, also one that is held or ignored.
- `usart2.h:58` says a STATUS read updates STATUS; lines 354-358 only copy it.
- A TBUF write between the two steps of `txDoneMethod()` can load one byte twice,
  which later gives two TIRs (`TbufTest` and `TxdTest` both pass).
- Setting OE rewrites the whole of `m_con` (`OeStore`), undoing a CON write that
  comes between its load and its store.
- `hello_fullduplex.c:114` says that TBIR fires inside the TBUF write, and tests 1,
  2 and 5 wait for TBIR or TIR of the sender. `m_status |=` runs on both threads
  (`usart2.h:302` and `tir_auto_method`), so the later store can take the other's
  bit back: in `FullDuplex` these three waits, and no others, may time out
  (`OnlyTransmitBitsMissed`).
- `usart2.h:434` speaks of a sleep of 500 µs after a TBUF write; it is 2 ms.
- `usart2.h:546` says the waveform chains the next queued byte; if R was cleared,
  `txd_try_start()` drops it and the bytes behind it wait for the next TBUF write.

## 6. What is left out, and why

- Two handlers of the core may interleave; `UsartCore` takes them as atomic and
  `Usart2` splits them, but only for the flags it keeps (REN, OEN, R, OE, mode 1).
- Memory is sequentially consistent. The TBUF hand-off is a store followed by a
  load of another member on both sides, so weaker memory could break `TxHandOff`.
- Races inside `sc_event` and `sc_signal`, notified from the vCPU thread, are
  not modelled: a notification is a plain insertion into the kernel's set.
- `irq` is an external signal socket, taken to hand a write on at once. If it
  updated only at the end of the delta cycle like an `sc_signal`, a back-to-back
  low and high would make no edge and `NoStrandedStatus` would not hold.
- `rst` is never driven by the wrapper; `UsartCore` models the pin. `transferRSR`
  has no caller. `txd` and `rxd` are read by no process, so loopback (CON.LB)
  delivers nothing. FDR is stored and never used.
- `TxFifo` compares the seven bits every frame carries; how a mode truncates the
  rest is in `UsartRegs`.
- `IsrFirmware` has no event counters: an update reports its event unless `raced` has
  become TRUE. `Usart2Events` has the counters. One vCPU. The UART prints and the GIC
  set-up are left out.
- `SimpleUsart` takes push and pop of the `std::queue` as atomic: what a torn
  queue holds is undefined. `irq->write` at `usart.h:207` assumes a bound socket.
- The SerialBridge's two hops are folded into one FIFO per direction; its locks are
  inside the sockets of QBOX.
- The core's registers other than CON's four flags, and modes other than 1, are
  in `UsartCore` and not in `Usart2`.
- `FullDuplex` leaves out the console's own transmitter: nothing is read from it.
- Of VCD tracing, the pulses drawn for STATUS events and `irq`
  (`m_pending_trace_irqs`, the expire methods): no code reads them. The line rxd
  is LOW exactly while `rxd_busy`, txd exactly while `txd_busy`.
- The platform and its configuration instantiate and wire the modules; what
  matters of them is `Peer`, `IrqBound` and `Traced`. The demonstration firmware
  (`hello_usart.c`, `hello_usart2.c`) prints and stops; what it does to the device,
  a row of TBUF writes with R set, is within `Usart2_link` and `Usart2_handoff`.

## 7. Plan

The order was: the core and its proofs; the wrapper on two threads; its
composition with the GIC and the handler; the interrupt firmware; the simple
USART; the polling firmware; the proofs about the simple USART, the wrapper and
the system; the waveform of txd; the proofs about both firmware programs. All of
it is done. What could follow:

1. `IsrFirmware` over `Usart2System`: its devices as a refinement of the USARTs, so
   that `raced` is stated of the event counters themselves, and `FailuresNeedARace` of
   the real USARTs.
2. The trace pulses, on top of `Usart2Traced`. With `irq` wired and two TBUF
   writes they multiply the states by about thirty, so they need a coarser
   `update_status_from_core()` or an instance with one write.
3. Parity and the CON mask against bit-level reference definitions, in a module
   for TLC only.
4. `Usart2` with weaker memory: a store buffer for each thread, to see what the
   TBUF hand-off needs of the host.
