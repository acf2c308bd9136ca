# Specifications of the board agent, the drivers and the emulated devices

This directory holds TLA+ modules for the programs of the repository: the Go agent that
runs on the board (`elac-board`), the Linux drivers of the i.MX6ULL board
(`platform/NXP-IMX6ULL/mod_driver`), and the devices that the patched QEMU emulates for
them (`platform/NXP-IMX6ULL/qemu-11.0.0-patch`). TLC checks the modules on small
instances; TLAPS proves the most important properties for every instance.
`PROJECT.json` ties every definition to the lines it models, lists what each run checks,
the hazards of the code, and the components that are not modelled.

In what follows `mod_driver/` and `qemu/` abbreviate the two directories above.

## 1. Inventory

### The agent and its server

| component | state | operations | talks to |
|---|---|---|---|
| `elac-board/cmd/main.go`, `internal/app` | the App of this connection, its `done` channel, the signal channel | connect, start the listener, wait for a signal or the end of the listener, redial, stop | the transport; the kernel's signals |
| `internal/transport/websocket.go` | `conn` (no lock), `mu`, `done`, the callback | Connect, Listen (a goroutine), send, Reconnect, Close | main and the listener share the struct; the server over TCP |
| `internal/protocol` | none | requests, responses | |
| `internal/collector` | the registry of collectors | load a JSON file, render and run its shell steps, analyse | called by the listener goroutine |
| `tests/server.py`, `elac-server` | sessions, prompts | send requests, check responses | the agent; a language model |

Hard: the listener ends on its own while main decides whether to redial; a signal can come
at any point of a redial; the connection field is overwritten while a goroutine may use it;
the library allows one reader and one writer. Correct means: one user of the connection at a
time in each direction, every request answered once and in order on its own link, and a
process that always ends when it is told to.

### The drivers

About forty drivers, 27 000 lines, some written for this project (01 to 11, 13, 17.pwm, 18,
19, 21, 22), some vendor drivers kept as copies (12.serial, 14.touch_key/goodix_ts,
15.can_net, 16.thermal/kernel, 20.csi). Their parts, from the point of view of a checker:

| group | state | actors | hard part |
|---|---|---|---|
| `06.key` (three variants) | gate `protect`, `status`, timer, wait queue | interrupt thread, timer, readers, probe, remove | a gate without a lock; read in three steps; the order of probe and remove |
| `13.block_dev` (blk-mq and bio) | one memory, one shared cursor, a spinlock | submitters | the cursor between lock and unlock; an error path that ends a request twice |
| `10.rng/hw_rngc` | `err_reg`, mask bits, a completion | probe or init, the interrupt handler, the hardware | waits with a timeout that race a late handler |
| `09.rtc` (regmap and bus) | the chip's registers | rtc core, interrupt thread | one transfer of several bytes on a clock that ticks; a read-modify-write of CONTROL2 |
| `07.adc`, `08.wire` | a completion, two registers, a bit-banged line | readers, interrupt | reads that give up, registers written without the lock, two readers at once |
| probe and remove of all of them | what is taken so far | driver core, devres, callbacks already live | goto ladders, managed next to unmanaged resources, the order of both |
| `12.serial` | the tty's ring, FIFO, DMA, the state of an RS-485 line | tty, interrupt, DMA callback, two timers | every function relies on an interrupt that another one leaves enabled |
| `15.can_net` | mailboxes, the echo slot, the error state | network stack, handler, restart work, power management | one transmit mailbox handed over by stopping and waking a queue; states the chip does not announce |
| `20.csi` | three lists of buffers, two address registers | user, controller, handler | the controller goes on while the handler changes addresses |
| `17.pwm/kernel` | the fan's speed, mode, regulator and cooling state | hwmon, thermal core, suspend, unbind | a cached state that a failure leaves wrong |
| `11.nvmem`, `17.pwm`, `18.wdt`, `19.drm`, `21`, `22`, `x1` to `x4` | little | one caller | boundaries of offsets |

### The emulated devices

`hw/sensor/pcf8563.c`, `ap3216.c`, `icm20608.c`, `gt9147.c`, `hw/display/ssd1306.c`: register
files behind I2C or SPI, called a byte at a time under QEMU's big lock, with timers of the
virtual clock and resets in between; `hw/arm` wires them, `monitor` prints registers.

### Interactions

The drivers meet the rest of the system through callbacks (file operations, interrupts,
timers, block requests, rtc and hwrng operations), and the kernel's guarantees about those
callbacks are what the models take from outside `src/`: they are marked external in the map.
The RTC driver and the emulated PCF8563 are both in the repository; they are composed.

## 2. Modules

| module | models | lines of the code |
|---|---|---|
| `Agent` | main, App, WebSocketClient, the protocol; server and network as environment | `elac-board/cmd`, `internal/{app,transport,protocol}` |
| `KeyDriver` | the key driver from probe to devres | `mod_driver/06.key/key_rwio` |
| `DiskSpec` | abstract: what a disk promises to those who submit requests | |
| `RamDiskGeometry`, `RamDiskQueue`, `RamDiskBio` | the two RAM disks, each an implementation of `DiskSpec` | `mod_driver/13.block_dev` |
| `Rngc` | self test, init, cleanup and interrupt of the random number generator | `mod_driver/10.rng/hw_rngc` |
| `Pcf8563` | the emulated clock: registers, pointer, conversions, timers, reset | `qemu/hw/sensor/pcf8563.c` |
| `RtcTime` | the RTC drivers' `get_time` and `set_time` over `Pcf8563`, byte by byte | `mod_driver/09.rtc` |
| `FlexCan` | the CAN driver: open to close, transmission, mailboxes, error states, restart, suspend | `mod_driver/15.can_net/flexcan` |
| `ImxUart` | the transmit side of the serial driver: interrupt, DMA, RS-485, flow control, shutdown, suspend | `mod_driver/12.serial/imx.c` |
| `CsiCapture` | the streaming of the camera driver | `mod_driver/20.csi/mx6s_capture.c` |
| `AdcConversion` | conversions, buffer, settings and suspends of the ADC driver | `mod_driver/07.adc` |
| `PwmFan` | the fan: speed, mode, regulator, cooling state | `mod_driver/17.pwm/kernel/pwm-fan.c` |
| `ProbeLadder` | what any driver's probe, ladders, remove and devres do, for a table of drivers | the driver core, external |
| `DriverSteps`, `CharDrivers`, `SubsystemDrivers` | the tables: 40 drivers, step by step | probe and remove of `mod_driver/01` to `x4` |
| `SessionDrivers` | a table of 18 pairs of functions of bound drivers: open and close, suspend and resume, clocks on and off | `12.serial`, `14.touch_key`, `15.can_net`, `16.thermal`, `17.pwm`, `20.csi` |
| `MC...` | constants for TLC | |
| `Agent_proofs`, `CsiCapture_proofs`, `PwmFan_proofs`, `ProbeLadder_proofs`, `RtcTime_proofs` | theorems about the module they are named for | |
| `RamDisks_proofs` | theorems about the two disks | |
| `Waits_proofs` | theorems about `KeyDriver`, `Rngc` and `AdcConversion` | |
| `Lines_proofs` | theorems about `ImxUart` and `FlexCan` | |

Modules that are proved about together are extended by one proof module, so that no two of
them may define the same name: there the specification has a name of its own (`KeySpec`,
`RngcSpec`, `CanSpec`, `FanSpec`, `CanInit`, `CanTypeOK`), and so have some actions (`Begins` and
`Goes` for a call that starts, `ReopenFails` of `ImxUart`). `MCWaits` and `MCFailures` hold two
systems each that share nothing: a behaviour is one of one of them.

**Agent.** Links and listeners are numbered by generation (there are at most two: main
redials once in its life, up to `MaxRetries` dials). `main`, `listener[g]` are program
counters with one value per point where another goroutine can interfere; `mu`, `conn`,
`wsDone` and `appDone` are the fields and channels of the Go structs. A second close of
`wsDone` panics, as in Go. Requests are abstracted to their kind (what `handleMessage`
distinguishes), responses keep id, session and status; the response to a collect that fails,
or to a message that cannot be parsed, has the id "error".

**KeyDriver.** `stage` runs through probe, remove and devres; interrupts are possible from
`request_threaded_irq` on, opens from `device_create` on, and both go on as long as the code
lets them, not only while the driver is bound. Using the timer or wait queue before it is
set up, or the chip after it is freed, sets `fault` and ends the behaviour there: what such
a use does is undefined, and the invariants speak of what happens before. The ways to get
there are hazards of the list.

**RamDiskQueue, RamDiskBio.** `cursor` is the one global pointer into the memory, `lock` the
spinlock; a request copies one segment per step. The blk-mq variant is seen from outside
through `before`, the memory at the last acquisition of the lock, so that a whole request
is one step of `DiskSpec` (`Atomic` is TRUE); the bio variant drops the lock between
segments and implements `DiskSpec` with `Atomic` FALSE only. They share nothing but the
module of their geometry; `MCRamDisks` runs either.

**Rngc.** Mask bits, hardware, handler and waiting thread are separate; a wait may time out
at any time while the hardware works or the handler runs, and late handlers run on. The
handler completes only when the status it has read says that an operation is done, and that
bit stays set. Operations are numbered for an observer: `served` is the one whose error
register the handler saved last, `stray` counts the completions that came after their wait
had been given up. Nothing resets `rng_op_done`, so each of these ends a later wait at once.

**Pcf8563, RtcTime.** Registers are bytes in BCD and times are real dates with a proleptic
Gregorian calendar (`localtime` and `mktime` in UTC; a host with daylight saving time is
outside the model, and so is one set to a time before 2000). A time stamp is a day and a
second of that day, so that TLC's integers do not overflow. The timer of a reset stays pending
when the next reset makes another, and its callback arms the newest, as `timer_cb` does.
Timers fire when they are due; a host too slow to run them in time is not modelled. The rtc
core lets no time through that is not of 2000 to 2099 (`range_min`, `range_max`,
`kernel_regmap_rtc.c:414`), and that matters: from a host at 1999-12-31 23:59:58 the century
may be carried between the bytes of month and year, and `get_time` returns 1900.

**FlexCan.** `hw` and `rx` are the controller (transmit mailbox, interrupt and error bits;
receive mailboxes with the lock and the serial buffer behind them), `net` the stack with
`start_xmit` and the echo slot, `irq` the handler in the steps in which it reads and
acknowledges registers, `work` the restart work, `ctl` where open, close, suspend or resume
has got to. `work` may be queued again while it runs, as the workqueue allows, by a bus off
that the handler read before the chip was reset. The restart is automatic: `restart_ms`, which
the user sets, is taken not to be 0. The bus sends, receives and raises its error counters
between any two steps. Frames are numbers; `hist` keeps which were sent, echoed and received,
and the four situations `caught`, `torn`, `disarmed` and `failed` of the table below.

**ImxUart.** Everything in the driver runs under `port.lock`, so that each handler, timer and
callback is one step on the record `u`, which holds the fields of `struct imx_port`, the
registers, the ring and the FIFO. A startup that fails in a first open changes nothing; one that
fails in a resume leaves the port closed (`ReopenFails`). What the noirq handlers save and
restore (2520 to 2614) are the registers of a port that is shut down by then; it is left out. The
functions that handlers share (`stop_tx`, `start_tx`,
`dma_tx`) are operators from one `u` to the next.

**CsiCapture.** The three lists of the driver, the two addresses and what the controller
writes at present. The handler reads and clears the status in one step and acts in another; a
frame that ends in between sets `overtaken`. Whether an overflow resets the controller depends
on the chip (`RxFifoRst`, from `rx_fifo_rst` of `struct mx6s_csi_soc`, false for the i.MX6SL):
the run takes the chip of the board, the theorems either.

**AdcConversion.** CFG and GC are records, the converter holds a channel and a result, and a
sample is named by the channel it was taken from. Calls that take `mlock` wait for it; the
sampling frequency reads both registers and writes them back in two steps without it, and the
mode reads and writes CFG in two steps, twice. A resume may fail at the regulator or the
clock; the device then stays off. A write of CFG is taken not to abort a conversion, and a
write of HC0 to clear COCO: that is what the code relies on, and the block itself is not in
the repository.

**PwmFan.** The record `fan` holds the driver's context and what it did to pwm device and
regulator; `bad` names the call that fails, if any. What runs under the mutex is one step,
the cooling state is read before it and stored after it. Duty cycles are named by the pwm
value they come from. Shutdown and unbind run `pwm_fan_cleanup` without the lock, beside calls
that have stored their speed and not yet their state; its `power_off` is one step.

**ProbeLadder.** A driver is a record: the steps of probe with what each takes and what its
error path gives back, the order of remove, and what each interface (device node, interrupt,
registration) needs once it can be called. The behaviour is generic: any step that can fail
may fail, then the ladder, remove and devres run. What a table abstracts: the values that
are passed, and everything between two acquisitions that neither takes nor releases. In
`SessionDrivers` the first of a pair of functions stands for probe and the second for
remove, and a state that must be undone (an interrupt that is off) is a resource as well.

### What "mishaps" are

`ImxUart`, `AdcConversion` and `PwmFan` have a variable `mishaps`, and `FlexCan`, `CsiCapture`
and `KeyDriver` flags of the same kind. They record, by name, the situations in which the code
is known to go wrong: the model goes on and shows what the code does, and a property says
for itself which of them it excludes. So each exception is visible in the formula, and it is
as narrow as the model checker allowed.

| module | mishap | what has happened (source line) |
|---|---|---|
| `ImxUart` | dma | a mapping or a descriptor failed; the bytes wait for the next write (663) |
| | xchar | a flow control character by DMA on RS-485: nothing enables the transmission complete interrupt that gives the line back (758), although the comment at 449 counts on it |
| | late | a flush ended the transfer while its callback waited for the lock (1626) |
| | flush | a flush during the delay before sending leaves the line taken |
| | termios, held | `set_termios` puts RTS back while the line is taken; a resume takes the line although the tty is stopped |
| | cut | a shutdown came in the middle of a transmission: of a transfer (1559), of an RS-485 line still taken, or of a flow control character still waiting, which survives it (also when the startup of a resume fails) |
| `AdcConversion` | abandoned | a read gave up while its conversion ran: the next read is completed by it (540) |
| | lost | CFG or GC changed between the read and the write back of a frequency (608) |
| | mode, resume | either cleared ADCON while the buffer was enabled (197) |
| `PwmFan` | on, off | the pwm failed in `power_on` or `power_off`; the cached state is wrong (187) |
| | hard | a speed was set while hard disabled: reported as set, and it is not |
| | kept | a hard disabling failed (258): cooling state 0 is stored, and the fan still turns |
| | resume | a resume failed and the fan stays off |
| | race | the cooling state was written by two callers (404) |
| `FlexCan` | caught | a frame, or a restart that has begun, in hand when a suspend or resume resets the chip (2269); such a restart wakes the queue (1812) while the next frame is in flight, and so does a restart that is queued again while it runs, by a bus off read before the chip was reset (903) |
| | torn | a restart resets the chip while the handler is between the read of a mailbox and the clearing of its flag: it then clears the flag of a new frame (1028) |
| | disarmed | `chip_interrupts_enable` (1399), run by a restart or a resume after the handler has seen "warning", writes `reg_ctrl_default` and switches the bus error interrupt off again; "passive" then hides |
| | failed | no memory for an error frame (896), the chip did not acknowledge, or the pins could not be set for a suspend (2248) |
| `CsiCapture` | overtaken | a frame ended between the read of the status and the change of the address (1096) |

`torn` and `disarmed` of `FlexCan`, and the restart in `caught`, were found by proofs that
failed; TLC confirmed each of them, and the bounds of the run were widened until it met them
too.

One exception is no mishap but part of a formula: in `Idle` of `ImxUart` a flow control character
that a stop overtook waits until transmission starts again.

One more deviation was met and has no run: `pwm_fan_cleanup` says "Switch off everything"
(`pwm-fan.c:470`), but `power_off` returns at once when the fan is stopped, so a regulator
(modes 1 and 2) or pwm (mode 2) that is kept on for a stopped fan stays on.

## 3. Runs

| run | states | shows |
|---|---|---|
| `agent` | 64 587 | two links, two requests each, links lost at any moment, Ctrl+C at any moment: one reader, one writer, answers in order on the right link; Ctrl+C ends the process, the end of a link is acted upon, every request on a link that stays up is answered |
| `agent_ids` | some 100 | violated: the response to a collect that fails does not have the id of its request |
| `key` | 988 900 | three edges, one blocking and one non-blocking reader, all interleavings with probe and remove: the gate excludes, the value follows the line, no wake-up is lost, changes are delivered once and in order, the gate reopens |
| `disks` | 42 628 | two submitters, every request on two sectors, on either disk: requests (blk-mq) and segments (bio) are atomic, as refinements of `DiskSpec`, and each ends |
| `waits` | 386 632 | the generator, five operations: the verdict read is the final one, every wait ends; the converter, four calls: samples are of the channel asked for, the registers are those of the settings, the buffer keeps filling |
| `rngc_repeat` | some 600 | violated: the retry after a statistical error waits for an interrupt that the handler has masked |
| `adc_edges` | some 100 | violated: a divider above 16 and a sampling time of 25 cycles are not what is programmed |
| `rtc` | 845 279 | two calls of get or set, six half seconds after a reset, one more reset and a failed transfer anywhere, around the ends of 2023, of February 2024 and of 2099: set and get undo each other, only a carry mixes two times, a reset gains a second at most |
| `failures` | 160 815 | all 40 drivers and 18 sessions, each failing at every step that can fail: nothing leaks, is released twice, fails unnoticed or is reachable without what it uses, but for the known flaws; and the fan: it turns at the speed that is remembered, and the cooling state is that of this speed, after failures too |
| `can` | 980 408 | echoes belong to the frames sent, received frames go up in order or are counted, the error state cannot hide, the transmit queue is woken again |
| `uart` | 967 503 | bytes leave once and in order, RS-485 holds the line while they do, an open port becomes idle |
| `csi` | 356 314 | the controller writes into no buffer of the user, buffers given back hold a whole frame, and each comes back |

The bounds. `agent`: two links suffice because the code never dials a third; two requests show
order and mixing. `key`: three edges are one more than the handler can have in flight (one
latched, one being handled), two readers are what a shared status needs. `disks`: two
submitters and two sectors give one boundary inside a request and every overlap; of a read the
value means nothing and one is enough. `waits`: five operations hold a self test, a failed
seed, its retry and another init. `rtc`: six half seconds hold three ticks, and a second reset
comes while the timer of the first is pending. `can`: the environment has one of seven
budgets: three frames through a bus off and its restart (four errors climb all levels); three
across a suspend; two with a failure of each kind; two with three calls of open, close and
suspend; four received frames, one more than two mailboxes and the serial buffer hold; two
received while a bus off resets the chip, with a fifth error before its interrupts are on
again; and three frames with one received about the bus off, whose interrupt queues the
restart again. `uart`: three bytes, one more than the FIFO and as many as the ring, on eight
configurations, with one kind of disturbance at a time, or two calls of close and suspend, one
of which may end in a startup that fails; and one byte with one of each kind of disturbance at
once. `csi`: three buffers, one more than the two registers; one skipped frame stands for
three. The converter in `waits`: four calls by two processes hold a read that gives up, and a
second read or a buffer beside a frequency. The fan in `failures`: four writes and two
failures hold a speed, a mode, its change back and a speed, with a failure and a failure to
undo it; the drivers' tables need no bound. `adc_edges`: normal mode has a limit that needs
the divider 32 and a sampling time that needs 25 cycles. Deadlock is not checked: the budgets
end, and agent, probe and requests end by themselves.

The finding of `agent_ids`: `NewErrorResponse` gives every error response the id "error"
(`protocol.go:54`), and `validate_response` of the repository's test server compares the id of a
response with that of its request (`tests/server.py:216`). A server that has several requests
under way on one link can tell by the order alone which of them failed; `InOrderAnswers` says
that it can. An answer to a message that cannot be parsed has no session either.

The finding of `adc_edges`: `calculate_rates` makes the divider a power of two without a bound
(`kernel_iio_adc.c:98`), and the switch of `sample_set` at 269 knows none above 16 and leaves
the bits at 0, the divider 1; the converter is then clocked far above the limit that the
comment at 96 speaks of. And the case of 25 cycles (320) sets the bits of 21. With the clock
of the board's device tree and the default sampling time neither is reached, so `waits` is not
disturbed by them.

The finding of `rngc_repeat`: `imx_rngc_init` unmasks once, before its loop
(`imx-rng.c:182`), while the handler masks at every interrupt (164); the retry after a
statistical error waits for an interrupt that cannot come. The comment at line 213 ("keep
the interrupt unmasked") is of the same kind: the handler has masked by then.

### What the drivers are known to do wrong

The tables end with the flaws of probe, remove and sessions that `failures` found, by driver
and resource; the invariants hold but for these, and each of the 70 is reached by a behaviour.
They are of four kinds.

- *Leaks* (`...Leaks`): `imx_thermal` keeps cooling device, policy or zone on three error
  paths, `thermal_sensor` its nodes and cooling devices, `mx6s_csi` an async subdevice,
  `pwm_imx27` and `pwm_provider` the clock of a PWM that was running at probe. Of the
  sessions: the runtime reference of `imx_get_temp` and `imx_set_trip_temp`, the open count
  of the camera, the node of `flexcan`'s stop mode, what a suspend of UART, thermal zone or
  goodix has done before it fails, the interrupt pin and the held processors of a goodix
  firmware upload, and the clocks of `imx_uart_poll_init`.
- *Double releases* (`...Doubles`): the nvmem cell of `nvmem_ref`, the disk of
  `ram_disk_queue` when its allocation failed, zone and node of `thermal_sensor`, power and
  stream of a camera sensor that could not be switched on.
- *Failures that are not noticed* (`...Missing`): `devm_gpiod_get` compared with NULL in
  `iio_hx711` and `wdt`, `blk_mq_alloc_disk` in `ram_disk_queue`, an unchecked regmap in
  `regmap_spi`, the sensor calls of the camera, and others.
- *Interfaces that are live without what they use* (`...Bare`): interrupts requested before
  the timer, completion or input device of their handler (`key_async`, `key_input`,
  `iio_adc`, the two small goodix drivers), `hwmon` outliving the levels in both fan
  drivers, a notifier unregistered after its list is freed in `mx6s_csi`.

## 4. Fairness

`agent` assumes weak fairness of main and of each listener: Go schedules runnable goroutines,
and reads, writes and dials end (with an error at worst); nothing is assumed of server,
network or user. A write without a deadline that blocks for ever in the kernel is outside the
model. `key` assumes that the interrupt thread and a pending timer run; nothing of the
readers. `disks` assumes that a handler with work runs and that the spinlock is fair (the
ticket or queued locks of the kernel), hence strong fairness for its acquisition. `waits`
assumes, of the generator, that the thread runs and that `wait_for_completion_timeout`
returns; the hardware may stop; and, of the converter, conversions that end, interrupts, and
calls that run. `can` assumes that a `start_xmit` under way, the handler and a restart that is
due go on, and that the bus takes a frame or raises the error counters, one of which a CAN
controller does; nobody has to open, close, suspend or send. `uart` assumes that interrupts
are taken, timers fire, the wire and the DMA move, and a shutdown under way ends; the tty may
stop for good. `csi` assumes a sensor that sends frames and interrupts that are served. `rtc`
and `failures` have safety properties only.

## 5. Proofs

Every invariant that a run checks is also a theorem, for every value of the constants. Each
proof strengthens the properties to an inductive invariant and has one step per action.
Nothing but the named assumptions on the constants is assumed; `RtcTime`'s excludes times of
the host before 2000, for the reason given in section 2.

- `Agent_proofs`: the invariant adds that a listener of the second generation exists only
  after the first has closed its channels (`Generations`, `ChannelsClosedLast`), that who
  writes holds the mutex (`MutexHeldToWrite`), that answers are behind what was taken by
  exactly the response in hand (`AnswersInStep`), and that each is one the handler makes of
  the request in its place (`HandledInOrder`), hence of its session and, unless an error, with
  its id. From it: `TypeCorrect`, `SingleUser`, `AnswersInOrder`, `PanicCause` (the only panic
  is the end of a reconnected link) and `RedialOrder`, for any number of requests.
- `Waits_proofs`, the key: the invariant says why the gate is enough without a lock
  (`ClosedForATimer`: whoever armed the timer has closed the gate and only the timer opens
  it), that every published change has an edge of its own (`ChangesHaveEdges`), and what the
  sample tells of the line while edges go on. Theorems for any number of readers and edges;
  `StatusFresh` and `RemoveStopsTimer` are proved and not in a run.
- `Waits_proofs`, the generator: the argument is a count. Every operation that is started
  leads to one completion at most: it is being worked on, its interrupt is asserted, the
  handler is at it, or it is complete; their number is at most that of the waits, the present
  one and those given up (`Pending`). As long as no completion has come behind its wait (`stray`,
  which takes a timeout), one that is there is that of the operation waited for, and the handler
  that made it has finished and left the interrupt masked (`CompletedIsFinal`): a handler of a
  wait given up that runs beside the next operation does no harm until it completes. What comes
  after a stray completion is wrong in the code, and `FinalVerdict` says nothing of it but that
  there was a timeout. Nothing unmasks the interrupt while the driver does not use it
  (`UnusedIsMasked`).
- `Waits_proofs`, the converter: one call at a time holds `mlock`, and unless a read has been
  abandoned nothing is converted, complete or stored that this call, or the buffer, has not
  asked for (`SamplesAreOfTheirChannel`). The registers are those of the settings, or a call
  is about to write them; lemmas find the divider and the sampling time that the driver's
  loops settle on, for any clock and limit that do not make it divide by zero (`AdcAssumption`);
  they are within the specification if 25 cycles are long enough. `SettingsReachTheChip` excepts
  what the driver does not program as determined (a divider above 16, 25 cycles: `adc_edges`),
  what `lost` names, and a device that could not be resumed.
- `RamDisks_proofs`, blk-mq: the invariant relates cursor, remaining sectors and lock
  holder, and describes the memory half way through a copy (`HalfWay`). `Atomicity` is the
  refinement of `DiskSpec`: for any number of processes, sectors and values a request is one
  step. `NoDoubleEnd`: the path that ends a request twice is never taken.
- `RamDisks_proofs`, bio: a submitter is somewhere between the first sector and one past the
  last (`Progress`), which keeps the cursor inside the memory although the driver checks
  nothing. `SegmentAtomicity` is the refinement of `DiskSpec` with atomic segments.
- `RtcTime_proofs`: first the calendar (`localtime` and `mktime` undo each other) and the BCD
  conversions under the masks of each register. The registers always hold a
  century bit, a month and a day, so that whatever mixture of two times is read is a time
  since 2000; while a time is written, the bytes written so far are those of that time; while
  one is read, each byte is that of a time the clock has had, in the order in which it had
  them. `KeepsTheTimeSet` and `ReadsTheClock` follow. For `KeepsItsRate` the timers are
  counted: the second a clock may gain is that of a timer which a reset left pending.
- `CsiCapture_proofs`: the active list and the two registers agree (`HeadIsNext`), every
  entry of the discard list is in one place (`DiscardsKept`), and unless the handler has
  been overtaken the one status bit that is set says which buffer is written
  (`OtherIsWritten`). From it `DmaStaysInside`, `ListMatchesRegisters` and
  `DiscardListSuffices`, for any number of buffers and frames. `WholeFramesGivenBack` adds
  that every buffer is in one place (`EachInOnePlace`) and that what has ended, or is done,
  is filled (`EndedIsFilled`).
- `PwmFan_proofs`: what `ctx->enabled` says is so of pwm device and regulator (`FanOK`), a fan
  that is stopped while bound has speed 0 (`Agrees`), both outside the mishaps of the table
  above, and no call is under way while suspended or gone (`Frozen`); one lemma per function
  under the lock. `TurnsAsTold` follows for any speeds, levels and writers, and for failures
  of the regulator or of a duty cycle; the mishaps `on`, `off` and `resume` are excepted.
  `StateFollowsSpeed` rests on `Believes`: without a race the one caller at work is about to
  store the state of the speed that has just been set. It holds through pwm and regulator
  failures to set a speed, and excepts `race`, `hard`, `kept` and `resume`.
- `ProbeLadder_proofs`: four theorems about tables rather than about a state space.
  `EveryPathReturns`, `EveryPathKeeps`, `EveryReleaseHolds` and `EveryPathServes` are
  conditions that a reviewer can read off the steps, ladders and remove function of one
  driver; `LaddersSuffice`, `ProbesSuffice`, `ReleasesSuffice` and `OrderSuffices` show that
  they imply the four invariants for every table. `MCFailures` assumes the premises of the
  real tables, so TLC evaluates them there.
- `Lines_proofs`, the serial port: one lemma per function under `port.lock` and per
  invariant. A transfer belongs to a transmission, and its callback to a transfer or to one
  that has been ended (`DmaInv`); a port that is shut down has nothing enabled (`ClosedInv`);
  only in the state SEND is anything put into the FIFO, and outside OFF the line is taken
  (`LineHeld`). `OrderInv`: no interrupt fills the FIFO during a transfer (`Control`), so that
  FIFO, transfer and ring follow each other, and together with the wire they are what was
  written without what was dropped. Theorems `TypeCorrect`, `LineHeldWhileSending`
  (but for `late`, `termios` and `cut`) and `OrderKept` (but for `late` and `cut`), for
  any sizes, configurations and all other orders of events.
- `Lines_proofs`, the CAN driver: nothing is locked, so `CanInv` says what each actor may
  assume at each of its steps. `EchoInv`: the frame is in one place; the queue is awake only
  with nothing in flight and no restart on its way; a bus off is that of the frame in the
  mailbox until the restart. `StateInv`: a level of the chip that the driver does not know is
  one that some interrupt, enabled or already latched, will tell (`Known`, `Armed`). `RxInv`:
  every frame is in a mailbox, the buffer, the batch, up or counted (`Accounted`), and those
  that are about to go up are older than those behind them. Theorems `CanTypeCorrect`,
  `EchoesMatch`, `RxOrderKept`, `PassiveNeverHides`, for any mailboxes, frames and errors,
  each outside the situations of the table that its formula names: `caught` (echoes), `torn`
  (receiving), `disarmed`, `caught` and `failed` (the error state).

The induction theorems of the library cannot be used, for their parameter is an operator.
Where an induction over numbers is needed (a greatest element, a sorted batch), the proof
takes the least counterexample, which `WFMin` and `NatLessThanWellFounded` provide.

Failed proofs changed the model where it was wrong about the code, and the formulas where they
hid a case: the restart in `caught`, `torn` and `disarmed` of `FlexCan`, and the range of the
host's times in `RtcTime`.

Only model-checked: liveness everywhere (`InterruptStops`, `LinkEndNoticed`,
`RequestAnswered`, `GateReopens`, `RequestEnds`, the second half of `BioKeepsPromise`,
`WaitEnds`, `TransmitterReturns`, `BecomesIdle`, `BuffersComeBack`, `BufferFlows`), which the
prover does not handle under fairness.

## 6. Plan

The plan was: first the agent and the small drivers with concurrency (key, disks, generator,
clock), then probe and remove of all drivers, then the large vendor drivers one by one, then
proofs. All modules of section 2 are written and checked, and every invariant of the runs is
proved. What is left, for whoever goes on:

1. The receive side of the serial driver (the cyclic DMA buffer) and its console writer.
2. The alarm half of the RTC driver, with a model of the real chip's alarm: the
   read-modify-write of CONTROL2 against the interrupt thread.
3. Two readers of the hx711, with edges as steps.
4. Open files that outlive an unbind, in `ProbeLadder`.
5. Safety halves of the liveness properties: for each a theorem that whoever waits has
   somebody left to wake it (`NoLostWakeup` is that for the key), so that only the fairness
   is left to TLC.

## 7. Not modelled, and why

`internal/runtime` is a stub and `internal/utils` formats text; the collector is one
sequential call without state. `elac-server` is a sequential prompt. Device trees,
configurations, Makefiles, the logo and the scripts are data or run other programs. `hw/arm`
and `monitor` of the QEMU patch wire and print; the emulated sensors but the clock return
random data. The test programs of the drivers open a node, call it and print. Of the vendor
drivers bit timing, CAN FD, baud rates, video formats, ethtool and sysfs attributes are left
out: arithmetic and tables with one caller. Conversions of sensor values, pixel formats and
formatting of messages are abstracted everywhere but in the clock and the ADC's settings,
where a property is about them. `PROJECT.json` has the full list with a reason for each.
