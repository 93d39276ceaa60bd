# RESFET controller: specification, model checking and proofs

RESFET runs on a Raspberry Pi next to a rocket engine. It samples the engine's
sensors, logs the readings and streams them over UDP, and takes one-byte
commands over TCP that write the driver pins and start or stop a burn. This
directory holds TLA+ modules translated from its sources, TLC configurations
that check them on small instances, and TLAPS proofs for every value of the
constants.

All paths below are relative to the repository; `src/src` and `src/include` are
its C++ sources. Implementation lines are named in `PROJECT.json` under `map`.

    tlc -config MCIgnition.cfg MCIgnition      # check one configuration
    tlapm IgnitionProofs.tla                   # check one module of proofs

## 1. Inventory

The process has six threads once it runs: main (which serves commands), three
sensor threads, and the ignition monitor; plus, outside it, the operator's TCP
client, the UDP receiver and the hardware behind `bcm2835`.

| component | state it keeps | operations | talks to |
|---|---|---|---|
| ignition monitor `worker_visitor.cpp:93-156` | `mainOpen`, `initTime`, `timeElapsed`, its program counter | wait for a burn, light the igniter, open the valve after `preignite_ms`, end on timer, cutoff or stop, close both pins | reads and clears `ignitionOn`, reads `pressureShutoff`, writes pins, reads the clock |
| visitors `worker_visitor.cpp:158-246`, `luna_visitor.cpp`, `titan_visitor.cpp` | the configuration | `visitCommand` (12 driver commands, start, stop, four presets that only log), `doIgn` | write pins and both flags, on the main thread |
| shared flags `main.cpp:32-35` | `ignitionOn`, `pressureShutoff` (atomics) | load and store, never exchange | everybody |
| sensor threads `thread.cpp` | one ring, one logger per sensor; one packet buffer and one running average per thread | sleep, sample, average, push, drain | ADC bus, rings, loggers, UDP socket; the one that owns PT1 writes `pressureShutoff` |
| circular buffer `circular_buffer.cpp` | array, `head`, `tail`, `end` | `push_data_item`, `pop_data_item`, `get_data` | its one sensor thread |
| ADC bus `adc.cpp` | `adc_mutex`, chip selects, the sensor table | `read_item`, `add_adc_info` | three sensor threads; start-up |
| command server `Tcp.cpp`, `main.cpp:140-192` | listening and connected socket, `open`, `listening` | listen, accept, `recvByte`, `close`, the accept loop | TCP client, visitor |
| UDP output `Udp.cpp` | descriptor, `open`, destination | `enable`, `setDest`, `sendBuf`, `close` | sensor threads |
| configuration `config.cpp` | section -> key -> list of values | `readFrom`, `getString/Int/Double/Bool/Vector` | main, visitors |
| logger `logger.cpp` | file name, descriptor | constructor, `create_log_file`, `log`, `data` | everybody |
| time `time.cpp` | `start_time` | `set_start_time`, elapsed time in four units | monitor, loggers, sensor threads |
| start-up `main.cpp`, `init.cpp` | | configure SPI and pins, start threads, choose the engine | everybody |
| test library `libtest.cpp`, test programs, `struct_decoder.py` | counters | printing | nothing at run time |

**What is hard here.**

* Three threads meet on two atomic flags that are loaded and stored but never
  compared and swapped. The monitor polls them every 50 ms, so what happens
  between two polls can be missed, and what it stores can overwrite newer news.
* `STOP_IGNITION` and the end of a burn both write the same two pins; driver
  commands write them as well, at any time.
* The burn is timed by `CLOCK_REALTIME`, which may be stepped, with unsigned
  subtraction.
* A ring runs at its limit all the time: it is emptied only when it is full.
* A packet buffer is shared by a thread's sensors and written whole.
* Sends, log writes, file creation, `accept` and `close` may fail, each in another
  way, and the result of some is not looked at.

**What makes each component correct.**

* *Ignition*: a burn is bounded; it lets go of its pins however it ends; it ends
  when stopped or cut off; it opens the valve once, and not too early; a
  start is served.
* *Ring*: a bounded first-in first-out queue, inside its own array.
* *Sensor threads*: a log holds its own sensor's readings, in order, once each;
  each loss has one of the known reasons; failures of the network do not touch
  the log.
* *ADC bus*: no two converters selected at once, each sensor answered by its own
  converter, no thread waits for ever.
* *Start-up*: whatever ran before, the pins are outputs and down before the first
  command; start-up ends, if reading the configuration does.
* *Command server*: commands reach the visitor in order and once; every
  connection is closed; a client that hangs up, or whose session fails, does not
  stop the server, and none keeps a burn from ending.
* *UDP output*: no thread is handed a socket that is not ready.
* *Configuration*: `readFrom` terminates unless the stream fails on a line it
  skips; the map is what the file says, or empty;
  a getter reports the file's value.
* *Logger*: the file a name promises exists, unless the clock moved meanwhile.

`PROJECT.json` lists the components with their status, and the hazards line by
line with the properties that would catch them.

## 2. Modules

    Commands <- Ignition <- IgnitionInv <- MCIgnition        (TLC)
       |          |  |         ^--- IgnitionProofs           (TLAPS)
       |          |  +-- INSTANCE BurnCycle                  (abstract)
       |          v
       +<- CommandServer -> Controller <- MCController       (TLC)
       |                       ^--- ControllerProofs         (TLAPS, uses IgnitionProofs)
       |
       +-- INSTANCE in Startup -> AdcBus
                          ^--- StartupProofs                 (TLAPS)

    CircularBuffer <- CircularBufferProofs                   (TLAPS)
       +-- INSTANCE BoundedQueue                             (abstract)

    LogFiles, OutSocket <- Sampler <- SamplerProofs          (TLAPS)
    Config <- ConfigProofs                                   (TLAPS)

| module | models |
|---|---|
| `Commands` | pin numbers, command bytes, which pin a driver command writes for which engine, which pins are outputs |
| `Ignition` | monitor, command and pressure threads, the flags, the pins, the clock; the properties |
| `BurnCycle` | what a burn promises, without threads, flags or clocks |
| `IgnitionInv` | the inductive invariants and the refinement mapping to `BurnCycle` |
| `MCIgnition` | what the operator sends, for TLC |
| `IgnitionProofs` | theorems about `Ignition` |
| `CommandServer` | listening and connection socket, the kernel's side of a session, the clients, main's accept loop |
| `Controller` | `CommandServer` composed with `Ignition` |
| `MCController` | what clients send, for TLC |
| `ControllerProofs` | theorems about the server and the composition |
| `AdcBus` | the chip selects, `adc_mutex`, and three threads in `read_item` |
| `Startup` | main up to its loop beside them, the pins of either engine, end and restart of the process |
| `StartupProofs` | theorems about `Startup` |
| `BoundedQueue` | what a ring promises |
| `CircularBuffer` | the ring over its pointers and the memory behind it |
| `CircularBufferProofs` | theorems about `CircularBuffer` |
| `LogFiles` | names, directories and files of loggers, and the clock they are made from |
| `OutSocket` | the UDP socket |
| `Sampler` | one sensor thread, from the set-up of its socket and loggers to its rings (as queues), packet buffer, logs and sends |
| `SamplerProofs` | theorems about `Sampler` |
| `Config` | `readFrom` over lines, and the getters |
| `ConfigProofs` | theorems about `Config` |

### Ignition

One action per access to something shared. The monitor's program counter `mpc`
names the places between them:

| `mpc` | code | actions that leave it |
|---|---|---|
| `wait` | 105-108 | `PollIdle` (and sleep), `PollStart` |
| `begin` | 113-114 | `BeginBurn` |
| `ignite` | 117 | `LightIgniter` |
| `loop` | 120-126 | `TimerEnds`, `OpenMainValve`, `KeepMainValve` |
| `shutoff` | 129-132 | `CutoffEnds`, `NoCutoff` |
| `stopchk` | 135-142 | `StopEnds`, `GoOn` (and sleep) |
| `sample` | 143 | `SampleTime` |
| `closeMain`, `closeIgn` | 147, 148 | `CloseMainValve`, `CloseIgniter` |
| `clear` | 149-150 | `ClearIgnition` |

The command thread (`wpc`) takes a driver command in one step, a start in two
(`doIgn`'s two stores) and a stop in three (the flag and two pins). The pressure
thread writes `pressureShutoff` after every sample of PT1, either way: the
running average is arithmetic no property here depends on.

*Pins.* `pin` is the level driven on each output; a write to a pin that start-up
never made an output drives nothing. `MAIN_VALVE` is driver 1 for both engines,
so the monitor's burn works the Titan's main feed valve.

*Time* is counted in milliseconds. `nap` is what is left of a `sleep_for`,
`late` how long the monitor has been runnable without running, and `age` the true
time since `initTime`. The wall clock may be adjusted any number of times, so
each sample (`SampleTime`) is taken on a clock that stands `skew` from where it
would, an offset of its own between `MaxBack` back and `MaxFwd` forward. Unsigned
time wraps twice: `get_elapsed_time_ns` subtracts `start_time` in 64 bits before
the result is divided down to milliseconds, so a clock behind `start_time` reads
up to `Span`, 2^64 nanoseconds in milliseconds (`Reading`); and the monitor
subtracts `initTime`, in `Word`, 2^64 milliseconds (`Elapsed`). `began` is where the
clock stood at `initTime`, from `Clocks`: a burn that begins behind `start_time` sees
its time wrap when the clock passes it, and is over. The remainder that the division
drops, less than one millisecond on each bound, is not modelled.

*Undefined behaviour.* `mainOpen` is read in the first burn without having
been given a value: both values are initial states.

*History variables* (`lastCmd`, `byBurn`, `opened`, `firstBurn`, `stopFor`,
`cutoffFor`) are read by no guard of the program. `byBurn` holds the
pins whose level is the monitor's doing: it raised them and nobody has written
them since. `stopFor` and `cutoffFor` measure how long a reason to end the burn
has stood without interruption. `age` is reset where a burn has done its last pin
write, since nothing reads it again before the next burn.

### CircularBuffer

Pointers are offsets. The constructor allocates `num_items` items but puts `end`
behind `num_items + 1`, so that offset `num_items` is memory of somebody else:
`Foreign` writes it at any time, and `BoundedQueue` allows for that with an action
that changes one item (`Corrupt`) and nothing else. The refinement maps the queue
to `Contents`, the memory between the pointers; `queued`, a history variable with
the items pushed and not popped, tells which of them are still what was pushed.
`GetData` is the whole loop of `get_data`: the number of items it takes is fixed by
the buffer's size and the ring's contents (`Takes`).

### Sampler, LogFiles, OutSocket

First main prepares: it constructs its own logger (number 0), gives the socket
its destination and enables it, either of which ends the process when it fails,
and constructs the thread with a logger for each sensor (`pc` in `name`,
`create`, `dest`, `enable`). A logger reads the clock for its file's name
(`NameFile`) and again for the directory (`create_log_file`); the clock may move
before or between, forward or back, directories may be there from before, and the
disk may take no files at all. `made` is a history variable, the second each logger
saw a directory made for.

Then one round of the thread visits its sensors in order. A reading is named by
its sensor and round. A ring that refuses a reading is drained into the packet
buffer `b`, which keeps its old contents behind what `get_data` writes;
`LogPacket` hands all of `b` to `write`, if the sensor has a file. What `write` does
with it is not looked at: it may take all, a part or nothing (`Shortfalls`), and the
packet is sent in any case. `unwritten` is a history variable with the readings lost
there. The file is a sequence of items, and an item that is cut counts as not
written; that the cut leaves the bytes behind it out of step is layout, and left
out. `SendPacket` sends the packet or throws; `sent` is the one that last got out. The
code's branch that ends the thread is for a socket without a descriptor; it is not an
action, because `SocketReady` shows that no thread is ever handed one. The rings are
`BoundedQueue`s, which section 4 justifies.

### Config

A file is a sequence of lines, a line what the two scan formats make of it: a
header, a pair, something to skip, something that cannot be placed, or longer
than the line buffer (as a comment or not). One step is one round of
`readFrom`'s loop. `stream` says whether the stream has failed, by a line too long
(`long`) or by a read error (`read`: the path is a directory, or the device fails, at
any line). It is a variable of its own, since the code looks at the fail bit only
after it has decided to skip the line: what a failed read has stored of a line, if
it is nothing or begins a comment, is skipped (`ReadErrorSkipped`), and then no round
does anything (`SkipForEver`). Widths and conversions of
values are left out, so values are model values.

### AdcBus and Startup

`tpc` names the places of a thread in `read_item`: `select` (it has the mutex),
`transfer` (its converter is selected), `deselect`, `unlock`. A pin has a latch
(`level`) and shows it once it is an output; what the last process left stays.
`mpc` follows main through its start-up: configuration, `bcm2835_init` and
`initialize_spi`, the UDP socket, the three threads, the listening socket, the
visitor, and then `initialize_pins` one `fsel` and one write at a time, while the
threads are already reading. `initialize_spi` makes two chip selects the SPI
controller's own. `ReadSpins` is a `readFrom` that never returns, as `Config` shows it
may; only a kill ends it. In the command loop driver pins are written (`Drive`, for the
pins in `Written`) and accept may fail. The process may end at every point, by
itself (`Return`) or not (`Killed`), and is started again, for either engine: the
engine is read with `getBool`, which may give what was in an uninitialised
variable. `parked` and `clean` are history variables: the chip selects this
process has set HIGH, and whether the last selection found all of them so.

### CommandServer and Controller

`spc` follows main through `ListenSocket`, `listen`, `accept`, `recvByte` and
`close`. The sockets' own idea of their state (`listening`, `fd`, `open`) is kept
apart from the kernel's (`waiting`, `link`, `sent`, `got`, `fds`). A client
connects, sends and hangs up at any time; what it has sent before it hangs up is
still received. `open` says whether `recvByte` would throw `BadSocketException`; as
nothing catches that exception, the actions have it as a guard and `NeverBadSocket`
is the claim that it always holds.

`Controller` is the conjunction of the two: `Visit` gives a byte to `Ignition`'s
command thread, `Return` waits for it to be done, everything else leaves
`Ignition` alone. When main ends, all threads do, and the pins stay. `Killed` ends the
process from outside at any step, in the middle of a command too: nothing in the
program handles a signal. Its restart is in `Startup`, not here.

## 3. What the runs check

| run | configuration | shows |
|---|---|---|
| `ignition` | `MCIgnition.cfg` | all interleavings of the burn's threads: bounds, released pins, liveness, refinement of `BurnCycle` |
| `ring` | `MCRing.cfg` | pointers and counts, items inside the array are safe, refinement of `BoundedQueue` |
| `sampler` | `MCSampler.cfg` | contents and order of the logs, what is lost and why, missing files |
| `config` | `MCConfig.cfg` | what `readFrom` makes of every file of up to four lines |
| `startup` | `MCStartup.cfg` | the bus and the pins during start-up, over kills and restarts |
| `controller` | `MCController.cfg` | clients, server and burn together |

* `BurnBounded`: `age <= MaxBurn`, the timer plus one check, eight scheduling
  latencies (one per step on the way round) and the clock's step back.
* `NothingOutlivesBurn`: a monitor that is back to waiting has left no pin up.
* `StopEndsBurn`, `CutoffEndsBurn`: a stop or cutoff that *stands* ends the burn
  within one check interval and the latencies. (One that is withdrawn in
  between may be missed, see below.)
* `OpensAfterPreignite`: the valve is never opened early, except by what the clock
  was stepped forward.
* `TimerNotEarly`: nor does the timer end a burn early but by that, with two
  exceptions, both where unsigned time wraps: the clock was stepped back behind
  the burn's beginning (a burn younger than the step and a latency), or the burn
  began with the clock behind `start_time` and passed it (`Crossed`).
* `MainOpenTracksBurn`: from the second burn on, `mainOpen` is what it says.
* `BurnRefined`, `BurnRefinedLive`: every step of the threads is a step of
  `BurnCycle` or changes nothing it can see; in particular the valve is opened at
  most once in a burn, also when a driver command has closed it.
* `StartServed`: a start that the monitor is there to see is served or withdrawn.
* `CountsAgree`, `InsideIsSafe`, `IsQueue`: nothing lost, repeated or overwritten.
* `LogIsOrdered`, `Accounted`, `SentIsLogged`: although the packet buffer is shared
  and written whole, nothing stale is logged, which holds because a packet has
  room for exactly one full ring (260 = 16 * 16 + 4); one reading of every
  `num_items + 1`, the one that found the ring full, is nowhere, and every other is
  queued, in the packet, logged, or was lost by a missing file or a write that failed
  or fell short; what was sent is logged or among those.
* `SocketReady`, `LostOnlyAtTurn`: however the set-up fails, no thread runs without
  a usable socket; and on a disk that takes files a log file is missing only
  when its logger, reading the clock again, was shown another second, and no logger
  before it saw to a directory for the second in the file's name.
* `MapIsTheFile`, `GettersTell`, `ReadReturns`: the map against an independent
  reading of the file (`Declared`), and empty after whatever made `readFrom` give up;
  getters report the first value or all of them, where the key has one; reading ends
  unless a read fails or a comment is too long (see below).
* `OneSelected`, `OwnAnswer`: of the converters main has parked at most one is ever
  selected, although main moves the chip selects under the threads and without the
  mutex, and a read that begins after that is answered by its own converter for
  all of its transfer. Reads that begin earlier may be answered by several
  converters at once, or by none, since a chip select that is not yet an output
  or not yet HIGH selects whatever its latch says.
* `PinsReady`, `StartupEnds`, `BusReleased`: before the first command, the pins the
  engine uses are outputs and LOW, whatever an earlier process of either engine
  left driven (a pin only the other engine uses is not among them); start-up ends
  once the configuration is read; a thread gives the mutex back.
* `NeverBadSocket`, `NoLeak`, `InOrder`: the sockets' own state is right whichever
  way the last session ended, no descriptor is lost, and the visitor gets each
  byte once, in order, up to the byte `'0'`.
* `StopKept`: a stop that a client has sent, ahead of the end of its session, stays on
  its way or is carried out at every step, but for a failing call of main's and the
  end of the process.
* `SessionRunsOut`: once a client has gone, every step of main and of the command it
  is in brings the end of the session nearer, and no other step puts it off.
* `NextServed`, `StopGetsThrough`, `BurnEndsAlone`: a waiting client is served when
  the one before has gone, a stop that was sent is carried out unless its session
  fails, and a burn whose client has gone ends by itself, unless the process ends. A
  client that is lost without a sign keeps its link up, and main waits for it in
  `recvByte`: the sources set no timeout.

**Bounds.** Times are one or two ticks instead of thousands: what matters is the
order of the thresholds (`preignite`, cutoff delay, one and more checks,
`hotflow`) and that each can be met early, late, and by an adjusted clock.
`hotflow_ms = 5` leaves room for several checks per burn, with the clock stepped
back 2 and forward 1; `Span = 24` and `Word = 48` are beyond every timer, as they
are in the code, so that a step back before `initTime` or `start_time` wraps, and burns
begin at -2, which passes `start_time`, and at 1 (`SomeClocks`). The controller's run
has no steps of the clock and begins its burns at 0, with `Word = 16` and `Span = 8`. Both
ignition commands are always in the operator's hands; `MCIgnition.cfg` adds the two driver
commands that reach behind the monitor's back. The number of burns, commands and samples
is not bounded. The ring is checked with 3 items and two values, over packet sizes that
fit none, one, two and all items; the sampler with two sensors, rings of 3 and a packet of
3, `MaxRounds = 9`, more than two fillings, writes that take all, two or none of a
packet's items, and a clock that moves freely among three seconds while three loggers are
constructed (the model stops after the last round, so deadlock is not checked). Files have
up to four lines: two headers, or two pairs of one key under one header, and a line of any
other kind before, between or behind; a second file of up to one line follows, to find
what the first one left. Start-up has no bound: all its sets are the code's own, and
`Written` (drivers 3 and 6) are the pin only the Titan uses and one that both do. Clients
send up to two bytes a session, out of both ignition commands, a driver command that
closes the main valve under a burn, a byte that commands nothing and the end of a session,
and one waits while another is served; sessions are not bounded. Scheduling latency and
the clock's adjustments are left to the run `ignition` there.

**Fairness.** `WF(Monitor)`: the monitor is a thread the kernel schedules, and it
blocks on nothing but `sleep_for`. `WF(FinishCommand)`: a command once begun runs
to its end, it takes no lock. `WF(Tick)`: time passes. `WF(Serve)`: main takes what
has come in; `WF(Main)`: start-up waits for no lock. `WF(Reads(t))`: a thread that
has the mutex goes on; a thread that asks for it may wait for ever, since a
`std::mutex` is not fair. `WF(ReadLine)`: `readFrom` runs. None is given to `ReadSpins`,
the failing reads or a kill, nor are they ruled out. No fairness is assumed for
clients, the pressure thread, failures or the clock's adjustment. The safety
bounds assume that a runnable monitor runs within `MaxLate`; it is a parameter.

### Where the sources say otherwise

| run | what happens |
|---|---|
| `uninitialised_main_open` | `mainOpen` starts with garbage; when it is true the first burn never opens the valve |
| `stop_not_final` | after a stop is carried out the monitor may still light the igniter or open the valve, until its next look at `ignitionOn` |
| `opens_unlit` | a stop and a start within one sleep turn the igniter off but leave the burn running, and it opens the valve |
| `start_lost` | a start given while the last burn closes its pins is erased |
| `ring_array` | a push writes the item behind the array |
| `config_comment` | a comment longer than the line buffer keeps `readFrom` from returning |

Met while modelling, and not runs:

* A cutoff that is signalled and withdrawn between two looks of the monitor, or
  erased by `doIgn` (`worker_visitor.cpp:244`), does not end the burn.
* One reading in seventeen, the one that finds the ring full, is dropped
  (`thread.cpp:143-146`); `Accounted` says that it is never another.
* A malformed line: `config.cpp:91` says "No match found, line is malformed; skip
  it", and the message at `config.cpp:94-95` "line is skipped"; the code closes the file,
  clears the map and returns 1 (`Malformed`). `config.hpp:35-37` allows a header `[]` to
  return to the first section; no format matches it, so it rejects the file as well.
* A read error on a line that is then skipped keeps `readFrom` from returning, as the
  long comment does (`ReadErrorSkipped`); so does a path that is a directory.
* `write` in `Logger::data` (`logger.cpp:177`) may fail or fall short and nobody looks:
  the readings are sent and are not in the file.
* A burn begun while the clock is behind `start_time` ends when it passes it, with no
  step of the clock in between (`time.cpp:54`).
* Started for Luna after a Titan, the program leaves pin 3 as it is (`init.cpp:17-37`).
* `getBool` reports success and garbage for a missing key (`config.cpp:166-171`).
* When main returns after the threads have been started, its destructors free the
  rings and loggers they still use (`thread.cpp:72-75`), until the process is gone.

## 4. What is proved

For every value of the constants that satisfies the named assumptions
(`EngineAssumption`, `IgnitionAssumption`, `BufferAssumption`,
`StartupAssumption`, `SamplerAssumption`, `PacketAssumption`, `LogFilesAssumption`,
`ConfigAssumption`, `ServerAssumption`, `ControllerAssumption`); TLC evaluates
these on every run.

| theorem | statement |
|---|---|
| `TypeCorrect` | `Spec => []TypeOK` |
| `BurnIsBounded` | `Spec => []BurnBounded` |
| `NothingIsLeftUp` | `Spec => []NothingOutlivesBurn` |
| `MainOpenIsTrue` | `Spec => []MainOpenTracksBurn` |
| `OpensInTime` | `Spec => OpensAfterPreignite` |
| `StopEnding`, `CutoffEnding` | `Spec => []StopEndsBurn`, `Spec => []CutoffEndsBurn` |
| `Refinement` | `Spec => BurnRefined`: Ignition implements `BurnCycle` |
| `LitInTime`, `OpensSoon` | `Spec => []LightWindow /\ LightsInTime`, `Spec => []OpensByThen` |
| `TimerKeepsTime` | `Spec => TimerNotEarly` |
| `RingTypeCorrect`, `RingCounts` | `Spec => []TypeOK`, `Spec => []CountsAgree` of the ring |
| `RingIsSafe` | `Spec => []InsideIsSafe` |
| `RingIsQueue` | `Spec => IsQueue`: the ring implements `BoundedQueue` |
| `PacketEmptiesRing` | `Spec => PacketEmpties` |
| `TypeCorrect` (start-up) | `Spec => []TypeOK` |
| `SelectsOne`, `AnswersItself` | `Spec => []OneSelected`, `Spec => []OwnAnswer` |
| `ReadyForCommands` | `Spec => PinsReady` |
| `ServesOneReader` | `Spec => []ServingSelectsOne /\ ServingReadsClean` |
| `StartupIsFinite` | `Spec => [](StepsLeft \in 0..22 /\ ToStart) /\ StartupAdvances` |
| `HolderLetsGo` | `Spec => []HolderReads /\ BusAdvances` |
| `SamplerTypeCorrect`, `FilesInOrder` | `Spec => []TypeOK`, `Spec => []LogIsOrdered` of the sampler |
| `ReadingsAccounted`, `PacketsAreLogged` | `Spec => []Accounted`, `Spec => []SentIsLogged` |
| `RingsAreCalled`, `PacketsAreWhole` | `Spec => RingCalls`, `Spec => []SentIsWhole` |
| `ThreadsGetSocket`, `FilesLostAtTurn` | `Spec => []SocketReady`, `Spec => []LostOnlyAtTurn` |
| `ConfigTypeCorrect` | `Spec => []TypeOK` of the configuration |
| `MapFollowsFile`, `GettersFollowFile` | `Spec => []MapIsTheFile`, `Spec => []GettersTell` |
| `ReadingEnds` | `Spec => [](RoundsLeft \in Nat /\ FailsOnComment) /\ RoundsRunOut` |
| `ServerTypeCorrect`, `SocketsReady` | `CtlSpec => []ServerTypeOK`, `CtlSpec => []NeverBadSocket` |
| `DescriptorsReturned`, `BytesInOrder` | `CtlSpec => []NoLeak`, `CtlSpec => []InOrder` |
| `ControllerBurns` | `CtlSpec => [](BurnBounded /\ StopEndsBurn /\ CutoffEndsBurn /\ NothingOutlivesBurn /\ MainOpenTracksBurn /\ LightWindow /\ OpensByThen)` |
| `ControllerIsBurnCycle` | `CtlSpec => BurnRefined /\ OpensAfterPreignite /\ LightsInTime /\ TimerNotEarly` |
| `StopsKept` | `CtlSpec => StopKept` |
| `SessionsEnd` | `CtlSpec => [](SessionLeft \in Nat) /\ SessionRunsOut` |

*Ignition.* No bound on a burn is inductive by itself: that the burn is young at
the end of a pass depends on where the monitor was, how late it is, how long it
still sleeps, and on what it last read from the clock. `IInv` says it place by
place: `NapInv` (it sleeps only in `sleep_for`, and is not late then), `AgeInv`
(age at each place, counted from `Entry`, the oldest a burn can be when the timer
test lets it pass), `ElapsedInv` (what was read is at most the true age plus the
step forward, or is a wrapped difference beyond every timer), `HeldInv` (where
a burn may hold which pin) and `MainOpenInv`. `StopInv` and `CutoffInv` bound in
the same way how long a reason to end can have stood at each place; `CutoffInv`
separates a time sampled before the delay was over (`Fresh` is false), with
which the monitor may pass the check once more, from one sampled after it. One
lemma per conjunct shows that every step keeps it, with one case per action.

The upper bounds come with lower and inner ones. `LightWindow` bounds, place by place,
the time a start the monitor is there to see can still wait for the igniter. `OpenInv`
does for an unopened valve what `AgeInv` does for a burn, counted from `PreEntry`;
it excepts the first burn, whose `mainOpen` may be garbage, as the run
`uninitialised_main_open` shows. `WrapInv` says that only a burn younger than the
clock's step back, or one that crossed `start_time` (`Crossed`), has read a time of
`Far` or more, the two exceptions of `TimerNotEarly`; `ElapsedIs` works out what a
sample reads in each case from the two wraps.

*Ring.* `Frame` (types and counts) together with `Agree(S)`, the items at offsets
`S` are the ones pushed: with `S` the array for `RingIsSafe`, since a foreign write
lands outside it, and with `S` all offsets for `RingIsQueue`. `PacketEmptiesRing` needs
the counts only: where the loop of `get_data` stops for want of room there would be
more items than the ring holds.

*Start-up.* `OneSelected` is not inductive: nothing in it says that a thread between
`select` and `deselect` has the mutex, or that main, in the middle of a pin,
cannot lower a chip select again. `Exclusive` says the first, `Parked` the second
(a chip select is parked by its place in `initialize_pins`, and after that LOW
only for its reader), and `Undisturbed` that a read which began clean finds all
of them parked for as long as it lasts. `Behind`, for `ReadyForCommands`, says that the pins
main has done with are outputs and, where they are drivers, `LOW`: no sensor thread
ever writes one, and every pin the engine uses is in its list. `ParkedByThen` is the
converse of `Parked`: when main serves all three chip selects are parked, so that the
two properties stated of parked converters hold of every one of them
(`ServesOneReader`).

*Sampler.* A ring goes through cycles of `num_items + 1` readings: it fills, and the
next one finds it full and is lost. `KeptInv` counts in these cycles: `Base(s)` is the
last reading dealt with, always a multiple of the cycle (`CycleInv`); the file has the
readings up to it that were not lost, in order, but for those in `unwritten`
(`FileInv`), the packet the next
`num_items` (`PacketInv`), and the ring what came after `Start(s)` (`QueueInv`). This
needs `PacketAssumption`, the code's own remark that the packet "has to be 16n + 4":
with a smaller packet the ring would never be emptied, with a larger one stale items
would be logged. `SetupInv` ties the socket to the place of main. `TurnsInv` says
that the loggers are named and see to their directories in order, and `DirsInv` that
on a disk that takes them the directories stay; a logger that misses its file has
thus looked at all those made before it. `RingsAreCalled` and `PacketEmptiesRing` meet:
the one says that a sensor thread calls its rings as `BoundedQueue` allows and drains only
a full one, the other that the ring does what is asked of it there, since the packet's
`16 * num_items + 4` bytes (`PacketAssumption`) are a header and a full ring.

*Configuration.* `Follows` says at every line what it says at the end: the map has, for
each key, the values of the pairs among the lines taken (`UpTo`), the n-th of them at
place n (`Tells`, by `Rank`). One lemma adds one pair (`OneMore`), one a line that is
none, one moves the section; `TellsIsDeclared` turns it into `Declared`. `Emptied` says
that giving up empties the map, and `Looked` does for the getters what `Follows` does for
the map.

*Server.* `SocketInv` ties `fd`, `open` and the number of descriptors to the place
of main; `VisitedInv` says how much has been visited at each point of a session;
`WaitInv` that the command thread is inside a command only while main waits for it,
or the process has ended. The composition's steps are steps of `Ignition` or leave it
alone by the way they are put together (`Composed`, a lemma), so that `Ignition`'s
theorems carry over (`ControllerBurns`).

*What ends.* The provers do not reach fairness, but what a liveness property rests on
is mostly a number that every step of the one thread lowers and no other step raises,
and that is an action property. It is proved for reading a file (`RoundsLeft`), for
start-up (`StepsLeft`), for the holder of `adc_mutex` (`HoldLeft`), for a session whose
client has gone (`SessionLeft`) and, in time instead of steps, for a start
(`TimeToLight`) and for the burn itself (`BurnBounded`). `StopKept` says in the same way
that a stop on its way is never dropped but by a failing call or the end of the process.
Each definition stands in the module of its component, behind its properties.

**Only model-checked**: that these numbers do run down, which needs fairness and
`ENABLED`: `StartServed`, `ReadReturns`, `StartupEnds`, `BusReleased`, `NextServed`,
`StopGetsThrough`, `BurnEndsAlone` and the liveness part of `BurnRefinedLive`. Every
safety property of a passing run is a theorem.

## 5. Not modelled

* The text messages of `Logger` (`log`, `error`, `info`, `debug`, `verbatim`), date
  layout, the conversion of settings and the decoding of a reading's bits: they
  compute values no property here depends on, and change no state but a file.
* `ConnSocket::sendByte` and `sendBuf`, `ListenSocket::close` and `OutSocket::close`:
  nothing in the program reaches them (main's loop has no end).
* `count_up` and builds with `MOCK`, `writeTo` (a stub), `doGITVC` (logs only).
* `libtest.cpp` and the test programs, sequential drivers of what is modelled;
  `struct_decoder.py`, which prints a log file; the build files.
* The overflow of `readFrom`'s buffers by one byte (`config.cpp:45`) and the use of
  freed memory named above: undefined behaviour whose outcomes the sources do not
  determine.
* `Sampler` over `CircularBuffer` itself: the ring is shown to be the queue that
  `Sampler` uses, for every size, and corruption of an item would only change a
  reading's value.
