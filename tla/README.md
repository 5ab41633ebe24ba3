# A verification of FPDPGA

FPDPGA builds a PDP-6 and a PDP-10 (KA10) in an FPGA from their schematics, and
a front end on the ARM beside it that plays the console, the paper tape and
the DECtape.
These modules model parts of that machine in TLA+. TLC checks them on small
instances and TLAPS proves theorems about them for every value of the constants.

Paths are relative to `src/` unless they name a `.tla` file.

## The system

All of the FPGA runs on one 50 MHz clock. The asynchronous original is imitated
by pulses: a *pulse amplifier* (`rtl/modules_50.v`, `pa`, `pg`) gives one clock
of pulse one clock after its input rises, a *delay* (`rtl/dly_50.v`) gives one
clock of pulse n clocks after its input, and starts again at every input. A
chain of these is a thread of control; several run at once and meet at
flip-flops.

    apr (pdp6/apr.v)
      |  memory bus: lines are ORs
    membus_2_connect ---- fast162_dp (16 fast words) <--- memif_fast <--- host
      |
    core256k (pdp6/core256k_x.v)
      |  s0
    memarbit  <-- s1 -- memif_core <-- LW bridge <-- front end (host/fe)
      |
    memory_256k --> FPGA-to-HPS bridge --> SDRAM

The wiring is that of `quartus/pdp6_de10/soc_system.qsys` and `toplevel.v`; the
KA10 differs in the processor, which holds its fast memory itself. The I/O bus
connects the processor with `tty`, `ptr`, `ptp`, `dis340` and the spacewar
consoles; `fe_req` tells the front end which of them wants something.

The front end (`host/fe`) is one thread that reads characters, and when there
are none, reports a stop of the processor or serves a device:

    terminal --> DDT (fe.c) --> console calls (6/real.c, ka/real.c) --> keys of KEY
                   |    |
                   |    +--> cmd.c: dump, load, mount --> files
                   +--> fe_svc(): ptr, ptp, tu56 <--> fe_req of the FPGA

Beside it run programs of their own that take what the devices put on a
socket: `host/crt` (a screen with two threads, and keyboard, sticks and pen that
a second thread of the front end writes to the spacewar consoles).
`host/threading.c` is the library of threads and channels under them.

### Inventory

| Component | State it keeps | Operations | What is hard | What makes it correct |
|---|---|---|---|---|
| `common/memarbit.v` | `sel0`, `sel1` | disconnect, connect | two masters, a registered choice | a request is never disturbed, nobody starves |
| `common/memif.v` | address, buffer, request, wait, edges | host access to words 0, 1, 2 | edge triggered, host must be held | one memory cycle per access |
| `host/fe/6/real.c` `deposit`, `examine` | - | three accesses each | not atomic on the bus | atomic in effect |
| `pdp6/core256k_x.v` | timing chain, buffer, four ports, request to memory | read, write, read-pause-write | posted write, memory of any speed | the last word written is the one read |
| `pdp6/apr.v` MC, MB, MA, PR | request flip-flops, stop, split | requests, answer, stop, timeout, keys | timer against acknowledge, stop in mid cycle | answered once, never hangs |
| `pdp6/fast162_dp.v` | 16 words, cycle state | read, write, host port | faster than the stop | same as core |
| `pdp6/apr.v` KEY, `pdp6/panel_6.v`, `cpu_*()` | run, switches | start, stop, continue, execute | keys against a running machine | each key has its effect |
| `pdp6/apr.v` I, A, F, E, S | phase flip-flops | an instruction | many returns from memory | each answer to the phase that asked |
| `pdp6/apr.v` PI, IOT, IOB | PIR, PIH, PIO, requests | grant, hold, dismiss, BLK | a request while another is granted | priority, no lost request |
| `pdp6/apr.v` arithmetic | AR, MB, MQ, SC, chains | multiply, divide, shift, float | step counters | the numbers |
| `pdp6/ptr.v`, `ptp.v`, `fe_req.v`, `svc_ptr`, `svc_ptp` | busy, flag, buffer, request | start, stop, data | front end answers late | no character lost or doubled |
| `pdp6/tty.v`, `ka10/tty.v` | shift registers | send, receive | serial clocks | no character lost |
| `pdp6/dis340.v` | position, mode, word | words, points | data request | every word drawn once |
| `ka10/ka10.v` | a second processor | | as the PDP-6 | |
| `ka10/td10.v` | DECtape control | search, read, write | a tape that moves | block found, direction |
| `ka10/tu56.v`, `svc_dt` and its mounting | motion, clock, line buffer, two requests; the tape | start, stop, turn, a line read or written | answers from an earlier motion | the tape passes line by line |
| `host/fe/fe.c` | an expression, a stack of them, flags, the open location | one per character, a report | errors by `longjmp`, editing in mid word | what is deposited is what was typed, where it was shown |
| console calls of `6/real.c`, `ka/real.c` | - | start, stop, step, continue, execute | the processor goes on between two keys | no key on a moving machine, the call does what it says |
| `cmd.c`, `pdp6common.c` | core, a file, half a word left over | dump, load, zero | formats in formats, wrap at the top of core | a load brings back the dump |
| `host/threading.c` | locks, rendezvous, channels | send, receive, close, without waiting too | sleeping and waking | a FIFO queue, no lost wakeup |
| `host/crt/crt.c`, screen | queue, two phosphors, lists | a dot, a frame | two threads, one lock | a pixel once in its list, and in the end dark |
| `host/crt/crt.c`, hands | bits of each controller, pen | key, stick, button, mouse | messages on their way | the register is what is held |
| `host/statdisp`, `scon33.c`, `util.c` | - | input and output | - | - |

## Modules

| Module | Models | State and actions |
|---|---|---|
| `MemArbit.tla` | `memarbit.v` | the two registers; `Disconnect`, `Connect`, `Hold` are the branches of the always block, `MemRequest`, `Wait0`, `Wait1`, `ReadData0`, `ReadData1` the combinational connection |
| `MemIf.tla` | `memif.v` | every register; `MemIfClock` is the always block, `HostWait` is `s_waitrequest` |
| `HostAccess.tla` | `deposit()`, `examine()` | `step` counts the accesses of a call; the bridge is external |
| `SharedMemory.tla` | - | the abstract specification: every operation takes effect once, at an instant between call and return |
| `HostMemory.tla` | the composition of the above with the memory module's port and the SDRAM | one step is one clock of everything; `memWait` is what the SDRAM says on that clock |
| `HostMemoryProofs.tla` | - | the theorems |
| `Core256k.tla` | `core256k_x.v` | `left[p]` is the number of clocks until pulse p; `Cause` lists the input of every amplifier and delay, `Control`, `Jam`, `Buffer`, `Handshake` are the always block by the state they change |
| `MemCtl.tla` | MC of `apr.v` with the bus side of MB | the same scheme: `McCause`, `McFlags`, `Buffers` |
| `MemCycle.tla` | processor, bus, module and memory | the rest of the processor is the actions `Ask`, `Answered`, `GiveBack`, `NewInstruction`, `AddressWithStop`, `Halt`, `Continue`, `OtherKey`, `Ready`, `Rests` |
| `Interrupts.tla` | PI of `apr.v` in the instruction cycle (I, A, E, S, XCT, UUO, BLT, IOT) | one step is a stretch of pulses in which nothing is decided; `at` is the pulse that comes next. `It0`, `Interrupt` (`iat0`), `It1`, `Decode`, `Address` ... `Et0`, `Et1`, `Et10`, `St7` carry the names of the pulses |
| `MemCycleProofs.tla` | - | the theorems |
| `PriorityLevels.tla` | - | the abstract specification: service nests by priority |
| `InterruptsProofs.tla` | - | the theorems |
| `PtReader.tla` | `ptr.v` | program (`ptr_datai`, `ptr_cono`), keys (`key_start`, `key_stop`, `key_ptr_feed`), the delays of a frame (`ptr_lead`, `fe_mid_pulse`, `fe_trail_pulse`), the front end's write (`Answer`, `AnswerIgnored`) |
| `PtPunch.tla` | `ptp.v` | program (`ptp_datao`, `ptp_cono`), key, motor, `ptp_clk`, the end of a write, the front end's read (`s_read`) |
| `PaperTape.tla` | reader, punch, `fe_req.v`, `fe_svc()`, `svc_ptr()`, `svc_ptp()` | `fe` is the next step of the front end's loop: `Poll`, `ReadFile`, `GiveFrame`, `TakeChar` |
| `PaperTapeProofs.tla` | - | the theorems |
| `Queue.tla` | - | the abstract specification of a channel: a bounded queue with atomic calls |
| `Channel.tla` | `threading.c` | ring buffer, lock and two rendezvous; `lockinit`, `lock`, and one step for what a call does with the lock held (`Body`), as nothing of it is touched without |
| `Crt.tla` | `crt.c`, `pixelthread()` and the drawing loop | `ReadDot`, `QueuePixel`; `renderpixels`, `ClearAndDrawGlow`, `Phosphor1`, `FadePhosphor2` are the passes of a frame |
| `Consoles.tla` | `crt.c`'s keyboard, sticks and pen, `wcsl_thread()` | `keydn`, `keyup`, `joyhat`, `joybtn`, `mouse`; messages in a socket, the registers of the spacewar consoles |
| `HostThreads.tla` | the three above | threads of one host, interleaved |
| `HostThreadsProofs.tla` | - | the theorems |
| `RunControl.tla` | KEY of `apr.v` and of `ka10.v` with `panel_6.v`, as far as keys tell | `run`, `mc_stop`, how far an instruction is; `Works` is the processor, `KeyDown`, `KeyUp` the keys |
| `KeySteps.tla`, `ConsoleSix.tla`, `ConsoleKa.tla` | the console calls of both machines | a call is a sequence of steps: keys, waits, tests, each call an operator with the name of its function |
| `Console.tla` | the front end in a call | `Begin`; `KeyStep`, `WaitStep`, `IfStep`, `StartedStep`, one at a time while the processor works |
| `DdtWords.tla` | words, numbers and the expression of `fe.c` | `parse`, `combine`, `endword` |
| `LineMeaning.tla` | - | what a line means by the help text, the reference for `DepositsTyped` |
| `Ddt.tla` | the command loop of `fe.c` | one action per kind of character (`Operator`, `pushexp`, `popexp`, `Separator`, `Open`, `Deposit`, `Return`, `Go`, `Stop` ...), `Report` |
| `ItsBytes.tla`, `Sblk.tla` | `writewits()`, `readwits()`; `dumpsblk()`, `loadsblk()`, `zerocore()` | pure functions from core to a file and back, with what the reader keeps from one load to the next |
| `DecTape.tla` | `tu56.v`, what it sees of `td10.v`, `mnt_dt()`, `unmnt_dt()`, `svc_dt()` | the program's `Cono`, the operator's `Switch`, the drive's `Clock120kc` with its four phases, the front end's `Poll` and `svc_dt`, `mount`, `unmount` |
| `FrontEnd.tla` | `threadmain()`, `coloncmd()`, `fe_svc()` | composes all of the above that are the front end's: `AnyChar`, `Reported`, `fe_svc` and `ServeTape` are its loop, `Processor` and `DriveStep` go on meanwhile |
| `ConsoleProofs.tla`, `DumpProofs.tla` | - | the lemmas about the steps of a call, and about dumps and loads |
| `FrontEndProofs.tla` | - | the lemmas about the drive, what is typed and what it means, and the theorems, for `FrontEnd` as a whole |
| `MCHostMemory.tla`, `MCMemCycle.tla`, `MCInterrupts.tla`, `MCPaperTape.tla`, `MCHostThreads.tla`, `MCFrontEnd.tla` | - | instances for TLC |

The two composed models meet at the port between `core256k` and `memarbit`.
`HostMemory` assumes of that port what `MemCycle` promises as `PortHeld`, and
`RequestsAreHeld` proves: the request, its address and its word stay until the
memory has taken them, and it is dropped then (`MinGap`).

### The interrupt model

`Interrupts` is coarser than the memory models: what an instruction does is
reduced to how it treats PC and the interrupt system, its class, and pulses are
joined where no flip-flop of PI can be set or looked at between them. The
request lines change between any two steps. `pir & ~pih`, which the hardware does
one clock after a channel is held, is part of the step that holds it: no pulse
that looks at `pi_req` comes on that clock. MA is kept as the set of channels
encoded into it (`ma`), as the encoder is an OR. PC is kept as whether it has
moved since the fetch (`pcMoved`), which is what an interrupt must know to
resume: each instruction, also that of an interrupt location, is followed from
its own fetch on. So an instruction of an interrupt location must not move it at
all (`PcNamesUndone`, where `pi_cyc`), as PC then is that of the program
interrupted. `pc_inc` (`apr.v:894`) leaves `pi_cyc` out for what skips (`Skip`) and
for the last word of a BLT (`BltWord`): these classes are `Counting`.

The stop key cuts off whatever `pi_sync` would start, for 100 us (`at1_inh`), so
that the machine stops within an endless chain of addresses. `StopOver` lets
those 100 us end where the machine rests, within a block transfer, or at the end
of an instruction: all else is over in a few microseconds.

### The paper tape model

`PaperTape` has one step per event. The delays of a frame are started together
and have fixed lengths (1 us, 2.1 ms, 2.5 ms), so only their order matters to
what the reader does; `passed` counts those that are over. The front end is
Linux on the other processor: it may take no time or seconds between any two
steps, so its steps are free to come between any two events. The word is the
sequence of the frames shifted into it, as nothing looks at the holes but hole 8,
which tells the frames that count in binary (`Data`) from those that do not
(`Leader`).

Six variables are history and guide nothing: `taken`, the frames the front end
answered since the word began; `marred`, the circumstances in which the code
makes a word of other than six frames; `orphan`, that the reader was stopped
while the front end was fetching a frame for it; `owed`, the character given
and not yet read; `cut` and `beside`, whether that character was given during the
write of another, and whether a CONO had cut that write short.

`used` is what a behaviour uses, chosen once from `Uses`: the reader, its binary
mode, its feed key, the punch. The proofs hold for every choice of it. The program waits for the flag
before a DATAI and for the end of busy before a DATAO; CONO comes at any time.

### The front end model

A character is one action, except for a console call it makes: the call's steps
come one at a time, between the steps of the processor, and no other character is
read before it is over. So what can come between is what can in the machine: an
instruction ends, halts, or stops in a memory cycle while the front end is between
reading `run` and pressing a key.

`RunControl` knows how far an instruction is (`busy`): its fetch, its addresses and
operands, et0a, what is moved and stored behind that, and st7. `run` drops at et0a
(`Execute`) or by the stop key at any time (`StopPressed`), and the pulses go on
until st7 (`EndInstruction`) looks at it: meanwhile `isrunning()` is false and
START is taken, as `kt0a_D & ~run` (`apr.v:205`) does not ask for more. A stop key
also keeps words from being fetched for 100 us (`inhibited`, `CutOff`); the cycles
behind et0a, a BLT's among them, look neither at that nor at `run`, and may be
any number. `mistimed` is history: a key was taken with pulses in flight, or
inhibited. What two chains of pulses do to each other is not modelled, so
that is where a session ends.

A sleep of the front end (`SleepStep`) ends at any time: the processor may have
come to rest or not. All that a millisecond is relied on for is that AT INH is
over by then. `outrun` is history: the front end went on as if the processor were
at rest, and it was not. That is so when a sleep or a wait ends with an
instruction going that nothing keeps going but itself (`Settled`), when `run`
is found off with pulses still in flight, and when a read-in of the KA10 is taken
for a halt (`IfStep`). It is taken back when a call begins with the
processor and the keys at rest (`AllAtRest`).

Words have small halves with a bit for each field an instruction has. What is
assembled is reckoned in the 64 bits of the host and cut when it is deposited.
`line`, `plain`, `shown` and `wrote` are history: the characters of the word that
are not erased, whether it has any whose place in the line does not matter to
the program, the location the terminal shows, and the last deposit. The help
text's meaning of such a line is `LineMeaning`, written without the buffer,
the fields or the stack.

Core has its contents only where files are about them (`mem`). What `examine()`
returns to DDT is any word of `Seen`.

A dump is bytes: `Written` and `Read` have the ITS format with its CRs, RUBs
and binary words, in characters of three bits, and `Dumped` and `LoadWord` the
blocks with their counts, addresses and checksums.

### The tape model

The clock of a drive has four phases for a line. In the first the drive asks for
the line under the head, and if it is being written, in the second for the line
to be taken; then the clock waits for the answer. Neither the program nor the
operator waits. The front end reads the requests (`Poll`) and answers some time
later (`svc_dt`) what it read then, whether the drive has been stopped, turned
or started again in between. That is why the tape's position, kept in the front
end, and the head's, known to the drive, can come apart.

`laid` is the reference: what the drive last wrote on each line. `under` is the
line the drive was given last, and `steady` that nothing happened since which
lets the tape stay on it or go over it twice: a stop, a turn, writing broken
off. `spoiled` collects the lines whose writing was cut short.

### The threads model

Everything a thread does with a channel's lock held is one step; getting the
lock takes up to three, because `lock()` looks at `lk->init` before it initialises.
A thread that sleeps in a rendezvous may wake by itself, as POSIX allows.
Only the queue of dots is under a lock of `crt.c`; the drawing thread owns all
the rest. Brightness is none, dim or bright on the blue phosphor and a level on
the green one; how far it fades in a frame is any step down.

### How pulses are modelled

A counter per pulse replaces the shift register of each amplifier and the
counter of each delay. `left[p] = 1` is the clock on which the pulse is on.
`high` remembers which amplifier inputs were up, as only the rise of an input
counts. The numbers in `Delay` and `McDelay` are clocks of 20 ns, those of
`dly_50.v`; `bd` is two clocks and `bd2` is the four clocks `mb_pulse` counts.
Two constants of the real machine are scaled: the power-up delays, which only
separate the reset of two flip-flops, and the 100 us of the missing-memory
timer, `NxmDelay`.

A word is the set of its one bits. The memory bus is an OR and so is every load
of a buffer, and a union shows what a plain assignment would hide: a word that
is not cleared away in time.

## Runs

| Run | Bounds | Shows |
|---|---|---|
| `host_memory` | 2 addresses, 2 half words, `MinGap` 1, a memory of any latency | `Linearizable` (refinement of `SharedMemory`), `RequestHeld`, `WindowServesBus`, types |
| `host_memory_live` | 1 address, 2 half words | `CallsReturn` |
| `mem_cycle` | 2 addresses, 1 bit, memory slow by 0, 20 or 60 clocks, gaps of 0 or 40 clocks between requests, executive and user mode | `Consistent`, `PortHeld`, types |
| `mem_stop` | an address that exists and one that does not and is out of a user's bounds; stop switch, disable switch, halt, continue and another key; fast memory, no gaps | `Consistent`, `AnsweredOnce`, `NoFalseNxm`, `NeverHangs`, `ContinuesOnce` |
| `interrupts` | 3 channels, every class of instruction, stop key; interrupt locations hold anything but HALT and what counts PC there (skips, CONSO, BLT) | `HeldAsVectored`, `Nested` (refinement of `PriorityLevels`), `DismissesHighest`, `PcNamesUndone`, types |
| `interrupts_live` | 2 channels, programs of plain instructions, JRST, CONO, XCT and BLT, interrupt locations with plain instructions, skips, BLT, BLK and DATA | `WordFreesChannel`, `Served`, `StopKeyStops` |
| `paper_tape` | the reader with one frame of data and one of leader, binary mode and feed key; or reader (a word per frame) and punch, two characters, one front end for both | `WordComplete`, `FrameDelivered`, `WordArrives`, `DoneWhenRead`, `PunchedOnce`, `CharLeaves`, types |
| `late_frame` | reader, binary mode | violates `SixFrames` |
| `late_char` | punch, two characters | violates `Synchronized` |
| `host_threads` | channels of size 1 and 2, two words, three threads in six parts; or a screen of two pixels that shine on each other; or hands at two controllers and the pen | `FifoQueue` (refinement of `Queue`), `NoLostWakeup`, `OnePlace`, `GoesDark`, `ConsoleFollows`, types |
| `stuck_pixel` | the screen | violates `QueuedToDisplay` |
| `front_end` | eleven kinds of session, and one for each of twenty-one contents of core (below) | `DepositsTyped`, `KeysObeyed`, `Restored`, `LineByLine`, `HaltReported`, types |

Two addresses tell the word asked for from another; two half words tell a torn
word from a whole one, and an old word from a new one. A bit that is left over
from another word is seen with one bit as well as with 36, as the bits do not
interact. The waits are chosen on both sides of the fixed times of the module's
chain: 0 is faster than every meeting of timing and memory, 20 arrives between
the strobe and the read-off, and 60 outlasts the whole chain of a posted write,
so that the next cycle has to wait for it. A gap of 40 clocks lets the chain of
the last cycle run out before the next request or not. The model is
deterministic between these choices, so the states are mostly counters.
Three channels are a served one, one that breaks in and one that must wait;
the theorems hold for any number of them. Of the tape, a single frame of data is
enough as `WordComplete` compares the word with the frames answered and counts
them; the leader is the frame that must not count. Two characters tell a
character from the one that took its place.

A session of `front_end` is one run of the front end with some of its keys: the
product of everything with everything would say no more, as the parts meet only
where a session has both. There are three with expressions (sums, parentheses
and `/`; signs and products; fields of an instruction), up to five or six
characters and one deposit; two with editing and with all that opens a location;
the console of each machine; dumping and loading with the start address and with
a zeroed core, and of many cores: words that end or begin with CR, LF or RUB, two
of them together, zeros in a block and between two, a block longer than
`MAXBLK`, the highest address; and the tape. The sizes keep what can happen at
them: `BufLen` 3 makes the buffer wrap, `MaxStack` 3 (for 8) makes the stack
overflow, `MAXBLK` 4 splits blocks. A word has at most one `@` or quantity. A
session with a tape types `:` commands only, and three
lines (`Lines`) with two (`Zone`, for six) that the tape moves among at its
ends tell the end of the tape from its middle. `MaxOrders` counts
commands of the program and lines written. The operator touches neither the
switches nor the tape in the middle of writing, and uses `off` and `remote`.

Three threads are one that acts and two that compete for what it did; two
data words tell the order. A socket that holds two messages (`MaxInFlight`)
lets two be out of date.

Each property of a passing run has a mutant in `PROJECT.json`: a plausible mistake in
one definition, defined before it in the module and named there as a fault,
that TLC finds to break the property.

### Fairness

`HostMemory` is checked for liveness under `FairSpec`: the clock never stops
(`WF(Next)`), the SDRAM does not keep a connected request waiting for ever, and
a call in progress makes its next access some day, as `deposit()` and
`examine()` are straight line code. Nothing is assumed about the processor's
port, which may ask again as soon as its rest is over; that port 1 is served in
spite of the priority of port 0 follows from the clock on which the arbiter is
disconnected and the port still rests.

`Interrupts` is checked for liveness under `FairSpec`: the clock never stops
(`WF(Processor)`), the 100 us end, and programs end what only they can end:
a block transfer is finite, an interrupt instruction's chain of addresses is
finite, and a block transferred by an interrupt is followed by an instruction
that is not another transfer. The chains of addresses of ordinary programs may
be endless, and so may their chains of XCT: the machine is meant to be
interrupted and stopped in them. Requests, keys and illegal addresses have no
fairness.

`PaperTape` is checked for liveness under `FairSpec`: the delays of the reader and
the clock, the write and the starting motor of the punch never stop, as they
are counters in the FPGA; the main loop of `fe.c` comes round and `fe_svc()`
serves what it saw; a file is not leader from here to its end (`SF` of
`ReadFile` with a frame of data), or a binary word would never fill. Program and
keys have no fairness, so `WordArrives` and `CharLeaves` are conditional: the
program does not give CONOs for ever, and for the reader the motor is not
stopped.

`HostThreads` is checked under `FairSpec`: the scheduler runs every thread, and
one that asks for a mutex that is free again and again gets it at last (`SF` of
`lock`), which is what a queue of waiters provides; a waking without a signal
has no fairness, so `NoLostWakeup` may not count on it. Callers, dots and hands
have none.

`FrontEnd` has its fairness in `Spec`: the processor works on, a call takes its
next step, and the loop comes round, so that a stop is reported when no character
waits. `HaltReported` is therefore conditional on the operator typing no more.
The tape has none, and needs none for `LineByLine`.

`MemCycle` has no fairness: that a request is answered is stated as the safety
property `NeverHangs`, that the machine does not come to rest in a request.
It is stronger than a leads-to here: every pulse counter runs down by itself.

## Proofs

`HostMemoryProofs.tla` proves, for every set of addresses, every set of half
words and every `MinGap`:

- `Invariance`: `Spec => []IInv`.
- `Types`: `Spec => []TypeOK`.
- `WindowServesBusHolds`: `Spec => []WindowServesBus`.
- `HoldsRequests`: `Spec => RequestHeld`.
- `Implements`: `Spec => Linearizable`, the refinement of `SharedMemory`.

They rest on `HostMemoryAssumption` (the sets are not empty, `MinGap` is a
positive natural) only. The properties are not inductive by themselves: that
the window's cycle belongs to the access on the bus needs to know that the edge
detectors have seen that access (`EdgesSeen`), and that the word deposited is
whole needs to know what the window already holds at each step of the call
(`CallInProgress`); that the module's request is the one it was raised for is
`CoreCycle`. `IInv` is their conjunction with `TypeOK`, `OneOwner` and
`WindowServesBus`. The step is proved part by part: lemmas for the types, for
the window against the bus, for the call in progress; then one per disjunct of
the host's clock. `Implements` maps each clock edge to a step of
`SharedMemory`: an edge on which the memory takes the connected request
performs that owner's operation, the other client moves by itself or stays.

`InterruptsProofs.tla` proves, for every number of channels and every choice of
the instructions that programs and interrupt locations hold:

- `Invariance`, `Types`: `Spec => []IInv`, `Spec => []TypeOK`.
- `HoldsTheVectored`: `Spec => HeldAsVectored`.
- `DismissesTheHighest`: `Spec => DismissesHighest`.
- `Nests`: `Spec => Nested`, the refinement of `PriorityLevels`.
- `PcNamesWhatIsUndone`: `Spec => []PcNamesUndone`, if no interrupt location
  holds an instruction that skips, a CONSO or CONSZ, or a BLT (`Vector \cap
  Counting = {}`). With any of these in an interrupt location it does not hold: TLC finds
  the interrupted program's PC moved. The other theorems hold for every `Vector`.

The chain is dealt with by lemmas of its own: at most one channel is granted and
it is above all that are held (`OneIsGranted`), holding it leaves nobody asking
(`HoldingSilences`), and when nobody asks the chain reaches the highest channel
held and no other (`ChainReachesHighest`, which needs a least element of a set of
numbers, `Least`). The invariant says when that is so: between the fetch for a
channel and its holding, what asks is what is in MA (`AskingIsVectored`), and
when an instruction has passed its last `pi_sync` outside an interrupt, or has
come to dismiss, nobody asks (`NobodyAsks`). Without the second a dismissal
could clear nothing.

`PaperTapeProofs.tla` proves, for every set of frames and characters and
whatever is used:

- `Invariance`, `Types`: `Spec => []IInv`, `Spec => []TypeOK`.
- `WordsAreComplete`: `Spec => WordComplete`.
- `FramesAreDelivered`: `Spec => FrameDelivered`.
- `WaitsForFrontEnd`: `Spec => DoneWhenRead`.
- `CharsArePunchedOnce`: `Spec => PunchedOnce`.

They assume that the leader is not data and that the marks for "no frame", "no
character" and "blank" are not frames or characters. `IInv` is `TypeOK` with
four parts. `FrameInv`: what is asked, answered and over of a frame belong
together. `WordInv`: while the reader is busy, the word is what was answered,
short of a frame that is answered and has not come to its middle; this is what
makes `WordComplete` inductive, as the strobe comes with the middle or with the
answer, whichever is later. `ServeInv`: while the front end serves the reader
and the reader has not been stopped, the request is up. `PunchInv`: an answer
kept from before cannot end the write of a character nobody has read.

`HostThreadsProofs.tla` proves, for every number of threads, every size of a
channel, every screen and every number of controllers:

- `Invariance`, `Types`: `Spec => []IInv`, `Spec => []TypeOK`.
- `ImplementsQueue`: `Spec => FifoQueue`, the refinement of `Queue`.
- `Placed`: `Spec => []OnePlace`.
- `Follows`: `Spec => []ConsoleFollows`.

The queue is the ring read from its offset on (`Contents`); that a send appends
to it and a receive takes its head is arithmetic modulo the size of the ring
(`Turn`). The refinement needs the lock: a thread is in the middle of a call
exactly if it owns the mutex, and nobody owns it or waits for it before
`lockinit` (`ChannelInv`). For the screen, the pass that a frame has reached says
which list each pixel may be on (`CrtInv`); for the controllers, the last message
on its way, or the register when there is none, is what is held
(`ConsolesInv`), as a socket keeps the order.

`FrontEndProofs.tla` proves, for every machine, session and tape:

- `TapeInvariance`, `PassesLineByLine`: `Spec => []DecTapeInv`, `Spec => LineByLine`.
- `ConsoleInvariance`, `KeysAreAlwaysObeyed`: `Spec => []ConsoleInv`,
  `Spec => []KeysObeyed`.
- `FileInvariance`, `DumpsRestore`: `Spec => [](TypedInv /\ FileInv)`,
  `Spec => []Restored`.
- `DepositsAsShown`: `Spec => []DepositsShown`, the first half of `DepositsTyped`.
- `DepositsAsTyped`: `Spec => []DepositsTyped`, for lines of every length and depth.
- `FrontEndTypes`: `Spec => []TypeOK`.

`DecTapeInv` says where the head is while the drive runs one way (`AtHead`), what
is on the tape, in the drive and in the file at each step of a transfer
(`OnTape`), and what the front end still remembers of a request it serves late
(`Served`): an answer that comes after a stop must find the tape not up to speed
(`Slow`), or it would put the line into another place.

`KeysObeyed` is about calls, which are sequences of steps with branches, between
any two of which the processor goes on. `ConsoleProofs.tla` proves them as a
proof outline: `Facts` are what can be known of the processor between two
steps, each stable under all the processor does (`WorksOn`); `Fits` says from
which fact to which a step leads unless the front end is outrun
(`StepsSoundly`); and each call of either
machine has an outline from what is known when it begins to its goal
(`SixOutlined`, `KaOutlined`). `ConsoleInv` is that, unless it has been outrun, no
key was mistimed and an outline exists from what is known to the goal over the
steps that are left (`Sound`). The steps are data, so an outline
is found in a set closed under taking a step (`Begun`), and outlines are put
together along the concatenation of sequences (`InTurn`); no induction is needed.

`Restored` is about what recursive functions and folds compute for every core, so
it needs induction, over natural numbers only: `DumpProofs.tla` gets it from the
least number principle, with sets of numbers in place of predicates
(`Induction`, `Ascent`), and with it what the recursive functions of the model
are (`Recursion`) and what a fold is, step by step (`FoldRuns`). The proof has
three layers. Bytes: what the reader has got at any time, the words and the
characters left over, is what the writer has given, short of the CR or RUB that
it holds back (`Shows`), so that `Read` of `Written` is the words (`RoundTrip`).
Blocks: the count of a block and its address count up together and come out
where the block ends, with a carry at the highest address of core
(`AddressesAre`), and loading a block puts its words where they came from and
finds its checksum (`BlockRuns`, `BlocksRun`, `DumpLoads`). Files: the first jump
ends the load (`LoaderIs`), and between a dump and a load core changes only
where `FileInv` allows it: not in what is zero in the dump, once core has
been zeroed (`DumpKeepsFile`, `ZeroKeepsFile`, `LoadKeepsFile`).

It assumes that the file is in words of `2 * Chars * Chars` values, a size that
`Core` divides (`SblkAssumption`), with at least eight codes left for the left
half (they are 2^18): the jump that ends a file must not look like the count of
a block, whose sign bit is set. With characters of three bits that leaves cores
of up to sixteen words; the contents, the start address, the first address
dumped and the size of a block are any. A start address is one of core by a bound
of the sessions (`Bounded`), and `TypedInv` keeps it so with the types of what is
typed; that what DDT reckons fits the host and
what it assembles fits a word is `ExpressionTyped` and `LocationTyped`, from
`WordsAssumption` (the host's word is a multiple of the machine's) and
`DdtAssumption` (what `examine()` returns and a stop reports are words and
addresses). A session begins with words in core (`UsesAssumption`).

`DepositsTyped` compares two readings of a line: `LineMeaning` reads it from its
end, the last operator first, by recursion on the text; DDT from its beginning,
one character at a time, with a buffer that wraps, a pending operator, fields and
a stack. The proof has four layers. Texts: how deep each place is, what a part
of a text, two joined and one enclosed make of it (`DepthWithin`, `JoinedIs`,
`EnclosedIs`), and where the last operator and the last group are (`LastIs`,
`OpeningIs`). Meaning: the recursion of `Means` has one solution (`Solved`,
`MeansIs`, by `Induction` on the length), so that a text that means something is a
number, a sum and a term, or ends in a group that is swapped (`SumCases`,
`LineCases`). Expressions: `Amasses(s, e)` is that `e` is what DDT has of `s`,
whichever way `s` may still turn out to be read: as a value, a value and an
operator, or either behind the head of an instruction. Combining the buffer, an
operator, a separator and a closing parenthesis each keep it (`AmassesAdded`,
`AmassesOperated`, `AmassesSeparated`, `AmassesClosed`), and where the buffer has
wrapped it says nothing (`AmassesWrapped`). The line: `LineInv` is that the line
is the groups that are open, for each of which the stack holds what was amassed
before it (`Stacked`), then what `as` amasses, then the buffer, or that it closed a
parenthesis too many and can no longer mean anything (`Lost`). Below its own
groups the stack may hold what errors left there, as the code does not reset
it. Where a line with a meaning ends no group is open, and `endword()` makes the
word of what it amassed (`WordEnded`, `InstructionEnded`). It needs a left half with
a bit for each field (`Half % 16 = 0`) and a buffer of more than one character
(`BufLen > 1`).

`MemCycleProofs.tla` proves, for every set of addresses and words and however
long the memory takes:

- `Invariance`, `Types`: `Spec => []IInv`, `Spec => []TypeOK`.
- `CycleInvariance`: `Spec => [](IInv /\ CycleInv)`.
- `ReadsTheLastWord`: `Spec => []Consistent`.
- `AnswersARequest`: `Spec => []AnsweredOnce`.
- `OnlyMissingMemoryTimesOut`: `Spec => []NoFalseNxm`.
- `StandsOnlyWhenStopped`: `Spec => []NeverHangs`.
- `OneContinueWillDo`: `Spec => []ContinuesOnce`.
- `RequestsAreHeld`: `Spec => PortHeld`.

The types are of every variable; a delay is armed with its own length, so its
counter stays within it by itself, also where it is armed again. What the module
fetches is a word of the memory only if it fetches for a request, though, and that
needs to know where it is in its cycle. `IInv` therefore ties the counters of `core256k_x.v` together: there is one
stage, out of the pulses of the chain and the three meetings at which it waits
for the word, the processor or the memory, at which the cycle is (`Chain`), and
the flip-flops of each meeting are what they have to be at that stage (`OpenInv`,
`PauseInv`, `ReadInv`, `WriteInv`). At power-on the flip-flops hold anything,
which may start a cycle: it is over (`Rest`) before the second delay of `pwr`
ends and the processor is ready (`PowerInv`).

The promises of a cycle need both sides. A request is a chain too: the processor
is at one turn of it, a pulse or a wait (`TurnChain`). `CycleInv` says that there
are a stage and a turn that fit together:

- `TurnInv` is the processor's side: which turns belong to what it asked for
  (`CpuInv`), its flip-flops and the memory stop at each (`FlagInv`, `StopInv`),
  how much of the timer is left (`TimeInv`), when its word is on the bus
  (`BusInv`). A split cycle begins its second request while the delay that would
  end a whole one still runs (`Echo`), and a key that breaks off a stop has the
  answer and the word come before it does anything else (`KeyInv`).
- `ServiceInv` is what they have to do with each other: how a request gets to the
  module past its last cycle (`FrontInv`), that a word the module fetches or
  still owes is that of the request at hand (`ServeInv`), when the module lets go of
  the port (`PortInv`), and that the timer outlasts the rest of the cycle before
  (`BoundInv`, with `Rest` clocks of it left and the slowest memory). The last is
  why a time-out means missing memory, and why the module is still by then
  (`AbsentInv`).
- `WordInv` is the data: the memory holds the last word of every address, except
  where the module has it to write or the processor to give (`StoreInv`); MB is
  clear before a word is read into it (`ReadData`), and the module's buffer
  before the processor's word comes. Both only ever have bits set by the
  bus, and nothing makes the buffer's clearing wait for the word: it is the race
  of `cmb_clr` after `rd` against the shortest way from the read restart to the
  write restart, and `BufferInv` proves it won by comparing the clocks each has
  left (`ToClear`, `ToBus`).

A step is proved turn by turn (`Flows` for the pulses, `Goes` for what the rest of
the processor does) and stage by stage, one lemma for each part of the invariant
that can be disturbed there. The assumptions are those of `MemCycle` and
`Core256k`: the four ports and "no port" differ; the timer of a missing memory is
a hundred clocks longer than the slowest memory (it is 100 us in `apr.v`), and a
key comes no sooner after a rest than eight clocks. The proof shows where the
hundred come from: the end of the module's last cycle, and the beginning of the
one asked for.

Every invariant and every action property of the runs is a theorem. Only
model-checked: liveness (`CallsReturn`, `Served`, `StopKeyStops`, `WordArrives`,
`CharLeaves`, `NoLostWakeup`, `GoesDark`, `HaltReported`), which is out of the
prover's reach here, like `ENABLED`.

## Findings

Each has a run that shows the shortest way there. The first two are in what
happens when the front end is late.

- `late_frame`: `ptr.v:67` has `ptr_sr` shift through 36, 30, 24, 18, 12, 6, so
  that a binary word is six frames. If the front end answers the sixth frame
  after its trailing edge, strobe and `ptr_trail` come on the same clock, and
  `ptr_trail` looks at the `ptr_sr` of before the strobe (`ptr.v:124`, with the
  assignments of `ptr.v:182`). The word does not end, a seventh frame is
  read, and the first one is shifted out.
- `late_char`: `ptp.v:151` synchronizes the punch with the front end, so that
  `ptp_done` comes when the write is over and the front end has read. If the front
  end reads only after the next tick, that tick has begun a second write of
  the same character. `ptp_done` comes with the read, the program gives the next
  character, and the end of the second write, with `fe_rs` still up
  (`ptp.v:162`), is done for a character nobody has been asked to read: it is
  lost. `DoneWhenRead` excepts this case and holds in all others.
- `stuck_pixel`: `pixelthread()` takes the intensity `v` of a pixel before the lock
  (`crt.c:198`) and sees from it, under the lock, that the pixel is queued.
  If the drawing thread has drawn that pixel in between and taken it from the
  queue, the new intensity is stored (`crt.c:214`) but the pixel is queued
  nowhere, although the comment at `crt.c:189` says that it is queued. As
  its intensity is no longer 0, no later dot there is queued either: the point
  stays dark until the program ends.

## What is not modelled, and the limits of what is

- The bridges and the SDRAM are external. The host bridge is taken to hold an
  access until the window stops asking it to wait, and to leave an idle clock
  between two of them: without the idle clock `memif` would see no second edge.
- One thread calls `deposit()` and `examine()`. `host/fe/netmem.c` would be a
  second one without a lock; nothing in the program starts it.
- Ports 1 to 3 of the memory module are tied off, as in every top level.
- A key comes only when nothing moves any more. The keys of the panel come from
  the front end with a millisecond between them, and a memory cycle takes a
  few microseconds; but a continue pressed while the cycle is under way would
  be answered twice, once by the key and once by the memory.
- Nobody continues a memory stop in a request that found no memory. `mc_rq`
  stays up through the continue (`apr.v:2989` clears it only on an
  acknowledge), and the next request of the same instruction is then on the
  bus before its address is relocated.
- An address out of bounds ends its instruction 160 ns after the request, the
  memory stop is set at 200 ns. A machine that halts at that instruction is left
  with `mc_stop` up, and memory continue then answers a request that is no more
  (`apr.v:2937`). `AnsweredOnce` states this one exception.
- The processor in `MemCycle` asks for words in any order, and `Interrupts` has
  no memory: the two are not composed yet. The devices other than the paper
  tape, the screen and the DECtape, the KA10's instruction cycle and the rest of
  the host programs are not modelled; `PROJECT.json` lists each with the reason.
- Of the paper tape: the PI assignments of CONO and the requests they make are
  a part of `Interrupts`' free request lines. The bits of a frame are not
  modelled, and neither is `ptp[8:7]` in binary mode of the punch. A DATAI that
  falls on the very clock of a trailing edge is not modelled; a program that
  waits for the flag does not give it. A word begun while the feed key
  has a frame past its middle takes that frame with it; `WordComplete` excepts
  it (`joined`).
- Interrupt locations that PI does not serve well. A CONSO, CONSZ or any other
  instruction that skips, skips an instruction of the interrupted program
  (`apr.v:896` to 907 do not look at `pi_cyc`); so does the last word of a BLT
  (`apr.v:895`). They are modelled, and left out of the locations of run
  `interrupts` and of the theorem about PC. An XCT or an UUO that leads to a
  BLKI or BLKO holds the channel too early, and at the end of the block the
  second word is fetched from 41, as nobody asks any more. A CONO, or a transfer
  after the end of a block, neither holds nor ends the interrupt cycle, and the
  location is fetched again. `Vector` chooses what a run puts there.
- Of the keys, `Interrupts` has stop, continue, start and I/O reset, on a machine
  that rests. Execute on a machine stopped between the two locations of an
  interrupt would end the interrupt cycle in place of the second one.

- Of the front end: `:listf`, `loadsav()`, what is typed and in which mode, and the
  emulator builds (`fake.c`, `emu.c`). `netmem.c` is linked and not started. An
  `examine()` returns any word, and a dump reads core that does not change.
- What DDT does that its help text does not say, and `DepositsTyped` therefore
  leaves out: an error leaves the stack of expressions as it was; a stop reported
  while a location is open shows another one; a `*` or `|` after a closing
  parenthesis is ignored; a `+` between two groups is forgotten, so that the second
  is swapped, and `-(1)+(1)` is not 0; a number longer than the buffer begins again; the
  operator of an empty word (`-` alone) is there for the next one; `^Z` and `◊I`
  keep what was assembled. A division by zero ends the program, and
  writing behind `astack` does what the build does: the model stops before both.
- `Restored` leaves out a load after one whose start address ended in octal 376: its two
  jumps are coded in one byte string, the loader stops at the first, and the
  reader keeps the second for the next file.
- What outruns the front end. A BLT ends with its last word or for an interrupt
  (`apr.v:549`), whatever `run` is: one of more than some 500 words goes on when
  `cpu_stopinst()` returns, and `cpu_start()`, `cpu_setpc()` and `cpu_nextinst()`
  then press START or INSTCONT with its pulses in flight. Behind a HALT, or
  an instruction that is stepped, `run` is off from et0a to st7, some microseconds, and
  a call that finds it so presses its key without any sleep. On the KA10 `run`
  is off while a tape is read in: the front end takes the machine for halted and
  reports it, and a key of that time reaches a moving processor. The model has
  all three as `outrun`, and without that condition TLC finds a START mistimed after
  each of the first two. There is no way for the code to tell, nothing in the
  repository says that it should, and `KeysObeyed` says nothing of them; `HaltReported` leaves out the read-in. Nor is
  an instruction modelled that is in flight when a second is started: `AnyChar`
  waits for `~mistimed`.
- If the processor halts by itself while `cpu_stopmem()` waits, the console says
  that it did not stop; `KeysObeyed` allows the complaint then.
- Of the TU56: one unit, with the write switch on and timing marks not written
  (nothing sets `wrtm_sw`, `td10.v:63`), no end-zone stop and no
  searching. The tape is up to speed after two pulses, so that an answer from
  before a stop cannot meet the first line written after it. No top level
  connects the tape at this commit: `fe_req[31:3]` is 0 on the PDP-6, and
  `td10` and `tu56` are used by `tb/` only. `mnt_dt()` makes the tape from a
  short or new file of whatever memory it gets; the model begins with a
  formatted one.
- Requests of a tape that has never been mounted make `svc_dt()` follow a nil
  pointer: the model has the front end end there (`ServeTape`), and what else
  is promised of it is promised as long as it lives.
- A program that turns the tape while its last line waits to be written has it
  written complemented, with its mark track, as `tu56.v:127` looks at the
  direction when the front end reads. `LineByLine` excepts these lines (`spoiled`),
  and the line after one the program gave up, over which the tape goes twice.
- Of `threading.c`: `canlock()`, `chanfree()` and the table of thread ids. Of
  `crt.c`: colours and the shape of a fade.

## Plan

Memory, interrupts, paper tape, threads, screen, console, DDT, dumps and the
DECtape are done, and every promise of theirs that is not liveness is proved.

What is left to model:

1. `FastMemory`: `fast162_dp.v` as a second module on the bus of `MemCycle`.
2. `Multiply`, `Divide`, `Shift`: the chains over narrow words against integer
   arithmetic.
3. KA10: its memory control and priority interrupt against the PDP-6 modules;
   `PriorityLevels` is the abstract specification of both interrupt systems.
4. `tty.v`, and `td10.v` as the control of `DecTape`.
