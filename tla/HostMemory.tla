----------------------------- MODULE HostMemory -----------------------------
(***************************************************************************)
(* The core memory as the FPGA top levels wire it: the processor's memory  *)
(* module and the front end's window share one memory through the arbiter. *)
(*                                                                         *)
(*   core256k.mem_master --> memarbit.s0 \                                 *)
(*                                        memarbit.m --> memory_256k       *)
(*   host --> memif --------> memarbit.s1 /                  --> SDRAM     *)
(*                                                                         *)
(* All of it runs on one clock, so a step is one clock edge of everything. *)
(* The SDRAM behind the bridge is external: on any clock it may keep the   *)
(* connected request waiting.  memory_256k passes everything through.      *)
(***************************************************************************)
EXTENDS HostAccess, MemArbit, MemIf

CONSTANT
  MinGap      \* least number of clocks the module's port rests after a cycle

ASSUME HostMemoryAssumption ==
  /\ MinGap \in Nat \ {0}
  /\ Addr # {}
  /\ Half # {}

VARIABLES
  mem,              \* contents of the SDRAM
  c_read, c_write,  \* request registers of the memory module's port
  c_op,             \* the cycle last started at that port
  c_gap,            \* clocks the port still rests
  sa                \* the module's sense amplifiers

coreVars == <<c_read, c_write, c_op, c_gap, sa>>
vars == <<mem, coreVars, arbVars, memIfVars, hostVars>>

Init ==
  /\ mem = [a \in Addr |-> ZeroWord]
  /\ c_read = FALSE
  /\ c_write = FALSE
  /\ c_op = [kind |-> "read", addr |-> ZeroAddr]
  /\ c_gap = 0
  /\ sa = ZeroWord
  /\ ArbInit
  /\ MemIfInit(ZeroAddr, ZeroHalf)
  /\ HostInit

(***************************************************************************)
(* The memory module's master port: address and data are stable while the  *)
(* request is up, and the request drops on the clock it is taken.          *)
(***************************************************************************)
CorePort == [read |-> c_read, write |-> c_write, address |-> c_op.addr,
             data |-> IF c_op.kind = "write" THEN c_op.word ELSE ZeroWord]

CoreRequests ==
  /\ ~c_read /\ ~c_write
  /\ c_gap = 0
  /\ c_op' \in Operation
  /\ c_read' = (c_op'.kind = "read")
  /\ c_write' = (c_op'.kind = "write")
  /\ UNCHANGED <<c_gap, sa>>

CoreTaken(memWait, memData) ==
  /\ Cycle(CorePort)
  /\ ~Wait0(memWait)
  /\ c_read' = FALSE
  /\ c_write' = FALSE
  /\ sa' = IF c_read THEN ReadData0(memData, ZeroWord) ELSE sa
  /\ c_gap' = MinGap
  /\ UNCHANGED c_op

\* A fault: the rest is not ended at zero.  Breaks TypeOK.
CoreRestsPastZero ==
  /\ ~Cycle(CorePort)
  /\ c_gap' = c_gap - 1
  /\ UNCHANGED <<c_read, c_write, c_op, sa>>

CoreRests ==
  /\ ~Cycle(CorePort)
  /\ c_gap > 0
  /\ c_gap' = c_gap - 1
  /\ UNCHANGED <<c_read, c_write, c_op, sa>>

CoreStays(memWait) ==
  /\ \/ ~Cycle(CorePort) /\ c_gap = 0
     \/ Cycle(CorePort) /\ Wait0(memWait)
  /\ UNCHANGED coreVars

CoreClock(memWait, memData) ==
  \/ CoreRequests
  \/ CoreTaken(memWait, memData)
  \/ CoreRests
  \/ CoreStays(memWait)

(***************************************************************************)
(* The memory: a request it does not keep waiting takes effect.            *)
(***************************************************************************)
request == MemRequest(CorePort, MemIfPort)
memData == IF request.read THEN mem[request.address] ELSE ZeroWord

MemClock(memWait) ==
  mem' = IF request.write /\ ~memWait
         THEN [mem EXCEPT ![request.address] = request.data]
         ELSE mem

Clock(memWait) ==
  /\ MemClock(memWait)
  /\ CoreClock(memWait, memData)
  /\ ArbClock(CorePort, MemIfPort)
  /\ MemIfClock(bus, Wait1(memWait), ReadData1(memData, ZeroWord))
  /\ HostClock(HostWait(bus), SReadData(bus, ZeroHalf))

Next == \E memWait \in BOOLEAN : Clock(memWait)

(***************************************************************************)
(* The clock never stops, the memory does not keep a request waiting for   *)
(* ever, and a call of the front end makes its next access some day.       *)
(***************************************************************************)
Fairness ==
  /\ WF_vars(Next)
  /\ WF_vars(Cycle(request) /\ Clock(FALSE))
  /\ WF_vars(HostNextAccess /\ Next)

Spec == Init /\ [][Next]_vars
FairSpec == Spec /\ Fairness

-----------------------------------------------------------------------------
TypeOK ==
  /\ mem \in [Addr -> Word]
  /\ c_read \in BOOLEAN /\ c_write \in BOOLEAN
  /\ c_op \in Operation
  /\ c_gap \in 0 .. MinGap
  /\ sa \in Word
  /\ sel0 \in BOOLEAN /\ sel1 \in BOOLEAN
  /\ addr \in Addr
  /\ word \in Word
  /\ m_write \in BOOLEAN /\ m_read \in BOOLEAN
  /\ waiting \in BOOLEAN /\ lastWrite \in BOOLEAN /\ lastRead \in BOOLEAN
  /\ call \in Operation
  /\ step \in 0 .. 3
  /\ bus \in Bus
  /\ left \in Half
  /\ result \in Word

-----------------------------------------------------------------------------
(***************************************************************************)
(* The two clients of the memory, as the abstract specification sees them. *)
(***************************************************************************)
corePhase == IF Cycle(CorePort) THEN "called" ELSE IF c_gap > 0 THEN "done" ELSE "idle"

\* The window has been through the memory cycle of the call in progress.
hostDone == \/ call.kind = "read" /\ step = 3
            \/ bus.address = 2 /\ (lastWrite \/ lastRead) /\ ~waiting

hostPhase == IF step = 0 THEN "idle" ELSE IF hostDone THEN "done" ELSE "called"

\* What examine() has read, from the moment the memory was read.
hostOut == IF hostDone /\ call.kind = "read" THEN word ELSE result

Client == {"core", "host"}

Shared == INSTANCE SharedMemory WITH
  phase <- [c \in Client |-> IF c = "core" THEN corePhase ELSE hostPhase],
  op <- [c \in Client |-> IF c = "core" THEN c_op ELSE call],
  out <- [c \in Client |-> IF c = "core" THEN sa ELSE hostOut]

(***************************************************************************)
(* The arbiter, the window and the ports implement an atomic shared        *)
(* memory: no deposit() is lost, done twice or torn into halves, and       *)
(* examine() and the memory module's reads return the word that was there, *)
(* whatever the other side does meanwhile and however slow the memory is.  *)
(***************************************************************************)
Linearizable == Shared!Spec

(***************************************************************************)
(* A request is held until the memory has taken it and its owner drops it: *)
(* neither a change of owner nor new data from the host may disturb it     *)
(* (the rule of the Avalon bus that memarbit's registered selection and    *)
(* memif's waitrequest keep).                                              *)
(***************************************************************************)
RequestHeld ==
  [][Cycle(request) =>
       \/ request' = request
       \/ IF sel0 THEN ~Cycle(CorePort') ELSE ~Cycle(MemIfPort')]_vars

\* Every deposit() and examine() comes back: each of its accesses is taken some
\* day, whatever the memory module asks.
CallsReturn == step # 0 ~> step = 0

(***************************************************************************)
(* How the window and the bridge stand to each other: the window is in a   *)
(* memory cycle only on behalf of the very access that is still on the     *)
(* bus, it asks for one cycle at a time, and holds the host meanwhile.     *)
(***************************************************************************)
WindowServesBus ==
  /\ waiting = (m_read \/ m_write)
  /\ ~(m_read /\ m_write)
  /\ waiting => bus.address = 2 /\ m_write = bus.write /\ m_read = bus.read

(***************************************************************************)
(* What the above rests on: where the call in progress is, what of it the  *)
(* window already holds, and that a request register is up only for the    *)
(* cycle it was raised for.  A window access other than the one that       *)
(* starts a cycle is taken on the clock it appears.                        *)
(***************************************************************************)
CallInProgress ==
  /\ step = 0 => bus = IdleBus
  /\ step = 1 => bus = Access(call, 1)
  /\ step > 0 => bus = IdleBus \/ bus = Access(call, step)
  /\ step > 1 => addr = call.addr
  /\ step = 3 /\ call.kind = "write" => word.rt = call.word.rt
  /\ step = 3 /\ call.kind = "write" /\ bus # IdleBus /\ lastWrite => word = call.word
  /\ step = 3 /\ call.kind = "read" => left = word.lt

EdgesSeen ==
  /\ waiting => lastWrite \/ lastRead
  /\ bus # IdleBus /\ (lastWrite \/ lastRead) =>
       bus.address = 2 /\ lastWrite = bus.write /\ lastRead = bus.read

CoreCycle ==
  /\ c_read => c_op.kind = "read"
  /\ c_write => c_op.kind = "write"
  /\ Cycle(CorePort) => c_gap = 0

\* The memory has one owner at a time.
OneOwner == ~(sel0 /\ sel1)

IInv == TypeOK /\ OneOwner /\ WindowServesBus /\ CallInProgress /\ EdgesSeen /\ CoreCycle
=============================================================================
