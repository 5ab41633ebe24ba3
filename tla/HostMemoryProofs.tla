-------------------------- MODULE HostMemoryProofs --------------------------
(***************************************************************************)
(* Proofs about HostMemory for every set of addresses and of half words,   *)
(* every least gap of the memory module's port, and every delay of the     *)
(* SDRAM.                                                                  *)
(***************************************************************************)
EXTENDS HostMemory, TLAPS

\* The values the registers start with are values of their types.
LEMMA ZeroTypes == /\ ZeroAddr \in Addr
                   /\ ZeroHalf \in Half
                   /\ ZeroWord \in Word
  <1>1. ZeroAddr \in Addr
    BY HostMemoryAssumption DEF ZeroAddr
  <1>2. ZeroHalf \in Half
    BY HostMemoryAssumption DEF ZeroHalf
  <1> QED
    BY <1>1, <1>2 DEF ZeroWord, Word

\* The accesses of a call, one by one.
LEMMA Accesses ==
  ASSUME NEW c \in Operation
  PROVE  /\ Access(c, 1) = WriteTo(0, c.addr)
         /\ c.kind = "write" => /\ Access(c, 2) = WriteTo(1, c.word.rt)
                                /\ Access(c, 3) = WriteTo(2, c.word.lt)
         /\ c.kind = "read" => /\ Access(c, 2) = ReadFrom(2)
                               /\ Access(c, 3) = ReadFrom(1)
  <1>1. /\ DepositAccess(c, 1) = WriteTo(0, c.addr)
        /\ DepositAccess(c, 2) = WriteTo(1, c.word.rt)
        /\ DepositAccess(c, 3) = WriteTo(2, c.word.lt)
    BY DEF DepositAccess
  <1>2. /\ ExamineAccess(c, 1) = WriteTo(0, c.addr)
        /\ ExamineAccess(c, 2) = ReadFrom(2)
        /\ ExamineAccess(c, 3) = ReadFrom(1)
    BY DEF ExamineAccess
  <1> QED
    BY <1>1, <1>2 DEF Access

\* The parts of a call have their types.
LEMMA OperationTypes ==
  ASSUME NEW c \in Operation
  PROVE  /\ c.kind \in {"read", "write"}
         /\ c.addr \in Addr
         /\ c.kind = "write" => /\ c.word \in Word
                                /\ c.word.lt \in Half
                                /\ c.word.rt \in Half
                                /\ c.word = [lt |-> c.word.lt, rt |-> c.word.rt]
  BY DEF Operation, Word

\* Every access is a transaction, and none is the idle bus.
LEMMA AccessTypes ==
  ASSUME NEW c \in Operation, NEW n \in 1 .. 3
  PROVE  Access(c, n) \in Bus /\ Access(c, n) # IdleBus
  <1>1. n = 1 \/ n = 2 \/ n = 3
    OBVIOUS
  <1>2. \A x \in Addr \cup Half, k \in 0 .. 2 :
          WriteTo(k, x) \in Bus /\ WriteTo(k, x) # IdleBus
    BY DEF WriteTo, Bus, IdleBus
  <1>3. \A k \in 0 .. 2 : ReadFrom(k) \in Bus /\ ReadFrom(k) # IdleBus
    BY ZeroTypes DEF ReadFrom, Bus, IdleBus
  <1>4. CASE c.kind = "write"
    <2>1. c.addr \in Addr /\ c.word.lt \in Half /\ c.word.rt \in Half
      BY <1>4, OperationTypes
    <2>2. Access(c, 1) \in Bus /\ Access(c, 1) # IdleBus
      BY <1>2, <2>1, Accesses
    <2>3. Access(c, 2) \in Bus /\ Access(c, 2) # IdleBus
      BY <1>2, <1>4, <2>1, Accesses
    <2>4. Access(c, 3) \in Bus /\ Access(c, 3) # IdleBus
      BY <1>2, <1>4, <2>1, Accesses
    <2> QED
      BY <1>1, <2>2, <2>3, <2>4
  <1>5. CASE c.kind = "read"
    <2>1. c.addr \in Addr
      BY OperationTypes
    <2>2. Access(c, 1) \in Bus /\ Access(c, 1) # IdleBus
      BY <1>2, <2>1, Accesses
    <2>3. Access(c, 2) \in Bus /\ Access(c, 2) # IdleBus
      BY <1>3, <1>5, Accesses
    <2>4. Access(c, 3) \in Bus /\ Access(c, 3) # IdleBus
      BY <1>3, <1>5, Accesses
    <2> QED
      BY <1>1, <2>2, <2>3, <2>4
  <1> QED
    BY <1>4, <1>5, OperationTypes

LEMMA InitIInv == Init => IInv
  <1> SUFFICES ASSUME Init PROVE IInv
    OBVIOUS
  <1> USE ZeroTypes DEF Init
  <1>1. TypeOK
    <2>1. [kind |-> "read", addr |-> ZeroAddr] \in Operation
      BY DEF Operation
    <2>2. IdleBus \in Bus
      BY DEF IdleBus, Bus
    <2>3. [a \in Addr |-> ZeroWord] \in [Addr -> Word]
      OBVIOUS
    <2>4. word \in Word
      BY DEF MemIfInit, Word
    <2>5. c_gap \in 0 .. MinGap /\ step \in 0 .. 3
      BY HostMemoryAssumption DEF HostInit
    <2>6. mem \in [Addr -> Word] /\ c_op \in Operation /\ call \in Operation /\ bus \in Bus
      BY <2>1, <2>2, <2>3 DEF HostInit
    <2> QED
      BY <2>4, <2>5, <2>6 DEF TypeOK, ArbInit, MemIfInit, HostInit
  <1>2. WindowServesBus
    BY DEF WindowServesBus, MemIfInit
  <1>3. CallInProgress
    BY DEF CallInProgress, HostInit
  <1>4. EdgesSeen
    BY DEF EdgesSeen, MemIfInit, HostInit
  <1>5. CoreCycle
    BY DEF CoreCycle, Cycle, CorePort
  <1>6. OneOwner
    BY DEF OneOwner, ArbInit
  <1> QED
    BY <1>1, <1>2, <1>3, <1>4, <1>5, <1>6 DEF IInv

-----------------------------------------------------------------------------
(***************************************************************************)
(* What one clock does to the window, by the access on the bus.            *)
(***************************************************************************)
OneSided(s) == \/ s.write = TRUE /\ s.read = FALSE
               \/ s.write = FALSE /\ s.read = TRUE

\* Nothing on the bus: the window does nothing and forgets the last access.
LEMMA WindowIdle ==
  ASSUME TypeOK, WindowServesBus, bus = IdleBus,
         NEW mWait, NEW mData, MemIfClock(bus, mWait, mData)
  PROVE  /\ UNCHANGED <<addr, word, m_write, m_read, waiting>>
         /\ ~waiting /\ ~m_write /\ ~m_read
         /\ lastWrite' = FALSE /\ lastRead' = FALSE
  BY DEF TypeOK, WindowServesBus, MemIfClock, IdleBus, Req, writeEdge, readEdge,
         WriteDone, ReadDone

\* An access to word 0 or 1 is taken on the clock it appears.
LEMMA WindowRegister ==
  ASSUME TypeOK, WindowServesBus, EdgesSeen, bus # IdleBus, bus.address \in {0, 1},
         NEW mWait, NEW mData, MemIfClock(bus, mWait, mData)
  PROVE  /\ ~HostWait(bus)
         /\ UNCHANGED <<m_write, m_read, waiting>>
         /\ ~waiting /\ ~m_write /\ ~m_read
         /\ bus.write /\ bus.address = 0 => addr' = bus.data /\ word' = word
         /\ bus.write /\ bus.address = 1 =>
              addr' = addr /\ word' = [word EXCEPT !.rt = bus.data]
         /\ ~bus.write => addr' = addr /\ word' = word
  BY DEF TypeOK, WindowServesBus, EdgesSeen, MemIfClock, Req, writeEdge, readEdge,
         WriteDone, ReadDone, HostWait

\* An access to word 2 starts a memory cycle on the clock it appears.
LEMMA WindowStarts ==
  ASSUME TypeOK, WindowServesBus, EdgesSeen,
         bus.address = 2, OneSided(bus), ~lastWrite, ~lastRead,
         NEW mWait, NEW mData, MemIfClock(bus, mWait, mData)
  PROVE  /\ HostWait(bus)
         /\ waiting' = TRUE
         /\ m_write' = bus.write /\ m_read' = bus.read
         /\ lastWrite' = bus.write /\ lastRead' = bus.read
         /\ addr' = addr
         /\ word' = IF bus.write THEN [word EXCEPT !.lt = bus.data] ELSE word
  BY DEF TypeOK, WindowServesBus, EdgesSeen, MemIfClock, Req, writeEdge, readEdge,
         WriteDone, ReadDone, HostWait, Bus, OneSided

\* The cycle runs until the memory takes it, and only a read fills the buffer.
LEMMA WindowRuns ==
  ASSUME TypeOK, WindowServesBus, EdgesSeen, waiting,
         bus # IdleBus, OneSided(bus),
         NEW mWait \in BOOLEAN, NEW mData, MemIfClock(bus, mWait, mData)
  PROVE  /\ HostWait(bus)
         /\ waiting' = mWait
         /\ m_write' = (bus.write /\ mWait) /\ m_read' = (bus.read /\ mWait)
         /\ lastWrite' = bus.write /\ lastRead' = bus.read
         /\ addr' = addr
         /\ word' = IF bus.read /\ ~mWait THEN mData ELSE word
  BY DEF TypeOK, WindowServesBus, EdgesSeen, MemIfClock, Req, writeEdge, readEdge,
         WriteDone, ReadDone, HostWait, Bus, OneSided

\* After the cycle the host is let go, and nothing happens twice.
LEMMA WindowReleases ==
  ASSUME TypeOK, WindowServesBus, EdgesSeen, ~waiting, lastWrite \/ lastRead,
         bus # IdleBus,
         NEW mWait, NEW mData, MemIfClock(bus, mWait, mData)
  PROVE  /\ ~HostWait(bus)
         /\ UNCHANGED <<addr, word, m_write, m_read, waiting>>
         /\ ~m_write /\ ~m_read
  BY DEF TypeOK, WindowServesBus, EdgesSeen, MemIfClock, Req, writeEdge, readEdge,
         WriteDone, ReadDone, HostWait, Bus

-----------------------------------------------------------------------------
(***************************************************************************)
(* What one clock does to the front end's call, in the terms of the        *)
(* abstract specification.                                                 *)
(***************************************************************************)
HostStay == hostPhase' = hostPhase /\ call' = call /\ hostOut' = hostOut

HostCalls == /\ hostPhase = "idle" /\ hostPhase' = "called"
             /\ call' \in Operation /\ hostOut' \in Word

HostReturns == /\ hostPhase = "done" /\ hostPhase' = "idle"
               /\ call' = call /\ hostOut' = hostOut

HostPerforms(mData) ==
  /\ hostPhase = "called" /\ hostPhase' = "done"
  /\ call' = call
  /\ addr = call.addr
  /\ call.kind = "write" => m_write /\ ~m_read /\ word = call.word /\ hostOut' = hostOut
  /\ call.kind = "read" => m_read /\ ~m_write /\ hostOut' = mData

HostTypes ==
  /\ addr \in Addr
  /\ word \in Word
  /\ m_write \in BOOLEAN /\ m_read \in BOOLEAN
  /\ waiting \in BOOLEAN /\ lastWrite \in BOOLEAN /\ lastRead \in BOOLEAN
  /\ call \in Operation
  /\ step \in 0 .. 3
  /\ bus \in Bus
  /\ left \in Half
  /\ result \in Word

HostOK == HostTypes /\ WindowServesBus /\ CallInProgress /\ EdgesSeen

(***************************************************************************)
(* A clock keeps the window and the call in step with each other, and the  *)
(* call takes effect on the clock its memory cycle is taken, on no other.  *)
(***************************************************************************)
LEMMA HostStep ==
  ASSUME IInv, NEW mWait \in BOOLEAN, NEW mData \in Word,
         MemIfClock(bus, mWait, mData),
         HostClock(HostWait(bus), SReadData(bus, ZeroHalf))
  PROVE  /\ HostOK'
         /\ waiting /\ ~mWait => HostPerforms(mData)
         /\ ~(waiting /\ ~mWait) => HostStay \/ HostCalls \/ HostReturns
  <1> DEFINE Goal == /\ HostOK'
                     /\ waiting /\ ~mWait => HostPerforms(mData)
                     /\ ~(waiting /\ ~mWait) => HostStay \/ HostCalls \/ HostReturns
  <1> SUFFICES Goal
    OBVIOUS
  <1>i. TypeOK /\ WindowServesBus /\ CallInProgress /\ EdgesSeen /\ HostTypes
    BY DEF IInv, TypeOK, HostTypes
  <1>t. call \in Operation /\ step \in 0 .. 3 /\ bus \in Bus
    BY <1>i DEF TypeOK
  <1>1. CASE bus = IdleBus
    <2>w. /\ UNCHANGED <<addr, word, m_write, m_read, waiting>>
          /\ ~waiting /\ ~m_write /\ ~m_read
          /\ lastWrite' = FALSE /\ lastRead' = FALSE
      BY <1>1, <1>i, WindowIdle
    <2>1. CASE HostCall
      <3>1. bus' = Access(call', 1) /\ call' \in Operation /\ step' = 1
            /\ left' = ZeroHalf /\ result' = ZeroWord /\ step = 0
        BY <2>1 DEF HostCall
      <3>2. bus' \in Bus /\ bus' # IdleBus /\ bus'.address = 0
        BY <3>1, AccessTypes, Accesses DEF WriteTo
      <3>3. HostOK'
        <4>1. HostTypes'
          <5>1. step' \in 0 .. 3
            BY <3>1
          <5>2. /\ addr' \in Addr /\ word' \in Word
                /\ m_write' \in BOOLEAN /\ m_read' \in BOOLEAN /\ waiting' \in BOOLEAN
                /\ lastWrite' \in BOOLEAN /\ lastRead' \in BOOLEAN
            BY <1>i, <2>w DEF HostTypes
          <5> QED
            BY <3>1, <3>2, <5>1, <5>2, ZeroTypes DEF HostTypes
        <4>2. WindowServesBus' /\ EdgesSeen'
          BY <1>i, <2>w DEF WindowServesBus, EdgesSeen
        <4>3. CallInProgress'
          BY <3>1 DEF CallInProgress
        <4> QED
          BY <4>1, <4>2, <4>3 DEF HostOK
      <3>4. HostCalls
        BY <1>1, <1>i, <2>w, <3>1, <3>2, ZeroTypes
        DEF HostCalls, hostPhase, hostDone, hostOut, IdleBus, HostTypes
      <3> QED
        BY <2>w, <3>3, <3>4
    <2>2. CASE HostNextAccess
      <3>1. bus' = Access(call, step) /\ step' = step /\ step \in 2 .. 3
            /\ UNCHANGED <<call, left, result>>
        BY <1>1, <1>i, <1>t, <2>2, AccessTypes DEF HostNextAccess, CallInProgress
      <3>2. bus' \in Bus /\ bus' # IdleBus
        BY <1>t, <3>1, AccessTypes
      <3>3. HostOK'
        <4>1. HostTypes'
          BY <1>i, <2>w, <3>1, <3>2 DEF HostTypes
        <4>2. WindowServesBus' /\ EdgesSeen'
          BY <1>i, <2>w DEF WindowServesBus, EdgesSeen
        <4>3. CallInProgress'
          BY <1>i, <2>w, <3>1 DEF CallInProgress
        <4> QED
          BY <4>1, <4>2, <4>3 DEF HostOK
      <3>4. HostStay
        BY <1>1, <1>t, <2>w, <3>1, <3>2 DEF HostStay, hostPhase, hostDone, hostOut, IdleBus
      <3> QED
        BY <2>w, <3>3, <3>4
    <2>3. CASE UNCHANGED hostVars
      <3>1. UNCHANGED <<call, step, bus, left, result>>
        BY <2>3 DEF hostVars
      <3>2. HostOK'
        BY <1>1, <1>i, <2>w, <3>1
        DEF HostOK, HostTypes, WindowServesBus, CallInProgress, EdgesSeen
      <3>3. HostStay
        BY <1>1, <2>w, <3>1 DEF HostStay, hostPhase, hostDone, hostOut, IdleBus
      <3> QED
        BY <2>w, <3>2, <3>3
    <2> QED
      BY <1>1, <2>1, <2>2, <2>3 DEF HostClock, HostAccepted, HostStays
  <1>2. CASE bus # IdleBus
    <2>1. bus = Access(call, step) /\ step \in 1 .. 3
      BY <1>2, <1>i, <1>t DEF CallInProgress
    <2>2. ~HostWait(bus) => HostAccepted(FALSE, SReadData(bus, ZeroHalf))
      BY <1>2, <2>1 DEF HostClock, HostCall, HostNextAccess, HostAccepted, HostStays
    <2>3. HostWait(bus) => UNCHANGED <<call, step, bus, left, result>>
      BY <1>2, <2>1
      DEF HostClock, HostCall, HostNextAccess, HostAccepted, HostStays, hostVars
    <2>4. /\ step = 1 => bus = WriteTo(0, call.addr)
          /\ step = 2 /\ call.kind = "write" => bus = WriteTo(1, call.word.rt)
          /\ step = 2 /\ call.kind = "read" => bus = ReadFrom(2)
          /\ step = 3 /\ call.kind = "write" => bus = WriteTo(2, call.word.lt)
          /\ step = 3 /\ call.kind = "read" => bus = ReadFrom(1)
      BY <1>t, <2>1, Accesses
    <2>f. /\ step = 1 => /\ bus.write = TRUE /\ bus.read = FALSE
                         /\ bus.address = 0 /\ bus.data = call.addr
          /\ step = 2 /\ call.kind = "write" =>
               /\ bus.write = TRUE /\ bus.read = FALSE
               /\ bus.address = 1 /\ bus.data = call.word.rt
          /\ step = 2 /\ call.kind = "read" =>
               bus.write = FALSE /\ bus.read = TRUE /\ bus.address = 2
          /\ step = 3 /\ call.kind = "write" =>
               /\ bus.write = TRUE /\ bus.read = FALSE
               /\ bus.address = 2 /\ bus.data = call.word.lt
          /\ step = 3 /\ call.kind = "read" =>
               bus.write = FALSE /\ bus.read = TRUE /\ bus.address = 1
      BY <2>4 DEF WriteTo, ReadFrom
    <2>k. call.kind \in {"read", "write"}
      BY <1>t, OperationTypes
    <2>5. CASE \/ step = 1
               \/ step = 2 /\ call.kind = "write"
               \/ step = 3 /\ call.kind = "read"
      <3>1. bus.address \in {0, 1}
        BY <2>f, <2>5
      <3>2. /\ ~HostWait(bus)
            /\ UNCHANGED <<m_write, m_read, waiting>>
            /\ ~waiting /\ ~m_write /\ ~m_read
            /\ bus.write /\ bus.address = 0 => addr' = bus.data /\ word' = word
            /\ bus.write /\ bus.address = 1 =>
                 addr' = addr /\ word' = [word EXCEPT !.rt = bus.data]
            /\ ~bus.write => addr' = addr /\ word' = word
        BY <1>2, <1>i, <3>1, WindowRegister
      <3>3. HostAccepted(FALSE, SReadData(bus, ZeroHalf))
        BY <2>2, <3>2
      <3>4. bus' = IdleBus /\ call' = call /\ step' = (step + 1) % 4
        BY <3>3 DEF HostAccepted
      <3>l. lastWrite' \in BOOLEAN /\ lastRead' \in BOOLEAN
        BY <1>t DEF MemIfClock, Bus
      <3>5. CASE step = 1
        <4>1. addr' = call.addr /\ word' = word
          BY <2>f, <3>2, <3>5
        <4>2. step' = 2 /\ left' = left /\ result' = result
          BY <3>3, <3>5 DEF HostAccepted
        <4>3. HostOK'
          <5>1. step' \in 0 .. 3 /\ bus' \in Bus /\ call' \in Operation
            BY <1>t, <3>4, <4>2, ZeroTypes DEF Bus, IdleBus
          <5>2. HostTypes'
            BY <1>i, <1>t, <3>2, <4>1, <4>2, <5>1, <3>l, <3>5, OperationTypes DEF HostTypes, Word
          <5>3. WindowServesBus' /\ EdgesSeen'
            BY <1>i, <3>2, <3>4 DEF WindowServesBus, EdgesSeen, IdleBus
          <5>4. CallInProgress'
            BY <1>i, <1>t, <3>4, <4>1, <4>2, OperationTypes, <3>5 DEF CallInProgress, HostTypes, Word
          <5> QED
            BY <5>2, <5>3, <5>4 DEF HostOK
        <4>4. HostStay
          BY <1>i, <2>f, <3>2, <3>4, <3>5, <4>1, <4>2
          DEF HostStay, hostPhase, hostDone, hostOut, IdleBus, CallInProgress, HostTypes, Word
        <4> QED
          BY <3>2, <4>3, <4>4
      <3>6. CASE step = 2 /\ call.kind = "write"
        <4>1. addr' = addr /\ word' = [word EXCEPT !.rt = call.word.rt]
          BY <2>f, <3>2, <3>6
        <4>2. step' = 3 /\ left' = left /\ result' = result
          BY <3>3, <3>6 DEF HostAccepted
        <4>3. HostOK'
          <5>1. step' \in 0 .. 3 /\ bus' \in Bus /\ call' \in Operation
            BY <1>t, <3>4, <4>2, ZeroTypes DEF Bus, IdleBus
          <5>2. HostTypes'
            BY <1>i, <1>t, <3>2, <4>1, <4>2, <5>1, <3>l, <3>6, OperationTypes DEF HostTypes, Word
          <5>3. WindowServesBus' /\ EdgesSeen'
            BY <1>i, <3>2, <3>4 DEF WindowServesBus, EdgesSeen, IdleBus
          <5>4. CallInProgress'
            BY <1>i, <1>t, <3>4, <4>1, <4>2, OperationTypes, <3>6 DEF CallInProgress, HostTypes, Word
          <5> QED
            BY <5>2, <5>3, <5>4 DEF HostOK
        <4>4. HostStay
          BY <1>i, <2>f, <3>2, <3>4, <3>6, <4>1, <4>2
          DEF HostStay, hostPhase, hostDone, hostOut, IdleBus, CallInProgress, HostTypes, Word
        <4> QED
          BY <3>2, <4>3, <4>4
      <3>7. CASE step = 3 /\ call.kind = "read"
        <4>1. addr' = addr /\ word' = word
          BY <2>f, <3>2, <3>7
        <4>2. step' = 0 /\ left' = left /\ result' = [lt |-> left, rt |-> word.rt]
          BY <2>f, <3>3, <3>7 DEF HostAccepted, SReadData
        <4>3. HostOK'
          <5>1. step' \in 0 .. 3 /\ bus' \in Bus /\ call' \in Operation
            BY <1>t, <3>4, <4>2, ZeroTypes DEF Bus, IdleBus
          <5>2. HostTypes'
            BY <1>i, <1>t, <3>2, <4>1, <4>2, <5>1, <3>l, <3>7, OperationTypes DEF HostTypes, Word
          <5>3. WindowServesBus' /\ EdgesSeen'
            BY <1>i, <3>2, <3>4 DEF WindowServesBus, EdgesSeen, IdleBus
          <5>4. CallInProgress'
            BY <1>i, <1>t, <3>4, <4>1, <4>2, OperationTypes, <3>7 DEF CallInProgress, HostTypes, Word
          <5> QED
            BY <5>2, <5>3, <5>4 DEF HostOK
        <4>4. HostReturns
          BY <1>i, <2>f, <3>2, <3>4, <3>7, <4>1, <4>2
          DEF HostReturns, hostPhase, hostDone, hostOut, IdleBus, CallInProgress, HostTypes, Word
        <4> QED
          BY <3>2, <4>3, <4>4
      <3> QED
        BY <2>5, <3>5, <3>6, <3>7
    <2>s. \/ step = 2 /\ call.kind = "read"
          \/ step = 3 /\ call.kind = "write"
          => bus.address = 2 /\ addr = call.addr
      BY <1>i, <2>f DEF CallInProgress
    <2>b. \/ bus.write = TRUE /\ bus.read = FALSE
          \/ bus.write = FALSE /\ bus.read = TRUE
      BY <2>1, <2>k, <2>f
    <2>6. CASE /\ \/ step = 2 /\ call.kind = "read"
                  \/ step = 3 /\ call.kind = "write"
               /\ ~lastWrite /\ ~lastRead
      <3>1. /\ HostWait(bus)
            /\ waiting' = TRUE
            /\ m_write' = bus.write /\ m_read' = bus.read
            /\ lastWrite' = bus.write /\ lastRead' = bus.read
            /\ addr' = addr
            /\ word' = IF bus.write THEN [word EXCEPT !.lt = bus.data] ELSE word
        BY <1>i, <2>b, <2>s, <2>6, WindowStarts DEF OneSided
      <3>2. ~waiting
        BY <1>i, <2>6 DEF EdgesSeen
      <3>3. UNCHANGED <<call, step, bus, left, result>>
        BY <2>3, <3>1
      <3>4. HostOK'
        <4>1. HostTypes'
          BY <1>i, <1>t, <2>f, <2>6, <3>1, <3>3, OperationTypes DEF HostTypes, Word
        <4>2. WindowServesBus' /\ EdgesSeen'
          BY <1>2, <2>f, <2>6, <3>1, <3>3 DEF WindowServesBus, EdgesSeen
        <4>3. CallInProgress'
          BY <1>i, <1>t, <2>f, <2>6, <3>1, <3>3, OperationTypes
          DEF CallInProgress, HostTypes, Word
        <4> QED
          BY <4>1, <4>2, <4>3 DEF HostOK
      <3>5. HostStay
        BY <1>i, <2>f, <2>6, <3>1, <3>2, <3>3 DEF HostStay, hostPhase, hostDone, hostOut
      <3> QED
        BY <3>2, <3>4, <3>5
    <2>7. CASE /\ \/ step = 2 /\ call.kind = "read"
                  \/ step = 3 /\ call.kind = "write"
               /\ waiting
      <3>1. /\ HostWait(bus)
            /\ waiting' = mWait
            /\ m_write' = (bus.write /\ mWait) /\ m_read' = (bus.read /\ mWait)
            /\ lastWrite' = bus.write /\ lastRead' = bus.read
            /\ addr' = addr
            /\ word' = IF bus.read /\ ~mWait THEN mData ELSE word
        BY <1>2, <1>i, <2>b, <2>s, <2>7, WindowRuns DEF OneSided
      <3>2. UNCHANGED <<call, step, bus, left, result>>
        BY <2>3, <3>1
      <3>3. HostOK'
        <4>1. HostTypes'
          BY <1>i, <1>t, <2>f, <2>7, <3>1, <3>2 DEF HostTypes
        <4>2. WindowServesBus' /\ EdgesSeen'
          BY <1>2, <2>f, <2>7, <3>1, <3>2 DEF WindowServesBus, EdgesSeen
        <4>3. CallInProgress'
          BY <1>2, <1>i, <1>t, <2>f, <2>7, <3>1, <3>2
          DEF CallInProgress, EdgesSeen
        <4> QED
          BY <4>1, <4>2, <4>3 DEF HostOK
      <3>4. CASE mWait
        <4>1. HostStay
          BY <1>i, <2>f, <2>7, <3>1, <3>2, <3>4 DEF HostStay, hostPhase, hostDone, hostOut
        <4> QED
          BY <3>3, <3>4, <4>1
      <3>5. CASE ~mWait
        <4>1. HostPerforms(mData)
          BY <1>2, <1>i, <2>f, <2>s, <2>7, <3>1, <3>2, <3>5
          DEF HostPerforms, hostPhase, hostDone, hostOut, WindowServesBus, EdgesSeen,
              CallInProgress
        <4> QED
          BY <2>7, <3>3, <3>5, <4>1
      <3> QED
        BY <3>4, <3>5
    <2>8. CASE /\ \/ step = 2 /\ call.kind = "read"
                  \/ step = 3 /\ call.kind = "write"
               /\ ~waiting /\ (lastWrite \/ lastRead)
      <3>1. /\ ~HostWait(bus)
            /\ UNCHANGED <<addr, word, m_write, m_read, waiting>>
            /\ ~m_write /\ ~m_read
        BY <1>2, <1>i, <2>8, WindowReleases
      <3>2. HostAccepted(FALSE, SReadData(bus, ZeroHalf))
        BY <2>2, <3>1
      <3>3. bus' = IdleBus /\ call' = call /\ result' = result
        BY <2>8, <3>2 DEF HostAccepted
      <3>4. /\ call.kind = "write" => step' = 0 /\ left' = left
            /\ call.kind = "read" => step' = 3 /\ left' = word.lt
        BY <2>f, <2>8, <3>2 DEF HostAccepted, SReadData
      <3>5. HostOK'
        <4>1. HostTypes'
          <5>1. lastWrite' \in BOOLEAN /\ lastRead' \in BOOLEAN
            BY <1>t DEF MemIfClock, Bus
          <5>2. bus' \in Bus /\ step' \in 0 .. 3
            BY <2>8, <3>3, <3>4, ZeroTypes DEF Bus, IdleBus
          <5> QED
            BY <1>i, <2>8, <3>1, <3>3, <3>4, <5>1, <5>2 DEF HostTypes, Word
        <4>2. WindowServesBus' /\ EdgesSeen'
          BY <1>i, <2>8, <3>1, <3>3 DEF WindowServesBus, EdgesSeen, IdleBus
        <4>3. CallInProgress'
          BY <1>i, <2>8, <3>1, <3>3, <3>4 DEF CallInProgress
        <4> QED
          BY <4>1, <4>2, <4>3 DEF HostOK
      <3>6. HostStay \/ HostReturns
        BY <1>i, <2>f, <2>8, <3>1, <3>3, <3>4
        DEF HostStay, HostReturns, hostPhase, hostDone, hostOut, IdleBus
      <3> QED
        BY <2>8, <3>5, <3>6
    <2> QED
      BY <2>1, <2>k, <2>5, <2>6, <2>7, <2>8
  <1> QED
    BY <1>1, <1>2

-----------------------------------------------------------------------------
(***************************************************************************)
(* The same for the memory module's port.                                  *)
(***************************************************************************)
CoreTypes == /\ c_read \in BOOLEAN /\ c_write \in BOOLEAN
             /\ c_op \in Operation
             /\ c_gap \in 0 .. MinGap
             /\ sa \in Word

CoreStay == corePhase' = corePhase /\ c_op' = c_op /\ sa' = sa

CoreCalls == /\ corePhase = "idle" /\ corePhase' = "called"
             /\ c_op' \in Operation /\ sa' = sa

CoreReturns == /\ corePhase = "done" /\ corePhase' = "idle"
               /\ c_op' = c_op /\ sa' = sa

CorePerforms(d) ==
  /\ corePhase = "called" /\ corePhase' = "done"
  /\ c_op' = c_op
  /\ c_op.kind = "write" => c_write /\ ~c_read /\ sa' = sa
  /\ c_op.kind = "read" => c_read /\ ~c_write /\ sa' = d

\* The port's cycle takes effect on the clock it is taken, on no other.
LEMMA CoreStep ==
  ASSUME IInv, NEW memWait \in BOOLEAN, NEW d \in Word, CoreClock(memWait, d)
  PROVE  /\ CoreTypes' /\ CoreCycle'
         /\ (c_read \/ c_write) /\ sel0 /\ ~memWait => CorePerforms(d)
         /\ ~((c_read \/ c_write) /\ sel0 /\ ~memWait) =>
              CoreStay \/ CoreCalls \/ CoreReturns
  <1>i. CoreTypes /\ CoreCycle /\ sel0 \in BOOLEAN
    BY DEF IInv, TypeOK, CoreTypes
  <1>p. Cycle(CorePort) = (c_read \/ c_write)
    BY <1>i DEF Cycle, CorePort, CoreTypes
  <1>1. CASE CoreRequests
    <2>1. /\ ~c_read /\ ~c_write /\ c_gap = 0
          /\ c_op' \in Operation /\ sa' = sa /\ c_gap' = c_gap
          /\ c_read' = (c_op'.kind = "read") /\ c_write' = (c_op'.kind = "write")
      BY <1>1 DEF CoreRequests
    <2>2. c_op'.kind = "read" \/ c_op'.kind = "write"
      BY <2>1, OperationTypes
    <2>3. CoreTypes' /\ CoreCycle'
      BY <1>i, <2>1 DEF CoreTypes, CoreCycle
    <2>4. corePhase = "idle"
      BY <2>1, HostMemoryAssumption DEF corePhase, Cycle, CorePort
    <2>5. Cycle(CorePort)'
      BY <2>1, <2>2 DEF Cycle, CorePort
    <2>6. CoreCalls
      BY <2>1, <2>4, <2>5 DEF CoreCalls, corePhase
    <2> QED
      BY <2>1, <2>3, <2>6
  <1>2. CASE CoreTaken(memWait, d)
    <2>1. /\ c_read \/ c_write
          /\ sel0 /\ ~memWait
          /\ c_read' = FALSE /\ c_write' = FALSE
          /\ sa' = IF c_read THEN d ELSE sa
          /\ c_gap' = MinGap /\ c_op' = c_op
      BY <1>2, <1>i, <1>p DEF CoreTaken, Wait0, ReadData0
    <2>2. CoreTypes' /\ CoreCycle'
      <3>1. ~Cycle(CorePort)'
        BY <2>1 DEF Cycle, CorePort
      <3>2. MinGap \in 0 .. MinGap
        BY HostMemoryAssumption
      <3> QED
        BY <1>i, <2>1, <3>1, <3>2 DEF CoreTypes, CoreCycle
    <2>3. corePhase = "called" /\ corePhase' = "done"
      BY <1>p, <2>1, HostMemoryAssumption DEF corePhase, Cycle, CorePort
    <2>4. CorePerforms(d)
      BY <1>i, <2>1, <2>3, OperationTypes DEF CorePerforms, CoreCycle, CoreTypes
    <2> QED
      BY <2>1, <2>2, <2>4
  <1>3. CASE CoreRests
    <2>1. /\ ~c_read /\ ~c_write /\ c_gap > 0
          /\ c_gap' = c_gap - 1
          /\ UNCHANGED <<c_read, c_write, c_op, sa>>
      BY <1>3, <1>p DEF CoreRests
    <2>2. CoreTypes' /\ CoreCycle'
      BY <1>i, <2>1, HostMemoryAssumption DEF CoreTypes, CoreCycle, Cycle, CorePort
    <2>3. CoreStay \/ CoreReturns
      BY <1>i, <2>1, HostMemoryAssumption
      DEF CoreStay, CoreReturns, corePhase, Cycle, CorePort, CoreTypes
    <2> QED
      BY <2>1, <2>2, <2>3
  <1>4. CASE CoreStays(memWait)
    <2>1. UNCHANGED <<c_read, c_write, c_op, c_gap, sa>>
      BY <1>4 DEF CoreStays, coreVars
    <2>2. ~((c_read \/ c_write) /\ sel0 /\ ~memWait)
      BY <1>4, <1>p DEF CoreStays, Wait0
    <2>3. CoreTypes' /\ CoreCycle'
      BY <1>i, <2>1 DEF CoreTypes, CoreCycle, Cycle, CorePort
    <2>4. CoreStay
      BY <2>1 DEF CoreStay, corePhase, Cycle, CorePort
    <2> QED
      BY <2>2, <2>3, <2>4
  <1> QED
    BY <1>1, <1>2, <1>3, <1>4 DEF CoreClock

(***************************************************************************)
(* The memory's side of a clock: it changes only for the connected port,   *)
(* and each port is answered by the memory or told to wait.                *)
(***************************************************************************)
LEMMA MemStep ==
  ASSUME IInv, NEW memWait \in BOOLEAN, MemClock(memWait)
  PROVE  /\ memData \in Word
         /\ mem' \in [Addr -> Word]
         /\ sel0 /\ c_read => memData = mem[c_op.addr]
         /\ ~sel0 /\ sel1 /\ m_read => memData = mem[addr]
         /\ sel0 /\ c_write /\ ~memWait => mem' = [mem EXCEPT ![c_op.addr] = c_op.word]
         /\ ~sel0 /\ sel1 /\ m_write /\ ~memWait => mem' = [mem EXCEPT ![addr] = word]
         /\ (sel0 => ~c_write) /\ (~sel0 /\ sel1 => ~m_write) => mem' = mem
         /\ memWait => mem' = mem
  <1>i. /\ CoreTypes /\ CoreCycle /\ HostTypes /\ mem \in [Addr -> Word]
        /\ sel0 \in BOOLEAN /\ sel1 \in BOOLEAN
    BY DEF IInv, TypeOK, CoreTypes, HostTypes
  <1>o. /\ c_op.addr \in Addr
        /\ c_op.kind = "write" => c_op.word \in Word
    BY <1>i, OperationTypes DEF CoreTypes
  <1>1. CASE sel0
    <2>1. /\ request.read = c_read /\ request.write = c_write
          /\ request.address = c_op.addr
          /\ c_write => request.data = c_op.word
      BY <1>i, <1>1 DEF request, MemRequest, CorePort, CoreCycle
    <2> QED
      BY <1>1, <1>i, <1>o, <2>1, ZeroTypes DEF memData, MemClock, CoreTypes, CoreCycle
  <1>2. CASE ~sel0 /\ sel1
    <2>1. /\ request.read = m_read /\ request.write = m_write
          /\ request.address = addr /\ request.data = word
      BY <1>2 DEF request, MemRequest, MemIfPort
    <2> QED
      BY <1>2, <1>i, <2>1, ZeroTypes DEF memData, MemClock, HostTypes
  <1>3. CASE ~sel0 /\ ~sel1
    <2>1. request.read = FALSE /\ request.write = FALSE
      BY <1>3 DEF request, MemRequest, NoRequest
    <2> QED
      BY <1>3, <1>i, <2>1, ZeroTypes DEF memData, MemClock
  <1> QED
    BY <1>1, <1>2, <1>3, <1>i

-----------------------------------------------------------------------------
\* The window's answer, whoever is connected.
LEMMA WindowAnswer ==
  ASSUME IInv, NEW memWait \in BOOLEAN, NEW d \in Word
  PROVE  /\ Wait1(memWait) \in BOOLEAN
         /\ ReadData1(d, ZeroWord) \in Word
         /\ ~Wait1(memWait) <=> ~sel0 /\ sel1 /\ ~memWait
         /\ ~Wait1(memWait) => ReadData1(d, ZeroWord) = d
  BY ZeroTypes DEF IInv, TypeOK, Wait1, ReadData1

LEMMA ArbTypes ==
  ASSUME TypeOK, OneOwner, ArbClock(CorePort, MemIfPort)
  PROVE  sel0' \in BOOLEAN /\ sel1' \in BOOLEAN /\ OneOwner'
  <1>1. sel0' \in BOOLEAN /\ sel1' \in BOOLEAN
    BY DEF TypeOK, ArbClock, Disconnect, Connect, Hold, arbVars, Cycle, CorePort, MemIfPort
  <1>2. ~(sel0' /\ sel1')
    <2>1. CASE Disconnect(CorePort, MemIfPort)
      BY <2>1 DEF Disconnect
    <2>2. CASE Connect(CorePort, MemIfPort)
      BY <2>2 DEF Connect, Cycle, CorePort, MemIfPort
    <2>3. CASE Hold(CorePort, MemIfPort)
      BY <2>3 DEF Hold, arbVars, OneOwner
    <2> QED
      BY <2>1, <2>2, <2>3 DEF ArbClock
  <1> QED
    BY <1>1, <1>2 DEF OneOwner

LEMMA NextIInv == IInv /\ [Next]_vars => IInv'
  <1> SUFFICES ASSUME IInv, [Next]_vars PROVE IInv'
    OBVIOUS
  <1>1. CASE Next
    <2>1. PICK memWait \in BOOLEAN : Clock(memWait)
      BY <1>1 DEF Next
    <2>2. memData \in Word /\ mem' \in [Addr -> Word]
      BY <2>1, MemStep DEF Clock
    <2>3. CoreTypes' /\ CoreCycle'
      BY <2>1, <2>2, CoreStep DEF Clock
    <2>4. HostOK'
      BY <2>1, <2>2, WindowAnswer, HostStep DEF Clock
    <2>5. sel0' \in BOOLEAN /\ sel1' \in BOOLEAN /\ OneOwner'
      BY <2>1, ArbTypes DEF Clock, IInv
    <2> QED
      BY <2>2, <2>3, <2>4, <2>5 DEF IInv, TypeOK, HostOK, HostTypes, CoreTypes
  <1>2. CASE UNCHANGED vars
    BY <1>2
    DEF IInv, TypeOK, OneOwner, WindowServesBus, CallInProgress, EdgesSeen, CoreCycle,
        Cycle, CorePort, vars, coreVars, arbVars, memIfVars, hostVars
  <1> QED
    BY <1>1, <1>2

(***************************************************************************)
(* Every reachable state satisfies the inductive invariant: types, a       *)
(* window that serves exactly the access on the bus, and a call whose      *)
(* parts the window already holds.                                         *)
(***************************************************************************)
THEOREM Invariance == Spec => []IInv
  BY InitIInv, NextIInv, PTL DEF Spec

\* Every variable stays in its range, whatever the sizes of memory and word.
THEOREM Types == Spec => []TypeOK
  <1>1. IInv => TypeOK
    BY DEF IInv
  <1> QED
    BY Invariance, <1>1, PTL

\* memif asks the memory only for the access the host is being held at.
THEOREM WindowServesBusHolds == Spec => []WindowServesBus
  <1>1. IInv => WindowServesBus
    BY DEF IInv
  <1> QED
    BY Invariance, <1>1, PTL

-----------------------------------------------------------------------------
(***************************************************************************)
(* The steps of the composition are steps of the abstract shared memory.   *)
(***************************************************************************)
LEMMA SharedInit == Init => Shared!Init
  <1> SUFFICES ASSUME Init PROVE Shared!Init
    OBVIOUS
  <1>t. TypeOK
    BY InitIInv DEF IInv
  <1>1. corePhase = "idle" /\ hostPhase = "idle"
    BY DEF Init, HostInit, corePhase, hostPhase, Cycle, CorePort
  <1>2. hostOut \in Word
    BY <1>t DEF hostOut, TypeOK
  <1> QED
    BY <1>t, <1>1, <1>2 DEF Shared!Init, TypeOK, Shared!Operation, Operation

LEMMA SharedNext == IInv /\ [Next]_vars => [Shared!Next]_(Shared!vars)
  <1> SUFFICES ASSUME IInv, [Next]_vars PROVE [Shared!Next]_(Shared!vars)
    OBVIOUS
  <1>1. CASE UNCHANGED vars
    BY <1>1
    DEF Shared!vars, corePhase, hostPhase, hostDone, hostOut, Cycle, CorePort,
        vars, coreVars, arbVars, memIfVars, hostVars
  <1>2. CASE Next
    <2>1. PICK memWait \in BOOLEAN : Clock(memWait)
      BY <1>2 DEF Next
    <2> DEFINE coreDone == (c_read \/ c_write) /\ sel0 /\ ~memWait
               hostTaken == waiting /\ ~sel0 /\ sel1 /\ ~memWait
    <2>m. /\ memData \in Word
          /\ mem' \in [Addr -> Word]
          /\ sel0 /\ c_read => memData = mem[c_op.addr]
          /\ ~sel0 /\ sel1 /\ m_read => memData = mem[addr]
          /\ sel0 /\ c_write /\ ~memWait => mem' = [mem EXCEPT ![c_op.addr] = c_op.word]
          /\ ~sel0 /\ sel1 /\ m_write /\ ~memWait => mem' = [mem EXCEPT ![addr] = word]
          /\ (sel0 => ~c_write) /\ (~sel0 /\ sel1 => ~m_write) => mem' = mem
          /\ memWait => mem' = mem
      BY <2>1, MemStep DEF Clock
    <2>c. /\ coreDone => CorePerforms(memData)
          /\ ~coreDone => CoreStay \/ CoreCalls \/ CoreReturns
      BY <2>1, <2>m, CoreStep DEF Clock
    <2>h. /\ hostTaken => HostPerforms(memData)
          /\ ~hostTaken => HostStay \/ HostCalls \/ HostReturns
      BY <2>1, <2>m, WindowAnswer, HostStep DEF Clock
    <2>lc. CoreStay \/ CoreCalls \/ CoreReturns => Shared!Local("core")
      BY DEF IInv, TypeOK, CoreStay, CoreCalls, CoreReturns, Shared!Local, Shared!Stay, Shared!Call,
             Shared!Return, Client, Shared!Operation, Operation
    <2>lh. HostStay \/ HostCalls \/ HostReturns => Shared!Local("host")
      BY DEF HostStay, HostCalls, HostReturns, Shared!Local, Shared!Stay, Shared!Call,
             Shared!Return, Client, Shared!Operation, Operation
    <2>i. /\ c_op \in Operation /\ call \in Operation
          /\ c_read \in BOOLEAN /\ c_write \in BOOLEAN
          /\ WindowServesBus
      BY DEF IInv, TypeOK
    <2>3. CASE coreDone
      <3>1. ~hostTaken /\ Shared!Local("host")
        BY <2>3, <2>h, <2>lh
      <3>2. /\ c_op.kind = "read" => sa' = mem[c_op.addr] /\ mem' = mem
            /\ c_op.kind = "write" => sa' = sa /\ mem' = [mem EXCEPT ![c_op.addr] = c_op.word]
        BY <2>3, <2>m, <2>c DEF CorePerforms
      <3>3. Shared!Perform("core")
        BY <2>3, <2>c, <2>i, <3>2, OperationTypes DEF CorePerforms, Shared!Perform, Client
      <3> QED
        BY <3>1, <3>3 DEF Shared!Next, Client
    <2>4. CASE hostTaken
      <3>1. ~coreDone /\ Shared!Local("core")
        BY <2>4, <2>c, <2>lc
      <3>2. /\ call.kind = "read" => hostOut' = mem[call.addr] /\ mem' = mem
            /\ call.kind = "write" =>
                 hostOut' = hostOut /\ mem' = [mem EXCEPT ![call.addr] = call.word]
        BY <2>4, <2>m, <2>h DEF HostPerforms
      <3>3. Shared!Perform("host")
        BY <2>4, <2>h, <2>i, <3>2, OperationTypes DEF HostPerforms, Shared!Perform, Client
      <3> QED
        BY <3>1, <3>3 DEF Shared!Next, Client
    <2>5. CASE ~coreDone /\ ~hostTaken
      <3>1. mem' = mem
        BY <2>5, <2>m, <2>i DEF WindowServesBus
      <3> QED
        BY <2>5, <2>c, <2>h, <2>lc, <2>lh, <3>1 DEF Shared!Next, Client
    <2> QED
      BY <2>3, <2>4, <2>5
  <1> QED
    BY <1>1, <1>2

\* A request that the memory keeps waiting is held, whoever owns the memory.
LEMMA HeldNext ==
  IInv /\ [Next]_vars =>
    (Cycle(request) =>
       \/ request' = request
       \/ IF sel0 THEN ~Cycle(CorePort') ELSE ~Cycle(MemIfPort'))
  <1> SUFFICES ASSUME IInv, [Next]_vars, Cycle(request)
               PROVE  \/ request' = request
                      \/ IF sel0 THEN ~Cycle(CorePort') ELSE ~Cycle(MemIfPort')
    OBVIOUS
  <1>1. CASE UNCHANGED vars
    BY <1>1 DEF vars, coreVars, arbVars, memIfVars, request, MemRequest, CorePort, MemIfPort
  <1>2. CASE Next
    <2>1. PICK memWait \in BOOLEAN : Clock(memWait)
      BY <1>2 DEF Next
    <2>a. \/ sel0 /\ ~Cycle(CorePort)
          \/ sel1 /\ ~Cycle(MemIfPort)
          \/ sel0' = sel0 /\ sel1' = sel1
          \/ ~sel0 /\ ~sel1
      BY <2>1 DEF Clock, ArbClock, Finished, Disconnect, Connect, Hold, arbVars, connected
    <2>2. CASE sel0
      <3>1. request = CorePort /\ (c_read \/ c_write)
        BY <2>2 DEF request, MemRequest, Cycle, CorePort
      <3>2. \/ UNCHANGED <<c_read, c_write, c_op>>
            \/ c_read' = FALSE /\ c_write' = FALSE
        BY <2>1, <3>1 DEF Clock, CoreClock, CoreRequests, CoreTaken, CoreRests, CoreStays,
                          coreVars, Cycle, CorePort
      <3>3. CorePort' = CorePort \/ ~Cycle(CorePort')
        BY <3>2 DEF CorePort, Cycle
      <3>4. sel0' = sel0
        BY <2>2, <2>a, <3>1 DEF IInv, OneOwner
      <3>5. request' = CorePort'
        BY <2>2, <3>4 DEF request, MemRequest
      <3> QED
        BY <2>2, <3>1, <3>3, <3>5
    <2>3. CASE ~sel0 /\ sel1
      <3>1. request = MemIfPort /\ (m_read \/ m_write)
        BY <2>3 DEF request, MemRequest, Cycle, MemIfPort
      <3>2. waiting /\ bus # IdleBus /\ OneSided(bus)
        BY <3>1 DEF IInv, TypeOK, WindowServesBus, OneSided, IdleBus
      <3>3. memData \in Word
        BY <2>1, MemStep DEF Clock
      <3>4. /\ m_write' = (bus.write /\ Wait1(memWait))
            /\ m_read' = (bus.read /\ Wait1(memWait))
            /\ addr' = addr
            /\ word' = IF bus.read /\ ~Wait1(memWait) THEN ReadData1(memData, ZeroWord)
                                                      ELSE word
        BY <2>1, <3>2, <3>3, WindowAnswer, WindowRuns DEF Clock, IInv
      <3>5. m_write = bus.write /\ m_read = bus.read
        BY <3>2 DEF IInv, WindowServesBus
      <3>6. MemIfPort' = MemIfPort \/ ~Cycle(MemIfPort')
        <4>1. CASE Wait1(memWait)
          <5>1. m_write' = m_write /\ m_read' = m_read /\ addr' = addr /\ word' = word
            BY <3>2, <3>4, <3>5, <4>1 DEF OneSided
          <5> QED
            BY <5>1 DEF MemIfPort
        <4>2. CASE ~Wait1(memWait)
          BY <3>4, <4>2 DEF MemIfPort, Cycle
        <4> QED
          BY <4>1, <4>2
      <3>7. sel0' = sel0 /\ sel1' = sel1
        BY <2>3, <2>a, <3>1
      <3>8. request' = MemIfPort'
        BY <2>3, <3>7 DEF request, MemRequest
      <3> QED
        BY <2>3, <3>1, <3>6, <3>8
    <2> QED
      BY <2>2, <2>3 DEF request, MemRequest, NoRequest, Cycle
  <1> QED
    BY <1>1, <1>2

(***************************************************************************)
(* What a port asks of the memory does not change under the memory's hands *)
(* (Avalon: a master holds a request while it is told to wait).            *)
(***************************************************************************)
THEOREM HoldsRequests == Spec => RequestHeld
  BY HeldNext, Invariance, PTL DEF Spec, RequestHeld

(***************************************************************************)
(* The composition implements the atomic shared memory.                    *)
(***************************************************************************)
THEOREM Implements == Spec => Linearizable
  BY SharedInit, SharedNext, Invariance, PTL DEF Spec, Linearizable, Shared!Spec
=============================================================================
