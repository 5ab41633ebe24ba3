-------------------------------- MODULE MemIf --------------------------------
(***************************************************************************)
(* The front end's window on a memory (common/memif.v).  The host sees     *)
(* three words: writing word 0 sets the address, word 1 is the right half  *)
(* and word 2 the left half of the buffer.  Touching word 2 starts the     *)
(* memory cycle: a write deposits the buffer, a read fills it.             *)
(*                                                                         *)
(* The host's side of the bus is a record [write, read, address, data].    *)
(* A 36-bit word is a record [lt, rt] of its halves.                       *)
(***************************************************************************)

VARIABLES
  addr,             \* address register
  word,             \* word buffer
  m_write, m_read,  \* the request to the memory
  waiting,          \* the host is kept waiting
  lastWrite,        \* edge detector of s_write
  lastRead          \* edge detector of s_read

memIfVars == <<addr, word, m_write, m_read, waiting, lastWrite, lastRead>>

MemIfInit(zeroAddr, zeroHalf) ==
  /\ addr = zeroAddr
  /\ word = [lt |-> zeroHalf, rt |-> zeroHalf]
  /\ m_write = FALSE
  /\ m_read = FALSE
  /\ waiting = FALSE
  /\ lastWrite = FALSE
  /\ lastRead = FALSE

MemIfPort == [read |-> m_read, write |-> m_write, address |-> addr, data |-> word]

writeEdge(s) == s.write /\ ~lastWrite

readEdge(s) == s.read /\ ~lastRead

\* Touching word 2 starts a memory cycle.
Req(s) == (writeEdge(s) \/ readEdge(s)) /\ s.address = 2

\* A fault: the host waits one clock only.  Breaks WindowServesBus.
HostWaitOnce(s) == Req(s)

HostWait(s) == Req(s) \/ waiting

\* The memory takes the request on this clock.
WriteDone(mWait) == m_write /\ ~mWait

ReadDone(mWait) == m_read /\ ~mWait

\* What the host reads.
SReadData(s, zeroHalf) ==
  CASE s.address = 1 -> word.rt
    [] s.address = 2 -> word.lt
    [] OTHER -> zeroHalf

(***************************************************************************)
(* One clock edge: s is the host's side of the bus, mWait and mData the    *)
(* memory's answer on this clock.                                          *)
(***************************************************************************)
MemIfClock(s, mWait, mData) ==
  /\ lastWrite' = s.write
  /\ lastRead' = s.read
  /\ addr' = IF writeEdge(s) /\ s.address = 0 THEN s.data ELSE addr
  /\ word' = IF ReadDone(mWait) THEN mData
             ELSE IF writeEdge(s) /\ s.address = 1 THEN [word EXCEPT !.rt = s.data]
             ELSE IF writeEdge(s) /\ s.address = 2 THEN [word EXCEPT !.lt = s.data]
             ELSE word
  /\ m_write' = ((m_write \/ (Req(s) /\ s.write)) /\ ~WriteDone(mWait))
  /\ m_read' = ((m_read \/ (Req(s) /\ ~s.write /\ s.read)) /\ ~ReadDone(mWait))
  /\ waiting' = ((waiting \/ Req(s)) /\ ~WriteDone(mWait) /\ ~ReadDone(mWait))
=============================================================================
