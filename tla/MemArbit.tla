------------------------------ MODULE MemArbit ------------------------------
(***************************************************************************)
(* The two-port arbiter in front of the core memory (common/memarbit.v).   *)
(* Port 0 is the memory module's own master port, port 1 the front end's   *)
(* memory window.  The arbiter is clocked: sel0 and sel1 are registers,    *)
(* everything else is combinational on them.                               *)
(*                                                                         *)
(* A port, as the arbiter sees it, is a record                             *)
(*    [read, write, address, data].                                        *)
(***************************************************************************)

VARIABLES
  sel0,       \* port 0 is connected to the memory
  sel1        \* port 1 is connected to the memory

arbVars == <<sel0, sel1>>

\* What the memory is asked for when no port is connected.
NoRequest == [read |-> FALSE, write |-> FALSE]

Cycle(port) == port.read \/ port.write

connected == sel0 \/ sel1

ArbInit == sel0 = FALSE /\ sel1 = FALSE

(***************************************************************************)
(* One clock edge.  A port that has dropped its cycle is disconnected      *)
(* first and costs a clock; port 0 wins when both ask.                     *)
(***************************************************************************)
\* Faults: port 0 stays connected (breaks CallsReturn), or takes the memory
\* away from port 1 in mid cycle (breaks RequestHeld).
FinishedOnlyPort1(p0, p1) == sel1 /\ ~Cycle(p1)
FinishedPreempts(p0, p1) == \/ sel0 /\ ~Cycle(p0)
                            \/ sel1 /\ (~Cycle(p1) \/ Cycle(p0))

Finished(p0, p1) == \/ sel0 /\ ~Cycle(p0)
                    \/ sel1 /\ ~Cycle(p1)

Disconnect(p0, p1) ==
  /\ Finished(p0, p1)
  /\ sel0' = FALSE
  /\ sel1' = FALSE

Connect(p0, p1) ==
  /\ ~Finished(p0, p1)
  /\ ~connected
  /\ sel0' = Cycle(p0)
  /\ sel1' = (~Cycle(p0) /\ Cycle(p1))

Hold(p0, p1) ==
  /\ ~Finished(p0, p1)
  /\ connected
  /\ UNCHANGED arbVars

ArbClock(p0, p1) ==
  \/ Disconnect(p0, p1)
  \/ Connect(p0, p1)
  \/ Hold(p0, p1)

(***************************************************************************)
(* The connection.  An unconnected port is told to wait.                   *)
(***************************************************************************)
MemRequest(p0, p1) == IF sel0 THEN p0 ELSE IF sel1 THEN p1 ELSE NoRequest

Wait0(memWait) == ~sel0 \/ memWait

\* A fault: port 1 takes the memory's answer to port 0 for its own.  Breaks
\* Linearizable.
Wait1Unconnected(memWait) == memWait

Wait1(memWait) == sel0 \/ ~sel1 \/ memWait

ReadData0(memData, zero) == IF sel0 THEN memData ELSE zero
ReadData1(memData, zero) == IF ~sel0 /\ sel1 THEN memData ELSE zero
=============================================================================
