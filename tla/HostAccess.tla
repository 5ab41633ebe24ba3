----------------------------- MODULE HostAccess -----------------------------
(***************************************************************************)
(* The front end's deposit() and examine() (host/fe/6/real.c) as the       *)
(* transactions they make on a memory window: three accesses each, one     *)
(* after the other.  The bridge between the ARM and the FPGA is external:  *)
(* it holds a transaction on the bus until the window stops asking it to   *)
(* wait, and leaves the bus idle for a clock or more between two of them.  *)
(***************************************************************************)
EXTENDS Naturals

CONSTANTS
  Addr,       \* core addresses
  Half        \* contents of an 18-bit half word

Word == [lt : Half, rt : Half]

Operation == [kind : {"read"}, addr : Addr] \cup
             [kind : {"write"}, addr : Addr, word : Word]

ZeroAddr == CHOOSE a \in Addr : TRUE
ZeroHalf == CHOOSE h \in Half : TRUE
ZeroWord == [lt |-> ZeroHalf, rt |-> ZeroHalf]

VARIABLES
  call,       \* the operation last called: write is deposit(), read examine()
  step,       \* the access the call is at, 0 when no call is in progress
  bus,        \* the transaction on the bus
  left,       \* the left half examine() has read so far
  result      \* what the last call returned, when it was examine()

hostVars == <<call, step, bus, left, result>>

\* Accesses to words 0, 1 and 2 of the window.
Bus == [write : BOOLEAN, read : BOOLEAN, address : 0 .. 2, data : Addr \cup Half]

IdleBus == [write |-> FALSE, read |-> FALSE, address |-> 0, data |-> ZeroHalf]
WriteTo(n, x) == [write |-> TRUE, read |-> FALSE, address |-> n, data |-> x]
ReadFrom(n) == [write |-> FALSE, read |-> TRUE, address |-> n, data |-> ZeroHalf]

\* deposit(): address, right half, left half; the last starts the cycle.
DepositAccess(c, n) ==
  CASE n = 1 -> WriteTo(0, c.addr)
    [] n = 2 -> WriteTo(1, c.word.rt)
    [] n = 3 -> WriteTo(2, c.word.lt)

\* examine(): address, left half (which starts the cycle), right half.
ExamineAccess(c, n) ==
  CASE n = 1 -> WriteTo(0, c.addr)
    [] n = 2 -> ReadFrom(2)
    [] n = 3 -> ReadFrom(1)

Access(c, n) == IF c.kind = "write" THEN DepositAccess(c, n)
                                    ELSE ExamineAccess(c, n)

HostInit ==
  /\ call = [kind |-> "read", addr |-> ZeroAddr]
  /\ step = 0
  /\ bus = IdleBus
  /\ left = ZeroHalf
  /\ result = ZeroWord

\* The program calls deposit() or examine(): the address goes onto the bus.
HostCall ==
  /\ step = 0
  /\ call' \in Operation
  /\ step' = 1
  /\ bus' = Access(call', 1)
  /\ left' = ZeroHalf
  /\ result' = ZeroWord

\* The next access of the call goes onto the bus.
HostNextAccess ==
  /\ step > 0
  /\ bus = IdleBus
  /\ bus' = Access(call, step)
  /\ UNCHANGED <<call, step, left, result>>

\* The window takes the access; a read delivers data.
HostAccepted(wait, data) ==
  /\ bus # IdleBus
  /\ ~wait
  /\ bus' = IdleBus
  /\ step' = (step + 1) % 4
  /\ left' = IF call.kind = "read" /\ step = 2 THEN data ELSE left
  /\ result' = IF call.kind = "read" /\ step = 3 THEN [lt |-> left, rt |-> data]
                                                 ELSE result
  /\ UNCHANGED call

\* The bridge holds the access; between accesses the host takes its time.
HostStays(wait) ==
  /\ bus = IdleBus \/ wait
  /\ UNCHANGED hostVars

HostClock(wait, data) ==
  \/ HostCall
  \/ HostNextAccess
  \/ HostAccepted(wait, data)
  \/ HostStays(wait)
=============================================================================
