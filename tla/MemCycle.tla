------------------------------ MODULE MemCycle ------------------------------
(***************************************************************************)
(* A memory cycle of the PDP-6, end to end: the memory control of the      *)
(* processor (MemCtl), the memory bus (membus_2_connect.v), the core       *)
(* memory module (Core256k) and the memory behind it, one clock to a step. *)
(*                                                                         *)
(* The rest of the processor is the actions below: it asks for a word at   *)
(* the end of its own work, waits for mc_rs_t1, gives back the word of a   *)
(* read-pause-write after some work.  A key is pressed only when nothing   *)
(* moves any more: keys are slow.  The addresses in Absent are the fast    *)
(* memory's, when that is not there to answer.                            *)
(***************************************************************************)
EXTENDS MemCtl, Core256k

CONSTANTS
  Addr, Absent,   \* the addresses, and those no memory answers
  Reset,          \* what the address registers hold before they are used
  Bit,            \* the bits of a word
  Waits,          \* bound: clocks the memory may make the module wait
  Gaps,           \* bound: clocks the processor works between requests
  StopSwitch,     \* bound: the positions the stop switch is put to
  Mode,           \* bound: of "exec" and "user", the modes the program runs in
  Outside,        \* the addresses beyond the bounds of a user program
  KeyDelay        \* clocks from kt1 to kt3

ASSUME MemCycleAssumption ==
  /\ Absent \subseteq Addr
  /\ StopSwitch \subseteq BOOLEAN /\ FALSE \in StopSwitch
  /\ Mode \subseteq {"exec", "user"} /\ Outside \subseteq Addr
  /\ Waits \subseteq Nat /\ Waits # {}
  /\ Gaps \subseteq Nat /\ Gaps # {}
  \* the steps of a key outlast the answer to the one it breaks off, and the
  \* timer outlasts a memory, and the cycle of the request before
  /\ KeyDelay \in Nat /\ KeyDelay >= 8
  /\ NxmDelay \in Nat /\ \A w \in Waits : NxmDelay >= w + 100

Word == SUBSET Bit
Core == Addr \ Absent

VARIABLES
  cpu,        \* what it does, or the request it waits for
  rel,        \* how the address of the request is relocated
  rest,       \* clocks until the processor next has to do with memory
  store, lag, \* the memory, and the clocks it makes the module wait
  latest      \* the word each address was last given (history)

vars == <<mcVars, moduleVars, cpu, rel, rest, store, lag, latest>>

Request == {"rd", "wr", "rdwr"}
Awaits == Request \cup {"rs"}

(***************************************************************************)
(* The bus: one processor, one core memory; the data lines are an OR of    *)
(* all that drive them, the processor's own word included.                 *)
(***************************************************************************)
TiedOff == [rq_cyc |-> FALSE, rd_rq |-> FALSE, wr_rq |-> FALSE, ma |-> Reset,
            mb_in |-> {}, wr_rs |-> FALSE]
BusMb == mc_membus_mb \cup mb_out(0)
ToModule == [p \in Port |->
               IF p = 0 THEN [McBus EXCEPT !.rq_cyc = @ /\ ma \notin Absent, !.mb_in = BusMb]
               ELSE TiedOff]
ToProcessor == [addr_ack |-> addr_ack(0), rd_rs |-> rd_rs(0), mb |-> BusMb]

(***************************************************************************)
(* The memory behind the module holds a request for lag clocks.            *)
(***************************************************************************)
Fetched == IF m_read THEN store[cma] ELSE {}
Requested == m_read \/ m_write
m_waitrequest == lag > 0

MemoryClock ==
  /\ store' = IF m_write /\ ~m_waitrequest THEN [store EXCEPT ![cma] = cmb] ELSE store
  /\ IF (m_read \/ m_write)' /\ ~(Requested /\ m_waitrequest)
     THEN lag' \in Waits
     ELSE lag' = IF lag = 0 THEN 0 ELSE lag - 1

\* One clock of the machine: x is what the rest of the processor does.
Clock(does) ==
  \E x \in {does}, toProcessor \in {ToProcessor}, toModule \in {ToModule} :
  /\ McClock(x, toProcessor)
  /\ ModuleClock(toModule, m_waitrequest, Fetched, Reset)
  /\ MemoryClock

Does(op) == [op |-> op, word |-> {}, addr |-> Reset, rel |-> rel, stop |-> FALSE,
             disable |-> FALSE]

Awaiting == cpu \in Awaits

\* Nothing is coming any more: no pulse, no word, no amplifier to rise.
Quiet == /\ \A p \in McPulse : due[p] = 0
         /\ \A p \in Pulse : left[p] = 0
         /\ ~Requested
         /\ \A p \in Pulse \ high : ~Cause(ToModule)[p]

(***************************************************************************)
(* The actions of the processor.                                           *)
(***************************************************************************)
Ready ==
  /\ (cpu = "off" /\ Quiet) \/ (cpu = "keyed" /\ rest = 0)
  /\ Clock(Does("none"))
  /\ cpu' = "idle"
  /\ UNCHANGED <<rel, rest, latest>>

\* It works, or waits; the switches are looked at only when they matter.
Rests(stop, disable) ==
  /\ IF cpu = "off" THEN ~Quiet ELSE Awaiting \/ cpu = "halted" \/ rest > 0
  /\ ~(Awaiting /\ (is("rs_t1") \/ is("illeg")))
  /\ is("D2") \/ ~stop
  /\ is("nxm") \/ ~disable
  /\ Clock([Does("none") EXCEPT !.stop = stop, !.disable = disable])
  /\ rest' = IF rest = 0 THEN 0 ELSE rest - 1
  /\ UNCHANGED <<cpu, rel, latest>>

\* ex_inh_rel, pr_rel_AND_ma_ok, pr_rel_AND_NOT_ma_ok
Relocated(a, mode) ==
  IF mode = "exec" THEN "inh" ELSE IF a \in Outside THEN "bad" ELSE "ok"

Ask(op, a, w, mode) ==
  /\ cpu \in {"idle", "addressed"} /\ rest = 0
  /\ op = "wr" \/ w = {}
  /\ Clock([Does(op) EXCEPT !.addr = a, !.word = w])
  /\ cpu' = op /\ rel' = Relocated(a, mode)
  /\ latest' = IF op = "wr" /\ rel' # "bad" /\ a \in Core
             THEN [latest EXCEPT ![a] = w] ELSE latest
  /\ UNCHANGED rest

\* The end of a request: its answer, or an address out of bounds, which ends
\* the instruction (st7).
Answered ==
  /\ Awaiting /\ (is("rs_t1") \/ is("illeg"))
  /\ Clock(Does("none"))
  /\ cpu' = IF is("illeg") THEN "trap" ELSE IF cpu = "rdwr" THEN "paused" ELSE "idle"
  /\ rest' \in Gaps
  /\ UNCHANGED <<rel, latest>>

\* Between two requests: a new instruction begins (it0) and clears what the
\* last one left, or the address of an operand is ready while a stop switch
\* is up (at4).
NewInstruction ==
  /\ cpu = "trap" \/ (cpu = "idle" /\ (mc_rd \/ mc_wr \/ mc_rq \/ mc_stop_sync))
  /\ rest = 0
  /\ Clock(Does("it0"))
  /\ cpu' = "idle" /\ rel' = "inh"
  /\ UNCHANGED <<rest, latest>>

\* The instruction was the last one: the machine halts.
Halt ==
  /\ cpu \in {"idle", "trap"} /\ rest = 0
  /\ Clock(Does("none"))
  /\ cpu' = "halted"
  /\ UNCHANGED <<rel, rest, latest>>

AddressWithStop ==
  /\ cpu = "idle" /\ rest = 0
  /\ Clock(Does("at4"))
  /\ cpu' = "addressed"
  /\ UNCHANGED <<rel, rest, latest>>

GiveBack(w) ==
  /\ cpu = "paused" /\ rest = 0
  /\ Clock([Does("rs") EXCEPT !.word = w])
  /\ cpu' = "rs"
  /\ latest' = IF ma \in Core THEN [latest EXCEPT ![ma] = w] ELSE latest
  /\ UNCHANGED <<rel, rest>>

\* Stopped in a memory cycle or halted: memory continue, or any other key.
\* Nobody continues a cycle that found no memory: it would leave mc_rq up for
\* the next request of the instruction, which then skips its relocation.
AtRest == Quiet /\ (Awaiting \/ cpu = "halted")

Continue ==
  /\ AtRest /\ mc_stop /\ ~mc_rq
  /\ Clock(Does("cont"))
  /\ UNCHANGED <<cpu, rel, rest, latest>>

OtherKey ==
  /\ AtRest
  /\ Clock(Does("key"))
  /\ cpu' = "keyed" /\ rest' = KeyDelay
  /\ rel' = "inh"
  /\ UNCHANGED latest

Init ==
  /\ McInit(Reset) /\ ModuleInit(Reset)
  /\ cpu = "off" /\ rel = "inh" /\ rest = 0
  /\ store = [a \in Addr |-> {}] /\ lag = 0
  /\ latest = store

Next ==
  \/ Ready
  \/ \E stop \in StopSwitch, disable \in BOOLEAN : Rests(stop, disable)
  \/ \E op \in Request, a \in Addr, w \in Word, m \in Mode : Ask(op, a, w, m)
  \/ Answered
  \/ NewInstruction
  \/ TRUE \in StopSwitch /\ Halt
  \/ TRUE \in StopSwitch /\ AddressWithStop
  \/ \E w \in Word : GiveBack(w)
  \/ Continue
  \/ OtherKey

Spec == Init /\ [][Next]_vars

(***************************************************************************)
(* Properties.                                                             *)
(***************************************************************************)
\* The flip-flops are that, and a counter never holds more than its delay.
FlipFlopsOK ==
  {mc_rd, mc_wr, mc_rq, mc_stop, mc_stop_sync, mc_split_cyc_sync,
   await_rq, rq_sync, cyc_done, pse_sync, proc_rs, cma_rd_rq, cma_wr_rq, m_read, m_write,
   stb_sync, stb_done, rd_sync, rd_done, wr_sync, wr_done} \subseteq BOOLEAN
WithinDelays ==
  /\ \A p \in Pulse : left[p] <= Delay[p]
  /\ \A p \in McPulse : due[p] <= McDelay[p]
  /\ mb_pulse \in 0 .. 3 /\ rest \in Nat /\ last_proc \in {0, 1}

\* Every variable of the processor's side, of the module and of the memory
\* stays in its range, every counter between 0 and its delay.
TypeOK ==
  /\ cpu \in {"off", "keyed", "idle", "addressed", "trap", "paused", "halted"} \cup Awaits
  /\ left \in [Pulse -> 0 .. 50] /\ high \subseteq Pulse
  /\ due \in [McPulse -> Nat] /\ up \subseteq McPulse
  /\ rel \in {"inh", "ok", "bad"}
  /\ mb \in Word /\ cmb \in Word /\ sa \in Word /\ {ma, cma} \subseteq Addr \cup {Reset}
  /\ act \in Port \cup {NoPort} /\ lag \in Nat
  /\ store \in [Addr -> Word] /\ latest \in [Addr -> Word]
  /\ FlipFlopsOK /\ WithinDelays

\* A word that is read is the word its address was last given, although the
\* module answers a write before the memory has taken it; and when the module
\* is ready for the next cycle, the memory holds the last word of every address.
Consistent ==
  /\ is("rs_t1") /\ cpu \in {"rd", "rdwr"} /\ ma \in Core => mb = latest[ma]
  /\ cpu = "idle" /\ await_rq /\ cyc_done => store = latest

\* A request is answered once: mc_rs_t1 comes only when the processor waits
\* for it, or while a key that broke off a stopped cycle is still in its
\* first steps and nobody listens; not when the machine has halted after a
\* continued cycle and memory continue is pressed once more (FIX_MEMSTOP).
\* A stop on an address out of bounds is the exception: the trap ends the
\* request before the stop comes, and the continue key then answers it.
AnsweredOnce ==
  is("rs_t1") => Awaiting \/ cpu = "keyed" \/ (cpu = "halted" /\ rel = "bad")

\* Memory that exists is never taken for missing, however busy the module is.
NoFalseNxm == is("nxm") => ma \in Absent

\* The machine never stands still in a request, except where a switch of the
\* console made it: the memory stop, or the stop on a missing memory.
NeverHangs == Awaiting /\ Quiet => mc_stop \/ (ma \in Absent /\ mc_rq)

\* One continue is enough for a cycle: when the processor gives back the word
\* of a read-pause-write it is not stopped a second time (FIX_MEMSTOP), except
\* by the request of a split cycle.
ContinuesOnce == cpu = "rs" /\ ~mc_split_cyc_sync => ~mc_stop

\* The module holds a request to the memory, its address and its word, until
\* the memory takes it, and takes a clock of rest before the next: what
\* HostMemory assumes of the core port.
PortHeld ==
  [][ /\ Requested /\ m_waitrequest
         => UNCHANGED <<m_read, m_write, cma>> /\ (m_write => cmb' = cmb)
      /\ Requested /\ ~m_waitrequest => ~Requested']_vars
=============================================================================
