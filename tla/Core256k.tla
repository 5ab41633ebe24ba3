------------------------------ MODULE Core256k ------------------------------
(***************************************************************************)
(* The control of the core memory module (pdp6/core256k_x.v): the timing   *)
(* chain of a PDP-6 core memory, made to wait for a memory of any speed.   *)
(* A read half cycle waits until the word has come (stb_sync/stb_done,     *)
(* rd_sync/rd_done), the next cycle waits until the last write has been    *)
(* taken (wr_sync/wr_done).                                                *)
(*                                                                         *)
(* The module is clocked.  Its pulses are all either a pulse amplifier     *)
(* (rtl/modules_50.v: one clock, one clock after its input rises) or a     *)
(* delay (rtl/dly_50.v: one clock, n clocks after its input).  left[p] is  *)
(* the number of clocks until pulse p, which is on when left[p] = 1.  A    *)
(* word is the set of its one bits, so that the module's OR into the       *)
(* buffer is a union.                                                      *)
(*                                                                         *)
(* Every top level ties sw_single_step and sw_restart to 0: they and       *)
(* cmc_stop, which only they use, are left out.                            *)
(***************************************************************************)
EXTENDS Integers

CONSTANT NoPort       \* no processor port is connected

Port == 0 .. 3

ASSUME NoPortAssumption == NoPort \notin Port

\* Clocks of 20 ns.  ldly1us stands for the power-up delays.
Delay ==
  [pwr_t2 |-> 50, pwr_t3 |-> 50, start |-> 1, t0 |-> 1, t0_D |-> 5, t1b |-> 1,
   addr_ack |-> 1, t1a |-> 1, cmb_clr |-> 1, t2 |-> 12, t2_D1 |-> 3, strobe |-> 1,
   read_off |-> 10, stb |-> 1, rd_rs |-> 1, rd |-> 1, pse_set |-> 5, rs_D |-> 2,
   proc_rs |-> 1, t3 |-> 1, state_clr |-> 1, t4 |-> 2, t3_D1 |-> 25, t5 |-> 1,
   t3_D2 |-> 10, t6p |-> 1, t6 |-> 12, wr |-> 1]

Pulse == DOMAIN Delay

VARIABLES
  left,               \* clocks to go until each pulse, 0 when none is coming
  high,               \* the pulse amplifiers whose input was up on the last clock
  act,                \* the port whose processor the module is serving
  last_proc,          \* who of ports 2 and 3 was served last
  await_rq, rq_sync, cyc_done, pse_sync, proc_rs,
  cma, cma_rd_rq, cma_wr_rq,  \* the request, as jammed at t1b
  cmb,                \* the buffer
  sa,                 \* the word from the memory
  m_read, m_write,    \* the request to the memory
  stb_sync, stb_done, rd_sync, rd_done, wr_sync, wr_done

schedule == <<left, high>>
control == <<act, last_proc, await_rq, rq_sync, cyc_done, pse_sync, proc_rs>>
request == <<cma, cma_rd_rq, cma_wr_rq>>
handshake == <<m_read, m_write, stb_sync, stb_done, rd_sync, rd_done, wr_sync, wr_done>>
moduleVars == <<schedule, control, request, cmb, sa, handshake>>

on(p) == left[p] = 1

(***************************************************************************)
(* The processors' side of the bus: b[p] is a record                       *)
(*   [rq_cyc, rd_rq, wr_rq, ma, mb_in, wr_rs].                             *)
(* A bus is the record of a port, Idle on a port that is tied off.         *)
(***************************************************************************)
Requests(b) == {p \in Port : b[p].rq_cyc /\ await_rq}

\* Port 0 before port 1 before 2 and 3, which take turns.
Granted(b) ==
  LET rq == Requests(b) IN
  IF 0 \in rq THEN 0
  ELSE IF 1 \in rq THEN 1
  ELSE IF {2, 3} \subseteq rq THEN (IF last_proc = 1 THEN 2 ELSE 3)
  ELSE IF 2 \in rq THEN 2 ELSE 3

Selected(p) == act = p
mb_in(b) == IF act = NoPort THEN {} ELSE b[act].mb_in
rs_set(b) == act # NoPort /\ b[act].wr_rs

aw_rq_set == on("t0_D") /\ act = NoPort
rq_sync_set == on("t0_D") /\ act # NoPort

\* The next cycle waits until the last write has been taken.
\* A fault: it does not wait.  Breaks Consistent.
t1b_early == rq_sync
t1b_set == rq_sync /\ cyc_done

\* What makes each pulse: the input of its amplifier or delay.
Cause(b) ==
  [pwr_t2 |-> FALSE,
   pwr_t3 |-> on("pwr_t2"),
   start |-> on("pwr_t3"),
   t0 |-> Requests(b) # {},
   t0_D |-> on("t0"),
   t1b |-> t1b_set,
   addr_ack |-> on("t1b") /\ act # NoPort,
   t1a |-> on("t1b"),
   cmb_clr |-> on("t1b") \/ (on("pse_set") /\ cma_rd_rq /\ cma_wr_rq),
   t2 |-> on("t1a"),
   t2_D1 |-> on("t2"),
   strobe |-> on("t2_D1") /\ cma_rd_rq,
   read_off |-> on("t2"),
   stb |-> stb_sync /\ stb_done,
   rd_rs |-> on("stb"),
   rd |-> rd_sync /\ rd_done,
   pse_set |-> on("rd"),
   rs_D |-> rs_set(b),
   proc_rs |-> proc_rs,
   t3 |-> pse_sync /\ (proc_rs \/ ~cma_wr_rq),
   state_clr |-> on("start") \/ (on("t3") /\ ~cma_wr_rq) \/ on("proc_rs"),
   t4 |-> on("t3"),
   t3_D1 |-> on("t4"),
   t5 |-> on("start") \/ on("t3_D1"),
   t3_D2 |-> on("t3_D1"),
   t6p |-> on("start") \/ on("t3_D2"),
   t6 |-> on("t6p"),
   wr |-> wr_sync /\ wr_done]

\* A fault: the counter runs on below zero.  Breaks TypeOK.
CountPastZero(n) == n - 1
Count(n) == IF n = 0 THEN 0 ELSE n - 1

Schedule(b) ==
  \E cause \in {Cause(b)} :
    \* an amplifier answers to the rise of its input, a delay to every input
    /\ left' = [p \in Pulse |->
                  IF cause[p] /\ (Delay[p] > 1 \/ p \notin high) THEN Delay[p]
                  ELSE Count(left[p])]
    /\ high' = {p \in Pulse : cause[p] /\ Delay[p] = 1}

\* Who is served: a request connects its port, the end of its use clears it.
Control(b) ==
  /\ act' = IF Requests(b) # {} THEN Granted(b)
            ELSE IF on("state_clr") THEN NoPort ELSE act
  /\ last_proc' = IF on("t2") /\ act = 2 THEN 0
                  ELSE IF on("t2") /\ act = 3 THEN 1
                  ELSE IF Requests(b) = {2, 3} THEN 1 - last_proc
                  ELSE last_proc
  /\ await_rq' = IF on("t5") \/ aw_rq_set THEN TRUE
                 ELSE IF on("t0") \/ left["pwr_t2"] > 0 THEN FALSE ELSE await_rq
  /\ rq_sync' = IF on("t2") THEN FALSE
                ELSE IF rq_sync_set THEN TRUE
                ELSE IF on("start") \/ left["pwr_t3"] > 0 THEN FALSE ELSE rq_sync
  /\ cyc_done' = IF on("t2") THEN FALSE
                 ELSE IF on("wr") THEN TRUE
                 ELSE IF left["pwr_t3"] > 0 THEN FALSE ELSE cyc_done
  /\ pse_sync' = IF on("pse_set") THEN TRUE ELSE IF on("t1b") THEN FALSE ELSE pse_sync
  /\ proc_rs' = IF on("rs_D") THEN TRUE ELSE IF on("t1b") THEN FALSE ELSE proc_rs

\* The address and the kind of cycle are taken from the bus at t1b.
Jam(b, zero) ==
  IF on("t1b")
  THEN /\ cma' = IF act = NoPort THEN zero ELSE b[act].ma
       /\ cma_rd_rq' = (act # NoPort /\ b[act].rd_rq)
       /\ cma_wr_rq' = (act # NoPort /\ b[act].wr_rq)
  ELSE UNCHANGED request

Buffer(b) ==
  cmb' = IF on("stb") THEN cmb \cup sa
         ELSE IF on("cmb_clr") THEN {}
         ELSE cmb \cup mb_in(b)

\* The memory takes a request it does not make wait.
\* A fault: a write is dropped after a clock, taken or not.  Breaks PortHeld.
WrittenBlind(memWait) == m_write
Written(memWait) == m_write /\ ~memWait
IsRead(memWait) == m_read /\ ~memWait

\* The two flags of each meeting, and the request to the memory.
Handshake(memWait, memData) ==
  LET written == Written(memWait)
      isRead == IsRead(memWait)
  IN /\ m_read' = IF on("t1a") THEN cma_rd_rq ELSE m_read /\ ~isRead
     /\ m_write' = IF on("t3") THEN cma_wr_rq ELSE m_write /\ ~written
     /\ sa' = IF isRead THEN memData ELSE sa
     /\ stb_sync' = IF on("stb") THEN FALSE ELSE stb_sync \/ on("strobe")
     /\ stb_done' = IF on("stb") \/ on("t1a") THEN FALSE ELSE stb_done \/ isRead
     /\ rd_sync' = IF on("rd") THEN FALSE ELSE rd_sync \/ on("read_off")
     /\ rd_done' = IF on("rd") THEN FALSE
                   ELSE IF on("t1a") THEN ~cma_rd_rq
                   ELSE rd_done \/ on("stb")
     /\ wr_sync' = IF on("wr") THEN FALSE ELSE wr_sync \/ on("t6")
     /\ wr_done' = IF on("wr") THEN FALSE
                   ELSE IF on("t3") THEN ~cma_wr_rq
                   ELSE wr_done \/ written \/ on("start")

ModuleClock(b, memWait, memData, zero) ==
  /\ Schedule(b)
  /\ Control(b)
  /\ Jam(b, zero)
  /\ Buffer(b)
  /\ Handshake(memWait, memData)

(***************************************************************************)
(* What the module puts on the bus for its port.                           *)
(***************************************************************************)
addr_ack(p) == on("addr_ack") /\ act = p
rd_rs(p) == on("rd_rs") /\ act = p
mb_out(p) == IF on("stb") /\ act = p THEN sa ELSE {}

(***************************************************************************)
(* Power comes on.  The flip-flops the reset leaves alone hold anything.   *)
(***************************************************************************)
ModuleInit(zero) ==
  /\ left = [p \in Pulse |-> IF p = "pwr_t2" THEN Delay[p] ELSE 0]
  /\ high = {}
  /\ act \in Port \cup {NoPort}
  /\ last_proc = 0
  /\ await_rq \in BOOLEAN /\ rq_sync \in BOOLEAN /\ cyc_done \in BOOLEAN
  /\ pse_sync = FALSE /\ proc_rs = FALSE
  /\ cma = zero /\ cma_rd_rq = FALSE /\ cma_wr_rq = FALSE
  /\ cmb = {} /\ sa = {}
  /\ m_read = FALSE /\ m_write = FALSE
  /\ stb_sync = FALSE /\ stb_done = FALSE
  /\ rd_sync = FALSE /\ rd_done = FALSE
  /\ wr_sync = FALSE /\ wr_done = FALSE
=============================================================================
