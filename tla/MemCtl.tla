------------------------------- MODULE MemCtl -------------------------------
(***************************************************************************)
(* The memory control of the PDP-6 processor (pdp6/apr.v, MC, and the      *)
(* part of MB that the memory bus fills): it turns the processor's read,   *)
(* write and read-pause-write requests into bus cycles, times out on       *)
(* memory that does not exist, and stops the processor in mid cycle for    *)
(* the memory stop switch.                                                 *)
(*                                                                         *)
(* Pulses are kept as in Core256k: due[p] clocks to go, on when 1.         *)
(***************************************************************************)
EXTENDS Naturals

CONSTANT
  NxmDelay      \* clocks until a request counts as unanswered: 100 us

\* Clocks of 20 ns.
McDelay ==
  [rd_rq |-> 1, wr_rq |-> 1, rdwr_rq |-> 1, rq |-> 1,
   D0 |-> 2, D1 |-> 7, D2 |-> 10, D3 |-> NxmDelay,
   rq_set |-> 1, illeg |-> 1, mb_clr |-> 1, mb_clr_D |-> 5,
   mai_ack |-> 1, ack |-> 1, nxm |-> 1, nxm_rst |-> 1, nxm_rd |-> 1,
   mai_rd_rs |-> 1, rdwr_rs |-> 1, rdwr_rs_D |-> 5, split_rd |-> 1, split_wr |-> 1,
   mc_wr_rs |-> 1, bus_wr_rs |-> 2, bus_mb |-> 2, rs_t0 |-> 1, rs_t0_D |-> 2, rs_t1 |-> 1]

McPulse == DOMAIN McDelay

VARIABLES
  due,              \* clocks to go until each pulse
  up,               \* the pulse amplifiers whose input was up on the last clock
  mc_rd, mc_wr, mc_rq, mc_stop, mc_stop_sync, mc_split_cyc_sync,
  mb, ma,           \* memory buffer and address
  mb_pulse          \* clocks the buffer stays on the bus

mcFlags == <<mc_rd, mc_wr, mc_rq, mc_stop, mc_stop_sync, mc_split_cyc_sync>>
mcVars == <<due, up, mcFlags, mb, ma, mb_pulse>>

is(p) == due[p] = 1

(***************************************************************************)
(* What the rest of the processor does on this clock, a record x:          *)
(*   op          a request ("rd", "wr" or "rdwr"), "rs" (it gives back the *)
(*               word of a read-pause-write), "at4" (an address is ready   *)
(*               and a stop switch is up), "it0" (mr_clr of a new          *)
(*               instruction), the continue key "cont", another key "key"  *)
(*               (mr_clr at kt1), or "none"                                *)
(*   word, addr  what it loads into mb and ma                              *)
(*   rel         "inh" no relocation, "ok" relocated, "bad" out of bounds  *)
(*   stop        the memory stop switch, looked at 200 ns after a request  *)
(*   disable     the switch that makes a missing memory stop the processor *)
(***************************************************************************)
Asked(x, op) == x.op = op

stop_set(x) == is("D2") /\ x.stop

\* 100 us after the request, and no memory has acknowledged it.
\* A fault: an acknowledged request counts as unanswered.  Breaks NoFalseNxm.
mc_non_exist_mem_blind == is("D3") /\ ~mc_stop
mc_non_exist_mem == is("D3") /\ mc_rq /\ ~mc_stop

\* The answer to the processor; the memory stop withholds it.
\* A fault: a read of missing memory gets none.  Breaks NeverHangs.
rs_t0_no_nxm(x) == \/ Asked(x, "cont") /\ mc_stop
                   \/ ~mc_stop /\ (is("mc_wr_rs") \/ is("mai_rd_rs"))
mc_rs_t0(x) == \/ Asked(x, "cont") /\ mc_stop
               \/ ~mc_stop /\ (is("mc_wr_rs") \/ is("mai_rd_rs") \/ is("nxm_rd"))

McCause(x, bus) ==
  [rd_rq |-> Asked(x, "rd") \/ is("split_rd"),
   wr_rq |-> Asked(x, "wr") \/ is("split_wr"),
   rdwr_rq |-> Asked(x, "rdwr") /\ ~mc_split_cyc_sync,
   split_rd |-> Asked(x, "rdwr") /\ mc_split_cyc_sync,
   rq |-> is("rdwr_rq") \/ is("rd_rq") \/ is("wr_rq"),
   D0 |-> is("rq"), D1 |-> is("rq"), D2 |-> is("rq"), D3 |-> is("rq"),
   rq_set |-> (is("D0") /\ x.rel = "inh") \/ (is("D1") /\ x.rel = "ok"),
   illeg |-> is("D1") /\ x.rel = "bad",
   mb_clr |-> is("rd_rq") \/ is("rdwr_rq"),
   mb_clr_D |-> is("mb_clr"),
   mai_ack |-> bus.addr_ack,
   nxm |-> mc_non_exist_mem,
   nxm_rst |-> is("nxm") /\ ~x.disable,
   nxm_rd |-> is("nxm_rst") /\ mc_rd,
   ack |-> is("mai_ack") \/ is("nxm_rst"),
   mai_rd_rs |-> bus.rd_rs,
   rdwr_rs |-> Asked(x, "rs"),
   rdwr_rs_D |-> is("rdwr_rs"),
   split_wr |-> is("rdwr_rs") /\ mc_split_cyc_sync,
   mc_wr_rs |-> \/ is("ack") /\ ~mc_rd /\ mc_wr
                \/ is("rdwr_rs_D") /\ ~mc_split_cyc_sync
                \/ Asked(x, "key") /\ mc_stop /\ mc_stop_sync,
   bus_wr_rs |-> is("mc_wr_rs"),
   bus_mb |-> is("mc_wr_rs"),
   rs_t0 |-> mc_rs_t0(x),
   rs_t0_D |-> is("rs_t0"),
   rs_t1 |-> is("rs_t0_D")]

McSchedule(x, bus) ==
  \E cause \in {McCause(x, bus)} :
    /\ due' = [p \in McPulse |->
                 IF cause[p] /\ (McDelay[p] > 1 \/ p \notin up) THEN McDelay[p]
                 ELSE IF due[p] = 0 THEN 0 ELSE due[p] - 1]
    /\ up' = {p \in McPulse : cause[p] /\ McDelay[p] = 1}

(***************************************************************************)
(* The flip-flops.  A later line of the always block wins: mr_clr, then the *)
(* resets, then the sets.                                                  *)
(***************************************************************************)
Keep(flag, x) == flag /\ ~Asked(x, "it0") /\ ~Asked(x, "key")

\* What ends a memory stop: the next request, and (FIX_MEMSTOP) the answer.
\* A fault: FIX_MEMSTOP undone.  Breaks ContinuesOnce and AnsweredOnce.
stop_reset_old == is("rq")
stop_reset == is("rq") \/ is("rs_t0")

McFlags(x) ==
  /\ mc_rd' = IF is("rd_rq") \/ is("rdwr_rq") THEN TRUE
              ELSE IF is("wr_rq") \/ is("rs_t1") THEN FALSE ELSE Keep(mc_rd, x)
  /\ mc_wr' = IF is("wr_rq") \/ is("rdwr_rq") THEN TRUE
              ELSE IF is("rd_rq") THEN FALSE ELSE Keep(mc_wr, x)
  /\ mc_rq' = IF is("rq_set") THEN TRUE
              ELSE IF is("ack") THEN FALSE ELSE Keep(mc_rq, x)
  /\ mc_stop' = IF stop_set(x) THEN TRUE
                ELSE IF stop_reset THEN FALSE ELSE Keep(mc_stop, x)
  /\ mc_stop_sync' = IF is("rdwr_rq") THEN TRUE ELSE Keep(mc_stop_sync, x)
  /\ mc_split_cyc_sync' = IF Asked(x, "at4") THEN TRUE ELSE Keep(mc_split_cyc_sync, x)

\* mb takes what is on the bus as long as a read is on.
Buffers(x, bus) ==
  /\ mb' = IF Asked(x, "wr") \/ Asked(x, "rs") THEN x.word
           ELSE IF is("mb_clr_D") THEN {}
           ELSE IF mc_rd THEN mb \cup bus.mb ELSE mb
  /\ ma' = IF x.op \in {"rd", "wr", "rdwr"} THEN x.addr ELSE ma
  /\ mb_pulse' = IF is("bus_mb") THEN 3 ELSE IF mb_pulse = 0 THEN 0 ELSE mb_pulse - 1

McClock(x, bus) ==
  /\ McSchedule(x, bus)
  /\ McFlags(x)
  /\ Buffers(x, bus)

\* What the processor puts on the bus: bd and bd2 delay wr_rs and mb.
\* A fault: mb is never taken off the bus.  Breaks Consistent.
mc_membus_mb_always == mb
mc_membus_mb == IF is("bus_mb") \/ mb_pulse > 0 THEN mb ELSE {}
McBus == [rq_cyc |-> mc_rq /\ (mc_rd \/ mc_wr), rd_rq |-> mc_rd, wr_rq |-> mc_wr,
          ma |-> ma, mb_in |-> mc_membus_mb, wr_rs |-> is("bus_wr_rs")]

McInit(zero) ==
  /\ due = [p \in McPulse |-> 0]
  /\ up = {}
  /\ mc_rd = FALSE /\ mc_wr = FALSE /\ mc_rq = FALSE
  /\ mc_stop = FALSE /\ mc_stop_sync = FALSE /\ mc_split_cyc_sync = FALSE
  /\ mb = {} /\ ma = zero /\ mb_pulse = 0
=============================================================================
