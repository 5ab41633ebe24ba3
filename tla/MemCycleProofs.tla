--------------------------- MODULE MemCycleProofs ---------------------------
(* Proofs about MemCycle: the processor's memory control, the bus, the     *)
(* core memory module and the memory, for every set of addresses and words *)
(* and however long the memory takes.                                      *)
(*                                                                         *)
(* The types need the module only: IInv ties its counters and flip-flops   *)
(* to the stage its cycle is at. The promises of a cycle need both sides:  *)
(* CycleInv says at which turn of its request the processor can be while   *)
(* the module is at that stage, how much of the timer is left, and where   *)
(* the word is.                                                            *)
EXTENDS MemCycle, TLAPS

(***************************************************************************)
(* The module's chain of pulses                                            *)
(***************************************************************************)

(* A cycle is one chain: something is on its way in it at one stage only.  *)
(* Three stages are meetings, where it waits for the word, the processor   *)
(* or the memory; between two cycles it is still.                          *)
ChainPulse == {"t1b", "t1a", "t2", "read_off", "rd", "pse_set", "t3", "t4",
               "t3_D1", "t3_D2", "t6p", "t6", "wr", "start"}
Stage == ChainPulse \cup {"still", "rd_sync", "pse", "wr_sync"}
Opening == {"t1b", "t1a", "t2"}
Reading == {"t2", "read_off", "rd_sync"}
Parted == {"t1a", "t2", "read_off", "rd_sync", "rd", "pse_set"}
Writing == {"t4", "t3_D1", "t3_D2", "t6p", "t6", "wr_sync"}

Chain(s) ==
  /\ \A p \in ChainPulse : left[p] > 0 <=> p = s
  /\ \A p \in {"t1a", "t6p", "start"} : p \in high => p = s

(* The cycle leaves still when both are up, and takes both down at t2.     *)
OpenInv(s) ==
  /\ s \in Opening => rq_sync /\ cyc_done /\ "t1b" \in high
  /\ s \notin Opening \cup {"still"} => ~cyc_done
  /\ s \notin Opening \cup {"read_off"} => "t1b" \notin high
  /\ (rd_sync <=> s \in {"rd_sync", "rd"}) /\ (wr_sync <=> s \in {"wr_sync", "wr"})

(* The second half begins once: t3 waits for pse_sync to fall.             *)
PauseInv(s) ==
  /\ s \in Parted => ~pse_sync
  /\ s = "pse" => pse_sync /\ "t3" \notin high
  /\ s = "t3" => pse_sync
  /\ s \notin Parted \cup {"pse"} /\ pse_sync
       => "t3" \in high /\ (proc_rs \/ ~cma_wr_rq)

(* The word is read between t2 and rd, and strobed once.                   *)
ReadInv(s) ==
  /\ m_read => s \in Reading /\ cma_rd_rq /\ ~stb_done /\ ~rd_done
  /\ left["t2_D1"] > 0 <=> s = "read_off" /\ left["read_off"] > 7
  /\ left["t2_D1"] > 0 => left["read_off"] = left["t2_D1"] + 7
  /\ left["strobe"] > 0 <=> s = "read_off" /\ left["read_off"] = 7 /\ cma_rd_rq
  /\ "strobe" \in high => left["strobe"] > 0
  /\ stb_sync => /\ s \in {"read_off", "rd_sync"} /\ cma_rd_rq /\ ~rd_done
                 /\ s = "read_off" => left["read_off"] < 7
  /\ left["stb"] > 0 => stb_sync /\ stb_done
  /\ stb_sync /\ stb_done => (left["stb"] > 0 <=> "stb" \in high)
  /\ s \in Reading /\ ~cma_rd_rq => rd_done
  /\ s \in Reading /\ cma_rd_rq /\ ~rd_done
       => /\ m_read \/ stb_done
          /\ s = "rd_sync" \/ (s = "read_off" /\ left["read_off"] < 7) => stb_sync
  /\ s \in Reading /\ cma_rd_rq /\ rd_done
       => s # "t2" /\ (s = "read_off" => left["read_off"] < 7)
  /\ s = "rd_sync" => "rd" \notin high

(* The word is written from t3 to wr.                                      *)
WriteInv(s) ==
  /\ m_write => s \in Writing
  /\ s \in Writing => (wr_done <=> ~m_write)
  /\ s = "wr_sync" => "wr" \notin high

(* Clocks until a cycle that need not wait is over.                        *)
Rest(s) ==
  CASE s = "t1b" -> 85 [] s = "t1a" -> 84 [] s = "t2" -> left["t2"] + 71
    [] s = "read_off" -> left["read_off"] + 61 [] s = "rd_sync" -> 61 [] s = "rd" -> 60
    [] s = "pse_set" -> left["pse_set"] + 54 [] s = "pse" -> 54 [] s = "t3" -> 53
    [] s = "t4" -> left["t4"] + 50 [] s = "t3_D1" -> left["t3_D1"] + 25
    [] s = "t3_D2" -> left["t3_D2"] + 15 [] s = "t6p" -> 15 [] s = "t6" -> left["t6"] + 2
    [] s = "wr_sync" -> 2 [] s = "wr" -> 1 [] OTHER -> 0

(* Power comes on: two delays, in which the processor does nothing.  What  *)
(* the flip-flops held may begin a cycle, which is over before they are.   *)
Powering == left["pwr_t2"] > 0 \/ left["pwr_t3"] > 0
Power == IF left["pwr_t2"] > 0 THEN 50 + left["pwr_t2"] ELSE left["pwr_t3"]

PowerInv(s) ==
  /\ left["pwr_t2"] = 0 \/ left["pwr_t3"] = 0
  /\ Powering => /\ cpu = "off" /\ s # "start"
                 /\ Rest(s) < Power
                 /\ Power = 100 => s = "still"
                 /\ Power = 100 \/ s \in Opening \/ ~rq_sync \/ (s = "still" /\ ~cyc_done)
  /\ s = "start" => cpu = "off" /\ "state_clr" \notin high /\ "t5" \notin high
  /\ s = "still" /\ ~Powering => cyc_done
  /\ act # NoPort /\ (cpu = "off" \/ act # 0)
       => cpu = "off" /\ (Powering \/ s = "start" \/ left["state_clr"] > 0)

(* Until it is ready, the processor asks for nothing.                      *)
Unasked ==
  /\ ~mc_rd /\ ~mc_wr /\ ~mc_rq /\ ~mc_stop /\ ~mc_stop_sync /\ ~mc_split_cyc_sync
  /\ \A p \in McPulse \ {"mai_ack", "ack"} : due[p] = 0
  /\ left["t0"] = 0 /\ left["t0_D"] = 0 /\ left["rs_D"] = 0 /\ left["proc_rs"] = 0
  /\ left["rd_rs"] = 0
  /\ ~proc_rs /\ ~cma_rd_rq /\ ~cma_wr_rq /\ ~m_read /\ ~m_write

StageInv(s) ==
  /\ Chain(s) /\ OpenInv(s) /\ PauseInv(s) /\ ReadInv(s) /\ WriteInv(s) /\ PowerInv(s)

ModuleInv ==
  /\ cpu = "off" => Unasked
  /\ \E s \in Stage : StageInv(s)

(***************************************************************************)
(* Types                                                                   *)
(***************************************************************************)

(* The types, the parts spelled out; an amplifier that is on has its input *)
(* up.                                                                     *)
Typed ==
  /\ TypeOK
  /\ left \in [Pulse -> 0 .. 50] /\ \A p \in Pulse : left[p] <= Delay[p]
  /\ \A p \in Pulse : Delay[p] = 1 /\ left[p] = 1 => p \in high
  /\ \A p \in McPulse : due[p] <= McDelay[p]
  /\ mc_rd \in BOOLEAN /\ mc_wr \in BOOLEAN /\ mc_rq \in BOOLEAN /\ mc_stop \in BOOLEAN
  /\ mc_stop_sync \in BOOLEAN /\ mc_split_cyc_sync \in BOOLEAN
  /\ mb_pulse \in 0 .. 3 /\ rest \in Nat
  /\ await_rq \in BOOLEAN /\ rq_sync \in BOOLEAN /\ cyc_done \in BOOLEAN
  /\ pse_sync \in BOOLEAN /\ proc_rs \in BOOLEAN
  /\ cma_rd_rq \in BOOLEAN /\ cma_wr_rq \in BOOLEAN /\ m_read \in BOOLEAN /\ m_write \in BOOLEAN
  /\ stb_sync \in BOOLEAN /\ stb_done \in BOOLEAN /\ rd_sync \in BOOLEAN /\ rd_done \in BOOLEAN
  /\ wr_sync \in BOOLEAN /\ wr_done \in BOOLEAN

(* Whoever asks has an address.                                            *)
AddressInv ==
  /\ cpu \in Awaits \cup {"paused"} => ma \in Addr
  /\ mc_rd \/ mc_wr => ma \in Addr
  /\ \A p \in {"rd_rq", "wr_rq", "rdwr_rq", "split_rd", "split_wr", "rdwr_rs"} :
       due[p] > 0 => ma \in Addr
  /\ cma_rd_rq \/ cma_wr_rq => cma \in Addr

IInv == Typed /\ AddressInv /\ ModuleInv

(***************************************************************************)
(* A clock                                                                 *)
(***************************************************************************)

Op == Request \cup {"none", "rs", "at4", "it0", "cont", "key"}
Inputs == [op : Op, word : Word, addr : Addr \cup {Reset}, rel : {"inh", "ok", "bad"},
           stop : BOOLEAN, disable : BOOLEAN]

(* All that is clocked, and what the actions do to the processor with it.  *)
Moves(x) ==
  /\ McClock(x, ToProcessor)
  /\ ModuleClock(ToModule, m_waitrequest, Fetched, Reset)
  /\ MemoryClock

(* What the rest of the processor does with a clock.                       *)
Acts(x) ==
  /\ x.rel = rel
  /\ \/ /\ x.op = "none" /\ ~x.stop
        /\ (cpu = "off" /\ Quiet) \/ (cpu = "keyed" /\ rest = 0)
        /\ cpu' = "idle" /\ rel' = rel /\ rest' = rest /\ latest' = latest
     \/ /\ x.op = "none" /\ (x.stop => is("D2"))
        /\ IF cpu = "off" THEN ~Quiet ELSE Awaiting \/ cpu = "halted" \/ rest > 0
        /\ ~(Awaiting /\ (is("rs_t1") \/ is("illeg")))
        /\ cpu' = cpu /\ rel' = rel /\ rest' = Count(rest) /\ latest' = latest
     \/ /\ x.op \in Request /\ cpu \in {"idle", "addressed"} /\ rest = 0 /\ ~x.stop
        /\ x.addr \in Addr /\ (x.op = "wr" \/ x.word = {})
        /\ cpu' = x.op /\ rest' = rest
        /\ rel' = "inh" \/ rel' = (IF x.addr \in Outside THEN "bad" ELSE "ok")
        /\ latest' = IF x.op = "wr" /\ rel' # "bad" /\ x.addr \in Core
                     THEN [latest EXCEPT ![x.addr] = x.word] ELSE latest
     \/ /\ x.op = "none" /\ ~x.stop /\ Awaiting /\ (is("rs_t1") \/ is("illeg"))
        /\ cpu' = IF is("illeg") THEN "trap" ELSE IF cpu = "rdwr" THEN "paused" ELSE "idle"
        /\ rest' \in Gaps /\ rel' = rel /\ latest' = latest
     \/ /\ x.op = "it0" /\ ~x.stop /\ cpu \in {"trap", "idle"} /\ rest = 0
        /\ cpu' = "idle" /\ rel' = "inh" /\ rest' = rest /\ latest' = latest
     \/ /\ x.op = "none" /\ ~x.stop /\ cpu \in {"idle", "trap"} /\ rest = 0
        /\ cpu' = "halted" /\ rel' = rel /\ rest' = rest /\ latest' = latest
     \/ /\ x.op = "at4" /\ ~x.stop /\ cpu = "idle" /\ rest = 0
        /\ cpu' = "addressed" /\ rel' = rel /\ rest' = rest /\ latest' = latest
     \/ /\ x.op = "rs" /\ ~x.stop /\ cpu = "paused" /\ rest = 0
        /\ cpu' = "rs" /\ rel' = rel /\ rest' = rest
        /\ latest' = IF ma \in Core THEN [latest EXCEPT ![ma] = x.word] ELSE latest
     \/ /\ x.op = "cont" /\ ~x.stop /\ AtRest /\ mc_stop /\ ~mc_rq
        /\ cpu' = cpu /\ rel' = rel /\ rest' = rest /\ latest' = latest
     \/ /\ x.op = "key" /\ ~x.stop /\ AtRest
        /\ cpu' = "keyed" /\ rel' = "inh" /\ rest' = KeyDelay /\ latest' = latest

Steps(x) ==
  /\ Moves(x) /\ Acts(x)
  /\ cpu = "off" => x.op = "none" /\ (~Quiet => cpu' = "off") /\ cpu' \in {"off", "idle"}
  /\ cpu' = "off" => cpu = "off"
  /\ cpu' \in Awaits => x.op = cpu' \/ cpu = cpu'
  /\ x.op \in Request => x.addr \in Addr /\ cpu' = x.op
  /\ x.op = "rs" => cpu = "paused" /\ cpu' = "rs"
  /\ cpu' = "paused" => cpu \in {"paused", "rdwr"}
  /\ cpu' \in {"off", "keyed", "idle", "addressed", "trap", "paused", "halted"} \cup Awaits
  /\ rel' \in {"inh", "ok", "bad"} /\ rest' \in Nat
  /\ latest' \in [Addr -> Word]

(* A clock of the machine moves all that is clocked.                       *)
LEMMA Clocked ==
  ASSUME NEW x, Clock(x)
  PROVE  Moves(x)
  BY DEF Clock, Moves

(* What the processor does when it asks for nothing.                       *)
LEMMA Done ==
  ASSUME NEW op \in Op, TypeOK
  PROVE  /\ Does(op) \in Inputs /\ Does(op).op = op /\ Does(op).rel = rel
         /\ ~Does(op).stop
  BY DEF Does, Inputs, TypeOK, Word, Op

(* Every action is a clock, in which the processor does one thing.         *)
LEMMA EveryStep ==
  ASSUME TypeOK, rest \in Nat, Next
  PROVE  \E x \in Inputs : Steps(x)
  <1> USE MemCycleAssumption
  <1> USE DEF Op, Request, Awaits
  <1>1. CASE Ready
    <2>1. Moves(Does("none")) /\ Acts(Does("none"))
      BY <1>1, Clocked, Done DEF Ready, Acts
    <2> QED
      BY <1>1, <2>1, Done DEF Ready, Steps, TypeOK
  <1>2. ASSUME NEW stop \in StopSwitch, NEW disable \in BOOLEAN, Rests(stop, disable)
        PROVE  \E x \in Inputs : Steps(x)
    <2> DEFINE x == [Does("none") EXCEPT !.stop = stop, !.disable = disable]
    <2>1. x \in Inputs /\ x.op = "none" /\ x.rel = rel /\ x.stop = stop
      BY Done DEF Inputs, Does, Word, TypeOK
    <2>2. Moves(x)
      BY <1>2, Clocked DEF Rests
    <2>3. /\ cpu' = cpu /\ rel' = rel /\ latest' = latest /\ rest' \in Nat
          /\ cpu = "off" => ~Quiet
      BY <1>2 DEF Rests
    <2>4. Acts(x)
      BY <1>2, <2>1 DEF Rests, Acts, Count
    <2> QED
      BY <2>1, <2>2, <2>3, <2>4 DEF Steps, TypeOK
  <1>3. ASSUME NEW op \in Request, NEW a \in Addr, NEW w \in Word, NEW m \in Mode, Ask(op, a, w, m)
        PROVE  \E x \in Inputs : Steps(x)
    <2> DEFINE x == [Does(op) EXCEPT !.addr = a, !.word = w]
    <2>1. x \in Inputs /\ x.op = op /\ x.addr = a /\ x.word = w /\ x.rel = rel /\ ~x.stop
      BY Done DEF Inputs, Does, Word, TypeOK
    <2>2. Moves(x)
      BY <1>3, Clocked DEF Ask
    <2>3. /\ cpu' = op /\ rel' \in {"inh", "ok", "bad"} /\ rest' = rest /\ cpu # "off"
          /\ latest' \in [Addr -> Word]
      BY <1>3 DEF Ask, Relocated, TypeOK
    <2>4. /\ cpu \in {"idle", "addressed"} /\ rest = 0 /\ (op = "wr" \/ w = {})
          /\ latest' = IF op = "wr" /\ rel' # "bad" /\ a \in Core
                       THEN [latest EXCEPT ![a] = w] ELSE latest
          /\ rel' = "inh" \/ rel' = (IF a \in Outside THEN "bad" ELSE "ok")
      BY <1>3 DEF Ask, Relocated
    <2>5. Acts(x)
      <3> HIDE DEF x
      <3> QED
        BY <2>1, <2>3, <2>4 DEF Acts
    <2> QED
      BY <2>1, <2>2, <2>3, <2>5 DEF Steps, TypeOK
  <1>4. CASE Answered
    <2>1. /\ cpu \in Awaits /\ cpu' \in {"trap", "paused", "idle"} /\ rest' \in Nat
          /\ cpu' = "paused" => cpu = "rdwr"
          /\ rel' = rel /\ latest' = latest /\ Moves(Does("none"))
      BY <1>4, Clocked DEF Answered, Awaiting
    <2>2. Acts(Does("none"))
      BY <1>4, Done DEF Answered, Acts
    <2> QED
      BY <2>1, <2>2, Done DEF Steps, TypeOK
  <1>5. CASE NewInstruction
    <2>1. Moves(Does("it0")) /\ Acts(Does("it0"))
      BY <1>5, Clocked, Done DEF NewInstruction, Acts
    <2> QED
      BY <1>5, <2>1, Done DEF NewInstruction, Steps, TypeOK
  <1>6. CASE Halt
    <2>1. Moves(Does("none")) /\ Acts(Does("none"))
      BY <1>6, Clocked, Done DEF Halt, Acts
    <2> QED
      BY <1>6, <2>1, Done DEF Halt, Steps, TypeOK
  <1>7. CASE AddressWithStop
    <2>1. Moves(Does("at4")) /\ Acts(Does("at4"))
      BY <1>7, Clocked, Done DEF AddressWithStop, Acts
    <2> QED
      BY <1>7, <2>1, Done DEF AddressWithStop, Steps, TypeOK
  <1>8. ASSUME NEW w \in Word, GiveBack(w)
        PROVE  \E x \in Inputs : Steps(x)
    <2> DEFINE x == [Does("rs") EXCEPT !.word = w]
    <2>1. x \in Inputs /\ x.op = "rs" /\ x.word = w /\ x.rel = rel /\ ~x.stop
      BY Done DEF Inputs, Does, Word, TypeOK
    <2>2. Moves(x)
      BY <1>8, Clocked DEF GiveBack
    <2>3. /\ cpu' = "rs" /\ rel' = rel /\ rest' = rest /\ cpu = "paused"
          /\ latest' \in [Addr -> Word]
      BY <1>8 DEF GiveBack, TypeOK
    <2>4. rest = 0 /\ latest' = IF ma \in Core THEN [latest EXCEPT ![ma] = w] ELSE latest
      BY <1>8 DEF GiveBack
    <2>5. Acts(x)
      <3> HIDE DEF x
      <3> QED
        BY <2>1, <2>3, <2>4 DEF Acts
    <2> QED
      BY <2>1, <2>2, <2>3, <2>5 DEF Steps, TypeOK
  <1>9. CASE Continue
    <2>1. Moves(Does("cont")) /\ Acts(Does("cont"))
      BY <1>9, Clocked, Done DEF Continue, Acts
    <2> QED
      BY <1>9, <2>1, Done DEF Continue, AtRest, Awaiting, Steps, TypeOK
  <1>10. CASE OtherKey
    <2>1. Moves(Does("key")) /\ Acts(Does("key"))
      BY <1>10, Clocked, Done DEF OtherKey, Acts
    <2> QED
      BY <1>10, <2>1, Done DEF OtherKey, AtRest, Awaiting, Steps, TypeOK
  <1> QED
    BY <1>1, <1>2, <1>3, <1>4, <1>5, <1>6, <1>7, <1>8, <1>9, <1>10 DEF Next

(***************************************************************************)
(* The pulses of the module, one by one                                    *)
(***************************************************************************)

(* What comes of an amplifier whose input is c, and of a delay.            *)
Rises(p, c) ==
  /\ left'[p] = IF c /\ p \notin high THEN 1 ELSE 0
  /\ p \in high' <=> c
Starts(p, c) == left'[p] = IF c THEN Delay[p] ELSE Count(left[p])

(* The counters of the module stay within their delays.                    *)
LEMMA LeftTyped ==
  ASSUME Typed, Schedule(ToModule)
  PROVE  /\ left' \in [Pulse -> 0 .. 50] /\ high' \subseteq Pulse
         /\ \A p \in Pulse : left'[p] <= Delay[p]
         /\ \A p \in Pulse : Delay[p] = 1 /\ left'[p] = 1 => p \in high'
  <1>1. PICK cause \in {Cause(ToModule)} :
          /\ left' = [p \in Pulse |->
                  IF cause[p] /\ (Delay[p] > 1 \/ p \notin high) THEN Delay[p]
                  ELSE Count(left[p])]
          /\ high' = {p \in Pulse : cause[p] /\ Delay[p] = 1}
    BY DEF Schedule
  <1>2. left \in [Pulse -> 0 .. 50] /\ \A p \in Pulse : left[p] <= Delay[p]
    BY DEF Typed
  <1>3. \A p \in Pulse : Delay[p] \in 1 .. 50
    BY DEF Pulse, Delay
  <1>4. ASSUME NEW p \in Pulse
        PROVE  /\ left'[p] \in 0 .. 50 /\ left'[p] <= Delay[p]
               /\ Delay[p] = 1 /\ left'[p] = 1 => p \in high'
    <2>1. left[p] \in 0 .. 50 /\ left[p] <= Delay[p] /\ Delay[p] \in 1 .. 50
      BY <1>2, <1>3
    <2>2. left'[p] = IF cause[p] /\ (Delay[p] > 1 \/ p \notin high) THEN Delay[p]
                     ELSE Count(left[p])
      BY <1>1
    <2>3. p \in high' <=> cause[p] /\ Delay[p] = 1
      BY <1>1
    <2> QED
      BY <2>1, <2>2, <2>3 DEF Count
  <1> QED
    BY <1>1, <1>4

(* Each pulse of the module, from what makes it.                           *)
LEMMA PulsesGo ==
  ASSUME Typed, Schedule(ToModule)
  PROVE  /\ Starts("pwr_t2", FALSE) /\ Starts("pwr_t3", on("pwr_t2"))
         /\ Rises("start", on("pwr_t3"))
         /\ Rises("t0", Requests(ToModule) # {}) /\ Starts("t0_D", on("t0"))
         /\ Rises("t1b", t1b_set) /\ Rises("addr_ack", on("t1b") /\ act # NoPort)
         /\ Rises("t1a", on("t1b"))
         /\ Rises("cmb_clr", on("t1b") \/ (on("pse_set") /\ cma_rd_rq /\ cma_wr_rq))
         /\ Starts("t2", on("t1a")) /\ Starts("t2_D1", on("t2"))
         /\ Rises("strobe", on("t2_D1") /\ cma_rd_rq) /\ Starts("read_off", on("t2"))
         /\ Rises("stb", stb_sync /\ stb_done) /\ Rises("rd_rs", on("stb"))
         /\ Rises("rd", rd_sync /\ rd_done) /\ Starts("pse_set", on("rd"))
         /\ Starts("rs_D", rs_set(ToModule)) /\ Rises("proc_rs", proc_rs)
         /\ Rises("t3", pse_sync /\ (proc_rs \/ ~cma_wr_rq))
         /\ Rises("state_clr", on("start") \/ (on("t3") /\ ~cma_wr_rq) \/ on("proc_rs"))
         /\ Starts("t4", on("t3")) /\ Starts("t3_D1", on("t4"))
         /\ Rises("t5", on("start") \/ on("t3_D1")) /\ Starts("t3_D2", on("t3_D1"))
         /\ Rises("t6p", on("start") \/ on("t3_D2")) /\ Starts("t6", on("t6p"))
         /\ Rises("wr", wr_sync /\ wr_done)
  <1>1. PICK cause \in {Cause(ToModule)} :
          /\ left' = [p \in Pulse |->
                  IF cause[p] /\ (Delay[p] > 1 \/ p \notin high) THEN Delay[p]
                  ELSE Count(left[p])]
          /\ high' = {p \in Pulse : cause[p] /\ Delay[p] = 1}
    BY DEF Schedule
  <1>2. ASSUME NEW p \in Pulse, Delay[p] = 1
        PROVE  Rises(p, cause[p])
    <2>1. Count(left[p]) = 0
      BY <1>2 DEF Count, Typed
    <2> QED
      BY <1>1, <1>2, <2>1 DEF Rises
  <1>3. ASSUME NEW p \in Pulse, Delay[p] > 1
        PROVE  Starts(p, cause[p])
    BY <1>1, <1>3 DEF Starts
  <1>4. /\ \A p \in {"start", "t0", "t1b", "addr_ack", "t1a", "cmb_clr", "strobe", "stb", "rd_rs",
                     "rd", "proc_rs", "t3", "state_clr", "t5", "t6p", "wr"} :
             p \in Pulse /\ Delay[p] = 1
        /\ \A p \in {"pwr_t2", "pwr_t3", "t0_D", "t2", "t2_D1", "read_off", "pse_set", "rs_D",
                     "t4", "t3_D1", "t3_D2", "t6"} :
             p \in Pulse /\ Delay[p] > 1
    BY DEF Pulse, Delay
  <1>5. /\ \A p \in {"start", "t0", "t1b", "addr_ack", "t1a", "cmb_clr", "strobe", "stb", "rd_rs",
                     "rd", "proc_rs", "t3", "state_clr", "t5", "t6p", "wr"} : Rises(p, cause[p])
        /\ \A p \in {"pwr_t2", "pwr_t3", "t0_D", "t2", "t2_D1", "read_off", "pse_set", "rs_D",
                     "t4", "t3_D1", "t3_D2", "t6"} : Starts(p, cause[p])
    BY <1>2, <1>3, <1>4
  <1>6. /\ cause["pwr_t2"] = FALSE /\ cause["pwr_t3"] = on("pwr_t2")
        /\ cause["start"] = on("pwr_t3") /\ cause["t0"] = (Requests(ToModule) # {})
        /\ cause["t0_D"] = on("t0") /\ cause["t1b"] = t1b_set
        /\ cause["addr_ack"] = (on("t1b") /\ act # NoPort) /\ cause["t1a"] = on("t1b")
        /\ cause["cmb_clr"] = (on("t1b") \/ (on("pse_set") /\ cma_rd_rq /\ cma_wr_rq))
        /\ cause["t2"] = on("t1a") /\ cause["t2_D1"] = on("t2")
        /\ cause["strobe"] = (on("t2_D1") /\ cma_rd_rq) /\ cause["read_off"] = on("t2")
    BY DEF Cause
  <1>7. /\ cause["stb"] = (stb_sync /\ stb_done) /\ cause["rd_rs"] = on("stb")
        /\ cause["rd"] = (rd_sync /\ rd_done) /\ cause["pse_set"] = on("rd")
        /\ cause["rs_D"] = rs_set(ToModule) /\ cause["proc_rs"] = proc_rs
        /\ cause["t3"] = (pse_sync /\ (proc_rs \/ ~cma_wr_rq))
        /\ cause["state_clr"] = (on("start") \/ (on("t3") /\ ~cma_wr_rq) \/ on("proc_rs"))
        /\ cause["t4"] = on("t3") /\ cause["t3_D1"] = on("t4")
        /\ cause["t5"] = (on("start") \/ on("t3_D1")) /\ cause["t3_D2"] = on("t3_D1")
        /\ cause["t6p"] = (on("start") \/ on("t3_D2")) /\ cause["t6"] = on("t6p")
        /\ cause["wr"] = (wr_sync /\ wr_done)
    BY DEF Cause
  <1>8. /\ Starts("pwr_t2", FALSE) /\ Starts("pwr_t3", on("pwr_t2"))
        /\ Rises("start", on("pwr_t3"))
        /\ Rises("t0", Requests(ToModule) # {}) /\ Starts("t0_D", on("t0"))
        /\ Rises("t1b", t1b_set) /\ Rises("addr_ack", on("t1b") /\ act # NoPort)
        /\ Rises("t1a", on("t1b"))
        /\ Rises("cmb_clr", on("t1b") \/ (on("pse_set") /\ cma_rd_rq /\ cma_wr_rq))
        /\ Starts("t2", on("t1a")) /\ Starts("t2_D1", on("t2"))
        /\ Rises("strobe", on("t2_D1") /\ cma_rd_rq) /\ Starts("read_off", on("t2"))
    BY <1>5, <1>6
  <1>9. /\ Rises("stb", stb_sync /\ stb_done) /\ Rises("rd_rs", on("stb"))
        /\ Rises("rd", rd_sync /\ rd_done) /\ Starts("pse_set", on("rd"))
        /\ Starts("rs_D", rs_set(ToModule)) /\ Rises("proc_rs", proc_rs)
        /\ Rises("t3", pse_sync /\ (proc_rs \/ ~cma_wr_rq))
        /\ Rises("state_clr", on("start") \/ (on("t3") /\ ~cma_wr_rq) \/ on("proc_rs"))
        /\ Starts("t4", on("t3")) /\ Starts("t3_D1", on("t4"))
        /\ Rises("t5", on("start") \/ on("t3_D1")) /\ Starts("t3_D2", on("t3_D1"))
        /\ Rises("t6p", on("start") \/ on("t3_D2")) /\ Starts("t6", on("t6p"))
        /\ Rises("wr", wr_sync /\ wr_done)
    BY <1>5, <1>7
  <1> QED
    BY <1>8, <1>9

(***************************************************************************)
(* The pulses of the processor, one by one                                 *)
(***************************************************************************)

Comes(p, c) ==
  /\ due'[p] = IF c /\ p \notin up THEN 1 ELSE 0
  /\ p \in up' <=> c
Follows(p, c) == due'[p] = IF c THEN McDelay[p] ELSE IF due[p] = 0 THEN 0 ELSE due[p] - 1

(* The write restart of the processor: of a request to write that is       *)
(* acknowledged, of a word that is given back, of a key.                   *)
wr_rs_set(x) ==
  \/ is("ack") /\ ~mc_rd /\ mc_wr
  \/ is("rdwr_rs_D") /\ ~mc_split_cyc_sync
  \/ Asked(x, "key") /\ mc_stop /\ mc_stop_sync

(* The counters of the memory control stay within their delays.            *)
LEMMA DueTyped ==
  ASSUME Typed, NEW x, McSchedule(x, ToProcessor)
  PROVE  /\ due' \in [McPulse -> Nat] /\ up' \subseteq McPulse
         /\ \A p \in McPulse : due'[p] <= McDelay[p]
  <1>1. PICK cause \in {McCause(x, ToProcessor)} :
          /\ due' = [p \in McPulse |->
                       IF cause[p] /\ (McDelay[p] > 1 \/ p \notin up) THEN McDelay[p]
                       ELSE IF due[p] = 0 THEN 0 ELSE due[p] - 1]
          /\ up' = {p \in McPulse : cause[p] /\ McDelay[p] = 1}
    BY DEF McSchedule
  <1>2. due \in [McPulse -> Nat] /\ \A p \in McPulse : due[p] <= McDelay[p]
    BY DEF Typed, TypeOK
  <1>3. \A p \in McPulse : McDelay[p] \in Nat
    BY MemCycleAssumption DEF McPulse, McDelay
  <1>4. ASSUME NEW p \in McPulse
        PROVE  due'[p] \in Nat /\ due'[p] <= McDelay[p]
    <2>1. due[p] \in Nat /\ due[p] <= McDelay[p] /\ McDelay[p] \in Nat
      BY <1>2, <1>3
    <2>2. due'[p] = IF cause[p] /\ (McDelay[p] > 1 \/ p \notin up) THEN McDelay[p]
                    ELSE IF due[p] = 0 THEN 0 ELSE due[p] - 1
      BY <1>1
    <2> QED
      BY <2>1, <2>2
  <1> QED
    BY <1>1, <1>4

(* Each pulse of the memory control, from what makes it.                   *)
LEMMA McPulsesGo ==
  ASSUME Typed, NEW x, McSchedule(x, ToProcessor)
  PROVE
         /\ Comes("rd_rq", Asked(x, "rd") \/ is("split_rd"))
         /\ Comes("wr_rq", Asked(x, "wr") \/ is("split_wr"))
         /\ Comes("rdwr_rq", Asked(x, "rdwr") /\ ~mc_split_cyc_sync)
         /\ Comes("split_rd", Asked(x, "rdwr") /\ mc_split_cyc_sync)
         /\ Comes("rq", is("rdwr_rq") \/ is("rd_rq") \/ is("wr_rq"))
         /\ Follows("D0", is("rq")) /\ Follows("D1", is("rq")) /\ Follows("D2", is("rq"))
         /\ due'["D3"] = IF is("rq") THEN NxmDelay ELSE IF due["D3"] = 0 THEN 0 ELSE due["D3"] - 1
         /\ Comes("rq_set", (is("D0") /\ x.rel = "inh") \/ (is("D1") /\ x.rel = "ok"))
         /\ Comes("illeg", is("D1") /\ x.rel = "bad")
         /\ Comes("mb_clr", is("rd_rq") \/ is("rdwr_rq"))
         /\ Follows("mb_clr_D", is("mb_clr")) /\ Comes("mai_ack", addr_ack(0))
         /\ Comes("nxm", mc_non_exist_mem) /\ Comes("nxm_rst", is("nxm") /\ ~x.disable)
         /\ Comes("nxm_rd", is("nxm_rst") /\ mc_rd)
         /\ Comes("ack", is("mai_ack") \/ is("nxm_rst")) /\ Comes("mai_rd_rs", rd_rs(0))
         /\ Comes("rdwr_rs", Asked(x, "rs")) /\ Follows("rdwr_rs_D", is("rdwr_rs"))
         /\ Comes("split_wr", is("rdwr_rs") /\ mc_split_cyc_sync)
         /\ Comes("mc_wr_rs", wr_rs_set(x)) /\ Follows("bus_wr_rs", is("mc_wr_rs"))
         /\ Follows("bus_mb", is("mc_wr_rs")) /\ Comes("rs_t0", mc_rs_t0(x))
         /\ Follows("rs_t0_D", is("rs_t0")) /\ Comes("rs_t1", is("rs_t0_D"))
  <1>1. PICK cause \in {McCause(x, ToProcessor)} :
          /\ due' = [p \in McPulse |->
                       IF cause[p] /\ (McDelay[p] > 1 \/ p \notin up) THEN McDelay[p]
                       ELSE IF due[p] = 0 THEN 0 ELSE due[p] - 1]
          /\ up' = {p \in McPulse : cause[p] /\ McDelay[p] = 1}
    BY DEF McSchedule
  <1>2. ASSUME NEW p \in McPulse, McDelay[p] = 1
        PROVE  Comes(p, cause[p])
    <2>1. due[p] \in Nat /\ due[p] <= 1
      BY <1>2 DEF Typed, TypeOK
    <2>2. /\ due'[p] = IF cause[p] /\ p \notin up THEN 1
                       ELSE IF due[p] = 0 THEN 0 ELSE due[p] - 1
          /\ p \in up' <=> cause[p]
      BY <1>1, <1>2
    <2> QED
      BY <2>1, <2>2 DEF Comes
  <1>3. ASSUME NEW p \in McPulse, McDelay[p] > 1
        PROVE  Follows(p, cause[p])
    BY <1>1, <1>3 DEF Follows
  <1>4. /\ \A p \in {"rd_rq", "wr_rq", "rdwr_rq", "split_rd", "rq", "rq_set", "illeg",
                      "mb_clr", "mai_ack", "nxm", "nxm_rst", "nxm_rd", "ack", "mai_rd_rs",
                      "rdwr_rs", "split_wr", "mc_wr_rs", "rs_t0", "rs_t1"} :
             p \in McPulse /\ McDelay[p] = 1
        /\ \A p \in {"D0", "D1", "D2", "mb_clr_D", "rdwr_rs_D", "bus_wr_rs", "bus_mb",
                      "rs_t0_D"} :
             p \in McPulse /\ McDelay[p] > 1
    BY DEF McPulse, McDelay
  <1>5. /\ \A p \in {"rd_rq", "wr_rq", "rdwr_rq", "split_rd", "rq", "rq_set", "illeg",
                      "mb_clr", "mai_ack", "nxm", "nxm_rst", "nxm_rd", "ack", "mai_rd_rs",
                      "rdwr_rs", "split_wr", "mc_wr_rs", "rs_t0", "rs_t1"} :
             Comes(p, cause[p])
        /\ \A p \in {"D0", "D1", "D2", "mb_clr_D", "rdwr_rs_D", "bus_wr_rs", "bus_mb",
                      "rs_t0_D"} :
             Follows(p, cause[p])
    BY <1>2, <1>3, <1>4
  <1>6. due'["D3"] = IF cause["D3"] THEN NxmDelay ELSE IF due["D3"] = 0 THEN 0 ELSE due["D3"] - 1
    <2>1. "D3" \in McPulse /\ McDelay["D3"] = NxmDelay
      BY DEF McPulse, McDelay
    <2>2. due'["D3"] = IF cause["D3"] /\ (NxmDelay > 1 \/ "D3" \notin up) THEN NxmDelay
                       ELSE IF due["D3"] = 0 THEN 0 ELSE due["D3"] - 1
      BY <1>1, <2>1
    <2>3. PICK w \in Waits : NxmDelay >= w + 100
      BY MemCycleAssumption
    <2>4. NxmDelay > 1
      BY <2>3, MemCycleAssumption
    <2> QED
      BY <2>2, <2>4
  <1>7. /\ cause["rd_rq"] = (Asked(x, "rd") \/ is("split_rd"))
        /\ cause["wr_rq"] = (Asked(x, "wr") \/ is("split_wr"))
        /\ cause["rdwr_rq"] = (Asked(x, "rdwr") /\ ~mc_split_cyc_sync)
        /\ cause["split_rd"] = (Asked(x, "rdwr") /\ mc_split_cyc_sync)
        /\ cause["rq"] = (is("rdwr_rq") \/ is("rd_rq") \/ is("wr_rq"))
        /\ cause["D0"] = (is("rq")) /\ cause["D1"] = (is("rq")) /\ cause["D2"] = (is("rq"))
        /\ cause["D3"] = (is("rq"))
        /\ cause["rq_set"] = ((is("D0") /\ x.rel = "inh") \/ (is("D1") /\ x.rel = "ok"))
        /\ cause["illeg"] = (is("D1") /\ x.rel = "bad")
        /\ cause["mb_clr"] = (is("rd_rq") \/ is("rdwr_rq"))
        /\ cause["mb_clr_D"] = (is("mb_clr")) /\ cause["mai_ack"] = (addr_ack(0))
    BY DEF McCause, ToProcessor
  <1>8. /\ cause["nxm"] = (mc_non_exist_mem) /\ cause["nxm_rst"] = (is("nxm") /\ ~x.disable)
        /\ cause["nxm_rd"] = (is("nxm_rst") /\ mc_rd)
        /\ cause["ack"] = (is("mai_ack") \/ is("nxm_rst"))
        /\ cause["mai_rd_rs"] = (rd_rs(0)) /\ cause["rdwr_rs"] = (Asked(x, "rs"))
        /\ cause["rdwr_rs_D"] = (is("rdwr_rs"))
        /\ cause["split_wr"] = (is("rdwr_rs") /\ mc_split_cyc_sync)
        /\ (cause["mc_wr_rs"] <=> wr_rs_set(x)) /\ cause["bus_wr_rs"] = (is("mc_wr_rs"))
        /\ cause["bus_mb"] = (is("mc_wr_rs")) /\ cause["rs_t0"] = (mc_rs_t0(x))
        /\ cause["rs_t0_D"] = (is("rs_t0")) /\ cause["rs_t1"] = (is("rs_t0_D"))
    BY DEF McCause, ToProcessor, wr_rs_set
  <1>9. /\ Comes("rd_rq", Asked(x, "rd") \/ is("split_rd"))
        /\ Comes("wr_rq", Asked(x, "wr") \/ is("split_wr"))
        /\ Comes("rdwr_rq", Asked(x, "rdwr") /\ ~mc_split_cyc_sync)
        /\ Comes("split_rd", Asked(x, "rdwr") /\ mc_split_cyc_sync)
        /\ Comes("rq", is("rdwr_rq") \/ is("rd_rq") \/ is("wr_rq"))
        /\ Follows("D0", is("rq")) /\ Follows("D1", is("rq")) /\ Follows("D2", is("rq"))
        /\ due'["D3"] = IF is("rq") THEN NxmDelay ELSE IF due["D3"] = 0 THEN 0 ELSE due["D3"] - 1
        /\ Comes("rq_set", (is("D0") /\ x.rel = "inh") \/ (is("D1") /\ x.rel = "ok"))
        /\ Comes("illeg", is("D1") /\ x.rel = "bad")
        /\ Comes("mb_clr", is("rd_rq") \/ is("rdwr_rq"))
        /\ Follows("mb_clr_D", is("mb_clr")) /\ Comes("mai_ack", addr_ack(0))
    BY <1>5, <1>6, <1>7
  <1>10. Comes("mc_wr_rs", wr_rs_set(x))
    <2>1. Comes("mc_wr_rs", cause["mc_wr_rs"])
      BY <1>5
    <2>2. cause["mc_wr_rs"] <=> wr_rs_set(x)
      BY <1>8
    <2> QED
      BY <2>1, <2>2 DEF Comes
  <1>11. /\ Comes("nxm", mc_non_exist_mem) /\ Comes("nxm_rst", is("nxm") /\ ~x.disable)
         /\ Comes("nxm_rd", is("nxm_rst") /\ mc_rd)
         /\ Comes("ack", is("mai_ack") \/ is("nxm_rst")) /\ Comes("mai_rd_rs", rd_rs(0))
         /\ Comes("rdwr_rs", Asked(x, "rs")) /\ Follows("rdwr_rs_D", is("rdwr_rs"))
         /\ Comes("split_wr", is("rdwr_rs") /\ mc_split_cyc_sync)
         /\ Comes("mc_wr_rs", wr_rs_set(x)) /\ Follows("bus_wr_rs", is("mc_wr_rs"))
         /\ Follows("bus_mb", is("mc_wr_rs")) /\ Comes("rs_t0", mc_rs_t0(x))
         /\ Follows("rs_t0_D", is("rs_t0")) /\ Comes("rs_t1", is("rs_t0_D"))
    BY <1>5, <1>8, <1>10
  <1> QED
    BY <1>9, <1>11

(***************************************************************************)
(* The bus                                                                 *)
(***************************************************************************)

(* The request that reaches the module.                                    *)
Connected == await_rq /\ mc_rq /\ (mc_rd \/ mc_wr) /\ ma \notin Absent

(* Ports 1 to 3 are tied off: all that comes in comes from port 0.         *)
LEMMA OnTheBus ==
  ASSUME Typed
  PROVE  /\ Requests(ToModule) # {} <=> Connected
         /\ Connected => Requests(ToModule) = {0} /\ Granted(ToModule) = 0
         /\ rs_set(ToModule) <=> act = 0 /\ is("bus_wr_rs")
         /\ mb_in(ToModule) = IF act = 0 THEN BusMb ELSE {}
         /\ act # NoPort /\ ToModule[act].rd_rq <=> act = 0 /\ mc_rd
         /\ act # NoPort /\ ToModule[act].wr_rq <=> act = 0 /\ mc_wr
         /\ act # NoPort => ToModule[act].ma = IF act = 0 THEN ma ELSE Reset
  <1>1. /\ ToModule[0].rq_cyc <=> mc_rq /\ (mc_rd \/ mc_wr) /\ ma \notin Absent
        /\ ToModule[0].rd_rq = mc_rd /\ ToModule[0].wr_rq = mc_wr /\ ToModule[0].ma = ma
        /\ ToModule[0].mb_in = BusMb /\ ToModule[0].wr_rs = is("bus_wr_rs")
    <2>1. ToModule[0] = [McBus EXCEPT !.rq_cyc = @ /\ ma \notin Absent, !.mb_in = BusMb]
      BY DEF ToModule, Port
    <2>2. /\ ToModule[0].rq_cyc = ((mc_rq /\ (mc_rd \/ mc_wr)) /\ ma \notin Absent)
          /\ ToModule[0].rd_rq = mc_rd /\ ToModule[0].wr_rq = mc_wr /\ ToModule[0].ma = ma
          /\ ToModule[0].mb_in = BusMb /\ ToModule[0].wr_rs = is("bus_wr_rs")
      BY <2>1 DEF McBus
    <2> QED
      BY <2>2
  <1>2. ASSUME NEW p \in Port, p # 0
        PROVE  ToModule[p] = TiedOff
    BY <1>2 DEF ToModule
  <1>3. Requests(ToModule) = IF Connected THEN {0} ELSE {}
    <2>1. ASSUME NEW p \in Port
          PROVE  ToModule[p].rq_cyc /\ await_rq <=> p = 0 /\ Connected
      BY <1>1, <1>2 DEF TiedOff, Connected
    <2> QED
      BY <2>1 DEF Requests, Port
  <1>4. act \in Port \cup {NoPort} /\ NoPort # 0
    BY NoPortAssumption DEF Typed, TypeOK, Port
  <1>5. /\ rs_set(ToModule) <=> act = 0 /\ is("bus_wr_rs")
        /\ mb_in(ToModule) = IF act = 0 THEN BusMb ELSE {}
        /\ act # NoPort /\ ToModule[act].rd_rq <=> act = 0 /\ mc_rd
        /\ act # NoPort /\ ToModule[act].wr_rq <=> act = 0 /\ mc_wr
        /\ act # NoPort => ToModule[act].ma = IF act = 0 THEN ma ELSE Reset
    BY <1>1, <1>2, <1>4 DEF rs_set, mb_in, TiedOff
  <1>6. Connected => Granted(ToModule) = 0
    BY <1>3 DEF Granted
  <1> QED
    BY <1>3, <1>5, <1>6

(* What happens on a clock, in the words of the bus.                       *)
LEMMA ControlGoes ==
  ASSUME Typed, NEW x, Moves(x)
  PROVE  /\ act' = IF Connected THEN 0 ELSE IF on("state_clr") THEN NoPort ELSE act
         /\ await_rq' = IF on("t5") \/ aw_rq_set THEN TRUE
                        ELSE IF on("t0") \/ left["pwr_t2"] > 0 THEN FALSE ELSE await_rq
         /\ rq_sync' = IF on("t2") THEN FALSE
                       ELSE IF rq_sync_set THEN TRUE
                       ELSE IF on("start") \/ left["pwr_t3"] > 0 THEN FALSE ELSE rq_sync
         /\ cyc_done' = IF on("t2") THEN FALSE
                        ELSE IF on("wr") THEN TRUE
                        ELSE IF left["pwr_t3"] > 0 THEN FALSE ELSE cyc_done
         /\ pse_sync' = IF on("pse_set") THEN TRUE ELSE IF on("t1b") THEN FALSE ELSE pse_sync
         /\ proc_rs' = IF on("rs_D") THEN TRUE ELSE IF on("t1b") THEN FALSE ELSE proc_rs
  BY OnTheBus DEF Moves, ModuleClock, Control

(* The request is taken at t1b and kept.                                   *)
LEMMA JamGoes ==
  ASSUME Typed, NEW x, Moves(x)
  PROVE  /\ ~on("t1b") => UNCHANGED request
         /\ on("t1b") => /\ cma' = IF act = 0 THEN ma ELSE Reset
                         /\ cma_rd_rq' = (act = 0 /\ mc_rd)
                         /\ cma_wr_rq' = (act = 0 /\ mc_wr)
  <1>1. act # NoPort \/ act # 0
    BY NoPortAssumption DEF Port
  <1> QED
    BY <1>1, OnTheBus DEF Moves, ModuleClock, Jam

(* The flags of each meeting.                                              *)
LEMMA MeetingsGo ==
  ASSUME Typed, NEW x, Moves(x)
  PROVE  /\ m_read' <=> (on("t1a") /\ cma_rd_rq) \/ (~on("t1a") /\ m_read /\ lag > 0)
         /\ m_write' <=> (on("t3") /\ cma_wr_rq) \/ (~on("t3") /\ m_write /\ lag > 0)
         /\ sa' = IF m_read /\ lag = 0 THEN store[cma] ELSE sa
         /\ stb_sync' <=> ~on("stb") /\ (stb_sync \/ on("strobe"))
         /\ stb_done' <=> ~on("stb") /\ ~on("t1a") /\ (stb_done \/ (m_read /\ lag = 0))
         /\ rd_sync' <=> ~on("rd") /\ (rd_sync \/ on("read_off"))
         /\ rd_done' <=> ~on("rd") /\ \/ on("t1a") /\ ~cma_rd_rq
                                      \/ ~on("t1a") /\ (rd_done \/ on("stb"))
         /\ wr_sync' <=> ~on("wr") /\ (wr_sync \/ on("t6"))
         /\ wr_done' <=> ~on("wr") /\ \/ on("t3") /\ ~cma_wr_rq
                                      \/ ~on("t3") /\ \/ wr_done \/ on("start")
                                                      \/ m_write /\ lag = 0
         /\ m_read' \in BOOLEAN /\ m_write' \in BOOLEAN /\ stb_sync' \in BOOLEAN
         /\ stb_done' \in BOOLEAN /\ rd_sync' \in BOOLEAN /\ rd_done' \in BOOLEAN
         /\ wr_sync' \in BOOLEAN /\ wr_done' \in BOOLEAN
  <1>1. lag \in Nat
    BY DEF Typed, TypeOK
  <1>2. m_waitrequest <=> lag > 0
    BY DEF m_waitrequest
  <1>3. Handshake(m_waitrequest, Fetched)
    BY DEF Moves, ModuleClock
  <1>4. /\ Written(m_waitrequest) <=> m_write /\ lag = 0
        /\ IsRead(m_waitrequest) <=> m_read /\ lag = 0
    BY <1>1, <1>2 DEF Written, IsRead
  <1>5. IsRead(m_waitrequest) => Fetched = store[cma]
    BY DEF IsRead, Fetched
  <1>6. /\ m_read' = IF on("t1a") THEN cma_rd_rq ELSE m_read /\ ~IsRead(m_waitrequest)
        /\ m_write' = IF on("t3") THEN cma_wr_rq ELSE m_write /\ ~Written(m_waitrequest)
        /\ sa' = IF IsRead(m_waitrequest) THEN Fetched ELSE sa
        /\ stb_sync' = IF on("stb") THEN FALSE ELSE stb_sync \/ on("strobe")
        /\ stb_done' = IF on("stb") \/ on("t1a") THEN FALSE
                       ELSE stb_done \/ IsRead(m_waitrequest)
        /\ rd_sync' = IF on("rd") THEN FALSE ELSE rd_sync \/ on("read_off")
        /\ rd_done' = IF on("rd") THEN FALSE
                      ELSE IF on("t1a") THEN ~cma_rd_rq ELSE rd_done \/ on("stb")
        /\ wr_sync' = IF on("wr") THEN FALSE ELSE wr_sync \/ on("t6")
        /\ wr_done' = IF on("wr") THEN FALSE
                      ELSE IF on("t3") THEN ~cma_wr_rq
                      ELSE wr_done \/ Written(m_waitrequest) \/ on("start")
    BY <1>3 DEF Handshake
  <1>7. /\ m_read \in BOOLEAN /\ cma_rd_rq \in BOOLEAN /\ m_write \in BOOLEAN
        /\ cma_wr_rq \in BOOLEAN
    BY DEF Typed
  <1>12. /\ m_read' <=> (on("t1a") /\ cma_rd_rq) \/ (~on("t1a") /\ m_read /\ lag > 0)
         /\ m_write' <=> (on("t3") /\ cma_wr_rq) \/ (~on("t3") /\ m_write /\ lag > 0)
         /\ m_read' \in BOOLEAN /\ m_write' \in BOOLEAN
    <2>1. m_read /\ ~IsRead(m_waitrequest) <=> m_read /\ lag > 0
      BY <1>1, <1>4
    <2>2. m_write /\ ~Written(m_waitrequest) <=> m_write /\ lag > 0
      BY <1>1, <1>4
    <2> QED
      BY <1>6, <1>7, <2>1, <2>2
  <1>8. sa' = IF m_read /\ lag = 0 THEN store[cma] ELSE sa
    BY <1>4, <1>5, <1>6
  <1>9. /\ stb_sync' <=> ~on("stb") /\ (stb_sync \/ on("strobe"))
        /\ stb_done' <=> ~on("stb") /\ ~on("t1a") /\ (stb_done \/ (m_read /\ lag = 0))
        /\ stb_sync' \in BOOLEAN /\ stb_done' \in BOOLEAN
    BY <1>4, <1>6 DEF Typed
  <1>10. /\ rd_sync' <=> ~on("rd") /\ (rd_sync \/ on("read_off"))
         /\ rd_done' <=> ~on("rd") /\ \/ on("t1a") /\ ~cma_rd_rq
                                      \/ ~on("t1a") /\ (rd_done \/ on("stb"))
         /\ rd_sync' \in BOOLEAN /\ rd_done' \in BOOLEAN
    BY <1>6 DEF Typed
  <1>11. /\ wr_sync' <=> ~on("wr") /\ (wr_sync \/ on("t6"))
         /\ wr_done' <=> ~on("wr") /\ \/ on("t3") /\ ~cma_wr_rq
                                      \/ ~on("t3") /\ \/ wr_done \/ on("start")
                                                      \/ m_write /\ lag = 0
         /\ wr_sync' \in BOOLEAN /\ wr_done' \in BOOLEAN
    BY <1>4, <1>6 DEF Typed
  <1> QED
    BY <1>8, <1>9, <1>10, <1>11, <1>12

(***************************************************************************)
(* The types, kept by a step                                               *)
(***************************************************************************)

(* What is on the data lines is a word.                                    *)
LEMMA WordsOnTheBus ==
  ASSUME Typed
  PROVE  BusMb \in Word /\ mb_in(ToModule) \in Word
  <1>1. mc_membus_mb \in Word /\ mb_out(0) \in Word
    BY DEF Typed, TypeOK, mc_membus_mb, mb_out, Word
  <1> QED
    BY <1>1, OnTheBus DEF BusMb, Word

(* The flip-flops of the memory control.                                   *)
LEMMA FlagsTyped ==
  ASSUME Typed, NEW x \in Inputs, McFlags(x)
  PROVE  /\ mc_rd' \in BOOLEAN /\ mc_wr' \in BOOLEAN /\ mc_rq' \in BOOLEAN
         /\ mc_stop' \in BOOLEAN /\ mc_stop_sync' \in BOOLEAN /\ mc_split_cyc_sync' \in BOOLEAN
  <1>1. Keep(mc_rd, x) \in BOOLEAN /\ Keep(mc_wr, x) \in BOOLEAN /\ Keep(mc_rq, x) \in BOOLEAN
    BY DEF Keep
  <1>2. /\ Keep(mc_stop, x) \in BOOLEAN /\ Keep(mc_stop_sync, x) \in BOOLEAN
        /\ Keep(mc_split_cyc_sync, x) \in BOOLEAN
    BY DEF Keep
  <1>3. mc_rd' \in BOOLEAN /\ mc_wr' \in BOOLEAN /\ mc_rq' \in BOOLEAN
    BY <1>1 DEF McFlags
  <1>4. mc_stop' \in BOOLEAN /\ mc_stop_sync' \in BOOLEAN /\ mc_split_cyc_sync' \in BOOLEAN
    BY <1>2 DEF McFlags
  <1> QED
    BY <1>3, <1>4

(* The flip-flops of the module, and the request it took.                  *)
LEMMA ControlTyped ==
  ASSUME Typed, NEW x, Moves(x)
  PROVE  /\ act' \in Port \cup {NoPort}
         /\ await_rq' \in BOOLEAN /\ rq_sync' \in BOOLEAN /\ cyc_done' \in BOOLEAN
         /\ pse_sync' \in BOOLEAN /\ proc_rs' \in BOOLEAN
         /\ cma' \in Addr \cup {Reset} /\ cma_rd_rq' \in BOOLEAN /\ cma_wr_rq' \in BOOLEAN
  <1>1. act' \in Port \cup {NoPort}
    <2>1. act \in Port \cup {NoPort} /\ 0 \in Port
      BY DEF Typed, TypeOK, Port
    <2>2. act' = 0 \/ act' = NoPort \/ act' = act
      BY ControlGoes
    <2> QED
      BY <2>1, <2>2
  <1>2. /\ await_rq' \in BOOLEAN /\ rq_sync' \in BOOLEAN /\ cyc_done' \in BOOLEAN
        /\ pse_sync' \in BOOLEAN /\ proc_rs' \in BOOLEAN
    BY ControlGoes DEF Typed
  <1>3. cma' \in Addr \cup {Reset}
    BY JamGoes DEF Typed, TypeOK, request
  <1>4. cma_rd_rq' \in BOOLEAN /\ cma_wr_rq' \in BOOLEAN
    BY JamGoes DEF Typed, request
  <1> QED
    BY <1>1, <1>2, <1>3, <1>4

(* Every step keeps the types.                                             *)
LEMMA TypesKept ==
  ASSUME Typed, m_read => cma \in Addr, NEW x \in Inputs, Steps(x)
  PROVE  Typed'
  <1>1. Moves(x) /\ McFlags(x) /\ Buffers(x, ToProcessor) /\ MemoryClock
        /\ McSchedule(x, ToProcessor) /\ Schedule(ToModule) /\ Buffer(ToModule)
    BY DEF Steps, Moves, McClock, ModuleClock
  <1>2. /\ left' \in [Pulse -> 0 .. 50] /\ high' \subseteq Pulse
        /\ \A p \in Pulse : left'[p] <= Delay[p]
        /\ \A p \in Pulse : Delay[p] = 1 /\ left'[p] = 1 => p \in high'
    BY <1>1, LeftTyped
  <1>3. /\ due' \in [McPulse -> Nat] /\ up' \subseteq McPulse
        /\ \A p \in McPulse : due'[p] <= McDelay[p]
    BY <1>1, DueTyped
  <1>4. store[cma] \in Word \/ ~m_read
    BY DEF Typed, TypeOK
  <1>5. sa' \in Word
    BY <1>1, <1>4, MeetingsGo DEF Typed, TypeOK
  <1>6. cmb' \in Word
    BY <1>1, WordsOnTheBus DEF Buffer, Typed, TypeOK, Word
  <1>7. mb' \in Word
    BY <1>1, WordsOnTheBus DEF Buffers, ToProcessor, Typed, TypeOK, Word, Inputs
  <1>8. ma' \in Addr \cup {Reset}
    BY <1>1 DEF Buffers, Typed, TypeOK, Inputs
  <1>9. mb_pulse' \in 0 .. 3
    BY <1>1 DEF Buffers, Typed
  <1>10. store' \in [Addr -> Word]
    BY <1>1 DEF MemoryClock, Typed, TypeOK
  <1>11. lag' \in Nat
    <2>1. lag \in Nat /\ Waits \subseteq Nat
      BY MemCycleAssumption DEF Typed, TypeOK
    <2>2. lag' \in Waits \/ lag' = (IF lag = 0 THEN 0 ELSE lag - 1)
      BY <1>1 DEF MemoryClock
    <2>3. (IF lag = 0 THEN 0 ELSE lag - 1) \in Nat
      BY <2>1
    <2> QED
      BY <2>1, <2>2, <2>3
  <1>12. /\ cpu' \in {"off", "keyed", "idle", "addressed", "trap", "paused", "halted"} \cup Awaits
         /\ rel' \in {"inh", "ok", "bad"} /\ rest' \in Nat /\ latest' \in [Addr -> Word]
    BY DEF Steps
  <1>14. /\ mc_rd' \in BOOLEAN /\ mc_wr' \in BOOLEAN /\ mc_rq' \in BOOLEAN
         /\ mc_stop' \in BOOLEAN /\ mc_stop_sync' \in BOOLEAN /\ mc_split_cyc_sync' \in BOOLEAN
    BY <1>1, FlagsTyped
  <1>15. /\ await_rq' \in BOOLEAN /\ rq_sync' \in BOOLEAN /\ cyc_done' \in BOOLEAN
         /\ pse_sync' \in BOOLEAN /\ proc_rs' \in BOOLEAN
         /\ cma_rd_rq' \in BOOLEAN /\ cma_wr_rq' \in BOOLEAN
    BY <1>1, ControlTyped
  <1>16. /\ m_read' \in BOOLEAN /\ m_write' \in BOOLEAN /\ stb_sync' \in BOOLEAN
         /\ stb_done' \in BOOLEAN /\ rd_sync' \in BOOLEAN /\ rd_done' \in BOOLEAN
         /\ wr_sync' \in BOOLEAN /\ wr_done' \in BOOLEAN
    BY <1>1, MeetingsGo
  <1>17. last_proc' \in {0, 1}
    <2>1. Requests(ToModule) # {2, 3}
      BY OnTheBus
    <2>2. last_proc \in {0, 1}
      BY DEF Typed, TypeOK, WithinDelays
    <2> QED
      BY <1>1, <2>1, <2>2 DEF Moves, ModuleClock, Control
  <1>18. FlipFlopsOK'
    BY <1>14, <1>15, <1>16 DEF FlipFlopsOK
  <1>19. WithinDelays'
    BY <1>2, <1>3, <1>9, <1>12, <1>17 DEF WithinDelays
  <1>20. TypeOK'
    BY <1>1, <1>2, <1>3, <1>5, <1>6, <1>7, <1>8, <1>10, <1>11, <1>12, <1>18, <1>19,
       ControlTyped DEF TypeOK
  <1> QED
    BY <1>2, <1>3, <1>9, <1>12, <1>14, <1>15, <1>16, <1>20 DEF Typed

(* A request has an address, up to the memory.                             *)
LEMMA AddressKept ==
  ASSUME Typed, AddressInv, NEW x \in Inputs, Steps(x)
  PROVE  AddressInv'
  <1>1. Moves(x) /\ McFlags(x) /\ Buffers(x, ToProcessor) /\ McSchedule(x, ToProcessor)
    BY DEF Steps, Moves, McClock
  <1>2. ma' = IF x.op \in Request THEN x.addr ELSE ma
    BY <1>1 DEF Buffers, Request
  <1>3. ma \in Addr => ma' \in Addr
    BY <1>2 DEF Steps
  <1>4. x.op \in Request => ma' \in Addr
    BY <1>2 DEF Steps
  <1>5. cpu' \in Awaits \cup {"paused"} => ma' \in Addr
    BY <1>3, <1>4 DEF Steps, AddressInv, Awaits, Request
  <1>6. /\ due["rd_rq"] = 1 \/ due["rdwr_rq"] = 1 \/ mc_rd => ma \in Addr
        /\ due["wr_rq"] = 1 \/ due["rdwr_rq"] = 1 \/ mc_wr => ma \in Addr
    BY DEF AddressInv
  <1>7. mc_rd' \/ mc_wr' => ma' \in Addr
    BY <1>1, <1>3, <1>6 DEF McFlags, Keep, is
  <1>8. ASSUME NEW p \in {"rd_rq", "wr_rq", "rdwr_rq", "split_rd", "split_wr"}, due'[p] > 0
        PROVE  ma' \in Addr
    <2>1. /\ due'["rd_rq"] > 0 => Asked(x, "rd") \/ is("split_rd")
          /\ due'["wr_rq"] > 0 => Asked(x, "wr") \/ is("split_wr")
          /\ due'["rdwr_rq"] > 0 => Asked(x, "rdwr")
          /\ due'["split_rd"] > 0 => Asked(x, "rdwr")
          /\ due'["split_wr"] > 0 => is("rdwr_rs")
      BY <1>1, McPulsesGo DEF Comes
    <2>2. /\ is("split_rd") => due["split_rd"] > 0
          /\ is("split_wr") => due["split_wr"] > 0
      BY DEF is
    <2>3. is("rdwr_rs") => ma \in Addr
      BY DEF AddressInv, is
    <2> QED
      BY <1>3, <1>4, <1>8, <2>1, <2>2, <2>3 DEF AddressInv, Asked, Request
  <1>9. due'["rdwr_rs"] > 0 => ma' \in Addr
    <2>1. due'["rdwr_rs"] > 0 => Asked(x, "rs")
      BY <1>1, McPulsesGo DEF Comes
    <2> QED
      BY <1>3, <2>1 DEF Asked, Steps, AddressInv
  <1>10. cma_rd_rq' \/ cma_wr_rq' => cma' \in Addr
    BY <1>1, <1>6, JamGoes DEF AddressInv, request
  <1> QED
    BY <1>5, <1>7, <1>8, <1>9, <1>10 DEF AddressInv

(***************************************************************************)
(* The chain, kept by a step                                               *)
(***************************************************************************)

(* Nothing is asked as long as the processor does nothing.                 *)
LEMMA UnaskedKept ==
  ASSUME Typed, Unasked, NEW s \in Stage, ReadInv(s), NEW x, x.op = "none", Moves(x)
  PROVE  Unasked'
  <1>1. McFlags(x) /\ McSchedule(x, ToProcessor) /\ Schedule(ToModule)
    BY DEF Moves, McClock, ModuleClock
  <1>2. ~Connected /\ ~rs_set(ToModule)
    BY OnTheBus DEF Connected, Unasked, is, McPulse, McDelay
  <1>3. left["stb"] = 0
    <2>1. left["stb"] \in Nat
      BY DEF Typed, Pulse, Delay
    <2> QED
      BY <2>1 DEF ReadInv, Unasked
  <1>4. /\ left'["t0"] = 0 /\ left'["t0_D"] = 0 /\ left'["rs_D"] = 0 /\ left'["proc_rs"] = 0
        /\ left'["rd_rs"] = 0
    BY <1>1, <1>2, <1>3, PulsesGo, OnTheBus DEF Rises, Starts, Count, Unasked, on
  <1>5. ~proc_rs' /\ ~cma_rd_rq' /\ ~cma_wr_rq'
    <2>1. ~proc_rs'
      <3>1. ~on("rs_D") /\ ~proc_rs
        BY DEF Unasked, on
      <3> QED
        BY <3>1, ControlGoes
    <2>2. CASE on("t1b")
      BY <2>1, <2>2, JamGoes DEF Unasked
    <2>3. CASE ~on("t1b")
      BY <2>1, <2>3, JamGoes DEF Unasked, request
    <2> QED
      BY <2>2, <2>3
  <1>6. ~m_read' /\ ~m_write'
    BY MeetingsGo DEF Unasked
  <1>7. \A p \in McPulse \ {"mai_ack", "ack"} : ~is(p)
    BY DEF Unasked, is
  <1>8. /\ ~mc_rd' /\ ~mc_wr' /\ ~mc_rq' /\ ~mc_stop' /\ ~mc_stop_sync' /\ ~mc_split_cyc_sync'
    BY <1>1, <1>7 DEF McFlags, Unasked, Keep, Asked, stop_set, McPulse, McDelay
  <1>9. ASSUME NEW p \in McPulse \ {"mai_ack", "ack"}
        PROVE  due'[p] = 0
    <2>1. /\ ~rd_rs(0) /\ ~mc_non_exist_mem /\ ~mc_rs_t0(x) /\ ~wr_rs_set(x)
      BY <1>7 DEF rd_rs, on, Unasked, mc_non_exist_mem, mc_rs_t0, Asked, McPulse, McDelay,
                  wr_rs_set
    <2>2. /\ due'["rd_rq"] = 0 /\ due'["wr_rq"] = 0 /\ due'["rdwr_rq"] = 0 /\ due'["rq"] = 0
          /\ due'["D0"] = 0 /\ due'["D1"] = 0 /\ due'["D2"] = 0 /\ due'["D3"] = 0
          /\ due'["rq_set"] = 0 /\ due'["illeg"] = 0 /\ due'["mb_clr"] = 0
          /\ due'["mb_clr_D"] = 0 /\ due'["nxm"] = 0
      BY <1>1, <1>7, <2>1, McPulsesGo DEF Comes, Follows, Unasked, Asked, McPulse, McDelay
    <2>3. /\ due'["nxm_rst"] = 0 /\ due'["nxm_rd"] = 0 /\ due'["mai_rd_rs"] = 0
          /\ due'["rdwr_rs"] = 0 /\ due'["rdwr_rs_D"] = 0 /\ due'["split_rd"] = 0
          /\ due'["split_wr"] = 0 /\ due'["mc_wr_rs"] = 0 /\ due'["bus_wr_rs"] = 0
          /\ due'["bus_mb"] = 0 /\ due'["rs_t0"] = 0 /\ due'["rs_t0_D"] = 0
          /\ due'["rs_t1"] = 0
      BY <1>1, <1>7, <2>1, McPulsesGo DEF Comes, Follows, Unasked, Asked, McPulse, McDelay
    <2> QED
      BY <2>2, <2>3 DEF McPulse, McDelay
  <1> QED
    BY <1>4, <1>5, <1>6, <1>8, <1>9 DEF Unasked

(* From stage to stage.                                                    *)
Onward(s, r) ==
  \/ s = "still" /\ t1b_set /\ "t1b" \notin high /\ ~on("pwr_t3") /\ r = "t1b"
  \/ s = "still" /\ ~t1b_set /\ on("pwr_t3") /\ r = "start"
  \/ s = "still" /\ ~t1b_set /\ ~on("pwr_t3") /\ r = "still"
  \/ s = "t1b" /\ r = "t1a"
  \/ s = "t1a" /\ r = "t2"
  \/ s = "t2" /\ r = IF on("t2") THEN "read_off" ELSE "t2"
  \/ s = "read_off" /\ r = IF on("read_off") THEN "rd_sync" ELSE "read_off"
  \/ s = "rd_sync" /\ r = IF rd_done THEN "rd" ELSE "rd_sync"
  \/ s = "rd" /\ r = "pse_set"
  \/ s = "pse_set" /\ r = IF on("pse_set") THEN "pse" ELSE "pse_set"
  \/ s = "pse" /\ r = IF proc_rs \/ ~cma_wr_rq THEN "t3" ELSE "pse"
  \/ s = "t3" /\ r = "t4"
  \/ s = "t4" /\ r = IF on("t4") THEN "t3_D1" ELSE "t4"
  \/ s = "t3_D1" /\ r = IF on("t3_D1") THEN "t3_D2" ELSE "t3_D1"
  \/ s = "t3_D2" /\ r = IF on("t3_D2") THEN "t6p" ELSE "t3_D2"
  \/ s = "t6p" /\ r = "t6"
  \/ s = "t6" /\ r = IF on("t6") THEN "wr_sync" ELSE "t6"
  \/ s = "wr_sync" /\ r = IF wr_done THEN "wr" ELSE "wr_sync"
  \/ s = "wr" /\ r = "still"
  \/ s = "start" /\ r = "t6p"

(* What the steps of the chain are proved from.                            *)
Clocks(x, s) ==
  /\ Typed /\ Moves(x) /\ StageInv(s)
  /\ cpu = "off" => Unasked /\ (~Quiet => cpu' = "off")
  /\ cpu' = "off" => cpu = "off"

(* Each pulse of the chain, from the pulse before.                         *)
LEMMA ChainPulsesGo ==
  ASSUME NEW x, NEW s \in Stage, Clocks(x, s)
  PROVE  /\ left'["t1b"] > 0 <=> t1b_set /\ "t1b" \notin high
         /\ left'["t1a"] > 0 <=> s = "t1b"
         /\ left'["t2"] = IF s = "t1a" THEN 12 ELSE Count(left["t2"])
         /\ left'["read_off"] = IF on("t2") THEN 10 ELSE Count(left["read_off"])
         /\ left'["rd"] > 0 <=> rd_sync /\ rd_done /\ "rd" \notin high
         /\ left'["pse_set"] = IF s = "rd" THEN 5 ELSE Count(left["pse_set"])
         /\ left'["t3"] > 0 <=> pse_sync /\ (proc_rs \/ ~cma_wr_rq) /\ "t3" \notin high
         /\ left'["t4"] = IF s = "t3" THEN 2 ELSE Count(left["t4"])
         /\ left'["t3_D1"] = IF on("t4") THEN 25 ELSE Count(left["t3_D1"])
         /\ left'["t3_D2"] = IF on("t3_D1") THEN 10 ELSE Count(left["t3_D2"])
         /\ left'["t6p"] > 0 <=> s = "start" \/ on("t3_D2")
         /\ left'["t6"] = IF s = "t6p" THEN 12 ELSE Count(left["t6"])
         /\ left'["wr"] > 0 <=> wr_sync /\ wr_done /\ "wr" \notin high
         /\ left'["start"] > 0 <=> on("pwr_t3")
         /\ "t1a" \in high' <=> s = "t1b"
         /\ "t6p" \in high' <=> s = "start" \/ on("t3_D2")
         /\ "start" \in high' <=> on("pwr_t3")
  <1>1. Schedule(ToModule) /\ Typed /\ Chain(s) /\ PowerInv(s)
    BY DEF Clocks, Moves, ModuleClock, StageInv
  <1>2. \A p \in Pulse : left[p] \in Nat /\ (Delay[p] = 1 => left[p] <= 1)
    BY <1>1 DEF Typed, Pulse
  <1>3. \A p \in ChainPulse : p \in Pulse /\ left[p] \in Nat /\ (left[p] > 0 <=> p = s)
    BY <1>1, <1>2 DEF Chain, ChainPulse, Pulse, Delay
  <1>4. \A p \in {"t1b", "t1a", "rd", "t3", "t6p", "wr", "start"} : on(p) <=> p = s
    <2>1. \A p \in {"t1b", "t1a", "rd", "t3", "t6p", "wr", "start"} :
            p \in ChainPulse /\ p \in Pulse /\ Delay[p] = 1
      BY DEF ChainPulse, Pulse, Delay
    <2> QED
      BY <1>2, <1>3, <2>1 DEF on
  <1>5. on("pwr_t3") => s # "start" /\ "start" \notin high
    <2>1. on("pwr_t3") => s # "start"
      BY <1>1 DEF PowerInv, Powering, on
    <2> QED
      BY <1>1, <2>1 DEF Chain
  <1>6. "t1a" \in high => s # "t1b"
    BY <1>1 DEF Chain
  <1>7. "t6p" \in high => s # "start" /\ ~on("t3_D2")
    BY <1>1, <1>3 DEF Chain, on, ChainPulse
  <1>8. /\ left'["t1b"] > 0 <=> t1b_set /\ "t1b" \notin high
        /\ left'["rd"] > 0 <=> rd_sync /\ rd_done /\ "rd" \notin high
        /\ left'["t3"] > 0 <=> pse_sync /\ (proc_rs \/ ~cma_wr_rq) /\ "t3" \notin high
        /\ left'["wr"] > 0 <=> wr_sync /\ wr_done /\ "wr" \notin high
    BY <1>1, PulsesGo DEF Rises
  <1>9. /\ left'["t1a"] > 0 <=> s = "t1b"
        /\ left'["t6p"] > 0 <=> s = "start" \/ on("t3_D2")
        /\ left'["start"] > 0 <=> on("pwr_t3")
        /\ "t1a" \in high' <=> s = "t1b"
        /\ "t6p" \in high' <=> s = "start" \/ on("t3_D2")
        /\ "start" \in high' <=> on("pwr_t3")
    BY <1>1, <1>4, <1>5, <1>6, <1>7, PulsesGo DEF Rises
  <1>10. /\ left'["t2"] = IF s = "t1a" THEN 12 ELSE Count(left["t2"])
         /\ left'["read_off"] = IF on("t2") THEN 10 ELSE Count(left["read_off"])
         /\ left'["pse_set"] = IF s = "rd" THEN 5 ELSE Count(left["pse_set"])
         /\ left'["t4"] = IF s = "t3" THEN 2 ELSE Count(left["t4"])
         /\ left'["t3_D1"] = IF on("t4") THEN 25 ELSE Count(left["t3_D1"])
         /\ left'["t3_D2"] = IF on("t3_D1") THEN 10 ELSE Count(left["t3_D2"])
         /\ left'["t6"] = IF s = "t6p" THEN 12 ELSE Count(left["t6"])
    BY <1>1, <1>4, PulsesGo DEF Starts, Delay
  <1> QED
    BY <1>8, <1>9, <1>10

(* From each stage the chain goes on to one, or waits.                     *)
LEMMA SomeStage ==
  ASSUME NEW x, NEW s \in Stage, Clocks(x, s)
  PROVE  \E r \in Stage : Onward(s, r)
  <1>1. CASE s = "still"
    <2>1. "t1b" \notin high
      BY <1>1 DEF Clocks, StageInv, OpenInv, Opening
    <2>2. t1b_set => ~on("pwr_t3")
      <3>1. PowerInv("still") /\ left["pwr_t2"] \in Nat /\ left["pwr_t3"] \in Nat
        BY <1>1 DEF Clocks, StageInv, Typed, Pulse, Delay
      <3> QED
        BY <3>1 DEF PowerInv, Powering, Power, on, t1b_set, Opening
    <2> QED
      BY <1>1, <2>1, <2>2 DEF Onward, Stage, ChainPulse
  <1>2. CASE s \in {"t1b", "t1a", "t2", "read_off", "rd_sync", "rd", "pse_set", "pse"}
    BY <1>2 DEF Onward, Stage, ChainPulse
  <1>3. CASE s \in {"t3", "t4", "t3_D1", "t3_D2", "t6p", "t6", "wr_sync", "wr", "start"}
    BY <1>3 DEF Onward, Stage, ChainPulse
  <1> QED
    BY <1>1, <1>2, <1>3 DEF Stage, ChainPulse

(* The stage that follows is the only one again.                           *)
LEMMA ChainOn ==
  ASSUME NEW x, NEW s \in Stage, Clocks(x, s), NEW r \in Stage, Onward(s, r)
  PROVE  Chain(r)'
  <1>1. Chain(s) /\ OpenInv(s) /\ PauseInv(s) /\ ReadInv(s) /\ WriteInv(s)
    BY DEF Clocks, StageInv
  <1>2. \A p \in ChainPulse : left[p] \in Nat /\ (left[p] > 0 <=> p = s)
    BY <1>1 DEF Clocks, Typed, Chain, ChainPulse, Pulse, Delay
  <1>3. on("pwr_t3") => s = "still"
    <2>1. PowerInv(s) /\ left["pwr_t2"] \in Nat /\ left["pwr_t3"] \in Nat
      BY DEF Clocks, StageInv, Typed, Pulse, Delay
    <2>2. on("pwr_t3") => Rest(s) < 1 /\ s # "start"
      BY <2>1 DEF PowerInv, Powering, Power, on
    <2>3. s \notin {"still", "start"} => ~(Rest(s) < 1)
      BY <1>2 DEF Rest, Stage, ChainPulse
    <2> QED
      BY <2>2, <2>3
  <1>4. /\ left'["t1b"] > 0 <=> r = "t1b"
        /\ left'["start"] > 0 <=> r = "start"
    BY <1>1, <1>3, ChainPulsesGo DEF Onward, OpenInv, Opening, t1b_set
  <1>5. left'["t1a"] > 0 <=> r = "t1a"
    BY ChainPulsesGo DEF Onward
  <1>6. left'["t2"] > 0 <=> r = "t2"
    BY <1>2, ChainPulsesGo DEF Onward, Count, ChainPulse, on
  <1>7. left'["read_off"] > 0 <=> r = "read_off"
    BY <1>2, ChainPulsesGo DEF Onward, Count, ChainPulse, on
  <1>8. left'["rd"] > 0 <=> r = "rd"
    <2>1. s = "rd" => "rd" \in high
      BY <1>2 DEF Clocks, Typed, ChainPulse, Pulse, Delay
    <2> QED
      BY <1>1, <2>1, ChainPulsesGo DEF Onward, OpenInv, ReadInv
  <1>9. left'["pse_set"] > 0 <=> r = "pse_set"
    BY <1>2, ChainPulsesGo DEF Onward, Count, ChainPulse, on
  <1>10. left'["t3"] > 0 <=> r = "t3"
    BY <1>1, ChainPulsesGo DEF Onward, PauseInv, Parted
  <1>11. left'["t4"] > 0 <=> r = "t4"
    BY <1>2, ChainPulsesGo DEF Onward, Count, ChainPulse, on
  <1>12. left'["t3_D1"] > 0 <=> r = "t3_D1"
    BY <1>2, ChainPulsesGo DEF Onward, Count, ChainPulse, on
  <1>13. left'["t3_D2"] > 0 <=> r = "t3_D2"
    BY <1>2, ChainPulsesGo DEF Onward, Count, ChainPulse, on
  <1>14. left'["t6p"] > 0 <=> r = "t6p"
    BY <1>2, ChainPulsesGo DEF Onward, Count, ChainPulse, on
  <1>15. left'["t6"] > 0 <=> r = "t6"
    BY <1>2, ChainPulsesGo DEF Onward, Count, ChainPulse, on
  <1>16. left'["wr"] > 0 <=> r = "wr"
    <2>1. s = "wr" => "wr" \in high
      BY <1>2 DEF Clocks, Typed, ChainPulse, Pulse, Delay
    <2> QED
      BY <1>1, <2>1, ChainPulsesGo DEF Onward, OpenInv, WriteInv
  <1>17. \A p \in {"t1a", "t6p", "start"} : p \in high' => p = r
    <2>1. "t1a" \in high' => r = "t1a"
      BY <1>5, ChainPulsesGo
    <2>2. "t6p" \in high' => r = "t6p"
      BY <1>14, ChainPulsesGo
    <2>3. "start" \in high' => r = "start"
      BY <1>4, ChainPulsesGo
    <2> QED
      BY <2>1, <2>2, <2>3
  <1> QED
    BY <1>4, <1>5, <1>6, <1>7, <1>8, <1>9, <1>10, <1>11, <1>12, <1>13, <1>14, <1>15, <1>16, <1>17
    DEF Chain, ChainPulse

(* When each stage has its pulse, and who is on.                           *)
LEMMA StagesOn ==
  ASSUME NEW x, NEW s \in Stage, Clocks(x, s)
  PROVE  /\ \A p \in {"t1b", "t1a", "rd", "t3", "t6p", "wr", "start"} : on(p) <=> p = s
         /\ \A p \in ChainPulse : left[p] \in Nat /\ (left[p] > 0 <=> p = s)
         /\ \A p \in ChainPulse : on(p) => p = s
         /\ \A p \in Pulse : left[p] \in Nat /\ left[p] <= Delay[p]
         /\ \A p \in Pulse : Delay[p] = 1 /\ on(p) => p \in high
  <1>1. /\ \A p \in Pulse : left[p] \in Nat /\ left[p] <= Delay[p]
        /\ \A p \in Pulse : Delay[p] = 1 /\ on(p) => p \in high
    BY DEF Clocks, Typed, on
  <1>2. \A p \in ChainPulse : left[p] \in Nat /\ (left[p] > 0 <=> p = s)
    BY <1>1 DEF Clocks, StageInv, Chain, ChainPulse, Pulse, Delay
  <1>3. \A p \in {"t1b", "t1a", "rd", "t3", "t6p", "wr", "start"} : on(p) <=> p = s
    BY <1>1, <1>2 DEF on, ChainPulse, Pulse, Delay
  <1> QED
    BY <1>1, <1>2, <1>3 DEF on

(* The flags that open a cycle, at the stage that follows.                 *)
LEMMA OpenOn ==
  ASSUME NEW x, NEW s \in Stage, Clocks(x, s), NEW r \in Stage, Onward(s, r)
  PROVE  OpenInv(r)'
  <1>1. OpenInv(s) /\ PowerInv(s) /\ Moves(x) /\ Typed
    BY DEF Clocks, StageInv
  <1>2. "t1b" \in high' <=> rq_sync /\ cyc_done
    BY <1>1, PulsesGo DEF Moves, ModuleClock, Rises, t1b_set
  <1>3. s # "still" /\ left["pwr_t3"] > 0 => cpu = "off" /\ s # "start"
    BY <1>1 DEF PowerInv, Powering
  <1>4. s \in Opening => left["pwr_t3"] = 0
    BY <1>1, StagesOn DEF PowerInv, Powering, Power, Rest, Opening, Pulse, Delay, ChainPulse
  <1>5. rq_sync' = IF on("t2") THEN FALSE
                   ELSE IF rq_sync_set THEN TRUE
                   ELSE IF s = "start" \/ left["pwr_t3"] > 0 THEN FALSE ELSE rq_sync
    BY <1>1, ControlGoes, StagesOn
  <1>6. cyc_done' = IF on("t2") THEN FALSE
                    ELSE IF s = "wr" THEN TRUE
                    ELSE IF left["pwr_t3"] > 0 THEN FALSE ELSE cyc_done
    BY <1>1, ControlGoes, StagesOn
  <1>7. on("t2") => s = "t2"
    BY StagesOn DEF ChainPulse
  <1>8. s = "still" /\ r = "t1b" => left["pwr_t3"] = 0
    <2>1. left["pwr_t3"] \in 0 .. 50 /\ left["pwr_t2"] \in Nat
      BY StagesOn DEF Pulse, Delay
    <2> QED
      BY <1>1, <2>1 DEF PowerInv, Powering, Power, Onward, t1b_set, Opening
  <1>9. r \in Opening => rq_sync' /\ cyc_done' /\ "t1b" \in high'
    BY <1>1, <1>2, <1>4, <1>5, <1>6, <1>7, <1>8 DEF Onward, OpenInv, Opening, t1b_set
  <1>10. r \notin Opening \cup {"still"} => ~cyc_done'
    <2>1. on("pwr_t3") => left["pwr_t3"] > 0
      BY DEF on
    <2> QED
      BY <1>1, <1>6, <1>7, <2>1 DEF Onward, OpenInv, Opening, Stage, ChainPulse
  <1>11. r \notin Opening \cup {"read_off"} => "t1b" \notin high'
    BY <1>1, <1>2 DEF Onward, OpenInv, Opening, Stage, ChainPulse, t1b_set
  <1>12. (rd_sync' <=> r \in {"rd_sync", "rd"}) /\ (wr_sync' <=> r \in {"wr_sync", "wr"})
    <2>1. /\ rd_sync' <=> s # "rd" /\ (rd_sync \/ on("read_off"))
          /\ wr_sync' <=> s # "wr" /\ (wr_sync \/ on("t6"))
      BY <1>1, MeetingsGo, StagesOn
    <2>2. (on("read_off") => s = "read_off") /\ (on("t6") => s = "t6")
      BY StagesOn DEF ChainPulse
    <2> QED
      BY <1>1, <2>1, <2>2 DEF Onward, OpenInv
  <1> QED
    BY <1>9, <1>10, <1>11, <1>12 DEF OpenInv

(* The pause between the halves of a cycle, at the stage that follows.     *)
LEMMA PauseOn ==
  ASSUME NEW x, NEW s \in Stage, Clocks(x, s), NEW r \in Stage, Onward(s, r)
  PROVE  PauseInv(r)'
  <1>1. PauseInv(s) /\ Moves(x) /\ Typed
    BY DEF Clocks, StageInv
  <1>2. pse_sync' <=> on("pse_set") \/ (s # "t1b" /\ pse_sync)
    BY <1>1, ControlGoes, StagesOn DEF Typed
  <1>3. proc_rs' <=> on("rs_D") \/ (s # "t1b" /\ proc_rs)
    BY <1>1, ControlGoes, StagesOn DEF Typed
  <1>4. on("pse_set") => s = "pse_set"
    BY StagesOn DEF ChainPulse
  <1>5. "t3" \in high' <=> pse_sync /\ (proc_rs \/ ~cma_wr_rq)
    BY <1>1, PulsesGo DEF Moves, ModuleClock, Rises
  <1>6. s # "t1b" => cma_wr_rq' = cma_wr_rq
    BY <1>1, JamGoes, StagesOn DEF request
  <1> QED
    BY <1>1, <1>2, <1>3, <1>4, <1>5, <1>6 DEF Onward, PauseInv, Parted, Stage, ChainPulse

(* The read half, at the stage that follows.                               *)
LEMMA ReadOn ==
  ASSUME NEW x, NEW s \in Stage, Clocks(x, s), NEW r \in Stage, Onward(s, r)
  PROVE  ReadInv(r)'
  <1>1. ReadInv(s) /\ Moves(x) /\ Typed /\ rd_sync = (s \in {"rd_sync", "rd"})
    BY DEF Clocks, StageInv, OpenInv, Typed
  <1>2. /\ \A p \in {"t2_D1", "strobe", "stb", "read_off"} : left[p] \in Nat
        /\ left["strobe"] <= 1 /\ left["stb"] <= 1 /\ left["read_off"] <= 10 /\ left["t2_D1"] <= 3
        /\ left["stb"] > 0 => "stb" \in high
    BY StagesOn DEF Pulse, Delay, on
  <1>3. /\ left'["t2_D1"] = IF on("t2") THEN 3 ELSE Count(left["t2_D1"])
        /\ left'["strobe"] = IF on("t2_D1") /\ cma_rd_rq /\ "strobe" \notin high THEN 1 ELSE 0
        /\ "strobe" \in high' <=> on("t2_D1") /\ cma_rd_rq
        /\ left'["stb"] = IF stb_sync /\ stb_done /\ "stb" \notin high THEN 1 ELSE 0
        /\ "stb" \in high' <=> stb_sync /\ stb_done
        /\ "rd" \in high' <=> rd_sync /\ rd_done
    BY <1>1, PulsesGo DEF Moves, ModuleClock, Rises, Starts, Delay
  <1>4. left'["read_off"] = IF on("t2") THEN 10 ELSE Count(left["read_off"])
    BY ChainPulsesGo
  <1>5. /\ m_read' <=> (s = "t1a" /\ cma_rd_rq) \/ (s # "t1a" /\ m_read /\ lag > 0)
        /\ stb_sync' <=> ~on("stb") /\ (stb_sync \/ on("strobe"))
        /\ stb_done' <=> ~on("stb") /\ s # "t1a" /\ (stb_done \/ (m_read /\ lag = 0))
        /\ rd_done' <=> s # "rd" /\ \/ s = "t1a" /\ ~cma_rd_rq
                                    \/ s # "t1a" /\ (rd_done \/ on("stb"))
    BY <1>1, MeetingsGo, StagesOn
  <1>6. s # "t1b" => cma_rd_rq' = cma_rd_rq
    BY <1>1, JamGoes, StagesOn DEF request
  <1>7. (on("t2") => s = "t2") /\ (left["read_off"] > 0 <=> s = "read_off") /\ lag \in Nat
    BY StagesOn DEF ChainPulse, Typed, TypeOK, Clocks
  <1>8. m_read' => r \in Reading /\ cma_rd_rq' /\ ~stb_done' /\ ~rd_done'
    BY <1>1, <1>2, <1>5, <1>6, <1>7 DEF ReadInv, Onward, Reading, on
  <1>9. /\ left'["t2_D1"] > 0 <=> r = "read_off" /\ left'["read_off"] > 7
        /\ left'["t2_D1"] > 0 => left'["read_off"] = left'["t2_D1"] + 7
    BY <1>1, <1>2, <1>3, <1>4, <1>7 DEF ReadInv, Onward, on, Count
  <1>10. left'["strobe"] > 0 <=> r = "read_off" /\ left'["read_off"] = 7 /\ cma_rd_rq'
    BY <1>1, <1>2, <1>3, <1>4, <1>6, <1>7 DEF ReadInv, Onward, on, Count
  <1>11. "strobe" \in high' => left'["strobe"] > 0
    BY <1>1, <1>2, <1>3 DEF ReadInv, on
  <1>12. stb_sync' => /\ r \in {"read_off", "rd_sync"} /\ cma_rd_rq' /\ ~rd_done'
                      /\ r = "read_off" => left'["read_off"] < 7
    BY <1>1, <1>2, <1>4, <1>5, <1>6, <1>7 DEF ReadInv, Onward, on, Count, Reading
  <1>13. left'["stb"] > 0 => stb_sync' /\ stb_done'
    BY <1>1, <1>2, <1>3, <1>5 DEF ReadInv, on
  <1>14. stb_sync' /\ stb_done' => (left'["stb"] > 0 <=> "stb" \in high')
    BY <1>1, <1>2, <1>3, <1>5 DEF ReadInv, on
  <1>15. r \in Reading /\ ~cma_rd_rq' => rd_done'
    BY <1>1, <1>5, <1>6 DEF ReadInv, Onward, Reading
  <1>16. r \in Reading /\ cma_rd_rq' /\ ~rd_done'
       => /\ m_read' \/ stb_done'
          /\ r = "rd_sync" \/ (r = "read_off" /\ left'["read_off"] < 7) => stb_sync'
    <2>1. CASE s = "t1a"
      BY <1>5, <1>6, <2>1 DEF Onward
    <2>2. CASE s \in Reading
      <3> SUFFICES ASSUME r \in Reading, cma_rd_rq, ~rd_done'
                   PROVE  /\ m_read' \/ stb_done'
                          /\ r = "rd_sync" \/ (r = "read_off" /\ left'["read_off"] < 7)
                               => stb_sync'
        BY <1>6, <2>2 DEF Reading
      <3>1. ~rd_done /\ ~on("stb")
        BY <1>5, <2>2 DEF Reading
      <3>2. m_read' \/ stb_done'
        BY <1>1, <1>5, <1>7, <2>2, <3>1 DEF ReadInv, Reading
      <3>3. r = "rd_sync" \/ (r = "read_off" /\ left'["read_off"] < 7)
              => s = "rd_sync" \/ (s = "read_off" /\ left["read_off"] <= 7)
        BY <1>2, <1>4, <1>7 DEF Onward, Count, on
      <3>4. left["read_off"] = 7 /\ s = "read_off" => on("strobe")
        BY <1>1, <1>2 DEF ReadInv, on
      <3> QED
        BY <1>1, <1>2, <1>5, <2>2, <3>1, <3>2, <3>3, <3>4 DEF ReadInv, Reading
    <2>3. r \in Reading => s \in Reading \cup {"t1a"}
      BY DEF Onward, Reading
    <2> QED
      BY <2>1, <2>2, <2>3
  <1>17. r \in Reading /\ cma_rd_rq' /\ rd_done'
       => r # "t2" /\ (r = "read_off" => left'["read_off"] < 7)
    <2>1. CASE s = "t1a"
      BY <1>5, <1>6, <2>1 DEF Onward
    <2>2. CASE s # "t1a" /\ on("stb")
      BY <1>1, <1>2, <1>4, <1>7, <2>2 DEF ReadInv, Onward, Count, on
    <2>3. CASE s \in Reading /\ rd_done
      <3>1. cma_rd_rq' => s # "t2" /\ (s = "read_off" => left["read_off"] < 7)
        BY <1>1, <1>6, <2>3 DEF ReadInv, Reading
      <3>2. s = "read_off" /\ left["read_off"] < 7 => left'["read_off"] < 7
        BY <1>2, <1>4, <1>7 DEF Count
      <3> QED
        BY <2>3, <3>1, <3>2 DEF Onward, Reading
    <2>4. r \in Reading => s \in Reading \cup {"t1a"}
      BY DEF Onward, Reading
    <2> QED
      BY <1>5, <2>1, <2>2, <2>3, <2>4
  <1>18. r = "rd_sync" => "rd" \notin high'
    BY <1>1, <1>3 DEF Onward
  <1> QED
    BY <1>8, <1>9, <1>10, <1>11, <1>12, <1>13, <1>14, <1>15, <1>16, <1>17, <1>18 DEF ReadInv

(* The write half, at the stage that follows.                              *)
LEMMA WriteOn ==
  ASSUME NEW x, NEW s \in Stage, Clocks(x, s), NEW r \in Stage, Onward(s, r)
  PROVE  WriteInv(r)'
  <1>1. WriteInv(s) /\ Moves(x) /\ Typed /\ wr_sync = (s \in {"wr_sync", "wr"})
    BY DEF Clocks, StageInv, OpenInv, Typed
  <1>2. /\ m_write' <=> (s = "t3" /\ cma_wr_rq) \/ (s # "t3" /\ m_write /\ lag > 0)
        /\ wr_done' <=> s # "wr" /\ \/ s = "t3" /\ ~cma_wr_rq
                                    \/ s # "t3" /\ \/ wr_done \/ s = "start"
                                                   \/ m_write /\ lag = 0
    BY <1>1, MeetingsGo, StagesOn
  <1>3. "wr" \in high' <=> wr_sync /\ wr_done
    BY <1>1, PulsesGo DEF Moves, ModuleClock, Rises
  <1>4. lag \in Nat /\ (s = "t3" => cma_wr_rq \in BOOLEAN)
    BY <1>1 DEF Typed, TypeOK
  <1>5. m_write' => r \in Writing
    BY <1>1, <1>2 DEF WriteInv, Onward, Writing
  <1>6. r \in Writing => (wr_done' <=> ~m_write')
    BY <1>1, <1>2, <1>4 DEF WriteInv, Onward, Writing
  <1>7. r = "wr_sync" => "wr" \notin high'
    BY <1>1, <1>3 DEF WriteInv, Onward
  <1> QED
    BY <1>5, <1>6, <1>7 DEF WriteInv

(* Power coming on, at the stage that follows.                             *)
LEMMA PowerOn ==
  ASSUME NEW x, NEW s \in Stage, Clocks(x, s), NEW r \in Stage, Onward(s, r)
  PROVE  PowerInv(r)'
  <1>1. /\ PowerInv(s) /\ OpenInv(s) /\ PauseInv(s) /\ ReadInv(s) /\ WriteInv(s)
        /\ Moves(x) /\ Typed
    BY DEF Clocks, StageInv
  <1>2. /\ left'["pwr_t2"] = Count(left["pwr_t2"])
        /\ left'["pwr_t3"] = IF on("pwr_t2") THEN 50 ELSE Count(left["pwr_t3"])
    BY <1>1, PulsesGo DEF Moves, ModuleClock, Starts, Delay
  <1>3. /\ left["pwr_t2"] \in 0 .. 50 /\ left["pwr_t3"] \in 0 .. 50
        /\ \A p \in ChainPulse : left[p] \in Nat /\ (left[p] > 0 <=> p = s)
    BY StagesOn DEF Pulse, Delay
  <1>4. left'["pwr_t2"] = 0 \/ left'["pwr_t3"] = 0
    BY <1>1, <1>2, <1>3 DEF PowerInv, on, Count
  <1>5. Powering' => Powering /\ Power' = Power - 1 /\ ~on("pwr_t3")
    BY <1>1, <1>2, <1>3 DEF PowerInv, Powering, Power, on, Count
  <1>6. Powering => ~Quiet
    BY <1>3 DEF Powering, Quiet, Pulse, Delay
  <1>7. Powering' => Powering /\ cpu = "off" /\ cpu' = "off" /\ Unasked
    BY <1>1, <1>5, <1>6 DEF PowerInv, Clocks
  <1>8. Powering' => r # "start"
    BY <1>5, <1>7, <1>3 DEF Onward, on, Powering, Power
  <1>9. ASSUME Powering'
        PROVE  Rest(r)' < Power'
    <2>1. Rest(s) < Power /\ Power' = Power - 1 /\ Power \in Nat
      BY <1>1, <1>3, <1>5, <1>9 DEF PowerInv, Powering, Power
    <2>2. s = "rd_sync" => rd_done
      BY <1>1, <1>7, <1>9 DEF ReadInv, Unasked, Reading
    <2>3. s = "wr_sync" => wr_done
      BY <1>1, <1>7, <1>9 DEF WriteInv, Unasked, Writing
    <2>4. ~cma_wr_rq
      BY <1>7, <1>9 DEF Unasked
    <2>5. CASE r = "t1b"
      <3>1. Power = 100
        BY <1>1, <1>5, <1>9, <2>5 DEF Onward, PowerInv, t1b_set, Opening
      <3> QED
        BY <2>1, <2>5, <3>1 DEF Rest
    <2>6. CASE s \in Opening \/ r = "read_off"
      BY <1>3, <2>1, <2>6, ChainPulsesGo DEF Onward, Rest, Opening, on, Count, ChainPulse
    <2>7. CASE s \in {"read_off", "rd_sync", "rd", "pse_set"}
      BY <1>3, <2>1, <2>2, <2>7, ChainPulsesGo DEF Onward, Rest, on, Count, ChainPulse
    <2>8. CASE s \in {"pse", "t3", "t4", "t3_D1"}
      BY <1>3, <2>1, <2>4, <2>8, ChainPulsesGo DEF Onward, Rest, on, Count, ChainPulse
    <2>9. CASE s \in {"t3_D2", "t6p", "t6", "wr_sync"}
      BY <1>3, <2>1, <2>3, <2>9, ChainPulsesGo DEF Onward, Rest, on, Count, ChainPulse
    <2>10. CASE r = "still"
      <3>1. Power' > 0
        BY <1>3, <1>9, <2>1, <1>2 DEF Powering, Power, Count
      <3> QED
        BY <2>10, <3>1 DEF Rest
    <2>11. s # "start"
      BY <1>1, <1>5, <1>9 DEF PowerInv
    <2> QED
      BY <1>8, <1>9, <2>5, <2>6, <2>7, <2>8, <2>9, <2>10, <2>11
      DEF Onward, Stage, ChainPulse, Opening
  <1>10. Powering' => \/ Power' = 100 \/ r \in Opening \/ ~rq_sync'
                      \/ r = "still" /\ ~cyc_done'
    <2>1. SUFFICES ASSUME Powering', r \notin Opening
                   PROVE  ~rq_sync' \/ (r = "still" /\ ~cyc_done')
      OBVIOUS
    <2>2. /\ left["t0_D"] = 0 /\ Powering /\ cpu = "off"
          /\ s # "start" /\ (Power = 100 \/ s \in Opening \/ ~rq_sync \/ (s = "still" /\ ~cyc_done))
      BY <1>1, <1>7, <2>1 DEF PowerInv, Unasked
    <2>3. rq_sync' <=> ~on("t2") /\ rq_sync /\ left["pwr_t3"] = 0
      <3>1. ~rq_sync_set /\ ~on("start")
        BY <2>2, StagesOn DEF rq_sync_set, on
      <3>2. left["pwr_t3"] > 0 <=> left["pwr_t3"] # 0
        BY <1>3
      <3>3. rq_sync' = IF on("t2") THEN FALSE
                       ELSE IF left["pwr_t3"] > 0 THEN FALSE ELSE rq_sync
        BY <1>1, <3>1, ControlGoes
      <3> QED
        BY <3>2, <3>3
    <2>4. CASE s = "t2"
      BY <2>1, <2>3, <2>4 DEF Onward, Opening
    <2>5. CASE s = "still"
      <3>1. cyc_done' => cyc_done
        BY <1>1, <2>5, ControlGoes, StagesOn DEF on, Typed
      <3>2. ~t1b_set
        BY <2>1, <2>5, <1>8 DEF Onward, Opening
      <3> QED
        BY <1>5, <2>1, <2>3, <2>5, <3>1, <3>2 DEF Onward, Opening, t1b_set
    <2>6. CASE s \notin {"still", "t2"}
      <3>1. Power # 100
        BY <1>1, <2>2, <2>6 DEF PowerInv
      <3> QED
        BY <2>1, <2>2, <2>3, <2>6, <3>1 DEF Onward, Opening
    <2> QED
      BY <2>4, <2>5, <2>6
  <1>11. Powering' => Power' # 100
    BY <1>3, <1>5 DEF Power
  <1>12. Powering' => /\ cpu' = "off" /\ r # "start"
                      /\ Rest(r)' < Power'
                      /\ Power' = 100 => r = "still"
                      /\ \/ Power' = 100 \/ r \in Opening \/ ~rq_sync'
                         \/ r = "still" /\ ~cyc_done'
    BY <1>7, <1>8, <1>9, <1>10, <1>11
  <1>13. r = "start" => cpu' = "off" /\ "state_clr" \notin high' /\ "t5" \notin high'
    <2>1. SUFFICES ASSUME r = "start"
                   PROVE  cpu' = "off" /\ "state_clr" \notin high' /\ "t5" \notin high'
      OBVIOUS
    <2>2. s = "still" /\ on("pwr_t3")
      BY <2>1 DEF Onward
    <2>3. Powering /\ cpu = "off" /\ cpu' = "off" /\ left["proc_rs"] = 0
      BY <1>1, <1>6, <2>2 DEF PowerInv, Powering, on, Clocks, Unasked
    <2>4. /\ "state_clr" \in high' <=> on("start") \/ (on("t3") /\ ~cma_wr_rq) \/ on("proc_rs")
          /\ "t5" \in high' <=> on("start") \/ on("t3_D1")
      BY <1>1, PulsesGo DEF Moves, ModuleClock, Rises
    <2>5. ~on("start") /\ ~on("t3") /\ ~on("t3_D1") /\ ~on("proc_rs")
      BY <2>2, <2>3, StagesOn DEF on, ChainPulse
    <2> QED
      BY <2>3, <2>4, <2>5
  <1>14. r = "still" /\ ~Powering' => cyc_done'
    <2>1. SUFFICES ASSUME r = "still", ~Powering'
                   PROVE  cyc_done'
      OBVIOUS
    <2>2. CASE s = "wr"
      BY <1>1, <2>2, ControlGoes, StagesOn DEF ChainPulse
    <2>3. CASE s = "still"
      <3>1. ~on("pwr_t3")
        BY <2>1, <2>3 DEF Onward
      <3>2. left["pwr_t2"] = 0 /\ left["pwr_t3"] = 0
        BY <1>2, <1>3, <2>1, <3>1 DEF Powering, on, Count
      <3>3. cyc_done /\ ~on("t2")
        BY <1>1, <2>3, <3>2, StagesOn DEF PowerInv, Powering, ChainPulse
      <3> QED
        <4>1. ~(left["pwr_t3"] > 0)
          BY <3>2
        <4>2. cyc_done' = IF on("wr") THEN TRUE ELSE cyc_done
          BY <1>1, <3>3, <4>1, ControlGoes
        <4> QED
          BY <3>3, <4>2
    <2> QED
      BY <2>1, <2>2, <2>3 DEF Onward
  <1>15. act' # NoPort /\ (cpu' = "off" \/ act' # 0)
           => cpu' = "off" /\ (Powering' \/ r = "start" \/ left'["state_clr"] > 0)
    <2>1. SUFFICES ASSUME act' # NoPort, cpu' = "off" \/ act' # 0
                   PROVE  cpu' = "off" /\ (Powering' \/ r = "start" \/ left'["state_clr"] > 0)
      OBVIOUS
    <2>2. act' = IF Connected THEN 0 ELSE IF on("state_clr") THEN NoPort ELSE act
      BY <1>1, ControlGoes
    <2>3. cpu = "off" => ~Connected
      BY DEF Clocks, Unasked, Connected
    <2>4. ~Connected /\ ~on("state_clr") /\ act' = act
      BY <2>1, <2>2, <2>3 DEF Clocks
    <2>5. cpu = "off" /\ (Powering \/ s = "start" \/ left["state_clr"] > 0)
      BY <1>1, <2>1, <2>4 DEF PowerInv, Clocks
    <2>6. left["state_clr"] = 0
      BY <2>4, StagesOn DEF on, Pulse, Delay
    <2>7. Powering => Powering' \/ r = "start"
      <3>1. on("pwr_t3") => r = "start"
        <4>1. on("pwr_t3") => s = "still" /\ ~t1b_set
          <5>1. on("pwr_t3") => Rest(s) < 1 /\ s # "start" /\ Power # 100 /\ Powering
            BY <1>1, <1>3 DEF PowerInv, Powering, Power, on
          <5>2. s \notin {"still", "start"} => ~(Rest(s) < 1)
            BY <1>3 DEF Rest, Stage, ChainPulse
          <5> QED
            BY <1>1, <5>1, <5>2 DEF PowerInv, t1b_set, Opening
        <4> QED
          BY <4>1 DEF Onward
      <3> QED
        BY <1>2, <1>3, <3>1 DEF Powering, on, Count
    <2>8. s = "start" => left'["state_clr"] > 0
      <3>1. s = "start" => "state_clr" \notin high
        BY <1>1 DEF PowerInv
      <3> QED
        BY <1>1, <3>1, PulsesGo, StagesOn DEF Moves, ModuleClock, Rises
    <2>9. ~Quiet
      BY <2>5, <2>6, <1>6, StagesOn DEF Quiet, Pulse, Delay, ChainPulse
    <2> QED
      BY <2>5, <2>6, <2>7, <2>8, <2>9 DEF Clocks
  <1> QED
    BY <1>4, <1>12, <1>13, <1>14, <1>15 DEF PowerInv

(* Every step keeps the chain of the module.                               *)
LEMMA ModuleKept ==
  ASSUME Typed, ModuleInv, NEW x, Steps(x)
  PROVE  ModuleInv'
  <1>1. PICK s \in Stage : StageInv(s)
    BY DEF ModuleInv
  <1>2. Clocks(x, s)
    BY <1>1 DEF Clocks, Steps, ModuleInv
  <1>3. PICK r \in Stage : Onward(s, r)
    BY <1>2, SomeStage
  <1>4. /\ Chain(r)' /\ OpenInv(r)' /\ PauseInv(r)' /\ ReadInv(r)' /\ WriteInv(r)'
        /\ PowerInv(r)'
    BY <1>2, <1>3, ChainOn, OpenOn, PauseOn, ReadOn, WriteOn, PowerOn
  <1>5. cpu' = "off" => Unasked'
    BY <1>1, <1>2, UnaskedKept DEF Clocks, Steps, StageInv
  <1> QED
    BY <1>4, <1>5 DEF ModuleInv, StageInv

(* The chain is right when power comes on.                                 *)
LEMMA Begins ==
  Init => IInv
  <1> SUFFICES ASSUME Init
               PROVE  IInv
    OBVIOUS
  <1>1. /\ left = [p \in Pulse |-> IF p = "pwr_t2" THEN 50 ELSE 0] /\ high = {}
        /\ due = [p \in McPulse |-> 0]
    BY DEF Init, McInit, ModuleInit, Delay, Pulse
  <1>3. \A p \in Pulse : left[p] \in 0 .. 50 /\ left[p] <= Delay[p] /\ (Delay[p] = 1 => left[p] = 0)
    BY <1>1 DEF Pulse, Delay
  <1>4. \A p \in McPulse : due[p] = 0 /\ McDelay[p] \in Nat
    BY <1>1, MemCycleAssumption DEF McPulse, McDelay
  <1>5. Typed
    <2>1. /\ mc_rd \in BOOLEAN /\ mc_wr \in BOOLEAN /\ mc_rq \in BOOLEAN
          /\ mc_stop \in BOOLEAN /\ mc_stop_sync \in BOOLEAN /\ mc_split_cyc_sync \in BOOLEAN
      BY DEF Init, McInit
    <2>5. mb_pulse \in 0 .. 3 /\ rest \in Nat /\ last_proc \in {0, 1}
      BY DEF Init, McInit, ModuleInit
    <2>2. /\ await_rq \in BOOLEAN /\ rq_sync \in BOOLEAN /\ cyc_done \in BOOLEAN
          /\ pse_sync \in BOOLEAN /\ proc_rs \in BOOLEAN
          /\ cma_rd_rq \in BOOLEAN /\ cma_wr_rq \in BOOLEAN
          /\ m_read \in BOOLEAN /\ m_write \in BOOLEAN
          /\ stb_sync \in BOOLEAN /\ stb_done \in BOOLEAN
          /\ rd_sync \in BOOLEAN /\ rd_done \in BOOLEAN
          /\ wr_sync \in BOOLEAN /\ wr_done \in BOOLEAN
      BY DEF Init, ModuleInit
    <2>3. left \in [Pulse -> 0 .. 50]
      BY <1>1, <1>3
    <2>4. \A p \in McPulse : due[p] <= McDelay[p]
      BY <1>4
    <2>6. FlipFlopsOK /\ WithinDelays
      BY <1>3, <2>1, <2>2, <2>4, <2>5 DEF FlipFlopsOK, WithinDelays
    <2>7. TypeOK
      BY <1>1, <2>6
      DEF Init, McInit, ModuleInit, TypeOK, Pulse, Delay, McPulse, Awaits, Request, Word
    <2> QED
      BY <1>3, <2>1, <2>2, <2>3, <2>4, <2>5, <2>7 DEF Typed
  <1>6. AddressInv
    BY <1>1 DEF Init, McInit, ModuleInit, AddressInv, Awaits, Request, McPulse, McDelay
  <1>7. Unasked
    BY <1>1, <1>4 DEF Init, McInit, ModuleInit, Unasked, Pulse, Delay
  <1>8. Chain("still")
    BY <1>1 DEF Chain, ChainPulse, Pulse, Delay
  <1>9. OpenInv("still") /\ PauseInv("still")
    BY <1>1 DEF Init, ModuleInit, OpenInv, PauseInv, Opening, Parted
  <1>10. ReadInv("still") /\ WriteInv("still")
    BY <1>1 DEF Init, ModuleInit, ReadInv, WriteInv, Reading, Writing, Pulse, Delay
  <1>11. PowerInv("still")
    BY <1>1 DEF Init, ModuleInit, PowerInv, Powering, Power, Rest, Pulse, Delay
  <1> QED
    BY <1>5, <1>6, <1>7, <1>8, <1>9, <1>10, <1>11 DEF IInv, ModuleInv, StageInv, Stage

(* The invariant is inductive.                                             *)
LEMMA Keeps ==
  IInv /\ [Next]_vars => IInv'
  <1>1. ASSUME IInv, Next
        PROVE  IInv'
    <2>1. PICK x \in Inputs : Steps(x)
      BY <1>1, EveryStep DEF IInv, Typed
    <2>2. m_read => cma \in Addr
      BY <1>1 DEF IInv, AddressInv, ModuleInv, StageInv, ReadInv
    <2>3. Typed'
      BY <1>1, <2>1, <2>2, TypesKept DEF IInv
    <2>4. AddressInv'
      BY <1>1, <2>1, AddressKept DEF IInv
    <2>5. ModuleInv'
      BY <1>1, <2>1, ModuleKept DEF IInv
    <2> QED
      BY <2>3, <2>4, <2>5 DEF IInv
  <1>2. ASSUME IInv, UNCHANGED vars
        PROVE  IInv'
    BY <1>2
    DEF IInv, vars, mcVars, mcFlags, moduleVars, schedule, control, request, handshake,
        Typed, TypeOK, FlipFlopsOK, WithinDelays, AddressInv, ModuleInv, Unasked, StageInv, Chain, OpenInv, PauseInv,
        ReadInv, WriteInv, PowerInv, Powering, Power, Rest
  <1> QED
    BY <1>1, <1>2

(* The inductive invariant.                                                *)
THEOREM Invariance ==
  Spec => []IInv
  BY Begins, Keeps, PTL DEF Spec

(* Every variable stays in its range: a flip-flop is one, a counter is     *)
(* never past its delay, a word has the memory's bits, and what is asked   *)
(* of the memory is one of its addresses; whatever the program, the        *)
(* switches and keys and the memory's waits are.                           *)
THEOREM Types ==
  Spec => []TypeOK
  <1>1. IInv => TypeOK
    BY DEF IInv, Typed
  <1> QED
    BY <1>1, Invariance, PTL

(***************************************************************************)
(* The processor's turn                                                    *)
(***************************************************************************)

(* A request is a chain of pulses too, with waits: for the relocation, for *)
(* the acknowledge, for the word, and in a stop.                           *)
Amplified == {"split_rd", "rd_rq", "wr_rq", "rdwr_rq", "rq", "rq_set", "illeg", "mai_ack",
              "nxm", "nxm_rst", "ack", "mai_rd_rs", "rdwr_rs", "split_wr", "mc_wr_rs",
              "rs_t0", "rs_t1"}
Turn == Amplified \cup {"rest", "delay", "asking", "reading", "stopped", "rs_t0_D", "rdwr_rs_D"}
Asking == {"asking", "nxm", "nxm_rst", "mai_ack", "ack"}
Settled == Asking \cup {"rq", "delay", "rq_set", "illeg"}
Timed == {"delay", "rq_set", "asking"}
Answering == {"rs_t0", "rs_t0_D", "rs_t1"}
Ends == Answering \cup {"stopped"}

(* The delays that a request starts run with its timer.                    *)
Since(n) == IF due["D3"] > NxmDelay - n THEN due["D3"] - (NxmDelay - n) ELSE 0

(* In a split cycle the second request begins while the delay that would   *)
(* end a whole one still runs.                                             *)
Echo(p) ==
  CASE p = "split_wr" -> 5 [] p = "wr_rq" -> 4 [] p = "rq" -> 3 [] p = "delay" -> Since(2)
    [] OTHER -> 0

TurnChain(p) ==
  /\ \A q \in Amplified : (due[q] > 0 <=> q = p) /\ (q \in up => q = p)
  /\ due["rs_t0_D"] > 0 <=> p = "rs_t0_D"
  /\ p = "rdwr_rs_D" => due["rdwr_rs_D"] > 0
  /\ p # "rdwr_rs_D" =>
       due["rdwr_rs_D"] = IF cpu = "rs" /\ mc_split_cyc_sync THEN Echo(p) ELSE 0

(* Which turns each state of the processor knows.                          *)
CpuInv(p) ==
  /\ cpu \in {"idle", "addressed", "trap", "paused"} => p = "rest"
  /\ cpu = "halted" => p = "rest" \/ (p \in Answering /\ rel = "bad")
  /\ cpu = "keyed" => p \in {"rest", "mc_wr_rs"} \cup Answering
  /\ cpu = "rd" => p \in (Settled \cup Ends) \cup {"rd_rq", "reading", "mai_rd_rs"}
  /\ cpu = "rdwr" => \/ p \in (Settled \cup Ends) \cup {"reading", "mai_rd_rs"}
                     \/ mc_split_cyc_sync /\ p \in {"split_rd", "rd_rq"}
                     \/ ~mc_split_cyc_sync /\ p = "rdwr_rq"
  /\ cpu = "wr" => p \in (Settled \cup Ends) \cup {"wr_rq", "mc_wr_rs"}
  /\ cpu = "rs" => \/ p \in Answering \cup {"rdwr_rs", "mc_wr_rs"}
                   \/ /\ mc_split_cyc_sync
                      /\ p \in Settled \cup {"stopped", "split_wr", "wr_rq"}
                   \/ ~mc_split_cyc_sync /\ p = "rdwr_rs_D"

(* A key is slower than the answer it may cause, and than the word it may  *)
(* give back.                                                              *)
KeyInv(p) ==
  cpu = "keyed" =>
    /\ p = "mc_wr_rs" => rest >= 8
    /\ p = "rs_t0" => rest >= 7
    /\ p = "rs_t0_D" => rest >= 4 + due["rs_t0_D"]
    /\ p = "rs_t1" => rest >= 4
    /\ left["rs_D"] > 0 => rest >= 3 + left["rs_D"]

(* The flip-flops of a request.                                            *)
FlagInv(p) ==
  /\ mc_rq <=> p \in Asking
  /\ p \in Settled => /\ mc_rd <=> cpu \in {"rd", "rdwr"}
                      /\ mc_wr <=> cpu \in {"wr", "rs"} \/ (cpu = "rdwr" /\ ~mc_split_cyc_sync)
  /\ p \in {"reading", "mai_rd_rs"} => mc_rd
  /\ p \in Asking \cup {"reading", "mai_rd_rs", "mc_wr_rs"} \cup Ends /\ cpu \in Awaits
       => rel # "bad"
  /\ cpu = "rdwr" /\ ~mc_split_cyc_sync /\ p # "rdwr_rq" => mc_stop_sync
  /\ cpu = "trap" => rel = "bad"
  /\ cpu \in {"paused", "rs"} => rel # "bad"
  /\ p \in {"nxm", "nxm_rst"} => ma \in Absent
  /\ due["nxm_rd"] > 0 <=> p = "ack" /\ mc_rd /\ ma \in Absent
  /\ "nxm_rd" \in up => p = "ack"

(* The memory stop.                                                        *)
StopInv(p) ==
  /\ mc_stop => due["D2"] = 0
  /\ mc_stop => cpu \in Awaits \cup {"trap"} \/ (cpu = "halted" /\ rel = "bad")
  /\ cpu = "rs" /\ ~mc_split_cyc_sync => ~mc_stop
  /\ p = "stopped" => mc_stop
  /\ p \in {"rs_t0_D", "rs_t1", "nxm", "nxm_rst", "illeg"} => ~mc_stop
  /\ p = "ack" /\ ma \in Absent => ~mc_stop
  /\ p = "mc_wr_rs" /\ ma \in Absent => ~mc_stop
  /\ due["D2"] > 0 => \/ p \in Timed \cup {"illeg"}
                      \/ cpu = "trap" /\ due["D2"] <= 2
                      \/ cpu = "halted" /\ rel = "bad" /\ p = "rest"
                      \/ cpu = "idle" /\ rest = 0 /\ due["D2"] = 1

(* When each turn comes, by the timer of its request.                      *)
TimeInv(p) ==
  /\ due["D0"] = Since(2) /\ due["D1"] = Since(7) /\ due["D2"] = Since(10)
  /\ p = "delay" => due["D3"] > NxmDelay - IF rel = "inh" THEN 2 ELSE 7
  /\ p = "rq_set" => rel # "bad" /\ due["D3"] = NxmDelay - IF rel = "inh" THEN 2 ELSE 7
  /\ p = "illeg" => rel = "bad" /\ due["D3"] = NxmDelay - 7
  /\ p = "asking" => due["D3"] <= NxmDelay - IF rel = "inh" THEN 3 ELSE 8
  /\ p \notin Timed \cup {"illeg"} => due["D3"] <= NxmDelay - 8
  /\ p \in {"nxm", "nxm_rst"} => due["D3"] = 0
  /\ p = "mai_ack" => due["D3"] >= 3
  /\ p = "ack" => due["D3"] # 1
  /\ due["mb_clr"] > 0 <=> p = "rq" /\ mc_rd
  /\ "mb_clr" \in up => p = "rq"
  /\ due["mb_clr_D"] = IF p \in Timed /\ mc_rd THEN Since(5) ELSE 0

(* The word of the processor on the bus.                                   *)
BusInv(s, p) ==
  /\ due["bus_wr_rs"] = due["bus_mb"]
  /\ due["bus_mb"] > 0 => mb_pulse = 0
  /\ due["bus_mb"] = 2 => p \in {"rs_t0", "stopped"}
  /\ due["bus_mb"] = 1 => p = "stopped" \/ (p = "rs_t0_D" /\ due["rs_t0_D"] = 2)
  /\ mb_pulse = 3 => p = "stopped" \/ (p = "rs_t0_D" /\ due["rs_t0_D"] = 1)
  /\ mb_pulse = 2 => p \in {"stopped", "rs_t1"}
  /\ mb_pulse = 1 => p \in {"stopped", "rest"}
  /\ p = "stopped" /\ due["bus_mb"] > 0 => s = "t2" /\ left["t2"] = 7 + due["bus_mb"]
  /\ p = "stopped" /\ mb_pulse > 0 => s = "t2" /\ left["t2"] = 4 + mb_pulse
  /\ left["rs_D"] > 0 => mb_pulse = left["rs_D"] + 1
  /\ due["bus_mb"] > 0 \/ mb_pulse > 1 => cpu \in {"wr", "rs", "keyed"}

(***************************************************************************)
(* Processor and module                                                    *)
(***************************************************************************)

(* How a request gets to the module.                                       *)
Late == {"t3_D2", "t6p", "t6", "wr_sync", "wr", "still"}
FrontInv(s, p) ==
  /\ left["t0"] > 0 => /\ p = "asking" /\ ma \notin Absent /\ act = 0
                       /\ await_rq /\ left["t0_D"] = 0 /\ ~rq_sync
                       /\ due["D3"] \in 13 .. NxmDelay - 4
  /\ left["t0_D"] > 0 => /\ p = "asking" /\ ma \notin Absent /\ act = 0
                         /\ ~await_rq /\ ~rq_sync
                         /\ due["D3"] \in 7 + left["t0_D"] .. NxmDelay - 10 + left["t0_D"]
  /\ rq_sync /\ s # "t2" => /\ p = "asking" /\ ma \notin Absent /\ act = 0
                            /\ due["D3"] <= NxmDelay - 10
                            /\ s = "still" => due["D3"] >= 6
                            /\ s = "t1b" => due["D3"] >= 5
                            /\ s = "t1a" => due["D3"] >= 4
  /\ await_rq => ~rq_sync /\ left["t5"] = 0
  /\ await_rq \/ left["t5"] > 0 \/ left["t0_D"] > 0 => s \in Late
  /\ rq_sync => s \in Late \cup Opening
  /\ ~await_rq /\ s \in Late => left["t5"] > 0 \/ left["t0_D"] > 0 \/ rq_sync
  /\ left["t5"] > 0 => left["t0_D"] = 0 /\ ~rq_sync
  /\ "t0" \in high => left["t0"] > 0 \/ left["t0_D"] = 5
  /\ left["t5"] > 0 => s = "t3_D2" /\ left["t3_D2"] = 10
  /\ "t5" \in high => left["t5"] > 0
  /\ p = "asking" /\ ma \notin Absent /\ await_rq /\ left["t0"] = 0 => due["D3"] >= 14

(* The module waits for the word of the cycle.                             *)
Owed(s) == cma_wr_rq /\ ~proc_rs /\ s \in Parted \cup {"pse"}

(* The word is to come from the memory.                                    *)
Fetching(s) == cma_rd_rq /\ (s = "t1a" \/ (s \in Reading /\ ~rd_done))

(* The first half of a read-pause-write is done, the word not given back.  *)
HalfDone(p) ==
  /\ ~mc_split_cyc_sync
  /\ \/ cpu = "rdwr" /\ p \in {"reading", "mai_rd_rs"} \cup Ends
     \/ cpu = "paused"
     \/ cpu = "rs" /\ p \in {"rdwr_rs", "rdwr_rs_D"}

(* Both belong to the request the processor is at.                         *)
ServeInv(s, p) ==
  /\ Owed(s) \/ Fetching(s) \/ left["rd_rs"] > 0 => act = 0 /\ cma = ma /\ ma \notin Absent
  /\ Fetching(s) => /\ cpu \in {"rd", "rdwr"} /\ ~proc_rs
                    /\ s = "t1a" \/ p \in {"mai_ack", "ack", "reading"}
  /\ left["rd_rs"] > 0 => /\ p = "reading" /\ s \in {"read_off", "rd_sync"}
                          /\ cma_rd_rq /\ rd_done /\ ~proc_rs
  /\ "rd_rs" \in high => left["rd_rs"] > 0
  /\ p = "reading" => (Fetching(s) /\ s # "t1a") \/ left["rd_rs"] > 0
  /\ Owed(s) /\ ~cma_rd_rq =>
       /\ cpu \in {"wr", "rs"}
       /\ \/ s = "t1a" /\ p = "asking"
          \/ s = "t2" /\ p = "mai_ack" /\ left["t2"] = 12
          \/ s = "t2" /\ p = "ack" /\ left["t2"] = 11
          \/ s = "t2" /\ p = "mc_wr_rs" /\ left["t2"] = 10
          \/ s = "t2" /\ due["bus_mb"] > 0 /\ left["t2"] = 7 + due["bus_mb"]
          \/ s = "t2" /\ left["rs_D"] > 0 /\ left["t2"] = 5 + left["rs_D"]
  /\ Owed(s) /\ cma_rd_rq =>
       \/ /\ cpu = "rdwr" /\ ~mc_split_cyc_sync
          /\ (p = "asking" /\ s = "t1a") \/ p \in {"mai_ack", "ack", "reading", "mai_rd_rs"} \cup Ends
       \/ cpu = "paused" /\ ~mc_split_cyc_sync
       \/ cpu = "rs" /\ ~mc_split_cyc_sync /\ p \in {"rdwr_rs", "rdwr_rs_D", "mc_wr_rs"}
       \/ cpu = "keyed" /\ p = "mc_wr_rs"
       \/ due["bus_mb"] > 0 \/ left["rs_D"] > 0
  /\ p = "mc_wr_rs" /\ mc_stop => Owed(s) /\ ~cma_rd_rq
  /\ p = "mai_ack" => s = "t2" /\ left["t2"] = 12 /\ ma \notin Absent
  /\ p = "ack" /\ ma \notin Absent => s = "t2" /\ left["t2"] = 11
  /\ p \in {"mai_ack", "ack"} /\ ma \notin Absent
       => (cma_rd_rq <=> mc_rd) /\ (cma_wr_rq <=> mc_wr)
          /\ (mc_rd => ~rd_done) /\ ~proc_rs
  /\ left["rs_D"] > 0 => Owed(s)
  /\ p = "mc_wr_rs" \/ due["bus_mb"] > 0
       => Owed(s) \/ (act = NoPort /\ (ma \in Absent \/ cpu = "keyed"))
  /\ HalfDone(p) => Owed(s) \/ (act = NoPort /\ ma \in Absent)
  /\ s = "t1a" <=> left["addr_ack"] > 0
  /\ "addr_ack" \in high => s = "t1a"
  /\ s = "t1a" => p = "asking" /\ act = 0 /\ cma = ma /\ ma \notin Absent /\ ~proc_rs
                  /\ (cma_rd_rq <=> mc_rd) /\ (cma_wr_rq <=> mc_wr)
  /\ ~cma_wr_rq /\ s \in Parted \cup {"pse", "t3"} => ~proc_rs

(* The module lets go of the processor when it has what it needs.          *)
PortInv(s, p) ==
  /\ act \in {0, NoPort}
  /\ act = 0 => \/ left["t0"] > 0 \/ left["t0_D"] > 0 \/ rq_sync
                \/ s \in Parted \cup {"pse", "t3"}
                \/ s = "t4" /\ left["t4"] = 2 /\ left["state_clr"] > 0
  /\ act = 0 /\ s \in (Parted \ {"t1a"}) \cup {"pse", "t3"} /\ "proc_rs" \in high
       => left["proc_rs"] > 0 \/ left["state_clr"] > 0
  /\ act = 0 /\ s = "t3" => ~cma_wr_rq \/ left["proc_rs"] > 0 \/ left["state_clr"] > 0
  /\ left["proc_rs"] > 0 => s \in (Parted \ {"t1a"}) \cup {"pse", "t3"} /\ cma_wr_rq /\ proc_rs
  /\ left["state_clr"] > 0 => /\ s \in (Parted \ {"t1a"}) \cup {"pse", "t3", "t4"}
                              /\ s = "t4" => left["t4"] = 2
                              /\ proc_rs \/ s = "t4"
                              /\ left["proc_rs"] = 0
  /\ "state_clr" \in high => left["state_clr"] > 0
  /\ proc_rs /\ "proc_rs" \notin high => s \in (Parted \ {"t1a"}) \cup {"pse"}
  /\ s \in (Parted \ {"t1a"}) \cup {"pse"} /\ ~proc_rs => "proc_rs" \notin high

(* A request to memory that does not exist runs out with the module still. *)
AbsentInv(s, p) ==
  ma \in Absent /\ cpu \in Awaits
    /\ (p \in {"nxm", "nxm_rst", "ack"} \/ (p = "asking" /\ due["D3"] = 0))
    => s = "still" /\ act = NoPort

(* The timer outlasts the module's last cycle.                             *)
BoundInv(s, p) ==
  /\ Requested => lag + 100 <= NxmDelay
  /\ p \in Timed /\ (ma \notin Absent \/ due["D3"] > 0)
       => /\ s \notin {"t1b", "t1a", "still"} => due["D3"] >= Rest(s) + 15
          /\ m_write => due["D3"] >= lag + 18
          /\ s \in (Parted \ {"t1a"}) \cup {"pse", "t3"} /\ cma_wr_rq
               => \A w \in Waits : due["D3"] >= w + 20 + (Rest(s) - 53)

(***************************************************************************)
(* The words                                                               *)
(***************************************************************************)

(* The module has a word to write.                                         *)
Writes(s) == m_write \/ (cma_wr_rq /\ proc_rs /\ s \in (Parted \ {"t1a"}) \cup {"pse", "t3"})

(* The processor has one, which the module has not.                        *)
Before == {"rdwr_rs", "rdwr_rs_D", "split_wr", "wr_rq", "rq", "delay", "rq_set", "asking"}
Undelivered(p) ==
  p \in Before \cup {"mai_ack", "ack", "mc_wr_rs"} \/ due["bus_mb"] > 0 \/ left["rs_D"] > 0

StoreInv(s, p) ==
  /\ \A a \in Addr : \/ store[a] = latest[a]
                     \/ a = ma /\ cpu \in {"wr", "rs"} /\ rel # "bad" /\ ma \in Core /\ Undelivered(p)
                     \/ a = cma /\ Writes(s)
  /\ Writes(s) => /\ cma \in Core
                  /\ cmb = latest[cma] \/ (cma = ma /\ cpu \in {"wr", "rs"} /\ rel # "bad" /\ p \in Before)
  /\ cpu \in {"wr", "rs"} /\ rel # "bad" /\ ma \in Core => mb = latest[ma]
  /\ cpu = "keyed" /\ Owed(s) => mb = latest[ma]

ReadData(s, p) ==
  /\ p \in Timed \cup Asking \/ (p = "reading" /\ left["rd_rs"] = 0)
       => (mc_rd => due["mb_clr_D"] > 0 \/ mb = {})
  /\ Fetching(s) /\ s # "t1a" /\ stb_done => sa = store[cma]
  /\ cpu \in {"rd", "rdwr"} /\ ma \in Core
     /\ (p \in {"mai_rd_rs"} \cup Ends \/ (p = "reading" /\ left["rd_rs"] > 0))
       => mb = latest[ma]

(* The buffer is cleared before the word comes: clocks until it is, and    *)
(* until the word comes.                                                   *)
ToClear(s) ==
  CASE s = "read_off" -> left["read_off"] + 8 [] s = "rd_sync" -> 8 [] s = "rd" -> 7
    [] s = "pse_set" -> left["pse_set"] + 1 [] s = "pse" -> left["cmb_clr"]
    [] OTHER -> 99
ToBus(p) ==
  CASE p = "reading" -> 14 [] p = "mai_rd_rs" -> 13 [] p = "rs_t0" -> 12
    [] p = "rs_t0_D" -> due["rs_t0_D"] + 9 [] p = "rs_t1" -> 9 [] p = "rest" -> 8
    [] p = "rdwr_rs" -> 7 [] p = "rdwr_rs_D" -> due["rdwr_rs_D"] + 1 [] p = "mc_wr_rs" -> 1
    [] OTHER -> 0

BufferInv(s, p) ==
  /\ s = "t1a" => left["cmb_clr"] > 0
  /\ left["cmb_clr"] > 0 => s = "t1a" \/ (s = "pse" /\ cma_rd_rq /\ cma_wr_rq /\ ~proc_rs)
  /\ "cmb_clr" \in high => left["cmb_clr"] > 0
  /\ Owed(s) /\ cma_rd_rq /\ ~Fetching(s)
       => p = "stopped" \/ due["bus_mb"] = 1 \/ left["rs_D"] > 0 \/ ToClear(s) <= ToBus(p)
  /\ Owed(s) /\ cma_rd_rq /\ (p = "mc_wr_rs" \/ due["bus_mb"] > 0 \/ left["rs_D"] > 0)
       => s = "pse" /\ (p = "mc_wr_rs" \/ left["cmb_clr"] = 0)
  /\ Owed(s) /\ left["rs_D"] = 0 /\ left["cmb_clr"] = 0 /\ (cma_rd_rq => s = "pse") => cmb = {}
  /\ left["rs_D"] > 0 => cmb = mb
  /\ mb_pulse > 0 => act = NoPort \/ cmb = mb
  /\ cma_rd_rq /\ cma_wr_rq /\ s \in Parted => ~proc_rs
  /\ Owed(s) /\ mb_pulse > 0 => left["rs_D"] > 0

TurnInv(s, p) ==
  /\ TurnChain(p) /\ CpuInv(p) /\ KeyInv(p) /\ FlagInv(p) /\ StopInv(p) /\ TimeInv(p)
  /\ BusInv(s, p)
ServiceInv(s, p) ==
  /\ FrontInv(s, p) /\ ServeInv(s, p) /\ PortInv(s, p) /\ AbsentInv(s, p) /\ BoundInv(s, p)
WordInv(s, p) ==
  /\ StoreInv(s, p) /\ ReadData(s, p) /\ BufferInv(s, p)

CycleInv ==
  IF cpu = "off"
  THEN /\ store = latest /\ mb_pulse = 0
       /\ \E s \in Stage : StageInv(s) /\ (~Powering /\ s # "start" => await_rq \/ left["t5"] > 0)
  ELSE \E s \in Stage, p \in Turn :
         StageInv(s) /\ TurnInv(s, p) /\ ServiceInv(s, p) /\ WordInv(s, p)

(***************************************************************************)
(* From turn to turn                                                       *)
(***************************************************************************)

First(op) ==
  CASE op = "rd" -> "rd_rq" [] op = "wr" -> "wr_rq"
    [] OTHER -> IF mc_split_cyc_sync THEN "split_rd" ELSE "rdwr_rq"

(* While nobody touches it.                                                *)
Flows(x, s, p, r) ==
  \/ p \in {"rest", "stopped"} /\ r = p
  \/ p \in {"illeg", "rs_t1"} /\ r = "rest"
  \/ p = "split_rd" /\ r = "rd_rq"
  \/ p \in {"rd_rq", "wr_rq", "rdwr_rq"} /\ r = "rq"
  \/ p = "rq" /\ r = "delay"
  \/ p = "delay" /\ is("D0") /\ rel = "inh" /\ r = "rq_set"
  \/ p = "delay" /\ is("D1") /\ rel = "ok" /\ r = "rq_set"
  \/ p = "delay" /\ is("D1") /\ rel = "bad" /\ r = "illeg"
  \/ p = "delay" /\ ~(is("D0") /\ rel = "inh") /\ ~(is("D1") /\ rel # "inh") /\ r = "delay"
  \/ p = "rq_set" /\ r = "asking"
  \/ p = "asking" /\ s = "t1a" /\ r = "mai_ack"
  \/ p = "asking" /\ s # "t1a" /\ is("D3") /\ ~mc_stop /\ r = "nxm"
  \/ p = "asking" /\ s # "t1a" /\ ~(is("D3") /\ ~mc_stop) /\ r = "asking"
  \/ p = "mai_ack" /\ r = "ack"
  \/ p = "nxm" /\ x.disable /\ r = "asking"
  \/ p = "nxm" /\ ~x.disable /\ r = "nxm_rst"
  \/ p = "nxm_rst" /\ r = "ack"
  \/ p = "ack" /\ ~mc_rd /\ r = "mc_wr_rs"
  \/ p = "ack" /\ mc_rd /\ ma \in Absent /\ r = "rs_t0"
  \/ p = "ack" /\ mc_rd /\ ma \notin Absent /\ r = "reading"
  \/ p = "reading" /\ left["rd_rs"] > 0 /\ r = "mai_rd_rs"
  \/ p = "reading" /\ ~(left["rd_rs"] > 0) /\ r = "reading"
  \/ p \in {"mai_rd_rs", "mc_wr_rs"} /\ mc_stop /\ r = "stopped"
  \/ p \in {"mai_rd_rs", "mc_wr_rs"} /\ ~mc_stop /\ r = "rs_t0"
  \/ p = "rdwr_rs" /\ mc_split_cyc_sync /\ r = "split_wr"
  \/ p = "rdwr_rs" /\ ~mc_split_cyc_sync /\ r = "rdwr_rs_D"
  \/ p = "split_wr" /\ r = "wr_rq"
  \/ p = "rdwr_rs_D" /\ is("rdwr_rs_D") /\ r = "mc_wr_rs"
  \/ p = "rdwr_rs_D" /\ ~is("rdwr_rs_D") /\ r = "rdwr_rs_D"
  \/ p = "rs_t0" /\ r = "rs_t0_D"
  \/ p = "rs_t0_D" /\ is("rs_t0_D") /\ r = "rs_t1"
  \/ p = "rs_t0_D" /\ ~is("rs_t0_D") /\ r = "rs_t0_D"

(* What the rest of the processor does at each turn, and what comes of it. *)
Goes(x, s, p, r) ==
  \/ \* a key is done, or the machine halts
     /\ x.op = "none" /\ ~x.stop /\ p = "rest" /\ r = "rest" /\ rest = 0
     /\ \/ cpu = "keyed" /\ cpu' = "idle"
        \/ cpu \in {"idle", "trap"} /\ cpu' = "halted"
     /\ rel' = rel /\ rest' = rest
  \/ \* it works, or waits
     /\ x.op = "none" /\ (x.stop => is("D2")) /\ Flows(x, s, p, r)
     /\ p # "illeg" /\ (p = "rs_t1" => ~Awaiting)
     /\ Awaiting \/ cpu = "halted" \/ rest > 0
     /\ cpu' = cpu /\ rel' = rel /\ rest' = Count(rest)
  \/ \* the end of a request
     /\ x.op = "none" /\ ~x.stop /\ Awaiting /\ r = "rest"
     /\ \/ p = "illeg" /\ cpu' = "trap"
        \/ p = "rs_t1" /\ cpu' = IF cpu = "rdwr" THEN "paused" ELSE "idle"
     /\ rest' \in Gaps /\ rel' = rel
  \/ \* a request
     /\ x.op \in Request /\ ~x.stop /\ cpu \in {"idle", "addressed"} /\ rest = 0
     /\ p = "rest" /\ r = First(x.op)
     /\ cpu' = x.op /\ rest' = rest /\ (rel' = "bad" => x.addr \in Outside)
  \/ \* the word of a read-pause-write
     /\ x.op = "rs" /\ ~x.stop /\ cpu = "paused" /\ rest = 0 /\ p = "rest" /\ r = "rdwr_rs"
     /\ cpu' = "rs" /\ rel' = rel /\ rest' = rest
  \/ \* between two requests
     /\ ~x.stop /\ p = "rest" /\ r = "rest" /\ rest = 0 /\ rest' = rest
     /\ \/ x.op = "it0" /\ cpu \in {"trap", "idle"} /\ cpu' = "idle" /\ rel' = "inh"
        \/ x.op = "at4" /\ cpu = "idle" /\ cpu' = "addressed" /\ rel' = rel
  \/ \* memory continue
     /\ x.op = "cont" /\ ~x.stop /\ Quiet /\ mc_stop /\ r = "rs_t0" /\ s \in {"still", "pse"}
     /\ (p = "rest" /\ cpu = "halted") \/ (p = "stopped" /\ Awaiting)
     /\ cpu' = cpu /\ rel' = rel /\ rest' = rest
  \/ \* another key
     /\ x.op = "key" /\ ~x.stop /\ Quiet /\ s \in {"still", "pse"}
     /\ (p = "rest" /\ cpu = "halted") \/ (p \in {"stopped", "asking"} /\ Awaiting)
     /\ r = IF mc_stop /\ mc_stop_sync THEN "mc_wr_rs" ELSE "rest"
     /\ cpu' = "keyed" /\ rel' = "inh" /\ rest' = KeyDelay

(* What the steps are proved from.                                         *)
Now(s, p) ==
  /\ Typed /\ AddressInv /\ cpu # "off"
  /\ StageInv(s) /\ TurnInv(s, p) /\ ServiceInv(s, p) /\ WordInv(s, p)
Ticks(x, s, p) == Now(s, p) /\ Moves(x) /\ Acts(x) /\ Clocks(x, s)

(* The pulses of a turn: one is on, that of the turn.                      *)
LEMMA NowTyped ==
  ASSUME NEW s \in Stage, NEW p \in Turn, Now(s, p)
  PROVE  /\ \A q \in McPulse : due[q] \in Nat /\ due[q] <= McDelay[q]
         /\ \A q \in Amplified : due[q] \in Nat /\ due[q] <= 1 /\ (is(q) <=> q = p)
         /\ NxmDelay \in Nat /\ NxmDelay >= 100
  <1>1. \A q \in McPulse : due[q] \in Nat /\ due[q] <= McDelay[q]
    BY DEF Now, Typed, TypeOK
  <1>2. \A q \in Amplified : q \in McPulse /\ McDelay[q] = 1
    BY DEF Amplified, McPulse, McDelay
  <1>3. \A q \in Amplified : due[q] > 0 <=> q = p
    BY DEF Now, TurnInv, TurnChain
  <1>4. \A q \in Amplified : due[q] \in Nat /\ due[q] <= 1 /\ (is(q) <=> q = p)
    BY <1>1, <1>2, <1>3 DEF is
  <1>5. PICK w \in Waits : w \in Nat /\ NxmDelay >= w + 100
    BY MemCycleAssumption
  <1>6. NxmDelay \in Nat /\ NxmDelay >= 100
    BY <1>5, MemCycleAssumption
  <1> QED
    BY <1>1, <1>4, <1>6

(* Nothing is coming: the module is still, or waits for the processor.     *)
LEMMA QuietMeans ==
  ASSUME NEW s \in Stage, NEW p \in Turn, Now(s, p), Quiet
  PROVE  /\ s \in {"still", "pse"} /\ p \in {"rest", "asking", "stopped"}
         /\ \A q \in McPulse : due[q] = 0
         /\ \A q \in Pulse : left[q] = 0
         /\ ~m_read /\ ~m_write
  <1>1. /\ \A q \in McPulse : due[q] = 0
        /\ \A q \in Pulse : left[q] = 0
        /\ ~m_read /\ ~m_write
    BY DEF Quiet, Requested
  <1>2. \A q \in ChainPulse : q # s
    BY <1>1 DEF Now, StageInv, Chain, ChainPulse, Pulse, Delay
  <1>3. \A q \in Amplified : q # p
    BY <1>1 DEF Now, TurnInv, TurnChain, Amplified, McPulse, McDelay
  <1>4. p # "rs_t0_D" /\ p # "rdwr_rs_D"
    BY <1>1 DEF Now, TurnInv, TurnChain, McPulse, McDelay
  <1>5. p # "delay"
    <2>1. p = "delay" => due["D3"] > NxmDelay - IF rel = "inh" THEN 2 ELSE 7
      BY DEF Now, TurnInv, TimeInv
    <2>2. due["D3"] = 0
      BY <1>1 DEF McPulse, McDelay
    <2> QED
      BY <2>1, <2>2, NowTyped
  <1>6. ~(Cause(ToModule)["stb"]) \/ "stb" \in high
    BY DEF Quiet, Pulse, Delay
  <1>7. ~(Cause(ToModule)["rd"]) \/ "rd" \in high
    BY DEF Quiet, Pulse, Delay
  <1>8. ~(Cause(ToModule)["wr"]) \/ "wr" \in high
    BY DEF Quiet, Pulse, Delay
  <1>9. s # "rd_sync"
    <2>1. s = "rd_sync" => rd_sync /\ "rd" \notin high
      BY DEF Now, StageInv, OpenInv, ReadInv
    <2>2. s = "rd_sync" => ~rd_done
      BY <1>7, <2>1 DEF Cause
    <2>3. s = "rd_sync" => stb_sync /\ stb_done
      BY <1>1, <2>2 DEF Now, StageInv, ReadInv, Reading
    <2>4. left["stb"] = 0
      BY <1>1 DEF Pulse, Delay
    <2>5. s = "rd_sync" => "stb" \in high
      BY <1>6, <2>3 DEF Cause
    <2>6. stb_sync /\ stb_done => (left["stb"] > 0 <=> "stb" \in high)
      BY DEF Now, StageInv, ReadInv
    <2> QED
      BY <2>3, <2>4, <2>5, <2>6
  <1>10. s # "wr_sync"
    <2>1. s = "wr_sync" => wr_sync /\ "wr" \notin high /\ wr_done
      BY <1>1 DEF Now, StageInv, OpenInv, WriteInv, Writing
    <2> QED
      BY <1>8, <2>1 DEF Cause
  <1>11. p # "reading"
    <2>1. left["rd_rs"] = 0
      BY <1>1 DEF Pulse, Delay
    <2>2. p = "reading" => Fetching(s) /\ s # "t1a"
      BY <2>1 DEF Now, ServiceInv, ServeInv
    <2> QED
      BY <1>2, <1>9, <2>2 DEF Fetching, Reading, ChainPulse
  <1> QED
    BY <1>1, <1>2, <1>3, <1>4, <1>5, <1>9, <1>10, <1>11 DEF Stage, ChainPulse, Turn, Amplified

(* From each turn the request goes on to one, or waits.                    *)
LEMMA FlowsOn ==
  ASSUME NEW x, NEW s \in Stage, NEW p \in Turn, rel \in {"inh", "ok", "bad"}
  PROVE  \E r \in Turn : Flows(x, s, p, r)
  <1>1. CASE p \in {"rest", "stopped", "split_rd", "rd_rq", "wr_rq", "rdwr_rq", "rq", "delay",
                    "rq_set", "illeg"}
    <2>1. CASE p = "delay"
      BY <2>1 DEF Flows, Turn, Amplified
    <2>2. CASE p = "illeg"
      BY <2>2 DEF Flows, Turn, Amplified
    <2> QED
      BY <1>1, <2>1, <2>2 DEF Flows, Turn, Amplified
  <1>2. CASE p \in {"asking", "mai_ack", "nxm", "nxm_rst", "ack", "reading", "mai_rd_rs",
                    "mc_wr_rs"}
    BY <1>2 DEF Flows, Turn, Amplified
  <1>3. CASE p \in {"rdwr_rs", "split_wr", "rdwr_rs_D", "rs_t0", "rs_t0_D", "rs_t1"}
    BY <1>3 DEF Flows, Turn, Amplified
  <1> QED
    BY <1>1, <1>2, <1>3 DEF Turn, Amplified

(* Whatever the processor does, it is at some turn after it.               *)
LEMMA SomeTurn ==
  ASSUME NEW x, NEW s \in Stage, NEW p \in Turn, Ticks(x, s, p)
  PROVE  \E r \in Turn : Goes(x, s, p, r)
  <1>1. rel \in {"inh", "ok", "bad"} /\ rest \in Nat /\ cpu # "off"
    BY DEF Ticks, Now, Typed, TypeOK
  <1>2. /\ is("rs_t1") <=> p = "rs_t1"
        /\ is("illeg") <=> p = "illeg"
    BY NowTyped DEF Ticks, Amplified
  <1>3. CpuInv(p) /\ FlagInv(p)
    BY DEF Ticks, Now, TurnInv
  <1>4. Quiet => s \in {"still", "pse"} /\ p \in {"rest", "asking", "stopped"}
    BY QuietMeans DEF Ticks
  <1>5. CASE /\ x.op = "none" /\ ~x.stop
             /\ (cpu = "off" /\ Quiet) \/ (cpu = "keyed" /\ rest = 0)
             /\ cpu' = "idle" /\ rel' = rel /\ rest' = rest /\ latest' = latest
    <2>1. p = "rest"
      <3>1. KeyInv(p)
        BY DEF Ticks, Now, TurnInv
      <3>2. p = "rs_t0_D" => due["rs_t0_D"] \in Nat
        BY NowTyped DEF Ticks, McPulse, McDelay
      <3> QED
        BY <1>1, <1>3, <1>5, <3>1, <3>2 DEF CpuInv, KeyInv, Answering
    <2> QED
      BY <1>1, <1>5, <2>1 DEF Goes, Turn
  <1>6. CASE /\ x.op = "none" /\ (x.stop => is("D2"))
             /\ IF cpu = "off" THEN ~Quiet ELSE Awaiting \/ cpu = "halted" \/ rest > 0
             /\ ~(Awaiting /\ (is("rs_t1") \/ is("illeg")))
             /\ cpu' = cpu /\ rel' = rel /\ rest' = Count(rest) /\ latest' = latest
    <2>1. PICK r \in Turn : Flows(x, s, p, r)
      BY <1>1, FlowsOn
    <2>2. p # "illeg" /\ (p = "rs_t1" => ~Awaiting)
      <3>1. p = "illeg" => Awaiting
        BY <1>1, <1>3 DEF CpuInv, Awaiting, Awaits, Request, Answering, Ticks, Now, Typed, TypeOK
      <3> QED
        BY <1>2, <1>6, <3>1
    <2> QED
      BY <1>1, <1>6, <2>1, <2>2 DEF Goes
  <1>7. CASE /\ x.op \in Request /\ cpu \in {"idle", "addressed"} /\ rest = 0 /\ ~x.stop
             /\ x.addr \in Addr /\ (x.op = "wr" \/ x.word = {})
             /\ cpu' = x.op /\ rest' = rest
             /\ rel' = "inh" \/ rel' = (IF x.addr \in Outside THEN "bad" ELSE "ok")
    <2>1. p = "rest"
      BY <1>3, <1>7 DEF CpuInv
    <2>2. First(x.op) \in Turn
      BY DEF First, Turn, Amplified
    <2>3. rel' = "bad" => x.addr \in Outside
      BY <1>7
    <2> QED
      BY <1>7, <2>1, <2>2, <2>3 DEF Goes
  <1>8. CASE /\ x.op = "none" /\ ~x.stop /\ Awaiting /\ (is("rs_t1") \/ is("illeg"))
             /\ cpu' = IF is("illeg") THEN "trap" ELSE IF cpu = "rdwr" THEN "paused" ELSE "idle"
             /\ rest' \in Gaps /\ rel' = rel /\ latest' = latest
    BY <1>2, <1>8 DEF Goes, Turn
  <1>9. CASE /\ x.op = "it0" /\ ~x.stop /\ cpu \in {"trap", "idle"} /\ rest = 0
             /\ cpu' = "idle" /\ rel' = "inh" /\ rest' = rest /\ latest' = latest
    BY <1>3, <1>9 DEF Goes, Turn, CpuInv
  <1>10. CASE /\ x.op = "none" /\ ~x.stop /\ cpu \in {"idle", "trap"} /\ rest = 0
              /\ cpu' = "halted" /\ rel' = rel /\ rest' = rest /\ latest' = latest
    BY <1>3, <1>10 DEF Goes, Turn, CpuInv
  <1>11. CASE /\ x.op = "at4" /\ ~x.stop /\ cpu = "idle" /\ rest = 0
              /\ cpu' = "addressed" /\ rel' = rel /\ rest' = rest /\ latest' = latest
    BY <1>3, <1>11 DEF Goes, Turn, CpuInv
  <1>12. CASE /\ x.op = "rs" /\ ~x.stop /\ cpu = "paused" /\ rest = 0
              /\ cpu' = "rs" /\ rel' = rel /\ rest' = rest
    <2>1. p = "rest" /\ "rdwr_rs" \in Turn
      BY <1>3, <1>12 DEF CpuInv, Turn, Amplified
    <2> QED
      BY <1>12, <2>1 DEF Goes
  <1>13. CASE /\ x.op = "cont" /\ ~x.stop /\ AtRest /\ mc_stop /\ ~mc_rq
              /\ cpu' = cpu /\ rel' = rel /\ rest' = rest /\ latest' = latest
    <2>1. (p = "rest" /\ cpu = "halted") \/ (p = "stopped" /\ Awaiting)
      BY <1>3, <1>4, <1>13 DEF AtRest, CpuInv, FlagInv, Awaiting, Awaits, Request, Asking,
                               Answering, Settled, Ends
    <2>2. Quiet /\ "rs_t0" \in Turn
      BY <1>13 DEF AtRest, Turn, Amplified
    <2> QED
      BY <1>4, <1>13, <2>1, <2>2 DEF Goes
  <1>14. CASE /\ x.op = "key" /\ ~x.stop /\ AtRest
              /\ cpu' = "keyed" /\ rel' = "inh" /\ rest' = KeyDelay /\ latest' = latest
    <2>1. (p = "rest" /\ cpu = "halted") \/ (p \in {"stopped", "asking"} /\ Awaiting)
      BY <1>3, <1>4, <1>14 DEF AtRest, CpuInv, Awaiting, Awaits, Request, Asking,
                               Answering, Settled, Ends
    <2>2. Quiet /\ {"mc_wr_rs", "rest"} \subseteq Turn
      BY <1>14 DEF AtRest, Turn, Amplified
    <2> QED
      BY <1>4, <1>14, <2>1, <2>2 DEF Goes
  <1>15. Acts(x)
    BY DEF Ticks
  <1> QED
    BY <1>5, <1>6, <1>7, <1>8, <1>9, <1>10, <1>11, <1>12, <1>13, <1>14, <1>15 DEF Acts

Untouched(x) == x.op \notin {"it0", "key"}

(* The flip-flops of the memory control, by turn.                          *)
LEMMA FlagsGo ==
  ASSUME NEW x, NEW s \in Stage, NEW p \in Turn, Ticks(x, s, p)
  PROVE  /\ mc_rd' <=> p \in {"rd_rq", "rdwr_rq"}
                       \/ (p \notin {"wr_rq", "rs_t1"} /\ mc_rd /\ Untouched(x))
         /\ mc_wr' <=> p \in {"wr_rq", "rdwr_rq"} \/ (p # "rd_rq" /\ mc_wr /\ Untouched(x))
         /\ mc_rq' <=> p = "rq_set" \/ (p # "ack" /\ mc_rq /\ Untouched(x))
         /\ mc_stop' <=> (is("D2") /\ x.stop)
                         \/ (p \notin {"rq", "rs_t0"} /\ mc_stop /\ Untouched(x))
         /\ mc_stop_sync' <=> p = "rdwr_rq" \/ (mc_stop_sync /\ Untouched(x))
         /\ mc_split_cyc_sync' <=> x.op = "at4" \/ (mc_split_cyc_sync /\ Untouched(x))
  <1>1. McFlags(x) /\ Typed
    BY DEF Ticks, Now, Moves, McClock
  <1>2. \A q \in {"rd_rq", "rdwr_rq", "wr_rq", "rs_t1", "rq_set", "ack", "rq", "rs_t0"} :
          is(q) <=> p = q
    BY NowTyped DEF Ticks, Amplified
  <1>3. /\ Keep(mc_rd, x) <=> mc_rd /\ Untouched(x)
        /\ Keep(mc_wr, x) <=> mc_wr /\ Untouched(x)
        /\ Keep(mc_rq, x) <=> mc_rq /\ Untouched(x)
        /\ Keep(mc_stop, x) <=> mc_stop /\ Untouched(x)
        /\ Keep(mc_stop_sync, x) <=> mc_stop_sync /\ Untouched(x)
        /\ Keep(mc_split_cyc_sync, x) <=> mc_split_cyc_sync /\ Untouched(x)
    BY DEF Keep, Untouched, Asked
  <1>4. /\ mc_rd' <=> p \in {"rd_rq", "rdwr_rq"}
                      \/ (p \notin {"wr_rq", "rs_t1"} /\ mc_rd /\ Untouched(x))
        /\ mc_wr' <=> p \in {"wr_rq", "rdwr_rq"} \/ (p # "rd_rq" /\ mc_wr /\ Untouched(x))
    BY <1>1, <1>2, <1>3 DEF McFlags
  <1>5. /\ mc_rq' <=> p = "rq_set" \/ (p # "ack" /\ mc_rq /\ Untouched(x))
        /\ mc_stop' <=> (is("D2") /\ x.stop)
                        \/ (p \notin {"rq", "rs_t0"} /\ mc_stop /\ Untouched(x))
    BY <1>1, <1>2, <1>3 DEF McFlags, stop_set, stop_reset
  <1>6. /\ mc_stop_sync' <=> p = "rdwr_rq" \/ (mc_stop_sync /\ Untouched(x))
        /\ mc_split_cyc_sync' <=> x.op = "at4" \/ (mc_split_cyc_sync /\ Untouched(x))
    BY <1>1, <1>2, <1>3 DEF McFlags, Asked
  <1> QED
    BY <1>4, <1>5, <1>6

(* The address changes with a request only.                                *)
LEMMA AddressGoes ==
  ASSUME NEW x, NEW s \in Stage, NEW p \in Turn, Ticks(x, s, p)
  PROVE  ma' = IF x.op \in Request THEN x.addr ELSE ma
  BY DEF Ticks, Moves, McClock, Buffers, Request

(* The acknowledge, the word and the missing answer come when the request  *)
(* waits for them.                                                         *)
LEMMA AnswersCome ==
  ASSUME NEW x, NEW s \in Stage, NEW p \in Turn, Ticks(x, s, p)
  PROVE  /\ addr_ack(0) <=> s = "t1a"
         /\ s = "t1a" => p = "asking" /\ ma \notin Absent /\ ~is("D3")
         /\ rd_rs(0) <=> left["rd_rs"] > 0
         /\ left["rd_rs"] > 0 => p = "reading"
         /\ mc_non_exist_mem <=> p = "asking" /\ s # "t1a" /\ is("D3") /\ ~mc_stop
         /\ is("nxm_rd") <=> p = "ack" /\ mc_rd /\ ma \in Absent
         /\ p = "asking" /\ is("D3") => ma \in Absent
  <1>1. /\ ServeInv(s, p) /\ FlagInv(p) /\ TimeInv(p) /\ FrontInv(s, p) /\ BoundInv(s, p)
        /\ TurnChain(p) /\ StageInv(s)
    BY DEF Ticks, Now, TurnInv, ServiceInv
  <1>2. /\ left["addr_ack"] \in Nat /\ left["addr_ack"] <= 1
        /\ left["rd_rs"] \in Nat /\ left["rd_rs"] <= 1
        /\ \A q \in ChainPulse : left[q] \in Nat /\ (left[q] > 0 <=> q = s)
        /\ left["t0"] \in Nat /\ left["t0_D"] \in Nat /\ left["t5"] \in Nat
    BY StagesOn DEF Ticks, Pulse, Delay
  <1>3. due["D3"] \in Nat /\ due["nxm_rd"] \in Nat /\ due["nxm_rd"] <= 1
    BY NowTyped DEF Ticks, McPulse, McDelay
  <1>4. addr_ack(0) <=> s = "t1a"
    BY <1>1, <1>2 DEF ServeInv, addr_ack, on
  <1>5. rd_rs(0) <=> left["rd_rs"] > 0
    BY <1>1, <1>2 DEF ServeInv, rd_rs, on
  <1>6. left["rd_rs"] > 0 => p = "reading"
    BY <1>1 DEF ServeInv
  <1>7. s = "t1a" => p = "asking" /\ ma \notin Absent
    BY <1>1 DEF ServeInv
  <1>8. p = "asking" /\ ma \notin Absent => due["D3"] >= 4
    <2> SUFFICES ASSUME p = "asking", ma \notin Absent
                 PROVE  due["D3"] >= 4
      OBVIOUS
    <2>1. CASE await_rq
      BY <1>1, <1>2, <1>3, <2>1 DEF FrontInv
    <2>2. CASE s \notin {"t1b", "t1a", "still"}
      <3>1. Rest(s) \in Nat
        BY <1>2, <2>2 DEF Rest, ChainPulse
      <3> QED
        BY <1>1, <1>3, <2>2, <3>1 DEF BoundInv, Timed
    <2>3. CASE ~await_rq /\ s \in {"t1b", "t1a"}
      <3>1. rq_sync
        BY <1>1, <2>3 DEF StageInv, OpenInv, Opening
      <3> QED
        BY <1>1, <1>3, <2>3, <3>1 DEF FrontInv
    <2>4. CASE ~await_rq /\ s = "still"
      BY <1>1, <1>2, <1>3, <2>4 DEF FrontInv, Late
    <2> QED
      BY <2>1, <2>2, <2>3, <2>4
  <1>9. mc_non_exist_mem <=> p = "asking" /\ s # "t1a" /\ is("D3") /\ ~mc_stop
    BY <1>1, <1>3, <1>7, <1>8 DEF FlagInv, TimeInv, Asking, mc_non_exist_mem, is
  <1>10. is("nxm_rd") <=> p = "ack" /\ mc_rd /\ ma \in Absent
    BY <1>1, <1>3 DEF FlagInv, is
  <1> QED
    BY <1>4, <1>5, <1>6, <1>7, <1>8, <1>9, <1>10 DEF is

(* The turn that follows is the only one again.                            *)
LEMMA TurnChainOn ==
  ASSUME NEW x, NEW s \in Stage, NEW p \in Turn, Ticks(x, s, p),
         NEW r \in Turn, Goes(x, s, p, r)
  PROVE  TurnChain(r)'
  <1>1. /\ TurnChain(p) /\ CpuInv(p) /\ FlagInv(p) /\ StopInv(p) /\ TimeInv(p)
        /\ Typed /\ McSchedule(x, ToProcessor)
    BY DEF Ticks, Now, TurnInv, Moves, McClock
  <1>2. /\ \A q \in Amplified : due[q] \in Nat /\ due[q] <= 1 /\ (is(q) <=> q = p)
        /\ NxmDelay \in Nat /\ NxmDelay >= 100
        /\ \A q \in {"D0", "D1", "D2", "D3", "rdwr_rs_D", "rs_t0_D"} : due[q] \in Nat
        /\ due["rdwr_rs_D"] <= 5 /\ due["rs_t0_D"] <= 2
    BY NowTyped DEF Ticks, McPulse, McDelay
  <1>3. \A q \in Amplified : q \in up => q = p
    BY <1>1 DEF TurnChain
  <1>4. p # "rdwr_rs_D" /\ is("rdwr_rs_D") => mc_split_cyc_sync
    BY <1>1 DEF TurnChain, is
  <1>5. p # "delay" => ~(is("D0") /\ rel = "inh") /\ ~(is("D1") /\ rel # "inh")
    BY <1>1, <1>2 DEF TimeInv, Since, Timed, is
  <1>6. p = "rs_t0_D" <=> due["rs_t0_D"] > 0
    BY <1>1 DEF TurnChain
  <1>7. Awaiting <=> cpu \in {"rd", "wr", "rdwr", "rs"}
    BY DEF Awaiting, Awaits, Request
  <1>8. rel \in {"inh", "ok", "bad"} /\ x.rel = rel
    BY <1>1 DEF Typed, TypeOK, Ticks, Acts
  <1>11. \A q \in {"rd_rq", "wr_rq", "rdwr_rq", "split_rd"} :
            (due'[q] > 0 <=> q = r) /\ (q \in up' => q = r)
    <2>1. /\ Comes("rd_rq", x.op = "rd" \/ p = "split_rd")
          /\ Comes("wr_rq", x.op = "wr" \/ p = "split_wr")
          /\ Comes("rdwr_rq", x.op = "rdwr" /\ ~mc_split_cyc_sync)
          /\ Comes("split_rd", x.op = "rdwr" /\ mc_split_cyc_sync)
      BY <1>1, <1>2, McPulsesGo DEF Comes, Asked, Amplified
    <2>2. /\ x.op = "rd" \/ p = "split_rd" <=> r = "rd_rq"
          /\ x.op = "wr" \/ p = "split_wr" <=> r = "wr_rq"
          /\ x.op = "rdwr" /\ ~mc_split_cyc_sync <=> r = "rdwr_rq"
          /\ x.op = "rdwr" /\ mc_split_cyc_sync <=> r = "split_rd"
      BY DEF Goes, Flows, First, Request
    <2>3. \A q \in {"rd_rq", "wr_rq", "rdwr_rq", "split_rd"} : r = q => p # q
      BY DEF Goes, Flows, First, Request
    <2> QED
      BY <1>3, <2>1, <2>2, <2>3 DEF Comes, Amplified
  <1>12. \A q \in {"rq", "rq_set", "illeg"} : (due'[q] > 0 <=> q = r) /\ (q \in up' => q = r)
    <2>1. /\ Comes("rq", p \in {"rdwr_rq", "rd_rq", "wr_rq"})
          /\ Comes("rq_set", (is("D0") /\ rel = "inh") \/ (is("D1") /\ rel = "ok"))
          /\ Comes("illeg", is("D1") /\ rel = "bad")
      BY <1>1, <1>2, <1>8, McPulsesGo DEF Comes, Amplified
    <2>2. /\ p \in {"rdwr_rq", "rd_rq", "wr_rq"} <=> r = "rq"
          /\ (is("D0") /\ rel = "inh") \/ (is("D1") /\ rel = "ok") <=> r = "rq_set"
          /\ is("D1") /\ rel = "bad" <=> r = "illeg"
      BY <1>5, <1>8 DEF Goes, Flows, First
    <2>3. \A q \in {"rq", "rq_set", "illeg"} : r = q => p # q
      BY DEF Goes, Flows, First
    <2> QED
      BY <1>3, <2>1, <2>2, <2>3 DEF Comes, Amplified
  <1>13. \A q \in {"mai_ack", "nxm", "nxm_rst", "ack"} :
           (due'[q] > 0 <=> q = r) /\ (q \in up' => q = r)
    <2>1. /\ Comes("mai_ack", s = "t1a")
          /\ Comes("nxm", p = "asking" /\ s # "t1a" /\ is("D3") /\ ~mc_stop)
          /\ Comes("nxm_rst", p = "nxm" /\ ~x.disable)
          /\ Comes("ack", p \in {"mai_ack", "nxm_rst"})
      BY <1>1, <1>2, McPulsesGo, AnswersCome DEF Comes, Amplified
    <2>2. Quiet => s # "t1a" /\ ~is("D3")
      BY QuietMeans DEF Ticks, is, McPulse, McDelay
    <2>3. /\ s = "t1a" <=> r = "mai_ack"
          /\ p = "asking" /\ s # "t1a" /\ is("D3") /\ ~mc_stop <=> r = "nxm"
          /\ p = "nxm" /\ ~x.disable <=> r = "nxm_rst"
          /\ p \in {"mai_ack", "nxm_rst"} <=> r = "ack"
      BY <2>2, AnswersCome DEF Goes, Flows, First
    <2>4. \A q \in {"mai_ack", "nxm", "nxm_rst", "ack"} : r = q => p # q
      BY DEF Goes, Flows, First
    <2> QED
      BY <1>3, <2>1, <2>3, <2>4 DEF Comes, Amplified
  <1>14. \A q \in {"mai_rd_rs", "rdwr_rs", "split_wr"} :
           (due'[q] > 0 <=> q = r) /\ (q \in up' => q = r)
    <2>1. /\ Comes("mai_rd_rs", left["rd_rs"] > 0)
          /\ Comes("rdwr_rs", x.op = "rs")
          /\ Comes("split_wr", p = "rdwr_rs" /\ mc_split_cyc_sync)
      BY <1>1, <1>2, McPulsesGo, AnswersCome DEF Comes, Amplified, Asked
    <2>2. /\ left["rd_rs"] > 0 <=> r = "mai_rd_rs"
          /\ x.op = "rs" <=> r = "rdwr_rs"
          /\ p = "rdwr_rs" /\ mc_split_cyc_sync <=> r = "split_wr"
      BY AnswersCome DEF Goes, Flows, First, Request
    <2>3. \A q \in {"mai_rd_rs", "rdwr_rs", "split_wr"} : r = q => p # q
      BY DEF Goes, Flows, First
    <2> QED
      BY <1>3, <2>1, <2>2, <2>3 DEF Comes, Amplified
  <1>15. (due'["mc_wr_rs"] > 0 <=> "mc_wr_rs" = r) /\ ("mc_wr_rs" \in up' => "mc_wr_rs" = r)
    <2>1. p = "ack" /\ ~mc_rd => mc_wr
      BY <1>1 DEF CpuInv, FlagInv, Settled, Asking, Answering, Typed, TypeOK, Awaits, Request,
                  Ticks, Now
    <2>2. Comes("mc_wr_rs", \/ p = "ack" /\ ~mc_rd
                            \/ p = "rdwr_rs_D" /\ is("rdwr_rs_D")
                            \/ x.op = "key" /\ mc_stop /\ mc_stop_sync)
      <3>1. p = "rdwr_rs_D" => ~mc_split_cyc_sync
        BY <1>1 DEF CpuInv, Settled, Asking, Ends, Answering, Typed, TypeOK, Awaits, Request,
                    Ticks, Now
      <3>2. wr_rs_set(x) <=> \/ p = "ack" /\ ~mc_rd
                             \/ p = "rdwr_rs_D" /\ is("rdwr_rs_D")
                             \/ x.op = "key" /\ mc_stop /\ mc_stop_sync
        BY <1>2, <1>4, <2>1, <3>1 DEF wr_rs_set, Asked, Amplified
      <3> QED
        BY <1>1, <3>2, McPulsesGo DEF Comes
    <2>3. \/ p = "ack" /\ ~mc_rd
          \/ p = "rdwr_rs_D" /\ is("rdwr_rs_D")
          \/ x.op = "key" /\ mc_stop /\ mc_stop_sync
          <=> r = "mc_wr_rs"
      BY DEF Goes, Flows, First, Request
    <2>4. r = "mc_wr_rs" => p # "mc_wr_rs"
      BY DEF Goes, Flows, First
    <2> QED
      BY <1>3, <2>2, <2>3, <2>4 DEF Comes, Amplified
  <1>16. (due'["rs_t0"] > 0 <=> "rs_t0" = r) /\ ("rs_t0" \in up' => "rs_t0" = r)
    <2>1. Comes("rs_t0", \/ x.op = "cont" /\ mc_stop
                         \/ ~mc_stop /\ p \in {"mc_wr_rs", "mai_rd_rs"}
                         \/ p = "ack" /\ mc_rd /\ ma \in Absent)
      <3>1. p = "ack" /\ mc_rd /\ ma \in Absent => ~mc_stop
        BY <1>1 DEF StopInv
      <3>2. mc_rs_t0(x) <=> \/ x.op = "cont" /\ mc_stop
                            \/ ~mc_stop /\ p \in {"mc_wr_rs", "mai_rd_rs"}
                            \/ p = "ack" /\ mc_rd /\ ma \in Absent
        BY <1>2, <3>1, AnswersCome DEF mc_rs_t0, Asked, Amplified
      <3> QED
        BY <1>1, <3>2, McPulsesGo DEF Comes
    <2>2. \/ x.op = "cont" /\ mc_stop
          \/ ~mc_stop /\ p \in {"mc_wr_rs", "mai_rd_rs"}
          \/ p = "ack" /\ mc_rd /\ ma \in Absent
          <=> r = "rs_t0"
      BY DEF Goes, Flows, First, Request
    <2>3. r = "rs_t0" => p # "rs_t0"
      BY DEF Goes, Flows, First
    <2> QED
      BY <1>3, <2>1, <2>2, <2>3 DEF Comes, Amplified
  <1>17. /\ (due'["rs_t1"] > 0 <=> "rs_t1" = r) /\ ("rs_t1" \in up' => "rs_t1" = r)
         /\ due'["rs_t0_D"] > 0 <=> r = "rs_t0_D"
    <2>1. /\ Comes("rs_t1", p = "rs_t0_D" /\ is("rs_t0_D"))
          /\ due'["rs_t0_D"] = IF p = "rs_t0" THEN 2
                               ELSE IF due["rs_t0_D"] = 0 THEN 0 ELSE due["rs_t0_D"] - 1
      BY <1>1, <1>2, <1>6, McPulsesGo DEF Comes, Follows, Amplified, is, McDelay
    <2>2. /\ p = "rs_t0_D" /\ is("rs_t0_D") <=> r = "rs_t1"
          /\ p = "rs_t0" \/ (p = "rs_t0_D" /\ ~is("rs_t0_D")) <=> r = "rs_t0_D"
      BY DEF Goes, Flows, First, Request
    <2>3. r = "rs_t1" => p # "rs_t1"
      BY DEF Goes, Flows, First
    <2>4. due'["rs_t0_D"] > 0 <=> p = "rs_t0" \/ (p = "rs_t0_D" /\ ~is("rs_t0_D"))
      BY <1>2, <1>6, <2>1 DEF is
    <2> QED
      BY <1>3, <2>1, <2>2, <2>3, <2>4 DEF Comes, Amplified
  <1>18. /\ r = "rdwr_rs_D" => due'["rdwr_rs_D"] > 0
         /\ r # "rdwr_rs_D" =>
              due'["rdwr_rs_D"] = IF cpu' = "rs" /\ mc_split_cyc_sync' THEN Echo(r)' ELSE 0
    <2>1. /\ due'["rdwr_rs_D"] = IF p = "rdwr_rs" THEN 5
                                 ELSE IF due["rdwr_rs_D"] = 0 THEN 0 ELSE due["rdwr_rs_D"] - 1
          /\ due'["D3"] = IF p = "rq" THEN NxmDelay
                          ELSE IF due["D3"] = 0 THEN 0 ELSE due["D3"] - 1
      BY <1>1, <1>2, McPulsesGo DEF Follows, Amplified, McDelay
    <2>2. mc_split_cyc_sync' <=> x.op = "at4" \/ (mc_split_cyc_sync /\ Untouched(x))
      BY FlagsGo
    <2>3. cpu = "rs" /\ ~mc_split_cyc_sync => p \notin {"split_wr", "wr_rq", "rq", "delay"}
      BY <1>1 DEF CpuInv, Settled, Asking, Ends, Answering
    <2>4. CASE p = "rdwr_rs"
      <3>1. cpu' = cpu /\ mc_split_cyc_sync' = mc_split_cyc_sync /\ due'["rdwr_rs_D"] = 5
        BY <2>1, <2>2, <2>4, <1>1 DEF Goes, Flows, CpuInv, Untouched, Request, Typed
      <3>2. r \in {"split_wr", "rdwr_rs_D"} /\ (r = "split_wr" => mc_split_cyc_sync /\ cpu = "rs")
        BY <1>1, <2>4 DEF Goes, Flows, CpuInv, Settled, Asking, Ends, Answering, Typed, TypeOK,
                          Awaits, Request, Ticks, Now
      <3> QED
        BY <3>1, <3>2 DEF Echo
    <2>5. CASE p = "rdwr_rs_D"
      <3>1. ~mc_split_cyc_sync /\ x.op = "none" /\ r \in {"rdwr_rs_D", "mc_wr_rs"}
            /\ (r = "mc_wr_rs" <=> is("rdwr_rs_D"))
        BY <1>1, <2>5 DEF Goes, Flows, CpuInv, Settled, Asking, Ends, Answering, Typed, TypeOK,
                          Awaits, Request, Ticks, Now
      <3>2. ~mc_split_cyc_sync' /\ due["rdwr_rs_D"] > 0
        BY <1>1, <2>2, <2>5, <3>1 DEF TurnChain
      <3> QED
        BY <1>2, <2>1, <2>5, <3>1, <3>2 DEF is
    <2>6. CASE p \notin {"rdwr_rs", "rdwr_rs_D"} /\ cpu = "rs" /\ mc_split_cyc_sync
      <3>1. due["rdwr_rs_D"] = Echo(p)
        BY <1>1, <2>6 DEF TurnChain
      <3>2. r # "rdwr_rs_D"
        BY <2>6 DEF Goes, Flows, First, Request
      <3>3. cpu' = "rs" => x.op \in {"none", "cont"} /\ mc_split_cyc_sync'
        BY <2>2, <2>6 DEF Goes, Untouched, Request
      <3>4. CASE p \in {"split_wr", "wr_rq", "rq"}
        <4>1. /\ p = "split_wr" => r = "wr_rq"
              /\ p = "wr_rq" => r = "rq"
              /\ p = "rq" => r = "delay"
              /\ cpu' = "rs"
          BY <2>6, <3>4 DEF Goes, Flows
        <4>2. p = "rq" => Since(2)' = 2
          BY <1>2, <2>1 DEF Since
        <4> QED
          BY <2>1, <3>1, <3>2, <3>3, <3>4, <4>1, <4>2 DEF Echo
      <3>5. CASE p = "delay"
        <4>1. r \in {"delay", "rq_set", "illeg"} /\ cpu' = "rs" /\ (r # "delay" => Since(2) <= 1)
          BY <1>1, <1>2, <2>6, <3>5 DEF Goes, Flows, TimeInv, Since, is
        <4>2. /\ due["rdwr_rs_D"] = Since(2)
              /\ Since(2)' = IF Since(2) = 0 THEN 0 ELSE Since(2) - 1
          BY <1>2, <2>1, <3>1, <3>5 DEF Since, Echo
        <4>3. Since(2) \in Nat
          BY <1>2 DEF Since
        <4> QED
          BY <1>2, <2>1, <3>2, <3>3, <3>5, <4>1, <4>2, <4>3 DEF Echo
      <3>6. CASE p \notin {"split_wr", "wr_rq", "rq", "delay"}
        <4>1. due'["rdwr_rs_D"] = 0
          BY <2>1, <2>6, <3>1, <3>6 DEF Echo
        <4>2. cpu' = "rs" => r \notin {"split_wr", "wr_rq", "rq", "delay"}
          BY <1>1, <2>6, <3>6 DEF Goes, Flows, CpuInv, Settled, Asking, Ends, Answering, Request
        <4> QED
          BY <3>2, <4>1, <4>2 DEF Echo
      <3> QED
        BY <3>4, <3>5, <3>6
    <2>7. CASE p \notin {"rdwr_rs", "rdwr_rs_D"} /\ ~(cpu = "rs" /\ mc_split_cyc_sync)
      <3>1. due["rdwr_rs_D"] = 0 /\ due'["rdwr_rs_D"] = 0
        BY <1>1, <2>1, <2>7 DEF TurnChain
      <3>2. r # "rdwr_rs_D"
        BY <2>7 DEF Goes, Flows, First, Request
      <3>3. cpu' = "rs" /\ mc_split_cyc_sync' => r = "rdwr_rs"
        BY <2>2, <2>7 DEF Goes, Flows, Untouched, Request
      <3> QED
        BY <3>1, <3>2, <3>3 DEF Echo
    <2> QED
      BY <2>4, <2>5, <2>6, <2>7
  <1> QED
    BY <1>11, <1>12, <1>13, <1>14, <1>15, <1>16, <1>17, <1>18 DEF TurnChain, Amplified

(* The state of the processor, at the turn that follows.                   *)
LEMMA CpuOn ==
  ASSUME NEW x, NEW s \in Stage, NEW p \in Turn, Ticks(x, s, p),
         NEW r \in Turn, Goes(x, s, p, r)
  PROVE  CpuInv(r)'
  <1>1. CpuInv(p) /\ FlagInv(p) /\ StopInv(p)
    BY DEF Ticks, Now, TurnInv
  <1>2. Awaiting <=> cpu \in {"rd", "wr", "rdwr", "rs"}
    BY DEF Awaiting, Awaits, Request
  <1>3. mc_split_cyc_sync' <=> x.op = "at4" \/ (mc_split_cyc_sync /\ Untouched(x))
    BY FlagsGo
  <1>4. cpu' \in {"idle", "addressed", "trap", "paused"} => r = "rest"
    <2>1. cpu' = cpu /\ cpu' \in {"idle", "addressed", "trap", "paused"} => r = "rest"
      BY <1>1, <1>2 DEF Goes, CpuInv, Flows, Request
    <2>2. cpu' # cpu /\ cpu' \in {"idle", "addressed", "trap", "paused"} => r = "rest"
      BY <1>2 DEF Goes, Request
    <2> QED
      BY <2>1, <2>2
  <1>5. cpu' = "halted" => r = "rest" \/ (r \in Answering /\ rel' = "bad")
    <2>1. cpu' = "halted" /\ cpu # "halted" => r = "rest"
      BY <1>2 DEF Goes, Request
    <2>2. cpu = "halted" /\ mc_stop => rel = "bad"
      BY <1>1 DEF StopInv, Awaits, Request
    <2>3. cpu = "halted" /\ cpu' = "halted" /\ p = "rest" => r = "rest" \/ (r = "rs_t0" /\ mc_stop)
      BY <1>2 DEF Goes, Flows, Request
    <2>4. cpu = "halted" /\ cpu' = "halted" /\ p \in Answering => r \in Answering \cup {"rest"}
      BY <1>2 DEF Goes, Flows, Request, Answering
    <2>5. cpu = "halted" /\ cpu' = "halted" => rel' = rel
      BY <1>2 DEF Goes, Request
    <2> QED
      BY <1>1, <2>1, <2>2, <2>3, <2>4, <2>5 DEF CpuInv, Answering
  <1>6. cpu' = "keyed" => r \in {"rest", "mc_wr_rs"} \cup Answering
    <2>1. cpu = "keyed" => ~mc_stop
      BY <1>1 DEF StopInv, Awaits, Request
    <2>2. cpu' = "keyed" /\ cpu # "keyed" => r \in {"rest", "mc_wr_rs"}
      BY <1>2 DEF Goes, Request
    <2>3. cpu' = "keyed" /\ cpu = "keyed" => Flows(x, s, p, r)
      BY <1>2 DEF Goes, Request
    <2> QED
      BY <1>1, <2>1, <2>2, <2>3 DEF CpuInv, Flows, Answering
  <1>7. cpu' = "rd" => r \in (Settled \cup Ends) \cup {"rd_rq", "reading", "mai_rd_rs"}
    BY <1>1, <1>2 DEF Goes, CpuInv, FlagInv, Flows, First, Request, Settled, Asking, Ends, Answering
  <1>8. cpu' = "wr" => r \in (Settled \cup Ends) \cup {"wr_rq", "mc_wr_rs"}
    BY <1>1, <1>2 DEF Goes, CpuInv, FlagInv, Flows, First, Request, Settled, Asking, Ends, Answering
  <1>9. cpu' = "rdwr" => \/ r \in (Settled \cup Ends) \cup {"reading", "mai_rd_rs"}
                         \/ mc_split_cyc_sync' /\ r \in {"split_rd", "rd_rq"}
                         \/ ~mc_split_cyc_sync' /\ r = "rdwr_rq"
    BY <1>1, <1>2, <1>3 DEF Goes, CpuInv, FlagInv, Flows, First, Request, Settled, Asking, Ends,
                      Answering, Untouched
  <1>10. cpu' = "rs" => \/ r \in Answering \cup {"rdwr_rs", "mc_wr_rs"}
                        \/ /\ mc_split_cyc_sync'
                           /\ r \in Settled \cup {"stopped", "split_wr", "wr_rq"}
                        \/ ~mc_split_cyc_sync' /\ r = "rdwr_rs_D"
    BY <1>1, <1>2, <1>3 DEF Goes, CpuInv, FlagInv, StopInv, Flows, First, Request, Settled, Asking,
                      Ends, Answering, Untouched
  <1> QED
    BY <1>4, <1>5, <1>6, <1>7, <1>8, <1>9, <1>10 DEF CpuInv

(* A key is still slower, at the turn that follows.                        *)
LEMMA KeyOn ==
  ASSUME NEW x, NEW s \in Stage, NEW p \in Turn, Ticks(x, s, p),
         NEW r \in Turn, Goes(x, s, p, r)
  PROVE  KeyInv(r)'
  <1>1. CpuInv(p) /\ KeyInv(p) /\ BusInv(s, p) /\ TurnChain(p) /\ Typed
        /\ McSchedule(x, ToProcessor)
    BY DEF Ticks, Now, TurnInv, Moves, McClock
  <1>2. /\ rest \in Nat /\ due["rs_t0_D"] \in Nat /\ due["rs_t0_D"] <= 2
        /\ due["bus_mb"] \in Nat /\ KeyDelay \in Nat /\ KeyDelay >= 8
        /\ left["rs_D"] \in Nat /\ due["bus_wr_rs"] \in Nat
    BY <1>1, NowTyped, StagesOn, MemCycleAssumption DEF Ticks, Typed, McPulse, McDelay, Pulse, Delay
  <1>3. due'["rs_t0_D"] = IF p = "rs_t0" THEN 2
                          ELSE IF due["rs_t0_D"] = 0 THEN 0 ELSE due["rs_t0_D"] - 1
    BY <1>1, NowTyped, McPulsesGo DEF Follows, Amplified, McDelay, Ticks
  <1>4. left'["rs_D"] = IF act = 0 /\ is("bus_wr_rs") THEN 2 ELSE Count(left["rs_D"])
    BY <1>1, PulsesGo, OnTheBus DEF Ticks, Moves, ModuleClock, Starts, Delay
  <1>5. x.op = "key" => left["rs_D"] = 0 /\ ~is("bus_wr_rs")
    BY QuietMeans DEF Goes, Request, Ticks, Pulse, Delay, McPulse, McDelay, is
  <1> SUFFICES ASSUME cpu' = "keyed"
               PROVE  /\ r = "mc_wr_rs" => rest' >= 8
                      /\ r = "rs_t0" => rest' >= 7
                      /\ r = "rs_t0_D" => rest' >= 4 + due'["rs_t0_D"]
                      /\ r = "rs_t1" => rest' >= 4
                      /\ left'["rs_D"] > 0 => rest' >= 3 + left'["rs_D"]
    BY DEF KeyInv
  <1>6. CASE x.op = "key"
    <2>1. r \in {"mc_wr_rs", "rest"} /\ rest' = KeyDelay /\ left'["rs_D"] = 0
      BY <1>4, <1>5, <1>6 DEF Goes, Request, Count
    <2> QED
      BY <1>2, <2>1
  <1>7. CASE x.op # "key"
    <2>1. cpu = "keyed" /\ rest' = Count(rest) /\ Flows(x, s, p, r) /\ rest > 0
      BY <1>7 DEF Goes, Request, Awaiting, Awaits
    <2>2. p \in {"rest", "mc_wr_rs", "rs_t0", "rs_t0_D", "rs_t1"}
      BY <1>1, <2>1 DEF CpuInv, Answering
    <2>3. /\ r = "rs_t0" => p = "mc_wr_rs"
          /\ r = "rs_t0_D" => p = "rs_t0" \/ (p = "rs_t0_D" /\ due["rs_t0_D"] # 1)
          /\ r = "rs_t1" => p = "rs_t0_D" /\ due["rs_t0_D"] = 1
          /\ r # "mc_wr_rs"
      BY <2>1, <2>2 DEF Flows, is
    <2>4. p = "rs_t0_D" <=> due["rs_t0_D"] > 0
      BY <1>1 DEF TurnChain
    <2>6. is("bus_wr_rs") => p = "rs_t0_D" /\ due["rs_t0_D"] = 2
      BY <1>1, <2>2 DEF BusInv, is
    <2>7. /\ r = "rs_t0" => rest' >= 7
          /\ r = "rs_t0_D" => rest' >= 4 + due'["rs_t0_D"]
          /\ r = "rs_t1" => rest' >= 4
      BY <1>1, <1>2, <1>3, <2>1, <2>3, <2>4 DEF KeyInv, Count
    <2>8. left'["rs_D"] > 0 => rest' >= 3 + left'["rs_D"]
      BY <1>1, <1>2, <1>4, <2>1, <2>6 DEF KeyInv, Count
    <2> QED
      BY <2>3, <2>7, <2>8
  <1> QED
    BY <1>6, <1>7

(* The flip-flops of a request, at the turn that follows.                  *)
LEMMA FlagOn ==
  ASSUME NEW x, NEW s \in Stage, NEW p \in Turn, Ticks(x, s, p),
         NEW r \in Turn, Goes(x, s, p, r)
  PROVE  FlagInv(r)'
  <1>1. /\ CpuInv(p) /\ FlagInv(p) /\ StopInv(p) /\ ServeInv(s, p)
        /\ Typed /\ McSchedule(x, ToProcessor)
    BY DEF Ticks, Now, TurnInv, ServiceInv, Moves, McClock
  <1>2. Awaiting <=> cpu \in {"rd", "wr", "rdwr", "rs"}
    BY DEF Awaiting, Awaits, Request
  <1>3. /\ mc_rd' <=> p \in {"rd_rq", "rdwr_rq"}
                      \/ (p \notin {"wr_rq", "rs_t1"} /\ mc_rd /\ Untouched(x))
        /\ mc_wr' <=> p \in {"wr_rq", "rdwr_rq"} \/ (p # "rd_rq" /\ mc_wr /\ Untouched(x))
        /\ mc_rq' <=> p = "rq_set" \/ (p # "ack" /\ mc_rq /\ Untouched(x))
        /\ mc_stop_sync' <=> p = "rdwr_rq" \/ (mc_stop_sync /\ Untouched(x))
        /\ mc_split_cyc_sync' <=> x.op = "at4" \/ (mc_split_cyc_sync /\ Untouched(x))
    BY FlagsGo
  <1>4. ma' = IF x.op \in Request THEN x.addr ELSE ma
    BY AddressGoes
  <1>5. mc_rq' <=> r \in Asking
    BY <1>1, <1>3 DEF FlagInv, Goes, Flows, First, Request, Asking, Untouched
  <1>6. r \in Settled => /\ x.op = "none" /\ cpu' = cpu
                         /\ \/ p \in Settled \ {"illeg"}
                            \/ p \in {"rd_rq", "wr_rq", "rdwr_rq"}
    BY DEF Goes, Flows, First, Request, Settled, Asking
  <1>7. r \in Settled => /\ mc_rd' <=> cpu' \in {"rd", "rdwr"}
                         /\ mc_wr' <=> \/ cpu' \in {"wr", "rs"}
                                       \/ cpu' = "rdwr" /\ ~mc_split_cyc_sync'
    <2>1. CASE r \in Settled /\ p \in Settled
      BY <1>1, <1>3, <1>6, <2>1 DEF FlagInv, Untouched, Settled, Asking
    <2>2. CASE r \in Settled /\ p \in {"rd_rq", "wr_rq", "rdwr_rq"}
      <3>1. /\ p = "rd_rq" => cpu = "rd" \/ (cpu = "rdwr" /\ mc_split_cyc_sync)
            /\ p = "wr_rq" => cpu \in {"wr", "rs"}
            /\ p = "rdwr_rq" => cpu = "rdwr" /\ ~mc_split_cyc_sync
        BY <1>1, <2>2 DEF CpuInv, Settled, Asking, Ends, Answering, Typed, TypeOK, Awaits, Request,
                          Ticks, Now
      <3> QED
        BY <1>3, <1>6, <2>2, <3>1 DEF Untouched
    <2> QED
      BY <1>6, <2>1, <2>2
  <1>8. r \in {"reading", "mai_rd_rs"} => mc_rd'
    BY <1>1, <1>3 DEF FlagInv, Goes, Flows, First, Request, Untouched
  <1>9. r \in Asking \cup {"reading", "mai_rd_rs", "mc_wr_rs"} \cup Ends /\ cpu' \in Awaits
          => rel' # "bad"
    <2>1. SUFFICES ASSUME r \in Asking \cup {"reading", "mai_rd_rs", "mc_wr_rs"} \cup Ends,
                          cpu' \in Awaits
                   PROVE  rel' # "bad"
      OBVIOUS
    <2>2. /\ cpu' = cpu /\ rel' = rel
          /\ p \in Asking \cup {"reading", "mai_rd_rs", "mc_wr_rs"} \cup Ends
             \/ p \in {"rq_set", "rdwr_rs_D"}
      BY <1>1, <1>2, <2>1 DEF Goes, Flows, First, Request, Awaits, Asking, Ends, Answering
    <2>3. p = "rq_set" => rel # "bad"
      BY DEF Ticks, Now, TurnInv, TimeInv
    <2>4. p = "rdwr_rs_D" => cpu = "rs"
      BY <1>1, <2>1, <2>2 DEF CpuInv, Awaits, Request, Settled, Asking, Ends, Answering
    <2> QED
      BY <1>1, <2>1, <2>2, <2>3, <2>4 DEF FlagInv
  <1>10. cpu' = "rdwr" /\ ~mc_split_cyc_sync' /\ r # "rdwr_rq" => mc_stop_sync'
    BY <1>1, <1>2, <1>3 DEF FlagInv, CpuInv, Goes, First, Request, Untouched, Flows
  <1>11. cpu' = "trap" => rel' = "bad"
    <2>1. p = "illeg" => rel = "bad"
      BY DEF Ticks, Now, TurnInv, TimeInv
    <2> QED
      BY <1>1, <1>2, <2>1 DEF FlagInv, Goes, Request
  <1>12. cpu' \in {"paused", "rs"} => rel' # "bad"
    BY <1>1, <1>2 DEF FlagInv, Goes, Request, Ends, Answering, Awaits
  <1>13. r \in {"nxm", "nxm_rst"} => ma' \in Absent
    BY <1>1, <1>4, AnswersCome DEF FlagInv, Goes, Flows, First, Request
  <1>14. due'["nxm_rd"] > 0 <=> r = "ack" /\ mc_rd' /\ ma' \in Absent
    <2>1. Comes("nxm_rd", p = "nxm_rst" /\ mc_rd)
      BY <1>1, McPulsesGo, NowTyped DEF Comes, Ticks, Amplified
    <2>2. "nxm_rd" \in up => p = "ack"
      BY DEF Ticks, Now, TurnInv, FlagInv
    <2>3. r = "ack" <=> p \in {"nxm_rst", "mai_ack"}
      BY DEF Goes, Flows, First, Request
    <2>4. p \in {"nxm_rst", "mai_ack"} => x.op = "none"
      BY <1>1 DEF Goes, CpuInv
    <2> QED
      BY <1>1, <1>3, <1>4, <2>1, <2>2, <2>3, <2>4 DEF Comes, FlagInv, ServeInv, Request, Untouched
  <1>15. "nxm_rd" \in up' => r = "ack"
    <2>1. Comes("nxm_rd", p = "nxm_rst" /\ mc_rd)
      BY <1>1, McPulsesGo, NowTyped DEF Comes, Ticks, Amplified
    <2> QED
      BY <2>1 DEF Comes, Goes, Flows, First, Request
  <1> QED
    BY <1>5, <1>6, <1>7, <1>8, <1>9, <1>10, <1>11, <1>12, <1>13, <1>14, <1>15
    DEF FlagInv

(* The timers of a request, by turn.                                       *)
LEMMA TimersGo ==
  ASSUME NEW x, NEW s \in Stage, NEW p \in Turn, Ticks(x, s, p)
  PROVE  /\ due'["D0"] = IF p = "rq" THEN 2 ELSE Count(due["D0"])
         /\ due'["D1"] = IF p = "rq" THEN 7 ELSE Count(due["D1"])
         /\ due'["D2"] = IF p = "rq" THEN 10 ELSE Count(due["D2"])
         /\ due'["D3"] = IF p = "rq" THEN NxmDelay ELSE Count(due["D3"])
         /\ due'["mb_clr"] = IF p \in {"rd_rq", "rdwr_rq"} /\ "mb_clr" \notin up THEN 1 ELSE 0
         /\ "mb_clr" \in up' <=> p \in {"rd_rq", "rdwr_rq"}
         /\ due'["mb_clr_D"] = IF is("mb_clr") THEN 5 ELSE Count(due["mb_clr_D"])
         /\ due'["bus_wr_rs"] = IF p = "mc_wr_rs" THEN 2 ELSE Count(due["bus_wr_rs"])
         /\ due'["bus_mb"] = IF p = "mc_wr_rs" THEN 2 ELSE Count(due["bus_mb"])
         /\ due'["rs_t0_D"] = IF p = "rs_t0" THEN 2 ELSE Count(due["rs_t0_D"])
         /\ due'["rdwr_rs_D"] = IF p = "rdwr_rs" THEN 5 ELSE Count(due["rdwr_rs_D"])
         /\ \A q \in {"D0", "D1", "D2", "D3", "mb_clr", "mb_clr_D", "bus_wr_rs", "bus_mb",
                      "rs_t0_D", "rdwr_rs_D"} : due[q] \in Nat
         /\ due["mb_clr"] <= 1 /\ due["D2"] <= 10 /\ due["D3"] <= NxmDelay
         /\ due["bus_mb"] <= 2 /\ due["rs_t0_D"] <= 2
  <1>1. Typed /\ McSchedule(x, ToProcessor)
    BY DEF Ticks, Now, Moves, McClock
  <1>2. \A q \in Amplified : is(q) <=> q = p
    BY NowTyped DEF Ticks
  <1>3. /\ due'["D0"] = IF p = "rq" THEN 2 ELSE Count(due["D0"])
        /\ due'["D1"] = IF p = "rq" THEN 7 ELSE Count(due["D1"])
        /\ due'["D2"] = IF p = "rq" THEN 10 ELSE Count(due["D2"])
        /\ due'["D3"] = IF p = "rq" THEN NxmDelay ELSE Count(due["D3"])
    BY <1>1, <1>2, McPulsesGo DEF Follows, Amplified, McDelay, Count
  <1>4. /\ due'["mb_clr"] = IF p \in {"rd_rq", "rdwr_rq"} /\ "mb_clr" \notin up THEN 1 ELSE 0
        /\ "mb_clr" \in up' <=> p \in {"rd_rq", "rdwr_rq"}
        /\ due'["mb_clr_D"] = IF is("mb_clr") THEN 5 ELSE Count(due["mb_clr_D"])
    BY <1>1, <1>2, McPulsesGo DEF Comes, Follows, Amplified, McDelay, Count
  <1>5. /\ due'["bus_wr_rs"] = IF p = "mc_wr_rs" THEN 2 ELSE Count(due["bus_wr_rs"])
        /\ due'["bus_mb"] = IF p = "mc_wr_rs" THEN 2 ELSE Count(due["bus_mb"])
        /\ due'["rs_t0_D"] = IF p = "rs_t0" THEN 2 ELSE Count(due["rs_t0_D"])
        /\ due'["rdwr_rs_D"] = IF p = "rdwr_rs" THEN 5 ELSE Count(due["rdwr_rs_D"])
    BY <1>1, <1>2, McPulsesGo DEF Comes, Follows, Amplified, McDelay, Count
  <1>6. /\ \A q \in {"D0", "D1", "D2", "D3", "mb_clr", "mb_clr_D", "bus_wr_rs", "bus_mb",
                     "rs_t0_D", "rdwr_rs_D"} : due[q] \in Nat
        /\ due["mb_clr"] <= 1 /\ due["D2"] <= 10 /\ due["D3"] <= NxmDelay
        /\ due["bus_mb"] <= 2 /\ due["rs_t0_D"] <= 2
    BY NowTyped DEF Ticks, McPulse, McDelay
  <1> QED
    BY <1>3, <1>4, <1>5, <1>6

(* The memory stop, at the turn that follows.                              *)
LEMMA StopOn ==
  ASSUME NEW x, NEW s \in Stage, NEW p \in Turn, Ticks(x, s, p),
         NEW r \in Turn, Goes(x, s, p, r)
  PROVE  StopInv(r)'
  <1>1. /\ CpuInv(p) /\ FlagInv(p) /\ StopInv(p) /\ TimeInv(p)
        /\ ServeInv(s, p) /\ FrontInv(s, p) /\ StageInv(s)
    BY DEF Ticks, Now, TurnInv, ServiceInv
  <1>2. Awaiting <=> cpu \in {"rd", "wr", "rdwr", "rs"}
    BY DEF Awaiting, Awaits, Request
  <1>3. /\ mc_stop' <=> (is("D2") /\ x.stop)
                        \/ (p \notin {"rq", "rs_t0"} /\ mc_stop /\ Untouched(x))
        /\ mc_split_cyc_sync' <=> x.op = "at4" \/ (mc_split_cyc_sync /\ Untouched(x))
    BY FlagsGo
  <1>4. /\ due'["D2"] = IF p = "rq" THEN 10 ELSE Count(due["D2"])
        /\ due["D2"] \in Nat /\ due["D3"] \in Nat
        /\ NxmDelay \in Nat /\ NxmDelay >= 100 /\ due["D2"] = Since(10)
    BY <1>1, TimersGo, NowTyped DEF Ticks, TimeInv
  <1>5. ma' = IF x.op \in Request THEN x.addr ELSE ma
    BY AddressGoes
  <1>6. is("D2") /\ x.stop => /\ due["D2"] = 1 /\ x.op = "none" /\ cpu' = cpu /\ rel' = rel
                              /\ Flows(x, s, p, r) /\ (Awaiting \/ cpu = "halted" \/ rest > 0)
                              /\ p \in Timed \/ (p = "rest" /\ cpu = "trap")
                                 \/ (p = "rest" /\ cpu = "halted" /\ rel = "bad")
    <2> SUFFICES ASSUME is("D2"), x.stop
                 PROVE  /\ due["D2"] = 1 /\ x.op = "none" /\ cpu' = cpu /\ rel' = rel
                        /\ Flows(x, s, p, r) /\ (Awaiting \/ cpu = "halted" \/ rest > 0)
                        /\ p \in Timed \/ (p = "rest" /\ cpu = "trap")
                           \/ (p = "rest" /\ cpu = "halted" /\ rel = "bad")
      OBVIOUS
    <2>1. due["D2"] = 1 /\ due["D2"] > 0
      BY DEF is
    <2>2. /\ x.op = "none" /\ cpu' = cpu /\ rel' = rel
          /\ Flows(x, s, p, r) /\ (Awaiting \/ cpu = "halted" \/ rest > 0)
      BY DEF Goes
    <2>3. p # "illeg"
      BY <1>1, <1>4, <2>1 DEF TimeInv, Since
    <2>4. ~(cpu = "idle" /\ rest = 0)
      BY <1>2, <2>2
    <2>5. \/ p \in Timed \cup {"illeg"} \/ cpu = "trap"
          \/ cpu = "halted" /\ rel = "bad" /\ p = "rest"
      BY <1>1, <2>1, <2>4 DEF StopInv
    <2>6. cpu = "trap" => p = "rest"
      BY <1>1 DEF CpuInv
    <2> QED
      BY <2>1, <2>2, <2>3, <2>5, <2>6
  <1>7. p \in Timed \cup {"rq"} => cpu \in Awaits
    BY <1>1 DEF CpuInv, Timed, Answering, Awaits, Request, Ticks, Now, Typed, TypeOK
  <1>8. Quiet => due["D2"] = 0 /\ due["D3"] = 0
    BY QuietMeans DEF Ticks, McPulse, McDelay
  <1>9. mc_stop' => due'["D2"] = 0
    <2>1. is("D2") /\ x.stop => p # "rq"
      BY <1>6 DEF Timed
    <2> QED
      BY <1>1, <1>3, <1>4, <1>6, <2>1 DEF StopInv, Count
  <1>10. mc_stop' => cpu' \in Awaits \cup {"trap"} \/ (cpu' = "halted" /\ rel' = "bad")
    <2>1. CASE is("D2") /\ x.stop
      BY <1>6, <1>7, <2>1
    <2>2. CASE mc_stop /\ Untouched(x)
      <3>1. p \notin {"rs_t1", "illeg"}
        BY <1>1, <2>2 DEF StopInv
      <3>2. cpu \in Awaits \cup {"trap"} \/ (cpu = "halted" /\ rel = "bad")
        BY <1>1, <2>2 DEF StopInv
      <3>3. CASE cpu' = cpu
        <4>1. rel' = rel
          BY <1>2, <3>2, <3>3, <2>2 DEF Goes, Untouched, Awaits, Request
        <4> QED
          BY <3>2, <3>3, <4>1
      <3>4. CASE cpu' # cpu
        <4>1. cpu = "trap" /\ cpu' = "halted" /\ rel' = rel
          BY <1>2, <3>1, <3>2, <3>4, <2>2 DEF Goes, Untouched, Awaits, Request
        <4> QED
          BY <1>1, <4>1 DEF FlagInv
      <3> QED
        BY <3>3, <3>4
    <2> QED
      BY <1>3, <2>1, <2>2
  <1>11. cpu' = "rs" /\ ~mc_split_cyc_sync' => ~mc_stop'
    <2>1. cpu = "paused" => ~mc_stop
      BY <1>1 DEF StopInv, Awaits, Request
    <2>2. cpu' = "rs" => x.op \in {"rs", "none", "cont"} /\ (cpu = "paused" \/ cpu = "rs")
      BY <1>2 DEF Goes, Request
    <2>3. cpu = "rs" /\ ~mc_split_cyc_sync => p \notin Timed
      BY <1>1 DEF CpuInv, Timed, Settled, Asking, Answering
    <2> QED
      BY <1>1, <1>3, <1>6, <2>1, <2>2, <2>3 DEF StopInv, Untouched
  <1>12. r = "stopped" => mc_stop'
    BY <1>1, <1>3 DEF Goes, Flows, First, Request, StopInv, Untouched
  <1>13. r \in {"rs_t0_D", "rs_t1", "nxm", "nxm_rst", "illeg"} => ~mc_stop'
    <2>1. SUFFICES ASSUME r \in {"rs_t0_D", "rs_t1", "nxm", "nxm_rst", "illeg"}
                   PROVE  ~mc_stop'
      OBVIOUS
    <2>2. /\ x.op = "none" /\ Flows(x, s, p, r)
          /\ p \in {"rs_t0", "rs_t0_D", "asking", "nxm", "delay"}
      BY <2>1 DEF Goes, First, Request, Flows
    <2>3. p = "rs_t0" \/ ~mc_stop
      <3>1. p = "delay" => is("D1")
        BY <2>1, <2>2 DEF Flows
      <3>2. p = "delay" => due["D2"] > 0
        BY <1>1, <1>4, <3>1 DEF TimeInv, Since, is
      <3>3. p = "asking" => ~mc_stop
        BY <2>1, <2>2 DEF Flows
      <3> QED
        BY <1>1, <1>4, <2>2, <3>2, <3>3 DEF StopInv
    <2>4. ~(is("D2") /\ x.stop)
      <3>1. p = "delay" => is("D1")
        BY <2>1, <2>2 DEF Flows
      <3>2. p = "asking" => is("D3")
        BY <2>1, <2>2 DEF Flows
      <3>3. p \in {"delay", "asking"} => due["D2"] # 1
        BY <1>1, <1>4, <3>1, <3>2 DEF TimeInv, Since, is
      <3> QED
        BY <1>6, <2>2, <3>3 DEF Timed
    <2> QED
      BY <1>3, <2>3, <2>4
  <1>14. r = "ack" /\ ma' \in Absent => ~mc_stop'
    <2>1. r = "ack" => p \in {"mai_ack", "nxm_rst"} /\ x.op = "none"
      BY DEF Goes, Flows, First, Request
    <2>2. p = "mai_ack" => ma \notin Absent
      BY <1>1 DEF ServeInv
    <2> QED
      BY <1>1, <1>3, <1>5, <1>6, <2>1, <2>2 DEF StopInv, Request, Timed
  <1>15. r = "mc_wr_rs" /\ ma' \in Absent => ~mc_stop'
    <2>1. r = "mc_wr_rs" => \/ p = "ack" /\ x.op = "none"
                            \/ p = "rdwr_rs_D" /\ x.op = "none"
                            \/ x.op = "key"
      BY DEF Goes, Flows, First, Request
    <2>2. p = "rdwr_rs_D" => ~mc_stop
      BY <1>1 DEF CpuInv, StopInv, Settled, Asking, Ends, Answering, Typed, TypeOK, Awaits,
                  Request, Ticks, Now
    <2>3. x.op = "key" => ~is("D2")
      BY <1>8 DEF Goes, Request, is
    <2> QED
      BY <1>1, <1>3, <1>5, <1>6, <2>1, <2>2, <2>3 DEF StopInv, Request, Timed, Untouched
  <1>16. due'["D2"] > 0 => \/ r \in Timed \cup {"illeg"}
                           \/ cpu' = "trap" /\ due'["D2"] <= 2
                           \/ cpu' = "halted" /\ rel' = "bad" /\ r = "rest"
                           \/ cpu' = "idle" /\ rest' = 0 /\ due'["D2"] = 1
    <2>1. CASE p = "rq"
      <3>1. r = "delay"
        BY <1>1, <2>1 DEF Goes, Flows, CpuInv
      <3> QED
        BY <3>1 DEF Timed
    <2>2. CASE p # "rq" /\ due["D2"] > 1
      <3>1. due'["D2"] = due["D2"] - 1 /\ ~Quiet
        BY <1>4, <1>8, <2>2 DEF Count
      <3>2. CASE p \in Timed
        <4>1. s = "t1a" => due["D3"] <= NxmDelay - 10
          BY <1>1 DEF StageInv, OpenInv, Opening, FrontInv
        <4>2. due["D3"] > NxmDelay - 10
          BY <1>4, <2>2 DEF Since
        <4>3. Flows(x, s, p, r)
          BY <1>1, <3>1, <3>2 DEF Goes, CpuInv, Timed, Answering
        <4>4. ~is("D3") /\ s # "t1a"
          BY <1>4, <4>1, <4>2 DEF is
        <4>5. r \in Timed \cup {"illeg"}
          BY <3>2, <4>3, <4>4 DEF Flows, Timed
        <4> QED
          BY <4>5
      <3>3. CASE p = "illeg"
        <4>1. cpu' = "trap"
          BY <1>1, <3>1, <3>3 DEF Goes, Flows, CpuInv
        <4>2. due["D2"] = 3
          BY <1>1, <1>4, <3>3 DEF TimeInv, Since
        <4> QED
          BY <3>1, <4>1, <4>2
      <3>4. CASE cpu = "trap" /\ due["D2"] <= 2
        <4>1. p = "rest" /\ rel = "bad" /\ due'["D2"] = 1
          BY <1>1, <1>4, <2>2, <3>1, <3>4 DEF CpuInv, FlagInv
        <4>2. \/ cpu' = "trap" 
              \/ cpu' = "halted" /\ rel' = rel /\ r = "rest"
              \/ cpu' = "idle" /\ rest' = 0
          BY <1>2, <3>1, <3>4, <4>1 DEF Goes, Request
        <4> QED
          BY <4>1, <4>2
      <3>5. CASE cpu = "halted" /\ rel = "bad" /\ p = "rest"
        <4>1. cpu' = "halted" /\ rel' = "bad" /\ r = "rest"
          BY <1>2, <3>1, <3>5 DEF Goes, Flows, Request
        <4> QED
          BY <4>1
      <3> QED
        BY <1>1, <1>4, <2>2, <3>2, <3>3, <3>4, <3>5 DEF StopInv
    <2> QED
      BY <1>4, <2>1, <2>2 DEF Count
  <1> QED
    BY <1>9, <1>10, <1>11, <1>12, <1>13, <1>14, <1>15, <1>16 DEF StopInv

(* Where each turn comes from.                                             *)
LEMMA ComesFrom ==
  ASSUME NEW x, NEW s \in Stage, NEW p \in Turn, Ticks(x, s, p),
         NEW r \in Turn, Goes(x, s, p, r)
  PROVE  /\ r = "rq" <=> p \in {"rd_rq", "wr_rq", "rdwr_rq"}
         /\ r = "delay" <=> p = "rq" \/ (p = "delay" /\ ~(is("D0") /\ rel = "inh")
                                         /\ ~(is("D1") /\ rel # "inh"))
         /\ r = "rq_set" <=> p = "delay" /\ ((is("D0") /\ rel = "inh") \/ (is("D1") /\ rel = "ok"))
         /\ r = "illeg" <=> p = "delay" /\ is("D1") /\ rel = "bad"
         /\ r = "asking" => \/ p \in {"rq_set", "nxm"}
                            \/ p = "asking" /\ s # "t1a" /\ ~(is("D3") /\ ~mc_stop)
         /\ p = "rq_set" => r = "asking"
         /\ p = "asking" /\ x.op # "key" /\ s # "t1a" /\ ~(is("D3") /\ ~mc_stop) => r = "asking"
         /\ r = "mai_ack" <=> s = "t1a"
         /\ r = "nxm" <=> p = "asking" /\ s # "t1a" /\ is("D3") /\ ~mc_stop
         /\ r = "nxm_rst" <=> p = "nxm" /\ ~x.disable
         /\ r = "ack" <=> p \in {"mai_ack", "nxm_rst"}
         /\ r = "reading" <=> \/ p = "ack" /\ mc_rd /\ ma \notin Absent
                              \/ p = "reading" /\ ~(left["rd_rs"] > 0)
         /\ r = "mai_rd_rs" <=> left["rd_rs"] > 0
         /\ r = "rs_t1" <=> p = "rs_t0_D" /\ is("rs_t0_D")
         /\ p \in Settled \cup {"reading", "mai_rd_rs"} => x.op = "none" \/ (x.op = "key" /\ p = "asking")
         /\ x.op \in Request <=> r \in {"rdwr_rq", "split_rd"} \/ (r = "rd_rq" /\ p # "split_rd")
                                  \/ (r = "wr_rq" /\ p # "split_wr")
         /\ p # "rest" => x.op \notin {"it0", "at4", "rs"} \cup Request
         /\ x.op = "key" => r \in {"rest", "mc_wr_rs"}
         /\ r \in Settled => rel' = rel /\ cpu' = cpu /\ rest' = Count(rest)
  <1>1. Quiet => s # "t1a" /\ ~is("D3") /\ ~is("D0") /\ ~is("D1")
    BY QuietMeans DEF Ticks, is, McPulse, McDelay
  <1>2. rel \in {"inh", "ok", "bad"}
    BY DEF Ticks, Now, Typed, TypeOK
  <1>3. p # "delay" => ~(is("D0") /\ rel = "inh") /\ ~(is("D1") /\ rel # "inh")
    <2>1. NxmDelay \in Nat /\ NxmDelay >= 100 /\ due["D3"] \in Nat /\ TimeInv(p)
      BY NowTyped DEF Ticks, McPulse, McDelay, Now, TurnInv
    <2> QED
      BY <2>1 DEF TimeInv, Since, Timed, is
  <1>4. /\ r = "rq" <=> p \in {"rd_rq", "wr_rq", "rdwr_rq"}
        /\ r = "delay" <=> p = "rq" \/ (p = "delay" /\ ~(is("D0") /\ rel = "inh")
                                        /\ ~(is("D1") /\ rel # "inh"))
        /\ r = "rq_set" <=> p = "delay" /\ ((is("D0") /\ rel = "inh") \/ (is("D1") /\ rel = "ok"))
        /\ r = "illeg" <=> p = "delay" /\ is("D1") /\ rel = "bad"
    BY <1>1, <1>2 DEF Goes, Flows, First, Request
  <1>5. /\ r = "asking" => \/ p \in {"rq_set", "nxm"}
                           \/ p = "asking" /\ s # "t1a" /\ ~(is("D3") /\ ~mc_stop)
        /\ p = "rq_set" => r = "asking"
        /\ p = "asking" /\ x.op # "key" /\ s # "t1a" /\ ~(is("D3") /\ ~mc_stop) => r = "asking"
    BY <1>1 DEF Goes, Flows, First, Request
  <1>6. /\ r = "mai_ack" <=> s = "t1a"
        /\ r = "nxm" <=> p = "asking" /\ s # "t1a" /\ is("D3") /\ ~mc_stop
    BY <1>1, AnswersCome DEF Goes, Flows, First, Request
  <1>7. /\ r = "nxm_rst" <=> p = "nxm" /\ ~x.disable
        /\ r = "ack" <=> p \in {"mai_ack", "nxm_rst"}
        /\ r = "reading" <=> \/ p = "ack" /\ mc_rd /\ ma \notin Absent
                             \/ p = "reading" /\ ~(left["rd_rs"] > 0)
    BY DEF Goes, Flows, First, Request
  <1>8. /\ r = "mai_rd_rs" <=> left["rd_rs"] > 0
        /\ r = "rs_t1" <=> p = "rs_t0_D" /\ is("rs_t0_D")
    BY AnswersCome DEF Goes, Flows, First, Request
  <1>9. /\ p \in Settled \cup {"reading", "mai_rd_rs"}
             => x.op = "none" \/ (x.op = "key" /\ p = "asking")
        /\ p # "rest" => x.op \notin {"it0", "at4", "rs"} \cup Request
        /\ x.op = "key" => r \in {"rest", "mc_wr_rs"}
        /\ r \in Settled => rel' = rel /\ cpu' = cpu /\ rest' = Count(rest)
    <2>1. CpuInv(p)
      BY DEF Ticks, Now, TurnInv
    <2> QED
      BY <2>1 DEF Goes, Flows, CpuInv, First, Request, Settled, Asking
  <1>10. x.op \in Request <=> \/ r \in {"rdwr_rq", "split_rd"} \/ (r = "rd_rq" /\ p # "split_rd")
                              \/ r = "wr_rq" /\ p # "split_wr"
    BY DEF Goes, Flows, First, Request
  <1> QED
    BY <1>4, <1>5, <1>6, <1>7, <1>8, <1>9, <1>10

(* The timer, at the turn that follows.                                    *)
LEMMA TimeOn ==
  ASSUME NEW x, NEW s \in Stage, NEW p \in Turn, Ticks(x, s, p),
         NEW r \in Turn, Goes(x, s, p, r)
  PROVE  TimeInv(r)'
  <1>1. TimeInv(p) /\ FrontInv(s, p) /\ StageInv(s)
    BY DEF Ticks, Now, TurnInv, ServiceInv
  <1>2. /\ due'["D0"] = IF p = "rq" THEN 2 ELSE Count(due["D0"])
        /\ due'["D1"] = IF p = "rq" THEN 7 ELSE Count(due["D1"])
        /\ due'["D2"] = IF p = "rq" THEN 10 ELSE Count(due["D2"])
        /\ due'["D3"] = IF p = "rq" THEN NxmDelay ELSE Count(due["D3"])
        /\ \A q \in {"D0", "D1", "D2", "D3", "mb_clr", "mb_clr_D"} : due[q] \in Nat
        /\ due["mb_clr"] <= 1 /\ due["D3"] <= NxmDelay
        /\ NxmDelay \in Nat /\ NxmDelay >= 100
    BY TimersGo, NowTyped DEF Ticks
  <1>3. /\ due'["mb_clr"] = IF p \in {"rd_rq", "rdwr_rq"} /\ "mb_clr" \notin up THEN 1 ELSE 0
        /\ "mb_clr" \in up' <=> p \in {"rd_rq", "rdwr_rq"}
        /\ due'["mb_clr_D"] = IF is("mb_clr") THEN 5 ELSE Count(due["mb_clr_D"])
    BY TimersGo
  <1>4. mc_rd' <=> p \in {"rd_rq", "rdwr_rq"}
                   \/ (p \notin {"wr_rq", "rs_t1"} /\ mc_rd /\ Untouched(x))
    BY FlagsGo
  <1>5. s = "t1a" => p = "asking" /\ due["D3"] <= NxmDelay - 10 /\ due["D3"] >= 4
    BY <1>1 DEF StageInv, OpenInv, Opening, FrontInv
  <1>6. x.op = "key" => due["D3"] = 0 /\ due["mb_clr_D"] = 0 /\ due["mb_clr"] = 0
    BY QuietMeans DEF Ticks, McPulse, McDelay, Goes, Request
  <1>7. rel \in {"inh", "ok", "bad"}
    BY DEF Ticks, Now, Typed, TypeOK
  <1>8. r \in Settled => rel' = rel
    BY ComesFrom
  <1>21. /\ r = "delay" => p = "rq" \/ (p = "delay" /\ ~(due["D0"] = 1 /\ rel = "inh")
                                       /\ ~(due["D1"] = 1 /\ rel # "inh"))
         /\ r = "rq_set" => p = "delay" /\ ((due["D0"] = 1 /\ rel = "inh")
                                             \/ (due["D1"] = 1 /\ rel = "ok"))
         /\ r = "illeg" => p = "delay" /\ due["D1"] = 1 /\ rel = "bad"
    BY ComesFrom DEF is
  <1>22. /\ r \in {"delay", "rq_set", "illeg"} => rel' = rel
         /\ r = "mai_ack" => s = "t1a"
         /\ r = "nxm" => p = "asking" /\ due["D3"] = 1
         /\ r = "nxm_rst" => p = "nxm"
         /\ r = "ack" => p \in {"mai_ack", "nxm_rst"}
    BY <1>8, ComesFrom DEF is, Settled
  <1>23. /\ due["D0"] = Since(2) /\ due["D1"] = Since(7)
         /\ p = "delay" => due["D3"] > NxmDelay - IF rel = "inh" THEN 2 ELSE 7
    BY <1>1 DEF TimeInv
  <1>9. /\ due'["D0"] = Since(2)' /\ due'["D1"] = Since(7)' /\ due'["D2"] = Since(10)'
    BY <1>1, <1>2 DEF TimeInv, Since, Count
  <1>10. r = "delay" => due'["D3"] > NxmDelay - IF rel' = "inh" THEN 2 ELSE 7
    BY <1>2, <1>7, <1>21, <1>22, <1>23 DEF Since, Count
  <1>11. r = "rq_set" => rel' # "bad" /\ due'["D3"] = NxmDelay - IF rel' = "inh" THEN 2 ELSE 7
    BY <1>2, <1>7, <1>21, <1>22, <1>23 DEF Since, Count
  <1>12. r = "illeg" => rel' = "bad" /\ due'["D3"] = NxmDelay - 7
    BY <1>2, <1>7, <1>21, <1>22, <1>23 DEF Since, Count
  <1>13. r = "asking" => due'["D3"] <= NxmDelay - IF rel' = "inh" THEN 3 ELSE 8
    <2>1. r = "asking" => p \in {"rq_set", "nxm", "asking"} /\ rel' = rel
      BY <1>8, ComesFrom DEF Settled, Asking
    <2> QED
      BY <1>1, <1>2, <2>1 DEF TimeInv, Count
  <1>14. r \notin Timed \cup {"illeg"} => due'["D3"] <= NxmDelay - 8
    <2>1. r \notin Timed \cup {"illeg"} =>
            p \notin {"rq", "delay", "rq_set"} /\ (p = "asking" => s = "t1a" \/ is("D3") \/ x.op = "key")
      BY <1>7, ComesFrom DEF Timed
    <2>2. p \notin {"rq", "delay", "rq_set", "asking"} => due["D3"] <= NxmDelay - 7
      BY <1>1, <1>2 DEF TimeInv, Timed
    <2>3. p = "illeg" => due["D3"] = NxmDelay - 7
      BY <1>1 DEF TimeInv
    <2>4. p \notin {"rq", "delay", "rq_set", "asking", "illeg"} => due["D3"] <= NxmDelay - 8
      BY <1>1 DEF TimeInv, Timed
    <2> QED
      BY <1>2, <1>5, <1>6, <2>1, <2>2, <2>3, <2>4 DEF Count, is
  <1>15. r \in {"nxm", "nxm_rst"} => due'["D3"] = 0
    BY <1>1, <1>2, <1>22 DEF TimeInv, Count
  <1>16. r = "mai_ack" => due'["D3"] >= 3
    BY <1>2, <1>5, <1>22 DEF Count
  <1>17. r = "ack" => due'["D3"] # 1
    BY <1>1, <1>2, <1>22 DEF TimeInv, Count
  <1>18. due'["mb_clr"] > 0 <=> r = "rq" /\ mc_rd'
    BY <1>1, <1>3, <1>4, ComesFrom DEF TimeInv
  <1>19. "mb_clr" \in up' => r = "rq"
    BY <1>3, ComesFrom
  <1>20. due'["mb_clr_D"] = IF r \in Timed /\ mc_rd' THEN Since(5)' ELSE 0
    <2>1. CASE p = "rq"
      <3>1. r = "delay" /\ x.op = "none"
        BY <2>1, ComesFrom DEF Settled
      <3>2. mc_rd' <=> mc_rd
        BY <1>4, <2>1, <3>1 DEF Untouched, Ticks, Now, Typed
      <3>3. due["mb_clr"] = (IF mc_rd THEN 1 ELSE 0) /\ due["mb_clr_D"] = 0
        BY <1>1, <1>2, <2>1 DEF TimeInv, Timed
      <3>4. Since(5)' = 5
        BY <1>2, <2>1 DEF Since
      <3> QED
        BY <1>2, <1>3, <3>1, <3>2, <3>3, <3>4 DEF is, Timed, Count
    <2>2. CASE p # "rq"
      <3>1. due'["mb_clr_D"] = Count(due["mb_clr_D"])
        BY <1>1, <1>2, <1>3, <2>2 DEF TimeInv, is
      <3>2. CASE r \in Timed /\ p \in Timed
        <4>1. x.op = "none" /\ p \notin {"wr_rq", "rs_t1", "rd_rq", "rdwr_rq"}
          BY <3>2, ComesFrom DEF Settled, Asking, Timed
        <4>2. mc_rd' <=> mc_rd
          BY <1>4, <4>1 DEF Untouched
        <4>3. Since(5)' = Count(Since(5))
          BY <1>2, <2>2 DEF Since, Count
        <4>4. due["mb_clr_D"] = IF mc_rd THEN Since(5) ELSE 0
          BY <1>1, <3>2 DEF TimeInv
        <4> QED
          BY <3>1, <3>2, <4>2, <4>3, <4>4 DEF Count
      <3>3. CASE r \in Timed /\ p \notin Timed
        <4>1. p = "nxm"
          BY <2>2, <3>3, ComesFrom DEF Timed
        <4>2. Since(5)' = 0
          BY <1>1, <1>2, <2>2, <4>1 DEF TimeInv, Since, Count
        <4>3. due["mb_clr_D"] = 0
          BY <1>1, <3>3 DEF TimeInv
        <4> QED
          BY <3>1, <4>2, <4>3 DEF Count
      <3>4. CASE r \notin Timed /\ p \in Timed
        <4>1. (p = "delay" /\ is("D1")) \/ (p = "asking" /\ (s = "t1a" \/ is("D3") \/ x.op = "key"))
          BY <1>7, <3>4, ComesFrom DEF Timed
        <4>2. Since(5) = 0
          BY <1>1, <1>2, <1>5, <1>6, <4>1 DEF TimeInv, Since, is
        <4>3. due["mb_clr_D"] = 0
          BY <1>1, <3>4, <4>2 DEF TimeInv
        <4> QED
          BY <3>1, <3>4, <4>3 DEF Count
      <3>5. CASE r \notin Timed /\ p \notin Timed
        <4>1. due["mb_clr_D"] = 0
          BY <1>1, <3>5 DEF TimeInv
        <4> QED
          BY <3>1, <3>5, <4>1 DEF Count
      <3> QED
        BY <3>2, <3>3, <3>4, <3>5
    <2> QED
      BY <2>1, <2>2
  <1> QED
    BY <1>9, <1>10, <1>11, <1>12, <1>13, <1>14, <1>15, <1>16, <1>17, <1>18, <1>19, <1>20
    DEF TimeInv

(***************************************************************************)
(* The module beside its chain                                             *)
(***************************************************************************)

(* The pulses of the module beside the chain, and who it serves.           *)
LEMMA SideGoes ==
  ASSUME NEW x, NEW s \in Stage, NEW p \in Turn, Ticks(x, s, p)
  PROVE  /\ left'["t0"] = (IF Connected /\ "t0" \notin high THEN 1 ELSE 0)
         /\ "t0" \in high' <=> Connected
         /\ left'["t0_D"] = (IF left["t0"] > 0 THEN 5 ELSE Count(left["t0_D"]))
         /\ left'["t5"] = (IF on("t3_D1") /\ "t5" \notin high THEN 1 ELSE 0)
         /\ "t5" \in high' <=> on("t3_D1")
         /\ left'["addr_ack"] = (IF s = "t1b" /\ act # NoPort /\ "addr_ack" \notin high
                                 THEN 1 ELSE 0)
         /\ "addr_ack" \in high' <=> s = "t1b" /\ act # NoPort
         /\ left'["stb"] = (IF stb_sync /\ stb_done /\ "stb" \notin high THEN 1 ELSE 0)
         /\ left'["rd_rs"] = (IF left["stb"] > 0 /\ "rd_rs" \notin high THEN 1 ELSE 0)
         /\ "rd_rs" \in high' <=> left["stb"] > 0
         /\ left'["rs_D"] = (IF act = 0 /\ is("bus_mb") THEN 2 ELSE Count(left["rs_D"]))
         /\ left'["proc_rs"] = (IF proc_rs /\ "proc_rs" \notin high THEN 1 ELSE 0)
         /\ "proc_rs" \in high' <=> proc_rs
         /\ left'["state_clr"] = (IF ((s = "t3" /\ ~cma_wr_rq) \/ left["proc_rs"] > 0)
                                     /\ "state_clr" \notin high THEN 1 ELSE 0)
         /\ "state_clr" \in high' <=> (s = "t3" /\ ~cma_wr_rq) \/ left["proc_rs"] > 0
         /\ act' = (IF Connected THEN 0 ELSE IF left["state_clr"] > 0 THEN NoPort ELSE act)
         /\ await_rq' <=> \/ left["t5"] > 0 \/ (left["t0_D"] = 1 /\ act = NoPort)
                          \/ ~(left["t0"] > 0) /\ await_rq
         /\ rq_sync' <=> ~on("t2") /\ ((left["t0_D"] = 1 /\ act # NoPort) \/ rq_sync)
         /\ proc_rs' <=> on("rs_D") \/ (s # "t1b" /\ proc_rs)
         /\ act \in {0, NoPort}
  <1>1. /\ Typed /\ Schedule(ToModule) /\ Moves(x) /\ Clocks(x, s) /\ cpu # "off"
        /\ PowerInv(s) /\ BusInv(s, p) /\ act \in {0, NoPort} /\ s # "start"
    <2>1. PowerInv(s) /\ PortInv(s, p) /\ cpu # "off"
      BY DEF Ticks, Now, StageInv, ServiceInv
    <2>2. act \in {0, NoPort} /\ s # "start"
      BY <2>1 DEF PowerInv, PortInv
    <2> QED
      BY <2>1, <2>2 DEF Ticks, Now, Moves, ModuleClock, TurnInv
  <1>2. /\ \A q \in Pulse : left[q] \in Nat /\ left[q] <= Delay[q]
        /\ on("t1b") <=> s = "t1b"
        /\ on("t3") <=> s = "t3"
        /\ ~on("start") /\ ~(left["pwr_t2"] > 0) /\ ~(left["pwr_t3"] > 0)
    <2>1. \A q \in {"t1b", "t3", "start"} : on(q) <=> q = s
      BY <1>1, StagesOn
    <2>2. ~(left["pwr_t2"] > 0) /\ ~(left["pwr_t3"] > 0)
      BY <1>1 DEF PowerInv, Powering
    <2> QED
      BY <1>1, <2>1, <2>2, StagesOn
  <1>3. \A q \in {"t0", "t5", "stb", "proc_rs", "state_clr", "addr_ack", "rd_rs"} :
          left[q] \in Nat /\ (on(q) <=> left[q] > 0)
    <2>1. \A q \in {"t0", "t5", "stb", "proc_rs", "state_clr", "addr_ack", "rd_rs"} :
            q \in Pulse /\ Delay[q] = 1
      BY DEF Pulse, Delay
    <2> QED
      BY <1>2, <2>1 DEF on
  <1>4. /\ Requests(ToModule) # {} <=> Connected
        /\ rs_set(ToModule) <=> act = 0 /\ is("bus_mb")
    BY <1>1, OnTheBus DEF BusInv, is
  <1>5. /\ Rises("t0", Connected) /\ Starts("t0_D", left["t0"] > 0)
        /\ Rises("t5", on("t3_D1")) /\ Rises("addr_ack", s = "t1b" /\ act # NoPort)
        /\ Rises("stb", stb_sync /\ stb_done) /\ Rises("rd_rs", left["stb"] > 0)
        /\ Starts("rs_D", act = 0 /\ is("bus_mb")) /\ Rises("proc_rs", proc_rs)
        /\ Rises("state_clr", (s = "t3" /\ ~cma_wr_rq) \/ left["proc_rs"] > 0)
    <2>1. /\ Rises("t0", Requests(ToModule) # {}) /\ Starts("t0_D", on("t0"))
          /\ Rises("t5", on("start") \/ on("t3_D1"))
          /\ Rises("addr_ack", on("t1b") /\ act # NoPort)
          /\ Rises("stb", stb_sync /\ stb_done) /\ Rises("rd_rs", on("stb"))
          /\ Starts("rs_D", rs_set(ToModule)) /\ Rises("proc_rs", proc_rs)
          /\ Rises("state_clr", on("start") \/ (on("t3") /\ ~cma_wr_rq) \/ on("proc_rs"))
      BY <1>1, PulsesGo
    <2>2. /\ Rises("t0", Connected) /\ Starts("t0_D", left["t0"] > 0)
          /\ Rises("t5", on("t3_D1")) /\ Rises("addr_ack", s = "t1b" /\ act # NoPort)
          /\ Rises("stb", stb_sync /\ stb_done) /\ Rises("rd_rs", left["stb"] > 0)
      BY <1>2, <1>3, <1>4, <2>1 DEF Rises, Starts
    <2>3. /\ Starts("rs_D", act = 0 /\ is("bus_mb")) /\ Rises("proc_rs", proc_rs)
          /\ Rises("state_clr", (s = "t3" /\ ~cma_wr_rq) \/ left["proc_rs"] > 0)
      BY <1>2, <1>3, <1>4, <2>1 DEF Rises, Starts
    <2> QED
      BY <2>2, <2>3
  <1>6. Delay["t0_D"] = 5 /\ Delay["rs_D"] = 2
    BY DEF Delay
  <1>7. /\ act' = (IF Connected THEN 0 ELSE IF left["state_clr"] > 0 THEN NoPort ELSE act)
        /\ await_rq' <=> \/ left["t5"] > 0 \/ (left["t0_D"] = 1 /\ act = NoPort)
                         \/ ~(left["t0"] > 0) /\ await_rq
        /\ rq_sync' <=> ~on("t2") /\ ((left["t0_D"] = 1 /\ act # NoPort) \/ rq_sync)
        /\ proc_rs' <=> on("rs_D") \/ (s # "t1b" /\ proc_rs)
    <2>1. /\ act' = IF Connected THEN 0 ELSE IF on("state_clr") THEN NoPort ELSE act
          /\ await_rq' = IF on("t5") \/ aw_rq_set THEN TRUE
                         ELSE IF on("t0") \/ left["pwr_t2"] > 0 THEN FALSE ELSE await_rq
          /\ rq_sync' = IF on("t2") THEN FALSE
                        ELSE IF rq_sync_set THEN TRUE
                        ELSE IF on("start") \/ left["pwr_t3"] > 0 THEN FALSE ELSE rq_sync
          /\ proc_rs' = IF on("rs_D") THEN TRUE ELSE IF on("t1b") THEN FALSE ELSE proc_rs
      BY <1>1, ControlGoes
    <2>2. /\ aw_rq_set <=> left["t0_D"] = 1 /\ act = NoPort
          /\ rq_sync_set <=> left["t0_D"] = 1 /\ act # NoPort
      BY DEF aw_rq_set, rq_sync_set, on
    <2>3. act' = (IF Connected THEN 0 ELSE IF left["state_clr"] > 0 THEN NoPort ELSE act)
      BY <1>3, <2>1
    <2>4. /\ await_rq' <=> \/ left["t5"] > 0 \/ (left["t0_D"] = 1 /\ act = NoPort)
                           \/ ~(left["t0"] > 0) /\ await_rq
      BY <1>2, <1>3, <2>1, <2>2 DEF Ticks, Now, Typed
    <2>5. /\ rq_sync' <=> ~on("t2") /\ ((left["t0_D"] = 1 /\ act # NoPort) \/ rq_sync)
          /\ proc_rs' <=> on("rs_D") \/ (s # "t1b" /\ proc_rs)
      BY <1>2, <1>3, <2>1, <2>2 DEF Ticks, Now, Typed
    <2> QED
      BY <2>3, <2>4, <2>5
  <1>8. /\ left'["t0"] = (IF Connected /\ "t0" \notin high THEN 1 ELSE 0)
        /\ "t0" \in high' <=> Connected
        /\ left'["t0_D"] = (IF left["t0"] > 0 THEN 5 ELSE Count(left["t0_D"]))
        /\ left'["t5"] = (IF on("t3_D1") /\ "t5" \notin high THEN 1 ELSE 0)
        /\ "t5" \in high' <=> on("t3_D1")
        /\ left'["addr_ack"] = (IF s = "t1b" /\ act # NoPort /\ "addr_ack" \notin high
                                THEN 1 ELSE 0)
        /\ "addr_ack" \in high' <=> s = "t1b" /\ act # NoPort
    BY <1>5, <1>6 DEF Rises, Starts
  <1>9. /\ left'["stb"] = (IF stb_sync /\ stb_done /\ "stb" \notin high THEN 1 ELSE 0)
        /\ left'["rd_rs"] = (IF left["stb"] > 0 /\ "rd_rs" \notin high THEN 1 ELSE 0)
        /\ "rd_rs" \in high' <=> left["stb"] > 0
        /\ left'["rs_D"] = (IF act = 0 /\ is("bus_mb") THEN 2 ELSE Count(left["rs_D"]))
        /\ left'["proc_rs"] = (IF proc_rs /\ "proc_rs" \notin high THEN 1 ELSE 0)
        /\ "proc_rs" \in high' <=> proc_rs
        /\ left'["state_clr"] = (IF ((s = "t3" /\ ~cma_wr_rq) \/ left["proc_rs"] > 0)
                                    /\ "state_clr" \notin high THEN 1 ELSE 0)
        /\ "state_clr" \in high' <=> (s = "t3" /\ ~cma_wr_rq) \/ left["proc_rs"] > 0
    BY <1>5, <1>6 DEF Rises, Starts
  <1> QED
    BY <1>1, <1>7, <1>8, <1>9

(* The word on the bus, at the turn that follows.                          *)
LEMMA BusOn ==
  ASSUME NEW x, NEW s \in Stage, NEW p \in Turn, Ticks(x, s, p),
         NEW r \in Turn, Goes(x, s, p, r), NEW t \in Stage, Onward(s, t)
  PROVE  BusInv(t, r)'
  <1>1. BusInv(s, p) /\ TurnChain(p) /\ StopInv(p) /\ ServeInv(s, p) /\ Typed /\ CpuInv(p)
    BY DEF Ticks, Now, TurnInv, ServiceInv
  <1>2. /\ due'["bus_wr_rs"] = (IF p = "mc_wr_rs" THEN 2 ELSE Count(due["bus_wr_rs"]))
        /\ due'["bus_mb"] = (IF p = "mc_wr_rs" THEN 2 ELSE Count(due["bus_mb"]))
        /\ due'["rs_t0_D"] = (IF p = "rs_t0" THEN 2 ELSE Count(due["rs_t0_D"]))
        /\ due["bus_mb"] \in Nat /\ due["bus_mb"] <= 2
        /\ due["rs_t0_D"] \in Nat /\ due["rs_t0_D"] <= 2
    BY TimersGo
  <1>3. mb_pulse' = (IF due["bus_mb"] = 1 THEN 3 ELSE Count(mb_pulse)) /\ mb_pulse \in 0 .. 3
    BY <1>1 DEF Ticks, Moves, McClock, Buffers, is, Count, Typed
  <1>4. left'["rs_D"] = (IF act = 0 /\ due["bus_mb"] = 1 THEN 2 ELSE Count(left["rs_D"]))
        /\ left["rs_D"] \in Nat
    BY SideGoes, StagesOn DEF Ticks, is, Pulse, Delay
  <1>5. left["t2"] \in Nat /\ left'["t2"] = (IF s = "t1a" THEN 12 ELSE Count(left["t2"]))
    BY ChainPulsesGo, StagesOn DEF Ticks, Pulse, Delay
  <1>6. p = "mc_wr_rs" => due["bus_mb"] = 0 /\ mb_pulse = 0
    BY <1>1, <1>2, <1>3 DEF BusInv
  <1>7. s = "t2" /\ left["t2"] > 1 => t = "t2"
    BY DEF Onward, on
  <1>8. x.op \in {"key", "cont"} => due["bus_mb"] = 0 /\ mb_pulse <= 1
    <2>1. x.op \in {"key", "cont"} => Quiet /\ s \in {"still", "pse"} /\ p \in {"rest", "stopped", "asking"}
      BY DEF Goes, Request
    <2>2. Quiet => due["bus_mb"] = 0
      BY QuietMeans DEF Ticks, McPulse, McDelay
    <2> QED
      BY <1>1, <1>3, <2>1, <2>2 DEF BusInv
  <1>9. /\ p = "rs_t0" => r = "rs_t0_D"
        /\ p = "rs_t0_D" => r = IF due["rs_t0_D"] = 1 THEN "rs_t1" ELSE "rs_t0_D"
        /\ p = "rs_t1" => r = "rest"
        /\ p = "mc_wr_rs" => r = IF mc_stop THEN "stopped" ELSE "rs_t0"
        /\ p = "stopped" => r = "stopped" \/ x.op \in {"key", "cont"}
        /\ r = "stopped" => p \in {"stopped", "mc_wr_rs", "mai_rd_rs"}
    BY <1>1 DEF Goes, Flows, First, Request, CpuInv, is
  <1>10. p = "rs_t0_D" <=> due["rs_t0_D"] > 0
    BY <1>1 DEF TurnChain
  <1>11. p = "mc_wr_rs" /\ mc_stop => s = "t2" /\ left["t2"] = 10
    <2>1. p = "mc_wr_rs" => left["rs_D"] = 0
      BY <1>1, <1>4, <1>6 DEF BusInv
    <2> QED
      BY <1>1, <1>6, <2>1 DEF ServeInv, Owed
  <1>12. due'["bus_wr_rs"] = due'["bus_mb"] /\ (due'["bus_mb"] > 0 => mb_pulse' = 0)
    BY <1>1, <1>2, <1>3, <1>6 DEF BusInv, Count
  <1>13. /\ due'["bus_mb"] = 2 => r \in {"rs_t0", "stopped"}
         /\ due'["bus_mb"] = 1 => r = "stopped" \/ (r = "rs_t0_D" /\ due'["rs_t0_D"] = 2)
    BY <1>1, <1>2, <1>8, <1>9 DEF BusInv, Count
  <1>14. /\ mb_pulse' = 3 => r = "stopped" \/ (r = "rs_t0_D" /\ due'["rs_t0_D"] = 1)
         /\ mb_pulse' = 2 => r \in {"stopped", "rs_t1"}
         /\ mb_pulse' = 1 => r \in {"stopped", "rest"}
    BY <1>1, <1>2, <1>3, <1>8, <1>9 DEF BusInv, Count
  <1>15. /\ r = "stopped" /\ due'["bus_mb"] > 0 => t = "t2" /\ left'["t2"] = 7 + due'["bus_mb"]
         /\ r = "stopped" /\ mb_pulse' > 0 => t = "t2" /\ left'["t2"] = 4 + mb_pulse'
    <2>1. CASE p = "mc_wr_rs"
      BY <1>2, <1>3, <1>5, <1>6, <1>7, <1>9, <1>11, <2>1 DEF Count
    <2>2. CASE p = "stopped"
      BY <1>1, <1>2, <1>3, <1>5, <1>7, <2>2 DEF BusInv, Count
    <2>3. CASE p = "mai_rd_rs"
      BY <1>1, <1>2, <1>3, <2>3 DEF BusInv, Count
    <2> QED
      BY <1>9, <2>1, <2>2, <2>3
  <1>16. left'["rs_D"] > 0 => mb_pulse' = left'["rs_D"] + 1
    BY <1>1, <1>3, <1>4 DEF BusInv, Count
  <1>17. due'["bus_mb"] > 0 \/ mb_pulse' > 1 => cpu' \in {"wr", "rs", "keyed"}
    <2> SUFFICES ASSUME due'["bus_mb"] > 0 \/ mb_pulse' > 1
                 PROVE  cpu' \in {"wr", "rs", "keyed"}
      OBVIOUS
    <2>1. p = "mc_wr_rs" \/ due["bus_mb"] > 0 \/ mb_pulse > 1
      BY <1>2, <1>3 DEF Count
    <2>2. cpu \in {"wr", "rs", "keyed"}
      BY <1>1, <2>1 DEF BusInv, CpuInv, Settled, Asking, Ends, Answering, Typed, TypeOK, Awaits,
                        Request, Ticks, Now
    <2>3. p \in {"mc_wr_rs", "rs_t0", "rs_t0_D", "stopped", "rs_t1"} /\ (p = "rs_t1" => mb_pulse = 2)
      BY <1>1, <1>2, <1>3, <2>1 DEF BusInv
    <2>4. p # "rs_t1"
      BY <1>1, <1>2, <1>3, <2>3 DEF BusInv, Count
    <2>5. cpu' = cpu \/ cpu' = "keyed"
      BY <2>3, <2>4 DEF Goes, Flows, Request
    <2> QED
      BY <2>2, <2>5
  <1> QED
    BY <1>12, <1>13, <1>14, <1>15, <1>16, <1>17 DEF BusInv

(* Where each stage comes from.                                            *)
LEMMA StageFrom ==
  ASSUME NEW x, NEW s \in Stage, NEW p \in Turn, Ticks(x, s, p), NEW t \in Stage, Onward(s, t)
  PROVE  /\ t = "t1b" <=> s = "still" /\ rq_sync
         /\ t = "t1a" <=> s = "t1b"
         /\ t = "t2" <=> s = "t1a" \/ (s = "t2" /\ left["t2"] # 1)
         /\ t = "read_off" <=> (s = "t2" /\ left["t2"] = 1)
                               \/ (s = "read_off" /\ left["read_off"] # 1)
         /\ t = "rd_sync" <=> (s = "read_off" /\ left["read_off"] = 1)
                              \/ (s = "rd_sync" /\ ~rd_done)
         /\ t = "rd" <=> s = "rd_sync" /\ rd_done
         /\ t = "pse_set" <=> s = "rd" \/ (s = "pse_set" /\ left["pse_set"] # 1)
         /\ t = "pse" <=> (s = "pse_set" /\ left["pse_set"] = 1)
                          \/ (s = "pse" /\ ~proc_rs /\ cma_wr_rq)
         /\ t = "t3" <=> s = "pse" /\ (proc_rs \/ ~cma_wr_rq)
         /\ t = "t4" <=> s = "t3" \/ (s = "t4" /\ left["t4"] # 1)
         /\ t = "t3_D1" <=> (s = "t4" /\ left["t4"] = 1) \/ (s = "t3_D1" /\ left["t3_D1"] # 1)
         /\ t = "t3_D2" <=> (s = "t3_D1" /\ left["t3_D1"] = 1)
                            \/ (s = "t3_D2" /\ left["t3_D2"] # 1)
         /\ t = "t6p" <=> s = "t3_D2" /\ left["t3_D2"] = 1
         /\ t = "t6" <=> s = "t6p" \/ (s = "t6" /\ left["t6"] # 1)
         /\ t = "wr_sync" <=> (s = "t6" /\ left["t6"] = 1) \/ (s = "wr_sync" /\ ~wr_done)
         /\ t = "wr" <=> s = "wr_sync" /\ wr_done
         /\ t = "still" <=> s = "wr" \/ (s = "still" /\ ~rq_sync)
         /\ s # "start" /\ t # "start"
         /\ \A q \in ChainPulse : left[q] \in Nat /\ (left[q] > 0 <=> q = s)
         /\ \A q \in ChainPulse : left'[q] \in Nat /\ (left'[q] > 0 <=> q = t)
  <1>1. PowerInv(s) /\ OpenInv(s) /\ cpu # "off"
    BY DEF Ticks, Now, StageInv
  <1>2. s # "start" /\ ~(left["pwr_t3"] > 0) /\ (s = "still" => cyc_done)
    BY <1>1 DEF PowerInv, Powering
  <1>3. ~on("pwr_t3")
    BY <1>2 DEF on
  <1>4. s = "still" => (t1b_set /\ "t1b" \notin high <=> rq_sync) /\ (t1b_set <=> rq_sync)
    BY <1>1, <1>2 DEF OpenInv, Opening, t1b_set
  <1>5. /\ t = "t1b" <=> s = "still" /\ rq_sync
        /\ t = "t1a" <=> s = "t1b"
        /\ t = "t2" <=> s = "t1a" \/ (s = "t2" /\ left["t2"] # 1)
        /\ t = "read_off" <=> (s = "t2" /\ left["t2"] = 1)
                              \/ (s = "read_off" /\ left["read_off"] # 1)
        /\ t = "rd_sync" <=> (s = "read_off" /\ left["read_off"] = 1)
                             \/ (s = "rd_sync" /\ ~rd_done)
        /\ t = "rd" <=> s = "rd_sync" /\ rd_done
        /\ t = "pse_set" <=> s = "rd" \/ (s = "pse_set" /\ left["pse_set"] # 1)
        /\ t = "pse" <=> (s = "pse_set" /\ left["pse_set"] = 1)
                         \/ (s = "pse" /\ ~proc_rs /\ cma_wr_rq)
    BY <1>2, <1>3, <1>4 DEF Onward, on
  <1>6. /\ t = "t3" <=> s = "pse" /\ (proc_rs \/ ~cma_wr_rq)
        /\ t = "t4" <=> s = "t3" \/ (s = "t4" /\ left["t4"] # 1)
        /\ t = "t3_D1" <=> (s = "t4" /\ left["t4"] = 1) \/ (s = "t3_D1" /\ left["t3_D1"] # 1)
        /\ t = "t3_D2" <=> (s = "t3_D1" /\ left["t3_D1"] = 1)
                           \/ (s = "t3_D2" /\ left["t3_D2"] # 1)
        /\ t = "t6p" <=> s = "t3_D2" /\ left["t3_D2"] = 1
        /\ t = "t6" <=> s = "t6p" \/ (s = "t6" /\ left["t6"] # 1)
        /\ t = "wr_sync" <=> (s = "t6" /\ left["t6"] = 1) \/ (s = "wr_sync" /\ ~wr_done)
        /\ t = "wr" <=> s = "wr_sync" /\ wr_done
        /\ t = "still" <=> s = "wr" \/ (s = "still" /\ ~rq_sync)
        /\ t # "start"
    BY <1>2, <1>3, <1>4 DEF Onward, on
  <1>7. \A q \in ChainPulse : left[q] \in Nat /\ (left[q] > 0 <=> q = s)
    BY StagesOn DEF Ticks
  <1>8. \A q \in ChainPulse : left'[q] \in Nat /\ (left'[q] > 0 <=> q = t)
    <2>1. Chain(t)'
      BY ChainOn DEF Ticks
    <2>2. left' \in [Pulse -> 0 .. 50]
      BY LeftTyped DEF Ticks, Now, Moves, ModuleClock
    <2> QED
      BY <2>1, <2>2 DEF Chain, ChainPulse, Pulse, Delay
  <1> QED
    BY <1>2, <1>5, <1>6, <1>7, <1>8

(* When nothing is coming and the module is not still, it waits for the    *)
(* word of a read-pause-write; otherwise it serves nobody.                 *)
LEMMA QuietOwes ==
  ASSUME NEW s \in Stage, NEW p \in Turn, Now(s, p), Quiet
  PROVE  /\ s = "pse" => Owed(s) /\ cma_rd_rq /\ p # "asking"
         /\ s = "still" => act = NoPort /\ ~rq_sync
         /\ p = "asking" => ma \in Absent
  <1>1. /\ s \in {"still", "pse"} /\ p \in {"rest", "asking", "stopped"}
        /\ \A q \in {"bus_mb", "D3"} : due[q] = 0
        /\ \A q \in {"t0", "t0_D", "t5", "rs_D", "pwr_t2", "pwr_t3", "addr_ack"} : left[q] = 0
    BY QuietMeans DEF Pulse, Delay, McPulse, McDelay
  <1>2. /\ Connected => "t0" \in high
        /\ t1b_set => "t1b" \in high
        /\ pse_sync /\ (proc_rs \/ ~cma_wr_rq) => "t3" \in high
    <2>1. \A q \in {"t0", "t1b", "t3"} : Cause(ToModule)[q] => q \in high
      BY DEF Quiet, Pulse, Delay
    <2>2. /\ Cause(ToModule)["t0"] <=> Connected
          /\ Cause(ToModule)["t1b"] <=> t1b_set
          /\ Cause(ToModule)["t3"] <=> pse_sync /\ (proc_rs \/ ~cma_wr_rq)
      BY OnTheBus DEF Cause, Now
    <2> QED
      BY <2>1, <2>2
  <1>3. /\ OpenInv(s) /\ PauseInv(s) /\ PowerInv(s) /\ FrontInv(s, p) /\ ServeInv(s, p)
        /\ PortInv(s, p) /\ CpuInv(p) /\ FlagInv(p) /\ cpu # "off" /\ Typed
    BY DEF Now, StageInv, ServiceInv, TurnInv
  <1>4. ASSUME s = "pse"
        PROVE  Owed(s) /\ cma_rd_rq /\ p # "asking"
    <2>1. cma_wr_rq /\ ~proc_rs
      BY <1>2, <1>3, <1>4 DEF PauseInv
    <2>2. Owed(s)
      BY <1>4, <2>1 DEF Owed
    <2>3. cma_rd_rq
      BY <1>1, <1>3, <1>4, <2>2 DEF ServeInv
    <2>4. p # "asking"
      BY <1>1, <1>3, <1>4, <2>2, <2>3 DEF ServeInv, Ends, Answering, CpuInv
    <2> QED
      BY <2>2, <2>3, <2>4
  <1>5. ASSUME s = "still"
        PROVE  act = NoPort /\ ~rq_sync
    <2>1. cyc_done /\ "t1b" \notin high
      BY <1>1, <1>3, <1>5 DEF PowerInv, Powering, OpenInv, Opening
    <2>2. ~rq_sync
      BY <1>2, <2>1 DEF t1b_set
    <2>3. act = NoPort
      BY <1>1, <1>3, <1>5, <2>2 DEF PortInv, Parted
    <2> QED
      BY <2>2, <2>3
  <1>6. ASSUME p = "asking"
        PROVE  ma \in Absent
    <2>1. s = "still" /\ ~rq_sync
      BY <1>1, <1>4, <1>5, <1>6
    <2>2. await_rq
      BY <1>1, <1>3, <2>1 DEF FrontInv, Late
    <2>3. "t0" \notin high
      BY <1>1, <1>3 DEF FrontInv
    <2>4. mc_rq /\ (mc_rd \/ mc_wr)
      BY <1>3, <1>6 DEF FlagInv, CpuInv, Settled, Asking, Typed, TypeOK, Awaits, Request, Answering
    <2> QED
      BY <1>2, <2>2, <2>3, <2>4 DEF Connected
  <1> QED
    BY <1>4, <1>5, <1>6

(* A request to a memory that exists keeps asking until it is heard.       *)
LEMMA KeepsAsking ==
  ASSUME NEW x, NEW s \in Stage, NEW p \in Turn, Ticks(x, s, p),
         NEW r \in Turn, Goes(x, s, p, r),
         p = "asking", ma \notin Absent, s # "t1a"
  PROVE  /\ r = "asking" /\ x.op = "none" /\ ma' = ma /\ ~is("D3")
         /\ mc_rq /\ (mc_rd \/ mc_wr) /\ (mc_rd' <=> mc_rd) /\ (mc_wr' <=> mc_wr)
  <1>1. x.op # "key"
    BY QuietOwes DEF Goes, Request, Ticks
  <1>2. x.op = "none"
    BY <1>1, ComesFrom DEF Settled, Asking
  <1>3. ~is("D3")
    BY AnswersCome
  <1>4. r = "asking"
    BY <1>1, <1>3, ComesFrom
  <1>5. ma' = ma
    BY <1>2, AddressGoes DEF Request
  <1>6. mc_rq /\ (mc_rd \/ mc_wr)
    BY DEF Ticks, Now, TurnInv, FlagInv, CpuInv, Settled, Asking, Typed, TypeOK, Awaits, Request,
           Answering
  <1>7. (mc_rd' <=> mc_rd) /\ (mc_wr' <=> mc_wr)
    BY <1>2, FlagsGo DEF Untouched
  <1> QED
    BY <1>2, <1>3, <1>4, <1>5, <1>6, <1>7

(* The way of a request to the module, after a step.                       *)
LEMMA FrontOn ==
  ASSUME NEW x, NEW s \in Stage, NEW p \in Turn, Ticks(x, s, p),
         NEW r \in Turn, Goes(x, s, p, r), NEW t \in Stage, Onward(s, t)
  PROVE  FrontInv(t, r)'
  <1>1. /\ FrontInv(s, p) /\ ServeInv(s, p) /\ PortInv(s, p) /\ BoundInv(s, p) /\ FlagInv(p)
        /\ TimeInv(p) /\ OpenInv(s) /\ Typed
    BY DEF Ticks, Now, TurnInv, ServiceInv, StageInv
  <1>2. /\ due'["D3"] = (IF p = "rq" THEN NxmDelay ELSE Count(due["D3"]))
        /\ due["D3"] \in Nat /\ due["D3"] <= NxmDelay /\ NxmDelay \in Nat /\ NxmDelay >= 100
    BY TimersGo, NowTyped DEF Ticks
  <1>3. /\ left'["t0"] = (IF Connected /\ "t0" \notin high THEN 1 ELSE 0)
        /\ "t0" \in high' <=> Connected
        /\ left'["t0_D"] = (IF left["t0"] > 0 THEN 5 ELSE Count(left["t0_D"]))
        /\ left'["t5"] = (IF left["t3_D1"] = 1 /\ "t5" \notin high THEN 1 ELSE 0)
        /\ "t5" \in high' <=> left["t3_D1"] = 1
        /\ act' = (IF Connected THEN 0 ELSE IF left["state_clr"] > 0 THEN NoPort ELSE act)
        /\ await_rq' <=> \/ left["t5"] > 0 \/ (left["t0_D"] = 1 /\ act = NoPort)
                         \/ ~(left["t0"] > 0) /\ await_rq
        /\ rq_sync' <=> ~(left["t2"] = 1) /\ ((left["t0_D"] = 1 /\ act # NoPort) \/ rq_sync)
        /\ left'["t3_D2"] = (IF left["t3_D1"] = 1 THEN 10 ELSE Count(left["t3_D2"]))
    BY SideGoes, ChainPulsesGo DEF Ticks, on
  <1>4. /\ left["t0"] \in Nat /\ left["t0"] <= 1 /\ left["t0_D"] \in Nat /\ left["t0_D"] <= 5
        /\ left["t5"] \in Nat /\ left["t3_D2"] \in Nat /\ left["t3_D1"] \in Nat
        /\ left["t3_D1"] = 1 => s = "t3_D1"
        /\ left["t2"] = 1 => s = "t2"
        /\ left["t0"] > 0 => "t0" \in high
    BY StagesOn DEF Ticks, Pulse, Delay, ChainPulse, on
  <1>5. 0 # NoPort
    BY NoPortAssumption DEF Port
  <1>6. mc_rq <=> p \in {"asking", "nxm", "nxm_rst", "mai_ack", "ack"}
    BY <1>1 DEF FlagInv, Asking
  \* a request is heard only while it waits, with the module at rest
  <1>7. Connected => p = "asking" /\ s \in Late /\ left["t0_D"] = 0 /\ left["t5"] = 0 /\ ~rq_sync
    <2>1. Connected => await_rq /\ ma \notin Absent /\ mc_rq
      BY DEF Connected
    <2>2. await_rq => s \in Late /\ s # "t2" /\ left["t0_D"] = 0 /\ left["t5"] = 0 /\ ~rq_sync
      BY <1>1, <1>4 DEF FrontInv, Late
    <2> QED
      BY <1>1, <1>6, <2>1, <2>2 DEF FlagInv, ServeInv
  \* it goes on asking while it is on its way
  <1>8. ASSUME Connected \/ left["t0"] > 0 \/ left["t0_D"] > 0 \/ (rq_sync /\ s \notin {"t1a", "t2"})
        PROVE  /\ p = "asking" /\ ma \notin Absent /\ r = "asking" /\ ma' = ma /\ s # "t1a"
               /\ due'["D3"] = Count(due["D3"])
    <2>1. p = "asking" /\ ma \notin Absent /\ s # "t1a"
      BY <1>1, <1>7, <1>8 DEF FrontInv, Late, Connected
    <2> QED
      BY <1>2, <2>1, KeepsAsking
  <1>9. ~Connected /\ (left["t0"] > 0 \/ left["t0_D"] > 0 \/ (rq_sync /\ s \notin {"t1a", "t2"}))
          => act' = 0
    <2>1. left["t0"] > 0 \/ left["t0_D"] > 0 \/ (rq_sync /\ s \notin {"t1a", "t2"})
            => act = 0 /\ s \in Late \cup {"t1b"}
      BY <1>1 DEF FrontInv, Opening
    <2>2. s \in Late \cup {"t1b"} => ~(left["state_clr"] > 0)
      BY <1>1 DEF PortInv, Late, Parted
    <2> QED
      BY <1>3, <2>1, <2>2
  <1>10. left'["t0"] > 0 => /\ r = "asking" /\ ma' \notin Absent /\ act' = 0
                            /\ await_rq' /\ left'["t0_D"] = 0 /\ ~rq_sync'
                            /\ due'["D3"] \in 13 .. NxmDelay - 4
    <2> SUFFICES ASSUME left'["t0"] > 0
                 PROVE  /\ r = "asking" /\ ma' \notin Absent /\ act' = 0
                        /\ await_rq' /\ left'["t0_D"] = 0 /\ ~rq_sync'
                        /\ due'["D3"] \in 13 .. NxmDelay - 4
      OBVIOUS
    <2>1. Connected /\ left["t0"] = 0
      BY <1>3, <1>4
    <2>2. await_rq
      BY <2>1 DEF Connected
    <2>3. /\ p = "asking" /\ r = "asking" /\ ma \notin Absent /\ ma' = ma
          /\ due'["D3"] = Count(due["D3"])
      BY <1>8, <2>1
    <2>4. due["D3"] >= 14 /\ due["D3"] <= NxmDelay - 3
      BY <1>1, <1>2, <2>1, <2>2, <2>3 DEF FrontInv, TimeInv
    <2>5. due'["D3"] \in 13 .. NxmDelay - 4
      BY <1>2, <2>3, <2>4 DEF Count
    <2>6. await_rq' /\ left'["t0_D"] = 0 /\ ~rq_sync' /\ act' = 0
      BY <1>3, <1>7, <2>1, <2>2 DEF Count
    <2> QED
      BY <2>3, <2>5, <2>6
  <1>11. left'["t0_D"] > 0 =>
           /\ r = "asking" /\ ma' \notin Absent /\ act' = 0 /\ ~await_rq' /\ ~rq_sync'
           /\ due'["D3"] \in 7 + left'["t0_D"] .. NxmDelay - 10 + left'["t0_D"]
    <2>1. CASE left["t0"] > 0
      <3>1. /\ await_rq /\ left["t0_D"] = 0 /\ ~rq_sync /\ left["t5"] = 0
            /\ due["D3"] \in 13 .. NxmDelay - 4
        BY <1>1, <2>1 DEF FrontInv
      <3>2. ~await_rq' /\ ~rq_sync' /\ left'["t0_D"] = 5
        BY <1>3, <2>1, <3>1
      <3>3. act' = 0
        BY <1>3, <1>9, <2>1
      <3>4. due'["D3"] \in 12 .. NxmDelay - 5
        BY <1>2, <1>8, <2>1, <3>1 DEF Count
      <3> QED
        BY <1>2, <1>8, <2>1, <3>2, <3>3, <3>4
    <2>2. CASE left["t0"] = 0 /\ left["t0_D"] > 1
      <3>1. /\ ~await_rq /\ ~rq_sync /\ left["t5"] = 0
            /\ due["D3"] \in 7 + left["t0_D"] .. NxmDelay - 10 + left["t0_D"]
        BY <1>1, <1>4, <2>2 DEF FrontInv
      <3>2. ~await_rq' /\ ~rq_sync' /\ left'["t0_D"] = left["t0_D"] - 1
        BY <1>3, <1>4, <2>2, <3>1 DEF Count
      <3>3. act' = 0
        BY <1>3, <1>9, <2>2, <1>4
      <3>4. due'["D3"] = due["D3"] - 1
        BY <1>2, <1>4, <1>8, <2>2, <3>1 DEF Count
      <3>5. due'["D3"] \in 7 + left'["t0_D"] .. NxmDelay - 10 + left'["t0_D"]
        BY <1>2, <1>4, <3>1, <3>2, <3>4
      <3> QED
        BY <1>4, <1>8, <2>2, <3>2, <3>3, <3>5
    <2>3. CASE left["t0"] = 0 /\ left["t0_D"] <= 1
      BY <1>3, <1>4, <2>3 DEF Count
    <2> QED
      BY <1>4, <2>1, <2>2, <2>3
  <1>12. rq_sync' /\ t # "t2" => /\ r = "asking" /\ ma' \notin Absent /\ act' = 0
                                 /\ due'["D3"] <= NxmDelay - 10
                                 /\ t = "still" => due'["D3"] >= 6
                                 /\ t = "t1b" => due'["D3"] >= 5
                                 /\ t = "t1a" => due'["D3"] >= 4
    <2> SUFFICES ASSUME rq_sync', t # "t2"
                 PROVE  /\ r = "asking" /\ ma' \notin Absent /\ act' = 0
                        /\ due'["D3"] <= NxmDelay - 10
                        /\ t = "still" => due'["D3"] >= 6
                        /\ t = "t1b" => due'["D3"] >= 5
                        /\ t = "t1a" => due'["D3"] >= 4
      OBVIOUS
    <2>1. CASE left["t0_D"] = 1
      <3>5. /\ s \in Late /\ ~rq_sync
            /\ due["D3"] \in 7 + left["t0_D"] .. NxmDelay - 10 + left["t0_D"]
        BY <1>1, <2>1 DEF FrontInv
      <3>1. s \in Late /\ ~rq_sync /\ due["D3"] \in 8 .. NxmDelay - 9
        BY <1>2, <2>1, <3>5
      <3>2. t \notin {"t1b", "t1a"}
        BY <3>1, StageFrom DEF Late
      <3>3. due'["D3"] \in 7 .. NxmDelay - 10
        BY <1>2, <1>8, <2>1, <3>1 DEF Count
      <3>4. act' = 0
        BY <1>3, <1>9, <2>1
      <3> QED
        BY <1>2, <1>8, <2>1, <3>2, <3>3, <3>4
    <2>2. CASE left["t0_D"] # 1
      <3>1. rq_sync /\ left["t2"] # 1
        BY <1>3, <2>2
      <3>2. s \notin {"t1a", "t2"} /\ s \in Late \cup {"t1b"}
        BY <1>1, <3>1, StageFrom DEF FrontInv, Opening, Late
      <3>3. /\ due["D3"] <= NxmDelay - 10
            /\ s = "still" => due["D3"] >= 6
            /\ s = "t1b" => due["D3"] >= 5
        BY <1>1, <3>1, <3>2 DEF FrontInv
      <3>4. s = "wr" => due["D3"] >= 16
        BY <1>1, <1>8, <3>1, <3>2 DEF BoundInv, Timed, Rest
      <3>5. /\ t = "still" => s = "wr"
            /\ t = "t1b" => s = "still"
            /\ t = "t1a" => s = "t1b"
        BY <3>1, StageFrom
      <3>6. due'["D3"] = Count(due["D3"]) /\ r = "asking" /\ ma' \notin Absent
        BY <1>8, <3>1, <3>2
      <3>7. act' = 0
        BY <1>3, <1>9, <3>1, <3>2
      <3> QED
        BY <1>2, <3>3, <3>4, <3>5, <3>6, <3>7 DEF Count
    <2> QED
      BY <2>1, <2>2
  <1>13. await_rq' => ~rq_sync' /\ left'["t5"] = 0
    <2>1. CASE left["t5"] > 0
      BY <1>1, <1>3, <1>4, <2>1 DEF FrontInv
    <2>2. CASE left["t0_D"] = 1
      <3>1. act = 0 /\ ~await_rq /\ left["t5"] = 0
        BY <1>1, <1>4, <2>2 DEF FrontInv
      <3> QED
        BY <1>1, <1>3, <1>4, <1>5, <2>2, <3>1 DEF FrontInv
    <2>3. CASE await_rq
      <3>1. s \in Late /\ ~rq_sync /\ left["t0_D"] = 0
        BY <1>1, <1>4, <2>3 DEF FrontInv
      <3> QED
        BY <1>3, <1>4, <3>1 DEF Late
    <2> QED
      BY <1>3, <1>4, <2>1, <2>2, <2>3
  <1>14. await_rq' \/ left'["t5"] > 0 \/ left'["t0_D"] > 0 => t \in Late
    <2>1. CASE left["t5"] > 0
      <3>1. s = "t3_D2" /\ left["t3_D2"] = 10
        BY <1>1, <2>1 DEF FrontInv
      <3> QED
        BY <3>1, StageFrom DEF Late
    <2>2. CASE await_rq \/ left["t0"] > 0 \/ left["t0_D"] > 0
      <3>1. s \in Late /\ ~rq_sync
        BY <1>1, <2>2 DEF FrontInv
      <3> QED
        BY <3>1, StageFrom DEF Late, Stage, ChainPulse
    <2>3. CASE left["t3_D1"] = 1
      BY <1>4, <2>3, StageFrom DEF Late
    <2>4. CASE ~(left["t5"] > 0) /\ ~await_rq /\ left["t0"] = 0 /\ left["t0_D"] = 0
               /\ left["t3_D1"] # 1
      BY <1>3, <2>4 DEF Count
    <2> QED
      BY <1>4, <2>1, <2>2, <2>3, <2>4
  <1>15. rq_sync' => t \in Late \cup Opening
    <2>1. CASE left["t0_D"] = 1
      <3>1. s \in Late /\ ~rq_sync
        BY <1>1, <2>1 DEF FrontInv
      <3> QED
        BY <3>1, StageFrom DEF Late, Stage, ChainPulse
    <2>2. CASE rq_sync /\ left["t2"] # 1
      <3>1. s \in Late \cup Opening
        BY <1>1, <2>2 DEF FrontInv
      <3> QED
        BY <2>2, <3>1, StageFrom DEF Late, Opening, Stage, ChainPulse
    <2> QED
      BY <1>3, <2>1, <2>2
  <1>16. ~await_rq' /\ t \in Late => left'["t5"] > 0 \/ left'["t0_D"] > 0 \/ rq_sync'
    <2> SUFFICES ASSUME ~await_rq', t \in Late
                 PROVE  left'["t5"] > 0 \/ left'["t0_D"] > 0 \/ rq_sync'
      OBVIOUS
    <2>1. s \in Late \/ (s = "t3_D1" /\ left["t3_D1"] = 1)
      BY StageFrom DEF Late
    <2>2. CASE s = "t3_D1" /\ left["t3_D1"] = 1
      <3>1. "t5" \notin high
        BY <1>1, <2>2 DEF FrontInv
      <3> QED
        BY <1>3, <2>2, <3>1
    <2>3. CASE s \in Late
      <3>1. ~(left["t5"] > 0)
        BY <1>3
      <3>2. CASE await_rq
        BY <1>3, <3>2
      <3>3. CASE left["t0_D"] > 0
        BY <1>1, <1>3, <1>4, <1>5, <2>3, <3>3 DEF FrontInv, Late, Count
      <3>4. CASE rq_sync
        BY <1>3, <1>4, <2>3, <3>4 DEF Late
      <3> QED
        BY <1>1, <2>3, <3>1, <3>2, <3>3, <3>4 DEF FrontInv
    <2> QED
      BY <2>1, <2>2, <2>3
  <1>17. left'["t5"] > 0 => left'["t0_D"] = 0 /\ ~rq_sync' /\ t = "t3_D2" /\ left'["t3_D2"] = 10
    <2> SUFFICES ASSUME left'["t5"] > 0
                 PROVE  left'["t0_D"] = 0 /\ ~rq_sync' /\ t = "t3_D2" /\ left'["t3_D2"] = 10
      OBVIOUS
    <2>1. left["t3_D1"] = 1 /\ s = "t3_D1"
      BY <1>3, <1>4
    <2>2. left["t0"] = 0 /\ left["t0_D"] = 0 /\ ~rq_sync
      BY <1>1, <1>4, <2>1 DEF FrontInv, Late, Opening
    <2>3. left'["t0_D"] = 0 /\ ~rq_sync' /\ left'["t3_D2"] = 10
      BY <1>3, <2>1, <2>2 DEF Count
    <2>4. t = "t3_D2"
      BY <2>1, StageFrom
    <2> QED
      BY <2>3, <2>4
  <1>18. "t0" \in high' => left'["t0"] > 0 \/ left'["t0_D"] = 5
    <2> SUFFICES ASSUME Connected
                 PROVE  left'["t0"] > 0 \/ left'["t0_D"] = 5
      BY <1>3
    <2>1. "t0" \in high => left["t0"] > 0
      BY <1>1, <1>7 DEF FrontInv
    <2> QED
      BY <1>3, <2>1
  <1>19. "t5" \in high' => left'["t5"] > 0
    <2>1. "t5" \in high => s = "t3_D2"
      BY <1>1 DEF FrontInv
    <2> QED
      BY <1>3, <1>4, <2>1
  <1>20. r = "asking" /\ ma' \notin Absent /\ await_rq' /\ left'["t0"] = 0 => due'["D3"] >= 14
    <2> SUFFICES ASSUME r = "asking", ma' \notin Absent, await_rq', left'["t0"] = 0
                 PROVE  due'["D3"] >= 14
      OBVIOUS
    <2>1. x.op = "none" /\ p \in {"rq_set", "nxm", "asking"} /\ s # "t1a"
      <3>1. p \in {"rq_set", "nxm", "asking"} /\ (p = "asking" => s # "t1a")
        BY ComesFrom
      <3>2. x.op # "key"
        BY ComesFrom
      <3>3. x.op = "none"
        BY <3>1, <3>2, ComesFrom DEF Settled, Asking
      <3> QED
        BY <1>1, <3>1, <3>3 DEF ServeInv
    <2>2. ma \notin Absent /\ p # "nxm"
      BY <1>1, <2>1, AddressGoes DEF Request, FlagInv
    <2>3. due'["D3"] = Count(due["D3"])
      BY <1>2, <2>1
    <2>4. CASE p = "rq_set"
      <3>1. due["D3"] >= NxmDelay - 7
        BY <1>1, <1>2, <2>4 DEF TimeInv
      <3> QED
        BY <1>2, <2>3, <3>1 DEF Count
    <2>5. CASE p = "asking" /\ left["t5"] > 0
      <3>1. s = "t3_D2" /\ left["t3_D2"] = 10
        BY <1>1, <2>5 DEF FrontInv
      <3>2. Rest(s) = 25
        BY <3>1 DEF Rest
      <3>3. due["D3"] >= 40
        BY <1>1, <2>2, <2>5, <3>1, <3>2 DEF BoundInv, Timed
      <3> QED
        BY <1>2, <2>3, <3>3 DEF Count
    <2>6. CASE p = "asking" /\ ~(left["t5"] > 0)
      <3>1. left["t0_D"] = 1 => act = 0
        BY <1>1 DEF FrontInv
      <3>2. await_rq
        BY <1>3, <1>5, <2>6, <3>1
      <3>3. Connected
        BY <2>1, <2>2, <2>6, <3>2, KeepsAsking DEF Connected
      <3>4. "t0" \notin high => FALSE
        BY <1>3, <3>3
      <3>5. left["t0"] > 0
        BY <1>1, <1>7, <3>3, <3>4 DEF FrontInv
      <3> QED
        BY <1>3, <1>4, <3>2, <3>5, <1>7, <3>3, <1>1
    <2> QED
      BY <2>1, <2>2, <2>4, <2>5, <2>6
  <1> QED
    BY <1>10, <1>11, <1>12, <1>13, <1>14, <1>15, <1>16, <1>17, <1>18, <1>19, <1>20 DEF FrontInv

(* Nothing but the end of a request moves the processor while a turn is    *)
(* under way.                                                              *)
LEMMA Carries ==
  ASSUME NEW x, NEW s \in Stage, NEW p \in Turn, Ticks(x, s, p),
         NEW r \in Turn, Goes(x, s, p, r),
         p \notin {"rest", "illeg", "rs_t1"}, x.op \notin {"cont", "key"}
  PROVE  /\ x.op = "none" /\ Flows(x, s, p, r) /\ ma' = ma
         /\ cpu' = cpu /\ rel' = rel /\ rest' = Count(rest)
         /\ mc_split_cyc_sync' = mc_split_cyc_sync
  <1>1. x.op = "none" /\ Flows(x, s, p, r) /\ cpu' = cpu /\ rel' = rel /\ rest' = Count(rest)
    BY DEF Goes, Request
  <1>2. ma' = ma
    BY <1>1, AddressGoes DEF Request
  <1>3. mc_split_cyc_sync' <=> mc_split_cyc_sync
    BY <1>1, FlagsGo DEF Untouched
  <1>4. mc_split_cyc_sync \in BOOLEAN /\ mc_split_cyc_sync' \in BOOLEAN
    BY FlagsGo DEF Ticks, Now, Typed, Moves, McClock, McFlags, Keep
  <1> QED
    BY <1>1, <1>2, <1>3, <1>4

(* The keys come when nothing is on its way.                               *)
LEMMA KeysWait ==
  ASSUME NEW x, NEW s \in Stage, NEW p \in Turn, Ticks(x, s, p),
         NEW r \in Turn, Goes(x, s, p, r), x.op \in {"cont", "key"}
  PROVE  /\ Quiet /\ s \in {"still", "pse"} /\ p \in {"rest", "stopped", "asking"}
         /\ cpu \in Awaits \cup {"halted"} /\ ma' = ma /\ ~Connected
         /\ \A q \in McPulse : due[q] = 0
         /\ \A q \in Pulse : left[q] = 0
         /\ ~m_read /\ ~m_write
         /\ s = "pse" => Owed(s) /\ cma_rd_rq /\ p # "asking"
         /\ s = "still" => act = NoPort /\ ~rq_sync
         /\ p = "asking" => ma \in Absent
  <1>1. Quiet /\ cpu \in Awaits \cup {"halted"}
    BY DEF Goes, Request, Awaiting
  <1>2. ma' = ma
    BY AddressGoes DEF Request
  <1>3. /\ s \in {"still", "pse"} /\ p \in {"rest", "stopped", "asking"}
        /\ \A q \in McPulse : due[q] = 0
        /\ \A q \in Pulse : left[q] = 0
        /\ ~m_read /\ ~m_write
    BY <1>1, QuietMeans DEF Ticks
  <1>4. /\ s = "pse" => Owed(s) /\ cma_rd_rq /\ p # "asking"
        /\ s = "still" => act = NoPort /\ ~rq_sync
        /\ p = "asking" => ma \in Absent
    BY <1>1, QuietOwes DEF Ticks
  <1>5. ~Connected
    BY <1>3, <1>4 DEF Connected, Ticks, Now, TurnInv, FlagInv, Asking
  <1> QED
    BY <1>1, <1>2, <1>3, <1>4, <1>5

(* What the module owes, and is owed.                                      *)
LEMMA ServiceGoes ==
  ASSUME NEW x, NEW s \in Stage, NEW p \in Turn, Ticks(x, s, p), NEW t \in Stage, Onward(s, t)
  PROVE  /\ s # "t1b" => /\ cma' = cma /\ cma_rd_rq' = cma_rd_rq /\ cma_wr_rq' = cma_wr_rq
                         /\ Owed(t)' <=> Owed(s) /\ left["rs_D"] # 1
                         /\ Fetching(t)' <=> Fetching(s) /\ ~(left["stb"] > 0)
         /\ s = "t1b" => /\ p = "asking" /\ ma \notin Absent /\ act = 0 /\ t = "t1a"
                         /\ cma' = ma /\ cma_rd_rq' = mc_rd /\ cma_wr_rq' = mc_wr /\ ~proc_rs'
                         /\ left["rs_D"] = 0 /\ left["state_clr"] = 0
         /\ left["stb"] > 0 => /\ Fetching(s) /\ s \in {"read_off", "rd_sync"} /\ stb_sync
                               /\ stb_done
         /\ Owed(s) \/ Fetching(s) => act' = 0 /\ x.op \notin Request /\ ma' = ma
         /\ rd_done' <=> \/ s = "t1a" /\ ~cma_rd_rq
                         \/ s \notin {"rd", "t1a"} /\ (rd_done \/ left["stb"] > 0)
         /\ s = "t1b" => ~Owed(s) /\ ~Fetching(s)
         /\ Fetching(s) => left["rs_D"] = 0
         /\ left["rs_D"] > 0 => p \notin {"rest", "asking", "ack", "mai_ack", "mc_wr_rs", "rs_t0"}
         /\ left["rs_D"] > 0 \/ due["bus_mb"] > 0 =>
              cpu \in {"wr", "rs", "keyed"} /\ p \in {"rs_t0", "rs_t0_D", "stopped", "rs_t1"}
         /\ \A q \in {"stb", "rd_rs", "rs_D", "state_clr", "proc_rs", "addr_ack"} : left[q] \in Nat
         /\ act \in {0, NoPort} /\ 0 # NoPort
  <1>1. /\ FrontInv(s, p) /\ ServeInv(s, p) /\ PortInv(s, p) /\ BusInv(s, p) /\ CpuInv(p)
        /\ ReadInv(s) /\ OpenInv(s) /\ BufferInv(s, p) /\ Typed /\ Moves(x)
    BY DEF Ticks, Now, TurnInv, ServiceInv, StageInv, WordInv
  <1>2. /\ \A q \in {"stb", "rd_rs", "rs_D", "state_clr", "proc_rs", "addr_ack"} : left[q] \in Nat
        /\ left["rs_D"] <= 2 /\ left["stb"] <= 1
        /\ on("t1b") <=> s = "t1b"
        /\ on("t1a") <=> s = "t1a"
        /\ on("rd") <=> s = "rd"
    BY StagesOn DEF Ticks, Pulse, Delay
  <1>3. 0 # NoPort /\ act \in {0, NoPort}
    BY <1>1, NoPortAssumption DEF Port, PortInv
  <1>4. left["stb"] > 0 => /\ Fetching(s) /\ s \in {"read_off", "rd_sync"} /\ stb_sync /\ stb_done
    BY <1>1 DEF ReadInv, Fetching, Reading
  <1>5. rd_done' <=> \/ s = "t1a" /\ ~cma_rd_rq
                     \/ s \notin {"rd", "t1a"} /\ (rd_done \/ left["stb"] > 0)
    <2>1. on("stb") <=> left["stb"] > 0
      BY <1>2 DEF on
    <2> QED
      BY <1>1, <1>2, <2>1, MeetingsGo
  <1>6. proc_rs' <=> left["rs_D"] = 1 \/ (s # "t1b" /\ proc_rs)
    BY SideGoes DEF on
  <1>7. left["rs_D"] > 0 \/ due["bus_mb"] > 0 =>
          cpu \in {"wr", "rs", "keyed"} /\ p \in {"rs_t0", "rs_t0_D", "stopped", "rs_t1"}
    <2>1. due["bus_mb"] \in Nat /\ due["bus_mb"] <= 2 /\ mb_pulse \in 0 .. 3
      BY <1>1, TimersGo DEF Typed
    <2> QED
      BY <1>1, <1>2, <2>1 DEF BusInv
  <1>17. left["rs_D"] > 0 => p \notin {"rest", "asking", "ack", "mai_ack", "mc_wr_rs", "rs_t0"}
    <2>1. left["rs_D"] > 0 => mb_pulse \in {2, 3}
      BY <1>1, <1>2 DEF BusInv
    <2> QED
      BY <1>1, <2>1 DEF BusInv
  <1>8. s = "t1b" => /\ p = "asking" /\ ma \notin Absent /\ act = 0 /\ t = "t1a"
                     /\ cma' = ma /\ cma_rd_rq' = mc_rd /\ cma_wr_rq' = mc_wr /\ ~proc_rs'
                     /\ left["rs_D"] = 0 /\ left["state_clr"] = 0
    <2> SUFFICES ASSUME s = "t1b"
                 PROVE  /\ p = "asking" /\ ma \notin Absent /\ act = 0 /\ t = "t1a"
                        /\ cma' = ma /\ cma_rd_rq' = mc_rd /\ cma_wr_rq' = mc_wr /\ ~proc_rs'
                        /\ left["rs_D"] = 0 /\ left["state_clr"] = 0
      OBVIOUS
    <2>1. rq_sync
      BY <1>1 DEF OpenInv, Opening
    <2>2. p = "asking" /\ ma \notin Absent /\ act = 0
      BY <1>1, <2>1 DEF FrontInv
    <2>3. t = "t1a"
      BY StageFrom
    <2>4. left["rs_D"] = 0 /\ left["state_clr"] = 0
      BY <1>1, <1>2 DEF ServeInv, Owed, PortInv, Parted
    <2>5. cma' = ma /\ cma_rd_rq' = mc_rd /\ cma_wr_rq' = mc_wr
      BY <1>1, <1>2, <2>2, JamGoes DEF Typed
    <2> QED
      BY <1>6, <2>2, <2>3, <2>4, <2>5
  <1>9. s = "t1b" => ~Owed(s) /\ ~Fetching(s)
    BY DEF Owed, Fetching, Parted, Reading
  <1>10. Fetching(s) => left["rs_D"] = 0
    <2>1. Fetching(s) => s # "pse" /\ cma_rd_rq
      BY DEF Fetching, Reading
    <2>2. left["rs_D"] > 0 => Owed(s)
      BY <1>1 DEF ServeInv
    <2> QED
      BY <1>1, <1>2, <2>1, <2>2 DEF BufferInv
  <1>11. s # "t1b" => cma' = cma /\ cma_rd_rq' = cma_rd_rq /\ cma_wr_rq' = cma_wr_rq
    BY <1>1, <1>2, JamGoes DEF request
  <1>12. s # "t1b" => (Owed(t)' <=> Owed(s) /\ left["rs_D"] # 1)
    <2> SUFFICES ASSUME s # "t1b"
                 PROVE  Owed(t)' <=> Owed(s) /\ left["rs_D"] # 1
      OBVIOUS
    <2>1. Owed(t)' <=> cma_wr_rq /\ ~proc_rs /\ left["rs_D"] # 1 /\ t \in Parted \cup {"pse"}
      BY <1>6, <1>11 DEF Owed
    <2>2. cma_wr_rq /\ ~proc_rs => (t \in Parted \cup {"pse"} <=> s \in Parted \cup {"pse"})
      BY StageFrom DEF Parted, Onward, on
    <2> QED
      BY <2>1, <2>2 DEF Owed
  <1>13. s # "t1b" => (Fetching(t)' <=> Fetching(s) /\ ~(left["stb"] > 0))
    <2> SUFFICES ASSUME s # "t1b"
                 PROVE  Fetching(t)' <=> Fetching(s) /\ ~(left["stb"] > 0)
      OBVIOUS
    <2>1. t # "t1a"
      BY StageFrom
    <2>2. Fetching(t)' <=> cma_rd_rq /\ t \in Reading /\ ~rd_done'
      BY <1>11, <2>1 DEF Fetching
    <2>3. CASE s = "t1a"
      <3>1. t \in Reading
        BY <2>3, StageFrom DEF Reading
      <3>2. ~(left["stb"] > 0)
        BY <1>4, <2>3
      <3> QED
        BY <1>5, <2>2, <2>3, <3>1, <3>2 DEF Fetching
    <2>4. CASE s \in Reading
      <3>1. ~rd_done => t \in Reading
        BY <2>4 DEF Reading, Onward, on
      <3>2. rd_done' <=> rd_done \/ left["stb"] > 0
        BY <1>5, <2>4 DEF Reading
      <3> QED
        BY <2>2, <2>4, <3>1, <3>2 DEF Fetching, Reading
    <2>5. CASE s \notin Reading \cup {"t1a"}
      <3>1. t \notin Reading
        BY <2>5, StageFrom DEF Reading
      <3> QED
        BY <2>2, <2>5, <3>1 DEF Fetching
    <2> QED
      BY <2>3, <2>4, <2>5
  <1>14. Owed(s) \/ Fetching(s) => act' = 0
    <2>1. Owed(s) \/ Fetching(s) => act = 0 /\ ~proc_rs /\ s # "t4"
      BY <1>1 DEF ServeInv, Owed, Fetching, Parted, Reading
    <2>2. left["state_clr"] > 0 => proc_rs \/ s = "t4"
      BY <1>1 DEF PortInv
    <2> QED
      BY <2>1, <2>2, SideGoes
  <1>15. Owed(s) \/ Fetching(s) => x.op \notin Request /\ ma' = ma
    <2>1. x.op \in Request => \E r \in Turn : Goes(x, s, p, r)
      BY SomeTurn
    <2>2. x.op \in Request => p = "rest" /\ cpu \in {"idle", "addressed"}
      BY <2>1 DEF Goes, Request
    <2>3. Owed(s) \/ Fetching(s) => p # "rest" \/ cpu \notin {"idle", "addressed"}
      BY <1>1, <1>7 DEF ServeInv
    <2> QED
      BY <2>2, <2>3, AddressGoes
  <1> QED
    BY <1>2, <1>3, <1>4, <1>5, <1>7, <1>8, <1>9, <1>10, <1>11, <1>12, <1>13, <1>14, <1>15, <1>17

(* The request the module serves is still the processor's, after a step.   *)
LEMMA ServeOn ==
  ASSUME NEW x, NEW s \in Stage, NEW p \in Turn, Ticks(x, s, p),
         NEW r \in Turn, Goes(x, s, p, r), NEW t \in Stage, Onward(s, t)
  PROVE  ServeInv(t, r)'
  <1>1. /\ ServeInv(s, p) /\ FlagInv(p) /\ CpuInv(p) /\ BusInv(s, p) /\ StopInv(p)
        /\ AbsentInv(s, p) /\ ReadInv(s) /\ Typed /\ cpu # "off"
    BY DEF Ticks, Now, TurnInv, ServiceInv, StageInv
  <1>2. /\ s # "t1b" => /\ cma' = cma /\ cma_rd_rq' = cma_rd_rq /\ cma_wr_rq' = cma_wr_rq
                        /\ Owed(t)' <=> Owed(s) /\ left["rs_D"] # 1
                        /\ Fetching(t)' <=> Fetching(s) /\ ~(left["stb"] > 0)
        /\ s = "t1b" => /\ p = "asking" /\ ma \notin Absent /\ act = 0 /\ t = "t1a"
                        /\ cma' = ma /\ cma_rd_rq' = mc_rd /\ cma_wr_rq' = mc_wr /\ ~proc_rs'
                        /\ left["rs_D"] = 0 /\ left["state_clr"] = 0
        /\ left["stb"] > 0 => /\ Fetching(s) /\ s \in {"read_off", "rd_sync"} /\ stb_sync
                              /\ stb_done
        /\ Owed(s) \/ Fetching(s) => act' = 0 /\ x.op \notin Request /\ ma' = ma
        /\ s = "t1b" => ~Owed(s) /\ ~Fetching(s)
        /\ Fetching(s) => left["rs_D"] = 0
    BY ServiceGoes
  <1>3. /\ rd_done' <=> \/ s = "t1a" /\ ~cma_rd_rq
                        \/ s \notin {"rd", "t1a"} /\ (rd_done \/ left["stb"] > 0)
        /\ left["rs_D"] > 0 => p \notin {"rest", "asking", "ack", "mai_ack", "mc_wr_rs", "rs_t0"}
        /\ left["rs_D"] > 0 \/ due["bus_mb"] > 0 =>
             cpu \in {"wr", "rs", "keyed"} /\ p \in {"rs_t0", "rs_t0_D", "stopped", "rs_t1"}
        /\ \A q \in {"stb", "rd_rs", "rs_D", "state_clr", "proc_rs", "addr_ack"} : left[q] \in Nat
        /\ act \in {0, NoPort} /\ 0 # NoPort
    BY ServiceGoes
  <1>4. /\ left'["addr_ack"] = (IF s = "t1b" /\ act # NoPort /\ "addr_ack" \notin high
                                THEN 1 ELSE 0)
        /\ "addr_ack" \in high' <=> s = "t1b" /\ act # NoPort
        /\ left'["rd_rs"] = (IF left["stb"] > 0 /\ "rd_rs" \notin high THEN 1 ELSE 0)
        /\ "rd_rs" \in high' <=> left["stb"] > 0
        /\ left'["rs_D"] = (IF act = 0 /\ due["bus_mb"] = 1 THEN 2 ELSE Count(left["rs_D"]))
        /\ act' = (IF Connected THEN 0 ELSE IF left["state_clr"] > 0 THEN NoPort ELSE act)
        /\ proc_rs' <=> left["rs_D"] = 1 \/ (s # "t1b" /\ proc_rs)
    BY SideGoes DEF is, on
  <1>5. /\ left'["t2"] = (IF s = "t1a" THEN 12 ELSE Count(left["t2"]))
        /\ left["t2"] \in Nat
        /\ t = "t2" <=> s = "t1a" \/ (s = "t2" /\ left["t2"] # 1)
        /\ t = "t1a" <=> s = "t1b"
    BY StageFrom, ChainPulsesGo DEF Ticks, ChainPulse
  <1>6. /\ due'["bus_mb"] = (IF p = "mc_wr_rs" THEN 2 ELSE Count(due["bus_mb"]))
        /\ due["bus_mb"] \in Nat /\ due["bus_mb"] <= 2
    BY TimersGo
  <1>7. left["rs_D"] <= 2 /\ left["stb"] <= 1 /\ left["rd_rs"] <= 1
    BY StagesOn DEF Ticks, Pulse, Delay
  <1>8. /\ r = "mai_ack" <=> s = "t1a"
        /\ r = "ack" <=> p \in {"mai_ack", "nxm_rst"}
        /\ r = "reading" <=> \/ p = "ack" /\ mc_rd /\ ma \notin Absent
                             \/ p = "reading" /\ ~(left["rd_rs"] > 0)
        /\ x.op = "key" => r \in {"rest", "mc_wr_rs"}
        /\ r \in Settled => cpu' = cpu
    BY ComesFrom
  <1>9. s = "t1b" => /\ r = "asking" /\ ma' = ma /\ cpu' = cpu /\ x.op = "none"
                     /\ mc_split_cyc_sync' = mc_split_cyc_sync
                     /\ mc_rd' = mc_rd /\ mc_wr' = mc_wr /\ act' = 0
    <2> SUFFICES ASSUME s = "t1b"
                 PROVE  /\ r = "asking" /\ ma' = ma /\ cpu' = cpu /\ x.op = "none"
                        /\ mc_split_cyc_sync' = mc_split_cyc_sync
                        /\ mc_rd' = mc_rd /\ mc_wr' = mc_wr /\ act' = 0
      OBVIOUS
    <2>1. r = "asking" /\ x.op = "none" /\ ma' = ma /\ (mc_rd' <=> mc_rd) /\ (mc_wr' <=> mc_wr)
      BY <1>2, KeepsAsking
    <2>2. mc_rd' \in BOOLEAN /\ mc_wr' \in BOOLEAN
      BY <1>1 DEF Ticks, Moves, McClock, McFlags, Keep, Typed
    <2>3. mc_rd' = mc_rd /\ mc_wr' = mc_wr
      BY <1>1, <2>1, <2>2 DEF Typed
    <2>4. cpu' = cpu /\ mc_split_cyc_sync' = mc_split_cyc_sync
      BY <1>2, <2>1, Carries
    <2>5. act' = 0
      BY <1>2, <1>4
    <2> QED
      BY <2>1, <2>3, <2>4, <2>5
  \* what is owed and what is fetched stay the processor's request
  <1>10. left["rd_rs"] > 0 => rd_done /\ p = "reading" /\ cma_rd_rq
    BY <1>1 DEF ServeInv
  <1>11. left["stb"] > 0 => ~rd_done /\ "rd_rs" \notin high
    <2>1. left["stb"] > 0 => ~rd_done
      BY <1>1 DEF ReadInv
    <2> QED
      BY <1>1, <1>10, <2>1 DEF ServeInv
  <1>12. Owed(t)' \/ Fetching(t)' \/ left'["rd_rs"] > 0
           => act' = 0 /\ cma' = ma' /\ ma' \notin Absent
    <2>1. CASE s = "t1b"
      BY <1>2, <1>9, <2>1
    <2>2. CASE s # "t1b"
      <3>1. Owed(t)' \/ Fetching(t)' \/ left'["rd_rs"] > 0 => Owed(s) \/ Fetching(s)
        BY <1>2, <1>4, <2>2
      <3> QED
        BY <1>1, <1>2, <2>2, <3>1 DEF ServeInv
    <2> QED
      BY <2>1, <2>2
  <1>13. Fetching(t)' => /\ cpu' \in {"rd", "rdwr"} /\ ~proc_rs'
                         /\ t = "t1a" \/ r \in {"mai_ack", "ack", "reading"}
    <2>1. CASE s = "t1b"
      <3>1. cma_rd_rq' => cpu \in {"rd", "rdwr"}
        BY <1>1, <1>2, <2>1 DEF FlagInv, Settled, Asking
      <3> QED
        BY <1>2, <1>9, <2>1, <3>1 DEF Fetching
    <2>2. CASE s # "t1b" /\ Fetching(s)
      <3>1. /\ cpu \in {"rd", "rdwr"} /\ ~proc_rs
            /\ s = "t1a" \/ p \in {"mai_ack", "ack", "reading"}
        BY <1>1, <2>2 DEF ServeInv
      <3>2. ~proc_rs'
        BY <1>2, <1>4, <2>2, <3>1
      <3>3. CASE s = "t1a"
        BY <1>8, <3>1, <3>2, <3>3 DEF Settled, Asking
      <3>4. CASE s # "t1a"
        <4>1. ~rd_done /\ cma_rd_rq /\ s \in Reading
          BY <2>2, <3>4 DEF Fetching
        <4>2. left["rd_rs"] = 0 /\ ma \notin Absent
          BY <1>1, <1>3, <1>10, <2>2, <4>1 DEF ServeInv
        <4>3. p = "ack" => mc_rd
          BY <1>1, <4>1, <4>2 DEF ServeInv
        <4>4. r \in {"ack", "reading"}
          BY <1>8, <3>1, <3>4, <4>2, <4>3
        <4>5. x.op \notin {"cont", "key"}
          BY <3>1, <3>4, KeysWait
        <4>6. cpu' = cpu
          BY <3>1, <3>4, <4>5, Carries
        <4> QED
          BY <3>1, <3>2, <4>4, <4>6
      <3> QED
        BY <3>3, <3>4
    <2> QED
      BY <1>2, <2>1, <2>2
  <1>14. left'["rd_rs"] > 0 => /\ r = "reading" /\ t \in {"read_off", "rd_sync"}
                               /\ cma_rd_rq' /\ rd_done' /\ ~proc_rs'
    <2> SUFFICES ASSUME left'["rd_rs"] > 0
                 PROVE  /\ r = "reading" /\ t \in {"read_off", "rd_sync"}
                        /\ cma_rd_rq' /\ rd_done' /\ ~proc_rs'
      OBVIOUS
    <2>1. left["stb"] > 0 /\ Fetching(s) /\ s \in {"read_off", "rd_sync"} /\ ~rd_done
      BY <1>2, <1>4, <1>11
    <2>2. rd_done'
      BY <1>3, <2>1
    <2>3. t \in {"read_off", "rd_sync"}
      BY <2>1, StageFrom
    <2>4. p = "reading" /\ ~proc_rs /\ ma \notin Absent
      BY <1>1, <2>1 DEF ServeInv
    <2>5. r = "reading"
      BY <1>8, <1>10, <2>1, <2>4
    <2>6. cma_rd_rq /\ s # "t1b" /\ left["rs_D"] = 0
      BY <1>2, <2>1 DEF Fetching
    <2>7. cma_rd_rq'
      BY <1>2, <2>6
    <2>8. ~proc_rs'
      BY <1>4, <2>4, <2>6
    <2> QED
      BY <2>2, <2>3, <2>5, <2>7, <2>8
  <1>15. "rd_rs" \in high' => left'["rd_rs"] > 0
    BY <1>4, <1>11
  <1>16. r = "reading" => (Fetching(t)' /\ t # "t1a") \/ left'["rd_rs"] > 0
    <2> SUFFICES ASSUME r = "reading"
                 PROVE  (Fetching(t)' /\ t # "t1a") \/ left'["rd_rs"] > 0
      OBVIOUS
    <2>1. Fetching(s) /\ s \notin {"t1a", "t1b"}
      <3>1. CASE p = "ack" /\ mc_rd /\ ma \notin Absent
        BY <1>1, <3>1 DEF ServeInv, Fetching, Reading
      <3>2. CASE p = "reading" /\ ~(left["rd_rs"] > 0)
        BY <1>1, <1>2, <3>2 DEF ServeInv
      <3> QED
        BY <1>8, <3>1, <3>2
    <2>2. CASE left["stb"] > 0
      BY <1>4, <1>11, <2>2
    <2>3. CASE ~(left["stb"] > 0)
      BY <1>2, <1>5, <2>1, <2>3
    <2> QED
      BY <2>2, <2>3
  <1>17. Owed(t)' /\ ~cma_rd_rq' =>
           /\ cpu' \in {"wr", "rs"}
           /\ \/ t = "t1a" /\ r = "asking"
              \/ t = "t2" /\ r = "mai_ack" /\ left'["t2"] = 12
              \/ t = "t2" /\ r = "ack" /\ left'["t2"] = 11
              \/ t = "t2" /\ r = "mc_wr_rs" /\ left'["t2"] = 10
              \/ t = "t2" /\ due'["bus_mb"] > 0 /\ left'["t2"] = 7 + due'["bus_mb"]
              \/ t = "t2" /\ left'["rs_D"] > 0 /\ left'["t2"] = 5 + left'["rs_D"]
    <2>1. CASE s = "t1b" /\ Owed(t)' /\ ~cma_rd_rq'
      <3>1. ~mc_rd /\ mc_wr
        <4>1. cma_wr_rq'
          BY <2>1 DEF Owed
        <4>2. cma_rd_rq' = mc_rd /\ cma_wr_rq' = mc_wr
          BY <1>2, <2>1
        <4> QED
          BY <2>1, <4>1, <4>2
      <3>2. cpu \in {"wr", "rs"}
        BY <1>1, <1>2, <2>1, <3>1 DEF FlagInv, Settled, Asking
      <3> QED
        BY <1>2, <1>9, <2>1, <3>2
    <2>2. CASE s # "t1b" /\ Owed(t)' /\ ~cma_rd_rq'
      <3>1. Owed(s) /\ ~cma_rd_rq /\ left["rs_D"] # 1 /\ act = 0 /\ ma \notin Absent
        BY <1>1, <1>2, <2>2 DEF ServeInv
      <3>2. /\ cpu \in {"wr", "rs"}
            /\ \/ s = "t1a" /\ p = "asking"
               \/ s = "t2" /\ p = "mai_ack" /\ left["t2"] = 12
               \/ s = "t2" /\ p = "ack" /\ left["t2"] = 11
               \/ s = "t2" /\ p = "mc_wr_rs" /\ left["t2"] = 10
               \/ s = "t2" /\ due["bus_mb"] > 0 /\ left["t2"] = 7 + due["bus_mb"]
               \/ s = "t2" /\ left["rs_D"] > 0 /\ left["t2"] = 5 + left["rs_D"]
        BY <1>1, <3>1 DEF ServeInv
      <3>3. x.op \notin {"cont", "key"}
        BY <3>1, <3>2, KeysWait
      <3>4. p \notin {"rest", "illeg", "rs_t1"}
        <4>1. left["rs_D"] > 0 => mb_pulse = 3
          BY <1>1, <1>3, <1>7, <3>1 DEF BusInv
        <4>2. due["bus_mb"] > 0 => p # "rs_t1"
          BY <1>1, <1>6 DEF BusInv
        <4> QED
          BY <1>1, <1>3, <3>2, <4>1, <4>2 DEF BusInv
      <3>5. cpu' = cpu
        BY <3>3, <3>4, Carries
      <3>6. CASE s = "t1a" /\ p = "asking"
        BY <1>5, <1>8, <3>2, <3>5, <3>6
      <3>7. CASE s = "t2" /\ p = "mai_ack" /\ left["t2"] = 12
        BY <1>5, <1>8, <3>2, <3>5, <3>7 DEF Count
      <3>8. CASE s = "t2" /\ p = "ack" /\ left["t2"] = 11
        <4>1. ~mc_rd
          BY <1>1, <3>1, <3>8 DEF ServeInv
        <4>2. r = "mc_wr_rs"
          BY <3>3, <3>4, <3>8, <4>1, Carries DEF Flows
        <4> QED
          BY <1>5, <3>2, <3>5, <3>8, <4>2 DEF Count
      <3>9. CASE s = "t2" /\ p = "mc_wr_rs" /\ left["t2"] = 10
        BY <1>5, <1>6, <3>2, <3>5, <3>9 DEF Count
      <3>10. CASE s = "t2" /\ due["bus_mb"] > 0 /\ left["t2"] = 7 + due["bus_mb"]
        <4>1. p # "mc_wr_rs"
          BY <1>3, <3>10
        <4>2. CASE due["bus_mb"] = 2
          BY <1>5, <1>6, <3>2, <3>5, <3>10, <4>1, <4>2 DEF Count
        <4>3. CASE due["bus_mb"] = 1
          BY <1>4, <1>5, <1>6, <3>1, <3>2, <3>5, <3>10, <4>3 DEF Count
        <4> QED
          BY <1>6, <3>10, <4>2, <4>3
      <3>11. CASE s = "t2" /\ left["rs_D"] > 0 /\ left["t2"] = 5 + left["rs_D"]
        <4>1. left["rs_D"] = 2 /\ due["bus_mb"] = 0
          BY <1>1, <1>3, <1>6, <1>7, <3>1, <3>11 DEF BusInv
        <4> QED
          BY <1>4, <1>5, <3>2, <3>5, <3>11, <4>1 DEF Count
      <3> QED
        BY <3>2, <3>6, <3>7, <3>8, <3>9, <3>10, <3>11
    <2> QED
      BY <2>1, <2>2
  <1>18. Owed(t)' /\ cma_rd_rq' =>
           \/ /\ cpu' = "rdwr" /\ ~mc_split_cyc_sync'
              /\ \/ r = "asking" /\ t = "t1a"
                 \/ r \in {"mai_ack", "ack", "reading", "mai_rd_rs"} \cup Ends
           \/ cpu' = "paused" /\ ~mc_split_cyc_sync'
           \/ cpu' = "rs" /\ ~mc_split_cyc_sync' /\ r \in {"rdwr_rs", "rdwr_rs_D", "mc_wr_rs"}
           \/ cpu' = "keyed" /\ r = "mc_wr_rs"
           \/ due'["bus_mb"] > 0 \/ left'["rs_D"] > 0
    <2>1. CASE s = "t1b" /\ Owed(t)' /\ cma_rd_rq'
      <3>1. mc_rd /\ mc_wr
        BY <1>2, <2>1 DEF Owed
      <3>2. cpu = "rdwr" /\ ~mc_split_cyc_sync
        BY <1>1, <1>2, <2>1, <3>1 DEF FlagInv, Settled, Asking
      <3> QED
        BY <1>2, <1>9, <2>1, <3>2
    <2>2. CASE s # "t1b" /\ Owed(t)' /\ cma_rd_rq'
      <3>1. Owed(s) /\ cma_rd_rq /\ left["rs_D"] # 1 /\ act = 0 /\ ma \notin Absent
        BY <1>1, <1>2, <2>2 DEF ServeInv
      <3>2. \/ /\ cpu = "rdwr" /\ ~mc_split_cyc_sync
               /\ \/ p = "asking" /\ s = "t1a"
                  \/ p \in {"mai_ack", "ack", "reading", "mai_rd_rs"} \cup Ends
            \/ cpu = "paused" /\ ~mc_split_cyc_sync
            \/ cpu = "rs" /\ ~mc_split_cyc_sync /\ p \in {"rdwr_rs", "rdwr_rs_D", "mc_wr_rs"}
            \/ cpu = "keyed" /\ p = "mc_wr_rs"
            \/ due["bus_mb"] > 0 \/ left["rs_D"] > 0
        BY <1>1, <3>1 DEF ServeInv
      <3>3. CASE due["bus_mb"] > 0 \/ left["rs_D"] > 0
        BY <1>3, <1>4, <1>6, <1>7, <3>1, <3>3 DEF Count
      <3>4. CASE p = "mc_wr_rs"
        BY <1>6, <3>4
      <3>5. CASE cpu = "rdwr" /\ ~mc_split_cyc_sync
        <4>1. \/ /\ p \in {"asking", "mai_ack", "ack", "reading", "mai_rd_rs", "rs_t0",
                            "rs_t0_D", "rs_t1", "stopped"}
                 /\ p = "asking" => s = "t1a"
              \/ due["bus_mb"] > 0 \/ left["rs_D"] > 0
          BY <3>2, <3>5 DEF Ends, Answering
        <4>2. CASE p = "rs_t1"
          <5>1. x.op \notin {"cont", "key"}
            BY <4>2, KeysWait
          <5>2. cpu' = "paused" /\ x.op = "none"
            BY <3>5, <4>2, <5>1 DEF Goes, Request, Awaiting, Awaits
          <5>3. ~mc_split_cyc_sync'
            BY <3>5, <5>2, FlagsGo DEF Untouched
          <5> QED
            BY <5>2, <5>3
        <4>3. CASE x.op = "key"
          <5>1. p = "stopped"
            <6>1. /\ \A q \in McPulse : due[q] = 0
                  /\ \A q \in Pulse : left[q] = 0
                  /\ p \in {"rest", "stopped", "asking"} /\ s \in {"still", "pse"}
              BY <4>3, KeysWait
            <6>2. due["bus_mb"] = 0 /\ left["rs_D"] = 0
              BY <6>1 DEF McPulse, McDelay, Pulse, Delay
            <6> QED
              BY <4>1, <6>1, <6>2
          <5>2. mc_stop /\ mc_stop_sync
            BY <1>1, <3>5, <5>1 DEF StopInv, FlagInv
          <5>3. cpu' = "keyed" /\ r = "mc_wr_rs"
            BY <4>3, <5>2 DEF Goes, Request
          <5> QED
            BY <5>3
        <4>4. CASE x.op = "cont"
          <5>1. r = "rs_t0" /\ cpu' = cpu
            BY <4>4 DEF Goes, Request
          <5>2. ~mc_split_cyc_sync'
            BY <3>5, <4>4, FlagsGo DEF Untouched
          <5> QED
            BY <3>5, <5>1, <5>2 DEF Ends, Answering
        <4>5. CASE /\ p \in {"asking", "mai_ack", "ack", "reading", "mai_rd_rs", "rs_t0",
                             "rs_t0_D", "stopped"}
                   /\ p = "asking" => s = "t1a"
                   /\ x.op \notin {"cont", "key"}
          <5>1. cpu' = cpu /\ mc_split_cyc_sync' = mc_split_cyc_sync /\ Flows(x, s, p, r)
            BY <4>5, Carries
          <5>2. p = "ack" => mc_rd
            BY <1>1, <3>1, <4>5 DEF ServeInv
          <5>3. r \in {"mai_ack", "ack", "reading", "mai_rd_rs"} \cup Ends
            BY <1>8, <3>1, <4>5, <5>1, <5>2 DEF Flows, Ends, Answering
          <5> QED
            BY <3>5, <5>1, <5>3
        <4> QED
          BY <3>3, <4>1, <4>2, <4>3, <4>4, <4>5
      <3>6. CASE cpu = "paused" /\ ~mc_split_cyc_sync
        <4>1. p = "rest"
          BY <1>1, <3>6 DEF CpuInv
        <4>2. \/ x.op = "none" /\ cpu' = "paused"
              \/ x.op = "rs" /\ cpu' = "rs" /\ r = "rdwr_rs"
          BY <3>6, <4>1 DEF Goes, Request, Awaiting, Awaits
        <4>3. ~mc_split_cyc_sync'
          BY <3>6, <4>2, FlagsGo DEF Untouched
        <4> QED
          BY <4>2, <4>3
      <3>7. CASE cpu = "rs" /\ ~mc_split_cyc_sync /\ p \in {"rdwr_rs", "rdwr_rs_D"}
        <4>1. x.op \notin {"cont", "key"}
          BY <3>7, KeysWait
        <4>2. cpu' = cpu /\ mc_split_cyc_sync' = mc_split_cyc_sync /\ Flows(x, s, p, r)
          BY <3>7, <4>1, Carries
        <4>3. r \in {"rdwr_rs_D", "mc_wr_rs"}
          BY <3>7, <4>2 DEF Flows
        <4> QED
          BY <3>7, <4>2, <4>3
      <3> QED
        BY <3>2, <3>3, <3>4, <3>5, <3>6, <3>7
    <2> QED
      BY <2>1, <2>2
  \* a write restart
  <1>19. r = "mc_wr_rs" => \/ p = "ack" /\ ~mc_rd
                           \/ p = "rdwr_rs_D"
                           \/ x.op = "key" /\ mc_stop /\ mc_stop_sync
    BY DEF Goes, Flows, First, Request
  <1>20. p = "ack" => cpu \in Awaits
    BY <1>1 DEF CpuInv, Typed, TypeOK, Answering, Awaits
  <1>21. p = "ack" /\ ~mc_rd => cpu \in {"wr", "rs"} /\ mc_wr
    BY <1>1, <1>20 DEF FlagInv, Settled, Asking, Awaits, Request
  <1>22. p = "rdwr_rs_D" => cpu = "rs" /\ ~mc_split_cyc_sync
    BY <1>1 DEF CpuInv, Typed, TypeOK, Answering, Awaits, Request, Settled, Asking, Ends
  <1>23. p \in {"ack", "rdwr_rs_D"}
           => /\ ma' = ma /\ cpu' = cpu /\ mc_split_cyc_sync' = mc_split_cyc_sync
              /\ x.op = "none" /\ s # "t1b" /\ left["rs_D"] = 0
    <2>1. p \in {"ack", "rdwr_rs_D"} => x.op \notin {"cont", "key"}
      BY KeysWait
    <2>2. p \in {"ack", "rdwr_rs_D"} => s # "t1b"
      BY <1>2
    <2>3. p \in {"ack", "rdwr_rs_D"} => left["rs_D"] = 0
      BY <1>3
    <2> QED
      BY <2>1, <2>2, <2>3, Carries
  <1>24. r = "mc_wr_rs" /\ mc_stop' => Owed(t)' /\ ~cma_rd_rq'
    <2> SUFFICES ASSUME r = "mc_wr_rs", mc_stop'
                 PROVE  Owed(t)' /\ ~cma_rd_rq'
      OBVIOUS
    <2>1. StopInv(r)'
      BY StopOn
    <2>2. CASE p = "ack" /\ ~mc_rd
      <3>1. ma \notin Absent
        BY <1>23, <2>1, <2>2 DEF StopInv
      <3>2. s = "t2" /\ (cma_rd_rq <=> mc_rd) /\ (cma_wr_rq <=> mc_wr) /\ ~proc_rs
        BY <1>1, <2>2, <3>1 DEF ServeInv
      <3>3. Owed(s) /\ ~cma_rd_rq
        BY <1>21, <2>2, <3>2 DEF Owed, Parted
      <3> QED
        BY <1>2, <1>23, <2>2, <3>3
    <2>3. CASE p = "rdwr_rs_D"
      BY <1>22, <1>23, <2>1, <2>3 DEF StopInv
    <2>4. CASE x.op = "key" /\ mc_stop /\ mc_stop_sync
      <3>1. ~x.stop
        BY <2>4 DEF Goes, Request
      <3> QED
        BY <2>4, <3>1, FlagsGo DEF Untouched
    <2> QED
      BY <1>19, <2>2, <2>3, <2>4
  <1>25. r = "mai_ack" => t = "t2" /\ left'["t2"] = 12 /\ ma' \notin Absent
    <2> SUFFICES ASSUME r = "mai_ack"
                 PROVE  t = "t2" /\ left'["t2"] = 12 /\ ma' \notin Absent
      OBVIOUS
    <2>1. s = "t1a"
      BY <1>8
    <2>2. p = "asking" /\ ma \notin Absent
      BY <1>1, <2>1 DEF ServeInv
    <2>3. x.op = "none" \/ x.op = "key"
      BY <2>2, ComesFrom DEF Settled, Asking
    <2>4. ma' = ma
      BY <2>3, AddressGoes DEF Request
    <2> QED
      BY <1>5, <2>1, <2>2, <2>4
  <1>26. p = "mai_ack" => /\ ma' = ma /\ x.op = "none" /\ s = "t2" /\ left["t2"] = 12
                          /\ cpu' = cpu /\ left["rs_D"] = 0 /\ ma \notin Absent
    <2>1. p = "mai_ack" => x.op \notin {"cont", "key"}
      BY KeysWait
    <2>2. p = "mai_ack" => s = "t2" /\ left["t2"] = 12 /\ ma \notin Absent
      BY <1>1 DEF ServeInv
    <2> QED
      BY <1>3, <2>1, <2>2, Carries
  <1>27. p = "nxm_rst" => ma' \in Absent
    <2>1. p = "nxm_rst" => ma \in Absent
      BY <1>1 DEF FlagInv
    <2>2. p = "nxm_rst" => x.op \notin {"cont", "key"}
      BY KeysWait
    <2> QED
      BY <2>1, <2>2, Carries
  <1>28. r = "ack" /\ ma' \notin Absent => t = "t2" /\ left'["t2"] = 11
    <2> SUFFICES ASSUME r = "ack", ma' \notin Absent
                 PROVE  t = "t2" /\ left'["t2"] = 11
      OBVIOUS
    <2>1. p = "mai_ack"
      BY <1>8, <1>27
    <2> QED
      BY <1>5, <1>26, <2>1 DEF Count
  <1>29. r \in {"mai_ack", "ack"} /\ ma' \notin Absent
           => (cma_rd_rq' <=> mc_rd') /\ (cma_wr_rq' <=> mc_wr')
              /\ (mc_rd' => ~rd_done') /\ ~proc_rs'
    <2> SUFFICES ASSUME r \in {"mai_ack", "ack"}, ma' \notin Absent
                 PROVE  /\ (cma_rd_rq' <=> mc_rd') /\ (cma_wr_rq' <=> mc_wr')
                        /\ (mc_rd' => ~rd_done') /\ ~proc_rs'
      OBVIOUS
    <2>1. s = "t1a" \/ p = "mai_ack"
      BY <1>8, <1>27
    <2>2. /\ p \in {"asking", "mai_ack"} /\ s # "t1b" /\ left["rs_D"] = 0
          /\ (cma_rd_rq <=> mc_rd) /\ (cma_wr_rq <=> mc_wr) /\ ~proc_rs
          /\ s = "t1a" \/ (s = "t2" /\ (mc_rd => ~rd_done))
      BY <1>1, <1>3, <1>26, <2>1 DEF ServeInv
    <2>3. x.op = "none"
      <3>1. s = "t1a" => x.op # "key"
        BY KeysWait
      <3> QED
        BY <1>26, <2>1, <2>2, <3>1, ComesFrom DEF Settled, Asking
    <2>4. (mc_rd' <=> mc_rd) /\ (mc_wr' <=> mc_wr)
      BY <2>2, <2>3, FlagsGo DEF Untouched
    <2>5. (cma_rd_rq' <=> mc_rd') /\ (cma_wr_rq' <=> mc_wr')
      BY <1>2, <2>2, <2>4
    <2>6. ~proc_rs'
      BY <1>4, <2>2
    <2>7. left["stb"] > 0 => s # "t2" /\ s # "t1a"
      BY <1>2
    <2>8. mc_rd' => ~rd_done'
      BY <1>3, <2>2, <2>4, <2>7
    <2> QED
      BY <2>5, <2>6, <2>8
  \* the word
  <1>30. act = 0 /\ due["bus_mb"] = 1 => Owed(s) /\ left["rs_D"] = 0
    <2>1. due["bus_mb"] = 1 => Owed(s) \/ act = NoPort
      BY <1>1 DEF ServeInv
    <2>2. due["bus_mb"] = 1 => ~(left["rs_D"] > 0)
      BY <1>1, <1>3, <1>7 DEF BusInv
    <2> QED
      BY <1>3, <2>1, <2>2
  <1>31. left'["rs_D"] > 0 => Owed(t)'
    <2> SUFFICES ASSUME left'["rs_D"] > 0
                 PROVE  Owed(t)'
      OBVIOUS
    <2>1. (act = 0 /\ due["bus_mb"] = 1) \/ left["rs_D"] = 2
      BY <1>3, <1>4, <1>7 DEF Count
    <2>2. Owed(s) /\ left["rs_D"] # 1
      BY <1>1, <1>30, <2>1 DEF ServeInv
    <2> QED
      BY <1>2, <2>2
  <1>32. act = NoPort /\ ~Connected => act' = NoPort
    BY <1>4
  <1>33. mc_rq /\ p \notin Asking => FALSE
    BY <1>1 DEF FlagInv
  <1>34. /\ HalfDone(p) => left["rs_D"] = 0 /\ s # "t1b"
         /\ p = "ack" => left["rs_D"] = 0 /\ s # "t1b"
    <2>1. HalfDone(p) => cpu \notin {"wr", "keyed"} /\ p # "asking"
                         /\ (cpu = "rs" => p \in {"rdwr_rs", "rdwr_rs_D"})
      BY <1>1 DEF HalfDone, Ends, Answering, CpuInv
    <2> QED
      BY <1>2, <1>3, <2>1
  <1>35. /\ p = "mc_wr_rs" => left["rs_D"] = 0 /\ s # "t1b"
         /\ due["bus_mb"] > 0 => left["rs_D"] = 0 /\ s # "t1b" /\ p \notin Asking
         /\ p = "mc_wr_rs" \/ due["bus_mb"] > 0 => cpu \in {"wr", "rs", "keyed"}
    <2>1. due["bus_mb"] > 0 => ~(left["rs_D"] > 0)
      BY <1>1, <1>3, <1>7 DEF BusInv
    <2>2. p = "mc_wr_rs" => cpu \in {"wr", "rs", "keyed"}
      BY <1>1 DEF CpuInv, Typed, TypeOK, Answering, Awaits, Request, Settled, Asking, Ends
    <2> QED
      BY <1>2, <1>3, <2>1, <2>2 DEF Asking
  \* what is promised when the word goes out
  <1>36. p = "mc_wr_rs" \/ due["bus_mb"] > 0
           => Owed(t)' \/ (act' = NoPort /\ (ma' \in Absent \/ cpu' = "keyed"))
    <2> SUFFICES ASSUME p = "mc_wr_rs" \/ due["bus_mb"] > 0
                 PROVE  Owed(t)' \/ (act' = NoPort /\ (ma' \in Absent \/ cpu' = "keyed"))
      OBVIOUS
    <2>1. Owed(s) => Owed(t)'
      BY <1>2, <1>35
    <2>2. ASSUME act = NoPort, ma \in Absent \/ cpu = "keyed"
          PROVE  act' = NoPort /\ (ma' \in Absent \/ cpu' = "keyed")
      <3>1. p \notin Asking
        BY <1>35 DEF Asking
      <3>2. act' = NoPort
        BY <1>32, <1>33, <2>2, <3>1 DEF Connected
      <3>3. x.op \notin {"cont", "key"}
        <4>1. x.op \in {"cont", "key"} => /\ p \in {"rest", "stopped", "asking"}
                                          /\ \A q \in McPulse : due[q] = 0
          BY KeysWait
        <4> QED
          BY <1>6, <4>1 DEF McPulse, McDelay
      <3>4. p \in {"mc_wr_rs", "rs_t0", "rs_t0_D", "stopped"}
        BY <1>1, <1>6 DEF BusInv
      <3>5. ma' = ma /\ cpu' = cpu
        BY <3>3, <3>4, Carries
      <3> QED
        BY <2>2, <3>2, <3>5
    <2> QED
      BY <1>1, <2>1, <2>2 DEF ServeInv
  <1>37. r = "mc_wr_rs" \/ due'["bus_mb"] > 0
           => Owed(t)' \/ (act' = NoPort /\ (ma' \in Absent \/ cpu' = "keyed"))
    <2>1. due'["bus_mb"] > 0 => p = "mc_wr_rs" \/ due["bus_mb"] > 0
      BY <1>6 DEF Count
    <2>2. CASE p = "ack" /\ ~mc_rd
      <3>1. CASE ma \notin Absent
        <4>1. s = "t2" /\ (cma_wr_rq <=> mc_wr) /\ ~proc_rs
          BY <1>1, <2>2, <3>1 DEF ServeInv
        <4>2. Owed(s)
          BY <1>21, <2>2, <4>1 DEF Owed, Parted
        <4> QED
          BY <1>2, <1>34, <2>2, <4>2
      <3>2. CASE ma \in Absent
        <4>1. act = NoPort
          BY <1>1, <1>20, <2>2, <3>2 DEF AbsentInv
        <4>2. ~Connected
          BY <3>2 DEF Connected
        <4> QED
          BY <1>23, <1>32, <2>2, <3>2, <4>1, <4>2
      <3> QED
        BY <3>1, <3>2
    <2>3. CASE p = "rdwr_rs_D"
      <3>1. HalfDone(p)
        BY <1>22, <2>3 DEF HalfDone
      <3>2. Owed(s) \/ (act = NoPort /\ ma \in Absent)
        BY <1>1, <3>1 DEF ServeInv
      <3>3. ma \in Absent => ~Connected
        BY DEF Connected
      <3> QED
        BY <1>2, <1>23, <1>32, <2>3, <3>2, <3>3
    <2>4. CASE x.op = "key"
      <3>1. /\ s = "pse" => Owed(s)
            /\ s = "still" => act = NoPort
            /\ s \in {"still", "pse"} /\ ~Connected
            /\ \A q \in Pulse : left[q] = 0
        BY <2>4, KeysWait
      <3>2. left["rs_D"] = 0
        BY <3>1 DEF Pulse, Delay
      <3>3. cpu' = "keyed"
        BY <2>4 DEF Goes, Request
      <3> QED
        BY <1>2, <1>32, <3>1, <3>2, <3>3
    <2> QED
      BY <1>19, <1>36, <2>1, <2>2, <2>3, <2>4
  <1>38. HalfDone(r)' => HalfDone(p) \/ (p = "ack" /\ mc_rd /\ ma \in Absent)
                         \/ (p = "ack" /\ mc_rd /\ mc_wr /\ ma \notin Absent)
    <2> SUFFICES ASSUME HalfDone(r)'
                 PROVE  \/ HalfDone(p) \/ (p = "ack" /\ mc_rd /\ ma \in Absent)
                        \/ (p = "ack" /\ mc_rd /\ mc_wr /\ ma \notin Absent)
      OBVIOUS
    <2>1. /\ ~mc_split_cyc_sync'
          /\ \/ cpu' = "rdwr" /\ r \in {"reading", "mai_rd_rs"} \cup Ends
             \/ cpu' = "paused"
             \/ cpu' = "rs" /\ r \in {"rdwr_rs", "rdwr_rs_D"}
      BY DEF HalfDone
    <2>2. x.op \notin {"it0", "key", "at4"}
      BY <2>1 DEF Goes, Request
    <2>3. ~mc_split_cyc_sync
      BY <2>1, <2>2, FlagsGo DEF Untouched
    <2>4. CASE cpu' = "rdwr" /\ r \in {"reading", "mai_rd_rs"} \cup Ends
      <3>1. cpu = "rdwr"
        BY <2>4 DEF Goes, First, Request, Ends, Answering
      <3>2. p \in {"reading", "mai_rd_rs", "ack", "mc_wr_rs"} \cup Ends
        BY <2>4, <3>1 DEF Goes, Flows, First, Request, Ends, Answering, Awaiting, Awaits
      <3>3. p # "mc_wr_rs"
        BY <1>1, <3>1 DEF CpuInv, Settled, Asking, Ends, Answering
      <3>4. p = "ack" => mc_rd /\ mc_wr
        BY <1>1, <2>3, <3>1 DEF FlagInv, Settled, Asking
      <3> QED
        BY <2>3, <3>1, <3>2, <3>3, <3>4 DEF HalfDone
    <2>5. CASE cpu' = "paused"
      <3>1. cpu = "paused" \/ (cpu = "rdwr" /\ p = "rs_t1")
        BY <2>5 DEF Goes, Request
      <3> QED
        BY <2>3, <3>1 DEF HalfDone, Ends, Answering
    <2>6. CASE cpu' = "rs" /\ r \in {"rdwr_rs", "rdwr_rs_D"}
      <3>1. cpu = "paused" \/ (cpu = "rs" /\ p \in {"rdwr_rs", "rdwr_rs_D"})
        BY <2>6 DEF Goes, Flows, First, Request
      <3> QED
        BY <2>3, <3>1 DEF HalfDone
    <2> QED
      BY <2>1, <2>4, <2>5, <2>6
  <1>39. HalfDone(r)' => Owed(t)' \/ (act' = NoPort /\ ma' \in Absent)
    <2> SUFFICES ASSUME HalfDone(r)'
                 PROVE  Owed(t)' \/ (act' = NoPort /\ ma' \in Absent)
      OBVIOUS
    <2>1. Owed(s) \/ (act = NoPort /\ ma \in Absent)
      <3>1. CASE HalfDone(p)
        BY <1>1, <3>1 DEF ServeInv
      <3>2. CASE p = "ack" /\ mc_rd /\ ma \in Absent
        BY <1>1, <1>20, <3>2 DEF AbsentInv
      <3>3. CASE p = "ack" /\ mc_rd /\ mc_wr /\ ma \notin Absent
        BY <1>1, <3>3 DEF ServeInv, Owed, Parted
      <3> QED
        BY <1>38, <3>1, <3>2, <3>3
    <2>2. left["rs_D"] = 0 /\ s # "t1b"
      BY <1>34, <1>38
    <2>3. Owed(s) => Owed(t)'
      BY <1>2, <2>2
    <2>4. ASSUME act = NoPort, ma \in Absent
          PROVE  act' = NoPort /\ ma' \in Absent
      <3>1. act' = NoPort
        BY <1>32, <2>4 DEF Connected
      <3>2. x.op \notin Request
        BY <1>38 DEF Goes, Request, HalfDone
      <3>3. ma' = ma
        BY <3>2, AddressGoes
      <3> QED
        BY <2>4, <3>1, <3>3
    <2> QED
      BY <2>1, <2>3, <2>4
  \* the acknowledge
  <1>40. t = "t1a" <=> left'["addr_ack"] > 0
    <2>1. s = "t1b" => "addr_ack" \notin high
      BY <1>1 DEF ServeInv
    <2> QED
      BY <1>2, <1>3, <1>4, <1>5, <2>1
  <1>41. "addr_ack" \in high' => t = "t1a"
    BY <1>4, <1>5
  <1>42. t = "t1a" => /\ r = "asking" /\ act' = 0 /\ cma' = ma' /\ ma' \notin Absent /\ ~proc_rs'
                      /\ (cma_rd_rq' <=> mc_rd') /\ (cma_wr_rq' <=> mc_wr')
    BY <1>2, <1>5, <1>9
  <1>43. ~cma_wr_rq' /\ t \in Parted \cup {"pse", "t3"} => ~proc_rs'
    <2>1. CASE s = "t1b"
      BY <1>2, <2>1
    <2>2. CASE s # "t1b"
      <3>1. cma_wr_rq' = cma_wr_rq
        BY <1>2, <2>2
      <3>2. left["rs_D"] > 0 => cma_wr_rq
        BY <1>1 DEF ServeInv, Owed
      <3>3. t \in Parted \cup {"pse", "t3"} => s \in Parted \cup {"pse", "t3"}
        BY <2>2 DEF Onward, Parted
      <3>4. ~cma_wr_rq /\ s \in Parted \cup {"pse", "t3"} => ~proc_rs
        BY <1>1 DEF ServeInv
      <3> QED
        BY <1>3, <1>4, <3>1, <3>2, <3>3, <3>4
    <2> QED
      BY <2>1, <2>2
  <1> QED
    BY <1>12, <1>13, <1>14, <1>15, <1>16, <1>17, <1>18, <1>24, <1>25, <1>28, <1>29, <1>31,
       <1>37, <1>39, <1>40, <1>41, <1>42, <1>43 DEF ServeInv

(* Who the module is connected to, after a step.                           *)
LEMMA PortOn ==
  ASSUME NEW x, NEW s \in Stage, NEW p \in Turn, Ticks(x, s, p),
         NEW r \in Turn, Goes(x, s, p, r), NEW t \in Stage, Onward(s, t)
  PROVE  PortInv(t, r)'
  <1>1. PortInv(s, p) /\ FrontInv(s, p) /\ ServeInv(s, p) /\ OpenInv(s) /\ Typed
    BY DEF Ticks, Now, ServiceInv, StageInv
  <1>2. /\ left'["t0"] = (IF Connected /\ "t0" \notin high THEN 1 ELSE 0)
        /\ left'["t0_D"] = (IF left["t0"] > 0 THEN 5 ELSE Count(left["t0_D"]))
        /\ left'["proc_rs"] = (IF proc_rs /\ "proc_rs" \notin high THEN 1 ELSE 0)
        /\ "proc_rs" \in high' <=> proc_rs
        /\ left'["state_clr"] = (IF ((s = "t3" /\ ~cma_wr_rq) \/ left["proc_rs"] > 0)
                                    /\ "state_clr" \notin high THEN 1 ELSE 0)
        /\ "state_clr" \in high' <=> (s = "t3" /\ ~cma_wr_rq) \/ left["proc_rs"] > 0
        /\ act' = (IF Connected THEN 0 ELSE IF left["state_clr"] > 0 THEN NoPort ELSE act)
        /\ rq_sync' <=> ~on("t2") /\ ((left["t0_D"] = 1 /\ act # NoPort) \/ rq_sync)
        /\ proc_rs' <=> left["rs_D"] = 1 \/ (s # "t1b" /\ proc_rs)
    BY SideGoes DEF on
  <1>3. /\ \A q \in {"t0", "t0_D", "state_clr", "proc_rs", "rs_D"} : left[q] \in Nat
        /\ left["proc_rs"] > 0 => "proc_rs" \in high
        /\ on("t2") => s = "t2"
    <2>1. \A q \in {"t0", "t0_D", "state_clr", "proc_rs", "rs_D"} : q \in Pulse
      BY DEF Pulse, Delay
    <2>2. Delay["proc_rs"] = 1 /\ "proc_rs" \in Pulse
      BY DEF Pulse, Delay
    <2>3. /\ \A q \in Pulse : left[q] \in Nat /\ left[q] <= Delay[q]
          /\ \A q \in Pulse : Delay[q] = 1 /\ on(q) => q \in high
          /\ on("t2") => s = "t2"
      BY StagesOn DEF Ticks, ChainPulse
    <2>4. left["proc_rs"] > 0 => on("proc_rs")
      BY <2>2, <2>3 DEF on
    <2> QED
      BY <2>1, <2>2, <2>3, <2>4
  <1>4. 0 # NoPort /\ act \in {0, NoPort}
    BY ServiceGoes
  <1>5. s # "t1b" => cma_wr_rq' = cma_wr_rq
    BY ServiceGoes
  <1>6. act' \in {0, NoPort}
    BY <1>2, <1>4
  <1>7. /\ s \in (Parted \ {"t1a"}) \cup {"pse"} => t \in (Parted \ {"t1a"}) \cup {"pse", "t3"}
        /\ s \in Parted \cup {"pse"} /\ cma_wr_rq /\ ~proc_rs
             => t \in (Parted \ {"t1a"}) \cup {"pse"}
        /\ t \in (Parted \ {"t1a"}) \cup {"pse", "t3"} => s \in Parted \cup {"pse"}
        /\ t = "t1a" <=> s = "t1b"
        /\ s = "t1a" => t = "t2"
        /\ t = "t3" <=> s = "pse" /\ (proc_rs \/ ~cma_wr_rq)
        /\ s = "t3" => t = "t4" /\ left'["t4"] = 2
    <2>1. left'["t4"] = IF s = "t3" THEN 2 ELSE Count(left["t4"])
      BY ChainPulsesGo DEF Ticks
    <2>2. /\ t = "t1a" <=> s = "t1b"
          /\ t = "t3" <=> s = "pse" /\ (proc_rs \/ ~cma_wr_rq)
      BY StageFrom
    <2>3. /\ s \in (Parted \ {"t1a"}) \cup {"pse"} => t \in (Parted \ {"t1a"}) \cup {"pse", "t3"}
          /\ s \in Parted \cup {"pse"} /\ cma_wr_rq /\ ~proc_rs
               => t \in (Parted \ {"t1a"}) \cup {"pse"}
          /\ t \in (Parted \ {"t1a"}) \cup {"pse", "t3"} => s \in Parted \cup {"pse"}
          /\ s = "t1a" => t = "t2"
          /\ s = "t3" => t = "t4"
      BY DEF Onward, Parted
    <2> QED
      BY <2>1, <2>2, <2>3
  <1>8. Connected => await_rq /\ s \in Late
    BY <1>1 DEF Connected, FrontInv
  <1>9. "state_clr" \in high => left["state_clr"] > 0
    BY <1>1 DEF PortInv
  <1>10. act' = 0 => \/ left'["t0"] > 0 \/ left'["t0_D"] > 0 \/ rq_sync'
                     \/ t \in Parted \cup {"pse", "t3"}
                     \/ t = "t4" /\ left'["t4"] = 2 /\ left'["state_clr"] > 0
    <2>1. CASE Connected
      <3>1. "t0" \in high => left["t0"] > 0
        BY <1>1, <1>8, <2>1 DEF FrontInv
      <3> QED
        BY <1>2, <2>1, <3>1
    <2>2. ASSUME act' = 0, ~Connected
          PROVE  \/ left'["t0"] > 0 \/ left'["t0_D"] > 0 \/ rq_sync'
                 \/ t \in Parted \cup {"pse", "t3"}
                 \/ t = "t4" /\ left'["t4"] = 2 /\ left'["state_clr"] > 0
      <3>1. act = 0 /\ ~(left["state_clr"] > 0)
        BY <1>2, <1>4, <2>2
      <3>2. \/ left["t0"] > 0 \/ left["t0_D"] > 0 \/ rq_sync \/ s \in Parted \cup {"pse", "t3"}
        BY <1>1, <3>1 DEF PortInv
      <3>3. CASE left["t0"] > 0
        BY <1>2, <3>3
      <3>4. CASE left["t0_D"] > 0 /\ ~(left["t0"] > 0)
        <4>1. s # "t2"
          BY <1>1, <3>4 DEF FrontInv, Late
        <4>2. CASE left["t0_D"] = 1
          BY <1>2, <1>3, <1>4, <3>1, <4>1, <4>2
        <4>3. CASE left["t0_D"] # 1
          BY <1>2, <1>3, <3>4, <4>3 DEF Count
        <4> QED
          BY <4>2, <4>3
      <3>5. CASE rq_sync
        <4>1. on("t2") => t = "read_off"
          BY <1>3 DEF Onward
        <4> QED
          BY <1>2, <3>5, <4>1 DEF Parted
      <3>6. CASE s \in Parted \cup {"pse"}
        BY <1>7, <3>6 DEF Parted
      <3>7. CASE s = "t3"
        <4>1. ~cma_wr_rq \/ left["proc_rs"] > 0
          BY <1>1, <3>1, <3>7 DEF PortInv
        <4>2. left'["state_clr"] > 0
          BY <1>2, <1>9, <3>1, <3>7, <4>1
        <4> QED
          BY <1>7, <3>7, <4>2
      <3> QED
        BY <3>2, <3>3, <3>4, <3>5, <3>6, <3>7
    <2> QED
      BY <2>1, <2>2
  <1>11. act' = 0 /\ t \in (Parted \ {"t1a"}) \cup {"pse", "t3"} /\ proc_rs
           => left'["proc_rs"] > 0 \/ left'["state_clr"] > 0
    <2> SUFFICES ASSUME act' = 0, t \in (Parted \ {"t1a"}) \cup {"pse", "t3"}, proc_rs,
                        "proc_rs" \in high
                 PROVE  left'["state_clr"] > 0
      BY <1>2
    <2>1. s \in Parted \cup {"pse"} /\ s # "t1a"
      BY <1>1, <1>7 DEF ServeInv
    <2>2. s \notin Late
      BY <2>1 DEF Late, Parted
    <2>3. act = 0 /\ ~(left["state_clr"] > 0)
      BY <1>2, <1>4, <1>8, <2>2
    <2>4. left["proc_rs"] > 0
      BY <1>1, <2>1, <2>3 DEF PortInv
    <2> QED
      BY <1>2, <1>9, <2>3, <2>4
  <1>12. act' = 0 /\ t = "t3"
           => ~cma_wr_rq' \/ left'["proc_rs"] > 0 \/ left'["state_clr"] > 0
    BY <1>5, <1>7, <1>11
  <1>13. left'["proc_rs"] > 0 => /\ t \in (Parted \ {"t1a"}) \cup {"pse", "t3"}
                                 /\ cma_wr_rq' /\ proc_rs'
    <2> SUFFICES ASSUME left'["proc_rs"] > 0
                 PROVE  /\ t \in (Parted \ {"t1a"}) \cup {"pse", "t3"}
                        /\ cma_wr_rq' /\ proc_rs'
      OBVIOUS
    <2>1. proc_rs /\ "proc_rs" \notin high
      BY <1>2
    <2>2. s \in (Parted \ {"t1a"}) \cup {"pse"}
      BY <1>1, <2>1 DEF PortInv
    <2>3. cma_wr_rq /\ s # "t1b"
      BY <1>1, <2>1, <2>2 DEF ServeInv, Parted
    <2>4. cma_wr_rq'
      BY <1>5, <2>3
    <2> QED
      BY <1>2, <1>7, <2>1, <2>2, <2>3, <2>4
  <1>14. left'["state_clr"] > 0 => /\ t \in (Parted \ {"t1a"}) \cup {"pse", "t3", "t4"}
                                   /\ t = "t4" => left'["t4"] = 2
                                   /\ proc_rs' \/ t = "t4"
                                   /\ left'["proc_rs"] = 0
    <2>1. CASE left["proc_rs"] > 0
      <3>1. s \in (Parted \ {"t1a"}) \cup {"pse", "t3"} /\ proc_rs /\ s # "t1b"
        BY <1>1, <2>1 DEF PortInv, Parted
      <3>2. left'["proc_rs"] = 0 /\ proc_rs'
        BY <1>2, <1>3, <2>1, <3>1
      <3>3. t \in (Parted \ {"t1a"}) \cup {"pse", "t3"} \/ (t = "t4" /\ left'["t4"] = 2)
        BY <1>7, <3>1
      <3> QED
        BY <3>2, <3>3 DEF Parted
    <2>2. CASE s = "t3"
      <3>1. ~(proc_rs /\ "proc_rs" \notin high)
        BY <1>1, <2>2 DEF PortInv, Parted
      <3>2. left'["proc_rs"] = 0
        BY <1>2, <3>1
      <3> QED
        BY <1>7, <2>2, <3>2
    <2> QED
      BY <1>2, <2>1, <2>2
  <1>15. "state_clr" \in high' => left'["state_clr"] > 0
    <2>1. (s = "t3" /\ ~cma_wr_rq) \/ left["proc_rs"] > 0 => ~(left["state_clr"] > 0)
      BY <1>1 DEF PortInv, ServeInv
    <2> QED
      BY <1>2, <1>9, <2>1
  <1>16. proc_rs' /\ "proc_rs" \notin high' => t \in (Parted \ {"t1a"}) \cup {"pse"}
    <2>1. left["rs_D"] > 0 => cma_wr_rq /\ ~proc_rs /\ s \in Parted \cup {"pse"}
      BY <1>1 DEF ServeInv, Owed
    <2> QED
      BY <1>2, <1>7, <2>1
  <1>17. t \in (Parted \ {"t1a"}) \cup {"pse"} /\ ~proc_rs' => "proc_rs" \notin high'
    <2>1. t \in (Parted \ {"t1a"}) \cup {"pse"} => s # "t1b"
      BY <1>7 DEF Parted
    <2> QED
      BY <1>2, <2>1
  <1>18. act' = 0 /\ t \in (Parted \ {"t1a"}) \cup {"pse", "t3"} /\ "proc_rs" \in high'
           => left'["proc_rs"] > 0 \/ left'["state_clr"] > 0
    BY <1>2, <1>11
  <1> QED
    BY <1>6, <1>10, <1>12, <1>13, <1>14, <1>15, <1>16, <1>17, <1>18 DEF PortInv

(* A request to missing memory, after a step.                              *)
LEMMA AbsentOn ==
  ASSUME NEW x, NEW s \in Stage, NEW p \in Turn, Ticks(x, s, p),
         NEW r \in Turn, Goes(x, s, p, r), NEW t \in Stage, Onward(s, t)
  PROVE  AbsentInv(t, r)'
  <1> SUFFICES ASSUME ma' \in Absent, cpu' \in Awaits,
                      r \in {"nxm", "nxm_rst", "ack"} \/ (r = "asking" /\ due'["D3"] = 0)
               PROVE  t = "still" /\ act' = NoPort
    BY DEF AbsentInv
  <1>1. /\ AbsentInv(s, p) /\ PortInv(s, p) /\ FrontInv(s, p) /\ ServeInv(s, p) /\ OpenInv(s)
        /\ BoundInv(s, p) /\ TimeInv(p) /\ Typed
    BY DEF Ticks, Now, ServiceInv, StageInv, TurnInv
  <1>2. /\ due'["D3"] = (IF p = "rq" THEN NxmDelay ELSE Count(due["D3"]))
        /\ due["D3"] \in Nat /\ due["D3"] <= NxmDelay /\ NxmDelay \in Nat /\ NxmDelay >= 100
    BY TimersGo, NowTyped DEF Ticks
  <1>3. /\ r = "nxm" => p = "asking" /\ due["D3"] = 1
        /\ r = "nxm_rst" => p = "nxm"
        /\ r = "ack" => p \in {"mai_ack", "nxm_rst"}
        /\ r = "asking" => p \in {"rq_set", "nxm", "asking"}
    BY ComesFrom DEF is
  <1>4. p # "rq_set" \/ r # "asking"
    <2>1. p = "rq_set" => due["D3"] >= NxmDelay - 7
      BY <1>1, <1>2 DEF TimeInv
    <2> QED
      BY <1>2, <2>1 DEF Count
  <1>5. /\ p \in {"asking", "nxm", "mai_ack", "nxm_rst"} /\ cpu \in Awaits /\ ma \in Absent
        /\ p = "asking" => due["D3"] <= 1
    <2>1. p \in {"asking", "nxm", "mai_ack", "nxm_rst"}
      BY <1>3, <1>4
    <2>2. x.op \notin Request
      BY <2>1, ComesFrom
    <2>3. ma \in Absent
      BY <2>2, AddressGoes
    <2>4. cpu \in Awaits
      BY <2>1 DEF Ticks, Now, TurnInv, CpuInv, Typed, TypeOK, Answering
    <2>5. p = "asking" => due["D3"] <= 1
      BY <1>2, <1>3 DEF Count
    <2> QED
      BY <2>1, <2>3, <2>4, <2>5
  <1>6. p # "mai_ack"
    BY <1>1, <1>5 DEF ServeInv
  <1>7. s = "still" /\ act = NoPort /\ ~rq_sync
    <2>1. s = "t2" \/ ~rq_sync
      BY <1>1, <1>5 DEF FrontInv
    <2>2. CASE p = "asking" /\ due["D3"] = 1
      <3>1. s \in {"t1b", "t1a", "still"}
        <4>1. ASSUME s \notin {"t1b", "t1a", "still"}
              PROVE  due["D3"] >= Rest(s) + 15
          BY <1>1, <2>2, <4>1 DEF BoundInv, Timed
        <4>2. Rest(s) \in Nat
          BY StagesOn DEF Rest, Ticks, Stage, ChainPulse
        <4> QED
          BY <2>2, <4>1, <4>2
      <3>2. s = "still" /\ ~rq_sync
        BY <1>1, <2>1, <3>1 DEF OpenInv, Opening
      <3>3. ~(left["t0"] > 0) /\ ~(left["t0_D"] > 0)
        BY <1>1, <1>5 DEF FrontInv
      <3> QED
        BY <1>1, <3>2, <3>3 DEF PortInv, Parted
    <2>3. CASE ~(p = "asking" /\ due["D3"] = 1)
      <3>1. s = "still" /\ act = NoPort
        BY <1>1, <1>2, <1>5, <1>6, <2>3 DEF AbsentInv
      <3> QED
        BY <2>1, <3>1
    <2> QED
      BY <2>2, <2>3
  <1>8. t = "still"
    BY <1>7, StageFrom
  <1>9. act' = NoPort
    BY <1>5, <1>7, SideGoes DEF Connected
  <1> QED
    BY <1>8, <1>9

(* Every clock brings a cycle nearer its end, but for the three meetings.  *)
Waiting(s) ==
  \/ s = "rd_sync" /\ ~rd_done
  \/ s = "pse" /\ cma_wr_rq /\ ~proc_rs
  \/ s = "wr_sync" /\ ~wr_done

(* A cycle that need not wait is a clock nearer to its end.                *)
LEMMA RestGoes ==
  ASSUME NEW x, NEW s \in Stage, NEW p \in Turn, Ticks(x, s, p), NEW t \in Stage, Onward(s, t)
  PROVE  /\ Rest(s) \in Nat /\ Rest(s) <= 85
         /\ Rest(t)' \in Nat /\ Rest(t)' <= 85
         /\ s # "still" /\ ~Waiting(s) => Rest(t)' = Rest(s) - 1
         /\ Waiting(s) => t = s /\ Rest(t)' = Rest(s)
         /\ t \in (Parted \ {"t1a"}) \cup {"pse", "t3"} => Rest(t)' <= 83
         /\ s \in (Parted \ {"t1a"}) \cup {"pse", "t3"} => Rest(s) >= 53
  <1>1. /\ left'["t2"] = IF s = "t1a" THEN 12 ELSE Count(left["t2"])
        /\ left'["read_off"] = IF on("t2") THEN 10 ELSE Count(left["read_off"])
        /\ left'["pse_set"] = IF s = "rd" THEN 5 ELSE Count(left["pse_set"])
        /\ left'["t4"] = IF s = "t3" THEN 2 ELSE Count(left["t4"])
        /\ left'["t3_D1"] = IF on("t4") THEN 25 ELSE Count(left["t3_D1"])
        /\ left'["t3_D2"] = IF on("t3_D1") THEN 10 ELSE Count(left["t3_D2"])
        /\ left'["t6"] = IF s = "t6p" THEN 12 ELSE Count(left["t6"])
    BY ChainPulsesGo DEF Ticks
  <1>2. /\ \A q \in ChainPulse : left[q] \in Nat /\ (left[q] > 0 <=> q = s)
        /\ \A q \in ChainPulse : left[q] <= Delay[q]
        /\ s # "start" /\ t # "start"
    BY StageFrom, StagesOn DEF Ticks, ChainPulse, Pulse, Delay
  <1>3. /\ left["t2"] <= 12 /\ left["read_off"] <= 10 /\ left["pse_set"] <= 5 /\ left["t4"] <= 2
        /\ left["t3_D1"] <= 25 /\ left["t3_D2"] <= 10 /\ left["t6"] <= 12
        /\ \A q \in {"t2", "read_off", "pse_set", "t4", "t3_D1", "t3_D2", "t6"} :
             left[q] \in Nat /\ (left[q] > 0 <=> q = s)
    <2>1. /\ Delay["t2"] = 12 /\ Delay["read_off"] = 10 /\ Delay["pse_set"] = 5
          /\ Delay["t4"] = 2 /\ Delay["t3_D1"] = 25 /\ Delay["t3_D2"] = 10 /\ Delay["t6"] = 12
      BY DEF Delay
    <2>2. {"t2", "read_off", "pse_set", "t4", "t3_D1", "t3_D2", "t6"} \subseteq ChainPulse
      BY DEF ChainPulse
    <2> QED
      BY <1>2, <2>1, <2>2
  <1>4. /\ Rest(s) \in Nat /\ Rest(s) <= 85
        /\ s \in (Parted \ {"t1a"}) \cup {"pse", "t3"} => Rest(s) >= 53
    <2>1. /\ s = "t1b" => Rest(s) = 85
          /\ s = "t1a" => Rest(s) = 84
          /\ s = "t2" => Rest(s) = left["t2"] + 71
          /\ s = "read_off" => Rest(s) = left["read_off"] + 61
          /\ s = "rd_sync" => Rest(s) = 61
          /\ s = "rd" => Rest(s) = 60
          /\ s = "pse_set" => Rest(s) = left["pse_set"] + 54
          /\ s = "pse" => Rest(s) = 54
          /\ s = "t3" => Rest(s) = 53
      BY DEF Rest
    <2>2. /\ s = "t4" => Rest(s) = left["t4"] + 50
          /\ s = "t3_D1" => Rest(s) = left["t3_D1"] + 25
          /\ s = "t3_D2" => Rest(s) = left["t3_D2"] + 15
          /\ s = "t6p" => Rest(s) = 15
          /\ s = "t6" => Rest(s) = left["t6"] + 2
          /\ s = "wr_sync" => Rest(s) = 2
          /\ s = "wr" => Rest(s) = 1
          /\ s = "still" => Rest(s) = 0
      BY DEF Rest
    <2>3. s \in {"t1b", "t1a", "t2", "read_off", "rd_sync", "rd", "pse_set", "pse", "t3", "t4",
                 "t3_D1", "t3_D2", "t6p", "t6", "wr_sync", "wr", "still"}
      BY <1>2 DEF Stage, ChainPulse
    <2>4. Rest(s) \in Nat /\ Rest(s) <= 85
      BY <1>3, <2>1, <2>2, <2>3
    <2>5. s \in (Parted \ {"t1a"}) \cup {"pse", "t3"} => Rest(s) >= 53
      BY <1>3, <2>1 DEF Parted
    <2> QED
      BY <2>4, <2>5
  <1>5. /\ s \in {"t1b", "t1a"} => Rest(t)' = Rest(s) - 1
        /\ s = "t2" => Rest(t)' = Rest(s) - 1
        /\ s = "read_off" => Rest(t)' = Rest(s) - 1
    BY <1>1, <1>3 DEF Rest, Onward, on, Count
  <1>6. /\ s \in {"rd_sync", "rd"} /\ ~Waiting(s) => Rest(t)' = Rest(s) - 1
        /\ s = "pse_set" => Rest(t)' = Rest(s) - 1
        /\ s \in {"pse", "t3"} /\ ~Waiting(s) => Rest(t)' = Rest(s) - 1
    BY <1>1, <1>3 DEF Rest, Onward, on, Count, Waiting
  <1>7. /\ s = "t4" => Rest(t)' = Rest(s) - 1
        /\ s = "t3_D1" => Rest(t)' = Rest(s) - 1
        /\ s = "t3_D2" => Rest(t)' = Rest(s) - 1
    BY <1>1, <1>3 DEF Rest, Onward, on, Count
  <1>8. /\ s \in {"t6p", "wr"} => Rest(t)' = Rest(s) - 1
        /\ s = "t6" => Rest(t)' = Rest(s) - 1
        /\ s = "wr_sync" /\ ~Waiting(s) => Rest(t)' = Rest(s) - 1
    BY <1>1, <1>3 DEF Rest, Onward, on, Count, Waiting
  <1>9. s # "still" /\ ~Waiting(s) => Rest(t)' = Rest(s) - 1
    BY <1>2, <1>5, <1>6, <1>7, <1>8 DEF Stage, ChainPulse
  <1>10. Waiting(s) => t = s /\ Rest(t)' = Rest(s)
    BY DEF Waiting, Onward, Rest
  <1>11. s = "still" => t \in {"still", "t1b"} /\ Rest(t)' \in {0, 85}
    BY <1>2 DEF Onward, Rest
  <1>12. s # "still" => Rest(s) >= 1
    BY <1>2, <1>3 DEF Rest, Stage, ChainPulse
  <1>13. Rest(t)' \in Nat /\ Rest(t)' <= 85
    BY <1>4, <1>9, <1>10, <1>11, <1>12
  <1>14. t \in (Parted \ {"t1a"}) \cup {"pse", "t3"} => Rest(t)' <= 83
    <2>1. t \in (Parted \ {"t1a"}) \cup {"pse", "t3"} => s \in Parted \cup {"pse"}
      BY DEF Onward, Parted
    <2>2. s \in Parted \cup {"pse"} /\ ~Waiting(s) => Rest(s) <= 84
      BY <1>3 DEF Rest, Parted
    <2>3. Waiting(s) => Rest(s) <= 61
      BY DEF Rest, Waiting
    <2>4. s \in Parted \cup {"pse"} => s # "still"
      BY DEF Parted
    <2> QED
      BY <1>4, <1>9, <1>10, <2>1, <2>2, <2>3, <2>4
  <1> QED
    BY <1>4, <1>9, <1>10, <1>13, <1>14

(* The timer still outlasts the module, after a step.                      *)
LEMMA BoundOn ==
  ASSUME NEW x, NEW s \in Stage, NEW p \in Turn, Ticks(x, s, p),
         NEW r \in Turn, Goes(x, s, p, r), NEW t \in Stage, Onward(s, t)
  PROVE  BoundInv(t, r)'
  <1>1. /\ BoundInv(s, p) /\ ServeInv(s, p) /\ FlagInv(p) /\ CpuInv(p) /\ TimeInv(p)
        /\ ReadInv(s) /\ WriteInv(s) /\ Typed
    BY DEF Ticks, Now, ServiceInv, StageInv, TurnInv
  <1>2. /\ due'["D3"] = (IF p = "rq" THEN NxmDelay ELSE Count(due["D3"]))
        /\ due["D3"] \in Nat /\ NxmDelay \in Nat /\ lag \in Nat
        /\ Rest(s) \in Nat /\ Rest(t)' \in Nat /\ Rest(t)' <= 85
        /\ s # "still" /\ ~Waiting(s) => Rest(t)' = Rest(s) - 1
        /\ Waiting(s) => t = s /\ Rest(t)' = Rest(s)
        /\ t \in (Parted \ {"t1a"}) \cup {"pse", "t3"} => Rest(t)' <= 83
        /\ s \in (Parted \ {"t1a"}) \cup {"pse", "t3"} => Rest(s) >= 53
    BY <1>1, TimersGo, NowTyped, RestGoes DEF Ticks, Typed, TypeOK
  <1>3. NxmDelay >= 100 /\ \A w \in Waits : w \in Nat /\ NxmDelay >= w + 100
    BY NowTyped, MemCycleAssumption DEF Ticks
  <1>4. /\ Requested' /\ ~(Requested /\ lag > 0) => lag' \in Waits
        /\ ~Requested' \/ (Requested /\ lag > 0) => lag' = Count(lag)
    <2>1. IF (m_read \/ m_write)' /\ ~(Requested /\ m_waitrequest)
          THEN lag' \in Waits
          ELSE lag' = IF lag = 0 THEN 0 ELSE lag - 1
      BY DEF Ticks, Moves, MemoryClock
    <2>2. /\ (m_read \/ m_write)' <=> Requested'
          /\ m_waitrequest <=> lag > 0
      BY DEF Requested, m_waitrequest
    <2> QED
      BY <2>1, <2>2 DEF Count
  <1>5. Requested' => lag' \in Nat /\ lag' + 100 <= NxmDelay
    <2>1. CASE Requested /\ lag > 0
      <3>1. lag + 100 <= NxmDelay
        BY <1>1, <2>1 DEF BoundInv
      <3>2. lag' = lag - 1
        BY <1>2, <1>4, <2>1 DEF Count
      <3> QED
        BY <1>2, <2>1, <3>1, <3>2
    <2>2. CASE ~(Requested /\ lag > 0)
      BY <1>3, <1>4, <2>2
    <2> QED
      BY <2>1, <2>2
  <1>6. /\ m_write' <=> (s = "t3" /\ cma_wr_rq) \/ (s # "t3" /\ m_write /\ lag > 0)
        /\ m_write' => Requested'
    <2>1. on("t3") <=> s = "t3"
      BY StagesOn DEF Ticks
    <2> QED
      BY <1>1, <2>1, MeetingsGo DEF Requested, Ticks
  <1> SUFFICES ASSUME r \in Timed, ma' \notin Absent \/ due'["D3"] > 0
               PROVE  /\ t \notin {"t1b", "t1a", "still"} => due'["D3"] >= Rest(t)' + 15
                      /\ m_write' => due'["D3"] >= lag' + 18
                      /\ t \in (Parted \ {"t1a"}) \cup {"pse", "t3"} /\ cma_wr_rq'
                           => \A w \in Waits : due'["D3"] >= w + 20 + (Rest(t)' - 53)
    BY <1>5 DEF BoundInv
  <1>7. p = "rq" \/ p \in {"nxm"} \cup Timed
    BY ComesFrom DEF Timed
  <1>8. CASE p = "rq"
    <2>1. due'["D3"] = NxmDelay
      BY <1>2, <1>8
    <2>2. due'["D3"] >= Rest(t)' + 15
      BY <1>2, <1>3, <2>1
    <2>3. m_write' => due'["D3"] >= lag' + 18
      BY <1>2, <1>5, <1>6, <2>1
    <2>4. t \in (Parted \ {"t1a"}) \cup {"pse", "t3"}
            => \A w \in Waits : due'["D3"] >= w + 20 + (Rest(t)' - 53)
      BY <1>2, <1>3, <2>1
    <2> QED
      BY <2>2, <2>3, <2>4
  <1>9. CASE p = "nxm"
    <2>1. ma \in Absent /\ due["D3"] = 0
      BY <1>1, <1>9 DEF FlagInv, TimeInv
    <2>2. due'["D3"] = 0
      BY <1>2, <1>9, <2>1 DEF Count
    <2>3. x.op \notin {"cont", "key"}
      BY <1>9, KeysWait
    <2>4. ma' = ma
      BY <1>9, <2>3, Carries
    <2> QED
      BY <2>1, <2>2, <2>4
  <1>10. CASE p \in Timed
    <2>1. r # "mai_ack"
      BY DEF Timed
    <2>2. s # "t1a"
      BY <2>1, ComesFrom
    <2>3. x.op = "none" \/ x.op = "key"
      BY <1>10, ComesFrom DEF Timed, Settled, Asking
    <2>4. ma' = ma
      BY <2>3, AddressGoes DEF Request
    <2>5. due'["D3"] = Count(due["D3"]) /\ (due'["D3"] > 0 => due["D3"] > 0)
      BY <1>2, <1>10 DEF Count, Timed
    <2>6. ma \notin Absent \/ due["D3"] > 0
      BY <2>4, <2>5
    <2>7. /\ s \notin {"t1b", "t1a", "still"} => due["D3"] >= Rest(s) + 15
          /\ m_write => due["D3"] >= lag + 18
          /\ s \in (Parted \ {"t1a"}) \cup {"pse", "t3"} /\ cma_wr_rq
               => \A w \in Waits : due["D3"] >= w + 20 + (Rest(s) - 53)
      BY <1>1, <1>10, <2>6 DEF BoundInv
    <2>8. ~(s = "rd_sync" /\ ~rd_done)
      <3>1. s = "rd_sync" /\ ~rd_done => Fetching(s)
        BY <1>1 DEF ReadInv, Fetching, Reading
      <3> QED
        BY <1>1, <1>10, <3>1 DEF ServeInv, Timed
    <2>9. ~(s = "pse" /\ cma_wr_rq /\ ~proc_rs)
      <3>1. s = "pse" /\ cma_wr_rq /\ ~proc_rs => Owed(s)
        BY DEF Owed
      <3>2. ~(left["rs_D"] > 0 \/ due["bus_mb"] > 0)
        BY <1>10, ServiceGoes DEF Timed
      <3>3. cpu # "paused"
        BY <1>1, <1>10 DEF CpuInv, Timed
      <3> QED
        BY <1>1, <1>10, <3>1, <3>2, <3>3 DEF ServeInv, Timed, Ends, Answering
    <2>10. Waiting(s) => m_write /\ s = "wr_sync"
      BY <1>1, <2>8, <2>9 DEF Waiting, WriteInv, Writing
    <2>11. t \notin {"t1b", "t1a", "still"} => due'["D3"] >= Rest(t)' + 15
      <3>1. t \notin {"t1b", "t1a", "still"} => s \notin {"t1b", "t1a", "still"}
        <4>1. s = "still" => t \in {"still", "t1b"}
          BY StageFrom DEF Onward
        <4>2. s = "t1b" => t = "t1a"
          BY StageFrom
        <4> QED
          BY <2>2, <4>1, <4>2
      <3>2. CASE Waiting(s)
        <4>1. Rest(t)' = 2
          BY <1>2, <2>10, <3>2 DEF Rest
        <4> QED
          BY <1>2, <2>5, <2>7, <2>10, <3>2, <4>1 DEF Count
      <3>3. CASE ~Waiting(s)
        BY <1>2, <2>5, <2>7, <3>1, <3>3 DEF Count
      <3> QED
        BY <3>2, <3>3
    <2>12. m_write' => due'["D3"] >= lag' + 18
      <3>1. CASE s = "t3" /\ cma_wr_rq
        <4>1. ~Requested
          BY <1>1, <3>1 DEF Requested, ReadInv, WriteInv, Reading, Writing
        <4>2. m_write' => lag' \in Waits /\ lag' \in Nat
          BY <1>3, <1>4, <1>6, <4>1
        <4>3. Rest(s) = 53
          BY <3>1 DEF Rest
        <4>4. \A w \in Waits : due["D3"] >= w + 20
          BY <1>2, <1>3, <2>7, <3>1, <4>3
        <4> QED
          BY <1>2, <2>5, <4>2, <4>4 DEF Count
      <3>2. CASE s # "t3" /\ m_write /\ lag > 0
        <4>1. Requested
          BY <3>2 DEF Requested
        <4> QED
          BY <1>2, <1>4, <2>5, <2>7, <3>2, <4>1 DEF Count
      <3> QED
        BY <1>6, <3>1, <3>2
    <2>13. t \in (Parted \ {"t1a"}) \cup {"pse", "t3"} /\ cma_wr_rq'
             => \A w \in Waits : due'["D3"] >= w + 20 + (Rest(t)' - 53)
      <3> SUFFICES ASSUME t \in (Parted \ {"t1a"}) \cup {"pse", "t3"}, cma_wr_rq',
                          NEW w \in Waits
                   PROVE  due'["D3"] >= w + 20 + (Rest(t)' - 53)
        OBVIOUS
      <3>1. s \in Parted \cup {"pse"} /\ s # "t1a" /\ s # "t1b" /\ s # "still" /\ s # "wr_sync"
        BY <2>2 DEF Onward, Parted
      <3>2. cma_wr_rq
        BY <3>1, ServiceGoes
      <3>3. ~Waiting(s)
        BY <2>10, <3>1
      <3>4. Rest(t)' = Rest(s) - 1 /\ Rest(s) >= 53
        BY <1>2, <3>1, <3>3
      <3>5. due["D3"] >= w + 20 + (Rest(s) - 53) /\ w \in Nat
        BY <1>3, <2>7, <3>1, <3>2
      <3> QED
        BY <1>2, <2>5, <3>4, <3>5 DEF Count
    <2> QED
      BY <2>11, <2>12, <2>13
  <1> QED
    BY <1>7, <1>8, <1>9, <1>10

(***************************************************************************)
(* The words, from turn to turn                                            *)
(***************************************************************************)

(* What each place of a word takes.                                        *)
LEMMA WordsGo ==
  ASSUME NEW x, NEW s \in Stage, NEW p \in Turn, Ticks(x, s, p)
  PROVE  /\ mb' = (IF x.op \in {"wr", "rs"} THEN x.word
                   ELSE IF due["mb_clr_D"] = 1 THEN {}
                   ELSE IF mc_rd /\ left["stb"] > 0 THEN mb \cup sa ELSE mb)
         /\ cmb' = (IF left["stb"] > 0 THEN cmb \cup sa
                    ELSE IF left["cmb_clr"] > 0 THEN {}
                    ELSE IF act = 0 /\ (due["bus_mb"] = 1 \/ mb_pulse > 0) THEN cmb \cup mb
                    ELSE cmb)
         /\ sa' = (IF m_read /\ lag = 0 THEN store[cma] ELSE sa)
         /\ store' = (IF m_write /\ lag = 0 THEN [store EXCEPT ![cma] = cmb] ELSE store)
         /\ left'["cmb_clr"] = (IF (s = "t1b" \/ (left["pse_set"] = 1 /\ cma_rd_rq /\ cma_wr_rq))
                                   /\ "cmb_clr" \notin high THEN 1 ELSE 0)
         /\ "cmb_clr" \in high' <=> s = "t1b" \/ (left["pse_set"] = 1 /\ cma_rd_rq /\ cma_wr_rq)
         /\ left["cmb_clr"] \in Nat
  <1>1. /\ Typed /\ Moves(x) /\ Schedule(ToModule) /\ ServeInv(s, p)
    BY DEF Ticks, Now, Moves, ModuleClock, ServiceInv
  <1>11. PICK t \in Stage : Onward(s, t)
    BY SomeStage DEF Ticks
  <1>2. left["stb"] > 0 => act = 0
    <2>1. left["stb"] > 0 => Fetching(s)
      BY <1>11, ServiceGoes
    <2> QED
      BY <1>1, <2>1 DEF ServeInv
  <1>3. /\ on("stb") <=> left["stb"] > 0
        /\ on("cmb_clr") <=> left["cmb_clr"] > 0
        /\ left["cmb_clr"] \in Nat
        /\ on("t1b") <=> s = "t1b"
    BY StagesOn DEF Ticks, on, Pulse, Delay
  <1>4. lag \in Nat /\ mb_pulse \in 0 .. 3 /\ 0 # NoPort
    BY <1>1, <1>11, ServiceGoes DEF Typed, TypeOK
  <1>5. BusMb = (IF due["bus_mb"] = 1 \/ mb_pulse > 0 THEN mb ELSE {})
                \cup (IF left["stb"] > 0 THEN sa ELSE {})
    BY <1>2, <1>3 DEF BusMb, mc_membus_mb, mb_out, is
  <1>6. mb' = (IF x.op \in {"wr", "rs"} THEN x.word
               ELSE IF due["mb_clr_D"] = 1 THEN {}
               ELSE IF mc_rd /\ left["stb"] > 0 THEN mb \cup sa ELSE mb)
    <2>1. mb' = IF x.op \in {"wr", "rs"} THEN x.word
                ELSE IF due["mb_clr_D"] = 1 THEN {}
                ELSE IF mc_rd THEN mb \cup BusMb ELSE mb
      BY <1>1 DEF Moves, McClock, Buffers, ToProcessor, Asked, is
    <2>2. mb \cup BusMb = IF left["stb"] > 0 THEN mb \cup sa ELSE mb
      BY <1>5
    <2> QED
      BY <2>1, <2>2
  <1>7. cmb' = (IF left["stb"] > 0 THEN cmb \cup sa
                ELSE IF left["cmb_clr"] > 0 THEN {}
                ELSE IF act = 0 /\ (due["bus_mb"] = 1 \/ mb_pulse > 0) THEN cmb \cup mb
                ELSE cmb)
    <2>1. cmb' = IF left["stb"] > 0 THEN cmb \cup sa
                 ELSE IF left["cmb_clr"] > 0 THEN {}
                 ELSE cmb \cup mb_in(ToModule)
      BY <1>1, <1>3 DEF Moves, ModuleClock, Buffer
    <2>2. mb_in(ToModule) = IF act = 0 THEN BusMb ELSE {}
      BY <1>1, OnTheBus
    <2>3. ~(left["stb"] > 0)
            => mb_in(ToModule) = IF act = 0 /\ (due["bus_mb"] = 1 \/ mb_pulse > 0) THEN mb ELSE {}
      BY <1>5, <2>2
    <2> QED
      BY <2>1, <2>3
  <1>8. /\ sa' = (IF m_read /\ lag = 0 THEN store[cma] ELSE sa)
        /\ store' = (IF m_write /\ lag = 0 THEN [store EXCEPT ![cma] = cmb] ELSE store)
    BY <1>1, <1>4, MeetingsGo DEF Moves, MemoryClock, m_waitrequest
  <1>9. Rises("cmb_clr", on("t1b") \/ (on("pse_set") /\ cma_rd_rq /\ cma_wr_rq))
    BY <1>1, PulsesGo
  <1>10. /\ left'["cmb_clr"] = (IF (s = "t1b" \/ (left["pse_set"] = 1 /\ cma_rd_rq /\ cma_wr_rq))
                                   /\ "cmb_clr" \notin high THEN 1 ELSE 0)
         /\ "cmb_clr" \in high' <=> s = "t1b" \/ (left["pse_set"] = 1 /\ cma_rd_rq /\ cma_wr_rq)
    BY <1>3, <1>9 DEF Rises, on
  <1> QED
    BY <1>3, <1>6, <1>7, <1>8, <1>10

(* What each address was last given changes when the processor begins to   *)
(* write to it.                                                            *)
LEMMA LatestGoes ==
  ASSUME NEW x, NEW s \in Stage, NEW p \in Turn, Ticks(x, s, p),
         NEW r \in Turn, Goes(x, s, p, r)
  PROVE  /\ latest \in [Addr -> Word] /\ store \in [Addr -> Word]
         /\ \A a \in Addr :
              \/ latest'[a] = latest[a]
              \/ /\ a = ma' /\ cpu' \in {"wr", "rs"} /\ rel' # "bad" /\ ma' \in Core
                 /\ r \in {"wr_rq", "rdwr_rs"} /\ x.op \in {"wr", "rs"}
         /\ x.op \in {"wr", "rs"} => /\ cpu' = x.op
                                     /\ rel' # "bad" /\ ma' \in Core => latest'[ma'] = x.word
         /\ x.op \notin {"wr", "rs"} => latest' = latest
  <1>1. Typed /\ Acts(x) /\ FlagInv(p)
    BY DEF Ticks, Now, TurnInv
  <1>2. latest \in [Addr -> Word] /\ store \in [Addr -> Word]
    BY <1>1 DEF Typed, TypeOK
  <1>3. ma' = IF x.op \in Request THEN x.addr ELSE ma
    BY AddressGoes
  <1>4. x.op \notin {"wr", "rs"} => latest' = latest
    BY <1>1 DEF Acts, Request
  <1>5. CASE x.op = "wr"
    <2>1. /\ cpu' = "wr" /\ ma' = x.addr /\ x.addr \in Addr
          /\ latest' = IF rel' # "bad" /\ x.addr \in Core
                       THEN [latest EXCEPT ![x.addr] = x.word] ELSE latest
      BY <1>1, <1>3, <1>5 DEF Acts, Request
    <2>2. r = "wr_rq"
      BY <1>5 DEF Goes, First, Request
    <2>3. \A a \in Addr : latest'[a] = latest[a] \/ (a = ma' /\ rel' # "bad" /\ ma' \in Core)
      BY <1>2, <2>1
    <2>4. rel' # "bad" /\ ma' \in Core => latest'[ma'] = x.word
      BY <1>2, <2>1
    <2> QED
      BY <1>2, <1>5, <2>1, <2>2, <2>3, <2>4
  <1>6. CASE x.op = "rs"
    <2>1. /\ cpu' = "rs" /\ ma' = ma /\ rel' = rel /\ cpu = "paused"
          /\ latest' = IF ma \in Core THEN [latest EXCEPT ![ma] = x.word] ELSE latest
      BY <1>1, <1>3, <1>6 DEF Acts, Request
    <2>2. r = "rdwr_rs" /\ rel # "bad"
      BY <1>1, <1>6, <2>1 DEF Goes, Request, FlagInv
    <2>3. \A a \in Addr : latest'[a] = latest[a] \/ (a = ma /\ ma \in Core)
      BY <1>2, <2>1
    <2>4. ma \in Core => latest'[ma] = x.word
      BY <1>2, <2>1 DEF Core
    <2> QED
      BY <1>2, <1>6, <2>1, <2>2, <2>3, <2>4
  <1> QED
    BY <1>2, <1>4, <1>5, <1>6

(* A word in the module's hands stays as it is until the memory has it.    *)
LEMMA WritesGo ==
  ASSUME NEW x, NEW s \in Stage, NEW p \in Turn, Ticks(x, s, p), NEW t \in Stage, Onward(s, t)
  PROVE  /\ Writes(s) => /\ cmb' = cmb /\ cma' = cma /\ cma \in Core
                         /\ Writes(t)' \/ (m_write /\ lag = 0)
                         /\ ~Owed(s) /\ ~Fetching(s) /\ s # "t1a" /\ s # "t1b"
         /\ Writes(t)' => Writes(s) \/ (left["rs_D"] = 1 /\ Owed(s))
         /\ left["rs_D"] = 1 => Writes(t)' /\ Owed(s) /\ cmb' = mb /\ cma' = cma /\ cma = ma
         /\ m_write => Writes(s)
  <1>1. /\ StoreInv(s, p) /\ BufferInv(s, p) /\ ServeInv(s, p) /\ PauseInv(s) /\ WriteInv(s)
        /\ ReadInv(s) /\ BusInv(s, p) /\ Typed
    BY DEF Ticks, Now, TurnInv, StageInv, WordInv, ServiceInv
  <1>2. /\ m_write' <=> (s = "t3" /\ cma_wr_rq) \/ (s # "t3" /\ m_write /\ lag > 0)
        /\ lag \in Nat
    <2>1. on("t3") <=> s = "t3"
      BY StagesOn DEF Ticks
    <2> QED
      BY <1>1, <2>1, MeetingsGo DEF Ticks, Typed, TypeOK
  <1>3. /\ proc_rs' <=> left["rs_D"] = 1 \/ (s # "t1b" /\ proc_rs)
        /\ s # "t1b" => cma' = cma /\ cma_wr_rq' = cma_wr_rq
        /\ s = "t1b" => t = "t1a"
        /\ left["stb"] > 0 => Fetching(s)
        /\ left["rs_D"] > 0 => s # "t1b" /\ p # "asking"
        /\ Fetching(s) => left["rs_D"] = 0
        /\ left["rs_D"] \in Nat /\ act \in {0, NoPort} /\ 0 # NoPort
    BY SideGoes, ServiceGoes DEF on
  <1>4. Writes(s) => ~Owed(s) /\ ~Fetching(s) /\ s # "t1a" /\ s # "t1b"
    <2>1. m_write => s \in Writing
      BY <1>1 DEF WriteInv
    <2>2. Writing \cap (Parted \cup {"pse", "t1b"}) = {} /\ Writing \cap Reading = {}
      BY DEF Writing, Parted, Reading
    <2>3. Fetching(s) => ~proc_rs /\ s \in Parted
      BY <1>1 DEF ServeInv, Fetching, Parted, Reading
    <2> QED
      BY <2>1, <2>2, <2>3 DEF Writes, Owed, Parted, Writing
  <1>5. Writes(s) => cmb' = cmb
    <2> SUFFICES ASSUME Writes(s)
                 PROVE  cmb' = cmb
      OBVIOUS
    <2>1. ~(left["stb"] > 0)
      BY <1>3, <1>4
    <2>2. ~(left["cmb_clr"] > 0)
      <3>1. left["cmb_clr"] > 0 => s = "pse" /\ cma_wr_rq /\ ~proc_rs
        BY <1>1, <1>4 DEF BufferInv
      <3> QED
        BY <1>4, <3>1 DEF Owed
    <2>3. ~(act = 0 /\ due["bus_mb"] = 1)
      BY <1>1, <1>3, <1>4 DEF ServeInv
    <2>4. mb_pulse > 0 /\ act = 0 => cmb = mb
      BY <1>1, <1>3 DEF BufferInv
    <2> QED
      BY <2>1, <2>2, <2>3, <2>4, WordsGo
  <1>6. Writes(s) => Writes(t)' \/ (m_write /\ lag = 0)
    <2>1. CASE m_write
      <3>1. s # "t3"
        BY <1>1, <2>1 DEF WriteInv, Writing
      <3> QED
        BY <1>2, <2>1, <3>1 DEF Writes
    <2>2. CASE cma_wr_rq /\ proc_rs /\ s \in (Parted \ {"t1a"}) \cup {"pse"}
      <3>1. t \in (Parted \ {"t1a"}) \cup {"pse", "t3"}
        BY <2>2 DEF Onward, Parted
      <3>2. s # "t1b"
        BY <2>2 DEF Parted
      <3> QED
        BY <1>3, <2>2, <3>1, <3>2 DEF Writes
    <2>3. CASE cma_wr_rq /\ proc_rs /\ s = "t3"
      BY <1>2, <2>3 DEF Writes
    <2> QED
      BY <2>1, <2>2, <2>3 DEF Writes
  <1>7. left["rs_D"] = 1 => Owed(s)
    BY <1>1 DEF ServeInv
  <1>8. Writes(t)' => Writes(s) \/ (left["rs_D"] = 1 /\ Owed(s))
    <2> SUFFICES ASSUME Writes(t)', left["rs_D"] # 1
                 PROVE  Writes(s)
      BY <1>7
    <2>1. CASE m_write'
      <3>1. s = "t3" /\ cma_wr_rq => proc_rs
        BY <1>1 DEF PauseInv, Parted
      <3> QED
        BY <1>2, <2>1, <3>1 DEF Writes
    <2>2. CASE (cma_wr_rq /\ proc_rs)' /\ t \in (Parted \ {"t1a"}) \cup {"pse", "t3"}
      <3>1. s \in Parted \cup {"pse"} /\ s # "t1b"
        BY <2>2 DEF Onward, Parted
      <3>2. cma_wr_rq /\ proc_rs
        BY <1>3, <2>2, <3>1
      <3>3. s # "t1a"
        BY <1>1, <3>2 DEF ServeInv
      <3> QED
        BY <3>1, <3>2, <3>3 DEF Writes
    <2> QED
      BY <2>1, <2>2 DEF Writes
  <1>9. left["rs_D"] = 1 => Writes(t)' /\ cmb' = mb /\ cma' = cma /\ cma = ma
    <2> SUFFICES ASSUME left["rs_D"] = 1
                 PROVE  Writes(t)' /\ cmb' = mb /\ cma' = cma /\ cma = ma
      OBVIOUS
    <2>1. Owed(s) /\ cma = ma /\ s # "t1b" /\ ~Fetching(s)
      BY <1>1, <1>3, <1>7 DEF ServeInv
    <2>2. t \in (Parted \ {"t1a"}) \cup {"pse"}
      BY <2>1 DEF Owed, Onward, Parted
    <2>3. Writes(t)'
      BY <1>3, <2>1, <2>2 DEF Writes, Owed
    <2>4. ~(left["cmb_clr"] > 0)
      <3>1. ~cma_rd_rq => s = "t2"
        BY <1>1, <1>3, <2>1 DEF ServeInv
      <3>2. cma_rd_rq => s = "pse" /\ (p = "mc_wr_rs" \/ left["cmb_clr"] = 0)
        BY <1>1, <2>1 DEF BufferInv
      <3>3. p # "mc_wr_rs"
        <4>1. left["rs_D"] > 0
          OBVIOUS
        <4> QED
          BY <4>1, ServiceGoes
      <3> QED
        BY <1>1, <3>1, <3>2, <3>3 DEF BufferInv
    <2>5. cmb = mb /\ ~(left["stb"] > 0)
      BY <1>1, <1>3, <2>1 DEF BufferInv
    <2>6. cmb' = mb
      BY <2>4, <2>5, WordsGo
    <2> QED
      BY <1>3, <2>1, <2>3, <2>6
  <1>10. Writes(s) => cma' = cma /\ cma \in Core
    BY <1>1, <1>3, <1>4 DEF StoreInv
  <1>11. m_write => Writes(s)
    BY DEF Writes
  <1> QED
    BY <1>4, <1>5, <1>6, <1>7, <1>8, <1>9, <1>10, <1>11

(* A word leaves the processor's hands for the module's, or for nowhere.   *)
LEMMA DeliverGoes ==
  ASSUME NEW x, NEW s \in Stage, NEW p \in Turn, Ticks(x, s, p),
         NEW r \in Turn, Goes(x, s, p, r), NEW t \in Stage, Onward(s, t),
         cpu \in {"wr", "rs"}, rel # "bad", ma \in Core, Undelivered(p)
  PROVE  /\ ma' = ma /\ x.op = "none"
         /\ (cpu' = cpu /\ rel' = rel /\ Undelivered(r)') \/ left["rs_D"] = 1
         /\ p \in Before => r \in Before \cup {"mai_ack"} \/ Owed(s)
  <1>1. /\ CpuInv(p) /\ FlagInv(p) /\ ServeInv(s, p) /\ BusInv(s, p) /\ TurnChain(p) /\ Typed
        /\ TimeInv(p)
    BY DEF Ticks, Now, TurnInv, ServiceInv
  <1>2. /\ due'["bus_mb"] = (IF p = "mc_wr_rs" THEN 2 ELSE Count(due["bus_mb"]))
        /\ due["bus_mb"] \in Nat /\ due["bus_mb"] <= 2
        /\ left'["rs_D"] = (IF act = 0 /\ due["bus_mb"] = 1 THEN 2 ELSE Count(left["rs_D"]))
        /\ left["rs_D"] \in Nat /\ left["rs_D"] <= 2
    <2>1. left["rs_D"] \in Nat /\ left["rs_D"] <= 2
      BY StagesOn DEF Ticks, Pulse, Delay
    <2> QED
      BY <2>1, TimersGo, SideGoes DEF is
  <1>3. ma \notin Absent
    BY DEF Core
  <1>4. x.op \notin {"cont", "key"}
    <2>1. x.op \in {"cont", "key"}
            => /\ p \in {"rest", "stopped", "asking"} /\ (p = "asking" => ma \in Absent)
               /\ \A q \in McPulse : due[q] = 0
               /\ \A q \in Pulse : left[q] = 0
      BY KeysWait
    <2>2. x.op \in {"cont", "key"}
            => /\ p \in {"rest", "stopped", "asking"} /\ p # "asking"
               /\ due["bus_mb"] = 0 /\ left["rs_D"] = 0
      BY <1>3, <2>1 DEF McPulse, McDelay, Pulse, Delay
    <2> QED
      BY <2>2 DEF Undelivered, Before
  <1>5. p # "illeg" /\ p # "rest"
    <2>1. p # "illeg"
      BY <1>1 DEF TimeInv
    <2>2. p = "rest" => ~(left["rs_D"] > 0) /\ due["bus_mb"] = 0
      BY <1>1, <1>2, ServiceGoes DEF BusInv
    <2> QED
      BY <1>2, <2>1, <2>2 DEF Undelivered, Before
  <1>6. p = "rs_t1" => left["rs_D"] = 1
    <2>1. p = "rs_t1" => due["bus_mb"] = 0
      BY <1>1, <1>2 DEF BusInv
    <2>2. p = "rs_t1" => left["rs_D"] > 0
      BY <1>2, <2>1 DEF Undelivered, Before
    <2>3. p = "rs_t1" /\ left["rs_D"] = 2 => mb_pulse = 3
      BY <1>1 DEF BusInv
    <2>4. mb_pulse = 3 => p # "rs_t1"
      BY <1>1 DEF BusInv
    <2> QED
      BY <1>2, <2>2, <2>3, <2>4
  <1>7. ma' = ma /\ x.op = "none"
    <2>1. p # "rs_t1" => ma' = ma /\ x.op = "none"
      BY <1>4, <1>5, Carries
    <2>2. p = "rs_t1" => x.op = "none"
      BY <1>4, ComesFrom DEF Goes, Request
    <2> QED
      BY <2>1, <2>2, AddressGoes DEF Request
  <1>8. CASE p = "rs_t1"
    BY <1>6, <1>7, <1>8 DEF Before
  <1>9. CASE p # "rs_t1"
    <2>1. Flows(x, s, p, r) /\ cpu' = cpu /\ rel' = rel
      BY <1>4, <1>5, <1>9, Carries
    <2>2. CASE p \in {"rdwr_rs", "split_wr", "wr_rq", "rq", "delay", "rq_set"}
      <3>1. r # "illeg"
        BY <2>1, <2>2 DEF Flows
      <3>2. r \in Before
        BY <2>1, <2>2, <3>1 DEF Flows, Before
      <3> QED
        BY <1>7, <2>1, <3>2 DEF Undelivered
    <2>3. CASE p = "asking"
      <3>1. r # "nxm"
        <4>1. r = "nxm" => due["D3"] = 1
          BY ComesFrom DEF is
        <4>2. due["D3"] = 1 => ma \in Absent
          BY <2>3, AnswersCome DEF is
        <4> QED
          BY <1>3, <4>1, <4>2
      <3>2. r \in {"asking", "mai_ack"}
        BY <2>1, <2>3, <3>1 DEF Flows
      <3> QED
        BY <1>7, <2>1, <3>2 DEF Undelivered, Before
    <2>4. CASE p = "rdwr_rs_D"
      <3>1. cpu = "rs" /\ ~mc_split_cyc_sync
        BY <1>1, <2>4 DEF CpuInv, Settled, Asking, Ends, Answering
      <3>2. Owed(s)
        BY <1>1, <1>3, <2>4, <3>1 DEF ServeInv, HalfDone
      <3>3. r \in {"rdwr_rs_D", "mc_wr_rs"}
        BY <2>1, <2>4 DEF Flows
      <3> QED
        BY <1>7, <2>1, <3>2, <3>3 DEF Undelivered, Before
    <2>5. CASE p \in {"mai_ack", "ack"}
      <3>1. ~mc_rd
        BY <1>1, <2>5 DEF FlagInv, Settled, Asking
      <3>2. r \in {"ack", "mc_wr_rs"}
        BY <2>1, <2>5, <3>1 DEF Flows
      <3> QED
        BY <1>7, <2>1, <2>5, <3>2 DEF Undelivered, Before
    <2>6. CASE p = "mc_wr_rs"
      BY <1>2, <1>7, <2>1, <2>6 DEF Undelivered, Before
    <2>7. CASE due["bus_mb"] > 0 \/ left["rs_D"] > 0
      <3>1. p \in {"rs_t0", "rs_t0_D", "stopped", "rs_t1"}
        BY <2>7, ServiceGoes
      <3>2. due["bus_mb"] = 1 => act = 0
        <4>1. due["bus_mb"] = 1 => Owed(s)
          BY <1>1, <1>3 DEF ServeInv
        <4> QED
          BY <1>1, <4>1 DEF ServeInv
      <3>3. due'["bus_mb"] > 0 \/ left'["rs_D"] > 0 \/ left["rs_D"] = 1
        BY <1>2, <2>7, <3>1, <3>2 DEF Count
      <3> QED
        BY <1>7, <2>1, <3>1, <3>3 DEF Undelivered, Before
    <2> QED
      BY <2>2, <2>3, <2>4, <2>5, <2>6, <2>7 DEF Undelivered, Before
  <1> QED
    BY <1>8, <1>9

(* The memory and the words last written, after a step.                    *)
LEMMA StoreOn ==
  ASSUME NEW x, NEW s \in Stage, NEW p \in Turn, Ticks(x, s, p),
         NEW r \in Turn, Goes(x, s, p, r), NEW t \in Stage, Onward(s, t)
  PROVE  StoreInv(t, r)'
  <1>1. /\ StoreInv(s, p) /\ ServeInv(s, p) /\ CpuInv(p) /\ FlagInv(p) /\ ReadData(s, p)
        /\ TimeInv(p) /\ BusInv(s, p) /\ Typed /\ AddressInv
    BY DEF Ticks, Now, TurnInv, WordInv, ServiceInv
  <1>2. /\ latest \in [Addr -> Word] /\ store \in [Addr -> Word]
        /\ \A a \in Addr :
             \/ latest'[a] = latest[a]
             \/ /\ a = ma' /\ cpu' \in {"wr", "rs"} /\ rel' # "bad" /\ ma' \in Core
                /\ r \in {"wr_rq", "rdwr_rs"} /\ x.op \in {"wr", "rs"}
        /\ x.op \in {"wr", "rs"} => /\ cpu' = x.op
                                    /\ rel' # "bad" /\ ma' \in Core => latest'[ma'] = x.word
        /\ x.op \notin {"wr", "rs"} => latest' = latest
    BY LatestGoes
  <1>3. /\ Writes(s) => /\ cmb' = cmb /\ cma' = cma /\ cma \in Core
                        /\ Writes(t)' \/ (m_write /\ lag = 0)
                        /\ ~Owed(s) /\ ~Fetching(s) /\ s # "t1a" /\ s # "t1b"
        /\ Writes(t)' => Writes(s) \/ (left["rs_D"] = 1 /\ Owed(s))
        /\ left["rs_D"] = 1 => Writes(t)' /\ Owed(s) /\ cmb' = mb /\ cma' = cma /\ cma = ma
        /\ m_write => Writes(s)
    BY WritesGo
  <1>4. store' = (IF m_write /\ lag = 0 THEN [store EXCEPT ![cma] = cmb] ELSE store)
    BY WordsGo
  \* a word that is still the processor's
  <1>5. ASSUME cpu \in {"wr", "rs"}, rel # "bad", ma \in Core, Undelivered(p)
        PROVE  /\ ma' = ma /\ latest' = latest
               /\ \/ cpu' \in {"wr", "rs"} /\ rel' # "bad" /\ ma' \in Core /\ Undelivered(r)'
                  \/ cma' = ma /\ Writes(t)'
               /\ p \in Before => r \in Before \cup {"mai_ack"} \/ Owed(s)
    <2>1. /\ ma' = ma /\ x.op = "none"
          /\ (cpu' = cpu /\ rel' = rel /\ Undelivered(r)') \/ left["rs_D"] = 1
          /\ p \in Before => r \in Before \cup {"mai_ack"} \/ Owed(s)
      BY <1>5, DeliverGoes
    <2> QED
      BY <1>2, <1>3, <1>5, <2>1
  <1>6. ASSUME Writes(s)
        PROVE  \/ cmb = latest'[cma]
               \/ cma = ma' /\ cpu' \in {"wr", "rs"} /\ rel' # "bad" /\ r \in Before
    <2>1. CASE cmb = latest[cma]
      BY <1>2, <1>3, <1>6, <2>1 DEF Before, Core
    <2>2. CASE cma = ma /\ cpu \in {"wr", "rs"} /\ rel # "bad" /\ p \in Before
      <3>1. ma \in Core /\ Undelivered(p)
        BY <1>3, <1>6, <2>2 DEF Undelivered
      <3>2. p # "rs_t1" /\ p \notin {"rs_t0", "rs_t0_D", "stopped"}
        BY <2>2 DEF Before
      <3>3. left["rs_D"] # 1
        <4>1. ~(left["rs_D"] > 0)
          BY <3>2, ServiceGoes
        <4> QED
          BY <4>1
      <3>4. ma' = ma /\ cpu' = cpu /\ rel' = rel /\ (r \in Before \cup {"mai_ack"} \/ Owed(s))
        BY <2>2, <3>1, <3>3, DeliverGoes
      <3>5. r # "mai_ack" /\ ~Owed(s)
        BY <1>3, <1>6, ComesFrom
      <3> QED
        BY <2>2, <3>4, <3>5
    <2> QED
      BY <1>1, <1>6, <2>1, <2>2 DEF StoreInv
  <1>7. ASSUME NEW a \in Addr
        PROVE  \/ store'[a] = latest'[a]
               \/ a = ma' /\ cpu' \in {"wr", "rs"} /\ rel' # "bad" /\ ma' \in Core /\ Undelivered(r)'
               \/ a = cma' /\ Writes(t)'
    <2>1. CASE m_write /\ lag = 0 /\ a = cma
      <3>1. Writes(s) /\ cma \in Core
        BY <1>3, <2>1
      <3>2. store'[a] = cmb
        BY <1>2, <1>4, <2>1
      <3> QED
        BY <1>6, <2>1, <3>1, <3>2 DEF Undelivered
    <2>2. CASE ~(m_write /\ lag = 0 /\ a = cma)
      <3>1. store'[a] = store[a]
        BY <1>2, <1>4, <2>2
      <3>2. CASE store[a] = latest[a]
        BY <1>2, <3>1, <3>2 DEF Undelivered, Before
      <3>3. CASE a = ma /\ cpu \in {"wr", "rs"} /\ rel # "bad" /\ ma \in Core /\ Undelivered(p)
        BY <1>5, <3>3
      <3>4. CASE a = cma /\ Writes(s)
        BY <1>3, <2>2, <3>4
      <3> QED
        BY <1>1, <3>2, <3>3, <3>4 DEF StoreInv
    <2> QED
      BY <2>1, <2>2
  \* the words of the processor
  <1>8. cpu \in {"wr", "rs", "keyed"} /\ x.op \notin {"wr", "rs"} => mb' = mb
    <2> SUFFICES ASSUME cpu \in {"wr", "rs", "keyed"}, x.op \notin {"wr", "rs"}
                 PROVE  mb' = mb
      OBVIOUS
    <2>1. ~(left["stb"] > 0)
      <3>1. left["stb"] > 0 => Fetching(s)
        BY ServiceGoes
      <3> QED
        BY <1>1, <3>1 DEF ServeInv
    <2>2. due["mb_clr_D"] # 1
      <3>1. due["mb_clr_D"] = 1 => p \in Timed /\ mc_rd
        BY <1>1 DEF TimeInv
      <3> QED
        BY <1>1, <3>1 DEF FlagInv, CpuInv, Timed, Settled, Asking, Answering
    <2> QED
      BY <2>1, <2>2, WordsGo
  <1>9. cpu' \in {"wr", "rs"} /\ rel' # "bad" /\ ma' \in Core => mb' = latest'[ma']
    <2>1. CASE x.op \in {"wr", "rs"}
      BY <1>2, <2>1, WordsGo
    <2>2. ASSUME x.op \notin {"wr", "rs"}, cpu' \in {"wr", "rs"}, rel' # "bad", ma' \in Core
          PROVE  mb' = latest'[ma']
      <3>1. cpu' = cpu /\ rel' = rel /\ x.op \notin Request
        BY <2>2 DEF Goes, Request
      <3>2. ma' = ma
        BY <3>1, AddressGoes
      <3> QED
        BY <1>1, <1>2, <1>8, <2>2, <3>1, <3>2 DEF StoreInv
    <2> QED
      BY <2>1, <2>2
  <1>10. cpu' = "keyed" /\ Owed(t)' => mb' = latest'[ma']
    <2> SUFFICES ASSUME cpu' = "keyed", Owed(t)'
                 PROVE  mb' = latest'[ma']
      OBVIOUS
    <2>1. x.op = "key" \/ (x.op = "none" /\ cpu = "keyed")
      BY DEF Goes, Request, Awaiting, Awaits
    <2>2. ma' = ma /\ latest' = latest
      BY <1>2, <2>1, AddressGoes DEF Request
    <2>3. CASE x.op = "none" /\ cpu = "keyed"
      <3>1. s # "t1b"
        <4>1. s = "t1b" => p = "asking"
          BY ServiceGoes
        <4> QED
          BY <1>1, <2>3, <4>1 DEF CpuInv, Answering
      <3>2. Owed(s)
        BY <3>1, ServiceGoes
      <3> QED
        BY <1>1, <1>8, <2>2, <2>3, <3>2 DEF StoreInv
    <2>4. CASE x.op = "key"
      <3>1. /\ s \in {"still", "pse"} /\ p \in {"rest", "stopped", "asking"}
            /\ cpu \in Awaits \cup {"halted"}
            /\ \A q \in McPulse : due[q] = 0
            /\ \A q \in Pulse : left[q] = 0
            /\ s = "pse" => Owed(s) /\ cma_rd_rq /\ p # "asking"
        BY <2>4, KeysWait
      <3>2. due["bus_mb"] = 0 /\ due["mb_clr_D"] = 0 /\ left["rs_D"] = 0 /\ left["stb"] = 0
        BY <3>1 DEF McPulse, McDelay, Pulse, Delay
      <3>3. Owed(s)
        BY <3>1, ServiceGoes
      <3>4. s = "pse" /\ cma_rd_rq /\ p # "asking" /\ ma \notin Absent
        BY <1>1, <3>1, <3>3 DEF ServeInv, Owed, Parted
      <3>5. cpu = "rdwr" /\ p \in {"rest", "stopped"}
        BY <1>1, <3>1, <3>2, <3>3, <3>4 DEF ServeInv, Awaits, Request
      <3>6. p = "stopped"
        BY <1>1, <3>5 DEF CpuInv, Settled, Asking, Ends, Answering
      <3>7. ma \in Core
        BY <1>1, <3>4, <3>5 DEF AddressInv, Core, Awaits, Request
      <3>8. mb = latest[ma]
        BY <1>1, <3>5, <3>6, <3>7 DEF ReadData, Ends
      <3>9. mb' = mb
        BY <2>4, <3>2, WordsGo
      <3> QED
        BY <2>2, <3>8, <3>9
    <2> QED
      BY <2>1, <2>3, <2>4
  <1>11. Writes(t)' => /\ cma' \in Core
                       /\ cmb' = latest'[cma'] \/ (cma' = ma' /\ cpu' \in {"wr", "rs"}
                                                   /\ rel' # "bad" /\ r \in Before)
    <2>1. CASE Writes(s)
      BY <1>3, <1>6, <2>1
    <2>2. CASE left["rs_D"] = 1
      <3>1. Owed(s) /\ cma' = ma /\ cmb' = mb
        BY <1>3, <2>2
      <3>2. ma \in Core
        BY <1>1, <1>3, <2>2, <3>1 DEF ServeInv, Owed, AddressInv, Core
      <3>3. left["rs_D"] > 0
        BY <2>2
      <3>4. cpu \in {"wr", "rs", "keyed"} /\ p \in {"rs_t0", "rs_t0_D", "stopped", "rs_t1"}
        BY <3>3, ServiceGoes
      <3>5. mb = latest[ma]
        <4>1. cpu \in {"wr", "rs"} => rel # "bad"
          BY <1>1, <3>4 DEF FlagInv, Ends, Answering, Awaits, Request
        <4> QED
          BY <1>1, <3>1, <3>2, <3>4, <4>1 DEF StoreInv
      <3>6. x.op \notin {"wr", "rs"}
        BY <3>4, ComesFrom DEF Request
      <3> QED
        BY <1>2, <3>1, <3>2, <3>5, <3>6
    <2> QED
      BY <1>3, <2>1, <2>2
  <1> QED
    BY <1>7, <1>9, <1>10, <1>11 DEF StoreInv

(* The word that is read, after a step.                                    *)
LEMMA ReadDataOn ==
  ASSUME NEW x, NEW s \in Stage, NEW p \in Turn, Ticks(x, s, p),
         NEW r \in Turn, Goes(x, s, p, r), NEW t \in Stage, Onward(s, t)
  PROVE  ReadData(t, r)'
  <1>1. /\ ReadData(s, p) /\ ServeInv(s, p) /\ FlagInv(p) /\ CpuInv(p) /\ TimeInv(p) /\ ReadInv(s)
        /\ WriteInv(s) /\ StoreInv(s, p) /\ AddressInv /\ Typed
    BY DEF Ticks, Now, TurnInv, ServiceInv, StageInv, WordInv
  <1>2. /\ mb' = (IF x.op \in {"wr", "rs"} THEN x.word
                  ELSE IF due["mb_clr_D"] = 1 THEN {}
                  ELSE IF mc_rd /\ left["stb"] > 0 THEN mb \cup sa ELSE mb)
        /\ sa' = (IF m_read /\ lag = 0 THEN store[cma] ELSE sa)
        /\ store' = (IF m_write /\ lag = 0 THEN [store EXCEPT ![cma] = cmb] ELSE store)
    BY WordsGo
  <1>3. /\ left["stb"] > 0 => /\ Fetching(s) /\ s \in {"read_off", "rd_sync"} /\ stb_sync
                              /\ stb_done /\ ~rd_done
        /\ left["rd_rs"] > 0 => rd_done /\ p = "reading"
        /\ left["stb"] > 0 => "rd_rs" \notin high /\ ~(left["rd_rs"] > 0)
        /\ left["stb"] \in Nat /\ left["rd_rs"] \in Nat
        /\ left'["rd_rs"] = (IF left["stb"] > 0 /\ "rd_rs" \notin high THEN 1 ELSE 0)
    <2>1. left["stb"] > 0 => /\ Fetching(s) /\ s \in {"read_off", "rd_sync"} /\ stb_sync
                             /\ stb_done
      BY ServiceGoes
    <2>2. left["stb"] > 0 => ~rd_done
      BY <1>1 DEF ReadInv
    <2>3. left["rd_rs"] > 0 => rd_done /\ p = "reading"
      BY <1>1 DEF ServeInv
    <2>4. left["stb"] > 0 => "rd_rs" \notin high /\ ~(left["rd_rs"] > 0)
      BY <1>1, <2>2, <2>3 DEF ServeInv
    <2>5. /\ left["stb"] \in Nat /\ left["rd_rs"] \in Nat
          /\ left'["rd_rs"] = (IF left["stb"] > 0 /\ "rd_rs" \notin high THEN 1 ELSE 0)
      BY ServiceGoes, SideGoes
    <2> QED
      BY <2>1, <2>2, <2>3, <2>4, <2>5
  <1>4. left["stb"] > 0 => p = "reading"
    <2>1. left["stb"] > 0 => p \in {"mai_ack", "ack", "reading"} /\ ma \notin Absent
      BY <1>1, <1>3 DEF ServeInv
    <2>2. left["stb"] > 0 => s # "t2"
      BY <1>3
    <2> QED
      BY <1>1, <2>1, <2>2 DEF ServeInv
  <1>5. /\ due'["mb_clr_D"] = (IF due["mb_clr"] = 1 THEN 5 ELSE Count(due["mb_clr_D"]))
        /\ due["mb_clr_D"] \in Nat /\ due["mb_clr"] \in Nat /\ due["mb_clr"] <= 1
        /\ due["mb_clr"] > 0 <=> p = "rq" /\ mc_rd
        /\ due["mb_clr_D"] > 0 => p \in Timed
    <2>1. /\ due'["mb_clr_D"] = (IF due["mb_clr"] = 1 THEN 5 ELSE Count(due["mb_clr_D"]))
          /\ due["mb_clr_D"] \in Nat /\ due["mb_clr"] \in Nat /\ due["mb_clr"] <= 1
      BY TimersGo DEF is
    <2>2. due["mb_clr"] > 0 <=> p = "rq" /\ mc_rd
      BY <1>1 DEF TimeInv
    <2>3. due["mb_clr_D"] > 0 => p \in Timed
      BY <1>1 DEF TimeInv
    <2> QED
      BY <2>1, <2>2, <2>3
  \* the buffer is clear until the word is in it
  <1>6. ASSUME r \in Timed \cup Asking \/ (r = "reading" /\ left'["rd_rs"] = 0), mc_rd'
        PROVE  due'["mb_clr_D"] > 0 \/ mb' = {}
    <2>1. p = "rq" \/ p \in Timed \cup Asking \/ (p = "reading" /\ ~(left["rd_rs"] > 0))
      <3>1. s = "t1a" => p = "asking"
        BY AnswersCome
      <3>2. r \in Timed \cup Asking => p = "rq" \/ p \in Timed \cup Asking
        BY <3>1, ComesFrom DEF Timed, Asking
      <3>3. r = "reading" => p = "ack" \/ (p = "reading" /\ ~(left["rd_rs"] > 0))
        BY ComesFrom
      <3> QED
        BY <1>6, <3>2, <3>3 DEF Asking
    <2>2. x.op \in {"none", "key"}
      BY <2>1, ComesFrom DEF Timed, Settled, Asking, Request
    <2>3. mc_rd
      BY <1>6, <2>1, FlagsGo DEF Timed, Asking
    <2>4. ~(left["stb"] > 0)
      <3>1. left["stb"] > 0 => r = "reading" /\ left'["rd_rs"] = 1
        BY <1>3, <1>4, ComesFrom
      <3> QED
        BY <1>6, <3>1 DEF Timed, Asking
    <2>5. CASE p = "rq"
      BY <1>5, <2>3, <2>5
    <2>6. CASE due["mb_clr_D"] > 1
      BY <1>5, <2>6 DEF Count
    <2>7. CASE due["mb_clr_D"] = 1
      BY <1>2, <2>2, <2>7
    <2>8. CASE due["mb_clr_D"] = 0 /\ p # "rq"
      <3>1. mb = {}
        BY <1>1, <1>3, <2>1, <2>3, <2>8 DEF ReadData
      <3> QED
        BY <1>2, <2>2, <2>4, <2>8, <3>1
    <2> QED
      BY <1>5, <2>5, <2>6, <2>7, <2>8
  \* the memory's word is in the module's register
  <1>7. Fetching(t)' /\ t # "t1a" /\ stb_done' => sa' = store'[cma']
    <2> SUFFICES ASSUME Fetching(t)', t # "t1a", stb_done'
                 PROVE  sa' = store'[cma']
      OBVIOUS
    <2>1. s # "t1b"
      BY StageFrom
    <2>2. Fetching(s) /\ cma' = cma
      BY <2>1, ServiceGoes
    <2>3. stb_done' => s # "t1a" /\ (stb_done \/ (m_read /\ lag = 0))
      <3>1. on("t1a") <=> s = "t1a"
        BY StagesOn DEF Ticks
      <3> QED
        BY <1>1, <3>1, MeetingsGo DEF Ticks
    <2>4. s \in Reading
      BY <2>2, <2>3 DEF Fetching
    <2>5. ~m_write
      BY <1>1, <2>4 DEF WriteInv, Reading, Writing
    <2>6. stb_done => sa = store[cma]
      BY <1>1, <2>2, <2>3 DEF ReadData
    <2>7. store' = store
      BY <1>2, <2>5
    <2> QED
      BY <1>2, <2>2, <2>3, <2>6, <2>7
  \* the word that was asked for
  <1>8. ASSUME cpu' \in {"rd", "rdwr"}, ma' \in Core,
               r \in {"mai_rd_rs"} \cup Ends \/ (r = "reading" /\ left'["rd_rs"] > 0)
        PROVE  mb' = latest'[ma']
    <2>1. cpu' = cpu /\ x.op \notin {"wr", "rs", "it0", "key", "at4"} \cup Request
      BY <1>8 DEF Goes, First, Request, Ends, Answering
    <2>2. ma' = ma /\ latest' = latest
      BY <2>1, AddressGoes, LatestGoes
    <2>3. CASE r = "reading"
      <3>1. left["stb"] > 0 /\ p = "reading" /\ ~(left["rd_rs"] > 0) /\ Fetching(s) /\ stb_done
        BY <1>3, <1>4, <1>8, <2>3 DEF Ends, Answering
      <3>2. mc_rd /\ ~(due["mb_clr_D"] > 0)
        BY <1>1, <1>5, <3>1 DEF FlagInv, Timed
      <3>3. mb = {}
        BY <1>1, <1>3, <3>1, <3>2 DEF ReadData
      <3>4. mb' = sa
        BY <1>2, <1>5, <2>1, <3>1, <3>2, <3>3
      <3>5. s # "t1a"
        BY <1>3, <3>1
      <3>6. sa = store[cma]
        BY <1>1, <3>1, <3>5 DEF ReadData
      <3>7. cma = ma
        BY <1>1, <3>1 DEF ServeInv
      <3>8. ~Writes(s)
        BY <3>1, StageFrom, WritesGo
      <3>9. store[ma] = latest[ma]
        BY <1>1, <1>8, <2>1, <2>2, <3>8 DEF StoreInv, Core
      <3> QED
        BY <2>2, <3>4, <3>6, <3>7, <3>9
    <2>4. CASE r # "reading"
      <3>1. p \in {"mai_rd_rs"} \cup Ends \/ (p = "reading" /\ left["rd_rs"] > 0)
        <4>1. CASE r = "mai_rd_rs"
          BY <1>3, <4>1, ComesFrom
        <4>2. CASE r \in Ends
          <5>1. p \in {"mai_rd_rs", "mc_wr_rs", "ack"} \cup Ends \/ (p = "rest" /\ cpu = "halted")
            BY <2>1, <4>2 DEF Goes, Flows, First, Request, Ends, Answering
          <5>2. p # "mc_wr_rs"
            BY <1>1, <1>8, <2>1 DEF CpuInv, Settled, Asking, Ends, Answering
          <5>3. p = "ack" => ma \in Absent \/ r = "mc_wr_rs" \/ r = "reading"
            BY <2>1 DEF Goes, Flows, Request
          <5>4. p # "ack"
            BY <1>8, <2>2, <2>4, <4>2, <5>3 DEF Core, Ends, Answering
          <5> QED
            BY <1>8, <2>1, <5>1, <5>2, <5>4
        <4> QED
          BY <1>8, <2>4, <4>1, <4>2
      <3>2. mb = latest[ma]
        BY <1>1, <1>8, <2>1, <2>2, <3>1 DEF ReadData
      <3>3. ~(left["stb"] > 0)
        BY <1>3, <1>4, <3>1 DEF Ends, Answering
      <3>4. ~(due["mb_clr_D"] > 0)
        BY <1>5, <3>1 DEF Timed, Ends, Answering
      <3>5. mb' = mb
        BY <1>2, <1>5, <2>1, <3>3, <3>4
      <3> QED
        BY <2>2, <3>2, <3>5
    <2> QED
      BY <2>3, <2>4
  <1> QED
    BY <1>6, <1>7, <1>8 DEF ReadData

(* The module gets to the clearing of its buffer before the processor gets *)
(* to its word.                                                            *)
LEMMA ToClearGoes ==
  ASSUME NEW x, NEW s \in Stage, NEW p \in Turn, Ticks(x, s, p), NEW t \in Stage, Onward(s, t),
         Owed(s), cma_rd_rq, ~Fetching(s)
  PROVE  /\ s \in {"read_off", "rd_sync", "rd", "pse_set", "pse"}
         /\ ToClear(s) \in Nat /\ ToClear(t)' = Count(ToClear(s))
         /\ s = "pse" => t = "pse" /\ left'["cmb_clr"] = 0
         /\ ToClear(s) <= 2 => t = "pse"
  <1>1. ReadInv(s) /\ BufferInv(s, p) /\ Typed
    BY DEF Ticks, Now, StageInv, WordInv
  <1>2. /\ left'["read_off"] = IF on("t2") THEN 10 ELSE Count(left["read_off"])
        /\ left'["pse_set"] = IF s = "rd" THEN 5 ELSE Count(left["pse_set"])
        /\ on("t2") => s = "t2"
    BY ChainPulsesGo, StagesOn DEF Ticks, ChainPulse
  <1>3. /\ \A q \in ChainPulse : left[q] \in Nat /\ (left[q] > 0 <=> q = s)
        /\ left'["cmb_clr"] = (IF (s = "t1b" \/ (left["pse_set"] = 1 /\ cma_rd_rq /\ cma_wr_rq))
                                  /\ "cmb_clr" \notin high THEN 1 ELSE 0)
        /\ left["cmb_clr"] \in Nat /\ left["cmb_clr"] <= 1
    <2>1. left["cmb_clr"] \in Nat /\ left["cmb_clr"] <= 1
      BY StagesOn DEF Ticks, Pulse, Delay
    <2> QED
      BY <2>1, StageFrom, WordsGo
  <1>4. cma_wr_rq /\ ~proc_rs /\ s \in Parted \cup {"pse"}
    BY DEF Owed
  <1>5. s # "t1a" /\ (s \in Reading => rd_done)
    BY DEF Fetching
  <1>6. s \in {"read_off", "rd_sync", "rd", "pse_set", "pse"}
    BY <1>1, <1>4, <1>5 DEF ReadInv, Parted, Reading
  <1>7. CASE s = "read_off"
    <2>1. left["read_off"] \in Nat /\ left["read_off"] > 0
      BY <1>3, <1>7 DEF ChainPulse
    <2>2. /\ left["read_off"] = 1 => t = "rd_sync"
          /\ left["read_off"] # 1 => t = "read_off" /\ left'["read_off"] = left["read_off"] - 1
      BY <1>2, <1>7, <2>1 DEF Onward, on, Count
    <2>3. /\ ToClear(s) = left["read_off"] + 8
          /\ t = "rd_sync" => ToClear(t)' = 8
          /\ t = "read_off" => ToClear(t)' = left'["read_off"] + 8
      BY <1>7 DEF ToClear
    <2> QED
      BY <1>7, <2>1, <2>2, <2>3 DEF Count
  <1>8. CASE s \in {"rd_sync", "rd"}
    BY <1>2, <1>5, <1>8 DEF ToClear, Onward, Reading, Count
  <1>9. CASE s = "pse_set"
    <2>1. left["pse_set"] \in Nat /\ left["pse_set"] > 0
      BY <1>3, <1>9 DEF ChainPulse
    <2>2. left["pse_set"] = 1 => t = "pse" /\ left'["cmb_clr"] = 1
      BY <1>1, <1>3, <1>4, <1>9 DEF Onward, on, BufferInv
    <2>3. left["pse_set"] # 1 => t = "pse_set" /\ left'["pse_set"] = left["pse_set"] - 1
      BY <1>2, <1>9, <2>1 DEF Onward, on, Count
    <2>4. /\ ToClear(s) = left["pse_set"] + 1
          /\ t = "pse" => ToClear(t)' = left'["cmb_clr"]
          /\ t = "pse_set" => ToClear(t)' = left'["pse_set"] + 1
      BY <1>9 DEF ToClear
    <2>5. CASE left["pse_set"] = 1
      BY <1>9, <2>2, <2>4, <2>5 DEF Count
    <2>6. CASE left["pse_set"] # 1
      <3>1. t = "pse_set" /\ left'["pse_set"] = left["pse_set"] - 1
        BY <2>3, <2>6
      <3>2. ToClear(t)' = ToClear(s) - 1
        BY <2>1, <2>4, <3>1
      <3> QED
        BY <1>9, <2>1, <2>4, <2>6, <3>1, <3>2 DEF Count
    <2> QED
      BY <2>5, <2>6
  <1>10. CASE s = "pse"
    <2>1. t = "pse"
      BY <1>4, <1>10 DEF Onward
    <2>2. left["pse_set"] # 1
      BY <1>3, <1>10 DEF ChainPulse
    <2>3. left'["cmb_clr"] = 0
      BY <1>3, <1>10, <2>2
    <2>4. ToClear(s) = left["cmb_clr"] /\ ToClear(t)' = left'["cmb_clr"]
      BY <1>10, <2>1 DEF ToClear
    <2> QED
      BY <1>3, <1>10, <2>1, <2>3, <2>4 DEF Count
  <1> QED
    BY <1>6, <1>7, <1>8, <1>9, <1>10

(* The processor comes no faster to its word than a clock to a step.       *)
LEMMA ToBusGoes ==
  ASSUME NEW x, NEW s \in Stage, NEW p \in Turn, Ticks(x, s, p),
         NEW r \in Turn, Goes(x, s, p, r),
         Owed(s), cma_rd_rq, x.op # "key"
  PROVE  /\ ToBus(p) \in Nat /\ ToBus(r)' \in Nat
         /\ r = "stopped" \/ ToBus(r)' + 1 >= ToBus(p)
  <1>1. ServeInv(s, p) /\ CpuInv(p) /\ TurnChain(p) /\ Typed
    BY DEF Ticks, Now, TurnInv, ServiceInv
  <1>2. /\ due'["rs_t0_D"] = (IF p = "rs_t0" THEN 2 ELSE Count(due["rs_t0_D"]))
        /\ due'["rdwr_rs_D"] = (IF p = "rdwr_rs" THEN 5 ELSE Count(due["rdwr_rs_D"]))
        /\ due["rs_t0_D"] \in Nat /\ due["rdwr_rs_D"] \in Nat
    BY TimersGo
  <1>3. /\ ToBus(p) \in Nat
        /\ p = "reading" => ToBus(p) = 14
        /\ p = "mai_rd_rs" => ToBus(p) = 13
        /\ p = "rs_t0" => ToBus(p) = 12
        /\ p = "rs_t0_D" => ToBus(p) = due["rs_t0_D"] + 9
        /\ p = "rs_t1" => ToBus(p) = 9
        /\ p = "rest" => ToBus(p) = 8
        /\ p = "rdwr_rs" => ToBus(p) = 7
        /\ p = "rdwr_rs_D" => ToBus(p) = due["rdwr_rs_D"] + 1
        /\ p = "mc_wr_rs" => ToBus(p) = 1
        /\ p \notin {"reading", "mai_rd_rs", "rs_t0", "rs_t0_D", "rs_t1", "rest", "rdwr_rs",
                     "rdwr_rs_D", "mc_wr_rs"} => ToBus(p) = 0
    BY <1>2 DEF ToBus
  <1>4. due'["rs_t0_D"] \in Nat /\ due'["rdwr_rs_D"] \in Nat
    BY <1>2 DEF Count
  <1>5. /\ ToBus(r)' \in Nat
        /\ r = "reading" => ToBus(r)' = 14
        /\ r = "mai_rd_rs" => ToBus(r)' = 13
        /\ r = "rs_t0" => ToBus(r)' = 12
        /\ r = "rs_t0_D" => ToBus(r)' = due'["rs_t0_D"] + 9
        /\ r = "rs_t1" => ToBus(r)' = 9
        /\ r = "rest" => ToBus(r)' = 8
        /\ r = "rdwr_rs" => ToBus(r)' = 7
        /\ r = "rdwr_rs_D" => ToBus(r)' = due'["rdwr_rs_D"] + 1
        /\ r = "mc_wr_rs" => ToBus(r)' = 1
    BY <1>4 DEF ToBus
  <1>6. x.op \notin Request
    BY SomeStage, ServiceGoes DEF Ticks
  <1>7. /\ p = "reading" => r \in {"reading", "mai_rd_rs"}
        /\ p = "mai_rd_rs" => r \in {"stopped", "rs_t0"}
        /\ p = "rs_t0" => r = "rs_t0_D"
        /\ p = "rs_t0_D" => r = IF due["rs_t0_D"] = 1 THEN "rs_t1" ELSE "rs_t0_D"
        /\ p = "rs_t1" => r = "rest"
        /\ p = "rest" => r \in {"rest", "rdwr_rs", "rs_t0"}
        /\ p = "rdwr_rs" => r = IF mc_split_cyc_sync THEN "split_wr" ELSE "rdwr_rs_D"
        /\ p = "rdwr_rs_D" => r = IF due["rdwr_rs_D"] = 1 THEN "mc_wr_rs" ELSE "rdwr_rs_D"
        /\ p = "mc_wr_rs" => r \in {"stopped", "rs_t0"}
    BY <1>6 DEF Goes, Flows, is
  <1>8. p = "rdwr_rs" => ~mc_split_cyc_sync
    <2>1. p = "rdwr_rs" => cpu = "rs"
      <3>1. cpu \in {"keyed", "idle", "addressed", "trap", "paused", "halted"} \cup Awaits
        BY DEF Ticks, Now, Typed, TypeOK
      <3> QED
        BY <1>1, <3>1 DEF CpuInv, Settled, Asking, Ends, Answering, Awaits, Request
    <2>2. p = "rdwr_rs" => ~(left["rs_D"] > 0 \/ due["bus_mb"] > 0)
      BY SomeStage, ServiceGoes DEF Ticks
    <2> QED
      BY <1>1, <2>1, <2>2 DEF ServeInv
  <1>9. p = "rs_t0_D" => due["rs_t0_D"] > 0
    BY <1>1 DEF TurnChain
  <1>10. p = "rdwr_rs_D" => due["rdwr_rs_D"] > 0
    BY <1>1 DEF TurnChain
  <1>11. r = "stopped" \/ ToBus(r)' + 1 >= ToBus(p)
    <2>1. CASE p \in {"reading", "mai_rd_rs", "rs_t1", "rest", "mc_wr_rs"}
      BY <1>3, <1>5, <1>7, <2>1
    <2>2. CASE p \in {"rs_t0", "rdwr_rs"}
      BY <1>2, <1>3, <1>5, <1>7, <1>8, <2>2
    <2>3. CASE p = "rs_t0_D"
      BY <1>2, <1>3, <1>5, <1>7, <1>9, <2>3 DEF Count
    <2>4. CASE p = "rdwr_rs_D"
      BY <1>2, <1>3, <1>5, <1>7, <1>10, <2>4 DEF Count
    <2>5. CASE p \notin {"reading", "mai_rd_rs", "rs_t0", "rs_t0_D", "rs_t1", "rest", "rdwr_rs",
                         "rdwr_rs_D", "mc_wr_rs"}
      BY <1>3, <1>5, <2>5
    <2> QED
      BY <2>1, <2>2, <2>3, <2>4, <2>5
  <1> QED
    BY <1>3, <1>5, <1>11

(* When the module has the word on the bus, so has the processor.          *)
LEMMA SameWord ==
  ASSUME NEW x, NEW s \in Stage, NEW p \in Turn, Ticks(x, s, p),
         due["bus_mb"] = 1 \/ mb_pulse > 1 \/ left["rs_D"] > 0
  PROVE  /\ mb' = mb /\ ~Connected /\ p # "asking"
         /\ act = 0 => cmb' = mb
  <1>1. /\ BusInv(s, p) /\ ServeInv(s, p) /\ BufferInv(s, p) /\ FlagInv(p) /\ TimeInv(p) /\ Typed
    BY DEF Ticks, Now, TurnInv, ServiceInv, WordInv
  <1>2. PICK t \in Stage : Onward(s, t)
    BY SomeStage DEF Ticks
  <1>3. PICK r \in Turn : Goes(x, s, p, r)
    BY SomeTurn
  <1>4. /\ left["rs_D"] \in Nat /\ left["rs_D"] <= 2 /\ mb_pulse \in 0 .. 3
        /\ act \in {0, NoPort} /\ 0 # NoPort /\ left["stb"] \in Nat
    <2>1. left["rs_D"] \in Nat /\ left["rs_D"] <= 2
      BY StagesOn DEF Ticks, Pulse, Delay
    <2> QED
      BY <1>1, <1>2, <2>1, ServiceGoes DEF Typed
  <1>5. due["bus_mb"] = 1 \/ mb_pulse > 1
    BY <1>1, <1>4 DEF BusInv
  <1>6. /\ cpu \in {"wr", "rs", "keyed"}
        /\ p \in {"stopped", "rs_t0_D", "rs_t1"}
    BY <1>1, <1>4, <1>5 DEF BusInv
  <1>7. ~(left["stb"] > 0)
    <2>1. left["stb"] > 0 => Fetching(s)
      BY <1>2, ServiceGoes
    <2> QED
      BY <1>1, <1>6, <2>1 DEF ServeInv
  <1>8. due["mb_clr_D"] # 1
    BY <1>1, <1>6 DEF TimeInv, Timed
  <1>9. x.op \notin {"wr", "rs"}
    BY <1>3, <1>6, ComesFrom DEF Request
  <1>10. mb' = mb
    BY <1>7, <1>8, <1>9, WordsGo
  <1>11. ~Connected
    BY <1>1, <1>6 DEF Connected, FlagInv, Asking
  <1>12. ASSUME act = 0
         PROVE  cmb' = mb
    <2>1. mb_pulse > 0 => cmb = mb
      BY <1>1, <1>4, <1>12 DEF BufferInv
    <2>2. due["bus_mb"] = 1 => Owed(s) /\ left["rs_D"] = 0
      <3>1. due["bus_mb"] = 1 => Owed(s)
        BY <1>1, <1>4, <1>12 DEF ServeInv
      <3>2. due["bus_mb"] = 1 => ~(left["rs_D"] > 0)
        BY <1>1, <1>4 DEF BusInv
      <3> QED
        BY <1>4, <3>1, <3>2
    <2>3. ~(left["cmb_clr"] > 0)
      <3> SUFFICES ASSUME left["cmb_clr"] > 0
                   PROVE  FALSE
        OBVIOUS
      <3>1. s # "t1a"
        BY <1>1, <1>6 DEF ServeInv
      <3>2. s = "pse" /\ cma_rd_rq /\ cma_wr_rq /\ ~proc_rs
        BY <1>1, <3>1 DEF BufferInv
      <3>3. Owed(s)
        BY <3>2 DEF Owed
      <3>4. due["bus_mb"] > 0 \/ left["rs_D"] > 0
        <4>1. mb_pulse > 1 => mb_pulse > 0
          BY <1>4
        <4>2. mb_pulse > 0 => left["rs_D"] > 0
          BY <1>1, <3>3 DEF BufferInv
        <4> QED
          BY <1>5, <4>1, <4>2
      <3> QED
        BY <1>1, <1>6, <3>2, <3>3, <3>4 DEF BufferInv
    <2>4. left["cmb_clr"] \in Nat
      BY WordsGo
    <2>5. due["bus_mb"] = 1 => cmb = {}
      <3>1. due["bus_mb"] = 1 /\ cma_rd_rq => s = "pse"
        BY <1>1, <2>2 DEF BufferInv
      <3>2. left["cmb_clr"] = 0
        BY <2>3, <2>4
      <3>4. Owed(s) /\ left["rs_D"] = 0 /\ (cma_rd_rq => s = "pse") => cmb = {}
        BY <1>1, <3>2 DEF BufferInv
      <3> QED
        BY <2>2, <3>1, <3>4
    <2>6. cmb' = cmb \cup mb
      <3>1. mb_pulse > 1 => mb_pulse > 0
        BY <1>4
      <3>2. due["bus_mb"] = 1 \/ mb_pulse > 0
        BY <1>5, <3>1
      <3> QED
        BY <1>7, <1>12, <2>3, <3>2, WordsGo
    <2>7. CASE due["bus_mb"] = 1
      BY <2>5, <2>6, <2>7
    <2>8. CASE mb_pulse > 1
      <3>1. mb_pulse > 0
        BY <1>4, <2>8
      <3> QED
        BY <2>1, <2>6, <3>1
    <2> QED
      BY <1>5, <2>7, <2>8
  <1> QED
    BY <1>6, <1>10, <1>11, <1>12

(* The buffer of the module is clear when the word of the processor comes, *)
(* and then holds it.                                                      *)
LEMMA BufferOn ==
  ASSUME NEW x, NEW s \in Stage, NEW p \in Turn, Ticks(x, s, p),
         NEW r \in Turn, Goes(x, s, p, r), NEW t \in Stage, Onward(s, t)
  PROVE  BufferInv(t, r)'
  <1>1. /\ BufferInv(s, p) /\ ServeInv(s, p) /\ BusInv(s, p) /\ ReadInv(s) /\ TimeInv(p) /\ Typed
        /\ CpuInv(p)
    BY DEF Ticks, Now, StageInv, TurnInv, ServiceInv, WordInv
  <1>2. /\ left'["cmb_clr"] = (IF (s = "t1b" \/ (left["pse_set"] = 1 /\ cma_rd_rq /\ cma_wr_rq))
                                  /\ "cmb_clr" \notin high THEN 1 ELSE 0)
        /\ "cmb_clr" \in high' <=> s = "t1b" \/ (left["pse_set"] = 1 /\ cma_rd_rq /\ cma_wr_rq)
        /\ left["cmb_clr"] \in Nat
        /\ left["pse_set"] = 1 => s = "pse_set"
    <2>1. left["pse_set"] = 1 => s = "pse_set"
      BY StageFrom DEF ChainPulse
    <2> QED
      BY <2>1, WordsGo
  <1>3. /\ left'["rs_D"] = (IF act = 0 /\ due["bus_mb"] = 1 THEN 2 ELSE Count(left["rs_D"]))
        /\ left["rs_D"] \in Nat /\ left["rs_D"] <= 2
        /\ proc_rs' <=> left["rs_D"] = 1 \/ (s # "t1b" /\ proc_rs)
        /\ act' = (IF Connected THEN 0 ELSE IF left["state_clr"] > 0 THEN NoPort ELSE act)
    <2>1. left["rs_D"] \in Nat /\ left["rs_D"] <= 2
      BY StagesOn DEF Ticks, Pulse, Delay
    <2> QED
      BY <2>1, SideGoes DEF is, on
  <1>4. /\ mb_pulse' = (IF due["bus_mb"] = 1 THEN 3 ELSE Count(mb_pulse))
        /\ mb_pulse \in 0 .. 3
        /\ due'["bus_mb"] = (IF p = "mc_wr_rs" THEN 2 ELSE Count(due["bus_mb"]))
        /\ due["bus_mb"] \in Nat
    <2>1. mb_pulse' = (IF due["bus_mb"] = 1 THEN 3 ELSE Count(mb_pulse))
      BY DEF Ticks, Moves, McClock, Buffers, is, Count
    <2> QED
      BY <1>1, <2>1, TimersGo DEF Typed
  <1>5. /\ s # "t1b" => /\ cma_rd_rq' = cma_rd_rq /\ cma_wr_rq' = cma_wr_rq
                        /\ Owed(t)' <=> Owed(s) /\ left["rs_D"] # 1
                        /\ Fetching(t)' <=> Fetching(s) /\ ~(left["stb"] > 0)
        /\ s = "t1b" => p = "asking" /\ t = "t1a" /\ ~proc_rs' /\ left["rs_D"] = 0
        /\ Owed(s) => act = 0 /\ ma \notin Absent
        /\ left["rs_D"] > 0 => Owed(s)
        /\ act \in {0, NoPort} /\ 0 # NoPort
    <2>1. /\ Owed(s) => act = 0 /\ ma \notin Absent
          /\ left["rs_D"] > 0 => Owed(s)
      BY <1>1 DEF ServeInv
    <2> QED
      BY <2>1, ServiceGoes
  \* the module's own clearing
  <1>6. /\ s = "t1b" => left'["cmb_clr"] > 0
        /\ "cmb_clr" \in high' => left'["cmb_clr"] > 0
    <2>1. s \in {"t1b", "pse_set"} => "cmb_clr" \notin high
      BY <1>1 DEF BufferInv
    <2> QED
      BY <1>2, <2>1
  <1>7. t = "t1a" => left'["cmb_clr"] > 0
    BY <1>6, StageFrom
  <1>8. left["rs_D"] = 1 /\ cma_rd_rq => s = "pse"
    <2>1. left["rs_D"] = 1 => left["rs_D"] > 0
      OBVIOUS
    <2> QED
      BY <1>1, <1>5, <2>1 DEF BufferInv
  <1>9. left'["cmb_clr"] > 0
          => t = "t1a" \/ (t = "pse" /\ cma_rd_rq' /\ cma_wr_rq' /\ ~proc_rs')
    <2>1. left'["cmb_clr"] > 0
            => s = "t1b" \/ (left["pse_set"] = 1 /\ s = "pse_set" /\ cma_rd_rq /\ cma_wr_rq)
      BY <1>2
    <2>2. left["pse_set"] = 1 /\ s = "pse_set" => t = "pse"
      BY StageFrom
    <2>3. s = "pse_set" /\ cma_rd_rq /\ cma_wr_rq => ~proc_rs
      BY <1>1 DEF BufferInv, Parted
    <2> QED
      BY <1>3, <1>5, <1>8, <2>1, <2>2, <2>3
  <1>10. cma_rd_rq' /\ cma_wr_rq' /\ t \in Parted => ~proc_rs'
    <2>1. CASE s = "t1b"
      BY <1>5, <2>1
    <2>2. CASE s # "t1b"
      <3>1. t \in Parted => s \in Parted
        BY <2>2 DEF Onward, Parted
      <3>2. cma_rd_rq /\ cma_wr_rq /\ s \in Parted => ~proc_rs /\ left["rs_D"] # 1
        <4>1. cma_rd_rq /\ cma_wr_rq /\ s \in Parted => ~proc_rs
          BY <1>1 DEF BufferInv
        <4> QED
          BY <1>8, <4>1 DEF Parted
      <3> QED
        BY <1>3, <1>5, <2>2, <3>1, <3>2
    <2> QED
      BY <2>1, <2>2
  \* the word of the processor
  <1>11. left'["rs_D"] > 0 => cmb' = mb'
    <2>1. left'["rs_D"] > 0 => (act = 0 /\ due["bus_mb"] = 1) \/ left["rs_D"] > 0
      BY <1>3 DEF Count
    <2>2. left["rs_D"] > 0 => act = 0
      BY <1>5
    <2> QED
      BY <2>1, <2>2, SameWord
  <1>12. ASSUME mb_pulse' > 0
         PROVE  (due["bus_mb"] = 1 \/ mb_pulse > 1) /\ p # "asking"
                /\ (act' = NoPort \/ cmb' = mb')
    <2>1. due["bus_mb"] = 1 \/ mb_pulse > 1
      BY <1>4, <1>12 DEF Count
    <2>2. mb' = mb /\ ~Connected /\ p # "asking" /\ (act = 0 => cmb' = mb)
      BY <2>1, SameWord
    <2>3. act' = NoPort \/ act = 0
      BY <1>3, <1>5, <2>2
    <2> QED
      BY <2>1, <2>2, <2>3
  <1>13. Owed(t)' /\ mb_pulse' > 0 => left'["rs_D"] > 0
    <2> SUFFICES ASSUME Owed(t)', mb_pulse' > 0
                 PROVE  left'["rs_D"] > 0
      OBVIOUS
    <2>1. (due["bus_mb"] = 1 \/ mb_pulse > 1) /\ p # "asking"
      BY <1>12
    <2>2. Owed(s) /\ left["rs_D"] # 1 /\ act = 0
      BY <1>5, <2>1
    <2>3. mb_pulse > 1 => left["rs_D"] > 0
      <3>1. mb_pulse > 1 => mb_pulse > 0
        BY <1>4
      <3> QED
        BY <1>1, <2>2, <3>1 DEF BufferInv
    <2> QED
      BY <1>3, <2>1, <2>2, <2>3 DEF Count
  <1>14. ASSUME Owed(t)', left'["rs_D"] = 0, left'["cmb_clr"] = 0, cma_rd_rq' => t = "pse"
         PROVE  cmb' = {}
    <2>1. s # "t1b"
      BY <1>6, <1>14
    <2>2. Owed(s) /\ left["rs_D"] = 0 /\ act = 0 /\ due["bus_mb"] # 1
      BY <1>3, <1>5, <1>14, <2>1 DEF Count
    <2>3. ~(mb_pulse > 0)
      <3>1. ~(left["rs_D"] > 0)
        BY <2>2
      <3> QED
        BY <1>1, <2>2, <3>1 DEF BufferInv
    <2>4. ~(left["stb"] > 0)
      <3>1. left["stb"] > 0 => cma_rd_rq /\ s \in {"read_off", "rd_sync"}
        BY ServiceGoes DEF Fetching
      <3>2. s \in {"read_off", "rd_sync"} => t # "pse"
        BY DEF Onward
      <3> QED
        BY <1>5, <1>14, <2>1, <3>1, <3>2
    <2>5. cmb' = IF left["cmb_clr"] > 0 THEN {} ELSE cmb
      BY <2>2, <2>3, <2>4, WordsGo
    <2>6. CASE left["cmb_clr"] = 0
      <3>1. cma_rd_rq => s = "pse"
        <4>1. cma_rd_rq => s = "pse" \/ left["pse_set"] = 1
          BY <1>5, <1>14, <2>1, StageFrom
        <4>2. "cmb_clr" \notin high
          <5>1. ~(left["cmb_clr"] > 0)
            BY <2>6
          <5> QED
            BY <1>1, <5>1 DEF BufferInv
        <4>3. cma_rd_rq => left["pse_set"] # 1
          BY <1>2, <1>14, <2>2, <4>2 DEF Owed
        <4> QED
          BY <4>1, <4>3
      <3>2. cmb = {}
        BY <1>1, <2>2, <2>6, <3>1 DEF BufferInv
      <3> QED
        BY <2>5, <3>2
    <2> QED
      BY <1>2, <2>5, <2>6
  <1>15. ASSUME Owed(t)', cma_rd_rq', r = "mc_wr_rs" \/ due'["bus_mb"] > 0 \/ left'["rs_D"] > 0
         PROVE  t = "pse" /\ (r = "mc_wr_rs" \/ left'["cmb_clr"] = 0)
    <2>1. s # "t1b"
      <3>1. s = "t1b" => p = "asking" /\ left["rs_D"] = 0
        BY <1>5
      <3>2. p = "asking" => ~(due["bus_mb"] > 0)
        BY ServiceGoes
      <3>3. s = "t1b" => due'["bus_mb"] = 0 /\ left'["rs_D"] = 0
        BY <1>3, <1>4, <3>1, <3>2 DEF Count
      <3>4. s = "t1b" => r # "mc_wr_rs"
        <4>1. s = "t1b" => x.op # "key"
          BY KeysWait
        <4> QED
          BY <3>1, <4>1 DEF Goes, Flows
      <3> QED
        BY <1>15, <3>3, <3>4
    <2>2. Owed(s) /\ cma_rd_rq /\ left["rs_D"] # 1
      BY <1>5, <1>15, <2>1
    <2>3. CASE r = "mc_wr_rs"
      <3>1. \/ p = "ack" /\ ~mc_rd
            \/ p = "rdwr_rs_D" /\ due["rdwr_rs_D"] = 1
            \/ x.op = "key"
        BY <2>3 DEF Goes, Flows, First, is
      <3>2. ~(p = "ack" /\ ~mc_rd)
        BY <1>1, <1>5, <2>2 DEF ServeInv
      <3>3. CASE x.op = "key"
        <4>1. s = "pse"
          BY <2>2, <3>3, KeysWait DEF Owed, Parted
        <4> QED
          BY <2>2, <2>3, <4>1 DEF Onward, Owed
      <3>4. CASE p = "rdwr_rs_D" /\ due["rdwr_rs_D"] = 1
        <4>1. ~Fetching(s)
          BY <1>1, <3>4 DEF ServeInv
        <4>2. ~(left["rs_D"] > 0) /\ ~(due["bus_mb"] > 0)
          BY <3>4, ServiceGoes
        <4>3. due["bus_mb"] # 1
          BY <4>2
        <4>4. ToClear(s) <= ToBus(p)
          BY <1>1, <2>2, <3>4, <4>1, <4>2, <4>3 DEF BufferInv
        <4>5. ToBus(p) = 2
          BY <3>4 DEF ToBus
        <4>6. ToClear(s) <= 2
          BY <4>4, <4>5
        <4> QED
          BY <2>2, <2>3, <4>1, <4>6, ToClearGoes
      <3> QED
        BY <3>1, <3>2, <3>3, <3>4
    <2>4. CASE r # "mc_wr_rs"
      <3>1. p = "mc_wr_rs" \/ due["bus_mb"] > 0 \/ left["rs_D"] > 0
        BY <1>3, <1>4, <1>15, <2>4 DEF Count
      <3>2. s = "pse"
        BY <1>1, <2>2, <3>1 DEF BufferInv
      <3>3. ~Fetching(s)
        BY <3>2 DEF Fetching, Reading
      <3> QED
        BY <2>2, <3>2, <3>3, ToClearGoes
    <2> QED
      BY <2>3, <2>4
  <1>16. ASSUME Owed(t)', cma_rd_rq', ~Fetching(t)'
         PROVE  r = "stopped" \/ due'["bus_mb"] = 1 \/ left'["rs_D"] > 0 \/ ToClear(t)' <= ToBus(r)'
    <2>1. s # "t1b"
      <3>1. s = "t1b" => Fetching(t)'
        BY <1>5, <1>16 DEF Fetching
      <3> QED
        BY <1>16, <3>1
    <2>2. Owed(s) /\ cma_rd_rq /\ left["rs_D"] # 1 /\ act = 0
          /\ (Fetching(s) => left["stb"] > 0)
      BY <1>5, <1>16, <2>1
    <2>3. CASE Fetching(s)
      <3>1. left["stb"] > 0 /\ s \in {"read_off", "rd_sync"} /\ stb_sync /\ ~rd_done
        BY <2>2, <2>3, ServiceGoes DEF Fetching
      <3>2. p = "reading"
        BY <1>1, <1>5, <2>2, <2>3, <3>1 DEF ServeInv
      <3>3. r \in {"reading", "mai_rd_rs"}
        <4>1. x.op # "key" /\ x.op # "cont"
          BY <3>2, KeysWait
        <4> QED
          BY <3>2, <4>1 DEF Goes, Flows
      <3>4. ToBus(r)' \in {13, 14}
        BY <3>3 DEF ToBus
      <3>5. CASE s = "rd_sync"
        <4>1. t = "rd_sync"
          BY <3>1, <3>5 DEF Onward
        <4>2. ToClear(t)' = 8
          BY <4>1 DEF ToClear
        <4> QED
          BY <3>4, <4>2
      <3>6. CASE s = "read_off"
        <4>1. left["read_off"] \in Nat /\ left["read_off"] < 7 /\ left["read_off"] > 0
          <5>1. left["read_off"] \in Nat /\ (left["read_off"] > 0 <=> "read_off" = s)
            BY StageFrom DEF ChainPulse
          <5> QED
            BY <1>1, <3>1, <3>6, <5>1 DEF ReadInv
        <4>2. left'["read_off"] = Count(left["read_off"])
          <5>1. ~on("t2")
            BY <3>6, StagesOn DEF Ticks, ChainPulse
          <5> QED
            BY <5>1, ChainPulsesGo DEF Ticks
        <4>3. t = IF left["read_off"] = 1 THEN "rd_sync" ELSE "read_off"
          BY <3>6 DEF Onward, on
        <4>4. /\ t = "rd_sync" => ToClear(t)' = 8
              /\ t = "read_off" => ToClear(t)' = left'["read_off"] + 8
          BY DEF ToClear
        <4> QED
          BY <3>4, <4>1, <4>2, <4>3, <4>4 DEF Count
      <3> QED
        BY <3>1, <3>5, <3>6
    <2>4. CASE ~Fetching(s)
      <3>1. /\ s \in {"read_off", "rd_sync", "rd", "pse_set", "pse"}
            /\ ToClear(s) \in Nat /\ ToClear(t)' = Count(ToClear(s))
        BY <2>2, <2>4, ToClearGoes
      <3>2. CASE left["rs_D"] > 0 \/ due["bus_mb"] = 1
        BY <1>3, <2>2, <3>2 DEF Count
      <3>3. CASE x.op \in {"cont", "key"}
        <4>1. s = "pse" /\ left["cmb_clr"] = 0
          BY <3>1, <3>3, KeysWait DEF Pulse, Delay
        <4>2. ToClear(s) = 0
          BY <4>1 DEF ToClear
        <4>3. r \in {"rs_t0", "rest", "mc_wr_rs"}
          BY <3>3 DEF Goes, Request
        <4>4. ToBus(r)' \in {12, 8, 1}
          BY <4>3 DEF ToBus
        <4> QED
          BY <3>1, <4>2, <4>4 DEF Count
      <3>4. CASE p = "stopped" /\ x.op \notin {"cont", "key"}
        BY <3>4, Carries DEF Flows
      <3>5. CASE ToClear(s) <= ToBus(p) /\ x.op # "key"
        <4>1. /\ ToBus(p) \in Nat /\ ToBus(r)' \in Nat
              /\ r = "stopped" \/ ToBus(r)' + 1 >= ToBus(p)
          BY <2>2, <3>5, ToBusGoes
        <4> QED
          BY <3>1, <3>5, <4>1 DEF Count
      <3>6. p = "stopped" \/ due["bus_mb"] = 1 \/ left["rs_D"] > 0 \/ ToClear(s) <= ToBus(p)
        BY <1>1, <2>2, <2>4 DEF BufferInv
      <3> QED
        BY <3>2, <3>3, <3>4, <3>5, <3>6
    <2> QED
      BY <2>3, <2>4
  <1> QED
    BY <1>6, <1>7, <1>9, <1>10, <1>11, <1>12, <1>13, <1>14, <1>15, <1>16 DEF BufferInv

(***************************************************************************)
(* Until the processor is ready                                            *)
(***************************************************************************)

(* Power is on: the module waits for a request.                            *)
Waited(s) == ~Powering /\ s # "start" => await_rq \/ left["t5"] > 0

(* The module still waits for a request, after a step.                     *)
LEMMA WaitedOn ==
  ASSUME NEW x, NEW s \in Stage, Clocks(x, s), cpu = "off", Waited(s),
         NEW r \in Stage, Onward(s, r)
  PROVE  Waited(r)'
  <1>1. PowerInv(s) /\ OpenInv(s) /\ Typed /\ Moves(x) /\ Unasked
    BY DEF Clocks, StageInv
  <1>2. /\ left'["pwr_t2"] = Count(left["pwr_t2"])
        /\ left'["pwr_t3"] = (IF on("pwr_t2") THEN 50 ELSE Count(left["pwr_t3"]))
        /\ left'["t5"] = IF (on("start") \/ on("t3_D1")) /\ "t5" \notin high THEN 1 ELSE 0
    BY <1>1, PulsesGo DEF Moves, ModuleClock, Starts, Rises, Delay
  <1>3. /\ left["pwr_t2"] \in Nat /\ left["pwr_t3"] \in Nat
        /\ left["t5"] \in Nat /\ left["t5"] <= 1
        /\ on("start") <=> s = "start"
        /\ \A q \in ChainPulse : left[q] \in Nat /\ (left[q] > 0 <=> q = s)
    BY StagesOn DEF Pulse, Delay
  <1>4. await_rq' = IF on("t5") \/ aw_rq_set THEN TRUE
                    ELSE IF on("t0") \/ left["pwr_t2"] > 0 THEN FALSE ELSE await_rq
    BY <1>1, ControlGoes
  <1>5. CASE s = "start"
    BY <1>1, <1>2, <1>3, <1>5 DEF PowerInv, Waited
  <1>6. CASE s # "start" /\ Powering
    <2>1. on("pwr_t3") => s = "still" /\ ~t1b_set
      <3>1. on("pwr_t3") => Rest(s) < 1 /\ Power # 100
        BY <1>1, <1>3 DEF PowerInv, Powering, Power, on
      <3>2. s # "still" => ~(Rest(s) < 1)
        BY <1>3, <1>6 DEF Rest, Stage, ChainPulse
      <3> QED
        BY <1>1, <1>6, <3>1, <3>2 DEF PowerInv, t1b_set, Opening
    <2>2. on("pwr_t3") => r = "start"
      BY <2>1 DEF Onward
    <2> QED
      BY <1>2, <1>3, <1>6, <2>2 DEF Powering, on, Count, Waited
  <1>7. CASE s # "start" /\ ~Powering
    <2>1. await_rq \/ left["t5"] > 0
      BY <1>7 DEF Waited
    <2>2. ~on("t0") /\ ~(left["pwr_t2"] > 0)
      BY <1>1, <1>7 DEF Powering, Unasked, on
    <2>3. left["t5"] > 0 => on("t5")
      BY <1>3 DEF on
    <2> QED
      BY <1>4, <2>1, <2>2, <2>3 DEF Waited
  <1> QED
    BY <1>5, <1>6, <1>7

(* Nothing is coming and nothing was asked: the module is between cycles.  *)
LEMMA QuietIsStill ==
  ASSUME NEW s \in Stage, StageInv(s), Unasked, Typed, Quiet, cpu = "off"
  PROVE  s = "still" /\ ~Powering /\ ~rq_sync /\ act = NoPort
  <1>1. /\ \A q \in Pulse : left[q] = 0
        /\ \A q \in Pulse \ high : ~Cause(ToModule)[q]
    BY DEF Quiet
  <1>2. /\ OpenInv(s) /\ PauseInv(s) /\ ReadInv(s) /\ WriteInv(s) /\ PowerInv(s)
        /\ s \notin ChainPulse
    BY <1>1 DEF StageInv, Chain, ChainPulse, Pulse, Delay
  <1>3. /\ "rd" \in high \/ ~(rd_sync /\ rd_done)
        /\ "wr" \in high \/ ~(wr_sync /\ wr_done)
        /\ "t3" \in high \/ ~(pse_sync /\ (proc_rs \/ ~cma_wr_rq))
        /\ "t1b" \in high \/ ~t1b_set
    <2>1. /\ Cause(ToModule)["rd"] <=> rd_sync /\ rd_done
          /\ Cause(ToModule)["wr"] <=> wr_sync /\ wr_done
          /\ Cause(ToModule)["t3"] <=> pse_sync /\ (proc_rs \/ ~cma_wr_rq)
          /\ Cause(ToModule)["t1b"] <=> t1b_set
      BY DEF Cause
    <2>2. {"rd", "wr", "t3", "t1b"} \subseteq Pulse
      BY DEF Pulse, Delay
    <2>3. \A q \in {"rd", "wr", "t3", "t1b"} : q \in high \/ ~Cause(ToModule)[q]
      BY <1>1, <2>2
    <2> QED
      BY <2>1, <2>3
  <1>4. ~Powering
    BY <1>1 DEF Powering, Pulse, Delay
  <1>5. s # "rd_sync"
    BY <1>2, <1>3 DEF OpenInv, ReadInv, Reading, Unasked
  <1>6. s # "wr_sync"
    BY <1>2, <1>3 DEF OpenInv, WriteInv, Writing, Unasked
  <1>7. s # "pse"
    BY <1>2, <1>3 DEF PauseInv, Unasked
  <1>8. s = "still"
    BY <1>2, <1>5, <1>6, <1>7 DEF Stage
  <1>9. ~rq_sync
    BY <1>2, <1>3, <1>4, <1>8 DEF OpenInv, PowerInv, Opening, t1b_set, ChainPulse
  <1>10. act = NoPort
    <2>1. ~(left["state_clr"] > 0)
      BY <1>1 DEF Pulse, Delay
    <2> QED
      BY <1>2, <1>4, <1>8, <2>1 DEF PowerInv
  <1> QED
    BY <1>4, <1>8, <1>9, <1>10

(* The first step of the processor: nothing is asked, nothing moves.       *)
LEMMA ReadyOn ==
  ASSUME NEW x, NEW s \in Stage, Clocks(x, s), Acts(x), cpu = "off", cpu' = "idle", x.op = "none",
         Waited(s), store = latest, mb_pulse = 0
  PROVE  /\ StageInv("still")' /\ TurnInv("still", "rest")' /\ ServiceInv("still", "rest")'
         /\ WordInv("still", "rest")'
  <1>1. Typed /\ Moves(x) /\ Unasked /\ StageInv(s) /\ Quiet
    BY DEF Clocks
  <1>2. s = "still" /\ ~Powering /\ ~rq_sync /\ act = NoPort
    BY <1>1, QuietIsStill
  <1>3. /\ \A q \in McPulse : due[q] = 0
        /\ \A q \in Pulse : left[q] = 0
    BY <1>1 DEF Quiet
  <1>4. /\ \A q \in McPulse : ~is(q)
        /\ \A q \in Pulse : ~on(q)
    BY <1>3 DEF is, on
  <1>5. await_rq
    <2>1. ~(left["t5"] > 0)
      BY <1>3 DEF Pulse, Delay
    <2> QED
      BY <1>2, <2>1 DEF Waited
  <1>6. Unasked'
    <2>1. ReadInv(s)
      BY <1>1 DEF StageInv
    <2> QED
      BY <1>1, <2>1, UnaskedKept
  <1>7. StageInv("still")'
    <2>1. ~t1b_set /\ ~on("pwr_t3")
      BY <1>2, <1>4 DEF t1b_set, Pulse, Delay
    <2>2. Onward(s, "still") /\ "still" \in Stage
      BY <1>2, <2>1 DEF Onward, Stage
    <2> QED
      BY <1>2, <2>2, ChainOn, OpenOn, PauseOn, ReadOn, WriteOn, PowerOn DEF StageInv
  <1>8. ~Connected /\ ~(Requests(ToModule) # {})
    <2>1. ~Connected
      BY <1>1 DEF Unasked, Connected
    <2> QED
      BY <1>1, <2>1, OnTheBus
  <1>9. /\ left'["t0"] = 0 /\ "t0" \notin high'
        /\ left'["t0_D"] = 0
        /\ left'["t5"] = 0 /\ "t5" \notin high'
        /\ left'["addr_ack"] = 0 /\ "addr_ack" \notin high'
        /\ left'["rd_rs"] = 0 /\ "rd_rs" \notin high'
    <2>1. /\ Rises("t0", Requests(ToModule) # {}) /\ Starts("t0_D", on("t0"))
          /\ Rises("t5", on("start") \/ on("t3_D1"))
          /\ Rises("addr_ack", on("t1b") /\ act # NoPort) /\ Rises("rd_rs", on("stb"))
      BY <1>1, PulsesGo DEF Moves, ModuleClock
    <2>2. {"t0", "start", "t3_D1", "t1b", "stb", "t0_D"} \subseteq Pulse
      BY DEF Pulse, Delay
    <2> QED
      BY <1>3, <1>4, <1>8, <2>1, <2>2 DEF Rises, Starts, Count
  <1>10. /\ left'["rs_D"] = 0
         /\ left'["proc_rs"] = 0 /\ "proc_rs" \notin high'
         /\ left'["state_clr"] = 0 /\ "state_clr" \notin high'
         /\ left'["cmb_clr"] = 0 /\ "cmb_clr" \notin high'
    <2>1. /\ Rises("proc_rs", proc_rs)
          /\ Rises("state_clr", on("start") \/ (on("t3") /\ ~cma_wr_rq) \/ on("proc_rs"))
          /\ Rises("cmb_clr", on("t1b") \/ (on("pse_set") /\ cma_rd_rq /\ cma_wr_rq))
      BY <1>1, PulsesGo DEF Moves, ModuleClock
    <2>2. {"start", "t3", "proc_rs", "t1b", "pse_set"} \subseteq Pulse
      BY DEF Pulse, Delay
    <2>3. ~proc_rs
      BY <1>1 DEF Unasked
    <2>4. left'["rs_D"] = 0
      BY <1>6 DEF Unasked
    <2> QED
      BY <1>4, <2>1, <2>2, <2>3, <2>4 DEF Rises
  <1>11. act' = NoPort /\ await_rq' = TRUE /\ rq_sync' = FALSE
    <2>1. ~on("state_clr") /\ ~on("t0") /\ ~on("t0_D") /\ ~(left["pwr_t2"] > 0)
          /\ ~on("start")
      BY <1>3, <1>4 DEF Pulse, Delay
    <2>2. act' = IF Connected THEN 0 ELSE IF on("state_clr") THEN NoPort ELSE act
      BY <1>1, ControlGoes
    <2>3. await_rq' = IF on("t5") \/ aw_rq_set THEN TRUE
                      ELSE IF on("t0") \/ left["pwr_t2"] > 0 THEN FALSE ELSE await_rq
      BY <1>1, ControlGoes
    <2>4. await_rq = TRUE /\ rq_sync = FALSE
      BY <1>1, <1>2, <1>5 DEF Typed
    <2>5. await_rq' = TRUE
      BY <2>1, <2>3, <2>4
    <2>6. rq_sync' = IF on("t2") THEN FALSE
                     ELSE IF rq_sync_set THEN TRUE
                     ELSE IF on("start") \/ left["pwr_t3"] > 0 THEN FALSE ELSE rq_sync
      BY <1>1, ControlGoes
    <2>7. ~rq_sync_set
      BY <2>1 DEF rq_sync_set
    <2>8. rq_sync' = FALSE
      BY <2>4, <2>6, <2>7
    <2> QED
      BY <1>2, <1>8, <2>1, <2>2, <2>5, <2>8
  \* the memory control
  <1>12. McSchedule(x, ToProcessor) /\ ~addr_ack(0) /\ ~rd_rs(0) /\ x.op = "none"
    BY <1>1, <1>4 DEF Moves, McClock, addr_ack, rd_rs, Pulse, Delay
  <1>13. \A q \in Amplified : due'[q] = 0 /\ q \notin up'
    <2>1. \A q \in {"rd_rq", "wr_rq", "rdwr_rq", "rq", "rq_set", "illeg", "split_rd"} :
            due'[q] = 0 /\ q \notin up'
      BY <1>1, <1>4, <1>12, McPulsesGo DEF Comes, Asked, McPulse, McDelay
    <2>2. \A q \in {"mai_ack", "nxm", "nxm_rst", "ack", "mai_rd_rs"} : due'[q] = 0 /\ q \notin up'
      <3>1. ~mc_non_exist_mem
        BY <1>4 DEF mc_non_exist_mem, McPulse, McDelay
      <3> QED
        BY <1>1, <1>4, <1>12, <3>1, McPulsesGo DEF Comes, McPulse, McDelay
    <2>3. \A q \in {"rdwr_rs", "split_wr", "mc_wr_rs", "rs_t0", "rs_t1"} :
            due'[q] = 0 /\ q \notin up'
      <3>1. ~wr_rs_set(x) /\ ~mc_rs_t0(x)
        BY <1>1, <1>4, <1>12 DEF wr_rs_set, mc_rs_t0, Asked, McPulse, McDelay
      <3> QED
        BY <1>1, <1>4, <1>12, <3>1, McPulsesGo DEF Comes, Asked, McPulse, McDelay
    <2> QED
      BY <2>1, <2>2, <2>3 DEF Amplified
  <1>14. "nxm_rd" \notin up' /\ "mb_clr" \notin up'
    BY <1>1, <1>4, <1>12, McPulsesGo DEF Comes, McPulse, McDelay
  <1>15. /\ due'["D0"] = 0 /\ due'["D1"] = 0 /\ due'["D2"] = 0 /\ due'["D3"] = 0
         /\ due'["mb_clr"] = 0 /\ due'["mb_clr_D"] = 0 /\ due'["nxm_rd"] = 0
         /\ due'["bus_mb"] = 0 /\ due'["bus_wr_rs"] = 0
         /\ due'["rs_t0_D"] = 0 /\ due'["rdwr_rs_D"] = 0
    BY <1>6 DEF Unasked, McPulse, McDelay
  <1>16. /\ mc_rd' = FALSE /\ mc_wr' = FALSE /\ mc_rq' = FALSE /\ mc_stop' = FALSE
         /\ proc_rs' = FALSE /\ cma_rd_rq' = FALSE /\ cma_wr_rq' = FALSE
         /\ m_read' = FALSE /\ m_write' = FALSE
    BY <1>6 DEF Unasked
  <1>17. mb_pulse' = 0
    <2>1. mb_pulse' = (IF is("bus_mb") THEN 3 ELSE IF mb_pulse = 0 THEN 0 ELSE mb_pulse - 1)
      BY <1>1 DEF Moves, McClock, Buffers
    <2> QED
      BY <1>4, <2>1 DEF McPulse, McDelay
  <1>18. store' = latest'
    <2>1. store' = IF m_write /\ ~m_waitrequest THEN [store EXCEPT ![cma] = cmb] ELSE store
      BY <1>1 DEF Moves, MemoryClock
    <2>2. latest' = latest
      BY DEF Acts, Request, Awaiting, Awaits, AtRest
    <2> QED
      BY <1>1, <2>1, <2>2 DEF Unasked
  <1>19. TurnInv("still", "rest")'
    <2>1. TurnChain("rest")' /\ CpuInv("rest")' /\ KeyInv("rest")'
      BY <1>13, <1>15 DEF TurnChain, CpuInv, KeyInv, Amplified, Awaits, Request
    <2>2. FlagInv("rest")' /\ StopInv("rest")'
      BY <1>14, <1>15, <1>16 DEF FlagInv, StopInv, Asking, Settled, Ends, Answering, Awaits, Request, Timed
    <2>3. TimeInv("rest")'
      <3>1. NxmDelay \in Nat /\ NxmDelay >= 100
        <4>1. PICK w \in Waits : w \in Nat /\ NxmDelay >= w + 100
          BY MemCycleAssumption
        <4> QED
          BY <4>1, MemCycleAssumption
      <3>2. Since(2)' = 0 /\ Since(7)' = 0 /\ Since(10)' = 0
        BY <1>15, <3>1 DEF Since
      <3> QED
        BY <1>14, <1>15, <3>1, <3>2 DEF TimeInv, Timed
    <2>4. BusInv("still", "rest")'
      BY <1>10, <1>15, <1>17 DEF BusInv
    <2> QED
      BY <2>1, <2>2, <2>3, <2>4 DEF TurnInv
  <1>20. ~Owed("still")' /\ ~Fetching("still")' /\ ~HalfDone("rest")' /\ ~Writes("still")'
         /\ ~Requested'
    BY <1>16 DEF Owed, Fetching, HalfDone, Writes, Requested, Parted, Reading, Ends, Answering
  <1>21. ServiceInv("still", "rest")'
    <2>1. FrontInv("still", "rest")'
      BY <1>9, <1>11 DEF FrontInv, Late, Opening
    <2>2. ServeInv("still", "rest")'
      BY <1>9, <1>10, <1>15, <1>16, <1>20 DEF ServeInv, Parted
    <2>3. PortInv("still", "rest")'
      BY <1>10, <1>11, <1>16, NoPortAssumption DEF PortInv, Parted, Port
    <2>4. AbsentInv("still", "rest")' /\ BoundInv("still", "rest")'
      BY <1>20 DEF AbsentInv, BoundInv, Awaits, Request, Timed
    <2> QED
      BY <2>1, <2>2, <2>3, <2>4 DEF ServiceInv
  <1>22. WordInv("still", "rest")'
    <2>1. StoreInv("still", "rest")'
      BY <1>18, <1>20 DEF StoreInv, Awaits, Request
    <2>2. ReadData("still", "rest")'
      BY <1>20 DEF ReadData, Timed, Asking, Ends, Answering
    <2>3. BufferInv("still", "rest")'
      BY <1>10, <1>16, <1>17, <1>20 DEF BufferInv, Parted
    <2> QED
      BY <2>1, <2>2, <2>3 DEF WordInv
  <1> QED
    BY <1>7, <1>19, <1>21, <1>22

(***************************************************************************)
(* The invariant                                                           *)
(***************************************************************************)

(* Processor and module stay together: the next turn and the next stage.   *)
LEMMA CycleKept ==
  ASSUME IInv, CycleInv, NEW x \in Inputs, Steps(x)
  PROVE  CycleInv'
  <1>1. Typed /\ AddressInv /\ Moves(x) /\ Acts(x)
    BY DEF IInv, Steps
  <1>2. CASE cpu # "off"
    <2>1. PICK s \in Stage, p \in Turn :
            StageInv(s) /\ TurnInv(s, p) /\ ServiceInv(s, p) /\ WordInv(s, p)
      BY <1>2 DEF CycleInv
    <2>2. Clocks(x, s)
      BY <1>1, <1>2, <2>1 DEF Clocks, Steps
    <2>3. Ticks(x, s, p)
      BY <1>1, <1>2, <2>1, <2>2 DEF Ticks, Now
    <2>4. PICK t \in Stage : Onward(s, t)
      BY <2>2, SomeStage
    <2>5. PICK r \in Turn : Goes(x, s, p, r)
      BY <2>3, SomeTurn
    <2>6. StageInv(t)'
      BY <2>2, <2>4, ChainOn, OpenOn, PauseOn, ReadOn, WriteOn, PowerOn DEF StageInv
    <2>7. TurnInv(t, r)'
      BY <2>3, <2>4, <2>5, TurnChainOn, CpuOn, KeyOn, FlagOn, StopOn, TimeOn, BusOn DEF TurnInv
    <2>8. ServiceInv(t, r)'
      BY <2>3, <2>4, <2>5, FrontOn, ServeOn, PortOn, AbsentOn, BoundOn DEF ServiceInv
    <2>9. WordInv(t, r)'
      BY <2>3, <2>4, <2>5, StoreOn, ReadDataOn, BufferOn DEF WordInv
    <2>10. cpu' # "off"
      BY <1>2 DEF Steps
    <2> QED
      BY <2>6, <2>7, <2>8, <2>9, <2>10 DEF CycleInv
  <1>3. CASE cpu = "off"
    <2>1. PICK s \in Stage : StageInv(s) /\ Waited(s)
      BY <1>3 DEF CycleInv, Waited
    <2>2. store = latest /\ mb_pulse = 0 /\ Unasked
      BY <1>3 DEF CycleInv, IInv, ModuleInv
    <2>3. Clocks(x, s) /\ x.op = "none"
      BY <1>1, <1>3, <2>1, <2>2 DEF Clocks, Steps
    <2>4. CASE cpu' = "idle"
      <3>1. /\ StageInv("still")' /\ TurnInv("still", "rest")'
            /\ ServiceInv("still", "rest")' /\ WordInv("still", "rest")'
        BY <1>1, <1>3, <2>1, <2>2, <2>3, <2>4, ReadyOn
      <3>2. "still" \in Stage /\ "rest" \in Turn
        BY DEF Stage, Turn
      <3> QED
        BY <2>4, <3>1, <3>2 DEF CycleInv
    <2>5. CASE cpu' = "off"
      <3>1. PICK t \in Stage : Onward(s, t)
        BY <2>3, SomeStage
      <3>2. StageInv(t)'
        BY <2>3, <3>1, ChainOn, OpenOn, PauseOn, ReadOn, WriteOn, PowerOn DEF StageInv
      <3>3. Waited(t)'
        BY <1>3, <2>1, <2>3, <3>1, WaitedOn
      <3>4. store' = latest'
        <4>1. store' = IF m_write /\ ~m_waitrequest THEN [store EXCEPT ![cma] = cmb] ELSE store
          BY <1>1 DEF Moves, MemoryClock
        <4>2. latest' = latest
          BY <1>1, <1>3, <2>3 DEF Acts, Request, Awaiting, Awaits, AtRest
        <4> QED
          BY <2>2, <4>1, <4>2 DEF Unasked
      <3>5. mb_pulse' = 0
        <4>1. mb_pulse' = (IF is("bus_mb") THEN 3 ELSE IF mb_pulse = 0 THEN 0 ELSE mb_pulse - 1)
          BY <1>1 DEF Moves, McClock, Buffers
        <4>2. ~is("bus_mb")
          BY <2>2 DEF Unasked, is, McPulse, McDelay
        <4> QED
          BY <2>2, <4>1, <4>2
      <3> QED
        BY <2>5, <3>2, <3>3, <3>4, <3>5 DEF CycleInv, Waited
    <2> QED
      BY <1>3, <2>4, <2>5 DEF Steps
  <1> QED
    BY <1>2, <1>3

(* Power comes on.                                                         *)
LEMMA CycleBegins ==
  Init => CycleInv
  <1> SUFFICES ASSUME Init
               PROVE  CycleInv
    OBVIOUS
  <1>1. left = [p \in Pulse |-> IF p = "pwr_t2" THEN 50 ELSE 0] /\ high = {}
    BY DEF Init, ModuleInit, Delay, Pulse
  <1>2. Chain("still")
    BY <1>1 DEF Chain, ChainPulse, Pulse, Delay
  <1>3. OpenInv("still") /\ PauseInv("still")
    BY <1>1 DEF Init, ModuleInit, OpenInv, PauseInv, Opening, Parted
  <1>4. ReadInv("still") /\ WriteInv("still")
    BY <1>1 DEF Init, ModuleInit, ReadInv, WriteInv, Reading, Writing, Pulse, Delay
  <1>5. PowerInv("still")
    BY <1>1 DEF Init, ModuleInit, PowerInv, Powering, Power, Rest, Pulse, Delay
  <1>6. Powering
    BY <1>1 DEF Powering, Pulse, Delay
  <1>7. cpu = "off" /\ store = latest /\ mb_pulse = 0
    BY DEF Init, McInit
  <1> QED
    BY <1>2, <1>3, <1>4, <1>5, <1>6, <1>7 DEF CycleInv, StageInv, Stage

(* A step that changes nothing.                                            *)
LEMMA CycleStutters ==
  ASSUME CycleInv, UNCHANGED vars
  PROVE  CycleInv'
  <1>1. \A s \in Stage : StageInv(s) => StageInv(s)'
    BY DEF vars, mcVars, mcFlags, moduleVars, schedule, control, request, handshake, StageInv,
           Chain, OpenInv, PauseInv, ReadInv, WriteInv, PowerInv, Powering, Power, Rest
  <1>2. \A s \in Stage, p \in Turn : TurnInv(s, p) => TurnInv(s, p)'
    <2>1. \A p \in Turn : TurnChain(p) /\ CpuInv(p) /\ KeyInv(p)
                            => TurnChain(p)' /\ CpuInv(p)' /\ KeyInv(p)'
      BY DEF vars, mcVars, mcFlags, moduleVars, schedule, TurnChain, CpuInv, KeyInv, Echo, Since
    <2>2. \A p \in Turn : FlagInv(p) /\ StopInv(p) /\ TimeInv(p)
                            => FlagInv(p)' /\ StopInv(p)' /\ TimeInv(p)'
      BY DEF vars, mcVars, mcFlags, FlagInv, StopInv, TimeInv, Since
    <2>3. \A s \in Stage, p \in Turn : BusInv(s, p) => BusInv(s, p)'
      BY DEF vars, mcVars, moduleVars, schedule, BusInv
    <2> QED
      BY <2>1, <2>2, <2>3 DEF TurnInv
  <1>3. \A s \in Stage, p \in Turn : ServiceInv(s, p) => ServiceInv(s, p)'
    <2>1. \A s \in Stage, p \in Turn : FrontInv(s, p) /\ AbsentInv(s, p) /\ PortInv(s, p)
                                         => FrontInv(s, p)' /\ AbsentInv(s, p)' /\ PortInv(s, p)'
      BY DEF vars, mcVars, mcFlags, moduleVars, schedule, control, request, FrontInv, AbsentInv,
             PortInv
    <2>2. \A s \in Stage, p \in Turn : ServeInv(s, p) => ServeInv(s, p)'
      BY DEF vars, mcVars, mcFlags, moduleVars, schedule, control, request, handshake, ServeInv,
             Owed, Fetching, HalfDone
    <2>3. \A s \in Stage, p \in Turn : BoundInv(s, p) => BoundInv(s, p)'
      BY DEF vars, mcVars, moduleVars, schedule, request, handshake, BoundInv, Requested, Rest
    <2> QED
      BY <2>1, <2>2, <2>3 DEF ServiceInv
  <1>4. \A s \in Stage, p \in Turn : WordInv(s, p) => WordInv(s, p)'
    <2>1. \A s \in Stage, p \in Turn : StoreInv(s, p) => StoreInv(s, p)'
      BY DEF vars, mcVars, moduleVars, schedule, control, request, handshake, StoreInv, Writes,
             Owed, Undelivered
    <2>2. \A s \in Stage, p \in Turn : ReadData(s, p) => ReadData(s, p)'
      BY DEF vars, mcVars, mcFlags, moduleVars, schedule, request, handshake, ReadData, Fetching
    <2>3. \A s \in Stage, p \in Turn : BufferInv(s, p) => BufferInv(s, p)'
      BY DEF vars, mcVars, moduleVars, schedule, control, request, handshake, BufferInv, Owed,
             Fetching, ToClear, ToBus
    <2> QED
      BY <2>1, <2>2, <2>3 DEF WordInv
  <1>5. /\ cpu' = cpu /\ store' = store /\ latest' = latest /\ mb_pulse' = mb_pulse
        /\ left' = left /\ await_rq' = await_rq
    BY DEF vars, mcVars, moduleVars, schedule, control
  <1>6. CASE cpu = "off"
    BY <1>1, <1>5, <1>6 DEF CycleInv, Powering
  <1>7. CASE cpu # "off"
    BY <1>1, <1>2, <1>3, <1>4, <1>5, <1>7 DEF CycleInv
  <1> QED
    BY <1>6, <1>7

(* The invariant of a memory cycle, processor and module together.         *)
THEOREM CycleInvariance ==
  Spec => [](IInv /\ CycleInv)
  <1>1. Init => IInv /\ CycleInv
    BY Begins, CycleBegins
  <1>2. IInv /\ CycleInv /\ [Next]_vars => (IInv /\ CycleInv)'
    <2>1. ASSUME IInv, CycleInv, Next
          PROVE  CycleInv'
      <3>1. PICK x \in Inputs : Steps(x)
        BY <2>1, EveryStep DEF IInv, Typed
      <3> QED
        BY <2>1, <3>1, CycleKept
    <2> QED
      BY <2>1, Keeps, CycleStutters
  <1> QED
    BY <1>1, <1>2, PTL DEF Spec

(***************************************************************************)
(* What comes of it                                                        *)
(***************************************************************************)

(* In a request, processor and module are at some turn and some stage.     *)
LEMMA Somewhere ==
  ASSUME IInv, CycleInv, cpu # "off"
  PROVE  \E s \in Stage, p \in Turn : Now(s, p)
  BY DEF IInv, CycleInv, Now

(* A word that is read is the last one written to its address, and what    *)
(* the module is done with is in the memory.                               *)
THEOREM ReadsTheLastWord ==
  Spec => []Consistent
  <1>1. IInv /\ CycleInv => Consistent
    <2> SUFFICES ASSUME IInv, CycleInv
                 PROVE  Consistent
      OBVIOUS
    <2>1. CASE cpu = "off"
      BY <2>1 DEF Consistent
    <2>2. CASE cpu # "off"
      <3>1. PICK s \in Stage, p \in Turn : Now(s, p)
        BY <2>2, Somewhere
      <3>2. /\ CpuInv(p) /\ FrontInv(s, p) /\ OpenInv(s) /\ WriteInv(s) /\ StoreInv(s, p)
            /\ ReadData(s, p) /\ Typed
        BY <3>1 DEF Now, StageInv, TurnInv, ServiceInv, WordInv
      <3>3. is("rs_t1") => p = "rs_t1"
        BY <3>1, NowTyped DEF Amplified
      <3>4. is("rs_t1") /\ cpu \in {"rd", "rdwr"} /\ ma \in Core => mb = latest[ma]
        BY <3>2, <3>3 DEF ReadData, Ends, Answering
      <3>5. ASSUME cpu = "idle", await_rq, cyc_done
            PROVE  store = latest
        <4>1. s = "still"
          BY <3>2, <3>5 DEF FrontInv, OpenInv, Late, Opening
        <4>2. ~Writes(s)
          BY <3>2, <4>1 DEF WriteInv, Writes, Writing, Parted
        <4>3. \A a \in Addr : store[a] = latest[a]
          BY <3>2, <3>5, <4>2 DEF StoreInv
        <4>4. store \in [Addr -> Word] /\ latest \in [Addr -> Word]
          BY <3>2 DEF Typed, TypeOK
        <4> QED
          BY <4>3, <4>4
      <3> QED
        BY <3>4, <3>5 DEF Consistent
    <2> QED
      BY <2>1, <2>2
  <1> QED
    BY <1>1, CycleInvariance, PTL

(* An answer comes to a request, or to a key that broke it off, or after   *)
(* an address out of bounds.                                               *)
THEOREM AnswersARequest ==
  Spec => []AnsweredOnce
  <1>1. IInv /\ CycleInv => AnsweredOnce
    <2> SUFFICES ASSUME IInv, CycleInv, is("rs_t1")
                 PROVE  Awaiting \/ cpu = "keyed" \/ (cpu = "halted" /\ rel = "bad")
      BY DEF AnsweredOnce
    <2>1. cpu # "off"
      BY DEF IInv, ModuleInv, Unasked, is, McPulse, McDelay
    <2>2. PICK s \in Stage, p \in Turn : Now(s, p)
      BY <2>1, Somewhere
    <2>3. p = "rs_t1"
      BY <2>2, NowTyped DEF Amplified
    <2>4. CpuInv(p) /\ cpu \in {"keyed", "idle", "addressed", "trap", "paused", "halted"} \cup Awaits
      BY <2>1, <2>2 DEF Now, TurnInv, Typed, TypeOK
    <2> QED
      BY <2>3, <2>4 DEF CpuInv, Awaiting, Answering
  <1> QED
    BY <1>1, CycleInvariance, PTL

(* The timer of a request never outruns a memory that is there.            *)
THEOREM OnlyMissingMemoryTimesOut ==
  Spec => []NoFalseNxm
  <1>1. IInv /\ CycleInv => NoFalseNxm
    <2> SUFFICES ASSUME IInv, CycleInv, is("nxm")
                 PROVE  ma \in Absent
      BY DEF NoFalseNxm
    <2>1. cpu # "off"
      BY DEF IInv, ModuleInv, Unasked, is, McPulse, McDelay
    <2>2. PICK s \in Stage, p \in Turn : Now(s, p)
      BY <2>1, Somewhere
    <2>3. p = "nxm"
      BY <2>2, NowTyped DEF Amplified
    <2> QED
      BY <2>2, <2>3 DEF Now, TurnInv, FlagInv
  <1> QED
    BY <1>1, CycleInvariance, PTL

(* A machine that stands still in a request was stopped by a switch.       *)
THEOREM StandsOnlyWhenStopped ==
  Spec => []NeverHangs
  <1>1. IInv /\ CycleInv => NeverHangs
    <2> SUFFICES ASSUME IInv, CycleInv, Awaiting, Quiet
                 PROVE  mc_stop \/ (ma \in Absent /\ mc_rq)
      BY DEF NeverHangs
    <2>1. cpu # "off"
      BY DEF Awaiting, Awaits, Request
    <2>2. PICK s \in Stage, p \in Turn : Now(s, p)
      BY <2>1, Somewhere
    <2>3. p \in {"rest", "asking", "stopped"}
      BY <2>2, QuietMeans
    <2>4. CpuInv(p) /\ FlagInv(p) /\ StopInv(p)
      BY <2>2 DEF Now, TurnInv
    <2>5. p # "rest"
      BY <2>4 DEF CpuInv, Awaiting, Awaits, Request, Settled, Asking, Ends, Answering
    <2>6. p = "asking" => mc_rq /\ ma \in Absent
      BY <2>2, <2>4, QuietOwes DEF FlagInv, Asking
    <2> QED
      BY <2>3, <2>4, <2>5, <2>6 DEF StopInv
  <1> QED
    BY <1>1, CycleInvariance, PTL

(* The word of a read-pause-write is given back without a second stop.     *)
THEOREM OneContinueWillDo ==
  Spec => []ContinuesOnce
  <1>1. IInv /\ CycleInv => ContinuesOnce
    <2> SUFFICES ASSUME IInv, CycleInv, cpu = "rs", ~mc_split_cyc_sync
                 PROVE  ~mc_stop
      BY DEF ContinuesOnce
    <2>1. PICK s \in Stage, p \in Turn : Now(s, p)
      BY Somewhere
    <2> QED
      BY <2>1 DEF Now, TurnInv, StopInv
  <1> QED
    BY <1>1, CycleInvariance, PTL

(* A request to the memory is held until it is taken, and then dropped.    *)
THEOREM RequestsAreHeld ==
  Spec => PortHeld
  <1> DEFINE Held == /\ Requested /\ m_waitrequest
                          => UNCHANGED <<m_read, m_write, cma>> /\ (m_write => cmb' = cmb)
                     /\ Requested /\ ~m_waitrequest => ~Requested'
  <1>1. ASSUME IInv, CycleInv, Next
        PROVE  Held
    <2>1. CASE cpu = "off"
      BY <1>1, <2>1 DEF IInv, ModuleInv, Unasked, Requested
    <2>2. CASE cpu # "off"
      <3>1. PICK s \in Stage, p \in Turn : Now(s, p)
        BY <1>1, <2>2, Somewhere
      <3>2. PICK x \in Inputs : Steps(x)
        BY <1>1, EveryStep DEF IInv, Typed
      <3>3. Ticks(x, s, p)
        BY <2>2, <3>1, <3>2 DEF Ticks, Now, Clocks, Steps
      <3>4. PICK t \in Stage : Onward(s, t)
        BY <3>3, SomeStage DEF Ticks
      <3>5. /\ m_read => s \in Reading
            /\ m_write => s \in Writing
        BY <3>1 DEF Now, StageInv, ReadInv, WriteInv
      <3>6. /\ on("t1a") <=> s = "t1a"
            /\ on("t3") <=> s = "t3"
            /\ on("t1b") <=> s = "t1b"
        BY <3>3, StagesOn DEF Ticks
      <3>7. Requested => ~on("t1a") /\ ~on("t3") /\ ~on("t1b")
        BY <3>5, <3>6 DEF Requested, Reading, Writing
      <3>8. /\ m_read \in BOOLEAN /\ m_write \in BOOLEAN
            /\ m_read' \in BOOLEAN /\ m_write' \in BOOLEAN
            /\ m_read' <=> (on("t1a") /\ cma_rd_rq) \/ (~on("t1a") /\ m_read /\ lag > 0)
            /\ m_write' <=> (on("t3") /\ cma_wr_rq) \/ (~on("t3") /\ m_write /\ lag > 0)
        <4>1. Typed /\ Moves(x)
          BY <3>3 DEF Ticks, Now
        <4> QED
          BY <4>1, MeetingsGo DEF Typed
      <3>9. Requested => cma' = cma
        BY <3>1, <3>3, <3>7, JamGoes DEF Ticks, Now, request
      <3>10. m_write => cmb' = cmb
        BY <3>3, <3>4, WritesGo
      <3> QED
        BY <3>7, <3>8, <3>9, <3>10 DEF Requested, m_waitrequest
    <2> QED
      BY <2>1, <2>2
  <1>2. IInv /\ CycleInv /\ [Next]_vars => [Held]_vars
    BY <1>1
  <1>3. Spec => [][Held]_vars
    BY <1>2, CycleInvariance, PTL DEF Spec
  <1> QED
    BY <1>3 DEF PortHeld
=============================================================================
