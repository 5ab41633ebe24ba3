----------------------------- MODULE Interrupts -----------------------------
(***************************************************************************)
(* The priority interrupt of the PDP-6 (PI and IOT of apr.v) within the    *)
(* instruction cycle that decides when it may break in.  One step is a     *)
(* stretch of pulses in which nothing is decided: the request lines may    *)
(* change between any two of them.                                         *)
(*                                                                         *)
(* An instruction is the class of those that do the same to PC and PI:     *)
(* "data" is DATAI and DATAO, "blk" BLKI and BLKO before they become one,  *)
(* "cono" CONO, whether to PI or not, and CONI, "conso" CONSO and CONSZ,   *)
(* "skip" all others that may skip, "jrst" a JRST that dismisses, "halt"   *)
(* one that halts, "uuo" whatever traps to 40, "plain" the rest, the jumps *)
(* among them, which put PC where it is to be.  Keys are pressed when the  *)
(* machine rests; execute, examine and deposit are not among them.         *)
(***************************************************************************)
EXTENDS Naturals

CONSTANTS
  N,            \* the number of channels; there are 7
  Program,      \* bound: the instructions of programs
  Vector,       \* bound: those executed in an interrupt cycle
  StopKey       \* bound: whether anyone presses stop

Instruction == {"plain", "skip", "jrst", "halt", "data", "blk", "cono", "conso",
                "xct", "uuo", "blt"}
Iot == {"data", "blk", "cono", "conso"}

\* Those that count PC without a look at pi_cyc.
Counting == {"skip", "conso", "blt"}

ASSUME InterruptsAssumption ==
  /\ N \in Nat
  /\ Program \subseteq Instruction /\ Vector \subseteq Instruction
  /\ StopKey \in BOOLEAN

Channel == 1 .. N

VARIABLES
  req,          \* iob_pi_req, what devices and processor ask for
  pir, pih,     \* requests let in, and channels held
  pio,          \* channels that are on
  pi_active, pi_cyc, pi_ov,
  run, if1a, at1_inh,
  ir,
  at,           \* the pulse that comes next
  ma,           \* the channels encoded into MA when an instruction was last
                \* fetched for them
  pcMoved       \* PC is past the instruction it named at the fetch, or in an
                \* interrupt cycle past the one given up (history)

pi == <<pir, pih, pio, pi_active>>
cycle == <<pi_cyc, pi_ov>>
fetch == <<if1a, ir, ma>>
key == <<run, at1_inh>>
vars == <<req, pi, cycle, key, fetch, at, pcMoved>>

Pulse == {"it0", "sync", "fetch", "at3", "ft0", "et1", "et3", "blt_t4", "et10",
          "st7", "rest"}

(***************************************************************************)
(* The priority chain: a channel is granted if it is the first of those    *)
(* asking or held.  pir never has a channel that is held for long: a clock *)
(* later it is gone (pir & ~pih), which is the same step here.             *)
(***************************************************************************)
\* Fault: what is held does not stop the chain.
pi_ok_over_held(i) == pi_active /\ \A j \in 1 .. i - 1 : j \notin pir

pi_ok(i) == pi_active /\ \A j \in 1 .. i - 1 : j \notin pih \cup pir

pi_req == {i \in pir \ pih : pi_ok(i)}
pi_rq == pi_req # {}

\* Fault: a channel asks again while it is held.
StrobedHeld == pir \cup (req \cap pio)

Strobed == (pir \cup (req \cap pio)) \ pih

\* Fault: requests come in during an interrupt cycle as well.
pi_sync_always == pir' = Strobed

\* Fault: requests come in between instructions only.
pi_sync_it0 == pir' = IF pi_cyc \/ at # "it0" THEN pir ELSE Strobed

\* pir_stb comes with pi_sync, but not in an interrupt cycle.
pi_sync == pir' = IF pi_cyc THEN pir ELSE Strobed

pi_blk_rst == ~pi_ov /\ ir = "data"
pi_rst == ir = "jrst" \/ (pi_cyc /\ pi_blk_rst)

\* Fault: the transfer of the last word of a block holds the channel.
pi_hold_any_data == pi_cyc /\ (ir \notin Iot \/ ir = "data")

pi_hold == pi_cyc /\ (ir \notin Iot \/ pi_blk_rst)

(***************************************************************************)
(* The instruction cycle                                                   *)
(***************************************************************************)

\* Fault: XCT counts PC itself.
pc_inc_inh_not_xct == pi_cyc \/ ir \in {"uuo", "blk", "blt"}

pc_inc_inh_et0 == pi_cyc \/ ir \in {"xct", "uuo", "blk", "blt"}

\* Fault: the stop key waits for the end of the instruction.
ia_not_stopped == ~pi_rq \/ pi_cyc

\* Fault: a request does not hold up the instruction it comes in with.
ia_not_interrupted == ~at1_inh

\* What pi_sync starts when it starts no interrupt: at1_inh cuts it off.
ia_NOT_int == ~at1_inh /\ (~pi_rq \/ pi_cyc)

It0 ==
  /\ at = "it0"
  /\ pi_sync
  /\ if1a' = TRUE
  /\ pcMoved' = (pcMoved /\ pi_cyc)
  /\ at' = "sync"
  /\ UNCHANGED <<req, pih, pio, pi_active, cycle, key, ir, ma>>

\* The break: the instruction is given up, that of the channel fetched.
Interrupt ==
  /\ at = "sync" /\ pi_rq /\ ~pi_cyc
  /\ pi_cyc' = TRUE
  /\ if1a' = TRUE
  /\ ma' = pi_req
  /\ at' = "fetch"
  /\ UNCHANGED <<req, pi, pi_ov, key, ir, pcMoved>>

It1 ==
  /\ at = "sync" /\ if1a /\ ia_NOT_int
  /\ ma' = IF pi_cyc THEN pi_req ELSE ma
  /\ at' = "fetch"
  /\ UNCHANGED <<req, pi, cycle, key, if1a, ir, pcMoved>>

\* The stop key has cut the chain: no pulse follows.
Cut ==
  /\ at = "sync" /\ ~ia_NOT_int /\ ~(pi_rq /\ ~pi_cyc)
  /\ at' = "rest"
  /\ UNCHANGED <<req, pi, cycle, key, fetch, pcMoved>>

\* it1a and at0, or xct_t0: an instruction comes into IR.
Decode ==
  /\ at = "fetch" \/ (at = "et3" /\ ir = "xct")
  /\ ir' \in IF pi_cyc THEN Vector ELSE Program
  /\ if1a' = FALSE
  /\ pi_sync
  /\ at' = "sync"
  /\ UNCHANGED <<req, pih, pio, pi_active, cycle, key, ma, pcMoved>>

\* at1 to at5: the address names another.
Indirect ==
  /\ at = "sync" /\ ~if1a /\ ia_NOT_int
  /\ at' = "at3"
  /\ UNCHANGED <<req, pi, cycle, key, fetch, pcMoved>>

\* at0 once more.
NextAddress ==
  /\ at = "at3"
  /\ pi_sync
  /\ at' = "sync"
  /\ UNCHANGED <<req, pih, pio, pi_active, cycle, key, fetch, pcMoved>>

\* at1 to at4: the address is complete.
Address ==
  /\ at = "sync" /\ ~if1a /\ ia_NOT_int
  /\ at' = "ft0"
  /\ UNCHANGED <<req, pi, cycle, key, fetch, pcMoved>>

\* ft0 to et0: the channel asking is held from now on.
Et0 ==
  /\ at = "ft0"
  /\ pih' = IF pi_hold THEN pih \cup pi_req ELSE pih
  /\ pir' = pir \ pih'
  /\ pcMoved' = (pcMoved \/ ~pc_inc_inh_et0)
  /\ run' = (run /\ ir # "halt")
  /\ at' = "et1"
  /\ UNCHANGED <<req, pio, pi_active, cycle, at1_inh, fetch>>

Dismissed == IF pi_rst THEN {i \in pih : pi_ok(i)} ELSE {}

Et1 ==
  /\ at = "et1"
  /\ pih' = pih \ Dismissed
  /\ at' = "et3"
  /\ UNCHANGED <<req, pir, pio, pi_active, cycle, key, fetch, pcMoved>>

(***************************************************************************)
(* et3 on, by instruction                                                  *)
(***************************************************************************)

\* A BLK has counted its pointer, and becomes DATAI or DATAO.
Blk ==
  /\ at = "et3" /\ ir = "blk"
  /\ \E ar_cry0 \in BOOLEAN :
       /\ pi_ov' = (pi_ov \/ (ar_cry0 /\ pi_cyc))
       /\ pcMoved' = (pcMoved \/ (~ar_cry0 /\ ~pi_cyc))
  /\ ir' = "data"
  /\ at' = "ft0"
  /\ UNCHANGED <<req, pi, pi_cyc, key, if1a, ma>>

\* mblt_fm_ir1_uuo_t0 to uuo_t2: the word at 41 is fetched.
Uuo ==
  /\ at = "et3" /\ ir = "uuo"
  /\ if1a' = TRUE
  /\ at' = "fetch"
  /\ UNCHANGED <<req, pi, cycle, key, ir, ma, pcMoved>>

\* blt_t0 to blt_t4.
BltStart ==
  /\ at = "et3" /\ ir = "blt"
  /\ at' = "blt_t4"
  /\ UNCHANGED <<req, pi, cycle, key, fetch, pcMoved>>

\* blt_t4 to blt_t5a: a word is moved, and requests come in, even in an
\* interrupt cycle; last is ~mq[0], which counts PC, even then; blt_done is
\* that or a request.
BltWord ==
  /\ at = "blt_t4"
  /\ pir' = Strobed
  /\ UNCHANGED <<req, pih, pio, pi_active, cycle, key, fetch>>
  /\ \E last \in BOOLEAN :
       /\ pcMoved' = (pcMoved \/ last)
       /\ at' = IF last \/ pi_rq' THEN "et10" ELSE "blt_t4"

\* iot_t2 and iot_t3 of CONO PI.  Where both bits of a pair are set, turning
\* off wins for the channels and turning on for the system.
CONO(reset, ask, on, off, activate, deactivate) ==
  \E chans \in SUBSET Channel, held \in {IF reset THEN {} ELSE pih} :
  /\ pih' = held
  /\ pir' = ((IF reset THEN {} ELSE pir) \cup (IF ask THEN chans ELSE {})) \ held
  /\ pio' = ((IF reset THEN {} ELSE pio) \cup (IF on THEN chans ELSE {}))
               \ (IF off THEN chans ELSE {})
  /\ pi_active' = (activate \/ (pi_active /\ ~reset /\ ~deactivate))

Cono ==
  /\ at = "et3" /\ ir = "cono"
  /\ \E reset, ask, on, off, activate, deactivate \in BOOLEAN :
       CONO(reset, ask, on, off, activate, deactivate)
  /\ at' = "et10"
  /\ UNCHANGED <<req, cycle, key, fetch, pcMoved>>

\* pc_inc_et9: a skip, in an interrupt cycle too.
Skip ==
  /\ at = "et3" /\ ir \in {"skip", "conso"}
  /\ pcMoved' \in {pcMoved, TRUE}
  /\ at' = "et10"
  /\ UNCHANGED <<req, pi, cycle, key, fetch>>

Other ==
  /\ at = "et3" /\ ir \in {"plain", "jrst", "halt", "data"}
  /\ at' = "et10"
  /\ UNCHANGED <<req, pi, cycle, key, fetch, pcMoved>>

Et10 ==
  /\ at = "et10"
  /\ pi_cyc' = (pi_cyc /\ ~pi_hold)
  /\ pi_ov' = (pi_ov /\ ~pi_hold)
  /\ at' = "st7"
  /\ UNCHANGED <<req, pi, key, fetch, pcMoved>>

St7 ==
  /\ at = "st7"
  /\ at' = IF run THEN "it0" ELSE "rest"
  /\ UNCHANGED <<req, pi, cycle, key, fetch, pcMoved>>

\* mc_illeg_address: the instruction ends where it is.  ex_pi_sync lets all
\* addresses pass in an interrupt cycle.
Illegal ==
  /\ ~pi_cyc
  /\ \/ at \in {"fetch", "at3", "ft0", "blt_t4"}
     \/ at = "et3" /\ ir = "blk"
  /\ at' = "st7"
  /\ UNCHANGED <<req, pi, cycle, key, fetch, pcMoved>>

(***************************************************************************)
(* The world outside                                                       *)
(***************************************************************************)
Request(i) ==
  /\ req' = (req \ {i}) \cup ({i} \ req)
  /\ UNCHANGED <<pi, cycle, key, fetch, at, pcMoved>>

\* run_clr, and the 100 us of at1_inh.
Stop ==
  /\ StopKey /\ run
  /\ run' = FALSE /\ at1_inh' = TRUE
  /\ UNCHANGED <<req, pi, cycle, fetch, at, pcMoved>>

\* 100 us outlast every instruction but those that count.
StopOver ==
  /\ at1_inh /\ at \in {"blt_t4", "et10", "rest"}
  /\ at1_inh' = FALSE
  /\ UNCHANGED <<req, pi, cycle, run, fetch, at, pcMoved>>

\* key_go of instruction continue and of start, which loads PC.
Go(start) ==
  /\ at = "rest" /\ ~run /\ ~at1_inh
  /\ run' = TRUE
  /\ pcMoved' = (pcMoved /\ ~start)
  /\ at' = "it0"
  /\ UNCHANGED <<req, pi, cycle, at1_inh, fetch>>

\* mr_start by the I/O reset key.
IoReset ==
  /\ at = "rest" /\ ~at1_inh
  /\ pih' = {} /\ pir' = {} /\ pio' = {} /\ pi_active' = FALSE
  /\ pi_cyc' = FALSE /\ pi_ov' = FALSE
  /\ UNCHANGED <<req, key, fetch, at, pcMoved>>

Init ==
  /\ req = {}
  /\ pir = {} /\ pih = {} /\ pio = {} /\ pi_active = FALSE
  /\ pi_cyc = FALSE /\ pi_ov = FALSE
  /\ run = FALSE /\ at1_inh = FALSE
  /\ if1a = FALSE /\ ir = "plain" /\ ma = {}
  /\ at = "rest"
  /\ pcMoved = FALSE

Fetches == It0 \/ Interrupt \/ It1 \/ Cut \/ Decode
Addresses == Indirect \/ NextAddress \/ Address
Executes == Et0 \/ Et1 \/ Blk \/ Uuo \/ BltStart \/ BltWord \/ Cono \/ Skip
            \/ Other \/ Et10 \/ St7
Processor == Fetches \/ Addresses \/ Executes
Keys == Stop \/ StopOver \/ Go(FALSE) \/ Go(TRUE) \/ IoReset
Next == Processor \/ Illegal \/ Keys \/ \E i \in Channel : Request(i)

Spec == Init /\ [][Next]_vars

\* The clock never stops.  Programs come to an end of what only they can end:
\* a block transfer in memory, the chain of addresses of an interrupt
\* instruction, and the block transfers of an interrupt.
FairSpec ==
  /\ Spec
  /\ WF_vars(Processor) /\ WF_vars(StopOver)
  /\ SF_vars(BltWord /\ at' = "et10")
  /\ SF_vars(pi_cyc /\ Address)
  /\ SF_vars(pi_cyc /\ Decode /\ ir' \notin Iot)

(***************************************************************************)
(* Properties                                                              *)
(***************************************************************************)

\* Every register keeps its range, and what is held is not asking.
TypeOK ==
  /\ req \subseteq Channel /\ pir \subseteq Channel /\ pih \subseteq Channel
  /\ pio \subseteq Channel /\ ma \subseteq Channel
  /\ pi_active \in BOOLEAN /\ pi_cyc \in BOOLEAN /\ pi_ov \in BOOLEAN
  /\ run \in BOOLEAN /\ if1a \in BOOLEAN /\ at1_inh \in BOOLEAN
  /\ pcMoved \in BOOLEAN
  /\ ir \in Instruction /\ at \in Pulse
  /\ pir \cap pih = {}

\* The channel that becomes held is the one whose instruction was fetched,
\* however the requests changed since (ma_fm_pich against pih_fm_pi_ch_rq,
\* two looks at pi_req an instruction apart).
HeldAsVectored ==
  [][pih' \ pih # {} => \E i \in Channel : pih' \ pih = {i} /\ ma = {i}]_vars

\* Service nests: the holding and dismissing of channels are the steps of a
\* priority interrupt system.
Levels == INSTANCE PriorityLevels WITH held <- pih
Nested == Levels!Spec

\* A dismissal ends the highest level and no other, and is never lost to a
\* request that comes meanwhile (pih0_fm_pi_ok1 clears down to the first
\* channel that is held or asks).
DismissesHighest ==
  [][at = "et1" /\ at' = "et3" /\ pi_rst /\ pi_active /\ pih # {}
       => pih' = pih \ Levels!Highest(pih)]_vars

\* Whenever an instruction may be given up for an interrupt, PC names what is
\* still to be done, and so it does in an interrupt cycle when its instruction
\* saves PC and when the cycle is over.  Not so where an interrupt location
\* holds one of Counting: a skip or the last word of a BLT loses the
\* instruction of the program that was interrupted.
PcNamesUndone ==
  at = "sync" \/ (pi_cyc /\ at \in {"et1", "et10"}) => ~pcMoved

\* A word of a block transferred in an interrupt cycle leaves its channel free:
\* it was dismissed with the word, or is to be held by the instruction in the
\* second location.
WordFreesChannel ==
  at = "et10" /\ pi_cyc /\ ir = "data" => pih \cap ma = {}

\* A channel that asks, with none above it asking or held, is served again and
\* again, in the midst of endless chains of addresses and of block transfers.
Served ==
  \A i \in Channel :
    <>[](run /\ pi_active /\ i \in pio /\ i \in req
           /\ \A j \in 1 .. i - 1 : j \notin pih \cup pir)
      => []<>(i \in pih)

\* The stop key stops the machine, even one that chases addresses.
StopKeyStops == at1_inh ~> at = "rest"
=============================================================================
