----------------------------- MODULE RunControl ------------------------------
(* A processor as the keys of its console see it: run, the stopped memory  *)
(* cycle, and how far the instruction is.  The PDP-6 and the KA10 differ   *)
(* in their keys.  pc is the address in the switches, or any other.        *)
(*                                                                         *)
(* run may drop long before the instruction is over: at its et0a, before   *)
(* it stores, or at any time by the stop key; a BLT, one of the cycles     *)
(* behind et0a, looks at neither.  What the hardware does with the pulses  *)
(* of two instructions is not modelled, only that there were two.          *)
EXTENDS Naturals

VARIABLES
  machine,        \* "pdp6" or "ka10"
  run, mc_stop,
  inhibited,      \* AT1 INH, KEY AT INH: nothing is fetched
  busy,           \* "no", "readin", or how far the instruction is
  mistimed,       \* history: a key was taken with pulses in flight, or inhibited
  pc,             \* "ta" or "other"
  down            \* keys and levers that are down

processor == <<run, mc_stop, inhibited, busy, mistimed, pc>>
runVars == <<machine, processor, down>>

InstStop == down \cap {"INSTSTOP", "SING_INST"} # {}
MemStop == down \cap {"MEMSTOP", "SING_CYC"} # {}

(* The instruction word; address words and operands; et0a; what is moved   *)
(* and stored behind it; st7.                                              *)
Stages == {"fetch", "operand", "end", "store", "last"}
Cycles == {"fetch", "operand", "store"}

RunTypeOK ==
  /\ machine \in {"pdp6", "ka10"}
  /\ run \in BOOLEAN /\ mc_stop \in BOOLEAN /\ inhibited \in BOOLEAN /\ mistimed \in BOOLEAN
  /\ busy \in Stages \cup {"no", "readin"}
  /\ pc \in {"ta", "other"}
  /\ mc_stop => busy \in Cycles
  /\ run => busy # "no"
  /\ busy = "readin" => ~run /\ machine = "ka10"

RunInit ==
  /\ machine \in {"pdp6", "ka10"}
  /\ run = FALSE /\ mc_stop = FALSE /\ inhibited = FALSE /\ busy = "no"
  /\ mistimed = FALSE /\ pc = "other" /\ down = {}

-----------------------------------------------------------------------------
(* Instructions.                                                           *)

After(cycle) ==
  CASE cycle = "fetch" -> {"operand", "end"}
    [] cycle = "operand" -> {"operand", "end"}
    [] cycle = "store" -> {"store", "last"}

Going == busy \in Stages /\ ~mc_stop

MemoryCycle ==
  /\ busy \in Cycles /\ ~mc_stop
  /\ IF MemStop THEN mc_stop' = TRUE /\ UNCHANGED busy
     ELSE busy' \in After(busy) /\ UNCHANGED mc_stop
  /\ UNCHANGED <<machine, run, inhibited, mistimed, pc, down>>

(* No instruction and no address word is gone on with.                     *)
CutOff ==
  /\ inhibited /\ ~run /\ busy \in {"fetch", "operand"} /\ ~mc_stop
  /\ busy' = "no"
  /\ UNCHANGED <<machine, run, mc_stop, inhibited, mistimed, pc, down>>

(* et0a: a HALT stores nothing, XCT goes on with the operands of another.  *)
Execute ==
  /\ busy = "end"
  /\ \E halt \in BOOLEAN :
       /\ run' = (run /\ ~InstStop /\ ~halt)
       /\ busy' \in IF halt THEN {"last"} ELSE {"operand", "store", "last"}
  /\ pc' = "other"
  /\ UNCHANGED <<machine, mc_stop, inhibited, mistimed, down>>

EndInstruction ==
  /\ busy = "last"
  /\ busy' = IF run THEN "fetch" ELSE "no"
  /\ UNCHANGED <<machine, run, mc_stop, inhibited, mistimed, pc, down>>

(* The KA10 runs once the tape is in, the PDP-6 as soon as it is read.     *)
ReadInDone ==
  /\ busy = "readin"
  /\ run' = ("SING_INST" \notin down) /\ busy' = "last"
  /\ UNCHANGED <<machine, mc_stop, inhibited, mistimed, pc, down>>

Works == MemoryCycle \/ CutOff \/ Execute \/ EndInstruction \/ ReadInDone

-----------------------------------------------------------------------------
(* Keys.                                                                   *)

(* A key taken clears what is left of the instruction before.              *)
Taken(b, r, p) ==
  IF run THEN UNCHANGED processor
  ELSE /\ mistimed' = (mistimed \/ Going \/ inhibited)
       /\ busy' = b /\ run' = r /\ pc' = p /\ mc_stop' = FALSE /\ UNCHANGED inhibited

Continued ==
  /\ IF mc_stop THEN mc_stop' = FALSE /\ busy' \in After(busy) ELSE UNCHANGED <<mc_stop, busy>>
  /\ UNCHANGED <<run, inhibited, mistimed, pc>>

StopPressed == run' = FALSE /\ inhibited' = TRUE /\ UNCHANGED <<mc_stop, busy, mistimed, pc>>

(* EX and XCT pressed on a KA10 that runs wait for the end of an           *)
(* instruction, and are some cycles more of it here; RESET stops it first. *)
Effect(k) ==
  CASE k \in {"INSTSTOP", "STOP"} -> StopPressed
    [] k = "START" -> Taken("fetch", TRUE, "ta")
    [] k = "READIN" -> IF machine = "pdp6" THEN Taken("fetch", TRUE, "ta")
                       ELSE Taken("readin", FALSE, "other")
    [] k = "INSTCONT" -> Taken("fetch", TRUE, pc)
    [] k = "MEMCONT" -> Continued
    [] k = "CONT" -> IF mc_stop THEN Continued ELSE Taken("fetch", TRUE, pc)
    [] k \in {"EXEC", "XCT"} -> Taken("operand", FALSE, pc)
    [] k \in {"THISEX", "EX"} -> Taken("no", FALSE, pc)
    [] k = "RESET" -> IF machine = "ka10" /\ run THEN StopPressed ELSE Taken("no", FALSE, pc)
    [] OTHER -> UNCHANGED processor

(* On the PDP-6 the two stop keys are one lever.                           *)
Lever(ks) ==
  IF ks \cap {"INSTSTOP", "MEMSTOP"} # {} THEN ks \cup {"INSTSTOP", "MEMSTOP"} ELSE ks

KeyDown(k) ==
  /\ down' = (down \ Lever({k})) \cup {k}
  /\ IF k \in down THEN UNCHANGED processor ELSE Effect(k)
  /\ UNCHANGED machine

KeyUp(ks) == down' = down \ Lever(ks) /\ UNCHANGED <<machine, processor>>

(* What a millisecond does not change any more, unless an instruction      *)
(* lasts longer: a long BLT, one with an endless chain of XCTs.            *)
Settled == ~Going \/ (run /\ ~InstStop /\ ~MemStop)
=============================================================================
