------------------------------ MODULE PtPunch -------------------------------
(* The paper tape punch of the PDP-6, pdp6/ptp.v.                          *)
(*                                                                         *)
(* One step is an event, as in PtReader.  Of the times only the order is   *)
(* kept: the 5 ms of a write are over before the next tick of the 63.3 Hz  *)
(* clock, the second the motor needs to come to speed is over before the   *)
(* five seconds it runs on.                                                *)
CONSTANT Chars

Blank == "blank"      \* what the front end reads when it gets no character
None == "none"

ASSUME CharsAssumption == Blank \notin Chars /\ None \notin Chars

VARIABLES
  ptp, ptp_busy, ptp_flag,        \* buffer, and what CONO sets
  ptp_feed,                       \* the key that feeds tape
  motor,                          \* off, start (start_dly), speed (ptp_speed)
  ptp_req, ptp_rs,                \* fe_req, fe_rs
  ptp_write,                      \* solenoids on
  ptp_write_sync, ptp_done_sync,  \* write begun, write done, for the front end
  owed,                           \* history: character given and not yet read
  cut,                            \* history: a CONO came during this write
  beside                          \* history: write during which owed was given

interface == <<ptp_req, ptp_rs, ptp_write, ptp_write_sync, ptp_done_sync>>
punchVars == <<ptp, ptp_busy, ptp_flag, ptp_feed, motor, interface,
               owed, cut, beside>>

PunchTypeOK ==
  /\ ptp_busy \in BOOLEAN /\ ptp_flag \in BOOLEAN /\ ptp_feed \in BOOLEAN
  /\ ptp_req \in BOOLEAN /\ ptp_rs \in BOOLEAN /\ ptp_write \in BOOLEAN
  /\ ptp_write_sync \in BOOLEAN /\ ptp_done_sync \in BOOLEAN
  /\ cut \in BOOLEAN
  /\ ptp \in Chars \cup {Blank}
  /\ motor \in {"off", "start", "speed"}
  /\ owed \in Chars \cup {Blank, None}
  /\ beside \in {"none", "cut", "late"}

PunchInit ==
  /\ ptp = Blank /\ ptp_busy = FALSE /\ ptp_flag = FALSE /\ ptp_feed = FALSE
  /\ motor = "off"
  /\ ptp_req = FALSE /\ ptp_rs = FALSE /\ ptp_write = FALSE
  /\ ptp_write_sync = FALSE /\ ptp_done_sync = FALSE
  /\ owed = None /\ cut = FALSE /\ beside = "none"

ptp_go == ptp_busy \/ ptp_feed
ptp_ready == motor = "speed" /\ ptp_busy

(* ptp_go turns the motor on.                                              *)
MotorOn == motor' = IF ptp_go' /\ motor = "off" THEN "start" ELSE motor

(* A character c to be punched, and the write it comes upon.               *)
Given(c) ==
  /\ owed' = c
  /\ beside' = IF ~ptp_write THEN "none" ELSE IF cut' THEN "cut" ELSE "late"

-----------------------------------------------------------------------------
(* Program and keys.                                                       *)

(* DATAO, by a program that waits for the last character.                  *)
ptp_datao(c) ==
  /\ ~ptp_busy
  /\ ptp' = c /\ ptp_busy' = TRUE /\ ptp_flag' = FALSE
  /\ UNCHANGED <<ptp_feed, interface, cut>>
  /\ Given(c)
  /\ MotorOn

(* CONO, and iob_reset as a CONO of zeros.  Bit 31 punches what is in the  *)
(* buffer once more.                                                       *)
ptp_cono(busy, flag) ==
  /\ ptp_busy' = busy /\ ptp_flag' = flag
  /\ cut' = (cut \/ ptp_write)
  /\ IF busy THEN Given(ptp) ELSE owed' = None /\ beside' = "none"
  /\ UNCHANGED <<ptp, ptp_feed, interface>>
  /\ MotorOn

key_ptp_feed ==
  /\ ptp_feed' = ~ptp_feed
  /\ UNCHANGED <<ptp, ptp_busy, ptp_flag, interface, owed, cut, beside>>
  /\ MotorOn

-----------------------------------------------------------------------------
(* Motor, clock and front end.                                             *)

start_over ==
  /\ motor = "start"
  /\ motor' = "speed"
  /\ UNCHANGED <<ptp, ptp_busy, ptp_flag, ptp_feed, interface, owed, cut, beside>>

motor_off ==
  /\ motor = "speed" /\ ~ptp_go /\ ~ptp_write
  /\ motor' = "off"
  /\ UNCHANGED <<ptp, ptp_busy, ptp_flag, ptp_feed, interface, owed, cut, beside>>

(* A tick asks the front end to read, and begins a write if there is       *)
(* something to punch.                                                     *)
ptp_clk ==
  /\ ~ptp_write
  /\ ptp_ready \/ (ptp_feed /\ motor = "speed")
  /\ ptp_req' = TRUE /\ ptp_rs' = FALSE
  /\ ptp_write' = ptp_ready
  /\ ptp_write_sync' = (ptp_write_sync \/ ptp_ready)
  /\ cut' = FALSE
  /\ UNCHANGED <<ptp, ptp_busy, ptp_flag, ptp_feed, motor, ptp_done_sync,
                 owed, beside>>

(* Fault: ptp_done does not wait for the answer.                           *)
ptp_done_unanswered(rs, done_sync) ==
  IF done_sync
  THEN /\ ptp_busy' = FALSE /\ ptp_flag' = TRUE
       /\ ptp_done_sync' = FALSE
       /\ ptp_write_sync' = ptp_write'
  ELSE /\ ptp_done_sync' = done_sync
       /\ UNCHANGED <<ptp_busy, ptp_flag, ptp_write_sync>>

(* ptp_done comes when both the answer and the end of the write are there. *)
ptp_done(rs, done_sync) ==
  IF rs /\ done_sync
  THEN /\ ptp_busy' = FALSE /\ ptp_flag' = TRUE
       /\ ptp_done_sync' = FALSE
       /\ ptp_write_sync' = ptp_write'
  ELSE /\ ptp_done_sync' = done_sync
       /\ UNCHANGED <<ptp_busy, ptp_flag, ptp_write_sync>>

ptp_write_done ==
  /\ ptp_write
  /\ ptp_write' = FALSE /\ cut' = FALSE
  /\ ptp_done(ptp_rs, TRUE)
  /\ UNCHANGED <<ptp, ptp_feed, motor, ptp_req, ptp_rs, owed, beside>>

(* Fault: the character is shown before its write.                         *)
s_readdata_at_once == IF ptp_busy THEN ptp ELSE Blank

(* s_readdata and s_read.                                                  *)
s_readdata == IF ptp_busy /\ ptp_write_sync THEN ptp ELSE Blank
s_read ==
  /\ ptp_req' = FALSE /\ ptp_rs' = TRUE
  /\ UNCHANGED ptp_write
  /\ ptp_done(TRUE, ptp_done_sync)
  /\ owed' = IF s_readdata = owed THEN None ELSE owed
  /\ UNCHANGED <<ptp, ptp_feed, motor, cut, beside>>

PunchTimes == start_over \/ ptp_clk \/ ptp_write_done

AnyPtpCono == \E busy, flag \in BOOLEAN : ptp_cono(busy, flag)

PunchUsed ==
  \/ \E c \in Chars : ptp_datao(c)
  \/ AnyPtpCono
  \/ key_ptp_feed
=============================================================================
