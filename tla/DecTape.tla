------------------------------ MODULE DecTape -------------------------------
(* A DECtape drive of the KA10, ka10/tu56.v, and the tape in the front     *)
(* end that goes past its head: mnt_dt(), unmnt_dt() and svc_dt() of       *)
(* host/fe/ka/real.c.  Of the control, ka10/td10.v, there is what the      *)
(* drive sees: where to go, and whether to write.  The drive is the one    *)
(* selected, and its write switch is on.                                   *)
(*                                                                         *)
(* The drive has a clock of four phases for each line of the tape.  It     *)
(* asks for the line in the first, and to have it written in the second;   *)
(* the clock waits for the answers, the control and the operator do not.   *)
EXTENDS Naturals

CONSTANTS
  Lines,          \* on a tape
  Zone,           \* 6, the lines a tape that has run out moves among
  Switches,       \* positions of the switches used
  MaxOrders       \* a bound, commands and lines to be written in a behaviour

ASSUME DecTapeAssumption ==
  /\ Zone \in Nat \ {0} /\ Lines \in Nat /\ Lines >= Zone /\ MaxOrders \in Nat
  /\ "off" \in Switches /\ Switches \subseteq {"off", "remote", "hold", "fwd", "rev"}

VARIABLES
  sw,                               \* sw2 and sw3
  go, t_wren, tups,                 \* of the control
  motion, reverse,
  tck, linebuf,
  fe_wr_rq, fe_rd_rq, fe_move, fe_readdata,
  \* the front end
  svc,            \* the requests svc_dt() has been called with
  reel,           \* the file
  tape, cur,      \* dt->start and dt->cur
  mounted,        \* dev->fd >= 0
  \* history
  laid,           \* what was last written on each line
  under,          \* the line the drive was given last
  steady,         \* it will be passed: not stopped, turned, broken off
  orders,         \* of the program, so far
  spoiled         \* lines whose writing was cut short

driveVars == <<sw, go, t_wren, tups, motion, reverse, tck, linebuf,
               fe_wr_rq, fe_rd_rq, fe_move, fe_readdata>>
reelVars == <<svc, reel, tape, cur, mounted>>
passVars == <<laid, under, orders, steady, spoiled>>
decTapeVars == <<driveVars, reelVars, passVars>>

Line == [mark : {0, 1}, data : {0, 1}]
Tapes == [0..(Lines - 1) -> Line]
Blank == [mark |-> 0, data |-> 0]
NoTape == <<>>
Formatted == [i \in 0..(Lines - 1) |-> [mark |-> i % 2, data |-> 0]]
NoRequest == {}

(* Lines read backwards are complemented.                                  *)
Complement(l) == [mark |-> 1 - l.mark, data |-> 1 - l.data]
Sense(l) == IF reverse THEN Complement(l) ELSE l

DecTapeTypeOK ==
  /\ sw \in Switches /\ go \in {"stop", "fwd", "rev"}
  /\ tups \in {"none", "one pulse", "up"}
  /\ t_wren \in BOOLEAN /\ motion \in BOOLEAN /\ reverse \in BOOLEAN
  /\ fe_wr_rq \in BOOLEAN /\ fe_rd_rq \in BOOLEAN /\ fe_move \in BOOLEAN
  /\ mounted \in BOOLEAN /\ steady \in BOOLEAN
  /\ tck \in 0..3 /\ linebuf \in Line /\ fe_readdata \in Line
  /\ svc \subseteq {"wr", "rd", "rev", "move"}
  /\ tape # NoTape => tape \in Tapes /\ cur \in DOMAIN tape
  /\ mounted => tape # NoTape
  /\ laid \in Tapes /\ spoiled \subseteq 0..(Lines - 1)

DecTapeInit ==
  /\ sw = "off" /\ go = "stop" /\ t_wren = FALSE /\ tups = "none"
  /\ motion = FALSE /\ reverse = FALSE /\ tck = 0 /\ linebuf = Blank
  /\ fe_wr_rq = FALSE /\ fe_rd_rq = FALSE /\ fe_move = FALSE /\ fe_readdata = Blank
  /\ svc = NoRequest /\ tape = NoTape /\ cur = 0 /\ mounted = FALSE
  /\ reel = Formatted /\ laid = reel /\ under = 0 /\ orders = 0 /\ steady = FALSE /\ spoiled = {}

-----------------------------------------------------------------------------
(* Motion.  A drive that stops takes its requests back, and does not know  *)
(* whether the front end has seen them.                                    *)

Moves(s, g) == s \in {"fwd", "rev"} \/ (s = "remote" /\ g # "stop")
Turns(s, g) == IF s \in {"fwd", "rev"} THEN s = "rev" ELSE g = "rev"

(* History: a line being written when the tape stops or turns.             *)
Spoils(cut) == spoiled' = IF fe_rd_rq /\ cut THEN spoiled \cup {under} ELSE spoiled

Driven(s, g) ==
  /\ sw' = s /\ go' = g
  /\ motion' = Moves(s, g)
  /\ reverse' = IF Moves(s, g) THEN Turns(s, g) ELSE reverse
  /\ fe_wr_rq' = (fe_wr_rq /\ motion') /\ fe_rd_rq' = (fe_rd_rq /\ motion')
  /\ steady' = (steady /\ motion' /\ reverse' = reverse /\ ~t_wren)
  /\ tups' = IF go' = go THEN tups ELSE "none"
  /\ Spoils(~motion' \/ reverse' # reverse)
  /\ UNCHANGED <<tck, linebuf, fe_move, fe_readdata, reelVars, laid, under>>

(* The program gives the control a command.  iob_dtc_cono_clr ends         *)
(* writing.                                                                *)
Cono ==
  /\ orders < MaxOrders /\ orders' = orders + 1
  /\ \E g \in {"stop", "fwd", "rev"} : Driven(sw, g)
  /\ t_wren' = FALSE

(* A bound: the operator touches neither switches nor tape in the middle   *)
(* of writing.                                                             *)
Writing == t_wren \/ fe_rd_rq

(* The operator deposits into TU56.SW.                                     *)
Switch ==
  /\ ~Writing
  /\ \E s \in Switches \ {sw} : Driven(s, go) /\ UNCHANGED <<t_wren, orders>>

-----------------------------------------------------------------------------
(* The clock of the drive.                                                 *)

con_wr == t_wren /\ sw = "remote"

(* Fault: the clock does not wait for a line to be written.                *)
Waits_read == fe_wr_rq
Waits == fe_wr_rq \/ fe_rd_rq

d_rising ==
  /\ tck = 0
  /\ fe_wr_rq' = TRUE /\ fe_move' = ~con_wr
  /\ UNCHANGED <<t_wren, tups, fe_rd_rq, fe_readdata, linebuf, laid, orders>>

(* The mark track of the line stays, the rest is from the control, and is  *)
(* not what it was.  The tape is up to speed when two pulses come within   *)
(* 66 us.                                                                  *)
t_rising ==
  /\ tck = 1
  /\ CASE sw # "remote" \/ go = "stop" \/ tups = "up" -> UNCHANGED tups
       [] OTHER -> tups' \in {"one pulse"} \cup (IF tups = "none" THEN {} ELSE {"up"})
  /\ IF con_wr
     THEN /\ fe_rd_rq' = TRUE /\ fe_move' = TRUE
          /\ fe_readdata' = [linebuf EXCEPT !.data = 1 - @]
          /\ laid' = IF mounted THEN [laid EXCEPT ![under].data = Sense(fe_readdata').data] ELSE laid
     ELSE UNCHANGED <<fe_rd_rq, fe_move, fe_readdata, laid>>
  /\ UNCHANGED <<t_wren, fe_wr_rq, linebuf, orders>>

d_falling ==
  /\ tck = 2 /\ linebuf' = Complement(linebuf)
  /\ UNCHANGED <<t_wren, tups, fe_wr_rq, fe_rd_rq, fe_move, fe_readdata, laid, orders>>

(* tp0: the control begins and ends writing between lines.                 *)
t_falling ==
  /\ tck = 3
  /\ \/ sw = "remote" /\ tups = "up" /\ orders < MaxOrders /\ t_wren' = TRUE
     \/ sw = "remote" /\ tups = "up" /\ t_wren' = FALSE
     \/ (sw # "remote" \/ tups # "up") /\ UNCHANGED t_wren
  /\ orders' = IF t_wren' THEN orders + 1 ELSE orders
  /\ UNCHANGED <<tups, fe_wr_rq, fe_rd_rq, fe_move, fe_readdata, linebuf, laid>>

Clock120kc ==
  /\ motion /\ ~Waits
  /\ tck' = (tck + 1) % 4
  /\ d_rising \/ t_rising \/ d_falling \/ t_falling
  /\ UNCHANGED <<sw, go, motion, reverse, reelVars, under, steady, spoiled>>

-----------------------------------------------------------------------------
(* The front end.                                                          *)

fe_rq ==
  {r \in {"wr", "rd", "rev", "move"} :
     CASE r = "wr" -> fe_wr_rq [] r = "rd" -> fe_rd_rq
       [] r = "rev" -> reverse [] r = "move" -> fe_move}

Poll ==
  /\ svc = NoRequest /\ (fe_wr_rq \/ fe_rd_rq)
  /\ svc' = fe_rq
  /\ UNCHANGED <<driveVars, reel, tape, cur, mounted, passVars>>

Reads == "wr" \in svc
Writes == ~Reads /\ "rd" \in svc

(* cur++ and cur-- with their ends.                                        *)
Forward == IF cur + 1 < Lines THEN cur + 1 ELSE Lines - Zone
Backward == IF cur > 0 THEN cur - 1 ELSE Zone - 1

Given == Reads /\ fe_wr_rq

(* History: the line given will be passed, in the direction asked for.     *)
Follows == ("move" \in svc \/ con_wr) /\ ("rev" \in svc <=> reverse)

svc_dt ==
  /\ svc # NoRequest /\ tape # NoTape
  /\ svc' = NoRequest
  /\ cur' = IF "move" \notin svc THEN cur ELSE IF "rev" \in svc THEN Backward ELSE Forward
  /\ fe_wr_rq' = (fe_wr_rq /\ ~Reads) /\ fe_rd_rq' = (fe_rd_rq /\ ~Writes)
  /\ linebuf' = IF Given THEN Sense(tape[cur]) ELSE linebuf
  /\ tape' = IF Writes THEN [tape EXCEPT ![cur] = Sense(fe_readdata)] ELSE tape
  /\ under' = IF Given THEN cur ELSE under
  /\ steady' = IF Given THEN Follows ELSE steady
  /\ UNCHANGED <<sw, go, t_wren, tups, motion, reverse, tck, fe_move, fe_readdata,
                 reel, mounted, laid, orders, spoiled>>

unmnt_dt == reel' = IF mounted THEN tape ELSE reel

mount ==
  /\ ~Writing
  /\ unmnt_dt /\ tape' = reel' /\ cur' = 0 /\ mounted' = TRUE
  /\ steady' = FALSE
  /\ UNCHANGED <<driveVars, svc, laid, under, orders, spoiled>>

unmount ==
  /\ ~Writing
  /\ unmnt_dt /\ mounted' = FALSE
  /\ steady' = FALSE
  /\ UNCHANGED <<driveVars, svc, tape, cur, laid, under, orders, spoiled>>

-----------------------------------------------------------------------------

(* tu56.v, svc_dt(): however late the front end answers, a tape that runs  *)
(* one way passes the head line by line until it runs out, and each line   *)
(* is what was last written there, also after the tape was taken off and   *)
(* put on again.  Excepted are the lines that were being written when the  *)
(* tape was stopped or turned, and the line after one the control gave up  *)
(* to write.                                                               *)
LineByLine ==
  [][svc_dt /\ Given /\ mounted =>
       /\ steady /\ ~reverse /\ under + 1 < Lines => cur = under + 1
       /\ steady /\ reverse /\ under > 0 => cur = under - 1
       /\ cur \notin spoiled => linebuf' = Sense(laid[cur])]_decTapeVars
=============================================================================
