------------------------------ MODULE PtReader ------------------------------
(* The paper tape reader of the PDP-6, pdp6/ptr.v.                         *)
(*                                                                         *)
(* One step is an event: a pulse of the program or of a key, the end of a  *)
(* delay, or the front end's answer, with the few clocks of consequences   *)
(* it has.  The delays are fixed and run together from the start of a      *)
(* frame: 1 us to the leading edge of the feed hole, 2.1 ms to its middle, *)
(* 2.5 ms to its trailing edge.  passed counts those that are over, which  *)
(* keeps their order and forgets their length.  A frame that the front end *)
(* has not answered by then waits with all three over.                     *)
EXTENDS Naturals, Sequences

CONSTANTS Data,     \* frames with hole 8, the ones that count in binary
          Leader,   \* a frame without it
  Uses      \* each a set of what is used in one behaviour

Frames == Data \cup {Leader}
NoFrame == "no frame"

ASSUME FramesAssumption == Leader \notin Data /\ NoFrame \notin Frames
ASSUME UsesAssumption ==
  Uses \subseteq SUBSET {"reader", "binary", "reader feed", "punch"}

VARIABLES
  used,                           \* what is used, chosen once
  motor_on, ptr_feed,             \* motor, and the key that feeds tape
  ptr_busy, ptr_flag, ptr_b,      \* what CONO sets and CONI shows
  ptr,                            \* the word, as the frames shifted into it
  ptr_sr,                         \* ones shifted in: 6 is ptr_sr[36]
  ptr_req, ptr_rs, hole,          \* fe_req, fe_rs and the frame answered
  passed,                         \* delays of this frame that are over
  taken,                          \* history: frames answered for this word
  marred                          \* history: what went wrong with this word

frame == <<ptr_req, ptr_rs, hole, passed>>
word == <<ptr, ptr_sr, taken, marred>>
state == <<ptr_busy, ptr_flag, ptr_b>>
readerVars == <<motor_on, ptr_feed, state, word, frame>>

WordLength == 6

ReaderTypeOK ==
  /\ motor_on \in BOOLEAN /\ ptr_feed \in BOOLEAN
  /\ ptr_busy \in BOOLEAN /\ ptr_flag \in BOOLEAN /\ ptr_b \in BOOLEAN
  /\ ptr_req \in BOOLEAN /\ ptr_rs \in BOOLEAN
  /\ ptr \in Seq(Frames) /\ Len(ptr) <= WordLength
  /\ ptr_sr \in 0 .. WordLength
  /\ hole \in Frames \cup {NoFrame} /\ (ptr_rs <=> hole # NoFrame)
  /\ passed \in 0 .. 3
  /\ taken \in Seq(Frames)
  /\ marred \subseteq {"late", "joined"}

ReaderInit ==
  /\ used \in Uses
  /\ motor_on = FALSE /\ ptr_feed = FALSE
  /\ ptr_busy = FALSE /\ ptr_flag = FALSE /\ ptr_b = FALSE
  /\ ptr = <<>> /\ ptr_sr = 0
  /\ ptr_req = FALSE /\ ptr_rs = FALSE /\ hole = NoFrame /\ passed = 0
  /\ taken = <<>> /\ marred = {}

moving == motor_on /\ (ptr_feed \/ ptr_busy)

(* Faults: the middle is set at the leading edge; the trailing edge is not *)
(* kept for an answer that is late.                                        *)
mid_sync_early == passed >= 1
trail_sync_not_kept == FALSE

mid_sync == passed >= 2
trail_sync == passed = 3

-----------------------------------------------------------------------------
(* The frame under the light.                                              *)

(* Fault: the old frame stays.                                             *)
NewFrameOldHole ==
  ptr_req' = FALSE /\ ptr_rs' = FALSE /\ UNCHANGED hole /\ passed' = 0

(* ~moving | start_pulse: nothing asked, nothing answered, delays anew.    *)
NewFrame == ptr_req' = FALSE /\ ptr_rs' = FALSE /\ hole' = NoFrame /\ passed' = 0

(* A frame stays where it is as long as the tape moves.                    *)
Moved == IF moving' THEN UNCHANGED frame ELSE NewFrame

(* A frame is strobed if it counts.                                        *)
Counts(c, b) == b => c # Leader

(* ptr_strobe: 36 bits hold six frames.                                    *)
Shifted(c) ==
  IF Len(ptr) < WordLength THEN Append(ptr, c) ELSE Append(Tail(ptr), c)

(* Fault: a counter in place of a shift register.                          *)
OneMoreUnbounded == ptr_sr + 1
OneMore == IF ptr_sr < WordLength THEN ptr_sr + 1 ELSE ptr_sr
Strobe(c) ==
  IF Counts(c, ptr_b)
  THEN ptr' = Shifted(c) /\ ptr_sr' = OneMore
  ELSE UNCHANGED <<ptr, ptr_sr>>

(* ptr_trail with ptr_sr as it was before a strobe on the same clock.      *)
WordOver == ptr_busy /\ (~ptr_b \/ ptr_sr = WordLength)
ptr_trail ==
  /\ ptr_busy' = (ptr_busy /\ ~WordOver)
  /\ ptr_flag' = (ptr_flag \/ WordOver)
  /\ NewFrame

(* ptr_busy comes up in mode b: ptr_clr clears the word, unless a frame    *)
(* fed by the key is past its middle, as ptr_mid comes up with ptr_busy    *)
(* and the strobe overrides.                                               *)
WordStarts(b) ==
  LET kept == motor_on /\ ptr_feed /\ ptr_rs /\ Counts(hole, b)
      joined == kept /\ mid_sync
  IN  /\ ptr' = IF joined THEN Shifted(hole) ELSE <<>>
      /\ ptr_sr' = IF joined THEN OneMore ELSE 0
      /\ taken' = IF kept THEN <<hole>> ELSE <<>>
      /\ marred' = IF joined THEN {"joined"} ELSE {}

ptr_lead ==
  /\ moving /\ passed = 0
  /\ passed' = 1 /\ ptr_req' = TRUE
  /\ UNCHANGED <<motor_on, ptr_feed, state, word, ptr_rs, hole>>

fe_mid_pulse ==
  /\ moving /\ passed = 1
  /\ passed' = 2
  /\ IF ptr_rs /\ ptr_busy THEN Strobe(hole) ELSE UNCHANGED <<ptr, ptr_sr>>
  /\ UNCHANGED <<motor_on, ptr_feed, state, taken, marred, ptr_req, ptr_rs, hole>>

(* Fault: the frame ends without an answer.                                *)
fe_trail_pulse_blind ==
  /\ moving /\ passed = 2
  /\ ptr_trail
  /\ UNCHANGED <<motor_on, ptr_feed, ptr_b, word>>

fe_trail_pulse ==
  /\ moving /\ passed = 2
  /\ IF ptr_rs
     THEN ptr_trail
     ELSE passed' = 3 /\ UNCHANGED <<ptr_busy, ptr_flag, ptr_req, ptr_rs, hole>>
  /\ UNCHANGED <<motor_on, ptr_feed, ptr_b, word>>

(* s_write, when nobody asks and when somebody does.  After the middle of  *)
(* the hole the strobe comes with the answer, after its end so does        *)
(* ptr_trail.                                                              *)
AnswerIgnored == ~ptr_req /\ UNCHANGED readerVars

SixthIsLate(c) ==
  ptr_busy /\ ptr_b /\ trail_sync /\ Counts(c, ptr_b) /\ ptr_sr = WordLength - 1

Answer(c) ==
  /\ ptr_req
  /\ IF mid_sync /\ ptr_busy THEN Strobe(c) ELSE UNCHANGED <<ptr, ptr_sr>>
  /\ IF trail_sync
     THEN ptr_trail
     ELSE /\ ptr_req' = FALSE /\ ptr_rs' = TRUE /\ hole' = c
          /\ UNCHANGED <<ptr_busy, ptr_flag, passed>>
  /\ taken' = IF ptr_busy /\ Counts(c, ptr_b) THEN Append(taken, c) ELSE taken
  /\ marred' = marred \cup IF SixthIsLate(c) THEN {"late"} ELSE {}
  /\ UNCHANGED <<motor_on, ptr_feed, ptr_b>>

-----------------------------------------------------------------------------
(* Keys and program.                                                       *)

(* ptr_start_clr if the motor was off.                                     *)
key_start ==
  /\ ~motor_on
  /\ motor_on' = TRUE
  /\ ptr_busy' = FALSE /\ ptr_flag' = TRUE
  /\ UNCHANGED <<ptr_feed, ptr_b, word>>
  /\ Moved

(* ptr_stop_clr: ptr_busy stays.                                           *)
key_stop ==
  /\ motor_on
  /\ motor_on' = FALSE
  /\ ptr_flag' = TRUE
  /\ UNCHANGED <<ptr_feed, ptr_busy, ptr_b, word>>
  /\ Moved

key_ptr_feed ==
  /\ ptr_feed' = ~ptr_feed
  /\ UNCHANGED <<motor_on, state, word>>
  /\ Moved

(* DATAI, by a program that waits for the flag: the word is read out and   *)
(* ptr_busy_set asks for the next.                                         *)
ptr_datai ==
  /\ ptr_flag
  /\ ptr_flag' = FALSE
  /\ ptr_busy' = TRUE
  /\ IF ptr_busy THEN UNCHANGED word ELSE WordStarts(ptr_b)
  /\ UNCHANGED <<motor_on, ptr_feed, ptr_b>>
  /\ Moved

(* CONO: ptr_ic_clr drops ptr_busy before ptr_ic_set, so that the tape     *)
(* stops and the word starts over even if bit 31 is on.  iob_reset is a    *)
(* CONO of zeros.                                                          *)
ptr_cono(busy, flag, b) ==
  /\ ptr_busy' = busy /\ ptr_flag' = flag /\ ptr_b' = b
  /\ IF busy THEN WordStarts(b) ELSE UNCHANGED word
  /\ IF motor_on /\ ptr_feed THEN UNCHANGED frame ELSE NewFrame
  /\ UNCHANGED <<motor_on, ptr_feed>>

ReaderTimes == ptr_lead \/ fe_mid_pulse \/ fe_trail_pulse

AnyPtrCono ==
  \E busy, flag, b \in BOOLEAN :
    (b => "binary" \in used) /\ ptr_cono(busy, flag, b)

ReaderUsed ==
  /\ "reader" \in used
  /\ \/ key_start \/ key_stop \/ ptr_datai \/ AnyPtrCono
     \/ ("reader feed" \in used /\ key_ptr_feed)
=============================================================================
