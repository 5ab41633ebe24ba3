-------------------------- MODULE PaperTapeProofs ---------------------------
(* What PaperTape promises of a tape, for every set of frames and of       *)
(* characters and however late the front end answers.                      *)
EXTENDS PaperTape, SequenceTheorems, TLAPS

(* The frame that is asked for or lies under the light.                    *)
FrameInv ==
  /\ ~moving => passed = 0
  /\ passed = 0 => ~ptr_req /\ ~ptr_rs
  /\ ~(ptr_req /\ ptr_rs)
  /\ ptr_rs => passed < 3

(* A frame answered before its middle is yet to be shifted in.             *)
Pending == ptr_rs /\ passed < 2 /\ Counts(hole, ptr_b)

Size == IF ptr_b THEN WordLength ELSE 1

(* The word so far.  A full word waits for the trailing edge of its last   *)
(* frame.                                                                  *)
WordInv ==
  ptr_busy /\ motor_on /\ marred = {} =>
    /\ taken = IF Pending THEN Append(ptr, hole) ELSE ptr
    /\ ptr_sr = Len(ptr)
    /\ Len(taken) <= Size
    /\ Len(taken) = Size => ptr_rs
    /\ ~ptr_b /\ ptr_rs => Len(taken) = 1

(* What the front end serves is still asked for.                           *)
ServeInv ==
  /\ ServingReader /\ ~orphan => ptr_req
  /\ fe = "ptp" \/ "ptp" \in req => ptp_req

(* The punch.                                                              *)
PunchInv ==
  /\ ptp_write_sync = (ptp_write \/ ptp_done_sync)
  /\ ~(ptp_rs /\ ptp_done_sync)
  /\ ~(ptp_req /\ ptp_rs)
  /\ ptp_busy => owed \in {ptp, None}
  /\ ptp_busy /\ owed = None /\ ptp # Blank => ptp_rs /\ ptp_write
  /\ ptp_busy /\ ptp_write /\ ptp_rs => owed = None \/ beside # "none"

IInv == TypeOK /\ FrameInv /\ WordInv /\ ServeInv /\ PunchInv

ReaderInv == ReaderTypeOK /\ FrameInv /\ WordInv

-----------------------------------------------------------------------------
(* The word as a sequence.                                                 *)

(* A strobe shifts one frame into the word.                                *)
LEMMA ShiftedType ==
  ASSUME NEW f \in Frames, ptr \in Seq(Frames), Len(ptr) <= WordLength
  PROVE  /\ Shifted(f) \in Seq(Frames)
         /\ Len(Shifted(f)) <= WordLength
<1>1. CASE Len(ptr) < WordLength
  BY <1>1, AppendProperties DEF Shifted, WordLength
<1>2. CASE ~(Len(ptr) < WordLength)
  <2>1. ptr # <<>>
    BY <1>2, EmptySeq DEF WordLength
  <2>2. Tail(ptr) \in Seq(Frames) /\ Len(Tail(ptr)) = Len(ptr) - 1
    BY <2>1, HeadTailProperties
  <2>3. /\ Append(Tail(ptr), f) \in Seq(Frames)
        /\ Len(Append(Tail(ptr), f)) = Len(ptr)
    BY <2>2, AppendProperties, LenProperties
  <2> QED
    BY <1>2, <2>3 DEF Shifted
<1> QED
  BY <1>1, <1>2

(* What a strobe does to the word, whether the frame counts or not.        *)
LEMMA StrobeType ==
  ASSUME NEW f \in Frames, ReaderTypeOK, Strobe(f)
  PROVE  /\ ptr' \in Seq(Frames) /\ Len(ptr') <= WordLength
         /\ ptr_sr' \in 0 .. WordLength
  BY ShiftedType DEF ReaderTypeOK, Strobe, OneMore, WordLength

-----------------------------------------------------------------------------
(* The reader, event by event.                                             *)

(* A frame that starts anew is neither asked for nor answered.             *)
LEMMA NewFrameType ==
  ASSUME NewFrame
  PROVE  /\ ptr_req' \in BOOLEAN /\ ptr_rs' \in BOOLEAN
         /\ hole' \in Frames \cup {NoFrame} /\ (ptr_rs' <=> hole' # NoFrame)
         /\ passed' \in 0 .. 3
         /\ ~ptr_req' /\ ~ptr_rs' /\ ~Pending'
<1>1. ptr_req' \in BOOLEAN /\ ptr_rs' \in BOOLEAN
  BY DEF NewFrame
<1>2. hole' \in Frames \cup {NoFrame} /\ (ptr_rs' <=> hole' # NoFrame)
  BY DEF NewFrame
<1>3. passed' \in 0 .. 3
  BY DEF NewFrame
<1>4. ~ptr_req' /\ ~ptr_rs' /\ ~Pending'
  BY DEF NewFrame, Pending
<1> QED
  BY <1>1, <1>2, <1>3, <1>4

(* The leading edge asks for the frame.                                    *)
LEMMA Lead ==
  ASSUME ReaderInv, ptr_lead
  PROVE  ReaderInv'
<1> USE DEF ptr_lead, state, word
<1>1. ReaderTypeOK'
  BY DEF ReaderInv, ReaderTypeOK
<1>2. FrameInv'
  BY DEF ReaderInv, FrameInv, ReaderTypeOK, moving
<1>3. WordInv'
  BY DEF ReaderInv, WordInv, Pending, Counts, Size, FrameInv
<1> QED
  BY <1>1, <1>2, <1>3 DEF ReaderInv

(* The middle shifts in a frame that has been answered.                    *)
LEMMA Middle ==
  ASSUME ReaderInv, fe_mid_pulse
  PROVE  ReaderInv'
<1> USE DEF state
<1>1. ReaderTypeOK'
  <2>1. CASE ptr_rs /\ ptr_busy
    <3>1. hole \in Frames /\ Strobe(hole)
      BY <2>1 DEF ReaderInv, ReaderTypeOK, fe_mid_pulse
    <3> QED
      BY <3>1, StrobeType DEF ReaderInv, ReaderTypeOK, fe_mid_pulse
  <2>2. CASE ~(ptr_rs /\ ptr_busy)
    BY <2>2 DEF ReaderInv, ReaderTypeOK, fe_mid_pulse
  <2> QED
    BY <2>1, <2>2
<1>2. FrameInv'
  BY DEF ReaderInv, FrameInv, ReaderTypeOK, moving, fe_mid_pulse
<1>3. WordInv'
  <2> SUFFICES ASSUME ptr_busy, motor_on, marred = {}
               PROVE  WordInv'
    BY DEF WordInv, fe_mid_pulse
  <2>1. WordInv /\ passed = 1 /\ passed' = 2 /\ ~Pending'
    BY DEF ReaderInv, WordInv, fe_mid_pulse, Pending
  <2>2. UNCHANGED <<taken, Size, ptr_rs, ptr_b, hole>>
    BY DEF fe_mid_pulse, Size
  <2>3. CASE Pending
    <3>1. Len(ptr) < WordLength /\ taken = Append(ptr, hole)
      BY <2>1, <2>3, AppendProperties
      DEF WordInv, ReaderInv, ReaderTypeOK, Size, WordLength, Pending
    <3>2. ptr' = taken /\ ptr_sr' = Len(ptr) + 1
      BY <2>1, <2>3, <3>1
      DEF WordInv, fe_mid_pulse, Strobe, Shifted, OneMore, Pending, Counts
    <3>3. Len(taken) = Len(ptr) + 1
      BY <2>3, <3>1, AppendProperties DEF ReaderInv, ReaderTypeOK, Pending
    <3> QED
      BY <2>1, <2>2, <3>2, <3>3 DEF WordInv
  <2>4. CASE ~Pending
    BY <2>1, <2>2, <2>4 DEF WordInv, fe_mid_pulse, Strobe, Pending
  <2> QED
    BY <2>3, <2>4
<1> QED
  BY <1>1, <1>2, <1>3 DEF ReaderInv

(* The trailing edge ends a word that is full, and waits if unanswered.    *)
LEMMA Trail ==
  ASSUME ReaderInv, fe_trail_pulse
  PROVE  ReaderInv'
<1> USE DEF word
<1>1. ReaderTypeOK'
  <2>1. CASE ptr_rs
    <3>1. ptr_trail
      BY <2>1 DEF fe_trail_pulse
    <3>2. ptr_busy' \in BOOLEAN /\ ptr_flag' \in BOOLEAN
      BY <3>1 DEF ReaderInv, ReaderTypeOK, ptr_trail
    <3>3. UNCHANGED <<motor_on, ptr_feed, ptr_b, ptr, ptr_sr, taken, marred>>
      BY DEF fe_trail_pulse
    <3>4. NewFrame
      BY <3>1 DEF ptr_trail
    <3> QED
      BY <3>2, <3>3, <3>4, NewFrameType DEF ReaderInv, ReaderTypeOK
  <2>2. CASE ~ptr_rs
    BY <2>2 DEF ReaderInv, ReaderTypeOK, fe_trail_pulse
  <2> QED
    BY <2>1, <2>2 DEF ReaderInv, ReaderTypeOK
<1>2. FrameInv'
  BY DEF ReaderInv, FrameInv, ReaderTypeOK, moving, fe_trail_pulse, ptr_trail,
         NewFrame
<1>3. WordInv'
  <2> SUFFICES ASSUME ptr_busy', motor_on, marred = {}
               PROVE  WordInv'
    BY DEF WordInv, fe_trail_pulse
  <2>1. ptr_busy /\ passed = 2 /\ ~Pending /\ ~Pending'
    <3>1. passed = 2 /\ ~Pending
      BY DEF fe_trail_pulse, Pending
    <3>2. ptr_busy
      BY DEF fe_trail_pulse, ptr_trail
    <3>3. ~Pending'
      BY DEF fe_trail_pulse, ptr_trail, NewFrame, Pending
    <3> QED
      BY <3>1, <3>2, <3>3
  <2>2. UNCHANGED <<ptr, ptr_sr, taken, ptr_b, Size>>
    BY DEF fe_trail_pulse, Size
  <2>3. taken = ptr /\ ptr_sr = Len(taken) /\ Len(taken) <= Size
    BY <2>1 DEF ReaderInv, WordInv
  <2>4. ~ptr_rs'
    BY DEF fe_trail_pulse, ptr_trail, NewFrame, ReaderInv, ReaderTypeOK
  <2>5. Len(taken) # Size
    <3>1. CASE ptr_rs
      BY <2>1, <2>3, <3>1
      DEF ReaderInv, WordInv, fe_trail_pulse, ptr_trail, WordOver, Size, WordLength
    <3>2. CASE ~ptr_rs
      BY <2>1, <3>2 DEF ReaderInv, WordInv
    <3> QED
      BY <3>1, <3>2
  <2> QED
    BY <2>1, <2>2, <2>3, <2>4, <2>5 DEF WordInv
<1> QED
  BY <1>1, <1>2, <1>3 DEF ReaderInv

(* A word that starts, with the frame that is under the light if the key   *)
(* feeds tape and with none otherwise.                                     *)
LEMMA StartType ==
  ASSUME ReaderInv, NEW b \in BOOLEAN, WordStarts(b)
  PROVE  /\ ptr' \in Seq(Frames) /\ Len(ptr') <= WordLength
         /\ ptr_sr' \in 0 .. WordLength
         /\ taken' \in Seq(Frames)
         /\ marred' \subseteq {"late", "joined"}
<1> DEFINE kept == motor_on /\ ptr_feed /\ ptr_rs /\ Counts(hole, b)
<1>1. kept => hole \in Frames
  BY DEF ReaderInv, ReaderTypeOK
<1>2. ptr' \in Seq(Frames) /\ Len(ptr') <= WordLength /\ ptr_sr' \in 0 .. WordLength
  <2>1. CASE kept /\ mid_sync
    BY <1>1, <2>1, ShiftedType
    DEF WordStarts, ReaderInv, ReaderTypeOK, OneMore, WordLength
  <2>2. CASE ~(kept /\ mid_sync)
    BY <2>2, EmptySeq DEF WordStarts, WordLength
  <2> QED
    BY <2>1, <2>2
<1>3. taken' \in Seq(Frames)
  BY <1>1 DEF WordStarts
<1>4. marred' \subseteq {"late", "joined"}
  BY DEF WordStarts
<1> QED
  BY <1>2, <1>3, <1>4

(* A word that starts holds at most the frame that is fed.                 *)
LEMMA StartWord ==
  ASSUME ReaderInv, NEW b \in BOOLEAN, WordStarts(b), ptr_b' = b,
         ptr_rs' = (motor_on /\ ptr_feed /\ ptr_rs),
         ptr_rs' => UNCHANGED <<hole, passed>>
  PROVE  WordInv'
<1> SUFFICES ASSUME marred' = {}
             PROVE  WordInv'
  BY DEF WordInv
<1> DEFINE kept == motor_on /\ ptr_feed /\ ptr_rs /\ Counts(hole, b)
<1>1. ~(kept /\ mid_sync)
  BY DEF WordStarts
<1>2. ptr' = <<>> /\ ptr_sr' = 0
  BY <1>1 DEF WordStarts
<1>3. CASE kept
  <2>1. taken' = <<hole>> /\ Len(taken') = 1
    BY <1>3 DEF WordStarts
  <2>2. ptr_rs' /\ Pending'
    <3>1. ptr_rs' /\ hole' = hole /\ passed' = passed
      BY <1>3
    <3>2. passed < 2
      BY <1>1, <1>3 DEF mid_sync, ReaderInv, ReaderTypeOK
    <3>3. Counts(hole', ptr_b')
      BY <1>3, <3>1 DEF Counts
    <3> QED
      BY <3>1, <3>2, <3>3 DEF Pending, Counts
  <2>3. taken' = Append(ptr', hole')
    BY <1>2, <1>3, <2>1, <2>2
  <2> QED
    BY <1>2, <2>1, <2>2, <2>3 DEF WordInv, Size, WordLength
<1>4. CASE ~kept
  <2>1. taken' = <<>> /\ Len(taken') = 0
    BY <1>4 DEF WordStarts
  <2>2. ~Pending'
    BY <1>4 DEF Pending, Counts
  <2>3. ~(~ptr_b' /\ ptr_rs')
    BY <1>4 DEF Counts
  <2> QED
    BY <1>2, <2>1, <2>2, <2>3 DEF WordInv, Size, WordLength
<1> QED
  BY <1>3, <1>4

(* DATAI starts the next word.                                             *)
LEMMA DataIn ==
  ASSUME ReaderInv, ptr_datai
  PROVE  ReaderInv'
<1>1. CASE ptr_busy
  <2>1. moving' = moving /\ UNCHANGED word
    BY <1>1 DEF ptr_datai, moving
  <2>2. UNCHANGED <<motor_on, ptr_feed, ptr_busy, ptr_b>> /\ ptr_flag' = FALSE
    BY <1>1 DEF ptr_datai
  <2>3. UNCHANGED frame
    <3>1. CASE moving
      BY <2>1, <3>1 DEF ptr_datai, Moved
    <3>2. CASE ~moving
      BY <2>1, <3>2
      DEF ptr_datai, Moved, NewFrame, frame, ReaderInv, FrameInv, ReaderTypeOK
    <3> QED
      BY <3>1, <3>2
  <2>4. ReaderTypeOK'
    BY <2>1, <2>2, <2>3 DEF ReaderInv, ReaderTypeOK, word, frame
  <2>5. FrameInv'
    BY <2>1, <2>3 DEF ReaderInv, FrameInv, frame
  <2>6. WordInv'
    BY <2>1, <2>2, <2>3 DEF ReaderInv, WordInv, Pending, Counts, Size, word, frame
  <2> QED
    BY <2>4, <2>5, <2>6 DEF ReaderInv
<1>2. CASE ~ptr_busy
  <2>1. WordStarts(ptr_b) /\ ptr_b \in BOOLEAN /\ ptr_b' = ptr_b
    BY <1>2 DEF ptr_datai, ReaderInv, ReaderTypeOK
  <2>2. UNCHANGED <<motor_on, ptr_feed>> /\ ptr_busy' = TRUE /\ ptr_flag' = FALSE
    BY DEF ptr_datai
  <2>3. moving' = motor_on
    BY <2>2 DEF moving, ReaderInv, ReaderTypeOK
  <2>4. UNCHANGED frame
    <3>1. CASE motor_on
      BY <2>3, <3>1 DEF ptr_datai, Moved
    <3>2. CASE ~motor_on
      BY <2>3, <3>2
      DEF ptr_datai, Moved, NewFrame, frame, ReaderInv, FrameInv, ReaderTypeOK, moving
    <3> QED
      BY <3>1, <3>2
  <2>5. ReaderTypeOK'
    BY <2>1, <2>2, <2>4, StartType DEF ReaderInv, ReaderTypeOK, frame
  <2>6. FrameInv'
    BY <1>2, <2>2, <2>3, <2>4 DEF ReaderInv, FrameInv, frame, moving
  <2>7. ptr_rs' = (motor_on /\ ptr_feed /\ ptr_rs)
    BY <1>2, <2>4 DEF ReaderInv, FrameInv, ReaderTypeOK, frame, moving
  <2>8. WordInv'
    BY <2>1, <2>4, <2>7, StartWord DEF frame
  <2> QED
    BY <2>5, <2>6, <2>8 DEF ReaderInv
<1> QED
  BY <1>1, <1>2

(* CONO gives the word up, or starts it over.                              *)
LEMMA ConoGiven ==
  ASSUME ReaderInv, NEW busy \in BOOLEAN, NEW flag \in BOOLEAN, NEW b \in BOOLEAN,
         ptr_cono(busy, flag, b)
  PROVE  ReaderInv'
<1> DEFINE fed == motor_on /\ ptr_feed
<1>1. /\ ptr_busy' = busy /\ ptr_flag' = flag /\ ptr_b' = b
      /\ UNCHANGED <<motor_on, ptr_feed>>
  BY DEF ptr_cono
<1>2. IF fed THEN UNCHANGED frame ELSE NewFrame
  BY DEF ptr_cono
<1>3. /\ ptr_req' \in BOOLEAN /\ ptr_rs' \in BOOLEAN
      /\ hole' \in Frames \cup {NoFrame} /\ (ptr_rs' <=> hole' # NoFrame)
      /\ passed' \in 0 .. 3
  BY <1>2, NewFrameType DEF frame, ReaderInv, ReaderTypeOK
<1>4. IF busy THEN WordStarts(b) ELSE UNCHANGED word
  BY DEF ptr_cono
<1>5. ReaderTypeOK'
  BY <1>1, <1>3, <1>4, StartType DEF word, ReaderInv, ReaderTypeOK
<1>6. FrameInv'
  <2>1. CASE fed
    <3>1. moving /\ moving' /\ UNCHANGED frame
      BY <1>1, <1>2, <2>1 DEF moving
    <3> QED
      BY <3>1 DEF FrameInv, frame, ReaderInv
  <2>2. CASE ~fed
    BY <1>2, <2>2, NewFrameType DEF FrameInv, NewFrame
  <2> QED
    BY <2>1, <2>2
<1>7. WordInv'
  <2>1. CASE ~busy
    BY <1>1, <2>1 DEF WordInv
  <2>2. CASE busy
    <3>1. ptr_rs' = (motor_on /\ ptr_feed /\ ptr_rs)
      BY <1>2, NewFrameType DEF frame, ReaderInv, ReaderTypeOK
    <3>2. ptr_rs' => UNCHANGED <<hole, passed>>
      BY <1>2, NewFrameType DEF frame
    <3> QED
      BY <1>1, <1>4, <2>2, <3>1, <3>2, StartWord
  <2> QED
    BY <2>1, <2>2
<1> QED
  BY <1>5, <1>6, <1>7 DEF ReaderInv

(* The keys.  A word begun is given up when the motor stops, as ptr_busy   *)
(* is cleared when it starts again.                                        *)
LEMMA Keys ==
  ASSUME ReaderInv, key_start \/ key_stop \/ key_ptr_feed
  PROVE  ReaderInv'
<1>1. Moved /\ UNCHANGED word /\ UNCHANGED ptr_b
  BY DEF key_start, key_stop, key_ptr_feed, state
<1>2. /\ motor_on' \in BOOLEAN /\ ptr_feed' \in BOOLEAN
      /\ ptr_busy' \in BOOLEAN /\ ptr_flag' \in BOOLEAN
  BY DEF key_start, key_stop, key_ptr_feed, state, ReaderInv, ReaderTypeOK
<1>3. /\ ptr_req' \in BOOLEAN /\ ptr_rs' \in BOOLEAN
      /\ hole' \in Frames \cup {NoFrame} /\ (ptr_rs' <=> hole' # NoFrame)
      /\ passed' \in 0 .. 3
  BY <1>1, NewFrameType DEF Moved, frame, ReaderInv, ReaderTypeOK
<1>4. ReaderTypeOK'
  BY <1>1, <1>2, <1>3 DEF word, ReaderInv, ReaderTypeOK
<1>5. FrameInv'
  <2>1. CASE moving'
    BY <1>1, <2>1 DEF Moved, frame, FrameInv, ReaderInv
  <2>2. CASE ~moving'
    BY <1>1, <2>2, NewFrameType DEF Moved, NewFrame, FrameInv
  <2> QED
    BY <2>1, <2>2
<1>6. WordInv'
  <2> SUFFICES ASSUME ptr_busy', motor_on'
               PROVE  WordInv'
    BY DEF WordInv
  <2>1. key_ptr_feed
    BY DEF key_start, key_stop
  <2>2. ptr_busy /\ motor_on
    BY <2>1 DEF key_ptr_feed, state
  <2>3. moving' /\ UNCHANGED frame
    BY <1>1 DEF moving, Moved
  <2> QED
    BY <1>1, <2>2, <2>3
    DEF WordInv, ReaderInv, word, frame, Pending, Counts, Size
<1> QED
  BY <1>4, <1>5, <1>6 DEF ReaderInv

(* The front end's answer, before the middle of the frame, before its      *)
(* trailing edge, or late.                                                 *)
LEMMA Answered ==
  ASSUME ReaderInv, NEW f \in Frames, Answer(f)
  PROVE  ReaderInv'
<1>1. /\ ptr_req /\ ~ptr_rs /\ moving /\ passed # 0 /\ ~Pending
      /\ UNCHANGED <<motor_on, ptr_feed, ptr_b>>
  BY DEF Answer, ReaderInv, FrameInv, Pending
<1>2. ptr' \in Seq(Frames) /\ Len(ptr') <= WordLength /\ ptr_sr' \in 0 .. WordLength
  BY StrobeType DEF Answer, ReaderInv, ReaderTypeOK
<1>3. taken' \in Seq(Frames) /\ marred' \subseteq {"late", "joined"}
  BY AppendProperties DEF Answer, ReaderInv, ReaderTypeOK
<1>4. CASE ~trail_sync
  <2>1. /\ ptr_req' = FALSE /\ ptr_rs' = TRUE /\ hole' = f /\ passed' = passed
        /\ UNCHANGED <<ptr_busy, ptr_flag>>
    BY <1>4 DEF Answer
  <2>2. ReaderTypeOK'
    BY <1>1, <1>2, <1>3, <2>1, FramesAssumption DEF ReaderInv, ReaderTypeOK
  <2>3. FrameInv'
    BY <1>1, <1>4, <2>1
    DEF FrameInv, moving, trail_sync, ReaderInv, ReaderTypeOK
  <2>4. WordInv'
    <3> SUFFICES ASSUME ptr_busy, motor_on, marred' = {}
                 PROVE  WordInv'
      BY <1>1, <2>1 DEF WordInv
    <3>1. marred = {}
      BY DEF Answer
    <3>2. taken = ptr /\ ptr_sr = Len(ptr) /\ Len(ptr) < Size /\ Len(ptr) \in Nat
      BY <1>1, <3>1, LenProperties
      DEF WordInv, ReaderInv, ReaderTypeOK, Size, WordLength
    <3>3. Size' = Size /\ Size <= WordLength /\ Size \in Nat
      BY <1>1 DEF Size, WordLength
    <3>4. CASE ~Counts(f, ptr_b)
      <4>1. /\ ptr' = ptr /\ ptr_sr' = ptr_sr /\ taken' = taken /\ ~Pending'
            /\ ptr_b' /\ ptr_rs'
        BY <1>1, <2>1, <3>4 DEF Answer, Strobe, Pending, Counts
      <4> QED
        BY <3>2, <3>3, <4>1 DEF WordInv
    <3>5. CASE Counts(f, ptr_b)
      <4>1. taken' = Append(ptr, f) /\ Len(taken') = Len(ptr) + 1
        BY <3>2, <3>5, AppendProperties DEF Answer, ReaderInv, ReaderTypeOK
      <4>2. Len(taken') <= Size' /\ (~ptr_b' => Len(taken') = 1)
        BY <1>1, <3>2, <3>3, <4>1 DEF Size, WordLength
      <4>3. CASE mid_sync
        <5>1. Strobe(f)
          BY <4>3 DEF Answer
        <5>2. ptr' = Append(ptr, f) /\ ptr_sr' = Len(ptr) + 1
          BY <3>2, <3>3, <3>5, <5>1 DEF Strobe, Shifted, OneMore, Size, WordLength
        <5>3. ~Pending' /\ ptr_rs'
          BY <2>1, <4>3 DEF Pending, mid_sync, ReaderInv, ReaderTypeOK
        <5> QED
          BY <4>1, <4>2, <5>2, <5>3 DEF WordInv
      <4>4. CASE ~mid_sync
        <5>1. ptr' = ptr /\ ptr_sr' = Len(ptr)
          BY <3>2, <4>4 DEF Answer
        <5>2. Pending'
          BY <1>1, <2>1, <3>5, <4>4
          DEF Pending, mid_sync, ReaderInv, ReaderTypeOK, Counts
        <5> QED
          BY <2>1, <4>1, <4>2, <5>1, <5>2 DEF WordInv
      <4> QED
        BY <4>3, <4>4
    <3> QED
      BY <3>4, <3>5
  <2> QED
    BY <2>2, <2>3, <2>4 DEF ReaderInv
<1>5. CASE trail_sync
  <2>1. ptr_trail
    BY <1>5 DEF Answer
  <2>2. NewFrame
    BY <2>1 DEF ptr_trail
  <2>3. ptr_busy' \in BOOLEAN /\ ptr_flag' \in BOOLEAN
    BY <2>1 DEF ptr_trail, ReaderInv, ReaderTypeOK
  <2>4. ReaderTypeOK'
    BY <1>1, <1>2, <1>3, <2>2, <2>3, NewFrameType DEF ReaderInv, ReaderTypeOK
  <2>5. FrameInv'
    BY <2>2, NewFrameType DEF FrameInv, NewFrame
  <2>6. WordInv'
    <3> SUFFICES ASSUME ptr_busy', motor_on, marred' = {}
                 PROVE  WordInv'
      BY <1>1 DEF WordInv
    <3>1. ptr_busy /\ ptr_b /\ ptr_sr # WordLength
      BY <2>1 DEF ptr_trail, WordOver
    <3>2. marred = {} /\ ~SixthIsLate(f)
      BY DEF Answer
    <3>3. taken = ptr /\ ptr_sr = Len(ptr) /\ Len(ptr) \in Nat /\ Len(ptr) < WordLength
      BY <1>1, <3>1, <3>2, LenProperties
      DEF WordInv, ReaderInv, ReaderTypeOK, Size, WordLength
    <3>4. ~Pending' /\ ~ptr_rs' /\ ptr_b' /\ Size' = WordLength
      BY <1>1, <2>2, <3>1, NewFrameType DEF Size
    <3>5. mid_sync
      BY <1>5 DEF mid_sync, trail_sync
    <3>6. CASE ~Counts(f, ptr_b)
      <4>1. ptr' = ptr /\ ptr_sr' = ptr_sr /\ taken' = taken
        BY <3>6 DEF Answer, Strobe
      <4> QED
        BY <3>3, <3>4, <4>1 DEF WordInv, WordLength
    <3>7. CASE Counts(f, ptr_b)
      <4>1. ptr_sr # WordLength - 1
        BY <1>5, <3>1, <3>2, <3>7 DEF SixthIsLate
      <4>2. taken' = Append(ptr, f) /\ Len(taken') = Len(ptr) + 1
        BY <3>1, <3>3, <3>7, AppendProperties DEF Answer, ReaderInv, ReaderTypeOK
      <4>3. ptr' = Append(ptr, f) /\ ptr_sr' = Len(ptr) + 1
        BY <3>1, <3>3, <3>5, <3>7 DEF Answer, Strobe, Shifted, OneMore, WordLength
      <4> QED
        BY <3>3, <3>4, <4>1, <4>2, <4>3 DEF WordInv, WordLength
    <3> QED
      BY <3>6, <3>7
  <2> QED
    BY <2>4, <2>5, <2>6 DEF ReaderInv
<1> QED
  BY <1>4, <1>5

(* Every event of the reader keeps its invariant.                          *)
LEMMA ReaderStep ==
  ASSUME ReaderInv, ReaderTimes \/ ReaderUsed
  PROVE  ReaderInv'
<1>1. CASE ReaderTimes
  BY <1>1, Lead, Middle, Trail DEF ReaderTimes
<1>2. CASE ReaderUsed
  BY <1>2, Keys, DataIn, ConoGiven DEF ReaderUsed, AnyPtrCono
<1> QED
  BY <1>1, <1>2

(* The invariant speaks of the reader alone.                               *)
LEMMA ReaderStays ==
  ASSUME ReaderInv, UNCHANGED readerVars
  PROVE  ReaderInv'
<1>1. UNCHANGED <<motor_on, ptr_feed, ptr_busy, ptr_flag, ptr_b, ptr, ptr_sr,
                  taken, marred, ptr_req, ptr_rs, hole, passed>>
  BY DEF readerVars, state, word, frame
<1>2. ReaderTypeOK'
  BY <1>1 DEF ReaderInv, ReaderTypeOK
<1>3. FrameInv'
  BY <1>1 DEF ReaderInv, FrameInv, moving
<1>4. WordInv'
  BY <1>1 DEF ReaderInv, WordInv, Pending, Counts, Size
<1> QED
  BY <1>2, <1>3, <1>4 DEF ReaderInv

(* A reader that is not stopped goes on asking until it is answered.       *)
LEMMA AsksOn ==
  ASSUME ReaderInv, ReaderTimes \/ ReaderUsed, ptr_req, moving', ~AnyPtrCono
  PROVE  ptr_req'
<1>1. moving /\ ~ptr_rs
  BY DEF ReaderInv, FrameInv
<1>2. CASE ptr_lead
  BY <1>2 DEF ptr_lead
<1>3. CASE fe_mid_pulse
  BY <1>3 DEF fe_mid_pulse
<1>4. CASE fe_trail_pulse
  BY <1>1, <1>4 DEF fe_trail_pulse
<1>5. CASE key_start
  BY <1>1, <1>5 DEF key_start, moving
<1>6. CASE key_stop
  BY <1>6 DEF key_stop, moving
<1>7. CASE key_ptr_feed \/ ptr_datai
  BY <1>7 DEF key_ptr_feed, ptr_datai, Moved, frame
<1> QED
  BY <1>2, <1>3, <1>4, <1>5, <1>6, <1>7 DEF ReaderTimes, ReaderUsed

-----------------------------------------------------------------------------
(* The punch, event by event.                                              *)

PunchOK == PunchTypeOK /\ PunchInv

(* A character is given to be punched.                                     *)
LEMMA DataOut ==
  ASSUME PunchOK, NEW a \in Chars, ptp_datao(a)
  PROVE  PunchOK'
<1> USE DEF interface
<1>1. PunchTypeOK'
  BY DEF PunchOK, PunchTypeOK, ptp_datao, Given, MotorOn
<1>2. PunchInv'
  BY CharsAssumption DEF PunchOK, PunchTypeOK, PunchInv, ptp_datao, Given
<1> QED
  BY <1>1, <1>2 DEF PunchOK

(* CONO gives the character up, or gives it once more.                     *)
LEMMA PtpCono ==
  ASSUME PunchOK, NEW busy \in BOOLEAN, NEW flag \in BOOLEAN, ptp_cono(busy, flag)
  PROVE  PunchOK'
<1> USE DEF interface
<1>1. PunchTypeOK'
  BY DEF PunchOK, PunchTypeOK, ptp_cono, Given, MotorOn
<1>2. PunchInv'
  BY CharsAssumption DEF PunchOK, PunchTypeOK, PunchInv, ptp_cono, Given, Blank, None
<1> QED
  BY <1>1, <1>2 DEF PunchOK

(* Feed key and motor leave character and answer alone.                    *)
LEMMA FeedAndMotor ==
  ASSUME PunchOK, key_ptp_feed \/ start_over \/ motor_off
  PROVE  PunchOK'
<1> USE DEF interface
<1>1. PunchTypeOK'
  <2>1. CASE key_ptp_feed
    BY <2>1 DEF PunchOK, PunchTypeOK, key_ptp_feed, MotorOn
  <2>2. CASE start_over \/ motor_off
    BY <2>2 DEF PunchOK, PunchTypeOK, start_over, motor_off
  <2> QED
    BY <2>1, <2>2
<1>2. PunchInv'
  BY DEF PunchOK, PunchInv, key_ptp_feed, start_over, motor_off
<1> QED
  BY <1>1, <1>2 DEF PunchOK

(* A tick forgets the last answer and asks again.                          *)
LEMMA Tick ==
  ASSUME PunchOK, ptp_clk
  PROVE  PunchOK'
<1>1. PunchTypeOK'
  BY DEF PunchOK, PunchTypeOK, ptp_clk, ptp_ready
<1>2. PunchInv'
  BY DEF PunchOK, PunchTypeOK, PunchInv, ptp_clk, ptp_ready
<1> QED
  BY <1>1, <1>2 DEF PunchOK

(* The end of a write is done only if the answer is there.                 *)
LEMMA WriteDone ==
  ASSUME PunchOK, ptp_write_done
  PROVE  PunchOK'
<1>1. PunchTypeOK'
  BY DEF PunchOK, PunchTypeOK, ptp_write_done, ptp_done
<1>2. PunchInv'
  BY DEF PunchOK, PunchTypeOK, PunchInv, ptp_write_done, ptp_done
<1> QED
  BY <1>1, <1>2 DEF PunchOK

(* An answer is done only if the write is over.                            *)
LEMMA CharTaken ==
  ASSUME PunchOK, s_read, ptp_req
  PROVE  PunchOK'
<1>1. PunchTypeOK'
  BY DEF PunchOK, PunchTypeOK, s_read, ptp_done
<1>2. PunchInv'
  BY DEF PunchOK, PunchTypeOK, PunchInv, s_read, ptp_done, s_readdata
<1> QED
  BY <1>1, <1>2 DEF PunchOK

PunchSteps == PunchTimes \/ motor_off \/ PunchUsed

(* Every event of the punch keeps its invariant.                           *)
LEMMA PunchStep ==
  ASSUME PunchOK, PunchSteps
  PROVE  PunchOK' /\ (ptp_req => ptp_req')
<1>1. PunchOK'
  BY DataOut, PtpCono, FeedAndMotor, Tick, WriteDone
  DEF PunchSteps, PunchTimes, PunchUsed, AnyPtpCono
<1>2. ptp_req => ptp_req'
  BY DEF PunchSteps, PunchTimes, PunchUsed, AnyPtpCono, ptp_datao, ptp_cono,
         key_ptp_feed, start_over, motor_off, ptp_clk, ptp_write_done, interface
<1> QED
  BY <1>1, <1>2

(* The invariant speaks of the punch alone.                                *)
LEMMA PunchStays ==
  ASSUME PunchOK, UNCHANGED punchVars
  PROVE  PunchOK' /\ ptp_req' = ptp_req
<1>1. UNCHANGED <<ptp, ptp_busy, ptp_flag, ptp_feed, motor, ptp_req, ptp_rs,
                  ptp_write, ptp_write_sync, ptp_done_sync, owed, cut, beside>>
  BY DEF punchVars, interface
<1> QED
  BY <1>1 DEF PunchOK, PunchTypeOK, PunchInv

-----------------------------------------------------------------------------
(* All of it.                                                              *)

FrontEndOK ==
  /\ fe \in {"poll", "ptr", "give", "ptp"}
  /\ req \subseteq {"ptr", "ptp"}
  /\ c \in Frames \cup {NoFrame} /\ (c # NoFrame <=> fe = "give")
  /\ orphan \in BOOLEAN

(* The invariant by the parts of the machine.                              *)
LEMMA IInvParts == IInv <=> ReaderInv /\ PunchOK /\ FrontEndOK /\ ServeInv
BY DEF IInv, TypeOK, ReaderInv, PunchOK, FrontEndOK

(* It holds at first.                                                      *)
LEMMA InitInv == Init => IInv
<1> SUFFICES ASSUME Init PROVE IInv
  OBVIOUS
<1>1. ReaderInv
  <2>1. ptr \in Seq(Frames) /\ Len(ptr) = 0 /\ taken \in Seq(Frames)
    BY EmptySeq DEF Init, ReaderInit
  <2>2. hole \in Frames \cup {NoFrame} /\ (ptr_rs <=> hole # NoFrame)
    BY DEF Init, ReaderInit
  <2>3. marred \subseteq {"late", "joined"} /\ passed \in 0 .. 3
    BY DEF Init, ReaderInit
  <2>4. ptr_sr \in 0 .. WordLength /\ Len(ptr) <= WordLength
    BY <2>1 DEF Init, ReaderInit, WordLength
  <2>5. /\ motor_on \in BOOLEAN /\ ptr_feed \in BOOLEAN
        /\ ptr_busy \in BOOLEAN /\ ptr_flag \in BOOLEAN /\ ptr_b \in BOOLEAN
        /\ ptr_req \in BOOLEAN /\ ptr_rs \in BOOLEAN
    BY DEF Init, ReaderInit
  <2>6. ReaderTypeOK
    BY <2>1, <2>2, <2>3, <2>4, <2>5 DEF ReaderTypeOK
  <2>7. FrameInv /\ WordInv
    BY DEF Init, ReaderInit, FrameInv, WordInv
  <2> QED
    BY <2>6, <2>7 DEF ReaderInv
<1>2. PunchOK
  BY DEF Init, PunchInit, PunchOK, PunchTypeOK, PunchInv
<1>3. FrontEndOK /\ ServeInv
  BY DEF Init, FrontEndOK, ServeInv, ServingReader
<1> QED
  BY <1>1, <1>2, <1>3, IInvParts

(* Every step keeps it.                                                    *)
LEMMA NextInv == IInv /\ [Next]_vars => IInv'
<1> SUFFICES ASSUME IInv, [Next]_vars PROVE IInv'
  OBVIOUS
<1> USE IInvParts
<1> SUFFICES ReaderInv' /\ PunchOK' /\ FrontEndOK' /\ ServeInv'
  BY PTL
<1>1. CASE Reader
  <2>1. ReaderInv'
    BY <1>1, ReaderStep DEF Reader
  <2>2. PunchOK' /\ ptp_req' = ptp_req
    BY <1>1, PunchStays DEF Reader
  <2>3. FrontEndOK'
    BY <1>1 DEF Reader, FrontEndOK
  <2>4. ServeInv'
    <3>1. ASSUME ServingReader', ~orphan' PROVE ptr_req'
      <4>1. ServingReader /\ ~orphan /\ moving' /\ ~AnyPtrCono
        BY <1>1, <3>1 DEF Reader, ServingReader
      <4> QED
        BY <1>1, <4>1, AsksOn DEF Reader, ServeInv
    <3> QED
      BY <1>1, <2>2, <3>1 DEF Reader, ServeInv
  <2> QED
    BY <2>1, <2>2, <2>3, <2>4
<1>2. CASE Punch
  <2>1. PunchOK' /\ (ptp_req => ptp_req')
    BY <1>2, PunchStep DEF Punch, PunchSteps
  <2>2. ReaderInv' /\ ptr_req' = ptr_req
    BY <1>2, ReaderStays DEF Punch, readerVars, frame
  <2>3. FrontEndOK' /\ ServeInv'
    BY <1>2, <2>1, <2>2 DEF Punch, feVars, FrontEndOK, ServeInv, ServingReader
  <2> QED
    BY <2>1, <2>2, <2>3
<1>3. CASE Poll
  <2>1. ReaderInv' /\ PunchOK' /\ ptr_req' = ptr_req /\ ptp_req' = ptp_req
    BY <1>3, ReaderStays, PunchStays DEF Poll, readerVars, frame
  <2>2. FrontEndOK'
    BY <1>3 DEF Poll, fe_req, FrontEndOK
  <2>3. ServeInv'
    BY <1>3, <2>1 DEF Poll, fe_req, ServeInv, ServingReader
  <2> QED
    BY <2>1, <2>2, <2>3
<1>4. CASE ReadFile
  <2>1. ReaderInv' /\ PunchOK' /\ ptr_req' = ptr_req /\ ptp_req' = ptp_req
    BY <1>4, ReaderStays, PunchStays DEF ReadFile, readerVars, frame
  <2>2. FrontEndOK'
    BY <1>4, FramesAssumption DEF ReadFile, FrontEndOK
  <2>3. ServeInv'
    BY <1>4, <2>1 DEF ReadFile, ServeInv, ServingReader
  <2> QED
    BY <2>1, <2>2, <2>3
<1>5. CASE GiveFrame
  <2>1. c \in Frames
    BY <1>5 DEF GiveFrame, FrontEndOK
  <2>2. ReaderInv'
    BY <1>5, <2>1, Answered, ReaderStays DEF GiveFrame, AnswerIgnored
  <2>3. PunchOK' /\ ptp_req' = ptp_req
    BY <1>5, PunchStays DEF GiveFrame
  <2>4. FrontEndOK'
    BY <1>5 DEF GiveFrame, FrontEndOK, AfterReader
  <2>5. ServeInv'
    BY <1>5, <2>3 DEF GiveFrame, ServeInv, ServingReader, AfterReader
  <2> QED
    BY <2>2, <2>3, <2>4, <2>5
<1>6. CASE TakeChar
  <2>1. PunchOK'
    BY <1>6, CharTaken DEF TakeChar, ServeInv
  <2>2. ReaderInv' /\ ptr_req' = ptr_req
    BY <1>6, ReaderStays DEF TakeChar, readerVars, frame
  <2>3. FrontEndOK' /\ ServeInv'
    BY <1>6, <2>2 DEF TakeChar, FrontEndOK, ServeInv, ServingReader
  <2> QED
    BY <2>1, <2>2, <2>3
<1>7. CASE UNCHANGED vars
  <2>1. UNCHANGED readerVars /\ UNCHANGED punchVars /\ UNCHANGED feVars
    BY <1>7 DEF vars
  <2>2. ReaderInv' /\ PunchOK' /\ ptr_req' = ptr_req /\ ptp_req' = ptp_req
    BY <2>1, ReaderStays, PunchStays DEF readerVars, frame
  <2>3. FrontEndOK' /\ ServeInv'
    BY <2>1, <2>2 DEF feVars, FrontEndOK, ServeInv, ServingReader
  <2> QED
    BY <2>2, <2>3
<1> QED
  BY <1>1, <1>2, <1>3, <1>4, <1>5, <1>6, <1>7 DEF Next, FrontEnd

(* The inductive invariant holds throughout.                               *)
THEOREM Invariance == Spec => []IInv
<1>1. Init => IInv
  BY InitInv
<1>2. IInv /\ [Next]_vars => IInv'
  BY NextInv
<1> QED
  BY <1>1, <1>2, PTL DEF Spec

(* Every register of reader and punch keeps its range: the word never      *)
(* holds more than six frames, the front end has a frame in hand exactly   *)
(* when it is about to give it.                                            *)
THEOREM Types == Spec => []TypeOK
<1>1. IInv => TypeOK
  BY DEF IInv
<1> QED
  BY <1>1, Invariance, PTL

-----------------------------------------------------------------------------
(* A word is complete when it ends.                                        *)

(* A word that ends is all of what was answered.                           *)
LEMMA EndsComplete ==
  ASSUME ReaderInv, ReaderInv', WordEnds, marred' = {},
         \/ fe_trail_pulse
         \/ \E f \in Frames : Answer(f)
         \/ AnswerIgnored
  PROVE  ptr' = taken' /\ Len(ptr') = IF ptr_b THEN WordLength ELSE 1
<1>1. ptr_busy /\ ~ptr_busy'
  BY DEF WordEnds
<1>2. CASE fe_trail_pulse
  <2>1. /\ motor_on /\ marred = {} /\ passed = 2 /\ ~Pending
        /\ UNCHANGED <<ptr, taken>>
    BY <1>2 DEF fe_trail_pulse, moving, word, Pending
  <2>2. ptr_trail /\ ptr_rs
    BY <1>1, <1>2 DEF fe_trail_pulse
  <2>3. WordOver
    BY <1>1, <2>2 DEF ptr_trail
  <2>4. ptr = taken /\ ptr_sr = Len(ptr) /\ (~ptr_b => Len(ptr) = 1)
    BY <1>1, <2>1, <2>2 DEF ReaderInv, WordInv
  <2> QED
    BY <2>1, <2>3, <2>4 DEF WordOver
<1>3. ASSUME NEW f \in Frames, Answer(f)
      PROVE  ptr' = taken' /\ Len(ptr') = IF ptr_b THEN WordLength ELSE 1
  <2>1. /\ motor_on /\ ~ptr_rs /\ ~Pending /\ marred = {} /\ trail_sync /\ mid_sync
    <3>1. ~ptr_rs /\ motor_on
      BY <1>3 DEF Answer, ReaderInv, FrameInv, moving
    <3>2. marred = {}
      BY <1>3 DEF Answer
    <3>3. trail_sync
      BY <1>1, <1>3 DEF Answer
    <3> QED
      BY <3>1, <3>2, <3>3 DEF Pending, trail_sync, mid_sync
  <2>2. taken = ptr /\ ptr_sr = Len(ptr) /\ Len(ptr) < Size /\ Len(ptr) \in Nat
    BY <1>1, <2>1, LenProperties
    DEF WordInv, ReaderInv, ReaderTypeOK, Size, WordLength
  <2>3. WordOver
    BY <1>1, <1>3, <2>1 DEF Answer, ptr_trail
  <2>4. ~ptr_b
    <3> SUFFICES ASSUME ptr_b PROVE FALSE
      OBVIOUS
    <3>1. Size = WordLength
      BY DEF Size
    <3>2. ptr_sr = WordLength
      BY <2>3 DEF WordOver
    <3> QED
      BY <2>2, <3>1, <3>2 DEF WordLength
  <2>5. Len(ptr) = 0 /\ Counts(f, ptr_b)
    BY <2>2, <2>4 DEF Size, Counts
  <2>6. taken' = Append(ptr, f) /\ Len(taken') = 1
    BY <1>1, <1>3, <2>2, <2>5, AppendProperties DEF Answer, ReaderInv, ReaderTypeOK
  <2>7. ptr' = Append(ptr, f)
    BY <1>1, <1>3, <2>1, <2>5 DEF Answer, Strobe, Shifted, WordLength
  <2> QED
    BY <2>4, <2>6, <2>7
<1>4. CASE AnswerIgnored
  BY <1>1, <1>4 DEF AnswerIgnored, readerVars, state
<1> QED
  BY <1>2, <1>3, <1>4

(* However early or late the front end answers, a word that ends is made   *)
(* of the frames answered since it began, six in binary and one otherwise, *)
(* with the two exceptions marred names.                                   *)
THEOREM WordsAreComplete == Spec => WordComplete
<1>1. IInv /\ IInv' /\ [Next]_vars =>
        [WordEnds /\ marred' = {} =>
           ptr' = taken' /\ Len(ptr') = IF ptr_b THEN WordLength ELSE 1]_vars
  <2> SUFFICES ASSUME IInv, IInv', WordEnds, marred' = {}
               PROVE  ptr' = taken' /\ Len(ptr') = IF ptr_b THEN WordLength ELSE 1
    OBVIOUS
  <2>1. ReaderInv /\ ReaderInv' /\ FrontEndOK
    BY IInvParts, PTL
  <2>2. fe_trail_pulse \/ (\E f \in Frames : Answer(f)) \/ AnswerIgnored
    BY <2>1 DEF WordEnds, GiveFrame, FrontEndOK
  <2> QED
    BY <2>1, <2>2, EndsComplete
<1> QED
  BY <1>1, Invariance, PTL DEF Spec, WordComplete

(* No frame taken from the file is thrown away unless the reader was       *)
(* stopped.                                                                *)
THEOREM FramesAreDelivered == Spec => FrameDelivered
<1>1. IInv => [GiveFrame /\ AnswerIgnored => orphan]_vars
  BY DEF IInv, ServeInv, ServingReader, GiveFrame, AnswerIgnored
<1> QED
  BY <1>1, Invariance, PTL DEF FrameDelivered

-----------------------------------------------------------------------------
(* The punch asks for a character when it has punched the last one.        *)

(* The done of a character waits for the front end to read it.             *)
THEOREM WaitsForFrontEnd == Spec => DoneWhenRead
<1>1. IInv => [ptp_busy /\ ~ptp_busy' /\ (ptp_write_done \/ TakeChar) =>
                 owed' = None \/ beside # "none"]_vars
  <2> SUFFICES ASSUME IInv, ptp_busy, ~ptp_busy', ptp_write_done \/ TakeChar
               PROVE  owed' = None \/ beside # "none"
    OBVIOUS
  <2>1. PunchInv /\ PunchTypeOK
    BY DEF IInv, TypeOK
  <2>2. CASE ptp_write_done
    BY <2>1, <2>2 DEF ptp_write_done, ptp_done, PunchInv
  <2>3. CASE TakeChar
    BY <2>1, <2>3 DEF TakeChar, s_read, s_readdata, ptp_done, PunchInv, PunchTypeOK
  <2> QED
    BY <2>2, <2>3
<1> QED
  BY <1>1, Invariance, PTL DEF DoneWhenRead

(* The front end reads each character once, and not one that another took  *)
(* the place of.                                                           *)
THEOREM CharsArePunchedOnce == Spec => PunchedOnce
<1>1. IInv => [TakeChar /\ s_readdata # Blank => owed = s_readdata]_vars
  <2> SUFFICES ASSUME IInv, TakeChar, s_readdata # Blank
               PROVE  owed = s_readdata
    OBVIOUS
  <2>1. PunchInv /\ ptp_req
    BY DEF IInv, ServeInv, TakeChar
  <2>2. ptp_busy /\ ptp # Blank /\ s_readdata = ptp
    BY DEF s_readdata
  <2> QED
    BY <2>1, <2>2 DEF PunchInv
<1> QED
  BY <1>1, Invariance, PTL DEF PunchedOnce
=============================================================================
