--------------------------- MODULE FrontEndProofs ----------------------------
(* Theorems about the front end: for machines, sessions, words and tapes   *)
(* of every size.                                                          *)
EXTENDS FrontEnd, ConsoleProofs, DumpProofs, FiniteSetTheorems

-----------------------------------------------------------------------------
(* The DECtape: for tapes of every length, every set of switches and every *)
(* number of orders, as the front end uses it: the operator reaches the    *)
(* drive and the tape only through the front end, when it is not in the    *)
(* middle of serving the drive.                                            *)

Places == 0 .. (Lines - 1)

(* The line after another the way the tape runs, with the ends of svc_dt().*)
Beyond(i) ==
  IF reverse THEN IF i > 0 THEN i - 1 ELSE Zone - 1
  ELSE IF i + 1 < Lines THEN i + 1 ELSE Lines - Zone

(* The line last given is next to be written.                              *)
AboutToWrite == t_wren /\ tck = 1 /\ ~fe_wr_rq

(* The tape is not up to speed, nor will it be before the drive has asked  *)
(* for a line again: what the front end serves late, after a stop, it      *)
(* serves before the control writes.                                       *)
Slow ==
  /\ ~t_wren
  /\ tups = "none" \/ (tups = "one pulse" /\ (tck # 1 \/ fe_wr_rq))

(* The two requests and the clock.                                         *)
Requests ==
  /\ motion <=> Moves(sw, go)
  /\ fe_wr_rq => motion /\ tck = 1
  /\ fe_rd_rq => motion /\ tck = 2 /\ fe_move
  /\ t_wren => sw = "remote"
  /\ t_wren /\ fe_wr_rq => ~fe_move

(* What the front end is in the middle of.                                 *)
Served ==
  /\ svc # NoRequest => "wr" \in svc \/ "rd" \in svc
  /\ "wr" \in svc =>
       /\ "rd" \notin svc /\ ~fe_rd_rq
       /\ (fe_wr_rq /\ (t_wren => "move" \notin svc)) \/ Slow
       /\ steady => fe_wr_rq
  /\ "rd" \in svc =>
       /\ cur = under /\ "move" \in svc
       /\ fe_rd_rq \/ (Slow /\ under \in spoiled /\ ~steady)
       /\ steady => ("rev" \in svc <=> reverse)

(* Where the head is: at the line given last as long as that is written,   *)
(* then at the one after it.                                               *)
AtHead ==
  /\ fe_rd_rq \/ AboutToWrite => cur = under
  /\ steady /\ ~fe_rd_rq /\ ~AboutToWrite => cur = Beyond(under)

(* What is on the tape, in the drive and in the file.                      *)
OnTape ==
  /\ AboutToWrite => tape # NoTape /\ linebuf = Sense(tape[under])
  /\ mounted => \A i \in Places \ spoiled :
       IF fe_rd_rq /\ i = under THEN laid[i] = Sense(fe_readdata) ELSE laid[i] = tape[i]
  /\ ~mounted => \A i \in Places \ spoiled : laid[i] = reel[i]

DecTapeInv ==
  /\ DecTapeTypeOK /\ reel \in Tapes /\ under \in Places /\ (tape = NoTape => cur = 0)
  /\ Requests /\ Served /\ AtHead /\ OnTape

-----------------------------------------------------------------------------
(* Lines and directions.                                                   *)

(* A line is a record of two bits.                                         *)
LEMMA Fields ==
  /\ \A l \in Line : l.mark \in {0, 1} /\ l.data \in {0, 1} /\ l = [mark |-> l.mark, data |-> l.data]
  /\ \A m, d \in {0, 1} : [mark |-> m, data |-> d] \in Line
  BY DEF Line

(* Reading backwards twice is reading.                                     *)
LEMMA SenseTwice ==
  ASSUME NEW l \in Line
  PROVE  Sense(l) \in Line /\ Sense(Sense(l)) = l /\ Complement(l) \in Line
  <1>1. Complement(l) \in Line
    BY Fields DEF Complement
  <1>2. Complement(Complement(l)) = [mark |-> 1 - (1 - l.mark), data |-> 1 - (1 - l.data)]
    BY DEF Complement
  <1>3. 1 - (1 - l.mark) = l.mark /\ 1 - (1 - l.data) = l.data
    BY Fields
  <1>4. Complement(Complement(l)) = l
    BY <1>2, <1>3, Fields
  <1> QED
    BY <1>1, <1>4 DEF Sense

(* A blank line, and a formatted tape of them.                             *)
LEMMA BlankIsLine == Blank \in Line /\ Formatted \in Tapes
  <1>1. \A i \in 0 .. (Lines - 1) : [mark |-> i % 2, data |-> 0] \in Line
    <2> SUFFICES ASSUME NEW i \in 0 .. (Lines - 1)
                 PROVE  i % 2 \in {0, 1}
      BY Fields
    <2>1. i % 2 \in 0 .. 1
      BY SMTT(20)
    <2> QED
      BY <2>1
  <1> QED
    BY <1>1, Fields DEF Blank, Formatted, Tapes

-----------------------------------------------------------------------------
(* The invariant.                                                          *)

(* It holds at first.                                                      *)
LEMMA InitDecTape == DecTapeInit => DecTapeInv
  <1> SUFFICES ASSUME DecTapeInit
               PROVE  DecTapeInv
    OBVIOUS
  <1>1. DecTapeTypeOK
    <2>1. {t_wren, motion, reverse, fe_wr_rq, fe_rd_rq, fe_move, mounted, steady} \subseteq BOOLEAN
      BY DEF DecTapeInit
    <2> QED
      BY <2>1, BlankIsLine, DecTapeAssumption DEF DecTapeInit, DecTapeTypeOK, NoRequest
  <1>2. reel \in Tapes /\ under \in Places
    BY BlankIsLine, DecTapeAssumption DEF DecTapeInit, Places
  <1>3. Requests
    BY DEF DecTapeInit, Requests, Moves
  <1>4. Served /\ AtHead /\ OnTape
    BY DEF DecTapeInit, Served, AtHead, OnTape, AboutToWrite, NoRequest
  <1> QED
    BY <1>1, <1>2, <1>3, <1>4 DEF DecTapeInv, DecTapeInit

(* The motion changes, by a command or, when nothing is written nor        *)
(* served, by a switch.                                                    *)
LEMMA DrivenKeeps ==
  ASSUME DecTapeInv, NEW s \in Switches, NEW g \in {"stop", "fwd", "rev"}, Driven(s, g),
         t_wren' = FALSE, s # sw => svc = NoRequest /\ ~Writing
  PROVE  DecTapeInv'
  <1> DEFINE stops == ~motion'
             turns == reverse' # reverse
  <1>1. /\ sw' = s /\ go' = g /\ motion' = Moves(s, g)
        /\ reverse' = IF Moves(s, g) THEN Turns(s, g) ELSE reverse
        /\ fe_wr_rq' = (fe_wr_rq /\ motion') /\ fe_rd_rq' = (fe_rd_rq /\ motion')
        /\ steady' = (steady /\ motion' /\ reverse' = reverse /\ ~t_wren)
        /\ tups' = IF g = go THEN tups ELSE "none"
        /\ UNCHANGED <<tck, linebuf, fe_move, fe_readdata, svc, reel, tape, cur, mounted, laid, under>>
    BY DEF Driven, reelVars
  <1>2. spoiled' = IF fe_rd_rq /\ (stops \/ turns) THEN spoiled \cup {under} ELSE spoiled
    BY DEF Driven, Spoils
  <1>3. Requests'
    BY <1>1 DEF DecTapeInv, Requests
  <1>4. DecTapeTypeOK'
    <2>1. motion' \in BOOLEAN /\ reverse' \in BOOLEAN
      BY <1>1 DEF Moves, Turns, DecTapeInv, DecTapeTypeOK
    <2>2. fe_wr_rq' \in BOOLEAN /\ fe_rd_rq' \in BOOLEAN /\ steady' \in BOOLEAN
      BY <1>1
    <2>3. spoiled' \subseteq 0 .. (Lines - 1)
      BY <1>2 DEF DecTapeInv, DecTapeTypeOK, Places
    <2>4. sw' \in Switches /\ go' \in {"stop", "fwd", "rev"} /\ tups' \in {"none", "one pulse", "up"}
      BY <1>1 DEF DecTapeInv, DecTapeTypeOK
    <2> QED
      BY <1>1, <2>1, <2>2, <2>3, <2>4 DEF DecTapeInv, DecTapeTypeOK
  <1>5. Served'
    <2>1. CASE s # sw
      BY <1>1, <2>1 DEF DecTapeInv, Served, NoRequest
    <2>2. CASE s = sw
      <3>1. fe_wr_rq /\ stops => tups' = "none"
        BY <1>1, <2>2 DEF DecTapeInv, Requests, Moves
      <3>2. fe_rd_rq /\ stops => tups' = "none" /\ under \in spoiled'
        BY <1>1, <1>2, <2>2 DEF DecTapeInv, Requests, Moves
      <3>3. Slow => Slow'
        BY <1>1, <3>1 DEF Slow
      <3>4. "wr" \in svc => (fe_wr_rq' /\ (t_wren' => "move" \notin svc)) \/ Slow'
        <4>1. CASE fe_wr_rq /\ stops
          BY <1>1, <3>1, <4>1 DEF Slow
        <4>2. CASE fe_wr_rq /\ ~stops
          BY <1>1, <4>2
        <4>3. CASE ~fe_wr_rq
          BY <3>3, <4>3 DEF DecTapeInv, Served
        <4> QED
          BY <4>1, <4>2, <4>3
      <3>5. "rd" \in svc => fe_rd_rq' \/ (Slow' /\ under \in spoiled' /\ ~steady')
        <4>1. CASE fe_rd_rq /\ stops
          BY <1>1, <3>2, <4>1 DEF Slow
        <4>2. CASE fe_rd_rq /\ ~stops
          BY <1>1, <4>2
        <4>3. CASE ~fe_rd_rq
          BY <1>1, <1>2, <3>3, <4>3 DEF DecTapeInv, Served
        <4> QED
          BY <4>1, <4>2, <4>3
      <3>6. "wr" \in svc => (steady' => fe_wr_rq')
        BY <1>1 DEF DecTapeInv, Served
      <3>7. "rd" \in svc => (steady' => ("rev" \in svc <=> reverse'))
        BY <1>1 DEF DecTapeInv, Served
      <3> QED
        BY <1>1, <3>4, <3>5, <3>6, <3>7 DEF DecTapeInv, Served
    <2> QED
      BY <2>1, <2>2
  <1>6. AtHead'
    <2>1. ~AboutToWrite'
      BY DEF AboutToWrite
    <2>2. steady' => steady /\ ~t_wren /\ reverse' = reverse /\ (fe_rd_rq' <=> fe_rd_rq)
      BY <1>1
    <2>3. fe_rd_rq' => fe_rd_rq
      BY <1>1
    <2>4. reverse' = reverse => Beyond(under)' = Beyond(under)
      BY <1>1 DEF Beyond
    <2> QED
      BY <1>1, <2>1, <2>2, <2>3, <2>4 DEF DecTapeInv, AtHead, AboutToWrite
  <1>7. OnTape'
    <2>1. ~AboutToWrite'
      BY DEF AboutToWrite
    <2>2. ASSUME mounted, NEW i \in Places \ spoiled'
          PROVE  IF fe_rd_rq' /\ i = under THEN laid[i] = Sense(fe_readdata)' ELSE laid[i] = tape[i]
      <3>1. i \in Places \ spoiled
        BY <1>2
      <3>2. fe_rd_rq /\ i = under => ~stops /\ ~turns
        BY <1>2
      <3>3. IF fe_rd_rq /\ i = under THEN laid[i] = Sense(fe_readdata) ELSE laid[i] = tape[i]
        BY <2>2, <3>1 DEF DecTapeInv, OnTape
      <3> QED
        BY <1>1, <3>2, <3>3 DEF Sense
    <2>3. ASSUME ~mounted, NEW i \in Places \ spoiled'
          PROVE  laid[i] = reel[i]
      BY <1>2, <2>3 DEF DecTapeInv, OnTape
    <2> QED
      BY <1>1, <2>1, <2>2, <2>3 DEF OnTape
  <1> QED
    BY <1>1, <1>3, <1>4, <1>5, <1>6, <1>7 DEF DecTapeInv

(* A command of the processor keeps it.                                    *)
LEMMA CommandKeeps ==
  ASSUME DecTapeInv, Cono
  PROVE  DecTapeInv'
  <1>1. PICK g \in {"stop", "fwd", "rev"} : Driven(sw, g) /\ t_wren' = FALSE
    BY DEF Cono
  <1>2. sw \in Switches
    BY DEF DecTapeInv, DecTapeTypeOK
  <1> QED
    BY <1>1, <1>2, DrivenKeeps

(* So does a switch.                                                       *)
LEMMA SwitchKeeps ==
  ASSUME DecTapeInv, Switch, svc = NoRequest
  PROVE  DecTapeInv'
  <1>1. PICK s \in Switches \ {sw} : Driven(s, go) /\ UNCHANGED t_wren
    BY DEF Switch
  <1>2. ~Writing /\ t_wren = FALSE
    BY DEF Switch, Writing, DecTapeInv, DecTapeTypeOK
  <1>3. go \in {"stop", "fwd", "rev"}
    BY DEF DecTapeInv, DecTapeTypeOK
  <1> QED
    BY <1>1, <1>2, <1>3, DrivenKeeps

-----------------------------------------------------------------------------
(* The clock.                                                              *)

(* The edges of the clock of the tape, none of them during a request.      *)
LEMMA Ticks ==
  ASSUME DecTapeInv, Clock120kc
  PROVE  /\ motion /\ ~fe_wr_rq /\ ~fe_rd_rq
         /\ UNCHANGED <<sw, go, motion, reverse, svc, reel, tape, cur, mounted, under, steady, spoiled>>
         /\ d_rising => tck = 0 /\ tck' = 1
         /\ t_rising => tck = 1 /\ tck' = 2
         /\ d_falling => tck = 2 /\ tck' = 3
         /\ t_falling => tck = 3 /\ tck' = 0
  <1>1. tck' = (tck + 1) % 4
    BY DEF Clock120kc
  <1>2. (0 + 1) % 4 = 1 /\ (1 + 1) % 4 = 2 /\ (2 + 1) % 4 = 3 /\ (3 + 1) % 4 = 0
    BY SMTT(20)
  <1>3. /\ motion /\ ~fe_wr_rq /\ ~fe_rd_rq
        /\ UNCHANGED <<sw, go, motion, reverse, svc, reel, tape, cur, mounted, under, steady, spoiled>>
    BY DEF Clock120kc, Waits, reelVars
  <1> QED
    BY <1>1, <1>2, <1>3 DEF d_rising, t_rising, d_falling, t_falling

(* The line at the head is asked for, and will be passed unless it is to   *)
(* be written first.                                                       *)
LEMMA DRisingKeeps ==
  ASSUME DecTapeInv, Clock120kc, d_rising
  PROVE  DecTapeInv'
  <1>1. /\ tck = 0 /\ tck' = 1 /\ motion /\ ~fe_wr_rq /\ ~fe_rd_rq
        /\ UNCHANGED <<sw, go, motion, reverse, svc, reel, tape, cur, mounted, under, steady, spoiled>>
    BY Ticks
  <1>2. /\ fe_wr_rq' = TRUE /\ fe_move' = ~con_wr
        /\ UNCHANGED <<t_wren, tups, fe_rd_rq, fe_readdata, linebuf, laid>>
    BY DEF d_rising
  <1>3. DecTapeTypeOK'
    <2>1. fe_move' \in BOOLEAN /\ fe_wr_rq' \in BOOLEAN
      BY <1>2
    <2>2. tck' \in 0 .. 3
      BY <1>1
    <2> QED
      BY <1>1, <1>2, <2>1, <2>2 DEF DecTapeInv, DecTapeTypeOK
  <1>4. Requests'
    BY <1>1, <1>2 DEF DecTapeInv, Requests, con_wr, Moves
  <1>5. Served'
    <2>1. Slow => Slow'
      BY <1>1, <1>2 DEF Slow
    <2>2. "wr" \in svc => Slow
      BY <1>1 DEF DecTapeInv, Served
    <2>3. "rd" \in svc => Slow /\ under \in spoiled /\ ~steady
      BY <1>1 DEF DecTapeInv, Served
    <2> QED
      BY <1>1, <1>2, <2>1, <2>2, <2>3 DEF DecTapeInv, Served
  <1>6. ~AboutToWrite /\ ~AboutToWrite'
    BY <1>1, <1>2 DEF AboutToWrite
  <1>7. AtHead'
    BY <1>1, <1>2, <1>6 DEF DecTapeInv, AtHead, Beyond
  <1>8. OnTape'
    BY <1>1, <1>2, <1>6 DEF DecTapeInv, OnTape
  <1> QED
    BY <1>1, <1>3, <1>4, <1>5, <1>7, <1>8 DEF DecTapeInv

(* The line given last is to be written, with what is on its mark track.   *)
LEMMA TRisingKeeps ==
  ASSUME DecTapeInv, Clock120kc, t_rising
  PROVE  DecTapeInv'
  <1>1. /\ tck = 1 /\ tck' = 2 /\ motion /\ ~fe_wr_rq /\ ~fe_rd_rq
        /\ UNCHANGED <<sw, go, motion, reverse, svc, reel, tape, cur, mounted, under, steady, spoiled>>
    BY Ticks
  <1>2. /\ tups' \in {"none", "one pulse", "up"}
        /\ tups = "none" => tups' \in {"none", "one pulse"}
        /\ UNCHANGED <<t_wren, fe_wr_rq, linebuf>>
    <2>1. \/ UNCHANGED tups
          \/ tups' \in {"one pulse"} \cup (IF tups = "none" THEN {} ELSE {"up"})
      BY DEF t_rising
    <2>2. UNCHANGED <<t_wren, fe_wr_rq, linebuf>>
      BY DEF t_rising
    <2>3. tups \in {"none", "one pulse", "up"}
      BY DEF DecTapeInv, DecTapeTypeOK
    <2> QED
      BY <2>1, <2>2, <2>3
  <1>3. AboutToWrite <=> con_wr
    BY <1>1 DEF AboutToWrite, con_wr, DecTapeInv, Requests
  <1>4. "wr" \in svc \/ "rd" \in svc => Slow
    BY <1>1 DEF DecTapeInv, Served
  <1>5. Slow => Slow' /\ ~con_wr
    <2>1. tck' # 1
      BY <1>1
    <2>2. ~fe_wr_rq' /\ (t_wren' <=> t_wren)
      BY <1>1, <1>2
    <2> QED
      BY <1>1, <1>2, <2>1, <2>2 DEF Slow, con_wr
  <1>6. ~AboutToWrite' /\ Beyond(under)' = Beyond(under)
    BY <1>1 DEF AboutToWrite, Beyond
  <1>7. CASE ~con_wr
    <2>1. UNCHANGED <<fe_rd_rq, fe_move, fe_readdata, laid>>
      BY <1>7 DEF t_rising
    <2>2. DecTapeTypeOK'
      <3>1. tck' \in 0 .. 3
        BY <1>1
      <3> QED
        BY <1>1, <1>2, <2>1, <3>1 DEF DecTapeInv, DecTapeTypeOK
    <2>3. Requests'
      BY <1>1, <1>2, <2>1 DEF DecTapeInv, Requests, Moves
    <2>4. Served'
      BY <1>1, <1>2, <1>5, <2>1 DEF DecTapeInv, Served
    <2>5. AtHead'
      BY <1>1, <1>3, <1>6, <1>7, <2>1 DEF DecTapeInv, AtHead
    <2>6. OnTape'
      BY <1>1, <1>6, <2>1 DEF DecTapeInv, OnTape
    <2> QED
      BY <1>1, <2>2, <2>3, <2>4, <2>5, <2>6 DEF DecTapeInv
  <1>8. CASE con_wr
    <2>1. /\ fe_rd_rq' = TRUE /\ fe_move' = TRUE
          /\ fe_readdata' = [linebuf EXCEPT !.data = 1 - linebuf.data]
          /\ laid' = IF mounted THEN [laid EXCEPT ![under].data = Sense(fe_readdata').data] ELSE laid
      BY <1>8 DEF t_rising
    <2>2. svc = NoRequest
      BY <1>4, <1>5, <1>8 DEF DecTapeInv, Served
    <2>3. /\ tape # NoTape /\ cur = under /\ linebuf = Sense(tape[under])
          /\ tape[under] \in Line /\ linebuf \in Line
      BY <1>3, <1>8 DEF DecTapeInv, OnTape, AtHead, DecTapeTypeOK, Tapes, Places
    <2> DEFINE written == Sense(fe_readdata')
    <2>4. fe_readdata' = [mark |-> linebuf.mark, data |-> 1 - linebuf.data] /\ fe_readdata' \in Line
      <3>1. 1 - linebuf.data \in {0, 1} /\ linebuf = [mark |-> linebuf.mark, data |-> linebuf.data]
            /\ linebuf.mark \in {0, 1}
        BY <2>3, Fields
      <3>2. fe_readdata' = [mark |-> linebuf.mark, data |-> 1 - linebuf.data]
        BY <2>1, <3>1
      <3> QED
        BY <3>1, <3>2, Fields
    <2>5. written \in Line /\ written.mark = tape[under].mark
      <3>1. written \in Line
        BY <2>4, SenseTwice
      <3>2. written.mark = Sense(linebuf).mark
        BY <2>3, <2>4 DEF Sense, Complement
      <3>3. Sense(linebuf) = tape[under]
        BY <2>3, SenseTwice
      <3> QED
        BY <3>1, <3>2, <3>3
    <2>6. written = Sense(fe_readdata)'
      BY <1>1 DEF Sense
    <2>7. laid \in Tapes /\ under \in Places
      BY DEF DecTapeInv, DecTapeTypeOK
    <2> HIDE DEF written
    <2>8. /\ laid' \in Tapes
          /\ mounted => laid'[under].mark = laid[under].mark /\ laid'[under].data = written.data
          /\ \A i \in Places \ {under} : laid'[i] = laid[i]
          /\ ~mounted => laid' = laid
      <3>1. CASE ~mounted
        BY <2>1, <2>7, <3>1
      <3>2. CASE mounted
        <4> DEFINE d == written.data
                   l == [laid[under] EXCEPT !.data = d]
        <4>1. laid' = [laid EXCEPT ![under].data = d]
          BY <2>1, <3>2 DEF written
        <4>2. d \in {0, 1} /\ laid[under] \in Line
          BY <2>5, <2>7, Fields DEF Tapes, Places
        <4> HIDE DEF d
        <4>3. l.mark = laid[under].mark /\ l.data = d /\ l \in Line
          BY <4>2 DEF Line
        <4>4. laid' = [laid EXCEPT ![under] = l]
          BY <4>1
        <4> HIDE DEF l
        <4>5. laid' \in Tapes /\ laid'[under] = l /\ \A i \in Places \ {under} : laid'[i] = laid[i]
          BY <2>7, <4>3, <4>4 DEF Tapes, Places
        <4> QED
          BY <3>2, <4>3, <4>5 DEF d
      <3> QED
        BY <3>1, <3>2
    <2>9. DecTapeTypeOK'
      <3>1. tck' \in 0 .. 3
        BY <1>1
      <3>2. fe_rd_rq' \in BOOLEAN /\ fe_move' \in BOOLEAN
        BY <2>1
      <3> QED
        BY <1>1, <1>2, <2>4, <2>8, <3>1, <3>2 DEF DecTapeInv, DecTapeTypeOK
    <2>10. Requests'
      BY <1>1, <1>2, <2>1 DEF DecTapeInv, Requests, Moves
    <2>11. Served'
      BY <1>1, <2>2 DEF Served, NoRequest
    <2>12. AtHead'
      BY <1>1, <1>6, <2>1, <2>3 DEF AtHead
    <2>13. OnTape'
      <3>1. ASSUME mounted, NEW i \in Places \ spoiled
            PROVE  IF i = under THEN laid'[i] = written ELSE laid'[i] = tape[i]
        <4>1. laid[i] = tape[i]
          BY <1>1, <3>1 DEF DecTapeInv, OnTape
        <4>2. CASE i = under
          <5>1. laid'[under] \in Line
            BY <2>7, <2>8 DEF Tapes, Places
          <5>2. laid'[under].mark = written.mark /\ laid'[under].data = written.data
            BY <2>5, <2>8, <3>1, <4>1, <4>2
          <5> QED
            BY <2>5, <4>2, <5>1, <5>2, Fields
        <4> QED
          BY <2>8, <4>1, <4>2
      <3>2. ASSUME ~mounted, NEW i \in Places \ spoiled
            PROVE  laid'[i] = reel[i]
        BY <2>8, <3>2 DEF DecTapeInv, OnTape
      <3> QED
        BY <1>1, <1>6, <2>1, <2>6, <3>1, <3>2 DEF OnTape
    <2> QED
      BY <1>1, <2>9, <2>10, <2>11, <2>12, <2>13 DEF DecTapeInv
  <1> QED
    BY <1>7, <1>8

(* In between the control may begin or end writing, if the tape is up to   *)
(* speed.                                                                  *)
LEMMA FallingKeeps ==
  ASSUME DecTapeInv, Clock120kc, d_falling \/ t_falling
  PROVE  DecTapeInv'
  <1>1. /\ tck \in {2, 3} /\ tck' \in {0, 3} /\ motion /\ ~fe_wr_rq /\ ~fe_rd_rq
        /\ UNCHANGED <<sw, go, motion, reverse, svc, reel, tape, cur, mounted, under, steady, spoiled>>
    BY Ticks
  <1>2. /\ UNCHANGED <<tups, fe_wr_rq, fe_rd_rq, fe_move, fe_readdata, laid>>
        /\ linebuf' \in Line
        /\ t_wren' \in BOOLEAN /\ (t_wren' => sw = "remote")
        /\ Slow => ~t_wren'
    <2>1. linebuf \in Line /\ t_wren \in BOOLEAN
      BY DEF DecTapeInv, DecTapeTypeOK
    <2>2. t_wren => sw = "remote"
      BY DEF DecTapeInv, Requests
    <2>3. CASE d_falling
      BY <2>1, <2>2, <2>3, SenseTwice DEF d_falling, Slow
    <2>4. CASE t_falling
      <3>1. \/ sw = "remote" /\ tups = "up" /\ t_wren'
            \/ ~t_wren'
            \/ (sw # "remote" \/ tups # "up") /\ UNCHANGED t_wren
        BY <2>4 DEF t_falling
      <3>2. UNCHANGED <<tups, fe_wr_rq, fe_rd_rq, fe_move, fe_readdata, linebuf, laid>>
        BY <2>4 DEF t_falling
      <3>3. t_wren' \in BOOLEAN
        BY <2>1, <2>4 DEF t_falling
      <3>4. Slow => ~t_wren'
        BY <3>1 DEF Slow
      <3> QED
        BY <2>1, <2>2, <3>1, <3>2, <3>3, <3>4
    <2> QED
      BY <2>3, <2>4
  <1>3. DecTapeTypeOK'
    <2>1. tck' \in 0 .. 3
      BY <1>1
    <2> QED
      BY <1>1, <1>2, <2>1 DEF DecTapeInv, DecTapeTypeOK
  <1>4. Requests'
    BY <1>1, <1>2 DEF DecTapeInv, Requests, Moves
  <1>5. Served'
    <2>1. Slow => Slow'
      <3>1. tck' # 1
        BY <1>1
      <3> QED
        BY <1>1, <1>2, <3>1 DEF Slow
    <2>2. "wr" \in svc => Slow
      BY <1>1 DEF DecTapeInv, Served
    <2> QED
      BY <1>1, <1>2, <2>1, <2>2 DEF DecTapeInv, Served
  <1>6. ~AboutToWrite /\ ~AboutToWrite' /\ Beyond(under)' = Beyond(under)
    BY <1>1 DEF AboutToWrite, Beyond
  <1>7. AtHead'
    BY <1>1, <1>2, <1>6 DEF DecTapeInv, AtHead
  <1>8. OnTape'
    BY <1>1, <1>2, <1>6 DEF DecTapeInv, OnTape
  <1> QED
    BY <1>1, <1>3, <1>4, <1>5, <1>7, <1>8 DEF DecTapeInv

(* A tick of the clock keeps it.                                           *)
LEMMA ClockKeeps ==
  ASSUME DecTapeInv, Clock120kc
  PROVE  DecTapeInv'
  BY DRisingKeeps, TRisingKeeps, FallingKeeps DEF Clock120kc

-----------------------------------------------------------------------------
(* The front end.                                                          *)

(* The front end takes up a request.                                       *)
LEMMA PollKeeps ==
  ASSUME DecTapeInv, Poll
  PROVE  DecTapeInv'
  <1>1. /\ svc = NoRequest /\ (fe_wr_rq \/ fe_rd_rq) /\ svc' = fe_rq
        /\ UNCHANGED <<sw, go, t_wren, tups, motion, reverse, tck, linebuf,
                       fe_wr_rq, fe_rd_rq, fe_move, fe_readdata,
                       reel, tape, cur, mounted, laid, under, steady, spoiled>>
    BY DEF Poll, driveVars, passVars
  <1>2. /\ fe_rq \subseteq {"wr", "rd", "rev", "move"}
        /\ "wr" \in fe_rq <=> fe_wr_rq
        /\ "rd" \in fe_rq <=> fe_rd_rq
        /\ "rev" \in fe_rq <=> reverse
        /\ "move" \in fe_rq <=> fe_move
    BY DEF fe_rq
  <1>3. ~(fe_wr_rq /\ fe_rd_rq)
    BY DEF DecTapeInv, Requests
  <1>4. DecTapeTypeOK' /\ Requests'
    BY <1>1, <1>2 DEF DecTapeInv, DecTapeTypeOK, Requests, Moves
  <1>5. Served'
    BY <1>1, <1>2, <1>3 DEF DecTapeInv, Served, Requests, AtHead
  <1>6. AtHead' /\ OnTape'
    BY <1>1 DEF DecTapeInv, AtHead, OnTape, AboutToWrite, Beyond, Sense
  <1> QED
    BY <1>1, <1>4, <1>5, <1>6 DEF DecTapeInv

(* Where svc_dt() leaves the head, and what it leaves alone.               *)
LEMMA ServiceMoves ==
  ASSUME DecTapeInv, svc_dt
  PROVE  /\ tape \in Tapes /\ cur \in Places /\ svc' = NoRequest /\ svc # NoRequest
         /\ "move" \notin svc => cur' = cur
         /\ "move" \in svc /\ ("rev" \in svc <=> reverse) => cur' = Beyond(cur)
         /\ cur' \in Places /\ DOMAIN tape' = Places
         /\ UNCHANGED <<sw, go, t_wren, tups, motion, reverse, tck, fe_move, fe_readdata,
                        reel, mounted, laid, spoiled>>
  <1>1. tape \in Tapes /\ cur \in Places /\ svc' = NoRequest /\ svc # NoRequest
    BY DEF svc_dt, DecTapeInv, DecTapeTypeOK, Tapes, Places
  <1>2. /\ "move" \notin svc => cur' = cur
        /\ "move" \in svc /\ "rev" \in svc => cur' = Backward
        /\ "move" \in svc /\ "rev" \notin svc => cur' = Forward
    BY DEF svc_dt
  <1>3. Backward \in Places /\ Forward \in Places
    BY <1>1, DecTapeAssumption DEF Backward, Forward, Places
  <1>4. Beyond(cur) = IF reverse THEN Backward ELSE Forward
    BY DEF Beyond, Backward, Forward
  <1>5. DOMAIN tape' = Places
    BY <1>1 DEF svc_dt, Tapes, Places
  <1>6. UNCHANGED <<sw, go, t_wren, tups, motion, reverse, tck, fe_move, fe_readdata,
                    reel, mounted, laid, spoiled>>
    BY DEF svc_dt
  <1>7. cur' \in Places
    BY <1>1, <1>2, <1>3
  <1>8. "move" \in svc /\ ("rev" \in svc <=> reverse) => cur' = Beyond(cur)
    BY <1>2, <1>4
  <1> QED
    BY <1>1, <1>2, <1>5, <1>6, <1>7, <1>8

(* A line is given.                                                        *)
LEMMA GivingKeeps ==
  ASSUME DecTapeInv, svc_dt, Given
  PROVE  DecTapeInv'
  <1>1. /\ "wr" \in svc /\ fe_wr_rq /\ ~fe_rd_rq /\ tck = 1
        /\ t_wren => "move" \notin svc
    BY DEF Given, Reads, DecTapeInv, Served, Requests, Slow
  <1>2. /\ tape \in Tapes /\ cur \in Places /\ svc' = NoRequest
        /\ "move" \notin svc => cur' = cur
        /\ "move" \in svc /\ ("rev" \in svc <=> reverse) => cur' = Beyond(cur)
        /\ cur' \in Places /\ DOMAIN tape' = Places
        /\ UNCHANGED <<sw, go, t_wren, tups, motion, reverse, tck, fe_move, fe_readdata,
                       reel, mounted, laid, spoiled>>
    BY ServiceMoves
  <1>3. /\ ~fe_wr_rq' /\ ~fe_rd_rq' /\ fe_wr_rq' \in BOOLEAN /\ fe_rd_rq' \in BOOLEAN
        /\ linebuf' = Sense(tape[cur]) /\ tape' = tape /\ under' = cur /\ steady' = Follows
    BY <1>1 DEF svc_dt, Reads, Writes
  <1>4. DecTapeTypeOK'
    <2>1. linebuf' \in Line
      BY <1>2, <1>3, SenseTwice DEF Tapes, Places
    <2>2. steady' \in BOOLEAN
      BY <1>3 DEF Follows
    <2>3. svc' \subseteq {"wr", "rd", "rev", "move"} /\ tape' \in Tapes /\ cur' \in DOMAIN tape'
      BY <1>2, <1>3 DEF NoRequest
    <2> QED
      BY <1>2, <1>3, <2>1, <2>2, <2>3 DEF DecTapeInv, DecTapeTypeOK
  <1>5. Requests'
    BY <1>2, <1>3 DEF DecTapeInv, Requests, Moves
  <1>6. Served'
    BY <1>2 DEF Served, NoRequest
  <1>7. AtHead'
    <2>1. AboutToWrite' => cur' = under'
      BY <1>1, <1>2, <1>3 DEF AboutToWrite
    <2>2. ~AboutToWrite' => ~t_wren
      BY <1>1, <1>2, <1>3 DEF AboutToWrite
    <2>3. steady' /\ ~t_wren => "move" \in svc /\ ("rev" \in svc <=> reverse)
      BY <1>3 DEF Follows, con_wr
    <2>4. Beyond(under)' = Beyond(cur)
      BY <1>2, <1>3 DEF Beyond
    <2> QED
      BY <1>2, <1>3, <2>1, <2>2, <2>3, <2>4 DEF AtHead
  <1>8. OnTape'
    <2>1. AboutToWrite' => tape' # NoTape /\ linebuf' = Sense(tape[under])'
      BY <1>2, <1>3 DEF svc_dt, Sense
    <2>2. mounted => \A i \in Places \ spoiled : laid[i] = tape[i]
      BY <1>1 DEF DecTapeInv, OnTape
    <2>3. ~mounted => \A i \in Places \ spoiled : laid[i] = reel[i]
      BY DEF DecTapeInv, OnTape
    <2> QED
      BY <1>2, <1>3, <2>1, <2>2, <2>3 DEF OnTape
  <1>9. reel' \in Tapes /\ under' \in Places /\ (tape' = NoTape => cur' = 0)
    BY <1>2, <1>3 DEF DecTapeInv, svc_dt
  <1> QED
    BY <1>4, <1>5, <1>6, <1>7, <1>8, <1>9 DEF DecTapeInv

(* A line was asked for by a drive that has stopped since.                 *)
LEMMA LateKeeps ==
  ASSUME DecTapeInv, svc_dt, Reads, ~fe_wr_rq
  PROVE  DecTapeInv'
  <1>1. ~fe_rd_rq /\ ~t_wren /\ ~steady
    BY DEF Reads, DecTapeInv, Served, Slow
  <1>2. /\ tape \in Tapes /\ cur \in Places /\ svc' = NoRequest
        /\ cur' \in Places /\ DOMAIN tape' = Places
        /\ UNCHANGED <<sw, go, t_wren, tups, motion, reverse, tck, fe_move, fe_readdata,
                       reel, mounted, laid, spoiled>>
    BY ServiceMoves
  <1>3. /\ ~fe_wr_rq' /\ ~fe_rd_rq' /\ fe_wr_rq' \in BOOLEAN /\ fe_rd_rq' \in BOOLEAN
        /\ linebuf' = linebuf /\ tape' = tape /\ under' = under /\ steady' = steady
    BY <1>1 DEF svc_dt, Reads, Writes, Given
  <1>4. DecTapeTypeOK'
    <2>1. svc' \subseteq {"wr", "rd", "rev", "move"} /\ tape' \in Tapes /\ cur' \in DOMAIN tape'
      BY <1>2, <1>3 DEF NoRequest
    <2> QED
      BY <1>2, <1>3, <2>1 DEF DecTapeInv, DecTapeTypeOK
  <1>5. Requests'
    BY <1>2, <1>3 DEF DecTapeInv, Requests, Moves
  <1>6. Served'
    BY <1>2 DEF Served, NoRequest
  <1>7. ~AboutToWrite' /\ ~steady' /\ AtHead'
    BY <1>1, <1>2, <1>3 DEF AtHead, AboutToWrite
  <1>8. OnTape'
    <2>1. mounted => \A i \in Places \ spoiled : laid[i] = tape[i]
      BY <1>1 DEF DecTapeInv, OnTape
    <2> QED
      BY <1>2, <1>3, <1>7, <2>1 DEF DecTapeInv, OnTape
  <1>9. reel' \in Tapes /\ under' \in Places /\ (tape' = NoTape => cur' = 0)
    BY <1>2, <1>3 DEF DecTapeInv, svc_dt
  <1> QED
    BY <1>4, <1>5, <1>6, <1>7, <1>8, <1>9 DEF DecTapeInv

(* A line is written: the one the drive means, or one that is spoiled.     *)
LEMMA WritingKeeps ==
  ASSUME DecTapeInv, svc_dt, ~Reads
  PROVE  DecTapeInv'
  <1>1. /\ "rd" \in svc /\ "wr" \notin svc /\ cur = under /\ "move" \in svc
        /\ (fe_rd_rq /\ tck = 2) \/ (~t_wren /\ ~steady /\ under \in spoiled)
        /\ steady => ("rev" \in svc <=> reverse)
    BY DEF svc_dt, Reads, DecTapeInv, Served, Requests, Slow
  <1>2. /\ tape \in Tapes /\ cur \in Places /\ svc' = NoRequest
        /\ "move" \in svc /\ ("rev" \in svc <=> reverse) => cur' = Beyond(cur)
        /\ cur' \in Places /\ DOMAIN tape' = Places
        /\ UNCHANGED <<sw, go, t_wren, tups, motion, reverse, tck, fe_move, fe_readdata,
                       reel, mounted, laid, spoiled>>
    BY ServiceMoves
  <1>3. /\ (fe_wr_rq' <=> fe_wr_rq) /\ ~fe_rd_rq'
        /\ fe_wr_rq' \in BOOLEAN /\ fe_rd_rq' \in BOOLEAN
        /\ linebuf' = linebuf /\ under' = under /\ steady' = steady
        /\ tape' = [tape EXCEPT ![cur] = Sense(fe_readdata)]
    BY <1>1 DEF svc_dt, Reads, Writes, Given
  <1>4. /\ tape' \in Tapes /\ tape'[under] = Sense(fe_readdata)
        /\ \A i \in Places \ {under} : tape'[i] = tape[i]
    <2>1. Sense(fe_readdata) \in Line
      BY SenseTwice DEF DecTapeInv, DecTapeTypeOK
    <2> QED
      BY <1>1, <1>2, <1>3, <2>1 DEF Tapes, Places
  <1>5. DecTapeTypeOK'
    <2>1. svc' \subseteq {"wr", "rd", "rev", "move"} /\ cur' \in DOMAIN tape'
      BY <1>2 DEF NoRequest
    <2>2. tape' # NoTape
      <3>1. 0 \in DOMAIN tape'
        BY <1>2, DecTapeAssumption DEF Places
      <3>2. 0 \notin DOMAIN NoTape
        BY DEF NoTape
      <3> QED
        BY <3>1, <3>2
    <2> QED
      BY <1>2, <1>3, <1>4, <2>1, <2>2 DEF DecTapeInv, DecTapeTypeOK
  <1>6. Requests'
    BY <1>2, <1>3 DEF DecTapeInv, Requests, Moves
  <1>7. Served'
    BY <1>2 DEF Served, NoRequest
  <1>8. ~AboutToWrite'
    <2>1. tck = 2 => tck # 1
      OBVIOUS
    <2> QED
      BY <1>1, <1>2, <2>1 DEF AboutToWrite
  <1>9. AtHead'
    <2>1. Beyond(under)' = Beyond(cur)
      BY <1>1, <1>2, <1>3 DEF Beyond
    <2> QED
      BY <1>1, <1>2, <1>3, <1>8, <2>1 DEF AtHead
  <1>10. OnTape'
    <2>1. ASSUME mounted, NEW i \in Places \ spoiled
          PROVE  laid[i] = tape'[i]
      <3>1. IF fe_rd_rq /\ i = under THEN laid[i] = Sense(fe_readdata) ELSE laid[i] = tape[i]
        BY <2>1 DEF DecTapeInv, OnTape
      <3>2. CASE i = under
        BY <1>1, <1>4, <3>1, <3>2
      <3>3. CASE i # under
        BY <1>4, <3>1, <3>3
      <3> QED
        BY <3>2, <3>3
    <2>2. ~mounted => \A i \in Places \ spoiled : laid[i] = reel[i]
      BY DEF DecTapeInv, OnTape
    <2> QED
      BY <1>2, <1>3, <1>8, <2>1, <2>2 DEF OnTape
  <1>11. reel' \in Tapes /\ under' \in Places /\ (tape' = NoTape => cur' = 0)
    <2>1. 0 \in DOMAIN tape' /\ 0 \notin DOMAIN NoTape
      BY <1>2, DecTapeAssumption DEF Places, NoTape
    <2> QED
      BY <1>2, <1>3, <2>1 DEF DecTapeInv
  <1> QED
    BY <1>5, <1>6, <1>7, <1>9, <1>10, <1>11 DEF DecTapeInv

(* It serves the request.                                                  *)
LEMMA ServiceKeeps ==
  ASSUME DecTapeInv, svc_dt
  PROVE  DecTapeInv'
  BY GivingKeeps, LateKeeps, WritingKeeps DEF Given

(* A tape is put on or taken off between two services, with nothing being  *)
(* written.                                                                *)
LEMMA ReelKeeps ==
  ASSUME DecTapeInv, mount \/ unmount, svc = NoRequest
  PROVE  DecTapeInv'
  <1>1. /\ ~t_wren /\ ~fe_rd_rq /\ reel' = IF mounted THEN tape ELSE reel
        /\ ~steady' /\ steady' \in BOOLEAN
        /\ UNCHANGED <<sw, go, t_wren, tups, motion, reverse, tck, linebuf,
                       fe_wr_rq, fe_rd_rq, fe_move, fe_readdata, svc, laid, under, spoiled>>
    BY DEF mount, unmount, unmnt_dt, Writing, driveVars
  <1>2. \/ tape' = reel' /\ cur' = 0 /\ mounted' /\ mounted' \in BOOLEAN
        \/ UNCHANGED <<tape, cur>> /\ ~mounted' /\ mounted' \in BOOLEAN
    BY DEF mount, unmount
  <1>3. reel' \in Tapes /\ \A i \in Places \ spoiled : laid[i] = reel'[i]
    <2>1. mounted => tape \in Tapes /\ \A i \in Places \ spoiled : laid[i] = tape[i]
      BY <1>1 DEF DecTapeInv, DecTapeTypeOK, OnTape
    <2>2. ~mounted => reel \in Tapes /\ \A i \in Places \ spoiled : laid[i] = reel[i]
      BY DEF DecTapeInv, OnTape
    <2> QED
      BY <1>1, <2>1, <2>2
  <1>4. /\ tape' # NoTape => tape' \in Tapes /\ cur' \in DOMAIN tape'
        /\ mounted' => tape' # NoTape
        /\ tape' = NoTape => cur' = 0
    <2>1. 0 \in Places /\ DOMAIN reel' = Places
      BY <1>3, DecTapeAssumption DEF Tapes, Places
    <2>2. reel' # NoTape
      BY <2>1 DEF NoTape
    <2> QED
      BY <1>2, <1>3, <2>1, <2>2 DEF DecTapeInv, DecTapeTypeOK
  <1>5. DecTapeTypeOK'
    BY <1>1, <1>2, <1>4 DEF DecTapeInv, DecTapeTypeOK
  <1>6. Requests' /\ Served'
    BY <1>1 DEF DecTapeInv, Requests, Served, Moves, NoRequest
  <1>7. ~AboutToWrite' /\ AtHead'
    BY <1>1 DEF AtHead, AboutToWrite
  <1>8. OnTape'
    BY <1>1, <1>2, <1>3, <1>7 DEF OnTape
  <1> QED
    BY <1>1, <1>3, <1>4, <1>5, <1>6, <1>7, <1>8 DEF DecTapeInv

(* Nothing else moves the tape.                                            *)
LEMMA DecTapeStays ==
  ASSUME DecTapeInv, UNCHANGED decTapeVars
  PROVE  DecTapeInv'
  <1>1. UNCHANGED <<sw, go, t_wren, tups, motion, reverse, tck, linebuf,
                    fe_wr_rq, fe_rd_rq, fe_move, fe_readdata,
                    svc, reel, tape, cur, mounted, laid, under, steady, spoiled>>
    BY DEF decTapeVars, driveVars, reelVars, passVars
  <1>2. DecTapeTypeOK' /\ Requests'
    BY <1>1 DEF DecTapeInv, DecTapeTypeOK, Requests, Moves
  <1>3. Served'
    BY <1>1 DEF DecTapeInv, Served, Slow
  <1>4. AtHead' /\ OnTape'
    BY <1>1 DEF DecTapeInv, AtHead, OnTape, AboutToWrite, Beyond, Sense
  <1> QED
    BY <1>1, <1>2, <1>3, <1>4 DEF DecTapeInv

(* What a step of the drive, its program, the operator and the front end   *)
(* is, and that it keeps the invariant.                                    *)
DriveNext ==
  \/ Cono \/ Clock120kc \/ Poll \/ svc_dt
  \/ svc = NoRequest /\ (Switch \/ mount \/ unmount)
  \/ UNCHANGED decTapeVars

(* So does every step of a front end that uses the drive.                  *)
LEMMA DecTapeInvariance ==
  ASSUME DecTapeInv, DriveNext
  PROVE  DecTapeInv'
  BY CommandKeeps, SwitchKeeps, ClockKeeps, PollKeeps, ServiceKeeps, ReelKeeps, DecTapeStays
  DEF DriveNext

(* The line given follows the one given last, and is what was laid down.   *)
LEMMA LineFollows ==
  ASSUME DecTapeInv, svc_dt, Given, mounted
  PROVE  /\ steady /\ ~reverse /\ under + 1 < Lines => cur = under + 1
         /\ steady /\ reverse /\ under > 0 => cur = under - 1
         /\ cur \notin spoiled => linebuf' = Sense(laid[cur])
  <1>1. fe_wr_rq /\ ~fe_rd_rq /\ ~AboutToWrite /\ cur \in Places
    BY ServiceMoves DEF Given, Reads, DecTapeInv, Served, AboutToWrite
  <1>2. steady => cur = Beyond(under)
    BY <1>1 DEF DecTapeInv, AtHead
  <1>3. cur \notin spoiled => laid[cur] = tape[cur]
    BY <1>1 DEF DecTapeInv, OnTape
  <1>4. linebuf' = Sense(tape[cur])
    BY DEF svc_dt
  <1>5. cur \notin spoiled => linebuf' = Sense(laid[cur])
    BY <1>3, <1>4 DEF Sense
  <1> QED
    BY <1>2, <1>5 DEF Beyond

-----------------------------------------------------------------------------
(* What the front end does to the drive.                                   *)

(* What the operator types does no more to the drive.                      *)
LEMMA CharacterDrives ==
  ASSUME AnyChar
  PROVE  DriveNext
  <1>1. svc = NoRequest
    BY DEF AnyChar, Waiting
  <1> SUFFICES ASSUME NEW c \in used.keys, runline(c) \/ Zero(c)
               PROVE  DriveNext
    BY DEF AnyChar, DriveNext
  <1>2. CASE Zero(c)
    BY <1>2 DEF Zero, DriveNext
  <1>3. CASE runline(c)
    <2>1. c_mount \/ unmount \/ UNCHANGED decTapeVars
      BY <1>3 DEF runline, c_dump, c_load
    <2> QED
      BY <1>1, <2>1 DEF c_mount, DriveNext
  <1> QED
    BY <1>2, <1>3

(* Nor does any step of the front end.                                     *)
LEMMA StepDrives ==
  ASSUME [Next]_vars
  PROVE  DriveNext
  <1>1. CASE Processor \/ ConsoleStep \/ Refused \/ Reported
    BY <1>1 DEF Processor, ConsoleStep, Refused, Reported, DriveNext
  <1>2. CASE AnyChar
    BY <1>2, CharacterDrives
  <1>3. CASE DriveStep \/ SwitchStep \/ fe_svc
    BY <1>3 DEF DriveStep, SwitchStep, fe_svc, Waiting, DriveNext
  <1>4. CASE ServeTape
    BY <1>4 DEF ServeTape, DriveNext
  <1>5. CASE UNCHANGED vars
    BY <1>5 DEF vars, DriveNext
  <1> QED
    BY <1>1, <1>2, <1>3, <1>4, <1>5 DEF Next

(* Whatever the operator, the program and the drive do, the head is where  *)
(* the drive takes it to be, and the tape holds what was written: DecTape's *)
(* inductive invariant holds throughout a session.                         *)
THEOREM TapeInvariance == Spec => []DecTapeInv
  <1>1. Init => DecTapeInv
    BY InitDecTape DEF Init
  <1>2. DecTapeInv /\ [Next]_vars => DecTapeInv'
    BY StepDrives, DecTapeInvariance
  <1> QED
    BY <1>1, <1>2, PTL DEF Spec

(* svc_dt() and tu56.v: however late the front end answers, the lines of a *)
(* tape that runs one way pass one after the other, each as it was last    *)
(* written.                                                                *)
THEOREM PassesLineByLine == Spec => LineByLine
  <1>1. DecTapeInv /\ [Next]_vars =>
          [svc_dt /\ Given /\ mounted =>
             /\ steady /\ ~reverse /\ under + 1 < Lines => cur = under + 1
             /\ steady /\ reverse /\ under > 0 => cur = under - 1
             /\ cur \notin spoiled => linebuf' = Sense(laid[cur])]_decTapeVars
    BY LineFollows
  <1> QED
    BY <1>1, TapeInvariance, PTL DEF Spec, LineByLine

-----------------------------------------------------------------------------
(* What the front end does to its console.                                 *)

(* A character makes at most one call.                                     *)
LEMMA CharacterCalls ==
  ASSUME NEW c, Character(c)
  PROVE  UNCHANGED machineVars \/ \E k \in Calls : Begin(k)
  <1>1. CASE Expression(c)
    BY <1>1 DEF Expression, Insert, Operator, pushexp, popexp, Separator, OutOfTurn, Kept
  <1>2. CASE Flagged(c)
    BY <1>2 DEF Flagged, num, Altmode, modechange, EnterLine, Kept
  <1>3. CASE Location(c)
    BY <1>3 DEF Location, Open, Deposit, Return, typeout, aopen, Kept
  <1>4. CASE Go(c)
    <2>1. Begin(CASE c = "R" -> "readin"
                  [] c = "G" /\ number = "zero" -> "setpc"
                  [] OTHER -> "start")
      BY <1>4 DEF Go
    <2> QED
      BY <2>1 DEF Calls
  <1>5. CASE Step1(c)
    <2>1. Begin(CASE c = "P" -> "cont"
                  [] c = "X" -> "exec"
                  [] c = "^N" /\ flags = "none" -> "nextinst"
                  [] OTHER -> "nextmem")
      BY <1>5 DEF Step1
    <2> QED
      BY <2>1 DEF Calls
  <1>6. CASE Stop(c)
    <2>1. Begin(CASE c = "I" -> "ioreset"
                  [] c = "^Z" /\ flags = "none" -> "stopinst"
                  [] OTHER -> "stopmem")
      BY <1>6 DEF Stop
    <2> QED
      BY <2>1 DEF Calls
  <1>7. CASE InLine(c) \/ Erase(c) \/ Cancel(c)
    BY <1>7 DEF InLine, Erase, Cancel, Kept
  <1> QED
    BY <1>1, <1>2, <1>3, <1>4, <1>5, <1>6, <1>7 DEF Character, Command

(* So does the operator, and only between calls.                           *)
LEMMA OperatorCalls ==
  ASSUME AnyChar
  PROVE  script = <<>> /\ (UNCHANGED machineVars \/ \E k \in Calls : Begin(k))
  <1>1. script = <<>>
    BY DEF AnyChar, Waiting
  <1>2. PICK c \in used.keys : Character(c) \/ runline(c) \/ Zero(c)
    BY DEF AnyChar
  <1>3. CASE runline(c)
    <2>1. c_load \/ UNCHANGED machineVars
      BY <1>3 DEF runline, c_dump
    <2> QED
      BY <1>1, <2>1 DEF c_load, Calls
  <1>4. CASE Zero(c)
    BY <1>1, <1>4 DEF Zero, Kept
  <1> QED
    BY <1>1, <1>2, <1>3, <1>4, CharacterCalls

(* Every step of the front end keeps what is known of the console.         *)
LEMMA StepCalls ==
  ASSUME ConsoleInv, [Next]_vars
  PROVE  ConsoleInv'
  <1>1. CASE Processor
    BY <1>1, WorksBetween DEF Processor
  <1>2. CASE ConsoleStep
    BY <1>2, CallGoesOn DEF ConsoleStep
  <1>3. CASE Refused
    BY <1>3, CallIsRefused DEF Refused
  <1>4. CASE AnyChar
    <2>1. CASE UNCHANGED machineVars
      BY <2>1, NothingHappens DEF machineVars, consoleVars, ConsoleInv, ConsoleTypeOK
    <2>2. CASE \E k \in Calls : Begin(k)
      BY <1>4, <2>2, OperatorCalls, CallBegins
    <2> QED
      BY <1>4, <2>1, <2>2, OperatorCalls
  <1>5. CASE Reported
    <2>1. started' = FALSE /\ UNCHANGED <<call, script, outrun, runVars>>
      BY <1>5 DEF Reported, Report
    <2> QED
      BY <2>1, NothingHappens
  <1>6. CASE DriveStep \/ SwitchStep \/ fe_svc \/ ServeTape \/ UNCHANGED vars
    <2>1. UNCHANGED machineVars
      BY <1>6 DEF DriveStep, SwitchStep, fe_svc, ServeTape, vars
    <2> QED
      BY <2>1, NothingHappens DEF machineVars, consoleVars, ConsoleInv, ConsoleTypeOK
  <1> QED
    BY <1>1, <1>2, <1>3, <1>4, <1>5, <1>6 DEF Next

(* Throughout a session, unless the processor has outrun the front end     *)
(* since they were last both at rest, no key was taken with an instruction *)
(* in flight, and what is left of the call the console is in is outlined   *)
(* from what is known of the processor: Console's invariant.               *)
THEOREM ConsoleInvariance == Spec => []ConsoleInv
  <1>1. Init => ConsoleInv
    BY InitConsole DEF Init
  <1>2. ConsoleInv /\ [Next]_vars => ConsoleInv'
    BY StepCalls
  <1> QED
    BY <1>1, <1>2, PTL DEF Spec

(* real.c of the PDP-6 and of the KA10, apr.v's key logic: whatever the    *)
(* processor does between two steps of a call, as long as every            *)
(* instruction ends in the millisecond the front end sleeps and none was   *)
(* still ending when it found run off, no key is taken with an instruction *)
(* in flight, the front end gives up waiting only for a processor that has *)
(* halted of itself, and a call returns with the stop keys up and the      *)
(* processor as asked for.  Of what follows a long BLT, or START pressed   *)
(* right behind a HALT, nothing is said until both are at rest again.      *)
THEOREM KeysAreAlwaysObeyed == Spec => []KeysObeyed
  <1>1. ConsoleInv => KeysObeyed
    BY KeysAreObeyed
  <1> QED
    BY <1>1, ConsoleInvariance, PTL

-----------------------------------------------------------------------------
(* What DDT assembles.                                                     *)

Wide == 0..(Host - 1)
Single == 0..(Word - 1)
Exprs ==
  [word : Wide, ac : Wide, i : Wide, address : Wide, f : SUBSET {"FW", "AC", "A", "I"},
   exp : Wide, op : {"none", "+", "-", "*", "|"}, gotexp : BOOLEAN]

(* A word fits the host.                                                   *)
LEMMA WordSizes ==
  /\ Word \in Nat \ {0} /\ Host \in Nat \ {0} /\ Word <= Host /\ Half \in Nat \ {0}
  /\ ADDRMASK + 1 = 4 * Half /\ 4 * Half <= Word /\ 8 * Half < Word /\ 14 < Word
  /\ 0 \in Single /\ 0 \in Wide /\ Single \subseteq Wide /\ Single \subseteq Nat /\ Wide \subseteq Nat
  <1>1. Half \in Nat /\ Half >= 16 /\ Host \in Nat \ {0} /\ Host % (Half * Half) = 0
    BY WordsAssumption
  <1>2. Half * Half \in Nat /\ Half * Half >= 16 * Half
    BY <1>1
  <1>3. PICK w : w = Half * Half
    OBVIOUS
  <1>4. w \in Nat /\ w >= 16 * Half /\ Host % w = 0 /\ w # 0
    BY <1>1, <1>2, <1>3
  <1>5. w <= Host
    BY <1>1, <1>4
  <1>6. Word = w
    BY <1>3 DEF Word
  <1> QED
    BY <1>1, <1>4, <1>5, <1>6 DEF ADDRMASK, Single, Wide

(* Remainders and quotients.                                               *)
LEMMA Remainders ==
  ASSUME NEW n \in Nat \ {0}, NEW x \in Nat
  PROVE  x % n \in 0..(n - 1) /\ x \div n \in 0..x
  OBVIOUS

(* What is cut to a word, to the width of the host, to an address, to a    *)
(* half.                                                                   *)
LEMMA Cuts ==
  ASSUME NEW x \in Nat
  PROVE  /\ x % Word \in Single /\ x % Host \in Wide /\ Address(x) \in 0..ADDRMASK
         /\ LT(x) \in Nat /\ RT(x) \in Nat
  <1>1. x % Word \in Single /\ x % Host \in Wide
    BY WordSizes, Remainders DEF Single, Wide
  <1>2. Address(x) \in 0..ADDRMASK
    <2>1. ADDRMASK + 1 \in Nat \ {0} /\ ADDRMASK \in Nat
      BY WordSizes DEF ADDRMASK
    <2>2. x % (ADDRMASK + 1) \in 0..((ADDRMASK + 1) - 1)
      BY <2>1, Remainders
    <2> QED
      BY <2>1, <2>2 DEF Address
  <1>3. LT(x) \in Nat /\ RT(x) \in Nat
    <2>1. x % Word \in Nat /\ Half \in Nat \ {0}
      BY <1>1, WordSizes
    <2>2. (x % Word) \div Half \in Nat
      BY <2>1, Remainders
    <2>3. x % Half \in Nat
      BY <2>1, Remainders
    <2> QED
      BY <2>2, <2>3 DEF LT, RT
  <1> QED
    BY <1>1, <1>2, <1>3

(* A bit.                                                                  *)
LEMMA BitIs ==
  ASSUME NEW x \in Nat, NEW b \in Nat \ {0}
  PROVE  Bit(x, b) \in Nat
  <1>1. x \div b \in Nat
    BY Remainders
  <1> QED
    BY <1>1 DEF Bit

(* A digit more.                                                           *)
Shifted(w, c) == (w * base + Value[c]) % Word

(* It is a word.                                                           *)
LEMMA DigitsAre ==
  /\ Digits = {"0", "1", "2", "7"} /\ \A c \in Digits : Value[c] \in Nat
  /\ \A w \in Single, c \in Digits : Shifted(w, c) \in Single
  <1>1. Digits = {"0", "1", "2", "7"} /\ \A c \in Digits : Value[c] \in Nat
    BY DEF Digits, Value
  <1>2. ASSUME NEW w \in Single, NEW c \in Digits
        PROVE  Shifted(w, c) \in Single
    <2>1. w * base + Value[c] \in Nat
      BY <1>1, WordSizes DEF base
    <2> QED
      BY <2>1, Cuts DEF Shifted
  <1> QED
    BY <1>1, <1>2

(* The value of some digits.                                               *)
LEMMA NumberIs ==
  ASSUME NEW seq \in Seq(Digits)
  PROVE  Number(seq) \in Single
  <1> DEFINE n == Len(seq)
      D == SUBSET (1..n)
      Is(f) == f = [s \in SUBSET DOMAIN seq |->
                      IF s = {} THEN 0
                      ELSE LET x == Max(s) IN (f[s \ {x}] * base + Value[seq[x]]) % Word]
      g == [p \in D \X Single |-> IF p[1] = {} THEN 0 ELSE Shifted(p[2], seq[Max(p[1])])]
      it == CHOOSE f : Is(f)
  <1>1. n \in Nat /\ DOMAIN seq = 1..n
    OBVIOUS
  <1>2. \A s \in D : s # {} => Max(s) \in 1..n /\ seq[Max(s)] \in Digits
    <2> TAKE s \in D
    <2>1. s # {} => Max(s) \in 1..n
      BY <1>1, Greatest
    <2> QED
      BY <1>1, <2>1
  <1>3. \A x \in Single, y \in Digits : Shifted(x, y) \in Single
    BY DigitsAre
  <1>4. PICK f : Folded(n, Single, 0, g, f)
    <2>1. Stepped(D, Single, 0, g)
      BY <1>2, <1>3, WordSizes DEF Stepped
    <2> HIDE DEF g, n
    <2> QED
      BY <1>1, <2>1, FoldExists
  <1>5. Is(f)
    <2>1. ASSUME NEW s \in D, s # {}
          PROVE  f[s] = Shifted(f[s \ {Max(s)}], seq[Max(s)])
      <3>1. f[s \ {Max(s)}] \in Single
        BY <1>4 DEF Folded
      <3> QED
        BY <1>4, <2>1, <3>1 DEF Folded
    <2> HIDE DEF n
    <2> QED
      BY <1>1, <1>4, <2>1 DEF Folded, Shifted
  <1>6. Is(it)
    <2> HIDE DEF Is
    <2> QED
      BY <1>5
  <1>7. Number(seq) = it[1..n]
    BY <1>1 DEF Number, FoldLeft, MapThenFoldSet
  <1>8. ASSUME NEW s \in D
        PROVE  it[s] = IF s = {} THEN 0 ELSE Shifted(it[s \ {Max(s)}], seq[Max(s)])
    <2> HIDE DEF it
    <2> QED
      BY <1>1, <1>6 DEF Shifted
  <1>9. {} \in D
    OBVIOUS
  <1> HIDE DEF it, g, Is, D
  <1>10. PICK h : Run(n, Single, it, h)
    <2>1. FoldCloses(n, Single, it)
      BY <1>2, <1>3, <1>8, <1>9, WordSizes DEF FoldCloses, D
    <2> HIDE DEF n
    <2> QED
      BY <1>1, <2>1, FoldRuns
  <1>11. n \in 0..n
    BY <1>1
  <1> QED
    BY <1>7, <1>10, <1>11 DEF Run

-----------------------------------------------------------------------------
(* Expressions.                                                            *)

(* What is reckoned has the width of the host.                             *)
LEMMA ReckonedIs ==
  ASSUME NEW x \in Wide, NEW y \in Wide, NEW op, op = "|" => y # 0
  PROVE  Reckoned(op, x, y) \in Wide
  <1>1. x \in Nat /\ y \in Nat /\ x <= Host - 1 /\ y <= Host - 1 /\ Host \in Nat
    BY WordSizes DEF Wide
  <1>2. x * y \in Nat
    BY <1>1
  <1>3. x + Host - y \in Nat /\ x + y \in Nat
    BY <1>1
  <1>4. (x + Host - y) % Host \in Wide /\ (x * y) % Host \in Wide /\ (x + y) % Host \in Wide
    BY <1>2, <1>3, Cuts
  <1>5. y # 0 => x \div y \in Wide
    <2>1. y # 0 => x \div y \in 0..x
      BY <1>1, Remainders
    <2> QED
      BY <1>1, <2>1 DEF Wide
  <1> QED
    BY <1>4, <1>5 DEF Reckoned

(* A sum of two fields.                                                    *)
LEMMA FieldsAdd ==
  ASSUME NEW x \in Wide, NEW y \in Wide
  PROVE  (x + y) % Host \in Wide
  <1>1. x + y \in Nat
    BY WordSizes
  <1> QED
    BY <1>1, Cuts

(* An expression with a word more.                                         *)
LEMMA CombineIs ==
  ASSUME NEW e \in Exprs, NEW t \in Single, Divisible(e, t)
  PROVE  combine(e, t) \in Exprs
  <1>1. Reckoned(e.op, e.exp, t) \in Wide
    BY WordSizes, ReckonedIs DEF Exprs, Divisible
  <1> QED
    BY <1>1 DEF combine, Exprs

(* An expression whose sum has become a field.                             *)
LEMMA FieldIs ==
  ASSUME NEW e \in Exprs
  PROVE  AsWord(e) \in Exprs /\ AsAccumulator(e) \in Exprs /\ AsAddress(e) \in Exprs
  <1>1. (e.word + e.exp) % Host \in Wide /\ (e.ac + e.exp) % Host \in Wide
        /\ (e.address + e.exp) % Host \in Wide
    BY FieldsAdd DEF Exprs
  <1> QED
    BY <1>1 DEF Exprs, AsWord, AsAccumulator, AsAddress

(* One that begins.                                                        *)
LEMMA EmptyIs == Empty \in Exprs
  BY WordSizes DEF Empty, Exprs

(* A word that is assembled.                                               *)
LEMMA WithAddressIs ==
  ASSUME NEW e \in Exprs
  PROVE  WithAddress(e) \in Single
  <1>1. e.word \in Nat /\ e.ac \in Nat /\ e.i \in Nat /\ e.address \in Nat
    BY WordSizes DEF Exprs
  <1>2. Half \in Nat \ {0} /\ Iot \in Nat \ {0}
    BY WordSizes DEF Iot
  <1>3. WithAc(e) \in Nat
    <2>1. PICK x : x = Bit(e.ac, 2)
      OBVIOUS
    <2>2. PICK y : y = Bit(e.ac, 1)
      OBVIOUS
    <2>3. x \in Nat /\ y \in Nat
      BY <1>1, <2>1, <2>2, BitIs
    <2>4. x * 4 * Half \in Nat /\ y * 2 * Half \in Nat
      BY <1>2, <2>3
    <2> QED
      BY <1>1, <2>1, <2>2, <2>4 DEF WithAc
  <1>4. WithIndirect(e) \in Nat
    <2>1. PICK x : x = Bit(e.i, Half)
      OBVIOUS
    <2>2. x \in Nat
      BY <1>1, <1>2, <2>1, BitIs
    <2>3. x * Half \in Nat
      BY <1>2, <2>2
    <2> QED
      BY <1>3, <2>1, <2>3 DEF WithIndirect
  <1>5. PICK t : t = WithIndirect(e)
    OBVIOUS
  <1>6. t \in Nat /\ t + e.address \in Nat
    BY <1>1, <1>4, <1>5
  <1>7. LT(t) * Half + RT(t + e.address) \in Nat
    <2>1. LT(t) \in Nat /\ RT(t + e.address) \in Nat
      BY <1>6, Cuts
    <2> QED
      BY <1>2, <2>1
  <1>8. (LT(t) * Half + RT(t + e.address)) % Word \in Single /\ t % Word \in Single
    BY <1>6, <1>7, Cuts
  <1> QED
    BY <1>5, <1>8 DEF WithAddress

-----------------------------------------------------------------------------
(* DDT.                                                                    *)

(* The types, with those of the fields of an expression and of the stack.  *)
DdtInv ==
  /\ buf \in Seq(used.keys) /\ Len(buf) < BufLen
  /\ as \in Exprs /\ astack \in Seq(Exprs) /\ Len(astack) <= MaxStack
  /\ flags \in {"none", "CF", "CCF"} /\ number \in {"none", "zero", "other"}
  /\ linemode \in LineModes \cup {"none"}
  /\ dot \in 0..ADDRMASK /\ addr \in 0..ADDRMASK
  /\ opened \in BOOLEAN /\ q \in Single /\ starta \in Single

(* They include those the runs check.                                      *)
LEMMA DdtInvTypes ==
  ASSUME DdtInv
  PROVE  DdtTypeOK
  BY DEF DdtInv, DdtTypeOK, Exprs, Wide, Single

(* They hold at first.                                                     *)
LEMMA InitDdt ==
  ASSUME DdtInit
  PROVE  DdtInv
  <1>1. <<>> \in Seq(used.keys) /\ <<>> \in Seq(Exprs) /\ Len(<<>>) = 0
    OBVIOUS
  <1>2. 0 < BufLen /\ 0 <= MaxStack
    BY WordsAssumption, DdtAssumption
  <1>3. 0 \in 0..ADDRMASK /\ 0 \in Single
    BY WordSizes DEF ADDRMASK
  <1> QED
    BY <1>1, <1>2, <1>3, EmptyIs DEF DdtInit, DdtInv

(* What is in the buffer.                                                  *)
LEMMA ParseIs ==
  ASSUME DdtInv, Parses, buf # <<>>
  PROVE  parse \in Single
  <1>1. CASE IsNumber(buf)
    <2>1. buf \in Seq(Digits)
      <3>1. buf \in Seq(used.keys) /\ \A i \in DOMAIN buf : buf[i] \in Digits
        BY <1>1 DEF DdtInv, IsNumber
      <3>2. DOMAIN buf = 1..Len(buf) /\ Len(buf) \in Nat /\ buf = [i \in 1..Len(buf) |-> buf[i]]
        BY <3>1, LenProperties
      <3> QED
        BY <3>1, <3>2, SeqDef
    <2> QED
      BY <1>1, <2>1, NumberIs DEF parse, parsenum
  <1>2. CASE ~IsNumber(buf) /\ buf = <<".">>
    <2>1. dot \in Single
      BY WordSizes DEF DdtInv, Single, ADDRMASK
    <2> QED
      BY <1>2, <2>1 DEF parse, parsesym
  <1>3. CASE ~IsNumber(buf) /\ buf # <<".">>
    <2>1. buf \in {<<"A">>, <<"B">>}
      BY <1>3 DEF Parses, symtab
    <2>2. symtab[buf] \in {14, Iot}
      BY <2>1 DEF symtab
    <2>3. 14 \in Single /\ Iot \in Single
      BY WordSizes DEF Iot, Single
    <2> QED
      BY <1>3, <2>2, <2>3 DEF parse, parsesym
  <1> QED
    BY <1>1, <1>2, <1>3

(* The expression with what is in the buffer.                              *)
LEMMA CombinedIs ==
  ASSUME DdtInv, Legible
  PROVE  Combined \in Exprs
  BY ParseIs, CombineIs DEF Legible, Combined, DdtInv

(* The word before the cursor, and what stands for it when there is none.  *)
LEMMA OrIs ==
  ASSUME DdtInv, Readable, NEW w \in Single
  PROVE  Or(w) \in Single /\ (Assembled => endword \in Single)
  <1>1. ASSUME Assembled
        PROVE  endword \in Single
    <2> DEFINE t == IF buf = <<>> THEN 0 ELSE parse
        e == combine(as, t)
    <2>1. t \in Single /\ Divisible(as, t)
      BY <1>1, ParseIs, WordSizes DEF Readable, Legible, Assembled
    <2>2. e \in Exprs
      <3> HIDE DEF t
      <3> QED
        BY <2>1, CombineIs DEF DdtInv
    <2>3. endword = WithAddress(IF e.f \cap {"FW", "AC"} # {} THEN AsAddress(e) ELSE AsWord(e))
      BY DEF endword
    <2> HIDE DEF e
    <2>4. AsAddress(e) \in Exprs /\ AsWord(e) \in Exprs
      BY <2>2, FieldIs
    <2> QED
      BY <2>3, <2>4, WithAddressIs
  <1> QED
    BY <1>1 DEF Or

(* The word is taken, the buffer dropped, or everything.                   *)
LEMMA TakenOrDropped ==
  ASSUME DdtInv, used' = used
  PROVE  /\ TakeWord => buf' \in Seq(used'.keys) /\ Len(buf') < BufLen /\ as' \in Exprs
         /\ DropBuf => /\ buf' \in Seq(used'.keys) /\ Len(buf') < BufLen /\ as' \in Exprs
                       /\ astack' \in Seq(Exprs) /\ Len(astack') <= MaxStack
         /\ err /\ astack' = astack => DdtInv'
  <1>1. <<>> \in Seq(used'.keys) /\ Len(<<>>) < BufLen
    BY WordsAssumption
  <1>2. TakeWord => buf' \in Seq(used'.keys) /\ Len(buf') < BufLen /\ as' \in Exprs
    BY <1>1, EmptyIs DEF TakeWord, DdtInv
  <1>3. DropBuf => /\ buf' \in Seq(used'.keys) /\ Len(buf') < BufLen /\ as' \in Exprs
                   /\ astack' \in Seq(Exprs) /\ Len(astack') <= MaxStack
    <2>1. SUFFICES ASSUME DropBuf
                   PROVE  buf' = <<>> /\ as' = as /\ astack' = astack
      BY <1>1 DEF DdtInv
    <2> QED
      BY <2>1 DEF DropBuf
  <1>4. ASSUME err, astack' = astack
        PROVE  DdtInv'
    BY <1>1, <1>4, EmptyIs DEF err, NoFlags, DdtInv
  <1> QED
    BY <1>2, <1>3, <1>4

(* A character more.                                                       *)
LEMMA InsIs ==
  ASSUME DdtInv, NEW c \in used.keys
  PROVE  ins(c) \in Seq(used.keys) /\ Len(ins(c)) < BufLen
  <1>1. <<>> \in Seq(used.keys) /\ Len(<<>>) < BufLen /\ BufLen \in Nat
    BY WordsAssumption
  <1>2. buf \in Seq(used.keys) /\ Len(buf) < BufLen /\ Len(buf) \in Nat
    BY LenProperties DEF DdtInv
  <1>3. Append(buf, c) \in Seq(used.keys) /\ Len(Append(buf, c)) = Len(buf) + 1
    BY <1>2, AppendProperties
  <1>4. CASE Len(buf) + 1 = BufLen
    BY <1>1, <1>4 DEF ins
  <1>5. CASE Len(buf) + 1 # BufLen
    <2>1. Len(buf) + 1 < BufLen
      BY <1>1, <1>2, <1>5
    <2>2. ins(c) = Append(buf, c)
      BY <1>5 DEF ins
    <2> QED
      BY <1>3, <2>1, <2>2
  <1> QED
    BY <1>4, <1>5

(* The last of a sequence, and those before it.                            *)
LEMMA LastOnes ==
  ASSUME NEW S, NEW s \in Seq(S), s # <<>>
  PROVE  Last(s) \in S /\ Front(s) \in Seq(S) /\ Len(Front(s)) = Len(s) - 1
  <1>1. Len(s) \in Nat \ {0}
    BY LenProperties, EmptySeq
  <1>2. Last(s) \in S
    BY <1>1, ElementOfSeq DEF Last
  <1>3. SubSeq(s, 1, Len(s) - 1) \in Seq(S) /\ Len(SubSeq(s, 1, Len(s) - 1)) = Len(s) - 1
    <2>1. PICK k : k = Len(s) - 1
      OBVIOUS
    <2>2. k \in Nat /\ 1..k \subseteq 1..Len(s)
      BY <1>1, <2>1
    <2>3. SubSeq(s, 1, k) \in Seq(S) /\ Len(SubSeq(s, 1, k)) = k
      BY <2>2, SubSeqProperties
    <2> QED
      BY <2>1, <2>3
  <1> QED
    BY <1>2, <1>3 DEF Front

(* Expressions.                                                            *)
LEMMA ExpressionTyped ==
  ASSUME DdtInv, NEW c \in used.keys, Expression(c), used' = used
  PROVE  DdtInv'
  <1>1. CASE Insert(c)
    BY <1>1, InsIs DEF Insert, NoFlags, NotOpening, Kept, DdtInv
  <1>2. <<>> \in Seq(used'.keys) /\ Len(<<>>) < BufLen
    BY WordsAssumption
  <1>3. CASE Operator(c)
    <2>1. Combined \in Exprs
      BY <1>3, CombinedIs DEF Operator
    <2>2. [Combined EXCEPT !.op = c] \in Exprs /\ [as EXCEPT !.op = c] \in Exprs
      <3>1. \A e \in Exprs : [e EXCEPT !.op = c] \in Exprs
        BY <1>3 DEF Operator, Exprs
      <3> QED
        BY <2>1, <3>1 DEF DdtInv
    <2>3. as' \in Exprs /\ buf' = <<>>
      BY <1>3, <2>2 DEF Operator, DdtInv
    <2> QED
      BY <1>2, <1>3, <2>3 DEF Operator, NoFlags, NotOpening, Kept, DdtInv
  <1>4. CASE pushexp(c)
    <2>1. Combined \in Exprs
      BY <1>4, CombinedIs DEF pushexp
    <2>2. astack \in Seq(Exprs) /\ Len(astack) < MaxStack
      BY <1>4 DEF pushexp, DdtInv
    <2>3. astack' = Append(astack, Combined)
      BY <1>4 DEF pushexp
    <2>4. astack' \in Seq(Exprs) /\ Len(astack') <= MaxStack
      <3>1. /\ Append(astack, Combined) \in Seq(Exprs)
            /\ Len(Append(astack, Combined)) = Len(astack) + 1 /\ Len(astack) \in Nat
        BY <2>1, <2>2, AppendProperties, LenProperties
      <3>2. MaxStack \in Nat
        BY DdtAssumption
      <3> QED
        BY <2>2, <2>3, <3>1, <3>2
    <2>5. /\ buf' = <<>> /\ as' = Empty /\ flags' = "none" /\ number' = "none"
          /\ linemode' \in {"none", linemode} /\ opened' \in {FALSE, opened}
          /\ UNCHANGED <<dot, addr, q, starta>>
      BY <1>4 DEF pushexp, err, NoFlags, NotOpening, Kept
    <2> QED
      BY <1>2, <2>4, <2>5, EmptyIs DEF DdtInv
  <1>5. CASE popexp(c)
    <2> DEFINE t == Or(0)
        e == Last(astack)
    <2>1. t \in Single
      BY <1>5, OrIs, WordSizes DEF popexp
    <2>2. astack \in Seq(Exprs) /\ astack # <<>> /\ Len(astack) <= MaxStack
      BY <1>5 DEF popexp, DdtInv
    <2>3. e \in Exprs /\ Front(astack) \in Seq(Exprs) /\ Len(Front(astack)) = Len(astack) - 1
      BY <2>2, LastOnes
    <2>4. combine(e, t) \in Exprs
      <3>1. Divisible(e, t)
        BY <1>5 DEF popexp
      <3> HIDE DEF e, t
      <3> QED
        BY <2>1, <2>3, <3>1, CombineIs
    <2>5. [e EXCEPT !.word = (e.word + Swapped(t)) % Host, !.gotexp = TRUE] \in Exprs
      <3> HIDE DEF e, t
      <3>1. Swapped(t) \in Nat
        <4>1. t \in Nat /\ Half \in Nat
          BY <2>1, WordSizes
        <4>2. RT(t) \in Nat /\ LT(t) \in Nat
          BY <4>1, Cuts
        <4>3. RT(t) * Half + LT(t) \in Nat
          BY <4>1, <4>2
        <4> QED
          BY <4>3 DEF Swapped
      <3>2. (e.word + Swapped(t)) % Host \in Wide
        <4>1. PICK x : x = e.word
          OBVIOUS
        <4>2. x \in Wide
          BY <2>3, <4>1 DEF Exprs
        <4>3. x + Swapped(t) \in Nat
          BY <3>1, <4>2, WordSizes
        <4> QED
          BY <4>1, <4>3, Cuts
      <3> QED
        BY <2>3, <3>2 DEF Exprs
    <2>6. as' \in Exprs
      BY <1>5, <2>4, <2>5 DEF popexp
    <2>7. astack' \in Seq(Exprs) /\ Len(astack') <= MaxStack
      <3>1. astack' = Front(astack)
        BY <1>5 DEF popexp
      <3>2. Len(astack) \in Nat /\ MaxStack \in Nat
        BY <2>2, LenProperties, DdtAssumption
      <3> QED
        BY <2>2, <2>3, <3>1, <3>2
    <2>8. buf' = <<>> /\ NoFlags /\ NotOpening /\ Kept
      BY <1>5 DEF popexp
    <2> HIDE DEF e, t
    <2> QED
      BY <1>2, <2>6, <2>7, <2>8 DEF NoFlags, NotOpening, Kept, DdtInv
  <1>6. CASE Separator(c)
    <2>1. Combined \in Exprs
      BY <1>6, CombinedIs DEF Separator
    <2>2. \A e \in Exprs : [e EXCEPT !.exp = 0] \in Exprs
      BY WordSizes DEF Exprs
    <2>3. as' \in Exprs
      <3>1. PICK e : e = Combined
        OBVIOUS
      <3>2. AsWord(e) \in Exprs /\ AsAccumulator(e) \in Exprs /\ AsAddress(e) \in Exprs
        BY <2>1, <3>1, FieldIs
      <3>3. /\ [AsWord(e) EXCEPT !.exp = 0] \in Exprs
            /\ [AsAccumulator(e) EXCEPT !.exp = 0] \in Exprs
            /\ [AsAddress(e) EXCEPT !.exp = 0] \in Exprs
        BY <2>2, <3>2
      <3>4. as' \in {as, [AsWord(e) EXCEPT !.exp = 0], [AsAccumulator(e) EXCEPT !.exp = 0],
                     [AsAddress(e) EXCEPT !.exp = 0]}
        BY <1>6, <3>1 DEF Separator
      <3> QED
        BY <3>3, <3>4 DEF DdtInv
    <2>4. buf' = <<>> /\ astack' = astack /\ NoFlags /\ NotOpening /\ Kept
      BY <1>6 DEF Separator
    <2> QED
      BY <1>2, <2>3, <2>4 DEF NoFlags, NotOpening, Kept, DdtInv
  <1>7. CASE OutOfTurn(c)
    <2>1. as' \in Exprs
      <3>1. CASE as' = [as EXCEPT !.i = (as.i + Half) % Host, !.f = as.f \cup {"I"}, !.gotexp = TRUE]
        <4>1. (as.i + Half) % Host \in Wide
          <5>1. PICK x : x = as.i
            OBVIOUS
          <5>2. x \in Wide
            BY <5>1 DEF DdtInv, Exprs
          <5>3. x + Half \in Nat
            BY <5>2, WordSizes
          <5> QED
            BY <5>1, <5>3, Cuts
        <4> QED
          BY <3>1, <4>1 DEF DdtInv, Exprs
      <3>2. CASE Divisible(as, q) /\ as' = combine(as, q)
        BY <3>2, CombineIs DEF DdtInv
      <3> QED
        BY <1>7, <3>1, <3>2 DEF OutOfTurn
    <2>2. buf' = buf /\ astack' = astack /\ NoFlags /\ NotOpening /\ Kept
      BY <1>7 DEF OutOfTurn
    <2> QED
      BY <2>1, <2>2 DEF NoFlags, NotOpening, Kept, DdtInv
  <1> QED
    BY <1>1, <1>3, <1>4, <1>5, <1>6, <1>7 DEF Expression

(* Altmodes and what follows them.                                         *)
LEMMA FlaggedTyped ==
  ASSUME DdtInv, NEW c \in used.keys, Flagged(c), used' = used
  PROVE  DdtInv'
  <1>1. CASE num(c)
    BY <1>1 DEF num, NotOpening, Kept, exprVars, DdtInv
  <1>2. CASE Altmode(c)
    BY <1>2 DEF Altmode, NotOpening, Kept, exprVars, DdtInv
  <1>3. CASE modechange(c)
    BY <1>3 DEF modechange, NoFlags, NotOpening, Kept, exprVars, DdtInv
  <1>4. CASE EnterLine(c)
    <2>1. DropBuf /\ NoFlags /\ NotOpening /\ starta' = starta /\ linemode' \in LineModes
      BY <1>4 DEF EnterLine, LineModes
    <2>2. /\ buf' \in Seq(used'.keys) /\ Len(buf') < BufLen /\ as' \in Exprs
          /\ astack' \in Seq(Exprs) /\ Len(astack') <= MaxStack
      BY <2>1, TakenOrDropped
    <2> QED
      BY <2>1, <2>2 DEF NoFlags, NotOpening, DdtInv
  <1> QED
    BY <1>1, <1>2, <1>3, <1>4 DEF Flagged

(* Locations.                                                              *)
LEMMA LocationTyped ==
  ASSUME DdtInv, NEW c \in used.keys, Location(c), used' = used
  PROVE  DdtInv'
  <1>1. ASSUME Readable
        PROVE  /\ Quantity \in 0..ADDRMASK /\ Or(q) \in Single
               /\ Address(dot + ADDRMASK) \in 0..ADDRMASK /\ Address(dot + 1) \in 0..ADDRMASK
    <2>1. Or(q) \in Single
      BY <1>1, OrIs DEF DdtInv
    <2>2. Quantity \in 0..ADDRMASK
      BY <2>1, WordSizes, Cuts DEF Quantity
    <2>3. dot + ADDRMASK \in Nat /\ dot + 1 \in Nat
      BY WordSizes DEF DdtInv, ADDRMASK
    <2> QED
      BY <2>1, <2>2, <2>3, Cuts
  <1>2. ASSUME TakeWord
        PROVE  buf' \in Seq(used'.keys) /\ Len(buf') < BufLen /\ as' \in Exprs
    BY <1>2, TakenOrDropped
  <1>3. Seen \subseteq Single
    BY DdtAssumption DEF Single
  <1>4. CASE Open(c)
    <2>1. /\ Readable /\ TakeWord /\ addr' = Quantity /\ dot' \in {dot, Quantity}
          /\ opened' = TRUE /\ q' \in Seen /\ NoFlags /\ Kept /\ astack' = astack
      BY <1>4 DEF Open, aclose, aopen
    <2> QED
      BY <1>1, <1>2, <1>3, <2>1 DEF NoFlags, Kept, DdtInv
  <1>5. CASE Deposit(c)
    <2>1. /\ Readable /\ TakeWord /\ addr' = dot'
          /\ dot' \in {Quantity, Address(dot + ADDRMASK), Address(dot + 1)}
          /\ opened' = TRUE /\ q' \in Seen /\ NoFlags /\ Kept /\ astack' = astack
      BY <1>5 DEF Deposit, aclose, aopen
    <2> QED
      BY <1>1, <1>2, <1>3, <2>1 DEF NoFlags, Kept, DdtInv
  <1>6. CASE Return(c)
    <2>1. /\ Readable /\ TakeWord /\ addr' = Quantity /\ q' \in {q, Or(q)}
          /\ opened' = FALSE /\ NoFlags /\ Kept /\ astack' = astack /\ dot' = dot
      BY <1>6 DEF Return, aclose
    <2> QED
      BY <1>1, <1>2, <2>1 DEF NoFlags, Kept, DdtInv
  <1>7. CASE typeout(c)
    <2>1. /\ Readable /\ TakeWord /\ q' = Or(q) /\ NoFlags /\ Kept
          /\ UNCHANGED <<astack, dot, addr, opened>>
      BY <1>7 DEF typeout
    <2> QED
      BY <1>1, <1>2, <2>1 DEF NoFlags, Kept, DdtInv
  <1> QED
    BY <1>4, <1>5, <1>6, <1>7 DEF Location

(* Commands.                                                               *)
LEMMA CommandTyped ==
  ASSUME DdtInv, NEW c \in used.keys, Command(c), used' = used
  PROVE  DdtInv'
  <1>1. ASSUME TakeWord
        PROVE  buf' \in Seq(used'.keys) /\ Len(buf') < BufLen /\ as' \in Exprs
    BY <1>1, TakenOrDropped
  <1>2. CASE Go(c)
    <2>1. /\ Readable /\ TakeWord /\ starta' \in {starta, Or(starta)}
          /\ NoFlags /\ NotOpening /\ UNCHANGED <<astack, linemode>>
      BY <1>2 DEF Go
    <2>2. Or(starta) \in Single
      BY <2>1, OrIs DEF DdtInv
    <2> QED
      BY <1>1, <2>1, <2>2 DEF NoFlags, NotOpening, DdtInv
  <1>3. CASE Step1(c)
    <2>1. TakeWord /\ NoFlags /\ NotOpening /\ UNCHANGED <<astack, linemode, starta>>
      BY <1>3 DEF Step1
    <2> QED
      BY <1>1, <2>1 DEF NoFlags, NotOpening, DdtInv
  <1>4. CASE Stop(c)
    <2>1. DropBuf /\ NoFlags /\ NotOpening /\ UNCHANGED <<linemode, starta>>
      BY <1>4 DEF Stop
    <2>2. /\ buf' \in Seq(used'.keys) /\ Len(buf') < BufLen /\ as' \in Exprs
          /\ astack' \in Seq(Exprs) /\ Len(astack') <= MaxStack
      BY <2>1, TakenOrDropped
    <2> QED
      BY <2>1, <2>2 DEF NoFlags, NotOpening, DdtInv
  <1> QED
    BY <1>2, <1>3, <1>4 DEF Command

(* Any character.                                                          *)
LEMMA CharacterTyped ==
  ASSUME DdtInv, NEW c \in used.keys, Character(c), used' = used
  PROVE  DdtInv'
  <1>1. CASE Expression(c) \/ Flagged(c) \/ Location(c) \/ Command(c)
    BY <1>1, ExpressionTyped, FlaggedTyped, LocationTyped, CommandTyped
  <1>2. CASE InLine(c)
    BY <1>2, InsIs DEF InLine, NoFlags, NotOpening, Kept, DdtInv
  <1>3. CASE Erase(c)
    <2>1. /\ buf # <<>> /\ buf' = Front(buf) /\ NoFlags /\ NotOpening /\ Kept
          /\ UNCHANGED <<as, astack>>
      BY <1>3 DEF Erase
    <2>2. buf' \in Seq(used'.keys) /\ Len(buf') < BufLen
      <3>1. buf \in Seq(used.keys) /\ Len(buf) < BufLen /\ BufLen \in Nat /\ Len(buf) \in Nat
        BY WordsAssumption, LenProperties DEF DdtInv
      <3>2. Front(buf) \in Seq(used.keys) /\ Len(Front(buf)) = Len(buf) - 1
        BY <2>1, <3>1, LastOnes
      <3> QED
        BY <2>1, <3>1, <3>2
    <2> QED
      BY <2>1, <2>2 DEF NoFlags, NotOpening, Kept, DdtInv
  <1>4. CASE Cancel(c)
    <2>1. err /\ astack' = astack
      BY <1>4 DEF Cancel
    <2> QED
      BY <2>1, TakenOrDropped
  <1> QED
    BY <1>1, <1>2, <1>3, <1>4 DEF Character

-----------------------------------------------------------------------------
(* What the front end does to what is typed, and to its files.             *)

TypedInv == DdtInv /\ starta < Core

(* The start address changes only when one is typed, and that is of core.  *)
LEMMA CharacterStarts ==
  ASSUME NEW c, Character(c), Bounded(c), starta < Core
  PROVE  starta' < Core
  <1>1. CASE Go(c)
    BY <1>1 DEF Go, Bounded
  <1>2. CASE ~Go(c)
    <2>1. starta' = starta
      <3>1. CASE Expression(c)
        BY <3>1 DEF Expression, Insert, Operator, pushexp, popexp, Separator, OutOfTurn, Kept, err
      <3>2. CASE Flagged(c)
        BY <3>2 DEF Flagged, num, Altmode, modechange, EnterLine, Kept
      <3>3. CASE Location(c)
        BY <3>3 DEF Location, Open, Deposit, Return, typeout, aopen, Kept
      <3>4. CASE Step1(c) \/ Stop(c)
        BY <3>4 DEF Step1, Stop
      <3>5. CASE InLine(c) \/ Erase(c) \/ Cancel(c)
        BY <3>5 DEF InLine, Erase, Cancel, Kept, err
      <3> QED
        BY <1>2, <3>1, <3>2, <3>3, <3>4, <3>5 DEF Character, Command
    <2> QED
      BY <2>1
  <1> QED
    BY <1>1, <1>2

(* Every step of the front end keeps the types.                            *)
LEMMA StepTypes ==
  ASSUME TypedInv, [Next]_vars
  PROVE  TypedInv'
  <1>1. CASE Processor \/ ConsoleStep \/ DriveStep \/ SwitchStep \/ fe_svc \/ ServeTape \/ UNCHANGED vars
    <2>1. UNCHANGED ddtVars /\ used' = used
      BY <1>1 DEF Processor, ConsoleStep, DriveStep, SwitchStep, fe_svc, ServeTape, vars
    <2> QED
      BY <2>1 DEF ddtVars, exprVars, openVars, modeVars, TypedInv, DdtInv
  <1>2. CASE Refused
    <2>1. err /\ astack' = astack /\ used' = used
      BY <1>2 DEF Refused
    <2> QED
      BY <2>1, TakenOrDropped DEF TypedInv, err
  <1>3. CASE Reported
    <2>1. /\ dot' \in 0..ADDRMASK /\ q' \in Single /\ used' = used
          /\ UNCHANGED <<exprVars, addr, opened, modeVars>>
      BY <1>3, DdtAssumption DEF Reported, Report, Single
    <2> QED
      BY <2>1 DEF exprVars, modeVars, TypedInv, DdtInv
  <1>4. CASE AnyChar
    <2>1. used' = used
      BY <1>4 DEF AnyChar
    <2>2. PICK c \in used.keys : Bounded(c) /\ (Character(c) \/ runline(c) \/ Zero(c))
      BY <1>4 DEF AnyChar
    <2>3. CASE Character(c)
      BY <2>1, <2>2, <2>3, CharacterTyped, CharacterStarts DEF TypedInv
    <2>4. CASE runline(c)
      <3>1. err /\ astack' = astack
        BY <2>4 DEF runline
      <3> QED
        BY <2>1, <3>1, TakenOrDropped DEF TypedInv, err
    <2>5. CASE Zero(c)
      BY <2>1, <2>5 DEF Zero, NoFlags, NotOpening, Kept, exprVars, TypedInv, DdtInv
    <2> QED
      BY <2>2, <2>3, <2>4, <2>5
  <1> QED
    BY <1>1, <1>2, <1>3, <1>4 DEF Next

(* Every step keeps the file the last dump.                                *)
LEMMA StepFiles ==
  ASSUME TypedInv, FileInv, [Next]_vars
  PROVE  FileInv'
  <1>1. ASSUME UNCHANGED fileVars
        PROVE  FileInv'
    BY <1>1 DEF fileVars, FileInv
  <1>2. CASE Processor \/ ConsoleStep \/ Refused \/ Reported \/ DriveStep \/ SwitchStep \/ fe_svc
             \/ UNCHANGED vars
    <2>1. UNCHANGED fileVars
      BY <1>2 DEF Processor, ConsoleStep, Refused, Reported, DriveStep, SwitchStep, fe_svc, vars
    <2> QED
      BY <1>1, <2>1
  <1>3. CASE ServeTape
    <2>1. UNCHANGED <<mem, file, leftover, dumped>> /\ outcome' \in {outcome, "exit"}
      BY <1>3 DEF ServeTape
    <2> QED
      BY <2>1 DEF FileInv
  <1>4. CASE AnyChar
    <2>1. PICK c \in used.keys :
            \/ Character(c) /\ UNCHANGED fileVars
            \/ runline(c)
            \/ Zero(c)
      BY <1>4 DEF AnyChar
    <2>2. CASE Zero(c)
      <3>1. zerocore
        BY <2>2 DEF Zero
      <3> QED
        BY <3>1, ZeroKeepsFile
    <2>3. CASE runline(c)
      <3>1. PICK command \in Asked :
              CASE command = "dump" /\ Does("dump") -> c_dump
                [] command = "load" /\ Does("load") -> c_load
                [] command = "mount" /\ Does("mount") -> c_mount /\ UNCHANGED <<fileVars, machineVars>>
                [] command = "unmount" /\ Does("unmount") -> unmount /\ UNCHANGED <<fileVars, machineVars>>
                [] OTHER -> UNCHANGED <<fileVars, machineVars, decTapeVars>>
        BY <2>3 DEF runline
      <3>2. c_dump \/ (Does("load") /\ c_load) \/ UNCHANGED fileVars
        BY <3>1
      <3>3. CASE c_dump
        <4>1. dumpsblk(starta) /\ starta \in 0..(Core - 1)
          BY <3>3, WordSizes, SblkAssumption DEF c_dump, TypedInv, DdtInv
        <4> QED
          BY <4>1, DumpKeepsFile
      <3>4. CASE Does("load") /\ c_load
        <4>1. file # <<>> /\ loadsblk
          BY <3>4 DEF Does, c_load
        <4> QED
          BY <4>1, LoadKeepsFile
      <3> QED
        BY <1>1, <3>2, <3>3, <3>4
    <2> QED
      BY <1>1, <2>1, <2>2, <2>3
  <1> QED
    BY <1>2, <1>3, <1>4 DEF Next

(* Throughout a session, what is typed is made of words, and the file is   *)
(* the last dump.                                                          *)
THEOREM FileInvariance == Spec => [](TypedInv /\ FileInv)
  <1>1. Init => TypedInv /\ FileInv
    <2> SUFFICES ASSUME Init
                 PROVE  TypedInv /\ FileInv
      OBVIOUS
    <2>1. mem \in Cores
      BY UsesAssumption DEF Init, Cores, Bits
    <2>2. starta < Core
      BY SblkAssumption DEF Init, DdtInit
    <2> QED
      BY <2>1, <2>2, InitDdt, InitFile DEF Init, TypedInv
  <1>2. TypedInv /\ FileInv /\ [Next]_vars => TypedInv' /\ FileInv'
    BY StepTypes, StepFiles
  <1> QED
    BY <1>1, <1>2, PTL DEF Spec

(* cmd.c dumpsblk() and loadsblk(): whatever was in core above the         *)
(* accumulators when it was dumped and whatever is there now, a load       *)
(* brings back the start address and every word that was not zero, and if  *)
(* core was zeroed since, the zeros too; unless the reader still had half  *)
(* a word of a load before.                                                *)
THEOREM DumpsRestore == Spec => []Restored
  <1>1. TypedInv /\ FileInv => Restored
    BY FileRestores DEF Restored
  <1> QED
    BY <1>1, FileInvariance, PTL

(* Every variable keeps to its type, for every machine, session and tape.  *)
THEOREM FrontEndTypes == Spec => []TypeOK
  <1>1. DecTapeInv /\ ConsoleInv /\ TypedInv /\ FileInv => TypeOK
    <2> SUFFICES ASSUME DecTapeInv, ConsoleInv, TypedInv, FileInv
                 PROVE  TypeOK
      OBVIOUS
    <2>1. DecTapeTypeOK
      BY DEF DecTapeInv
    <2>2. RunTypeOK /\ ConsoleTypeOK
      BY DEF ConsoleInv
    <2>3. DdtTypeOK
      BY DdtInvTypes DEF TypedInv
    <2>4. SblkTypeOK
      BY FileRestores
    <2> QED
      BY <2>1, <2>2, <2>3, <2>4 DEF TypeOK
  <1> QED
    BY <1>1, TapeInvariance, ConsoleInvariance, FileInvariance, PTL

-----------------------------------------------------------------------------
(* What is deposited goes where the terminal shows.                        *)

(* An open location is the one on the terminal.                            *)
ShownInv == (opened => shown = addr) /\ DepositsShown

(* A character opens only what it shows, and leaves no location open that  *)
(* is not on the terminal.                                                 *)
LEMMA CharacterShows ==
  ASSUME ShownInv, NEW c, Character(c)
  PROVE  ShownInv'
  <1>1. CASE NotOpening
    BY <1>1 DEF NotOpening, NoWrite, ShownInv, DepositsShown
  <1>2. CASE err
    BY <1>2 DEF err, NoWrite, ShownInv, DepositsShown
  <1>3. CASE Open(c)
    <2>1. /\ addr' = Quantity /\ shown' = Quantity /\ aclose(FALSE)
      BY <1>3 DEF Open
    <2>2. wrote' = NoDeposit
      BY <2>1 DEF aclose
    <2> QED
      BY <2>1, <2>2 DEF ShownInv, DepositsShown
  <1>4. CASE Deposit(c)
    <2>1. addr' = dot' /\ shown' = dot' /\ aclose(TRUE)
      BY <1>4 DEF Deposit
    <2>2. wrote' = NoDeposit \/ (opened /\ wrote'.at = addr /\ wrote'.shown = shown)
      BY <2>1 DEF aclose
    <2> QED
      BY <2>1, <2>2 DEF ShownInv, DepositsShown
  <1>5. CASE Return(c)
    <2>1. opened' = FALSE /\ aclose(TRUE)
      BY <1>5 DEF Return
    <2>2. wrote' = NoDeposit \/ (opened /\ wrote'.at = addr /\ wrote'.shown = shown)
      BY <2>1 DEF aclose
    <2> QED
      BY <2>1, <2>2 DEF ShownInv, DepositsShown
  <1>6. CASE typeout(c)
    BY <1>6 DEF typeout, NoWrite, ShownInv, DepositsShown
  <1>7. NotOpening \/ err \/ Open(c) \/ Deposit(c) \/ Return(c) \/ typeout(c)
    <2>1. CASE Expression(c)
      BY <2>1 DEF Expression, Insert, Operator, pushexp, popexp, Separator, OutOfTurn
    <2>2. CASE Flagged(c)
      BY <2>2 DEF Flagged, num, Altmode, modechange, EnterLine
    <2>3. CASE Command(c)
      BY <2>3 DEF Command, Go, Step1, Stop
    <2>4. CASE InLine(c) \/ Erase(c) \/ Cancel(c)
      BY <2>4 DEF InLine, Erase, Cancel
    <2> QED
      BY <2>1, <2>2, <2>3, <2>4 DEF Character, Location
  <1> QED
    BY <1>1, <1>2, <1>3, <1>4, <1>5, <1>6, <1>7

(* So does every step of the front end; a stop reported shows another      *)
(* location and leaves the open one.                                       *)
LEMMA StepShows ==
  ASSUME ShownInv, [Next]_vars
  PROVE  ShownInv'
  <1>1. CASE Processor \/ ConsoleStep \/ DriveStep \/ SwitchStep \/ fe_svc \/ ServeTape \/ UNCHANGED vars
    <2>1. UNCHANGED ddtVars
      BY <1>1 DEF Processor, ConsoleStep, DriveStep, SwitchStep, fe_svc, ServeTape, vars
    <2> QED
      BY <2>1 DEF ddtVars, openVars, ShownInv, DepositsShown
  <1>2. CASE Refused
    BY <1>2 DEF Refused, err, NoWrite, ShownInv, DepositsShown
  <1>3. CASE Reported
    BY <1>3 DEF Reported, Report, NoWrite, ShownInv, DepositsShown
  <1>4. CASE AnyChar
    <2>1. PICK c \in used.keys : Character(c) \/ runline(c) \/ Zero(c)
      BY <1>4 DEF AnyChar
    <2>2. CASE Character(c)
      BY <2>2, CharacterShows
    <2>3. CASE runline(c)
      BY <2>3 DEF runline, err, NoWrite, ShownInv, DepositsShown
    <2>4. CASE Zero(c)
      BY <2>4 DEF Zero, NotOpening, NoWrite, ShownInv, DepositsShown
    <2> QED
      BY <2>1, <2>2, <2>3, <2>4
  <1> QED
    BY <1>1, <1>2, <1>3, <1>4 DEF Next

(* fe.c aopen(), aclose(): however locations were opened, closed, stepped  *)
(* through and left by errors, a deposit goes where the terminal shows one *)
(* open.                                                                   *)
THEOREM DepositsAsShown == Spec => []DepositsShown
  <1>1. Init => ShownInv
    BY DEF Init, DdtInit, ShownInv, DepositsShown
  <1>2. ShownInv /\ [Next]_vars => ShownInv'
    BY StepShows
  <1>3. ShownInv => DepositsShown
    BY DEF ShownInv
  <1> QED
    BY <1>1, <1>2, <1>3, PTL DEF Spec

-----------------------------------------------------------------------------
(* What is deposited is what was typed.  A line is a text, with a depth at *)
(* each place; what it means is defined by what shorter texts mean, and    *)
(* solved here once.  SumCases and LineCases say what a meaningful text is *)
(* made of.  Amasses(s, e) says that the expression e is what DDT has of   *)
(* the text s: whatever may end s as a value, an operator or the head of   *)
(* an instruction stands in e.  Each character DDT takes keeps that        *)
(* (AmassesAdded, AmassesOperated, AmassesSeparated, AmassesClosed), the   *)
(* groups that are open are on the stack (Stacked), and LineInv says so of *)
(* the line typed so far.                                                  *)

-----------------------------------------------------------------------------
(* Depth.                                                                  *)

(* How many of the first elements are c.                                   *)
Count(l, c, n) == Cardinality({j \in 1..n : l[j] = c})

(* One more when the next one is.                                          *)
LEMMA Counts ==
  ASSUME NEW l, NEW c, NEW n \in Nat
  PROVE  /\ Count(l, c, n) \in Nat /\ Count(l, c, 0) = 0
         /\ Count(l, c, n + 1) = IF l[n + 1] = c THEN Count(l, c, n) + 1 ELSE Count(l, c, n)
  <1> DEFINE S(k) == {j \in 1..k : l[j] = c}
  <1>1. IsFiniteSet(S(n))
    <2>1. IsFiniteSet(1..n) /\ S(n) \subseteq 1..n
      BY FS_Interval
    <2> QED
      BY <2>1, FS_Subset
  <1>2. S(0) = {}
    OBVIOUS
  <1>3. n + 1 \notin S(n) /\ S(n + 1) = IF l[n + 1] = c THEN S(n) \cup {n + 1} ELSE S(n)
    OBVIOUS
  <1> HIDE DEF S
  <1>4. Cardinality(S(n)) \in Nat /\ Cardinality(S(n) \cup {n + 1}) = Cardinality(S(n)) + 1
    BY <1>1, <1>3, FS_CardinalityType, FS_AddElement
  <1>5. Cardinality(S(0)) = 0
    BY <1>2, FS_EmptySet
  <1> QED
    BY <1>3, <1>4, <1>5 DEF Count, S

Rise(c) == IF c = "(" THEN 1 ELSE IF c = ")" THEN 0 - 1 ELSE 0

(* A parenthesis goes one down or up.                                      *)
LEMMA DepthSteps ==
  ASSUME NEW l, NEW n \in Nat
  PROVE  /\ Depth(l, n) \in Int /\ Depth(l, 0) = 0
         /\ Depth(l, n + 1) = Depth(l, n) + Rise(l[n + 1])
  <1>1. /\ Count(l, "(", n) \in Nat /\ Count(l, "(", 0) = 0
        /\ Count(l, "(", n + 1) = IF l[n + 1] = "(" THEN Count(l, "(", n) + 1 ELSE Count(l, "(", n)
    BY Counts
  <1>2. /\ Count(l, ")", n) \in Nat /\ Count(l, ")", 0) = 0
        /\ Count(l, ")", n + 1) = IF l[n + 1] = ")" THEN Count(l, ")", n) + 1 ELSE Count(l, ")", n)
    BY Counts
  <1>3. \A k : Depth(l, k) = Count(l, "(", k) - Count(l, ")", k)
    BY DEF Depth, Count
  <1> QED
    BY <1>1, <1>2, <1>3 DEF Rise

(* A part of a line.                                                       *)
Part(l, m, k, n) == \A j \in 1..n : m[j] = l[k + j]

(* Down and up from where it begins.                                       *)
PartDepth(l, m, k, n) == \A j \in 0..n : Depth(l, k + j) = Depth(l, k) + Depth(m, j)

(* Its depth.                                                              *)
LEMMA DepthWithin ==
  ASSUME NEW l, NEW m, NEW k \in Nat, NEW n \in Nat, Part(l, m, k, n)
  PROVE  PartDepth(l, m, k, n)
  <1> DEFINE T == {j \in Nat : j <= n => Depth(l, k + j) = Depth(l, k) + Depth(m, j)}
  <1>1. 0 \in T
    BY DepthSteps
  <1>2. ASSUME NEW j \in Nat, j \in T
        PROVE  j + 1 \in T
    <2> SUFFICES ASSUME j + 1 <= n
                 PROVE  Depth(l, k + (j + 1)) = Depth(l, k) + Depth(m, j + 1)
      OBVIOUS
    <2>1. Depth(l, k + j) = Depth(l, k) + Depth(m, j)
      BY <1>2
    <2>2. k + j \in Nat /\ (k + j) + 1 = k + (j + 1)
      OBVIOUS
    <2>3. Depth(l, (k + j) + 1) = Depth(l, k + j) + Rise(l[(k + j) + 1])
      BY <2>2, DepthSteps
    <2>4. Depth(m, j + 1) = Depth(m, j) + Rise(m[j + 1])
      BY DepthSteps
    <2>5. m[j + 1] = l[k + (j + 1)]
      BY DEF Part
    <2>6. Depth(l, k) \in Int /\ Depth(m, j) \in Int /\ Rise(m[j + 1]) \in Int
      BY DepthSteps DEF Rise
    <2> HIDE DEF T
    <2> QED
      BY <2>1, <2>2, <2>3, <2>4, <2>5, <2>6
  <1> HIDE DEF T
  <1>3. \A j \in Nat : j \in T
    BY <1>1, <1>2, Induction
  <1> QED
    BY <1>3 DEF T, PartDepth

(* Two texts joined.                                                       *)
Adjoined(l, m, a, b, t) ==
  /\ t \in Texts /\ Len(t) = a + b
  /\ \A i \in 1..a : t[i] = l[i]
  /\ \A i \in 1..b : t[a + i] = m[i]
  /\ \A j \in 0..a : Depth(t, j) = Depth(l, j)
  /\ \A j \in 0..b : Depth(t, a + j) = Depth(l, a) + Depth(m, j)

(* One goes on where the other ends.                                       *)
LEMMA JoinedIs ==
  ASSUME NEW l \in Texts, NEW m \in Texts, NEW a \in Nat, NEW b \in Nat, a = Len(l), b = Len(m),
         NEW t, t = l \o m
  PROVE  Adjoined(l, m, a, b, t)
  <1>1. OneBehind(Signs, l, m, a, b)
    BY Joins DEF Texts
  <1>2. /\ t \in Texts /\ Len(t) = a + b
        /\ (\A j \in 1..a : t[j] = l[j]) /\ \A j \in 1..b : t[a + j] = m[j]
    BY <1>1 DEF OneBehind, Texts
  <1>3. PartDepth(t, l, 0, a)
    <2>1. Part(t, l, 0, a)
      BY <1>2 DEF Part
    <2> QED
      BY <2>1, DepthWithin
  <1>4. \A j \in 0..a : Depth(t, j) = Depth(l, j)
    BY <1>3, DepthSteps DEF PartDepth
  <1>5. \A j \in 0..b : Depth(t, a + j) = Depth(t, a) + Depth(m, j)
    <2>1. Part(t, m, a, b)
      BY <1>2 DEF Part
    <2>2. PartDepth(t, m, a, b)
      BY <2>1, DepthWithin
    <2> QED
      BY <2>2 DEF PartDepth
  <1>6. a \in 0..a
    OBVIOUS
  <1> QED
    BY <1>2, <1>4, <1>5, <1>6 DEF Adjoined

(* A text that has grown.                                                  *)
Grown(l, c, n, t) ==
  /\ t \in Texts /\ Len(t) = n + 1 /\ t[n + 1] = c
  /\ \A i \in 1..n : t[i] = l[i]
  /\ \A j \in 0..n : Depth(t, j) = Depth(l, j)
  /\ Depth(t, n + 1) = Depth(l, n) + Rise(c)

(* A character is appended.                                                *)
LEMMA Grows ==
  ASSUME NEW l \in Texts, NEW c \in Signs, NEW n \in Nat, n = Len(l), NEW t, t = Append(l, c)
  PROVE  Grown(l, c, n, t)
  <1>1. t \in Texts /\ Len(t) = n + 1 /\ (\A j \in 1..n : t[j] = l[j]) /\ t[n + 1] = c
    BY AppendProperties DEF Texts
  <1>2. PartDepth(t, l, 0, n)
    <2>1. Part(t, l, 0, n)
      BY <1>1 DEF Part
    <2> QED
      BY <2>1, DepthWithin
  <1>3. \A j \in 0..n : Depth(t, j) = Depth(l, j)
    BY <1>2, DepthSteps DEF PartDepth
  <1>4. Depth(t, n + 1) = Depth(t, n) + Rise(c)
    BY <1>1, DepthSteps
  <1>5. n \in 0..n
    OBVIOUS
  <1> QED
    BY <1>1, <1>3, <1>4, <1>5 DEF Grown

(* Balanced, from the beginning on.                                        *)
LEMMA BalancedIs ==
  ASSUME NEW l \in Texts
  PROVE  Balanced(l) <=> (\A j \in 0..Len(l) : Depth(l, j) >= 0) /\ Depth(l, Len(l)) = 0
  <1>1. Len(l) \in Nat /\ DOMAIN l = 1..Len(l)
    BY LenProperties DEF Texts
  <1>2. Depth(l, 0) = 0
    BY DepthSteps
  <1> QED
    BY <1>1, <1>2 DEF Balanced

Parentheses == {"(", ")"}
Level(l) == \A i \in 1..Len(l) : l[i] \notin Parentheses

(* Without parentheses.                                                    *)
LEMMA LevelIs ==
  ASSUME NEW l \in Texts, Level(l)
  PROVE  \A j \in 0..Len(l) : Depth(l, j) = 0
  <1>1. PICK n \in Nat : n = Len(l)
    BY LenProperties DEF Texts
  <1> DEFINE T == {j \in Nat : j <= n => Depth(l, j) = 0}
  <1>2. 0 \in T
    BY DepthSteps
  <1>3. ASSUME NEW j \in Nat, j \in T
        PROVE  j + 1 \in T
    <2>1. Depth(l, j + 1) = Depth(l, j) + Rise(l[j + 1])
      BY DepthSteps
    <2>2. j + 1 <= n => l[j + 1] \notin {"(", ")"}
      BY <1>1 DEF Level, Parentheses
    <2>3. j + 1 <= n => Rise(l[j + 1]) = 0
      BY <2>2 DEF Rise
    <2> QED
      BY <1>3, <2>1, <2>3
  <1> HIDE DEF T
  <1>4. \A j \in Nat : j \in T
    BY <1>2, <1>3, Induction
  <1> QED
    BY <1>1, <1>4 DEF T

(* What is balanced stays so.                                              *)
LEMMA StaysBalanced ==
  /\ <<>> \in Texts /\ Balanced(<<>>)
  /\ \A l \in Texts, m \in Texts : Balanced(l) /\ Level(m) => Balanced(l \o m)
  /\ \A l \in Texts, c \in Signs \ Parentheses : Balanced(l) => Balanced(Append(l, c))
  <1>1. <<>> \in Texts /\ Balanced(<<>>)
    <2>1. <<>> \in Texts /\ Len(<<>>) = 0
      BY EmptySeq DEF Texts
    <2>2. PICK t : t = <<>>
      OBVIOUS
    <2>3. Depth(t, 0) = 0
      BY DepthSteps
    <2> QED
      BY <2>1, <2>2, <2>3, BalancedIs
  <1>2. ASSUME NEW l \in Texts, NEW m \in Texts, Balanced(l), Level(m)
        PROVE  Balanced(l \o m)
    <2>1. PICK a \in Nat : a = Len(l)
      BY LenProperties DEF Texts
    <2>2. PICK b \in Nat : b = Len(m)
      BY LenProperties DEF Texts
    <2>3. PICK t : t = l \o m
      OBVIOUS
    <2>4. Adjoined(l, m, a, b, t)
      BY <2>1, <2>2, <2>3, JoinedIs
    <2>5. /\ t \in Texts /\ Len(t) = a + b
          /\ \A j \in 0..a : Depth(t, j) = Depth(l, j)
          /\ \A j \in 0..b : Depth(t, a + j) = Depth(l, a) + Depth(m, j)
      BY <2>4 DEF Adjoined
    <2>6. \A j \in 0..b : Depth(m, j) = 0
      BY <1>2, <2>2, LevelIs
    <2>7. (\A j \in 0..a : Depth(l, j) >= 0) /\ Depth(l, a) = 0
      BY <1>2, <2>1, BalancedIs
    <2>8. \A j \in 0..b : Depth(t, a + j) = 0
      BY <2>5, <2>6, <2>7
    <2>9. \A j \in 0..(a + b) : Depth(t, j) >= 0
      <3> TAKE j \in 0..(a + b)
      <3>1. CASE j <= a
        BY <2>5, <2>7, <3>1
      <3>2. CASE j > a
        <4>1. PICK i \in 0..b : j = a + i
          <5>1. j - a \in 0..b /\ j = a + (j - a)
            BY <3>2
          <5> QED
            BY <5>1
        <4> QED
          BY <2>8, <4>1
      <3> QED
        BY <3>1, <3>2
    <2>10. Depth(t, a + b) = 0
      BY <2>8
    <2> QED
      BY <2>3, <2>5, <2>9, <2>10, BalancedIs
  <1>3. ASSUME NEW l \in Texts, NEW c \in Signs \ Parentheses, Balanced(l)
        PROVE  Balanced(Append(l, c))
    <2>1. PICK a \in Nat : a = Len(l)
      BY LenProperties DEF Texts
    <2>2. PICK t : t = Append(l, c)
      OBVIOUS
    <2>3. Grown(l, c, a, t)
      BY <2>1, <2>2, Grows
    <2>4. /\ t \in Texts /\ Len(t) = a + 1
          /\ (\A j \in 0..a : Depth(t, j) = Depth(l, j)) /\ Depth(t, a + 1) = Depth(l, a) + Rise(c)
      BY <2>3 DEF Grown
    <2>5. (\A j \in 0..a : Depth(l, j) >= 0) /\ Depth(l, a) = 0 /\ Rise(c) = 0
      BY <1>3, <2>1, BalancedIs DEF Rise, Parentheses
    <2>6. \A j \in 0..(a + 1) : Depth(t, j) >= 0
      <3> TAKE j \in 0..(a + 1)
      <3>1. j \in 0..a \/ j = a + 1
        OBVIOUS
      <3> QED
        BY <2>4, <2>5, <3>1
    <2>7. Depth(t, a + 1) = 0
      BY <2>4, <2>5
    <2> QED
      BY <2>2, <2>4, <2>6, <2>7, BalancedIs
  <1> QED
    BY <1>1, <1>2, <1>3

-----------------------------------------------------------------------------
(* A group behind a text.                                                  *)
Enclosed(y, n) == Append(Append(y, "(") \o n, ")")

Grouped(y, n, a, b, e) ==
  /\ e \in Texts /\ Len(e) = a + b + 2
  /\ \A i \in 1..a : e[i] = y[i]
  /\ e[a + 1] = "("
  /\ \A i \in 1..b : e[a + 1 + i] = n[i]
  /\ e[a + b + 2] = ")"
  /\ \A j \in 0..a : Depth(e, j) = Depth(y, j)
  /\ \A j \in 0..b : Depth(e, a + 1 + j) = Depth(y, a) + 1 + Depth(n, j)
  /\ Depth(e, a + b + 2) = Depth(y, a) + Depth(n, b)

(* Its characters, and its depth.                                          *)
LEMMA EnclosedIs ==
  ASSUME NEW y \in Texts, NEW n \in Texts, NEW a \in Nat, NEW b \in Nat, a = Len(y), b = Len(n),
         NEW e, e = Enclosed(y, n)
  PROVE  Grouped(y, n, a, b, e)
  <1>1. PICK u : u = Append(y, "(")
    OBVIOUS
  <1>2. PICK v : v = u \o n
    OBVIOUS
  <1>3. e = Append(v, ")")
    BY <1>1, <1>2 DEF Enclosed
  <1>4. "(" \in Signs /\ ")" \in Signs
    BY DEF Signs
  <1>5. Grown(y, "(", a, u)
    BY <1>1, <1>4, Grows
  <1>6. PICK c \in Nat : c = a + 1
    OBVIOUS
  <1>7. u \in Texts /\ Len(u) = c
    BY <1>5, <1>6 DEF Grown
  <1>8. Adjoined(u, n, c, b, v)
    BY <1>2, <1>7, JoinedIs
  <1>9. PICK d \in Nat : d = c + b
    OBVIOUS
  <1>10. v \in Texts /\ Len(v) = d
    BY <1>8, <1>9 DEF Adjoined
  <1>11. Grown(v, ")", d, e)
    BY <1>3, <1>4, <1>10, Grows
  <1>12. Rise("(") = 1 /\ Rise(")") = 0 - 1
    BY DEF Rise
  <1>13. Depth(y, a) \in Int /\ \A j \in 0..b : Depth(n, j) \in Int
    BY DepthSteps
  <1>14. /\ e \in Texts /\ Len(e) = d + 1 /\ e[d + 1] = ")"
         /\ \A i \in 1..d : e[i] = v[i]
         /\ \A j \in 0..d : Depth(e, j) = Depth(v, j)
         /\ Depth(e, d + 1) = Depth(v, d) + Rise(")")
    BY <1>11 DEF Grown
  <1>15. /\ \A i \in 1..c : v[i] = u[i]
         /\ \A i \in 1..b : v[c + i] = n[i]
         /\ \A j \in 0..c : Depth(v, j) = Depth(u, j)
         /\ \A j \in 0..b : Depth(v, c + j) = Depth(u, c) + Depth(n, j)
    BY <1>8 DEF Adjoined
  <1>16. /\ \A i \in 1..a : u[i] = y[i]
         /\ u[c] = "("
         /\ \A j \in 0..a : Depth(u, j) = Depth(y, j)
         /\ Depth(u, c) = Depth(y, a) + 1
    BY <1>5, <1>6, <1>12 DEF Grown
  <1>17. 1..a \subseteq 1..c /\ 1..c \subseteq 1..d /\ 0..a \subseteq 0..c /\ 0..c \subseteq 0..d /\ c \in 1..c
    BY <1>6, <1>9
  <1>18. (\A i \in 1..a : e[i] = y[i]) /\ e[c] = "("
    BY <1>14, <1>15, <1>16, <1>17
  <1>19. \A i \in 1..b : e[c + i] = n[i]
    <2> TAKE i \in 1..b
    <2>1. c + i \in 1..d
      BY <1>9
    <2> QED
      BY <1>14, <1>15, <2>1
  <1>20. \A j \in 0..a : Depth(e, j) = Depth(y, j)
    BY <1>14, <1>15, <1>16, <1>17
  <1>21. \A j \in 0..b : Depth(e, c + j) = Depth(y, a) + 1 + Depth(n, j)
    <2> TAKE j \in 0..b
    <2>1. c + j \in 0..d
      BY <1>9
    <2>2. Depth(e, c + j) = Depth(u, c) + Depth(n, j)
      BY <1>14, <1>15, <2>1
    <2> QED
      BY <1>16, <2>2
  <1>22. Depth(e, d + 1) = Depth(y, a) + Depth(n, b)
    <2>1. Depth(v, d) = Depth(u, c) + Depth(n, b)
      <3>1. b \in 0..b
        OBVIOUS
      <3> QED
        BY <1>9, <1>15, <3>1
    <2>2. Depth(u, c) = Depth(y, a) + 1
      BY <1>16
    <2>3. Depth(e, d + 1) = Depth(v, d) + (0 - 1)
      BY <1>12, <1>14
    <2>4. Depth(y, a) \in Int /\ Depth(n, b) \in Int
      BY <1>13
    <2> QED
      BY <2>1, <2>2, <2>3, <2>4
  <1>23. d + 1 = a + b + 2 /\ c = a + 1
    BY <1>6, <1>9
  <1> QED
    BY <1>14, <1>18, <1>19, <1>20, <1>21, <1>22, <1>23 DEF Grouped

(* It is balanced when both are.                                           *)
LEMMA BalancedEnclosed ==
  ASSUME NEW y \in Texts, NEW n \in Texts, Balanced(y), Balanced(n)
  PROVE  Balanced(Enclosed(y, n))
  <1>1. PICK a \in Nat : a = Len(y)
    BY LenProperties DEF Texts
  <1>2. PICK b \in Nat : b = Len(n)
    BY LenProperties DEF Texts
  <1>3. PICK e : e = Enclosed(y, n)
    OBVIOUS
  <1>4. /\ e \in Texts /\ Len(e) = a + b + 2
        /\ \A j \in 0..a : Depth(e, j) = Depth(y, j)
        /\ \A j \in 0..b : Depth(e, a + 1 + j) = Depth(y, a) + 1 + Depth(n, j)
        /\ Depth(e, a + b + 2) = Depth(y, a) + Depth(n, b)
    <2>1. Grouped(y, n, a, b, e)
      BY <1>1, <1>2, <1>3, EnclosedIs
    <2> QED
      BY <2>1 DEF Grouped
  <1>5. (\A j \in 0..a : Depth(y, j) >= 0) /\ Depth(y, a) = 0
    BY <1>1, BalancedIs
  <1>6. (\A j \in 0..b : Depth(n, j) >= 0) /\ Depth(n, b) = 0
    BY <1>2, BalancedIs
  <1>7. \A j \in 0..b : Depth(n, j) \in Int
    BY DepthSteps
  <1>8. ASSUME NEW j \in 0..(a + b + 2)
        PROVE  Depth(e, j) >= 0
    <2>1. CASE j <= a
      BY <1>4, <1>5, <2>1
    <2>2. CASE j > a /\ j < a + b + 2
      <3>1. PICK i \in 0..b : j = a + 1 + i
        <4>1. j - (a + 1) \in 0..b /\ j = a + 1 + (j - (a + 1))
          BY <2>2
        <4> QED
          BY <4>1
      <3>2. Depth(e, a + 1 + i) = Depth(y, a) + 1 + Depth(n, i)
        BY <1>4
      <3> QED
        BY <1>5, <1>6, <1>7, <3>1, <3>2
    <2>3. CASE j = a + b + 2
      BY <1>4, <1>5, <1>6, <2>3
    <2> QED
      BY <2>1, <2>2, <2>3
  <1> QED
    BY <1>3, <1>4, <1>5, <1>6, <1>8, BalancedIs

(* A text ends in one group only.                                          *)
LEMMA OneGroup ==
  ASSUME NEW y \in Texts, NEW n \in Texts, NEW z \in Texts, NEW m \in Texts,
         Balanced(n), Balanced(m), Enclosed(y, n) = Enclosed(z, m)
  PROVE  y = z /\ n = m
  <1>1. PICK a \in Nat : a = Len(y)
    BY LenProperties DEF Texts
  <1>2. PICK b \in Nat : b = Len(n)
    BY LenProperties DEF Texts
  <1>3. PICK c \in Nat : c = Len(z)
    BY LenProperties DEF Texts
  <1>4. PICK d \in Nat : d = Len(m)
    BY LenProperties DEF Texts
  <1>5. PICK e : e = Enclosed(y, n)
    OBVIOUS
  <1>6. /\ e \in Texts /\ Len(e) = a + b + 2
        /\ \A i \in 1..a : e[i] = y[i]
        /\ \A i \in 1..b : e[a + 1 + i] = n[i]
        /\ \A j \in 0..a : Depth(e, j) = Depth(y, j)
        /\ \A j \in 0..b : Depth(e, a + 1 + j) = Depth(y, a) + 1 + Depth(n, j)
        /\ Depth(e, a + b + 2) = Depth(y, a) + Depth(n, b)
    <2>1. Grouped(y, n, a, b, e)
      BY <1>1, <1>2, <1>5, EnclosedIs
    <2> QED
      BY <2>1 DEF Grouped
  <1>7. /\ Len(e) = c + d + 2
        /\ \A i \in 1..c : e[i] = z[i]
        /\ \A i \in 1..d : e[c + 1 + i] = m[i]
        /\ \A j \in 0..c : Depth(e, j) = Depth(z, j)
        /\ \A j \in 0..d : Depth(e, c + 1 + j) = Depth(z, c) + 1 + Depth(m, j)
        /\ Depth(e, c + d + 2) = Depth(z, c) + Depth(m, d)
    <2>1. Grouped(z, m, c, d, e)
      BY <1>3, <1>4, <1>5, EnclosedIs
    <2> QED
      BY <2>1 DEF Grouped
  <1>8. a + b = c + d
    BY <1>6, <1>7
  <1>9. (\A j \in 0..b : Depth(n, j) >= 0) /\ Depth(n, b) = 0
    BY <1>2, BalancedIs
  <1>10. (\A j \in 0..d : Depth(m, j) >= 0) /\ Depth(m, d) = 0
    BY <1>4, BalancedIs
  <1>11. Depth(y, a) \in Int /\ Depth(z, c) \in Int
    BY DepthSteps
  <1>12. a + b + 2 = c + d + 2
    BY <1>8
  <1>13. Depth(y, a) = Depth(z, c)
    <2>1. Depth(e, a + b + 2) = Depth(y, a) /\ Depth(e, c + d + 2) = Depth(z, c)
      BY <1>6, <1>7, <1>9, <1>10, <1>11
    <2> QED
      BY <1>12, <2>1
  <1>14. ~(a < c)
    <2> SUFFICES ASSUME a < c
                 PROVE  FALSE
      OBVIOUS
    <2>1. PICK j \in 0..b : c = a + 1 + j
      <3>1. c - (a + 1) \in 0..b /\ c = a + 1 + (c - (a + 1))
        BY <1>8
      <3> QED
        BY <3>1
    <2>2. Depth(e, c) = Depth(y, a) + 1 + Depth(n, j)
      BY <1>6, <2>1
    <2>3. Depth(e, c) = Depth(z, c)
      BY <1>7
    <2>4. Depth(n, j) >= 0 /\ Depth(n, j) \in Int
      BY <1>9, DepthSteps
    <2> QED
      BY <1>11, <1>13, <2>2, <2>3, <2>4
  <1>15. ~(c < a)
    <2> SUFFICES ASSUME c < a
                 PROVE  FALSE
      OBVIOUS
    <2>1. PICK j \in 0..d : a = c + 1 + j
      <3>1. a - (c + 1) \in 0..d /\ a = c + 1 + (a - (c + 1))
        BY <1>8
      <3> QED
        BY <3>1
    <2>2. Depth(e, a) = Depth(z, c) + 1 + Depth(m, j)
      BY <1>7, <2>1
    <2>3. Depth(e, a) = Depth(y, a)
      BY <1>6
    <2>4. Depth(m, j) >= 0 /\ Depth(m, j) \in Int
      BY <1>10, DepthSteps
    <2> QED
      BY <1>11, <1>13, <2>2, <2>3, <2>4
  <1>16. a = c /\ b = d
    BY <1>8, <1>14, <1>15
  <1>17. (\A i \in 1..a : y[i] = z[i]) /\ \A i \in 1..b : n[i] = m[i]
    BY <1>6, <1>7, <1>16
  <1>18. y = z
    BY <1>1, <1>3, <1>16, <1>17, SeqEqual DEF Texts
  <1>19. n = m
    BY <1>2, <1>4, <1>16, <1>17, SeqEqual DEF Texts
  <1> QED
    BY <1>18, <1>19

(* The last of some characters outside of parentheses.                     *)
LEMMA LastIs ==
  ASSUME NEW l \in Texts, NEW cs, NEW p, p = LastOf(l, cs)
  PROVE  p = 0 \/ (p \in 1..Len(l) /\ l[p] \in cs /\ Depth(l, p) = 0)
  <1> DEFINE at == {i \in DOMAIN l : l[i] \in cs /\ Depth(l, i) = 0}
  <1>1. p = IF at = {} THEN 0 ELSE CHOOSE i \in at : \A j \in at : j <= i
    BY DEF LastOf
  <1>2. PICK n \in Nat : n = Len(l)
    BY LenProperties DEF Texts
  <1>3. DOMAIN l = 1..n
    BY <1>2, LenProperties DEF Texts
  <1>4. at \in SUBSET (1..n)
    BY <1>3
  <1>5. \A i \in at : i \in 1..n /\ l[i] \in cs /\ Depth(l, i) = 0
    BY <1>3
  <1> HIDE DEF at
  <1>6. CASE at # {}
    <2>1. Max(at) \in at /\ \A x \in at : x <= Max(at)
      BY <1>4, <1>6, Greatest
    <2>2. \E i \in at : \A j \in at : j <= i
      BY <2>1
    <2>3. (CHOOSE i \in at : \A j \in at : j <= i) \in at
      BY <2>2
    <2> QED
      BY <1>1, <1>2, <1>5, <1>6, <2>3
  <1> QED
    BY <1>1, <1>6

(* Where the group at the end of a text opens.                             *)
LEMMA OpeningIs ==
  ASSUME NEW l \in Texts, Balanced(l), NEW n \in Nat, n = Len(l), n # 0, l[n] = ")", NEW i, i = Opening(l)
  PROVE  i \in 1..(n - 1) /\ l[i] = "("
  <1> DEFINE S == {k \in 1..n : Depth(l, k - 1) = 0}
      Opens(k) == l[k] = "(" /\ Depth(l, k) = 1 /\ \A j \in k..(n - 1) : Depth(l, j) >= 1
  <1>1. DOMAIN l = 1..n /\ \A j \in 1..n : l[j] \in Signs
    BY LenProperties DEF Texts
  <1>2. (\A j \in 0..n : Depth(l, j) >= 0) /\ Depth(l, n) = 0
    BY BalancedIs
  <1>3. \A j \in 1..n : Depth(l, j) = Depth(l, j - 1) + Rise(l[j]) /\ Depth(l, j - 1) \in Int
    <2> TAKE j \in 1..n
    <2>1. PICK k \in Nat : k = j - 1
      OBVIOUS
    <2>2. Depth(l, k + 1) = Depth(l, k) + Rise(l[k + 1]) /\ Depth(l, k) \in Int
      BY DepthSteps
    <2>3. k + 1 = j
      BY <2>1
    <2> QED
      BY <2>1, <2>2, <2>3
  <1>4. 1 \in S /\ S \in SUBSET (1..n)
    <2>1. Depth(l, 1 - 1) = 0
      BY DepthSteps
    <2> QED
      BY <2>1
  <1>5. PICK k \in S : \A j \in S : j <= k
    <2>1. S # {}
      BY <1>4
    <2> HIDE DEF S
    <2>2. Max(S) \in S /\ \A x \in S : x <= Max(S)
      BY <1>4, <2>1, Greatest
    <2> QED
      BY <2>2
  <1>6. k \in 1..n /\ Depth(l, k - 1) = 0
    BY <1>5
  <1>7. \A j \in k..(n - 1) : Depth(l, j) >= 1
    <2> TAKE j \in k..(n - 1)
    <2>1. Depth(l, j) # 0
      <3> SUFFICES ASSUME Depth(l, j) = 0
                   PROVE  FALSE
        OBVIOUS
      <3>1. PICK m \in 1..n : m = j + 1
        BY <1>6
      <3>2. m - 1 = j
        BY <3>1
      <3>3. m \in S
        BY <3>1, <3>2
      <3> QED
        BY <1>5, <3>1, <3>3
    <2>2. j \in 0..n /\ j \in Nat
      BY <1>6
    <2>3. Depth(l, j) >= 0 /\ Depth(l, j) \in Int
      BY <1>2, <2>2, DepthSteps
    <2> QED
      BY <2>1, <2>3
  <1>8. k # n
    <2> SUFFICES ASSUME k = n
                 PROVE  FALSE
      OBVIOUS
    <2>1. Depth(l, n) = Depth(l, n - 1) + Rise(")")
      BY <1>3
    <2> QED
      BY <1>2, <1>6, <2>1 DEF Rise
  <1>9. k \in 1..(n - 1) /\ Depth(l, k) >= 1
    BY <1>6, <1>7, <1>8
  <1>10. Depth(l, k) = Rise(l[k])
    <2>1. Depth(l, k) = Depth(l, k - 1) + Rise(l[k])
      BY <1>3, <1>6
    <2>2. Rise(l[k]) \in Int
      BY DEF Rise
    <2> QED
      BY <1>6, <2>1, <2>2
  <1>11. Opens(k)
    BY <1>7, <1>9, <1>10 DEF Rise
  <1>12. i = CHOOSE j \in 1..n : Opens(j)
    BY <1>1 DEF Opening
  <1>13. i \in 1..n /\ Opens(i)
    <2> HIDE DEF Opens
    <2> QED
      BY <1>6, <1>11, <1>12
  <1>14. i # n
    BY <1>13
  <1> QED
    BY <1>13, <1>14

-----------------------------------------------------------------------------
(* A text, cut at a character.                                             *)
CutAt(l, p, i, m) ==
  /\ i \in Texts /\ Len(i) = p - 1 /\ \A j \in 1..(p - 1) : i[j] = l[j]
  /\ m \in Texts /\ Len(m) = Len(l) - p /\ \A j \in 1..(Len(l) - p) : m[j] = l[p + j]

(* A text is what is before a place, the character, and what is behind.    *)
LEMMA CutIs ==
  ASSUME NEW l \in Texts, NEW p \in 1..Len(l)
  PROVE  CutAt(l, p, Before(l, p), Behind(l, p)) /\ l = Append(Before(l, p), l[p]) \o Behind(l, p)
  <1>1. PICK n \in Nat : n = Len(l)
    BY LenProperties DEF Texts
  <1>2. \A j \in 1..n : l[j] \in Signs
    BY <1>1, ElementOfSeq DEF Texts
  <1>3. PICK k \in Nat : k = p - 1
    BY <1>1
  <1>4. PICK i : i = Before(l, p)
    OBVIOUS
  <1>5. PICK m : m = Behind(l, p)
    OBVIOUS
  <1>6. i \in Texts /\ Len(i) = k /\ \A j \in 1..k : i[j] = l[j]
    <2>1. i = SubSeq(l, 1, k)
      BY <1>3, <1>4 DEF Before
    <2>2. \A j \in 1..k : l[j] \in Signs
      BY <1>1, <1>2, <1>3
    <2>3. SubSeq(l, 1, k) \in Seq(Signs) /\ Len(SubSeq(l, 1, k)) = k
          /\ \A j \in 1..k : SubSeq(l, 1, k)[j] = l[j]
      BY <2>2, SubSeqProperties
    <2> QED
      BY <2>1, <2>3 DEF Texts
  <1>7. m \in Texts /\ Len(m) = n - p /\ \A j \in 1..(n - p) : m[j] = l[p + j]
    <2>1. m = SubSeq(l, p + 1, n)
      BY <1>1, <1>5 DEF Behind
    <2>2. \A j \in (p + 1)..n : l[j] \in Signs
      BY <1>1, <1>2
    <2>3. p + 1 \in Int /\ n \in Int /\ n - (p + 1) + 1 = n - p /\ (p + 1 <= n <=> n - p > 0) /\ n - p \in Nat
      BY <1>1
    <2>4. SubSeq(l, p + 1, n) \in Seq(Signs) /\ Len(SubSeq(l, p + 1, n)) = n - p
          /\ \A j \in 1..(n - p) : SubSeq(l, p + 1, n)[j] = l[p + 1 + j - 1]
      BY <2>2, <2>3, SubSeqProperties
    <2>5. \A j \in 1..(n - p) : p + 1 + j - 1 = p + j
      BY <1>1
    <2> QED
      BY <2>1, <2>4, <2>5 DEF Texts
  <1>8. l = Append(i, l[p]) \o m
    <2>1. PICK u : u = Append(i, l[p])
      OBVIOUS
    <2>2. Grown(i, l[p], k, u)
      BY <1>1, <1>2, <1>6, <2>1, Grows
    <2>3. u \in Texts /\ Len(u) = p /\ u[p] = l[p] /\ \A j \in 1..k : u[j] = l[j]
      BY <1>3, <1>6, <2>2 DEF Grown
    <2>4. n - p \in Nat /\ p \in Nat
      BY <1>1
    <2>5. PICK d \in Nat : d = n - p
      BY <2>4
    <2>6. PICK t : t = u \o m
      OBVIOUS
    <2>7. Adjoined(u, m, p, d, t)
      BY <1>1, <1>7, <2>3, <2>4, <2>6, <2>5, JoinedIs
    <2>8. /\ t \in Texts /\ Len(t) = p + d
          /\ \A j \in 1..p : t[j] = u[j]
          /\ \A j \in 1..d : t[p + j] = m[j]
      BY <2>7 DEF Adjoined
    <2>9. \A j \in 1..n : t[j] = l[j]
      <3> TAKE j \in 1..n
      <3>1. CASE j <= k
        BY <1>3, <2>3, <2>8, <3>1
      <3>2. CASE j = p
        BY <2>3, <2>8, <3>2
      <3>3. CASE j > p
        <4>1. PICK e \in 1..d : j = p + e
          <5>1. j - p \in 1..d /\ j = p + (j - p)
            BY <1>1, <2>5, <3>3
          <5> QED
            BY <5>1
        <4>2. t[p + e] = m[e] /\ m[e] = l[p + e]
          BY <1>7, <2>8, <2>5, <4>1
        <4> QED
          BY <4>1, <4>2
      <3> QED
        BY <1>3, <3>1, <3>2, <3>3
    <2>10. Len(t) = n
      BY <1>1, <2>8, <2>5
    <2>11. t = l
      BY <1>1, <2>8, <2>9, <2>10, SeqEqual DEF Texts
    <2> QED
      BY <2>1, <2>6, <2>11
  <1> QED
    BY <1>1, <1>3, <1>4, <1>5, <1>6, <1>7, <1>8 DEF CutAt

(* A text that ends in a group m.                                          *)
EndsIn(l, n, k, m) ==
  /\ l = Enclosed(Before(l, k), m) /\ Before(l, k) \in Texts /\ Len(Before(l, k)) = k - 1
  /\ m \in Texts /\ Len(m) = n - 1 - k
  /\ \A j \in 1..(n - 1 - k) : m[j] = l[k + j]

(* One that has a parenthesis and closes it at the end.                    *)
LEMMA EnclosedAt ==
  ASSUME NEW l \in Texts, NEW n \in Nat, n = Len(l), NEW k \in 1..(n - 1), l[k] = "(", l[n] = ")",
         NEW m, m = SubSeq(l, k + 1, n - 1)
  PROVE  EndsIn(l, n, k, m)
  <1>1. PICK y : y = Before(l, k)
    OBVIOUS
  <1>2. y \in Texts /\ Len(y) = k - 1 /\ \A j \in 1..(k - 1) : y[j] = l[j]
    <2>1. k \in 1..Len(l)
      OBVIOUS
    <2>2. CutAt(l, k, Before(l, k), Behind(l, k))
      BY <2>1, CutIs
    <2> QED
      BY <1>1, <2>2 DEF CutAt
  <1>3. PICK a \in Nat : a = k - 1
    OBVIOUS
  <1>4. n - 1 - k \in Nat
    OBVIOUS
  <1>5. PICK b \in Nat : b = n - 1 - k
    BY <1>4
  <1>6. m \in Texts /\ Len(m) = b /\ \A j \in 1..b : m[j] = l[k + j]
    <2>1. \A j \in (k + 1)..(n - 1) : l[j] \in Signs
      BY ElementOfSeq DEF Texts
    <2>2. k + 1 \in Int /\ n - 1 \in Int /\ (n - 1) - (k + 1) + 1 = b /\ (k + 1 <= n - 1 <=> b > 0)
      BY <1>5
    <2>3. PICK u : u = SubSeq(l, k + 1, n - 1)
      OBVIOUS
    <2>4. u \in Seq(Signs) /\ Len(u) = b /\ \A j \in 1..b : u[j] = l[k + 1 + j - 1]
      BY <2>1, <2>2, <2>3, SubSeqProperties
    <2>5. \A j \in 1..b : k + 1 + j - 1 = k + j
      BY <1>5
    <2> QED
      BY <2>3, <2>4, <2>5 DEF Texts
  <1>7. PICK e : e = Enclosed(y, m)
    OBVIOUS
  <1>8. Grouped(y, m, a, b, e)
    BY <1>2, <1>3, <1>6, <1>7, EnclosedIs
  <1>9. a + 1 = k /\ a + b + 2 = n
    BY <1>3, <1>5
  <1>10. /\ e \in Texts /\ Len(e) = n
         /\ \A i \in 1..a : e[i] = y[i]
         /\ e[k] = "("
         /\ \A i \in 1..b : e[k + i] = m[i]
         /\ e[n] = ")"
    BY <1>8, <1>9 DEF Grouped
  <1>11. \A j \in 1..n : e[j] = l[j]
    <2> TAKE j \in 1..n
    <2>1. CASE j <= a
      BY <1>2, <1>3, <1>10, <2>1
    <2>2. CASE j = k \/ j = n
      BY <1>10, <2>2
    <2>3. CASE j > k /\ j < n
      <3>1. PICK i \in 1..b : j = k + i
        <4>1. j - k \in 1..b /\ j = k + (j - k)
          BY <1>5, <2>3
        <4> QED
          BY <4>1
      <3> QED
        BY <1>6, <1>10, <3>1
    <2> QED
      BY <1>3, <2>1, <2>2, <2>3
  <1>12. e = l
    BY <1>10, <1>11, SeqEqual DEF Texts
  <1> QED
    BY <1>1, <1>2, <1>5, <1>6, <1>7, <1>12 DEF EndsIn

(* A function defined by its own values at what is smaller.                *)
Regresses(D, V, size, G) ==
  /\ size \in [D -> Nat] /\ G \in [[D -> V] -> [D -> V]]
  /\ \A f \in [D -> V], g \in [D -> V], d \in D :
       (\A m \in D : size[m] < size[d] => f[m] = g[m]) => G[f][d] = G[g][d]

(* There is one.                                                           *)
LEMMA Solved ==
  ASSUME NEW D, NEW V, NEW size, NEW G, Regresses(D, V, size, G), NEW b \in V
  PROVE  \E f \in [D -> V] : f = G[f]
  <1> size \in [D -> Nat] /\ G \in [[D -> V] -> [D -> V]]
    BY DEF Regresses
  <1> DEFINE Upto(n, f) == \A d \in D : size[d] < n => f[d] = G[f][d]
      N == {n \in Nat : \E f \in [D -> V] : Upto(n, f)}
      best == [n \in Nat |-> CHOOSE f \in [D -> V] : Upto(n, f)]
      h == [d \in D |-> best[size[d] + 1][d]]
  <1>1. 0 \in N
    <2>1. [d \in D |-> b] \in [D -> V] /\ Upto(0, [d \in D |-> b])
      OBVIOUS
    <2> HIDE DEF Upto
    <2> QED
      BY <2>1
  <1>2. ASSUME NEW n \in Nat, n \in N
        PROVE  n + 1 \in N
    <2>1. PICK f \in [D -> V] : Upto(n, f)
      BY <1>2
    <2>2. PICK g \in [D -> V] : g = G[f]
      BY <2>1
    <2>3. ASSUME NEW d \in D, size[d] < n + 1
          PROVE  g[d] = G[g][d]
      <3>1. \A m \in D : size[m] < size[d] => f[m] = g[m]
        <4> TAKE m \in D
        <4>1. size[m] \in Nat /\ size[d] \in Nat
          OBVIOUS
        <4>2. size[m] < size[d] => size[m] < n
          BY <2>3, <4>1
        <4> QED
          BY <2>1, <2>2, <4>2
      <3>2. G[f][d] = G[g][d]
        BY <2>1, <2>2, <3>1 DEF Regresses
      <3> QED
        BY <2>2, <3>2
    <2>4. Upto(n + 1, g)
      BY <2>3
    <2> HIDE DEF Upto
    <2> QED
      BY <2>2, <2>4
  <1>3. \A n \in Nat : n \in N
    <2> HIDE DEF N
    <2> QED
      BY <1>1, <1>2, Induction
  <1>4. \A n \in Nat : best[n] \in [D -> V] /\ Upto(n, best[n])
    <2> TAKE n \in Nat
    <2>1. \E f \in [D -> V] : Upto(n, f)
      BY <1>3
    <2>2. best[n] = CHOOSE f \in [D -> V] : Upto(n, f)
      OBVIOUS
    <2> HIDE DEF Upto, best
    <2> QED
      BY <2>1, <2>2
  <1>5. ASSUME NEW f \in [D -> V], NEW g \in [D -> V], NEW n \in Nat, Upto(n, f), Upto(n, g)
        PROVE  \A d \in D : size[d] < n => f[d] = g[d]
    <2> DEFINE T == {k \in Nat : k <= n => \A d \in D : size[d] < k => f[d] = g[d]}
    <2>1. 0 \in T
      OBVIOUS
    <2>2. ASSUME NEW k \in Nat, k \in T
          PROVE  k + 1 \in T
      <3> SUFFICES ASSUME k + 1 <= n, NEW d \in D, size[d] < k + 1
                   PROVE  f[d] = g[d]
        OBVIOUS
      <3>1. size[d] \in Nat /\ size[d] < n
        OBVIOUS
      <3>2. \A m \in D : size[m] < size[d] => f[m] = g[m]
        <4> TAKE m \in D
        <4>1. size[m] \in Nat
          OBVIOUS
        <4>2. size[m] < size[d] => size[m] < k
          BY <3>1, <4>1
        <4>3. k <= n
          OBVIOUS
        <4> QED
          BY <2>2, <4>2, <4>3
      <3>3. G[f][d] = G[g][d]
        BY <3>2 DEF Regresses
      <3> QED
        BY <1>5, <3>1, <3>3
    <2> HIDE DEF T
    <2>3. \A k \in Nat : k \in T
      BY <2>1, <2>2, Induction
    <2>4. n \in T /\ n <= n
      BY <2>3
    <2> QED
      BY <2>4 DEF T
  <1> HIDE DEF best
  <1>6. h \in [D -> V] /\ \A d \in D : h[d] = best[size[d] + 1][d]
    <2>1. \A d \in D : size[d] + 1 \in Nat
      OBVIOUS
    <2> QED
      BY <1>4, <2>1
  <1> HIDE DEF h
  <1>7. ASSUME NEW d \in D
        PROVE  h[d] = G[h][d]
    <2>1. PICK n \in Nat : n = size[d] + 1
      OBVIOUS
    <2>2. PICK g \in [D -> V] : g = best[n] /\ Upto(n, g)
      BY <1>4
    <2>3. \A m \in D : size[m] < size[d] => h[m] = g[m]
      <3> SUFFICES ASSUME NEW m \in D, size[m] < size[d]
                   PROVE  h[m] = g[m]
        OBVIOUS
      <3>1. PICK k \in Nat : k = size[m] + 1
        OBVIOUS
      <3>2. PICK f \in [D -> V] : f = best[k] /\ Upto(k, f)
        BY <1>4
      <3>3. size[m] \in Nat /\ size[d] \in Nat
        OBVIOUS
      <3>4. Upto(k, g)
        <4>1. \A c \in D : size[c] \in Nat
          OBVIOUS
        <4>2. \A c \in D : size[c] < k => size[c] < n
          BY <2>1, <3>1, <3>3, <4>1
        <4> QED
          BY <2>2, <4>2
      <3>5. \A c \in D : size[c] < k => f[c] = g[c]
        <4> HIDE DEF Upto
        <4> QED
          BY <1>5, <2>2, <3>2, <3>4
      <3>6. size[m] < k
        BY <3>1, <3>3
      <3> QED
        BY <1>6, <3>1, <3>2, <3>5, <3>6
    <2>4. G[h][d] = G[g][d]
      BY <1>6, <2>2, <2>3 DEF Regresses
    <2>5. h[d] = g[d]
      BY <1>6, <2>1, <2>2
    <2>6. g[d] = G[g][d]
      <3>1. size[d] < n
        <4>1. size[d] \in Nat
          OBVIOUS
        <4> QED
          BY <2>1, <4>1
      <3> QED
        BY <2>2, <3>1
    <2> QED
      BY <2>4, <2>5, <2>6
  <1>8. h = G[h]
    <2>1. G[h] \in [D -> V]
      BY <1>6
    <2> QED
      BY <1>6, <1>7, <2>1
  <1> QED
    BY <1>6, <1>8

-----------------------------------------------------------------------------
(* What a line means: a number that fits the host, or that it means none.  *)
Readings == [sum : 0..Host, line : 0..Host]

(* A number is a sequence of digits, and a short one is what it reads.     *)
LEMMA NumeralIs ==
  ASSUME NEW S, NEW m \in Seq(S)
  PROVE  /\ Numeral(m) \in 0..Host
         /\ IsNumber(m) => m \in Seq(Digits) /\ Number(m) \in Single
  <1>1. ASSUME IsNumber(m)
        PROVE  m \in Seq(Digits)
    <2>1. \A i \in DOMAIN m : m[i] \in Digits
      BY <1>1 DEF IsNumber
    <2>2. DOMAIN m = 1..Len(m) /\ Len(m) \in Nat /\ m = [i \in 1..Len(m) |-> m[i]]
      BY LenProperties
    <2> QED
      BY <2>1, <2>2, SeqDef
  <1>2. IsNumber(m) => Number(m) \in Single
    BY <1>1, NumberIs
  <1>3. Single \subseteq 0..Host /\ Host \in 0..Host
    BY WordSizes DEF Wide
  <1> QED
    BY <1>1, <1>2, <1>3 DEF Numeral, Unmeant

(* What operators make of meanings.                                        *)
LEMMA AppliedIs ==
  ASSUME NEW x \in 0..Host, NEW y \in 0..Host
  PROVE  (\A op : Applied(op, x, y) \in 0..Host) /\ Added(x, y) \in 0..Host
  <1>1. Host \in 0..Host /\ Wide \subseteq 0..Host /\ Single \subseteq 0..Host
    BY WordSizes DEF Wide
  <1>2. ASSUME x # Host, y # Host
        PROVE  x \in Wide /\ y \in Wide
    BY <1>2, WordSizes DEF Wide
  <1>3. ASSUME NEW op
        PROVE  Applied(op, x, y) \in 0..Host
    <2>1. CASE x = Host \/ y = Host \/ (op = "|" /\ y = 0)
      BY <1>1, <2>1 DEF Applied, Unmeant
    <2>2. CASE x # Host /\ y # Host /\ (op = "|" => y # 0)
      <3>1. Reckoned(op, x, y) \in Wide
        BY <1>2, <2>2, ReckonedIs
      <3>2. Applied(op, x, y) = Reckoned(op, x, y)
        BY <2>2 DEF Applied, Unmeant
      <3> QED
        BY <1>1, <3>1, <3>2
    <2> QED
      BY <2>1, <2>2
  <1>4. Added(x, y) \in 0..Host
    <2>1. x \in Nat /\ y \in Nat /\ Half \in Nat
      BY WordSizes
    <2>2. RT(y) \in Nat /\ LT(y) \in Nat
      BY <2>1, Cuts
    <2>3. RT(y) * Half + LT(y) \in Nat
      BY <2>1, <2>2
    <2>4. PICK z \in Nat : z = Swapped(y)
      BY <2>3 DEF Swapped
    <2>5. x + z \in Nat
      BY <2>1
    <2>6. (x + z) % Word \in Single
      BY <2>5, Cuts
    <2> QED
      BY <1>1, <2>4, <2>6 DEF Added, Unmeant
  <1> QED
    BY <1>3, <1>4

(* Two readings that are the same for the shorter lines.                   *)
Alike(f, g, l) == \A m \in Texts : Len(m) < Len(l) => f[m] = g[m] /\ f[m] \in Readings

(* What is left of an operator and what is right of it is shorter.         *)
LEMMA PartsAlike ==
  ASSUME NEW f, NEW g, NEW l \in Texts, Alike(f, g, l), NEW p \in 1..Len(l)
  PROVE  /\ LeftOf(f, l, p) = LeftOf(g, l, p) /\ LeftOf(f, l, p) \in 0..Host
         /\ Term(f, Behind(l, p)) = Term(g, Behind(l, p)) /\ Term(f, Behind(l, p)) \in 0..Host
  <1>1. PICK n \in Nat : n = Len(l)
    BY LenProperties DEF Texts
  <1>2. CutAt(l, p, Before(l, p), Behind(l, p))
    BY CutIs
  <1>3. PICK m : m = Behind(l, p)
    OBVIOUS
  <1>4. PICK k \in Nat : k = n - p
    <2>1. n - p \in Nat
      BY <1>1
    <2> QED
      BY <2>1
  <1>5. Before(l, p) \in Texts /\ Len(Before(l, p)) = p - 1 /\ m \in Texts /\ Len(m) = k
    BY <1>1, <1>2, <1>3, <1>4 DEF CutAt
  <1>6. 0 \in 0..Host
    BY WordSizes
  <1>7. LeftOf(f, l, p) = LeftOf(g, l, p) /\ LeftOf(f, l, p) \in 0..Host
    <2>1. p - 1 < n
      BY <1>1
    <2>2. f[Before(l, p)] = g[Before(l, p)] /\ f[Before(l, p)] \in Readings
      BY <1>1, <1>5, <2>1 DEF Alike
    <2> QED
      BY <1>6, <2>2 DEF LeftOf, Readings
  <1>8. ASSUME IsGroup(m)
        PROVE  f[Inner(m)] = g[Inner(m)] /\ f[Inner(m)] \in Readings
    <2>1. m[1] = "(" /\ m[k] = ")" /\ k # 0
      BY <1>5, <1>8, EmptySeq DEF IsGroup, Texts
    <2>2. PICK i \in 1..(k - 1) : i = 1
      <3>1. k # 1
        BY <2>1
      <3> QED
        BY <2>1, <3>1
    <2>3. PICK u : u = SubSeq(m, i + 1, k - 1)
      OBVIOUS
    <2>4. u \in Texts /\ Len(u) = k - 1 - i
      <3>1. m \in Texts /\ k = Len(m) /\ m[i] = "(" /\ m[k] = ")" /\ i \in 1..(k - 1) /\ k \in Nat
        BY <1>4, <1>5, <2>1, <2>2
      <3> QED
        <4>1. EndsIn(m, k, i, u)
          BY <2>3, <3>1, EnclosedAt
        <4> QED
          BY <4>1 DEF EndsIn
    <2>5. k - 1 - i < n
      BY <1>1, <1>4, <2>2
    <2>6. u = Inner(m)
      BY <1>5, <2>2, <2>3 DEF Inner
    <2> QED
      BY <1>1, <2>4, <2>5, <2>6 DEF Alike
  <1>9. Numeral(m) \in 0..Host
    BY <1>5, NumeralIs DEF Texts
  <1> QED
    BY <1>3, <1>7, <1>8, <1>9 DEF Term, Readings

(* What a line means depends on what shorter ones mean.                    *)
LEMMA ReadAlike ==
  ASSUME NEW f, NEW g, NEW l \in Texts, Alike(f, g, l)
  PROVE  Reading(f, l) = Reading(g, l) /\ Reading(f, l) \in Readings
  <1>1. Unmeant \in 0..Host /\ [sum |-> Unmeant, line |-> Unmeant] \in Readings
    BY WordSizes DEF Unmeant, Readings
  <1> SUFFICES ASSUME Balanced(l)
               PROVE  Reading(f, l) = Reading(g, l) /\ Reading(f, l) \in Readings
    BY <1>1 DEF Reading
  <1>2. SumRead(f, l) = SumRead(g, l) /\ SumRead(f, l) \in 0..Host
    <2>1. PICK p : p = LastOf(l, Operators)
      OBVIOUS
    <2>2. p = 0 \/ p \in 1..Len(l)
      BY <2>1, LastIs
    <2>3. CASE p = 0
      <3>1. Numeral(l) \in 0..Host
        BY NumeralIs DEF Texts
      <3> QED
        BY <2>1, <2>3, <3>1 DEF SumRead
    <2>4. CASE p # 0
      <3>1. /\ LeftOf(f, l, p) = LeftOf(g, l, p) /\ LeftOf(f, l, p) \in 0..Host
            /\ Term(f, Behind(l, p)) = Term(g, Behind(l, p)) /\ Term(f, Behind(l, p)) \in 0..Host
        BY <2>2, <2>4, PartsAlike
      <3>2. Applied(l[p], LeftOf(f, l, p), Term(f, Behind(l, p))) \in 0..Host
        BY <3>1, AppliedIs
      <3> QED
        BY <1>1, <2>1, <2>4, <3>1, <3>2 DEF SumRead
    <2> QED
      BY <2>3, <2>4
  <1>3. LineRead(f, l) = LineRead(g, l) /\ LineRead(f, l) \in 0..Host
    <2>1. PICK i : i = Opening(l)
      OBVIOUS
    <2>2. CASE Swaps(l)
      <3>1. PICK n \in Nat : n = Len(l)
        BY LenProperties DEF Texts
      <3>2. n # 0 /\ l[n] = ")"
        BY <2>2, <3>1, EmptySeq DEF Swaps, Texts
      <3>3. i \in 1..(n - 1) /\ l[i] = "("
        BY <2>1, <3>1, <3>2, OpeningIs
      <3>4. PICK m : m = SubSeq(l, i + 1, n - 1)
        OBVIOUS
      <3>5. m \in Texts /\ Len(m) = n - 1 - i
        <4>1. EndsIn(l, n, i, m)
          BY <3>1, <3>2, <3>3, <3>4, EnclosedAt
        <4> QED
          BY <4>1 DEF EndsIn
      <3>6. f[m] = g[m] /\ f[m] \in Readings
        <4>1. n - 1 - i < n
          BY <3>3
        <4> QED
          BY <3>1, <3>5, <4>1 DEF Alike
      <3>7. LeftOf(f, l, i) = LeftOf(g, l, i) /\ LeftOf(f, l, i) \in 0..Host
        <4>1. i \in 1..Len(l)
          BY <3>1, <3>3
        <4> QED
          BY <4>1, PartsAlike
      <3>8. Added(LeftOf(f, l, i), f[m].line) \in 0..Host
        BY <3>6, <3>7, AppliedIs DEF Readings
      <3> QED
        BY <2>1, <2>2, <3>1, <3>4, <3>6, <3>7, <3>8 DEF LineRead
    <2>3. CASE ~Swaps(l)
      <3>1. PICK x \in 0..Host : x = SumRead(f, l)
        BY <1>2
      <3>2. x % Word \in 0..Host
        <4>1. x \in Nat
          OBVIOUS
        <4>2. x % Word \in Single
          BY <4>1, Cuts
        <4> QED
          BY <4>2, WordSizes DEF Single
      <3> QED
        BY <1>1, <1>2, <2>3, <3>1, <3>2 DEF LineRead
    <2> QED
      BY <2>2, <2>3
  <1> QED
    BY <1>2, <1>3 DEF Reading, Readings

(* So there is a meaning, of every line.                                   *)
LEMMA MeansIs ==
  ASSUME NEW l \in Texts
  PROVE  Means[l] = Reading(Means, l) /\ Means[l] \in Readings
  <1> DEFINE Is(f) == f = [m \in Texts |-> Reading(f, m)]
      G == [f \in [Texts -> Readings] |-> [m \in Texts |-> Reading(f, m)]]
      size == [m \in Texts |-> Len(m)]
  <1>1. \A m \in Texts : Len(m) \in Nat
    BY LenProperties DEF Texts
  <1>2. \A f \in [Texts -> Readings], m \in Texts : Reading(f, m) \in Readings
    <2> TAKE f \in [Texts -> Readings], m \in Texts
    <2>1. Alike(f, f, m)
      BY DEF Alike
    <2> QED
      BY <2>1, ReadAlike
  <1>3. Regresses(Texts, Readings, size, G)
    <2>1. size \in [Texts -> Nat]
      BY <1>1
    <2>2. G \in [[Texts -> Readings] -> [Texts -> Readings]]
      BY <1>2
    <2>3. ASSUME NEW f \in [Texts -> Readings], NEW g \in [Texts -> Readings], NEW m \in Texts,
                 \A k \in Texts : size[k] < size[m] => f[k] = g[k]
          PROVE  G[f][m] = G[g][m]
      <3>1. Alike(f, g, m)
        BY <2>3 DEF Alike
      <3>2. Reading(f, m) = Reading(g, m)
        BY <3>1, ReadAlike
      <3> QED
        BY <3>2
    <2> HIDE DEF G, size
    <2> QED
      BY <2>1, <2>2, <2>3 DEF Regresses
  <1>4. PICK f \in [Texts -> Readings] : f = G[f]
    <2>1. [sum |-> Unmeant, line |-> Unmeant] \in Readings
      BY WordSizes DEF Unmeant, Readings
    <2> HIDE DEF G, size
    <2> QED
      BY <1>3, <2>1, Solved
  <1>5. Is(f)
    BY <1>4
  <1>6. Means = CHOOSE g : Is(g)
    BY DEF Means
  <1>7. Is(Means)
    <2> HIDE DEF Is
    <2> QED
      BY <1>5, <1>6
  <1>8. \A m \in Texts : Means[m] = Reading(Means, m)
    BY <1>7
  <1> DEFINE T == {n \in Nat : \A m \in Texts : Len(m) < n => Means[m] \in Readings}
  <1>9. 0 \in T
    BY <1>1
  <1>10. ASSUME NEW n \in Nat, n \in T
         PROVE  n + 1 \in T
    <2> SUFFICES ASSUME NEW m \in Texts, Len(m) < n + 1
                 PROVE  Means[m] \in Readings
      OBVIOUS
    <2>1. \A k \in Texts : Len(k) < Len(m) => Len(k) < n
      BY <1>1
    <2>2. Alike(Means, Means, m)
      BY <1>10, <2>1 DEF Alike
    <2>3. Reading(Means, m) \in Readings
      BY <2>2, ReadAlike
    <2> QED
      BY <1>8, <2>3
  <1>11. \A n \in Nat : n \in T
    <2> HIDE DEF T
    <2> QED
      BY <1>9, <1>10, Induction
  <1>12. Means[l] \in Readings
    <2>1. PICK n \in Nat : n = Len(l) + 1
      BY <1>1
    <2>2. n \in T /\ Len(l) < n
      BY <1>1, <1>11, <2>1
    <2> QED
      BY <2>2
  <1> QED
    BY <1>8, <1>12

(* What stands before an operator is x.                                    *)
Amounts(i, x) == x \in Wide /\ IF i = <<>> THEN x = 0 ELSE IsSum(i) /\ x = Sum(i)

EndsWith(i, cs) == i # <<>> /\ i[Len(i)] \in cs

(* DDT takes the operator, and forgets it behind a group.                  *)
Clear(i, op) ==
  /\ op \in Operators
  /\ i = <<>> => op = "-"
  /\ EndsWith(i, {")"}) => op \in {"+", "-"}
Forgets(i, op) == op = "+" /\ EndsWith(i, {")"})

(* A number that fits the buffer.                                          *)
ShortNumber(m) == m \in Seq(Digits) /\ m # <<>> /\ Len(m) < BufLen

(* A sum whose last term is a number, and one whose last term is a group.  *)
NumberLast(l, i, op, x, m) ==
  /\ l = Append(i, op) \o m /\ i \in Texts /\ m \in Texts /\ ShortNumber(m)
  /\ Amounts(i, x) /\ Clear(i, op)
  /\ op = "|" => Number(m) # 0
  /\ Sum(l) = Reckoned(op, x, Number(m))

GroupLast(l, i, op, x, n) ==
  /\ l = Enclosed(Append(i, op), n) /\ i \in Texts /\ n \in Texts /\ IsLine(n)
  /\ Amounts(i, x) /\ Clear(i, op) /\ ~Forgets(i, op)
  /\ op = "|" => Meaning(n) # 0
  /\ Sum(l) = Reckoned(op, x, Meaning(n))

(* A line that ends in a group to be swapped.                              *)
SwapLast(l, y, x, n) ==
  /\ l = Enclosed(y, n) /\ y \in Texts /\ n \in Texts /\ IsLine(n)
  /\ Amounts(y, x) /\ ~EndsWith(y, Operators)
  /\ Meaning(l) = (x + Swapped(Meaning(n))) % Word

(* What has a meaning is balanced, and the meaning fits the host.          *)
LEMMA MeantIs ==
  ASSUME NEW l \in Texts
  PROVE  /\ IsSum(l) => Balanced(l) /\ Sum(l) \in Wide /\ Sum(l) = SumRead(Means, l)
         /\ IsLine(l) => Balanced(l) /\ Meaning(l) \in Wide /\ Meaning(l) = LineRead(Means, l)
  <1>1. Means[l] = Reading(Means, l) /\ Means[l] \in Readings
    BY MeansIs
  <1>2. \A x \in 0..Host : x # Host => x \in Wide
    BY WordSizes DEF Wide
  <1> QED
    BY <1>1, <1>2 DEF IsSum, IsLine, Sum, Meaning, Reading, Readings, Unmeant

(* What is left of a character, and the value of it.                       *)
LEMMA LeftIs ==
  ASSUME NEW l \in Texts, NEW p \in 1..Len(l), LeftOf(Means, l, p) # Unmeant
  PROVE  Amounts(Before(l, p), LeftOf(Means, l, p))
  <1>1. PICK i : i = Before(l, p)
    OBVIOUS
  <1>2. i \in Texts /\ Len(i) = p - 1
    BY <1>1, CutIs DEF CutAt
  <1>3. i = <<>> <=> p = 1
    BY <1>2, EmptySeq DEF Texts
  <1>4. CASE p = 1
    BY <1>1, <1>3, <1>4, WordSizes DEF LeftOf, Amounts
  <1>5. CASE p # 1
    <2>1. LeftOf(Means, l, p) = Sum(i) /\ IsSum(i)
      BY <1>1, <1>5 DEF LeftOf, Sum, IsSum
    <2>2. Sum(i) \in Wide
      BY <1>2, <2>1, MeantIs
    <2> QED
      BY <1>1, <1>3, <1>5, <2>1, <2>2 DEF Amounts
  <1> QED
    BY <1>4, <1>5

(* What is left of a character ends with the one before.                   *)
LEMMA EndsBefore ==
  ASSUME NEW l \in Texts, NEW p \in 1..Len(l), NEW cs
  PROVE  EndsWith(Before(l, p), cs) <=> (p # 1 /\ l[p - 1] \in cs)
  <1>1. PICK i : i = Before(l, p)
    OBVIOUS
  <1>2. i \in Texts /\ Len(i) = p - 1 /\ \A j \in 1..(p - 1) : i[j] = l[j]
    BY <1>1, CutIs DEF CutAt
  <1>3. i = <<>> <=> p = 1
    BY <1>2, EmptySeq DEF Texts
  <1>4. p # 1 => p - 1 \in 1..(p - 1)
    OBVIOUS
  <1> QED
    BY <1>1, <1>2, <1>3, <1>4 DEF EndsWith

(* A numeral.                                                              *)
LEMMA NumeralMeans ==
  ASSUME NEW m \in Texts, Numeral(m) # Unmeant
  PROVE  ShortNumber(m) /\ Numeral(m) = Number(m)
  <1>1. IsNumber(m) /\ Len(m) < BufLen /\ Numeral(m) = Number(m)
    BY DEF Numeral
  <1> QED
    BY <1>1, NumeralIs DEF ShortNumber, IsNumber, Texts

(* The term behind an operator has the value y.                            *)
TermOf(l, i, op, m, y) ==
  \/ /\ ~IsGroup(m) /\ m \in Texts /\ ShortNumber(m) /\ y = Number(m)
     /\ l = Append(i, op) \o m
  \/ /\ IsGroup(m)
     /\ \E n \in Texts : IsLine(n) /\ y = Meaning(n) /\ l = Enclosed(Append(i, op), n)

(* It is a number or a group.                                              *)
LEMMA TermIs ==
  ASSUME NEW l \in Texts, NEW p \in 1..Len(l), NEW m, m = Behind(l, p),
         NEW y, y = Term(Means, m), y # Unmeant
  PROVE  TermOf(l, Before(l, p), l[p], m, y)
  <1>1. PICK a \in Nat : a = Len(l)
    BY LenProperties DEF Texts
  <1>2. a - p \in Nat
    BY <1>1
  <1>3. PICK k \in Nat : k = a - p
    BY <1>2
  <1>4. /\ CutAt(l, p, Before(l, p), m) /\ l = Append(Before(l, p), l[p]) \o m
    BY CutIs
  <1>5. m \in Texts /\ Len(m) = k /\ \A j \in 1..k : m[j] = l[p + j]
    BY <1>1, <1>3, <1>4 DEF CutAt
  <1>6. CASE ~IsGroup(m)
    <2>1. Term(Means, m) = Numeral(m)
      BY <1>6 DEF Term
    <2> QED
      BY <1>4, <1>5, <1>6, <2>1, NumeralMeans DEF TermOf
  <1>7. CASE IsGroup(m)
    <2>1. m[1] = "(" /\ m[k] = ")" /\ k # 0
      BY <1>5, <1>7, EmptySeq DEF IsGroup, Texts
    <2>2. k # 1 /\ k \in 1..k /\ 1 \in 1..k
      BY <2>1
    <2>3. p + 1 \in 1..(a - 1) /\ l[p + 1] = "(" /\ l[a] = ")"
      <3>1. p + k = a /\ p + 1 \in 1..(a - 1)
        BY <1>1, <1>3, <2>1, <2>2
      <3>2. m[1] = l[p + 1] /\ m[k] = l[p + k]
        BY <1>5, <2>2
      <3> QED
        BY <2>1, <3>1, <3>2
    <2>4. PICK r \in 1..(a - 1) : r = p + 1
      BY <2>3
    <2>5. PICK n : n = SubSeq(l, r + 1, a - 1)
      OBVIOUS
    <2>6. EndsIn(l, a, r, n)
      BY <1>1, <2>3, <2>4, <2>5, EnclosedAt
    <2>7. /\ l = Enclosed(Before(l, r), n) /\ n \in Texts /\ Len(n) = a - 1 - r
          /\ \A j \in 1..(a - 1 - r) : n[j] = l[r + j]
      BY <2>6 DEF EndsIn
    <2>8. Before(l, r) = Append(Before(l, p), l[p])
      <3>1. PICK w : w = Before(l, r)
        OBVIOUS
      <3>2. r \in 1..Len(l) /\ p \in 1..Len(l)
        BY <1>1, <2>4
      <3>3. w \in Texts /\ Len(w) = r - 1 /\ \A j \in 1..(r - 1) : w[j] = l[j]
        BY <3>1, <3>2, CutIs DEF CutAt
      <3>4. PICK z : z = Before(l, p)
        OBVIOUS
      <3>5. z \in Texts /\ Len(z) = p - 1 /\ \A j \in 1..(p - 1) : z[j] = l[j]
        BY <3>2, <3>4, CutIs DEF CutAt
      <3>6. PICK b \in Nat : b = p - 1
        OBVIOUS
      <3>7. PICK u : u = Append(z, l[p])
        OBVIOUS
      <3>8. Grown(z, l[p], b, u)
        <4>1. l[p] \in Signs
          BY ElementOfSeq DEF Texts
        <4> QED
          BY <3>5, <3>6, <3>7, <4>1, Grows
      <3>9. u \in Texts /\ Len(u) = b + 1 /\ u[b + 1] = l[p] /\ \A j \in 1..b : u[j] = z[j]
        BY <3>8 DEF Grown
      <3>10. Len(u) = Len(w) /\ Len(w) = p /\ b + 1 = p
        BY <2>4, <3>3, <3>6, <3>9
      <3>11. \A j \in 1..p : u[j] = w[j]
        <4> TAKE j \in 1..p
        <4>1. j \in 1..b \/ j = p
          BY <3>6
        <4>2. w[j] = l[j]
          BY <2>4, <3>3
        <4> QED
          BY <3>5, <3>6, <3>9, <3>10, <4>1, <4>2
      <3>12. u = w
        BY <3>3, <3>9, <3>10, <3>11, SeqEqual DEF Texts
      <3> QED
        BY <3>1, <3>4, <3>7, <3>12
    <2>9. n = Inner(m)
      <3>1. PICK i \in 1..(k - 1) : i = 1
        <4>1. 1 \in 1..(k - 1)
          BY <2>1, <2>2
        <4> QED
          BY <4>1
      <3>2. PICK u : u = SubSeq(m, i + 1, k - 1)
        OBVIOUS
      <3>3. EndsIn(m, k, i, u)
        BY <1>5, <2>1, <3>1, <3>2, EnclosedAt
      <3>4. u \in Texts /\ Len(u) = k - 1 - i /\ \A j \in 1..(k - 1 - i) : u[j] = m[i + j]
        BY <3>3 DEF EndsIn
      <3>5. PICK d \in Nat : d = k - 1 - i
        <4>1. k - 1 - i \in Nat
          BY <2>1, <2>2, <3>1
        <4> QED
          BY <4>1
      <3>6. a - 1 - r = d
        BY <1>1, <1>3, <2>4, <3>1, <3>5
      <3>7. \A j \in 1..d : u[j] = n[j]
        <4> TAKE j \in 1..d
        <4>1. i + j \in 1..k /\ p + (i + j) = r + j
          BY <2>4, <3>1, <3>5
        <4>2. u[j] = m[i + j] /\ n[j] = l[r + j]
          BY <2>7, <3>4, <3>5, <3>6
        <4>3. m[i + j] = l[p + (i + j)]
          BY <1>5, <4>1
        <4> QED
          BY <4>1, <4>2, <4>3
      <3>8. u = n
        BY <2>7, <3>4, <3>5, <3>6, <3>7, SeqEqual DEF Texts
      <3>9. u = Inner(m)
        BY <1>5, <3>1, <3>2 DEF Inner
      <3> QED
        BY <3>8, <3>9
    <2>10. Term(Means, m) = Meaning(n) /\ IsLine(n)
      BY <1>7, <2>9 DEF Term, Meaning, IsLine
    <2> QED
      BY <1>7, <2>7, <2>8, <2>10 DEF TermOf
  <1> QED
    BY <1>6, <1>7

(* What a sum is.                                                          *)
LEMMA SumCases ==
  ASSUME NEW l \in Texts, IsSum(l)
  PROVE  \/ ShortNumber(l) /\ Sum(l) = Number(l)
         \/ \E i, op, x, m : NumberLast(l, i, op, x, m)
         \/ \E i, op, x, n : GroupLast(l, i, op, x, n)
  <1>1. Balanced(l) /\ Sum(l) = SumRead(Means, l) /\ Sum(l) # Unmeant
    BY MeantIs DEF IsSum
  <1>2. PICK p : p = LastOf(l, Operators)
    OBVIOUS
  <1>3. p = 0 \/ (p \in 1..Len(l) /\ l[p] \in Operators)
    BY <1>2, LastIs
  <1>4. CASE p = 0
    <2>1. Sum(l) = Numeral(l)
      BY <1>1, <1>2, <1>4 DEF SumRead
    <2> QED
      BY <1>1, <2>1, NumeralMeans
  <1>5. CASE p # 0
    <2>1. PICK op : op = l[p]
      OBVIOUS
    <2>2. PICK m : m = Behind(l, p)
      OBVIOUS
    <2>3. PICK i : i = Before(l, p)
      OBVIOUS
    <2>4. PICK x : x = LeftOf(Means, l, p)
      OBVIOUS
    <2>5. PICK y : y = Term(Means, m)
      OBVIOUS
    <2>6. ~Misleads(l, p) /\ Sum(l) = Applied(op, x, y)
      BY <1>1, <1>2, <1>5, <2>1, <2>2, <2>4, <2>5 DEF SumRead
    <2>7. x # Unmeant /\ y # Unmeant /\ (op = "|" => y # 0) /\ Sum(l) = Reckoned(op, x, y)
      BY <1>1, <2>6 DEF Applied
    <2>8. p \in 1..Len(l) /\ op \in Operators
      BY <1>3, <1>5, <2>1
    <2>9. Amounts(i, x) /\ i \in Texts
      BY <2>3, <2>4, <2>7, <2>8, LeftIs, CutIs DEF CutAt
    <2>10. EndsWith(i, {")"}) <=> (p # 1 /\ l[p - 1] = ")")
      BY <2>3, <2>8, EndsBefore
    <2>11. i = <<>> => p = 1
      <3>1. Len(i) = p - 1 /\ Len(<<>>) = 0
        BY <2>3, <2>8, CutIs, EmptySeq DEF CutAt
      <3> QED
        BY <2>8, <3>1
    <2>12. (p = 1 => op = "-") /\ (p > 1 /\ l[p - 1] = ")" /\ op # "-" => op = "+" /\ ~IsGroup(m))
      BY <2>1, <2>2, <2>6 DEF Misleads
    <2>13. p # 1 => p > 1
      BY <2>8
    <2>14. Clear(i, op) /\ (IsGroup(m) => ~Forgets(i, op))
      BY <2>8, <2>10, <2>11, <2>12, <2>13 DEF Clear, Forgets
    <2>15. TermOf(l, i, op, m, y)
      BY <2>1, <2>2, <2>3, <2>5, <2>7, <2>8, TermIs
    <2>16. CASE ~IsGroup(m)
      <3>1. NumberLast(l, i, op, x, m)
        BY <2>7, <2>9, <2>14, <2>15, <2>16 DEF NumberLast, TermOf
      <3> QED
        BY <3>1
    <2>17. CASE IsGroup(m)
      <3>1. PICK n \in Texts : IsLine(n) /\ y = Meaning(n) /\ l = Enclosed(Append(i, op), n)
        BY <2>15, <2>17 DEF TermOf
      <3>2. GroupLast(l, i, op, x, n)
        BY <2>7, <2>9, <2>14, <2>17, <3>1 DEF GroupLast
      <3> QED
        BY <3>2
    <2> QED
      BY <2>16, <2>17
  <1> QED
    BY <1>4, <1>5

(* What a line is.                                                         *)
LEMMA LineCases ==
  ASSUME NEW l \in Texts, IsLine(l)
  PROVE  \/ IsSum(l) /\ Meaning(l) = Sum(l) % Word
         \/ \E y, x, n : SwapLast(l, y, x, n)
  <1>1. Balanced(l) /\ Meaning(l) = LineRead(Means, l) /\ Meaning(l) # Unmeant
    BY MeantIs DEF IsLine
  <1>2. CASE ~Swaps(l)
    <2>1. SumRead(Means, l) # Unmeant /\ Meaning(l) = SumRead(Means, l) % Word
      BY <1>1, <1>2 DEF LineRead
    <2>2. Sum(l) = SumRead(Means, l)
      <3>1. Means[l] = [sum |-> SumRead(Means, l), line |-> LineRead(Means, l)]
        BY <1>1, MeansIs DEF Reading
      <3> QED
        BY <3>1 DEF Sum
    <2> QED
      BY <2>1, <2>2 DEF IsSum
  <1>3. CASE Swaps(l)
    <2>1. PICK a \in Nat : a = Len(l)
      BY LenProperties DEF Texts
    <2>2. a # 0 /\ l[a] = ")"
      BY <1>3, <2>1, EmptySeq DEF Swaps, Texts
    <2>3. PICK i : i = Opening(l)
      OBVIOUS
    <2>4. i \in 1..(a - 1) /\ l[i] = "("
      BY <1>1, <2>1, <2>2, <2>3, OpeningIs
    <2>5. PICK n : n = SubSeq(l, i + 1, a - 1)
      OBVIOUS
    <2>6. EndsIn(l, a, i, n)
      BY <2>1, <2>2, <2>4, <2>5, EnclosedAt
    <2>7. PICK y : y = Before(l, i)
      OBVIOUS
    <2>8. l = Enclosed(y, n) /\ y \in Texts /\ n \in Texts
      BY <2>6, <2>7 DEF EndsIn
    <2>9. PICK x : x = LeftOf(Means, l, i)
      OBVIOUS
    <2>10. Meaning(l) = Added(x, Meaning(n))
      BY <1>1, <1>3, <2>1, <2>3, <2>5, <2>9 DEF LineRead, Meaning
    <2>11. x # Unmeant /\ IsLine(n) /\ Meaning(l) = (x + Swapped(Meaning(n))) % Word
      BY <1>1, <2>10 DEF Added, IsLine
    <2>12. i \in 1..Len(l)
      BY <2>1, <2>4
    <2>13. Amounts(y, x)
      BY <2>7, <2>9, <2>11, <2>12, LeftIs
    <2>14. ~EndsWith(y, Operators)
      <3>1. EndsWith(y, Operators) <=> (i # 1 /\ l[i - 1] \in Operators)
        BY <2>7, <2>12, EndsBefore
      <3> QED
        BY <1>3, <2>3, <3>1 DEF Swaps
    <2>15. SwapLast(l, y, x, n)
      BY <2>8, <2>11, <2>13, <2>14 DEF SwapLast
    <2> QED
      BY <2>15
  <1> QED
    BY <1>2, <1>3

-----------------------------------------------------------------------------
(* Texts that are put together.                                            *)

Ins == Digits \cup Letters \cup {"."}
Separators == {" ", ","}

(* Which characters are which.                                             *)
LEMMA SignsAre ==
  /\ Ins \subseteq Signs /\ Separators \subseteq Signs /\ Operators \subseteq Signs
  /\ Parentheses \subseteq Signs /\ Digits \subseteq Ins
  /\ Ins \cap Separators = {} /\ Ins \cap Operators = {} /\ Ins \cap Parentheses = {}
  /\ Separators \cap Operators = {} /\ Separators \cap Parentheses = {} /\ Operators \cap Parentheses = {}
  BY DEF Ins, Separators, Operators, Parentheses, Digits, Letters, Signs

(* The end of a text that is two.                                          *)
LEMMA EndsJoined ==
  ASSUME NEW l \in Texts, NEW m \in Texts, NEW cs
  PROVE  /\ l \o m \in Texts /\ Len(l \o m) = Len(l) + Len(m)
         /\ m # <<>> => l \o m # <<>> /\ (EndsWith(l \o m, cs) <=> EndsWith(m, cs))
         /\ m = <<>> => l \o m = l
         /\ l = <<>> => l \o m = m
  <1>1. PICK a \in Nat : a = Len(l)
    BY LenProperties DEF Texts
  <1>2. PICK b \in Nat : b = Len(m)
    BY LenProperties DEF Texts
  <1>3. PICK t : t = l \o m
    OBVIOUS
  <1>4. /\ t \in Texts /\ Len(t) = a + b
        /\ \A i \in 1..b : t[a + i] = m[i]
    <2>1. Adjoined(l, m, a, b, t)
      BY <1>1, <1>2, <1>3, JoinedIs
    <2> QED
      BY <2>1 DEF Adjoined
  <1>5. m # <<>> => b # 0
    BY <1>2, EmptySeq DEF Texts
  <1>6. m # <<>> => b \in 1..b
    BY <1>5
  <1>7. m # <<>> => t # <<>>
    <2>1. Len(<<>>) = 0
      BY EmptySeq
    <2> QED
      BY <1>4, <1>5, <2>1
  <1>8. m # <<>> => t[Len(t)] = m[Len(m)]
    BY <1>2, <1>4, <1>6
  <1>9. /\ m = <<>> => l \o m = l
        /\ l = <<>> => l \o m = m
    BY ConcatEmptySeq DEF Texts
  <1> QED
    BY <1>1, <1>2, <1>3, <1>4, <1>7, <1>8, <1>9 DEF EndsWith

(* A character behind a text.                                              *)
LEMMA EndsAppended ==
  ASSUME NEW l \in Texts, NEW c \in Signs
  PROVE  /\ Append(l, c) \in Texts /\ Append(l, c) # <<>> /\ <<c>> \in Texts /\ <<c>> # <<>>
         /\ Append(l, c) = l \o <<c>> /\ Len(Append(l, c)) = Len(l) + 1
         /\ \A cs : EndsWith(Append(l, c), cs) <=> c \in cs
         /\ \A k \in Texts, d \in Signs : Append(l, c) = Append(k, d) => l = k /\ c = d
  <1>1. /\ Append(l, c) \in Texts /\ Append(l, c) # <<>> /\ Len(Append(l, c)) = Len(l) + 1
        /\ Append(l, c)[Len(l) + 1] = c
    BY AppendProperties DEF Texts
  <1>2. <<c>> \in Texts /\ <<c>> # <<>>
    BY DEF Texts
  <1>3. Append(l, c) = l \o <<c>>
    BY AppendIsConcat DEF Texts
  <1>4. \A k \in Texts, d \in Signs : Append(l, c) = Append(k, d) => l = k /\ c = d
    BY AppendInjective DEF Texts
  <1> QED
    BY <1>1, <1>2, <1>3, <1>4 DEF EndsWith

(* What is behind a head goes on.                                          *)
GoesOn(s, h, j, b, k) == j \in Texts /\ s = h \o j /\ k = j \o b

(* A text cut in two ways.                                                 *)
LEMMA Splits ==
  ASSUME NEW s \in Texts, NEW b \in Texts, NEW h \in Texts, NEW k \in Texts,
         s \o b = h \o k, Len(h) <= Len(s)
  PROVE  \E j : GoesOn(s, h, j, b, k)
  <1>1. PICK n \in Nat : n = Len(s)
    BY LenProperties DEF Texts
  <1>2. PICK a \in Nat : a = Len(h)
    BY LenProperties DEF Texts
  <1>3. DOMAIN s = 1..n /\ a + 1 \in 1..(n + 1) /\ n \in a..n
    BY <1>1, <1>2, LenProperties DEF Texts
  <1>4. PICK g : g = SubSeq(s, 1, a)
    OBVIOUS
  <1>5. PICK j : j = SubSeq(s, a + 1, n)
    OBVIOUS
  <1>6. g \in Texts /\ Len(g) = a /\ \A i \in 1..a : g[i] = s[i]
    <2>1. 1..a \subseteq 1..n
      BY <1>1, <1>2
    <2>2. \A i \in 1..a : s[i] \in Signs
      BY <1>1, <2>1, ElementOfSeq DEF Texts
    <2>3. SubSeq(s, 1, a) \in Seq(Signs) /\ Len(SubSeq(s, 1, a)) = a
          /\ \A i \in 1..a : SubSeq(s, 1, a)[i] = s[i]
      BY <2>2, SubSeqProperties
    <2> QED
      BY <1>4, <2>3 DEF Texts
  <1>7. j \in Texts
    <2>1. \A i \in (a + 1)..n : s[i] \in Signs
      BY <1>1, ElementOfSeq DEF Texts
    <2>2. SubSeq(s, a + 1, n) \in Seq(Signs)
      BY <2>1, SubSeqProperties
    <2> QED
      BY <1>5, <2>2 DEF Texts
  <1>8. s = g \o j
    <2>1. PICK m \in 1..(n + 1) : m = 1
      OBVIOUS
    <2>2. a \in (m - 1)..n /\ n \in a..n /\ m \in 1..(Len(s) + 1) /\ a \in (m - 1)..Len(s) /\ n \in a..Len(s)
      BY <1>1, <1>2, <2>1
    <2>3. SubSeq(s, m, a) \o SubSeq(s, a + 1, n) = SubSeq(s, m, n)
      BY <2>2, ConcatAdjacentSubSeq DEF Texts
    <2>4. SubSeq(s, 1, n) = s
      BY <1>1, SubSeqFull DEF Texts
    <2> QED
      BY <1>4, <1>5, <2>1, <2>3, <2>4
  <1>9. g = h
    <2>1. PICK t : t = s \o b
      OBVIOUS
    <2>2. \A i \in 1..n : t[i] = s[i]
      BY <1>1, <2>1, LenProperties, JoinedIs DEF Adjoined, Texts
    <2>3. \A i \in 1..a : t[i] = h[i]
      BY <1>2, <2>1, LenProperties, JoinedIs DEF Adjoined, Texts
    <2>4. 1..a \subseteq 1..n
      BY <1>1, <1>2
    <2>5. \A i \in 1..a : g[i] = h[i]
      BY <1>6, <2>2, <2>3, <2>4
    <2> QED
      BY <1>2, <1>6, <2>5, SeqEqual DEF Texts
  <1>10. k = j \o b
    <2>1. s \o b = h \o (j \o b)
      <3>1. (h \o j) \o b = h \o (j \o b)
        BY <1>7, ConcatAssociative DEF Texts
      <3> QED
        BY <1>8, <1>9, <3>1
    <2>2. j \o b \in Texts
      BY <1>7, EndsJoined
    <2> QED
      BY <2>1, <2>2, ConcatSimplifications DEF Texts
  <1> QED
    BY <1>7, <1>8, <1>9, <1>10 DEF GoesOn

(* A group behind a text.                                                  *)
LEMMA EnclosedBehind ==
  ASSUME NEW y \in Texts, NEW n \in Texts
  PROVE  /\ Enclosed(y, n) \in Texts /\ Enclosed(y, n) # <<>> /\ Enclosed(<<>>, n) \in Texts
         /\ Enclosed(<<>>, n) # <<>> /\ Enclosed(<<>>, n)[1] = "("
         /\ Enclosed(y, n) = y \o Enclosed(<<>>, n)
         /\ \A cs : EndsWith(Enclosed(y, n), cs) <=> ")" \in cs
  <1>1. "(" \in Signs /\ ")" \in Signs
    BY DEF Signs
  <1>2. <<>> \in Texts /\ Append(<<>>, "(") = <<"(">>
    BY EmptySeq DEF Texts
  <1>3. PICK u : u = <<"(">>
    OBVIOUS
  <1>4. PICK v : v = <<")">>
    OBVIOUS
  <1>5. u \in Texts /\ v \in Texts
    BY <1>1, <1>3, <1>4, <1>2, EndsAppended
  <1>6. \A k \in Texts : Append(k, "(") = k \o u /\ Append(k, ")") = k \o v
    BY <1>1, <1>3, <1>4, EndsAppended
  <1>7. \A k \in Texts : k \o u \in Texts /\ (k \o u) \o n \in Texts
    BY <1>5, EndsJoined
  <1>8. \A k \in Texts : Enclosed(k, n) = ((k \o u) \o n) \o v
    BY <1>6, <1>7 DEF Enclosed
  <1>9. Enclosed(<<>>, n) = (u \o n) \o v
    <2>1. <<>> \o u = u
      BY <1>5, ConcatEmptySeq DEF Texts
    <2> QED
      BY <1>2, <1>8, <2>1
  <1>10. ((y \o u) \o n) \o v = y \o ((u \o n) \o v)
    <2>1. (y \o u) \o n = y \o (u \o n)
      BY <1>5, ConcatAssociative DEF Texts
    <2>2. u \o n \in Seq(Signs)
      BY <1>5, EndsJoined DEF Texts
    <2>3. (y \o (u \o n)) \o v = y \o ((u \o n) \o v)
      BY <1>5, <2>2, ConcatAssociative DEF Texts
    <2> QED
      BY <2>1, <2>3
  <1>11. ASSUME NEW k \in Texts
         PROVE  /\ Enclosed(k, n) \in Texts /\ Enclosed(k, n) # <<>>
                /\ \A cs : EndsWith(Enclosed(k, n), cs) <=> ")" \in cs
    <2>1. PICK z \in Texts : z = (k \o u) \o n
      BY <1>7
    <2>2. Append(z, ")") = Enclosed(k, n)
      BY <1>6, <1>8, <2>1
    <2>3. /\ Append(z, ")") \in Texts /\ Append(z, ")") # <<>>
          /\ \A cs : EndsWith(Append(z, ")"), cs) <=> ")" \in cs
      BY <1>1, EndsAppended
    <2> QED
      BY <2>2, <2>3
  <1>12. Enclosed(<<>>, n)[1] = "("
    <2>1. PICK b \in Nat : b = Len(n)
      BY LenProperties DEF Texts
    <2>2. PICK a \in Nat : a = 0
      OBVIOUS
    <2>3. PICK y0 \in Texts : y0 = <<>> /\ Len(y0) = a
      BY <1>2, <2>2, EmptySeq
    <2>4. PICK e : e = Enclosed(y0, n)
      OBVIOUS
    <2>5. Grouped(y0, n, a, b, e)
      BY <2>1, <2>3, <2>4, EnclosedIs
    <2>6. e[a + 1] = "("
      BY <2>5 DEF Grouped
    <2> QED
      BY <2>2, <2>3, <2>4, <2>6
  <1> QED
    BY <1>2, <1>8, <1>9, <1>10, <1>11, <1>12

-----------------------------------------------------------------------------
(* Values, and what stands before them in an instruction.                  *)

(* What has a value: a symbol or a sum.                                    *)
IsValue(j) == j \in DOMAIN symtab \/ IsSum(j)

(* The fields before the last separator: the word w, the accumulator a,    *)
(* and which of them there are.                                            *)
Heads(h, w, a, F) ==
  \/ h = <<>> /\ w = 0 /\ a = 0 /\ F = {}
  \/ \E f \in Texts : IsField(f) /\ h = Append(f, " ") /\ w = Field(f) /\ a = 0 /\ F = {"FW"}
  \/ \E f \in Texts : IsField(f) /\ h = Append(f, ",") /\ w = 0 /\ a = Field(f) /\ F = {"AC"}
  \/ \E f \in Texts, g \in Texts :
       /\ IsField(f) /\ IsField(g) /\ h = Append(Append(f, " ") \o g, ",")
       /\ w = Field(f) /\ a = Field(g) /\ F = {"FW", "AC"}

(* The buffer has wrapped behind s, if s ends in what goes to the buffer.  *)
Wraps(s) ==
  EndsWith(s, Ins) => Len(s) >= BufLen /\ \A i \in (Len(s) - BufLen + 1)..Len(s) : s[i] \in Ins

(* The last of some characters, of which all are in a set.                 *)
LEMMA AllEnd ==
  ASSUME NEW cs, NEW m \in Seq(cs), m # <<>>
  PROVE  EndsWith(m, cs)
  <1>1. Len(m) \in Nat \ {0}
    BY EmptySeq
  <1>2. m[Len(m)] \in cs
    BY <1>1, ElementOfSeq
  <1> QED
    BY <1>2 DEF EndsWith

(* Symbols.                                                                *)
LEMMA SymbolsAre ==
  ASSUME NEW j \in DOMAIN symtab
  PROVE  /\ j \in Texts /\ j \in Seq(Ins) /\ j # <<>> /\ Len(j) = 1
         /\ symtab[j] \in Single /\ ~IsNumber(j)
  <1>1. j \in {<<"A">>, <<"B">>}
    BY DEF symtab
  <1>2. symtab[j] \in {14, Iot}
    BY <1>1 DEF symtab
  <1>3. 14 \in Single /\ Iot \in Single
    BY WordSizes DEF Iot, Single
  <1>4. j \in Seq({"A", "B"}) /\ j # <<>> /\ Len(j) = 1 /\ j[1] \in {"A", "B"}
    <2>1. ASSUME NEW c \in {"A", "B"}
          PROVE  <<c>> \in Seq({"A", "B"}) /\ <<c>> # <<>> /\ Len(<<c>>) = 1 /\ <<c>>[1] = c
      OBVIOUS
    <2> QED
      BY <1>1, <2>1
  <1>5. {"A", "B"} \subseteq Ins /\ {"A", "B"} \subseteq Signs
    BY DEF Ins, Letters, Signs
  <1>6. j \in Seq(Ins) /\ j \in Seq(Signs)
    BY <1>4, <1>5, SeqMonotonic
  <1>7. ~IsNumber(j)
    <2>1. 1 \in DOMAIN j /\ j[1] \notin Digits
      BY <1>1 DEF Digits
    <2> QED
      BY <2>1 DEF IsNumber
  <1> QED
    BY <1>2, <1>3, <1>4, <1>6, <1>7 DEF Texts

(* A sum ends in a digit or a group.                                       *)
LEMMA SumEnds ==
  ASSUME NEW l \in Texts, IsSum(l)
  PROVE  /\ l # <<>> /\ EndsWith(l, Digits \cup {")"})
         /\ l \notin DOMAIN symtab
  <1>1. \A m \in Seq(Digits) : m # <<>> => EndsWith(m, Digits)
    BY AllEnd
  <1>2. \A m : EndsWith(m, Digits) => EndsWith(m, Digits \cup {")"})
    BY DEF EndsWith
  <1>3. ASSUME ShortNumber(l)
        PROVE  EndsWith(l, Digits \cup {")"})
    BY <1>1, <1>2, <1>3 DEF ShortNumber
  <1>4. ASSUME \E i, op, x, m : NumberLast(l, i, op, x, m)
        PROVE  EndsWith(l, Digits \cup {")"})
    <2>1. PICK i, op, x, m : NumberLast(l, i, op, x, m)
      BY <1>4
    <2>2. i \in Texts /\ m \in Texts /\ m \in Seq(Digits) /\ m # <<>> /\ op \in Signs
      BY <2>1, SignsAre DEF NumberLast, ShortNumber, Clear
    <2>3. PICK k : k = Append(i, op)
      OBVIOUS
    <2>4. k \in Texts /\ l = k \o m
      BY <2>1, <2>2, <2>3, EndsAppended DEF NumberLast
    <2>5. EndsWith(k \o m, Digits) <=> EndsWith(m, Digits)
      BY <2>2, <2>4, EndsJoined
    <2> QED
      BY <1>1, <1>2, <2>2, <2>4, <2>5 DEF EndsWith
  <1>5. ASSUME \E i, op, x, n : GroupLast(l, i, op, x, n)
        PROVE  EndsWith(l, Digits \cup {")"})
    <2>1. PICK i, op, x, n : GroupLast(l, i, op, x, n)
      BY <1>5
    <2>2. i \in Texts /\ n \in Texts /\ op \in Signs
      BY <2>1, SignsAre DEF GroupLast, Clear
    <2>3. PICK k : k = Append(i, op)
      OBVIOUS
    <2>4. k \in Texts /\ l = Enclosed(k, n)
      BY <2>1, <2>2, <2>3, EndsAppended DEF GroupLast
    <2>5. EndsWith(Enclosed(k, n), {")"}) <=> ")" \in {")"}
      BY <2>2, <2>4, EnclosedBehind
    <2> QED
      BY <2>4, <2>5 DEF EndsWith
  <1>6. l # <<>> /\ EndsWith(l, Digits \cup {")"})
    <2>1. EndsWith(l, Digits \cup {")"})
      BY <1>3, <1>4, <1>5, SumCases
    <2> QED
      BY <2>1 DEF EndsWith
  <1>7. l \notin DOMAIN symtab
    <2>1. SUFFICES ASSUME l \in {<<"A">>, <<"B">>}
                   PROVE  FALSE
      BY DEF symtab
    <2>2. l[Len(l)] \in {"A", "B"}
      BY <2>1
    <2> QED
      BY <1>6, <2>2 DEF EndsWith, Digits
  <1> QED
    BY <1>6, <1>7

(* What has a value ends in a digit, a letter or a group.                  *)
LEMMA ValueIs ==
  ASSUME NEW l \in Texts, IsValue(l)
  PROVE  /\ l # <<>> /\ EndsWith(l, Ins \cup {")"}) /\ Field(l) \in Wide
         /\ IsSum(l) => Field(l) = Sum(l)
         /\ l \in DOMAIN symtab => Field(l) = symtab[l]
  <1>1. CASE IsSum(l)
    <2>1. EndsWith(l, Ins \cup {")"}) /\ l # <<>>
      BY <1>1, SumEnds, SignsAre DEF EndsWith
    <2>2. Sum(l) \in Wide
      BY <1>1, MeantIs
    <2>3. l \notin DOMAIN symtab
      BY <1>1, SumEnds
    <2> QED
      BY <2>1, <2>2, <2>3 DEF Field
  <1>2. CASE l \in DOMAIN symtab
    <2>1. EndsWith(l, Ins) /\ l # <<>> /\ symtab[l] \in Wide
      BY <1>2, SymbolsAre, AllEnd, WordSizes
    <2>2. ~IsSum(l)
      BY <1>2, SumEnds
    <2> QED
      BY <1>2, <2>1, <2>2 DEF Field, EndsWith
  <1> QED
    BY <1>1, <1>2 DEF IsValue

(* A field of an instruction has no parenthesis.                           *)
LEMMA FieldsAre ==
  ASSUME NEW f \in Texts, IsField(f)
  PROVE  IsValue(f) /\ f # <<>> /\ EndsWith(f, Ins) /\ Level(f) /\ Field(f) \in Wide
  <1>1. IsValue(f) /\ Plain(f)
    BY DEF IsField, IsValue
  <1>2. EndsWith(f, Ins \cup {")"}) /\ f # <<>> /\ Field(f) \in Wide
    BY <1>1, ValueIs
  <1>3. Len(f) \in Nat \ {0} /\ DOMAIN f = 1..Len(f)
    BY <1>2, EmptySeq, LenProperties DEF Texts
  <1>4. \A i \in 1..Len(f) : f[i] \notin {"(", ")"}
    BY <1>1, <1>3 DEF Plain
  <1>5. Len(f) \in 1..Len(f)
    BY <1>3
  <1> QED
    BY <1>1, <1>2, <1>4, <1>5 DEF EndsWith, Level, Parentheses

(* What has a value is never in a buffer that has wrapped.                 *)
LEMMA NotWrapped ==
  ASSUME NEW j \in Texts, IsValue(j), EndsWith(j, Ins)
  PROVE  ~Wraps(j)
  <1>1. BufLen \in Nat /\ BufLen > 1
    BY WordsAssumption
  <1>2. PICK n \in Nat : n = Len(j)
    BY LenProperties DEF Texts
  <1>3. ASSUME Wraps(j)
        PROVE  n >= BufLen /\ \A i \in (n - BufLen + 1)..n : j[i] \in Ins
    BY <1>2, <1>3 DEF Wraps
  <1>4. ASSUME Wraps(j), j \in DOMAIN symtab
        PROVE  FALSE
    <2>1. n = 1
      BY <1>2, <1>4, SymbolsAre
    <2> QED
      BY <1>1, <1>3, <1>4, <2>1
  <1>5. ASSUME Wraps(j), ShortNumber(j)
        PROVE  FALSE
    BY <1>1, <1>2, <1>3, <1>5 DEF ShortNumber
  <1>6. ASSUME Wraps(j), NEW i, NEW op, NEW x, NEW m, NumberLast(j, i, op, x, m)
        PROVE  FALSE
    <2>1. i \in Texts /\ m \in Texts /\ Len(m) < BufLen /\ op \in Signs /\ op \notin Ins
      BY <1>6, SignsAre DEF NumberLast, ShortNumber, Clear
    <2>2. PICK a \in Nat : a = Len(i)
      BY <2>1, LenProperties DEF Texts
    <2>3. PICK b \in Nat : b = Len(m)
      BY <2>1, LenProperties DEF Texts
    <2>4. PICK k : k = Append(i, op)
      OBVIOUS
    <2>5. Grown(i, op, a, k)
      BY <2>1, <2>2, <2>4, Grows
    <2>6. PICK d \in Nat : d = a + 1
      BY <2>2
    <2>7. k \in Texts /\ Len(k) = d /\ k[d] = op
      BY <2>5, <2>6 DEF Grown
    <2>8. j = k \o m
      BY <1>6, <2>4 DEF NumberLast
    <2>9. Adjoined(k, m, d, b, j)
      BY <2>1, <2>3, <2>7, <2>8, JoinedIs
    <2>10. n = d + b /\ d \in 1..d
      BY <1>2, <2>6, <2>9 DEF Adjoined
    <2>11. j[d] = op
      BY <2>7, <2>9, <2>10 DEF Adjoined
    <2>12. d \in (n - BufLen + 1)..n
      BY <1>1, <1>2, <2>1, <2>3, <2>10
    <2> QED
      BY <1>3, <1>6, <2>1, <2>11, <2>12
  <1>7. ASSUME NEW i, NEW op, NEW x, NEW m, GroupLast(j, i, op, x, m)
        PROVE  FALSE
    <2>1. i \in Texts /\ m \in Texts /\ op \in Signs
      BY <1>7, SignsAre DEF GroupLast, Clear
    <2>2. PICK k : k = Append(i, op)
      OBVIOUS
    <2>3. k \in Texts /\ j = Enclosed(k, m)
      BY <1>7, <2>1, <2>2, EndsAppended DEF GroupLast
    <2>4. EndsWith(j, {")"})
      BY <2>1, <2>3, EnclosedBehind
    <2>5. ")" \notin Ins
      BY SignsAre DEF Parentheses
    <2> QED
      BY <2>4, <2>5 DEF EndsWith
  <1> QED
    BY <1>4, <1>5, <1>6, <1>7, SumCases DEF IsValue

(* What comes before the rest ends in a separator, and its fields fit.     *)
LEMMA HeadsAre ==
  ASSUME NEW h \in Texts, NEW w, NEW a, NEW F, Heads(h, w, a, F)
  PROVE  /\ h = <<>> \/ EndsWith(h, Separators)
         /\ Level(h) /\ w \in Wide /\ a \in Wide
         /\ h # <<>> => F \cap {"FW", "AC"} # {}
         /\ "FW" \notin F => w = 0
         /\ "AC" \notin F => a = 0
         /\ F \subseteq {"FW", "AC"}
  <1>1. \A f \in Texts : IsField(f) => Level(f) /\ Field(f) \in Wide
    BY FieldsAre
  <1>2. 0 \in Wide
    BY WordSizes
  <1>3. " " \in Signs /\ "," \in Signs /\ " " \notin Parentheses /\ "," \notin Parentheses
        /\ " " \in Separators /\ "," \in Separators
    BY DEF Signs, Parentheses, Separators
  <1>4. ASSUME NEW f \in Texts, Level(f), NEW c \in Signs \ Parentheses
        PROVE  Append(f, c) \in Texts /\ Level(Append(f, c))
    <2>1. PICK n \in Nat : n = Len(f)
      BY LenProperties DEF Texts
    <2>2. PICK t : t = Append(f, c)
      OBVIOUS
    <2>3. Grown(f, c, n, t)
      BY <2>1, <2>2, Grows
    <2>4. t \in Texts /\ Len(t) = n + 1 /\ t[n + 1] = c /\ \A i \in 1..n : t[i] = f[i]
      BY <2>3 DEF Grown
    <2>5. \A i \in 1..n : f[i] \notin Parentheses
      BY <1>4, <2>1 DEF Level
    <2>6. \A i \in 1..(n + 1) : t[i] \notin Parentheses
      <3> TAKE i \in 1..(n + 1)
      <3>1. i \in 1..n \/ i = n + 1
        OBVIOUS
      <3> QED
        BY <2>4, <2>5, <3>1
    <2> QED
      BY <2>2, <2>4, <2>6 DEF Level
  <1>5. ASSUME NEW f \in Texts, NEW g \in Texts, Level(f), Level(g)
        PROVE  f \o g \in Texts /\ Level(f \o g)
    <2>1. PICK n \in Nat : n = Len(f)
      BY LenProperties DEF Texts
    <2>2. PICK m \in Nat : m = Len(g)
      BY LenProperties DEF Texts
    <2>3. PICK t : t = f \o g
      OBVIOUS
    <2>4. Adjoined(f, g, n, m, t)
      BY <2>1, <2>2, <2>3, JoinedIs
    <2>5. /\ t \in Texts /\ Len(t) = n + m
          /\ \A i \in 1..n : t[i] = f[i]
          /\ \A i \in 1..m : t[n + i] = g[i]
      BY <2>4 DEF Adjoined
    <2>6. \A i \in 1..(n + m) : t[i] \notin Parentheses
      <3> TAKE i \in 1..(n + m)
      <3>1. CASE i <= n
        BY <1>5, <2>1, <2>5, <3>1 DEF Level
      <3>2. CASE i > n
        <4>1. i - n \in 1..m /\ i = n + (i - n)
          BY <3>2
        <4>2. PICK d \in 1..m : i = n + d
          BY <4>1
        <4> QED
          BY <1>5, <2>2, <2>5, <4>2 DEF Level
      <3> QED
        BY <3>1, <3>2
    <2> QED
      BY <2>3, <2>5, <2>6 DEF Level
  <1>6. \A f \in Texts, c \in Separators : c \in Signs /\ EndsWith(Append(f, c), Separators)
    BY SignsAre, EndsAppended
  <1>7. CASE h = <<>> /\ w = 0 /\ a = 0 /\ F = {}
    <2>1. Level(h)
      BY <1>7, EmptySeq DEF Level
    <2> QED
      BY <1>2, <1>7, <2>1
  <1>8. ASSUME NEW f \in Texts, IsField(f), NEW c \in Separators, h = Append(f, c)
        PROVE  EndsWith(h, Separators) /\ Level(h) /\ Field(f) \in Wide
    BY <1>1, <1>3, <1>4, <1>6, <1>8 DEF Separators
  <1>9. ASSUME NEW f \in Texts, NEW g \in Texts, IsField(f), IsField(g), h = Append(Append(f, " ") \o g, ",")
        PROVE  EndsWith(h, Separators) /\ Level(h) /\ Field(f) \in Wide /\ Field(g) \in Wide
    <2>1. PICK k : k = Append(f, " ")
      OBVIOUS
    <2>2. k \in Texts /\ Level(k)
      BY <1>1, <1>3, <1>4, <1>9, <2>1
    <2>3. PICK t : t = k \o g
      OBVIOUS
    <2>4. t \in Texts /\ Level(t)
      BY <1>1, <1>5, <1>9, <2>2, <2>3
    <2>5. h = Append(t, ",")
      BY <1>9, <2>1, <2>3
    <2> QED
      BY <1>1, <1>3, <1>4, <1>6, <1>9, <2>4, <2>5
  <1>10. " " \in Separators /\ "," \in Separators
    BY <1>3
  <1>11. CASE \E f \in Texts : IsField(f) /\ h = Append(f, " ") /\ w = Field(f) /\ a = 0 /\ F = {"FW"}
    BY <1>2, <1>8, <1>10, <1>11
  <1>12. CASE \E f \in Texts : IsField(f) /\ h = Append(f, ",") /\ w = 0 /\ a = Field(f) /\ F = {"AC"}
    BY <1>2, <1>8, <1>10, <1>12
  <1>13. CASE \E f \in Texts, g \in Texts :
               /\ IsField(f) /\ IsField(g) /\ h = Append(Append(f, " ") \o g, ",")
               /\ w = Field(f) /\ a = Field(g) /\ F = {"FW", "AC"}
    BY <1>9, <1>13
  <1> QED
    BY <1>7, <1>11, <1>12, <1>13 DEF Heads

(* What comes before the rest is not longer than what was there.           *)
LEMMA HeadShort ==
  ASSUME NEW s \in Texts, NEW b \in Texts, NEW h \in Texts, NEW k \in Texts, s \o b = h \o k,
         NEW w, NEW a, NEW F, Heads(h, w, a, F), b # <<>>,
         (\A i \in 1..Len(b) : b[i] \notin Separators) \/ b[1] = "("
  PROVE  Len(h) <= Len(s)
  <1> SUFFICES ASSUME Len(h) > Len(s)
               PROVE  FALSE
    BY LenProperties DEF Texts
  <1>1. PICK n \in Nat : n = Len(s)
    BY LenProperties DEF Texts
  <1>2. PICK m \in Nat : m = Len(b)
    BY LenProperties DEF Texts
  <1>3. PICK i \in Nat : i = Len(h)
    BY LenProperties DEF Texts
  <1>4. PICK j \in Nat : j = Len(k)
    BY LenProperties DEF Texts
  <1>5. PICK t : t = s \o b
    OBVIOUS
  <1>6. Len(t) = n + m /\ \A d \in 1..m : t[n + d] = b[d]
    <2>1. Adjoined(s, b, n, m, t)
      BY <1>1, <1>2, <1>5, JoinedIs
    <2> QED
      BY <2>1 DEF Adjoined
  <1>7. Len(t) = i + j /\ \A d \in 1..i : t[d] = h[d]
    <2>1. Adjoined(h, k, i, j, t)
      BY <1>3, <1>4, <1>5, JoinedIs
    <2> QED
      BY <2>1 DEF Adjoined
  <1>8. i > n /\ i <= n + m /\ i \in 1..i /\ n + 1 \in 1..i
    BY <1>1, <1>3, <1>6, <1>7
  <1>9. h # <<>>
    BY <1>3, <1>8, EmptySeq
  <1>10. h[i] \in Separators /\ Level(h)
    BY <1>3, <1>9, HeadsAre DEF EndsWith
  <1>11. CASE b[1] = "("
    <2>1. 1 \in 1..m
      BY <1>8
    <2>2. h[n + 1] = "("
      BY <1>6, <1>7, <1>8, <1>11, <2>1
    <2> QED
      BY <1>3, <1>8, <1>10, <2>2 DEF Level, Parentheses
  <1>12. CASE \A d \in 1..Len(b) : b[d] \notin Separators
    <2>1. i - n \in 1..m /\ n + (i - n) = i
      BY <1>8
    <2>2. PICK d \in 1..m : i = n + d
      BY <2>1
    <2>3. h[i] = b[d]
      BY <1>6, <1>7, <1>8, <2>2
    <2> QED
      BY <1>2, <1>10, <1>12, <2>3
  <1> QED
    BY <1>11, <1>12

(* What has wrapped has so behind the separator, and goes on to.           *)
LEMMA WrapsBehind ==
  ASSUME NEW s \in Texts, Wraps(s), EndsWith(s, Ins)
  PROVE  /\ \A h \in Texts, j \in Texts :
              s = h \o j /\ (h = <<>> \/ EndsWith(h, Separators)) =>
                j # <<>> /\ EndsWith(j, Ins) /\ Wraps(j)
         /\ \A b \in Texts : b \in Seq(Ins) => Wraps(s \o b) /\ EndsWith(s \o b, Ins)
  <1>1. BufLen \in Nat /\ BufLen > 1
    BY WordsAssumption
  <1>2. PICK n \in Nat : n = Len(s)
    BY LenProperties DEF Texts
  <1>3. n >= BufLen /\ \A i \in (n - BufLen + 1)..n : s[i] \in Ins
    BY <1>2 DEF Wraps
  <1>4. ASSUME NEW h \in Texts, NEW j \in Texts, s = h \o j, h = <<>> \/ EndsWith(h, Separators)
        PROVE  j # <<>> /\ EndsWith(j, Ins) /\ Wraps(j)
    <2>1. PICK a \in Nat : a = Len(h)
      BY LenProperties DEF Texts
    <2>2. PICK b \in Nat : b = Len(j)
      BY LenProperties DEF Texts
    <2>3. /\ n = a + b
          /\ \A i \in 1..a : s[i] = h[i]
          /\ \A i \in 1..b : s[a + i] = j[i]
      <3>1. Adjoined(h, j, a, b, s)
        BY <1>4, <2>1, <2>2, JoinedIs
      <3> QED
        BY <1>2, <3>1 DEF Adjoined
    <2>4. a # 0 => h[a] \in Separators
      BY <1>4, <2>1, EmptySeq DEF EndsWith
    <2>5. a # 0 => s[a] \notin Ins
      <3>1. a # 0 => a \in 1..a
        OBVIOUS
      <3> QED
        BY <2>3, <2>4, <3>1, SignsAre
    <2>6. b >= BufLen
      <3> SUFFICES ASSUME b < BufLen
                   PROVE  FALSE
        BY <1>1
      <3>1. a # 0 /\ a \in (n - BufLen + 1)..n
        BY <1>1, <1>3, <2>3
      <3> QED
        BY <1>3, <2>5, <3>1
    <2>7. \A i \in (b - BufLen + 1)..b : j[i] \in Ins
      <3> TAKE i \in (b - BufLen + 1)..b
      <3>1. i \in 1..b /\ a + i \in (n - BufLen + 1)..n
        BY <1>1, <2>3, <2>6
      <3> QED
        BY <1>3, <2>3, <3>1
    <2>8. b \in (b - BufLen + 1)..b /\ b # 0
      BY <1>1, <2>6
    <2>9. j # <<>>
      BY <2>2, <2>8, EmptySeq
    <2> QED
      BY <2>2, <2>6, <2>7, <2>8, <2>9 DEF EndsWith, Wraps
  <1>5. ASSUME NEW b \in Texts, b \in Seq(Ins)
        PROVE  Wraps(s \o b) /\ EndsWith(s \o b, Ins)
    <2>1. PICK m \in Nat : m = Len(b)
      BY LenProperties DEF Texts
    <2>2. PICK t : t = s \o b
      OBVIOUS
    <2>3. /\ Len(t) = n + m
          /\ \A i \in 1..n : t[i] = s[i]
          /\ \A i \in 1..m : t[n + i] = b[i]
      <3>1. Adjoined(s, b, n, m, t)
        BY <1>2, <2>1, <2>2, JoinedIs
      <3> QED
        BY <3>1 DEF Adjoined
    <2>4. \A i \in 1..m : b[i] \in Ins
      BY <1>5, <2>1, ElementOfSeq
    <2>5. \A i \in ((n + m) - BufLen + 1)..(n + m) : t[i] \in Ins
      <3> TAKE i \in ((n + m) - BufLen + 1)..(n + m)
      <3>1. CASE i <= n
        <4>1. i \in 1..n /\ i \in (n - BufLen + 1)..n
          BY <1>1, <1>3, <3>1
        <4> QED
          BY <1>3, <2>3, <4>1
      <3>2. CASE i > n
        <4>1. i - n \in 1..m /\ n + (i - n) = i
          BY <1>1, <1>3, <3>2
        <4>2. PICK d \in 1..m : i = n + d
          BY <4>1
        <4> QED
          BY <2>3, <2>4, <4>2
      <3> QED
        BY <3>1, <3>2
    <2>6. n + m >= BufLen /\ (n + m) \in ((n + m) - BufLen + 1)..(n + m) /\ n + m # 0
      BY <1>1, <1>3
    <2>7. t # <<>>
      BY <2>3, <2>6, EmptySeq
    <2> QED
      BY <2>2, <2>3, <2>5, <2>6, <2>7 DEF EndsWith, Wraps
  <1> QED
    BY <1>4, <1>5

-----------------------------------------------------------------------------
(* What DDT has of a line.                                                 *)

HasHeads(e, w, a, F) == e.word = w /\ e.ac = a /\ e.address = 0 /\ e.f = F

(* e is what j is read as, behind the fields of the head: nothing, a       *)
(* value, or a sum and an operator.                                        *)
Stands(e, j, w, a, F) ==
  /\ j = <<>> => HasHeads(e, w, a, F) /\ e.exp = 0 /\ e.op = "none"
  /\ IsValue(j) => HasHeads(e, w, a, F) /\ e.exp = Field(j) /\ e.op = "none" /\ e.gotexp
  /\ \A i \in Texts, op \in Operators, x \in Wide :
       j = Append(i, op) /\ Amounts(i, x) /\ Clear(i, op) =>
         HasHeads(e, w, a, F) /\ e.exp = x /\ e.op = IF Forgets(i, op) THEN "none" ELSE op

(* The word that e comes to.                                               *)
ComesTo(e, w) == e.op = "none" /\ e.f = {} /\ e.gotexp /\ (e.word + e.exp) % Word = w

(* e is what DDT has of the line s.                                        *)
Amasses(s, e) ==
  /\ s \in Texts /\ e \in Exprs
  /\ \A h \in Texts, j \in Texts, w \in Wide, a \in Wide, F \in SUBSET {"FW", "AC"} :
       s = h \o j /\ Heads(h, w, a, F) => Stands(e, j, w, a, F)
  /\ \A y \in Texts, x \in Wide, n \in Texts : SwapLast(s, y, x, n) => ComesTo(e, Meaning(s))

(* The first of two texts of which all goes to the buffer.                 *)
LEMMA FirstEnds ==
  ASSUME NEW g \in Texts, NEW b \in Texts, g # <<>>, NEW cs, g \o b \in Seq(cs)
  PROVE  EndsWith(g, cs)
  <1>1. PICK n \in Nat : n = Len(g) /\ n # 0
    BY EmptySeq DEF Texts
  <1>2. PICK m \in Nat : m = Len(b)
    BY LenProperties DEF Texts
  <1>3. PICK t : t = g \o b
    OBVIOUS
  <1>4. Adjoined(g, b, n, m, t)
    BY <1>1, <1>2, <1>3, JoinedIs
  <1>5. Len(t) = n + m /\ n \in 1..n /\ n \in 1..(n + m) /\ t[n] = g[n]
    BY <1>1, <1>4 DEF Adjoined
  <1>6. t \in Seq(cs)
    BY <1>3
  <1>7. t[n] \in cs
    BY <1>5, <1>6, ElementOfSeq
  <1> QED
    BY <1>1, <1>5, <1>7 DEF EndsWith

(* What was in the buffer is what is behind the operator.                  *)
LEMMA SameRest ==
  ASSUME NEW k \in Texts, NEW m \in Texts, NEW j \in Texts, NEW b \in Texts, k \o m = j \o b,
         m \in Seq(Ins), b \in Seq(Ins), k # <<>>, ~EndsWith(k, Ins), ~EndsWith(j, Ins)
  PROVE  j = k /\ b = m
  <1>1. Len(k) \in Nat /\ Len(j) \in Nat
    BY LenProperties DEF Texts
  <1>2. CASE Len(k) <= Len(j)
    <2>1. PICK g : GoesOn(j, k, g, b, m)
      BY <1>2, Splits
    <2>2. g \in Texts /\ j = k \o g /\ m = g \o b
      BY <2>1 DEF GoesOn
    <2>3. g # <<>> => EndsWith(g, Ins)
      BY <2>2, FirstEnds
    <2>4. g # <<>> => EndsWith(j, Ins)
      BY <2>2, <2>3, EndsJoined
    <2> QED
      BY <2>2, <2>4, ConcatEmptySeq DEF Texts
  <1>3. CASE Len(j) <= Len(k)
    <2>1. PICK g : GoesOn(k, j, g, m, b)
      BY <1>3, Splits
    <2>2. g \in Texts /\ k = j \o g /\ b = g \o m
      BY <2>1 DEF GoesOn
    <2>3. g # <<>> => EndsWith(g, Ins)
      BY <2>2, FirstEnds
    <2>4. g # <<>> => EndsWith(k, Ins)
      BY <2>2, <2>3, EndsJoined
    <2> QED
      BY <2>2, <2>4, ConcatEmptySeq DEF Texts
  <1> QED
    BY <1>1, <1>2, <1>3

(* A remainder of what is small.                                           *)
LEMMA SmallRemainder ==
  ASSUME NEW n \in Nat \ {0}, NEW x \in Nat, x < n
  PROVE  x % n = x
  OBVIOUS

(* The value of what is in the buffer.                                     *)
IsParsed(b, t) == (IsNumber(b) => t = Number(b)) /\ (b \in DOMAIN symtab => t = symtab[b])

(* The buffer is combined with what stands before it.                      *)
LEMMA StandsAdded ==
  ASSUME NEW e \in Exprs, NEW j \in Texts, NEW w, NEW a, NEW F, Stands(e, j, w, a, F), ~EndsWith(j, Ins),
         NEW b \in Texts, b \in Seq(Ins), b # <<>>, NEW t \in Single, IsParsed(b, t)
  PROVE  Stands(combine(e, t), j \o b, w, a, F)
  <1> DEFINE d == combine(e, t)
  <1>1. /\ d.word = e.word /\ d.ac = e.ac /\ d.address = e.address /\ d.f = e.f
        /\ d.exp = Reckoned(e.op, e.exp, t) /\ d.gotexp /\ d.op = "none"
    BY DEF combine, Exprs
  <1> HIDE DEF d
  <1>2. HasHeads(d, w, a, F) <=> HasHeads(e, w, a, F)
    BY <1>1 DEF HasHeads
  <1>3. PICK s : s = j \o b
    OBVIOUS
  <1>4. s \in Texts /\ s # <<>> /\ EndsWith(s, Ins) /\ (j = <<>> => s = b)
    <2>1. EndsWith(b, Ins)
      BY AllEnd
    <2> QED
      BY <1>3, <2>1, EndsJoined
  <1>5. ASSUME j = <<>>, t = Field(b)
        PROVE  HasHeads(d, w, a, F) /\ d.exp = Field(s) /\ d.op = "none" /\ d.gotexp
    <2>1. e.exp = 0 /\ e.op = "none" /\ HasHeads(e, w, a, F)
      BY <1>5 DEF Stands
    <2>2. Reckoned("none", 0, t) = t
      <3>1. t \in Nat /\ t < Host /\ Host \in Nat \ {0} /\ 0 + t = t
        BY WordSizes DEF Single
      <3>2. t % Host = t
        BY <3>1, SmallRemainder
      <3> QED
        BY <3>1, <3>2 DEF Reckoned
    <2> QED
      BY <1>1, <1>2, <1>4, <1>5, <2>1, <2>2
  <1>6. ASSUME s \in DOMAIN symtab
        PROVE  HasHeads(d, w, a, F) /\ d.exp = Field(s) /\ d.op = "none" /\ d.gotexp
    <2>1. j = <<>>
      <3> SUFFICES ASSUME j # <<>>
                   PROVE  FALSE
        OBVIOUS
      <3>1. s \in Seq(Ins)
        BY <1>6, SymbolsAre
      <3> QED
        BY <1>3, <3>1, FirstEnds
    <2>2. t = Field(b)
      BY <1>4, <1>6, <2>1 DEF IsParsed, Field
    <2> QED
      BY <1>5, <2>1, <2>2
  <1>7. ASSUME ShortNumber(s), Sum(s) = Number(s), IsSum(s)
        PROVE  HasHeads(d, w, a, F) /\ d.exp = Field(s) /\ d.op = "none" /\ d.gotexp
    <2>1. s \in Seq(Digits) /\ s \in Seq(Ins)
      BY <1>7, SignsAre, SeqMonotonic DEF ShortNumber
    <2>2. j = <<>>
      BY <1>3, <2>1, FirstEnds
    <2>3. IsNumber(b)
      <3>1. b \in Seq(Digits)
        BY <1>4, <2>1, <2>2
      <3>2. DOMAIN b = 1..Len(b) /\ \A i \in 1..Len(b) : b[i] \in Digits
        BY <3>1, LenProperties, ElementOfSeq
      <3> QED
        BY <3>2 DEF IsNumber
    <2>4. t = Field(b)
      <3>1. b = s /\ b \notin DOMAIN symtab
        BY <1>4, <1>7, <2>2, SumEnds
      <3> QED
        BY <1>7, <2>3, <3>1 DEF IsParsed, Field
    <2> QED
      BY <1>5, <2>2, <2>4
  <1>8. ASSUME IsSum(s), NEW i, NEW op, NEW x, NEW m, NumberLast(s, i, op, x, m)
        PROVE  HasHeads(d, w, a, F) /\ d.exp = Field(s)
    <2>1. /\ i \in Texts /\ m \in Texts /\ m \in Seq(Digits) /\ m # <<>>
          /\ op \in Operators /\ op \in Signs /\ op \notin Ins /\ x \in Wide
          /\ Amounts(i, x) /\ Clear(i, op)
      BY <1>8, SignsAre DEF NumberLast, ShortNumber, Clear, Amounts
    <2>2. m \in Seq(Ins)
      BY <2>1, SignsAre, SeqMonotonic
    <2>3. PICK k : k = Append(i, op)
      OBVIOUS
    <2>4. k \in Texts /\ k # <<>> /\ ~EndsWith(k, Ins)
      BY <2>1, <2>3, EndsAppended
    <2>5. k \o m = j \o b
      BY <1>3, <1>8, <2>3 DEF NumberLast
    <2>6. j = k /\ b = m
      BY <2>1, <2>2, <2>4, <2>5, SameRest
    <2>7. HasHeads(e, w, a, F) /\ e.exp = x /\ e.op = IF Forgets(i, op) THEN "none" ELSE op
      BY <2>1, <2>3, <2>6 DEF Stands
    <2>8. t = Number(m)
      <3>1. DOMAIN m = 1..Len(m) /\ \A r \in 1..Len(m) : m[r] \in Digits
        BY <2>1, LenProperties, ElementOfSeq
      <3>2. IsNumber(m)
        BY <2>1, <3>1 DEF IsNumber
      <3> QED
        BY <2>6, <3>2 DEF IsParsed
    <2>9. Reckoned(e.op, e.exp, t) = Reckoned(op, x, Number(m))
      BY <2>7, <2>8 DEF Reckoned, Forgets
    <2>10. Field(s) = Sum(s) /\ Sum(s) = Reckoned(op, x, Number(m))
      <3>1. IsValue(s)
        BY <1>8 DEF IsValue
      <3> QED
        BY <1>4, <1>8, <3>1, ValueIs DEF NumberLast
    <2> QED
      BY <1>1, <1>2, <2>7, <2>9, <2>10
  <1>9. ASSUME NEW i, NEW op, NEW x, NEW n, GroupLast(s, i, op, x, n)
        PROVE  FALSE
    <2>1. i \in Texts /\ n \in Texts /\ op \in Signs
      BY <1>9, SignsAre DEF GroupLast, Clear
    <2>2. PICK k : k = Append(i, op)
      OBVIOUS
    <2>3. k \in Texts /\ s = Enclosed(k, n)
      BY <1>9, <2>1, <2>2, EndsAppended DEF GroupLast
    <2>4. EndsWith(s, {")"}) /\ ")" \notin Ins
      BY <2>1, <2>3, EnclosedBehind, SignsAre DEF Parentheses
    <2> QED
      BY <1>4, <2>4 DEF EndsWith
  <1>10. IsValue(s) => HasHeads(d, w, a, F) /\ d.exp = Field(s) /\ d.op = "none" /\ d.gotexp
    <2>1. CASE IsSum(s)
      <3>1. CASE ShortNumber(s) /\ Sum(s) = Number(s)
        BY <1>7, <2>1, <3>1
      <3>2. CASE \E i, op, x, m : NumberLast(s, i, op, x, m)
        BY <1>1, <1>8, <2>1, <3>2
      <3>3. ~\E i, op, x, n : GroupLast(s, i, op, x, n)
        BY <1>9
      <3> QED
        BY <1>4, <2>1, <3>1, <3>2, <3>3, SumCases
    <2> QED
      BY <1>6, <2>1 DEF IsValue
  <1>11. ASSUME NEW i \in Texts, NEW op \in Operators, s = Append(i, op)
         PROVE  FALSE
    BY <1>4, <1>11, SignsAre, EndsAppended
  <1> QED
    BY <1>3, <1>4, <1>10, <1>11 DEF Stands, d

(* An operator is taken or not.                                            *)
Operated(e, y, c, d) ==
  \/ (c = "-" \/ EndsWith(y, Ins)) /\ d = [e EXCEPT !.op = c]
  \/ c # "-" /\ Wraps(y) /\ d = e

(* It stands behind a value, or is a sign.                                 *)
LEMMA StandsOperated ==
  ASSUME NEW e \in Exprs, NEW j \in Texts, NEW w, NEW a, NEW F, Stands(e, j, w, a, F),
         NEW c \in Operators, NEW d, Operated(e, j, c, d)
  PROVE  Stands(d, Append(j, c), w, a, F)
  <1>1. /\ d.word = e.word /\ d.ac = e.ac /\ d.address = e.address /\ d.f = e.f /\ d.exp = e.exp
        /\ c = "-" \/ EndsWith(j, Ins) \/ (c # "-" /\ Wraps(j) /\ d.op = e.op)
        /\ c = "-" \/ EndsWith(j, Ins) => d.op = c \/ (c # "-" /\ Wraps(j))
    BY DEF Operated, Exprs
  <1>2. HasHeads(d, w, a, F) <=> HasHeads(e, w, a, F)
    BY <1>1 DEF HasHeads
  <1>3. PICK s : s = Append(j, c)
    OBVIOUS
  <1>4. c \in Signs /\ c \notin Ins /\ c # ")"
    BY SignsAre DEF Parentheses
  <1>5. /\ s \in Texts /\ s # <<>> /\ \A cs : EndsWith(s, cs) <=> c \in cs
        /\ \A i \in Texts, op \in Signs : s = Append(i, op) => i = j /\ op = c
    <2>1. /\ Append(j, c) \in Texts /\ Append(j, c) # <<>>
          /\ \A cs : EndsWith(Append(j, c), cs) <=> c \in cs
      BY <1>4, EndsAppended
    <2>2. \A i \in Texts, op \in Signs : Append(j, c) = Append(i, op) => j = i /\ c = op
      BY <1>4, EndsAppended
    <2> QED
      BY <1>3, <2>1, <2>2
  <1>6. ~IsValue(s)
    <2>1. IsValue(s) => EndsWith(s, Ins \cup {")"})
      BY <1>5, ValueIs
    <2> QED
      BY <1>4, <1>5, <2>1
  <1>7. ASSUME NEW x \in Wide, Amounts(j, x), Clear(j, c)
        PROVE  HasHeads(d, w, a, F) /\ d.exp = x /\ d.op = IF Forgets(j, c) THEN "none" ELSE c
    <2>1. CASE j = <<>>
      <3>1. c = "-" /\ x = 0 /\ ~EndsWith(j, {")"})
        BY <1>7, <2>1 DEF Clear, Amounts, EndsWith
      <3>2. HasHeads(e, w, a, F) /\ e.exp = 0
        BY <2>1 DEF Stands
      <3> QED
        BY <1>1, <1>2, <3>1, <3>2 DEF Forgets
    <2>2. CASE j # <<>>
      <3>1. IsSum(j) /\ x = Sum(j)
        BY <1>7, <2>2 DEF Amounts
      <3>2. IsValue(j) /\ Field(j) = x
        BY <3>1, ValueIs DEF IsValue
      <3>3. HasHeads(e, w, a, F) /\ e.exp = x /\ e.op = "none"
        BY <3>2 DEF Stands
      <3>4. EndsWith(j, Digits \cup {")"})
        BY <3>1, SumEnds
      <3>5. EndsWith(j, Ins) \/ EndsWith(j, {")"})
        BY <3>4, SignsAre DEF EndsWith
      <3>6. EndsWith(j, Ins) => ~Wraps(j) /\ ~EndsWith(j, {")"})
        <4>1. ")" \notin Ins
          BY SignsAre DEF Parentheses
        <4> QED
          BY <3>2, <4>1, NotWrapped DEF EndsWith
      <3>7. CASE c = "-"
        BY <1>1, <1>2, <3>3, <3>7 DEF Forgets
      <3>8. CASE c # "-" /\ EndsWith(j, Ins)
        BY <1>1, <1>2, <3>3, <3>6, <3>8 DEF Forgets
      <3>9. CASE c # "-" /\ ~EndsWith(j, Ins)
        <4>1. EndsWith(j, {")"}) /\ c = "+"
          BY <1>7, <3>5, <3>9 DEF Clear
        <4> QED
          BY <1>1, <1>2, <3>3, <3>9, <4>1 DEF Forgets
      <3> QED
        BY <3>7, <3>8, <3>9
    <2> QED
      BY <2>1, <2>2
  <1>8. ASSUME NEW i \in Texts, NEW op \in Operators, NEW x \in Wide,
               s = Append(i, op), Amounts(i, x), Clear(i, op)
        PROVE  HasHeads(d, w, a, F) /\ d.exp = x /\ d.op = IF Forgets(i, op) THEN "none" ELSE op
    <2>1. i = j /\ op = c
      BY <1>5, <1>8, SignsAre
    <2> QED
      BY <1>7, <1>8, <2>1
  <1> QED
    BY <1>3, <1>5, <1>6, <1>8 DEF Stands

(* What a group is taken for.                                              *)
Popped(e, t) ==
  IF e.op = "none" THEN [e EXCEPT !.word = (e.word + Swapped(t)) % Host, !.gotexp = TRUE]
  ELSE combine(e, t)

(* Behind an operator it is a term.                                        *)
LEMMA StandsClosed ==
  ASSUME NEW e \in Exprs, NEW j \in Texts, NEW w, NEW a, NEW F, Stands(e, j, w, a, F),
         NEW n \in Texts, Balanced(n), NEW t, IsLine(n) => t = Meaning(n)
  PROVE  Stands(Popped(e, t), Enclosed(j, n), w, a, F)
  <1>1. PICK s : s = Enclosed(j, n)
    OBVIOUS
  <1>2. s \in Texts /\ s # <<>> /\ \A cs : EndsWith(s, cs) <=> ")" \in cs
    BY <1>1, EnclosedBehind
  <1>3. ")" \notin Ins /\ ")" \notin Operators /\ ")" \notin Digits
    BY SignsAre DEF Parentheses
  <1>4. s \notin DOMAIN symtab
    <2>1. s \in DOMAIN symtab => EndsWith(s, Ins)
      BY SymbolsAre, AllEnd
    <2> QED
      BY <1>2, <1>3, <2>1
  <1>5. ASSUME NEW i \in Texts, NEW op \in Operators, s = Append(i, op)
        PROVE  FALSE
    <2>1. EndsWith(s, Operators)
      BY <1>5, EndsAppended, SignsAre
    <2> QED
      BY <1>2, <1>3, <2>1
  <1>6. ASSUME NEW i, NEW op, NEW x, NEW m, NumberLast(s, i, op, x, m)
        PROVE  FALSE
    <2>1. i \in Texts /\ m \in Texts /\ m \in Seq(Digits) /\ m # <<>> /\ op \in Signs
      BY <1>6, SignsAre DEF NumberLast, ShortNumber, Clear
    <2>2. PICK k : k = Append(i, op)
      OBVIOUS
    <2>3. k \in Texts /\ s = k \o m
      BY <1>6, <2>1, <2>2, EndsAppended DEF NumberLast
    <2>4. EndsWith(m, Digits)
      BY <2>1, AllEnd
    <2>5. EndsWith(s, Digits)
      BY <2>1, <2>3, <2>4, EndsJoined
    <2> QED
      BY <1>2, <1>3, <2>5
  <1>7. ~ShortNumber(s)
    <2>1. ShortNumber(s) => EndsWith(s, Digits)
      BY AllEnd DEF ShortNumber
    <2> QED
      BY <1>2, <1>3, <2>1
  <1>8. ASSUME IsSum(s), NEW i, NEW op, NEW x, NEW m, GroupLast(s, i, op, x, m)
        PROVE  /\ HasHeads(Popped(e, t), w, a, F) /\ Popped(e, t).exp = Field(s)
               /\ Popped(e, t).op = "none" /\ Popped(e, t).gotexp
    <2>1. /\ i \in Texts /\ m \in Texts /\ op \in Operators /\ op \in Signs /\ IsLine(m)
          /\ Amounts(i, x) /\ x \in Wide /\ Clear(i, op) /\ ~Forgets(i, op)
          /\ Sum(s) = Reckoned(op, x, Meaning(m))
      BY <1>8, SignsAre DEF GroupLast, Clear, Amounts
    <2>2. PICK k : k = Append(i, op)
      OBVIOUS
    <2>3. k \in Texts /\ Enclosed(j, n) = Enclosed(k, m)
      BY <1>1, <1>8, <2>1, <2>2, EndsAppended DEF GroupLast
    <2>4. Balanced(m)
      BY <2>1, MeantIs
    <2>5. j = k /\ n = m
      BY <2>1, <2>3, <2>4, OneGroup
    <2>6. HasHeads(e, w, a, F) /\ e.exp = x /\ e.op = op
      BY <2>1, <2>2, <2>5 DEF Stands
    <2>7. t = Meaning(m) /\ op # "none"
      BY <2>1, <2>5 DEF Operators
    <2>8. Popped(e, t) = combine(e, t)
      BY <2>6, <2>7 DEF Popped
    <2>9. PICK d : d = combine(e, t)
      OBVIOUS
    <2>10. /\ d.word = e.word /\ d.ac = e.ac /\ d.address = e.address /\ d.f = e.f
           /\ d.exp = Reckoned(e.op, e.exp, t) /\ d.gotexp /\ d.op = "none"
      BY <2>9 DEF combine, Exprs
    <2>11. Field(s) = Sum(s)
      BY <1>4 DEF Field
    <2> QED
      BY <2>1, <2>6, <2>7, <2>8, <2>9, <2>10, <2>11 DEF HasHeads
  <1>9. IsValue(s) => /\ HasHeads(Popped(e, t), w, a, F) /\ Popped(e, t).exp = Field(s)
                      /\ Popped(e, t).op = "none" /\ Popped(e, t).gotexp
    <2> SUFFICES ASSUME IsSum(s)
                 PROVE  /\ HasHeads(Popped(e, t), w, a, F) /\ Popped(e, t).exp = Field(s)
                        /\ Popped(e, t).op = "none" /\ Popped(e, t).gotexp
      BY <1>4 DEF IsValue
    <2>1. PICK i, op, x, m : GroupLast(s, i, op, x, m)
      BY <1>2, <1>6, <1>7, SumCases
    <2> QED
      BY <1>8, <2>1
  <1> QED
    BY <1>1, <1>2, <1>5, <1>9 DEF Stands

-----------------------------------------------------------------------------
(* What DDT has of a line, character by character.                         *)

(* Nothing stands before an empty line.                                    *)
LEMMA NoHeads ==
  ASSUME NEW w, NEW a, NEW F, Heads(<<>>, w, a, F)
  PROVE  w = 0 /\ a = 0 /\ F = {}
  <1>1. \A f \in Texts, c \in Signs : Append(f, c) # <<>> /\ Append(f, c) \in Texts
    BY EndsAppended
  <1>2. " " \in Signs /\ "," \in Signs
    BY DEF Signs
  <1>3. \A f \in Texts, g \in Texts : f \o g \in Texts
    BY EndsJoined
  <1>4. \A f \in Texts, g \in Texts : Append(Append(f, " ") \o g, ",") # <<>>
    <2> TAKE f \in Texts, g \in Texts
    <2>1. PICK k : k = Append(f, " ")
      OBVIOUS
    <2>2. PICK t : t = k \o g
      OBVIOUS
    <2>3. t \in Texts
      BY <1>1, <1>2, <1>3, <2>1, <2>2
    <2> QED
      BY <1>1, <1>2, <2>1, <2>2, <2>3
  <1> QED
    BY <1>1, <1>2, <1>4 DEF Heads

(* Nothing stands for nothing.                                             *)
LEMMA StandsNothing ==
  ASSUME NEW e, NEW w, NEW a, NEW F, HasHeads(e, w, a, F), e.exp = 0, e.op = "none"
  PROVE  Stands(e, <<>>, w, a, F)
  <1>1. <<>> \in Texts
    BY EmptySeq DEF Texts
  <1>2. ~IsValue(<<>>)
    BY <1>1, ValueIs
  <1>3. \A i \in Texts, op \in Operators : Append(i, op) # <<>>
    BY SignsAre, EndsAppended
  <1> QED
    BY <1>2, <1>3 DEF Stands

(* A group that is swapped ends the line.                                  *)
LEMMA SwapEnds ==
  ASSUME NEW s \in Texts, NEW y \in Texts, NEW x, NEW n \in Texts, SwapLast(s, y, x, n)
  PROVE  EndsWith(s, {")"}) /\ s # <<>>
  BY EnclosedBehind DEF SwapLast

(* At first there is nothing.                                              *)
LEMMA AmassesNothing == Amasses(<<>>, Empty)
  <1>1. PICK s \in Texts : s = <<>>
    BY EmptySeq DEF Texts
  <1>2. PICK e \in Exprs : e = Empty
    BY EmptyIs
  <1>3. ASSUME NEW h \in Texts, NEW j \in Texts, NEW w, NEW a, NEW F, s = h \o j, Heads(h, w, a, F)
        PROVE  Stands(e, j, w, a, F)
    <2>1. h = <<>> /\ j = <<>>
      BY <1>1, <1>3, ConcatSimplifications DEF Texts
    <2>2. w = 0 /\ a = 0 /\ F = {}
      BY <1>3, <2>1, NoHeads
    <2>3. HasHeads(e, w, a, F) /\ e.exp = 0 /\ e.op = "none"
      BY <1>2, <2>2 DEF HasHeads, Empty
    <2> QED
      BY <2>1, <2>3, StandsNothing
  <1>4. ASSUME NEW y \in Texts, NEW x, NEW n \in Texts, SwapLast(s, y, x, n)
        PROVE  FALSE
    BY <1>1, <1>4, SwapEnds
  <1>5. Amasses(s, e)
    BY <1>3, <1>4 DEF Amasses
  <1> QED
    BY <1>1, <1>2, <1>5

(* Where the buffer has wrapped nothing that has a value ends.             *)
LEMMA AmassesWrapped ==
  ASSUME NEW s \in Texts, Wraps(s), EndsWith(s, Ins), NEW e \in Exprs
  PROVE  Amasses(s, e)
  <1>1. ASSUME NEW h \in Texts, NEW j \in Texts, NEW w, NEW a, NEW F, s = h \o j, Heads(h, w, a, F)
        PROVE  Stands(e, j, w, a, F)
    <2>1. h = <<>> \/ EndsWith(h, Separators)
      BY <1>1, HeadsAre
    <2>2. j # <<>> /\ EndsWith(j, Ins) /\ Wraps(j)
      BY <1>1, <2>1, WrapsBehind
    <2>3. ~IsValue(j)
      BY <2>2, NotWrapped
    <2>4. ASSUME NEW i \in Texts, NEW op \in Operators, j = Append(i, op)
          PROVE  FALSE
      BY <2>2, <2>4, SignsAre, EndsAppended
    <2> QED
      BY <2>2, <2>3, <2>4 DEF Stands
  <1>2. ASSUME NEW y \in Texts, NEW x, NEW n \in Texts, SwapLast(s, y, x, n)
        PROVE  FALSE
    BY <1>2, SwapEnds, SignsAre DEF EndsWith, Parentheses
  <1> QED
    BY <1>1, <1>2 DEF Amasses

(* Behind a head: what is there ends as the line does.                     *)
LEMMA BehindHead ==
  ASSUME NEW s \in Texts, NEW h \in Texts, NEW j \in Texts, s = h \o j, NEW w, NEW a, NEW F, Heads(h, w, a, F)
  PROVE  /\ EndsWith(j, Ins) => EndsWith(s, Ins)
         /\ EndsWith(s, Ins) => EndsWith(j, Ins) /\ (Wraps(s) => Wraps(j))
  <1>1. h = <<>> \/ EndsWith(h, Separators)
    BY HeadsAre
  <1>2. ~EndsWith(h, Ins)
    BY <1>1, SignsAre DEF EndsWith
  <1>3. j # <<>> => (EndsWith(s, Ins) <=> EndsWith(j, Ins))
    BY EndsJoined
  <1>4. j = <<>> => s = h
    BY EndsJoined
  <1>5. EndsWith(s, Ins) => EndsWith(j, Ins)
    BY <1>2, <1>3, <1>4
  <1>6. EndsWith(j, Ins) => EndsWith(s, Ins)
    BY <1>3 DEF EndsWith
  <1>7. ASSUME EndsWith(s, Ins), Wraps(s)
        PROVE  Wraps(j)
    BY <1>1, <1>7, WrapsBehind
  <1> QED
    BY <1>5, <1>6, <1>7

(* The buffer is combined.                                                 *)
LEMMA AmassesAdded ==
  ASSUME NEW s, NEW e, Amasses(s, e), Wraps(s),
         NEW b \in Texts, b \in Seq(Ins), b # <<>>, NEW t \in Single, IsParsed(b, t), Divisible(e, t)
  PROVE  Amasses(s \o b, combine(e, t)) /\ EndsWith(s \o b, Ins)
  <1>1. s \in Texts /\ e \in Exprs
    BY DEF Amasses
  <1>2. PICK y : y = s \o b
    OBVIOUS
  <1>3. EndsWith(b, Ins)
    BY AllEnd
  <1>4. y \in Texts /\ EndsWith(y, Ins)
    BY <1>1, <1>2, <1>3, EndsJoined
  <1>5. PICK d \in Exprs : d = combine(e, t)
    BY <1>1, CombineIs
  <1>6. CASE EndsWith(s, Ins)
    <2>1. Wraps(y)
      BY <1>1, <1>2, <1>6, WrapsBehind
    <2>2. Amasses(y, d)
      BY <1>4, <2>1, AmassesWrapped
    <2> QED
      BY <1>2, <1>4, <1>5, <2>2
  <1>7. CASE ~EndsWith(s, Ins)
    <2>1. ASSUME NEW h \in Texts, NEW k \in Texts, NEW w \in Wide, NEW a \in Wide, NEW F \in SUBSET {"FW", "AC"},
                 y = h \o k, Heads(h, w, a, F)
          PROVE  Stands(d, k, w, a, F)
      <3>1. \A i \in 1..Len(b) : b[i] \notin Separators
        BY ElementOfSeq, SignsAre
      <3>2. s \o b = h \o k
        BY <1>2, <2>1
      <3>3. Len(h) <= Len(s)
        BY <1>1, <2>1, <3>1, <3>2, HeadShort
      <3>4. PICK j : GoesOn(s, h, j, b, k)
        BY <1>1, <3>2, <3>3, Splits
      <3>5. j \in Texts /\ s = h \o j /\ k = j \o b
        BY <3>4 DEF GoesOn
      <3>6. Stands(e, j, w, a, F)
        BY <2>1, <3>5 DEF Amasses
      <3>7. ~EndsWith(j, Ins)
        BY <1>1, <1>7, <2>1, <3>5, BehindHead
      <3>8. Stands(combine(e, t), j \o b, w, a, F)
        BY <1>1, <3>5, <3>6, <3>7, StandsAdded
      <3> QED
        BY <1>5, <3>5, <3>8
    <2>2. ASSUME NEW z \in Texts, NEW x, NEW n \in Texts, SwapLast(y, z, x, n)
          PROVE  FALSE
      <3>1. EndsWith(y, {")"})
        BY <1>4, <2>2, SwapEnds
      <3> QED
        BY <1>4, <3>1, SignsAre DEF EndsWith, Parentheses
    <2>3. Amasses(y, d)
      BY <1>4, <2>1, <2>2 DEF Amasses
    <2> QED
      BY <1>2, <1>4, <1>5, <2>3
  <1> QED
    BY <1>6, <1>7

(* An operator is taken.                                                   *)
LEMMA AmassesOperated ==
  ASSUME NEW y, NEW e, Amasses(y, e), NEW c \in Operators, NEW d \in Exprs, Operated(e, y, c, d)
  PROVE  Amasses(Append(y, c), d)
  <1>1. y \in Texts /\ e \in Exprs
    BY DEF Amasses
  <1>2. c \in Signs /\ c \notin Separators /\ c # ")"
    BY SignsAre DEF Parentheses
  <1>3. PICK b : b = <<c>>
    OBVIOUS
  <1>4. PICK t : t = Append(y, c)
    OBVIOUS
  <1>5. b \in Texts /\ b # <<>> /\ t = y \o b /\ t \in Texts /\ \A cs : EndsWith(t, cs) <=> c \in cs
    BY <1>1, <1>2, <1>3, <1>4, EndsAppended
  <1>6. ASSUME NEW h \in Texts, NEW k \in Texts, NEW w \in Wide, NEW a \in Wide, NEW F \in SUBSET {"FW", "AC"},
               t = h \o k, Heads(h, w, a, F)
        PROVE  Stands(d, k, w, a, F)
    <2>1. \A i \in 1..Len(b) : b[i] \notin Separators
      BY <1>2, <1>3
    <2>2. y \o b = h \o k
      BY <1>5, <1>6
    <2>3. Len(h) <= Len(y)
      BY <1>1, <1>5, <1>6, <2>1, <2>2, HeadShort
    <2>4. PICK j : GoesOn(y, h, j, b, k)
      BY <1>1, <1>5, <2>2, <2>3, Splits
    <2>5. j \in Texts /\ y = h \o j /\ k = j \o b
      BY <2>4 DEF GoesOn
    <2>6. Stands(e, j, w, a, F)
      BY <1>6, <2>5 DEF Amasses
    <2>7. k = Append(j, c)
      BY <1>2, <1>3, <2>5, EndsAppended
    <2>8. Operated(e, j, c, d)
      <3>1. /\ EndsWith(j, Ins) => EndsWith(y, Ins)
            /\ EndsWith(y, Ins) => EndsWith(j, Ins) /\ (Wraps(y) => Wraps(j))
        BY <1>1, <1>6, <2>5, BehindHead
      <3>2. ~EndsWith(j, Ins) => Wraps(j)
        BY DEF Wraps
      <3> QED
        BY <3>1, <3>2 DEF Operated
    <2> QED
      BY <1>1, <2>5, <2>6, <2>7, <2>8, StandsOperated
  <1>7. ASSUME NEW z \in Texts, NEW x, NEW n \in Texts, SwapLast(t, z, x, n)
        PROVE  FALSE
    BY <1>2, <1>5, <1>7, SwapEnds
  <1> QED
    BY <1>4, <1>5, <1>6, <1>7 DEF Amasses

(* A word with its halves swapped.                                         *)
LEMMA SwappedIs ==
  ASSUME NEW t \in Single
  PROVE  Swapped(t) \in Nat /\ Swapped(t) < Word /\ Swapped(t) < Host
  <1>1. t \in Nat /\ Half \in Nat \ {0} /\ Word = Half * Half /\ t < Word
    BY WordSizes DEF Single, Word
  <1>2. PICK r : r = t % Half
    OBVIOUS
  <1>3. r \in 0..(Half - 1)
    BY <1>1, <1>2, Remainders
  <1>4. PICK v : v = t % Word
    OBVIOUS
  <1>5. v = t
    BY <1>1, <1>4, WordSizes, SmallRemainder
  <1>6. PICK l : l = v \div Half
    OBVIOUS
  <1>7. l \in 0..(Half - 1)
    <2>1. v \in Nat /\ v < Half * Half
      BY <1>1, <1>5
    <2>2. l \in Nat /\ l * Half <= v
      BY <1>1, <1>6, <2>1
    <2>3. l * Half < Half * Half
      BY <1>1, <2>1, <2>2
    <2>4. l < Half
      BY <1>1, <2>2, <2>3
    <2> QED
      BY <1>1, <2>2, <2>4
  <1>8. r * Half + l \in Nat /\ r * Half + l < Half * Half
    <2>1. r * Half <= (Half - 1) * Half
      BY <1>1, <1>3
    <2>2. (Half - 1) * Half = Half * Half - Half
      BY <1>1
    <2>3. r * Half \in Nat /\ Half * Half \in Nat
      BY <1>1, <1>3
    <2> QED
      BY <1>1, <1>7, <2>1, <2>2, <2>3
  <1>9. Swapped(t) = r * Half + l
    BY <1>2, <1>4, <1>6 DEF Swapped, RT, LT
  <1> QED
    BY <1>1, <1>8, <1>9, WordSizes

(* A group is closed.                                                      *)
LEMMA AmassesClosed ==
  ASSUME NEW y, NEW e, Amasses(y, e), NEW n \in Texts, Balanced(n), NEW t \in Single,
         IsLine(n) => t = Meaning(n), Popped(e, t) \in Exprs
  PROVE  Amasses(Enclosed(y, n), Popped(e, t))
  <1>1. y \in Texts /\ e \in Exprs
    BY DEF Amasses
  <1>2. PICK b : b = Enclosed(<<>>, n)
    OBVIOUS
  <1>3. PICK s : s = Enclosed(y, n)
    OBVIOUS
  <1>4. PICK d \in Exprs : d = Popped(e, t)
    OBVIOUS
  <1>5. b \in Texts /\ b # <<>> /\ b[1] = "(" /\ s = y \o b /\ s \in Texts
    BY <1>1, <1>2, <1>3, EnclosedBehind
  <1>6. ASSUME NEW h \in Texts, NEW k \in Texts, NEW w \in Wide, NEW a \in Wide, NEW F \in SUBSET {"FW", "AC"},
               s = h \o k, Heads(h, w, a, F)
        PROVE  Stands(d, k, w, a, F)
    <2>1. y \o b = h \o k
      BY <1>5, <1>6
    <2>2. Len(h) <= Len(y)
      BY <1>1, <1>5, <1>6, <2>1, HeadShort
    <2>3. PICK j : GoesOn(y, h, j, b, k)
      BY <1>1, <1>5, <2>1, <2>2, Splits
    <2>4. j \in Texts /\ y = h \o j /\ k = j \o b
      BY <2>3 DEF GoesOn
    <2>5. Stands(e, j, w, a, F)
      BY <1>6, <2>4 DEF Amasses
    <2>6. k = Enclosed(j, n)
      BY <1>2, <2>4, EnclosedBehind
    <2>7. Stands(Popped(e, t), Enclosed(j, n), w, a, F)
      BY <1>1, <2>4, <2>5, StandsClosed
    <2> QED
      BY <1>4, <2>6, <2>7
  <1>7. ASSUME NEW z \in Texts, NEW x \in Wide, NEW m \in Texts, SwapLast(s, z, x, m)
        PROVE  ComesTo(d, Meaning(s))
    <2>1. /\ Enclosed(y, n) = Enclosed(z, m) /\ IsLine(m) /\ Amounts(z, x) /\ ~EndsWith(z, Operators)
          /\ Meaning(s) = (x + Swapped(Meaning(m))) % Word
      BY <1>3, <1>7 DEF SwapLast
    <2>2. Balanced(m)
      BY <2>1, MeantIs
    <2>3. y = z /\ n = m
      BY <1>1, <2>1, <2>2, OneGroup
    <2>4. t = Meaning(m)
      BY <2>1, <2>3
    <2>5. <<>> \in Texts /\ <<>> \o y = y /\ Heads(<<>>, 0, 0, {}) /\ 0 \in Wide
      <3>1. <<>> \in Texts /\ <<>> \o y = y
        BY <1>1, EmptySeq, ConcatEmptySeq DEF Texts
      <3> QED
        BY <3>1, WordSizes DEF Heads
    <2>6. Stands(e, y, 0, 0, {})
      BY <1>1, <2>5 DEF Amasses
    <2>7. e.word = 0 /\ e.f = {} /\ e.exp = x /\ e.op = "none"
      <3>1. CASE y = <<>>
        BY <2>1, <2>3, <2>6, <3>1 DEF Stands, HasHeads, Amounts
      <3>2. CASE y # <<>>
        <4>1. IsSum(y) /\ x = Sum(y)
          BY <2>1, <2>3, <3>2 DEF Amounts
        <4>2. IsValue(y) /\ Field(y) = x
          BY <1>1, <4>1, ValueIs DEF IsValue
        <4> QED
          BY <2>6, <4>2 DEF Stands, HasHeads
      <3> QED
        BY <3>1, <3>2
    <2>8. d = [e EXCEPT !.word = (e.word + Swapped(t)) % Host, !.gotexp = TRUE]
      BY <1>4, <2>7 DEF Popped
    <2>9. /\ d.op = "none" /\ d.f = {} /\ d.gotexp /\ d.exp = x
          /\ d.word = (0 + Swapped(t)) % Host
      BY <1>1, <2>7, <2>8 DEF Exprs
    <2>10. PICK u : u = Swapped(t)
      OBVIOUS
    <2>11. u \in Nat /\ u < Host
      BY <2>10, SwappedIs
    <2>12. d.word = u
      <3>1. Host \in Nat \ {0} /\ 0 + u = u
        BY <2>11, WordSizes
      <3> QED
        BY <2>9, <2>10, <2>11, <3>1, SmallRemainder
    <2>13. u + x = x + u
      BY <2>11, WordSizes
    <2>14. Meaning(s) = (x + u) % Word
      BY <2>1, <2>4, <2>10
    <2>15. d.word + d.exp = x + u
      BY <2>9, <2>12, <2>13
    <2> QED
      BY <2>9, <2>14, <2>15 DEF ComesTo
  <1>8. Amasses(s, d)
    BY <1>5, <1>6, <1>7 DEF Amasses
  <1> QED
    BY <1>3, <1>4, <1>8

(* A separator takes the sum, if there is something in the buffer.         *)
Separated(e, y, c, d) ==
  \/ /\ EndsWith(y, Ins)
     /\ d = [(IF c = " " THEN IF "FW" \in e.f THEN AsAddress(e) ELSE AsWord(e)
              ELSE IF "AC" \in e.f THEN AsAddress(e) ELSE AsAccumulator(e))
             EXCEPT !.exp = 0]
  \/ Wraps(y) /\ d = e

(* The sum v is now a field.                                               *)
AsField(d, c, w, v, F) ==
  /\ d.exp = 0 /\ d.op = "none"
  /\ c = " " /\ F = {} => HasHeads(d, v, 0, {"FW"})
  /\ c = "," => HasHeads(d, w, v, F \cup {"AC"})

(* The sum becomes a field.                                                *)
LEMMA FieldTaken ==
  ASSUME NEW e \in Exprs, NEW y \in Texts, NEW h \in Texts, NEW f \in Texts, y = h \o f, IsField(f),
         NEW w \in Wide, NEW F \in SUBSET {"FW", "AC"}, Heads(h, w, 0, F), "AC" \notin F,
         Stands(e, f, w, 0, F), NEW c, NEW d, Separated(e, y, c, d)
  PROVE  AsField(d, c, w, Field(f), F)
  <1>1. IsValue(f) /\ EndsWith(f, Ins) /\ Field(f) \in Wide
    BY FieldsAre
  <1>2. ~Wraps(f)
    BY <1>1, NotWrapped
  <1>3. EndsWith(y, Ins) /\ ~Wraps(y)
    BY <1>1, <1>2, BehindHead
  <1>4. HasHeads(e, w, 0, F) /\ e.exp = Field(f) /\ e.op = "none"
    BY <1>1 DEF Stands
  <1>5. (0 + Field(f)) % Host = Field(f)
    <2>1. PICK x : x = Field(f)
      OBVIOUS
    <2>2. x \in Nat /\ x < Host /\ 0 + x = x /\ Host \in Nat \ {0}
      BY <1>1, <2>1, WordSizes DEF Wide
    <2>3. x % Host = x
      BY <2>2, SmallRemainder
    <2> QED
      BY <2>1, <2>2, <2>3
  <1>6. d = [(IF c = " " THEN IF "FW" \in e.f THEN AsAddress(e) ELSE AsWord(e)
              ELSE IF "AC" \in e.f THEN AsAddress(e) ELSE AsAccumulator(e))
             EXCEPT !.exp = 0]
    BY <1>3 DEF Separated
  <1>7. e.word = w /\ e.ac = 0 /\ e.address = 0 /\ e.f = F
    BY <1>4 DEF HasHeads
  <1>8. CASE c = ","
    <2>1. PICK r : r = AsAccumulator(e)
      OBVIOUS
    <2>2. /\ r.word = w /\ r.ac = (0 + Field(f)) % Host /\ r.address = 0 /\ r.f = F \cup {"AC"} /\ r.op = "none"
          /\ r \in Exprs
      BY <1>4, <1>7, <2>1, FieldIs DEF AsAccumulator, Exprs
    <2>3. d = [r EXCEPT !.exp = 0]
      BY <1>6, <1>7, <1>8, <2>1
    <2>4. d.word = r.word /\ d.ac = r.ac /\ d.address = r.address /\ d.f = r.f /\ d.op = r.op /\ d.exp = 0
      BY <2>2, <2>3 DEF Exprs
    <2> QED
      BY <1>5, <1>8, <2>2, <2>4 DEF HasHeads, AsField
  <1>9. CASE c # ","
    <2>1. CASE c = " " /\ F = {}
      <3>1. PICK r : r = AsWord(e)
        OBVIOUS
      <3>2. h = <<>> /\ w = 0
        <4>1. h # <<>> => F \cap {"FW", "AC"} # {}
          BY HeadsAre
        <4>2. "FW" \notin F => w = 0
          BY HeadsAre
        <4> QED
          BY <2>1, <4>1, <4>2
      <3>3. /\ r.word = (0 + Field(f)) % Host /\ r.ac = 0 /\ r.address = 0 /\ r.f = {"FW"} /\ r.op = "none"
            /\ r \in Exprs
        BY <1>4, <1>7, <2>1, <3>1, <3>2, FieldIs DEF AsWord, Exprs
      <3>4. d = [r EXCEPT !.exp = 0]
        BY <1>6, <1>7, <2>1, <3>1
      <3>5. d.word = r.word /\ d.ac = r.ac /\ d.address = r.address /\ d.f = r.f /\ d.op = r.op /\ d.exp = 0
        BY <3>3, <3>4 DEF Exprs
      <3> QED
        BY <1>5, <1>9, <2>1, <3>3, <3>5 DEF HasHeads, AsField
    <2>2. CASE ~(c = " " /\ F = {})
      <3>1. \A r \in Exprs : LET g == [r EXCEPT !.exp = 0] IN g.exp = 0 /\ g.op = r.op
        BY DEF Exprs
      <3>2. /\ AsAddress(e) \in Exprs /\ AsWord(e) \in Exprs /\ AsAccumulator(e) \in Exprs
            /\ AsAddress(e).op = "none" /\ AsWord(e).op = "none" /\ AsAccumulator(e).op = "none"
        BY <1>4, FieldIs DEF AsAddress, AsWord, AsAccumulator, Exprs
      <3>3. d.exp = 0 /\ d.op = "none"
        BY <1>6, <3>1, <3>2
      <3> QED
        BY <1>9, <2>2, <3>3 DEF AsField
    <2> QED
      BY <2>1, <2>2
  <1> QED
    BY <1>8, <1>9

(* A separator is taken.                                                   *)
LEMMA AmassesSeparated ==
  ASSUME NEW y, NEW e, Amasses(y, e), NEW c \in Separators, NEW d \in Exprs, Separated(e, y, c, d)
  PROVE  Amasses(Append(y, c), d)
  <1>1. y \in Texts /\ e \in Exprs
    BY DEF Amasses
  <1>2. c \in Signs /\ c \notin Operators /\ c \notin Ins /\ c # ")"
    BY SignsAre DEF Parentheses
  <1>3. PICK b : b = <<c>>
    OBVIOUS
  <1>4. PICK t : t = Append(y, c)
    OBVIOUS
  <1>5. /\ b \in Texts /\ b # <<>> /\ Len(b) = 1 /\ t = y \o b /\ t \in Texts /\ t # <<>> /\ Len(t) = Len(y) + 1
        /\ \A cs : EndsWith(t, cs) <=> c \in cs
    BY <1>1, <1>2, <1>3, <1>4, EndsAppended
  <1>6. \A f \in Texts, g \in Signs : t = Append(f, g) => y = f /\ c = g
    <2>1. \A f \in Texts, g \in Signs : Append(y, c) = Append(f, g) => y = f /\ c = g
      BY <1>1, <1>2, EndsAppended
    <2> QED
      BY <1>4, <2>1
  <1>7. " " \in Signs /\ "," \in Signs
    BY DEF Signs
  <1>8. <<>> \in Texts /\ <<>> \o y = y /\ Heads(<<>>, 0, 0, {}) /\ 0 \in Wide
    <2>1. <<>> \in Texts /\ <<>> \o y = y
      BY <1>1, EmptySeq, ConcatEmptySeq DEF Texts
    <2> QED
      BY <2>1, WordSizes DEF Heads
  <1>9. PICK h0 \in Texts : h0 = <<>>
    BY <1>8
  <1>10. Stands(e, y, 0, 0, {})
    BY <1>1, <1>8 DEF Amasses
  <1>11. ASSUME IsField(y)
         PROVE  /\ c = " " => HasHeads(d, Field(y), 0, {"FW"})
                /\ c = "," => HasHeads(d, 0, Field(y), {"AC"})
                /\ d.exp = 0 /\ d.op = "none"
    <2>1. PICK w \in Wide : w = 0
      BY <1>8
    <2>2. PICK F \in SUBSET {"FW", "AC"} : F = {}
      OBVIOUS
    <2>3. y = h0 \o y /\ Heads(h0, w, 0, F) /\ Stands(e, y, w, 0, F) /\ "AC" \notin F
      BY <1>8, <1>9, <1>10, <2>1, <2>2
    <2>4. AsField(d, c, w, Field(y), F)
      BY <1>1, <1>11, <2>3, FieldTaken
    <2>5. F \cup {"AC"} = {"AC"}
      BY <2>2
    <2> QED
      BY <2>1, <2>2, <2>4, <2>5 DEF AsField
  <1>12. ASSUME NEW f \in Texts, NEW g \in Texts, IsField(f), IsField(g), y = Append(f, " ") \o g
         PROVE  /\ c = "," => HasHeads(d, Field(f), Field(g), {"FW", "AC"})
                /\ d.exp = 0 /\ d.op = "none"
    <2>1. PICK h : h = Append(f, " ")
      OBVIOUS
    <2>2. h \in Texts
      BY <1>7, <2>1, EndsAppended
    <2>3. PICK w \in Wide : w = Field(f)
      BY <1>12, FieldsAre
    <2>4. PICK F \in SUBSET {"FW", "AC"} : F = {"FW"}
      OBVIOUS
    <2>5. y = h \o g /\ Heads(h, w, 0, F)
      BY <1>12, <2>1, <2>3, <2>4 DEF Heads
    <2>6. Stands(e, g, w, 0, F)
      BY <1>8, <2>2, <2>5 DEF Amasses
    <2>7. AsField(d, c, w, Field(g), F)
      BY <1>1, <1>12, <2>2, <2>4, <2>5, <2>6, FieldTaken
    <2>8. F \cup {"AC"} = {"FW", "AC"}
      BY <2>4
    <2> QED
      BY <2>3, <2>7, <2>8 DEF AsField
  <1>13. ASSUME NEW w, NEW a, NEW F, Heads(t, w, a, F)
         PROVE  HasHeads(d, w, a, F) /\ d.exp = 0 /\ d.op = "none"
    <2>1. CASE \E f \in Texts : IsField(f) /\ t = Append(f, " ") /\ w = Field(f) /\ a = 0 /\ F = {"FW"}
      BY <1>6, <1>7, <1>11, <2>1
    <2>2. CASE \E f \in Texts : IsField(f) /\ t = Append(f, ",") /\ w = 0 /\ a = Field(f) /\ F = {"AC"}
      BY <1>6, <1>7, <1>11, <2>2
    <2>3. CASE \E f \in Texts, g \in Texts :
                 /\ IsField(f) /\ IsField(g) /\ t = Append(Append(f, " ") \o g, ",")
                 /\ w = Field(f) /\ a = Field(g) /\ F = {"FW", "AC"}
      <3>1. PICK f \in Texts, g \in Texts :
              /\ IsField(f) /\ IsField(g) /\ t = Append(Append(f, " ") \o g, ",")
              /\ w = Field(f) /\ a = Field(g) /\ F = {"FW", "AC"}
        BY <2>3
      <3>2. PICK h : h = Append(f, " ")
        OBVIOUS
      <3>3. h \in Texts
        BY <1>7, <3>2, EndsAppended
      <3>4. PICK u : u = h \o g
        OBVIOUS
      <3>5. u \in Texts
        BY <3>3, <3>4, EndsJoined
      <3>6. y = u /\ c = ","
        BY <1>6, <1>7, <3>1, <3>2, <3>4, <3>5
      <3> QED
        BY <1>12, <3>1, <3>2, <3>4, <3>6
    <2> QED
      BY <1>5, <1>13, <2>1, <2>2, <2>3 DEF Heads
  <1>14. ASSUME NEW h \in Texts, NEW k \in Texts, NEW w \in Wide, NEW a \in Wide, NEW F \in SUBSET {"FW", "AC"},
                t = h \o k, Heads(h, w, a, F)
         PROVE  Stands(d, k, w, a, F)
    <2>1. CASE k = <<>>
      <3>1. h = t
        BY <1>14, <2>1, ConcatEmptySeq DEF Texts
      <3>2. HasHeads(d, w, a, F) /\ d.exp = 0 /\ d.op = "none"
        BY <1>13, <1>14, <3>1
      <3> QED
        BY <2>1, <3>2, StandsNothing
    <2>2. CASE k # <<>>
      <3>1. EndsWith(k, {c})
        <4>1. EndsWith(t, {c})
          BY <1>5
        <4> QED
          BY <1>14, <2>2, <4>1, EndsJoined
      <3>2. ~IsValue(k)
        <4>1. IsValue(k) => EndsWith(k, Ins \cup {")"})
          BY ValueIs
        <4> QED
          BY <1>2, <3>1, <4>1 DEF EndsWith
      <3>3. ASSUME NEW i \in Texts, NEW op \in Operators, k = Append(i, op)
            PROVE  FALSE
        <4>1. EndsWith(k, {op})
          BY <3>3, SignsAre, EndsAppended
        <4> QED
          BY <1>2, <3>1, <4>1 DEF EndsWith
      <3> QED
        BY <2>2, <3>2, <3>3 DEF Stands
    <2> QED
      BY <2>1, <2>2
  <1>15. ASSUME NEW z \in Texts, NEW x, NEW n \in Texts, SwapLast(t, z, x, n)
         PROVE  FALSE
    BY <1>2, <1>5, <1>15, SwapEnds
  <1> QED
    BY <1>4, <1>5, <1>14, <1>15 DEF Amasses

(* A quotient and a remainder.                                             *)
LEMMA Division ==
  ASSUME NEW n \in Nat \ {0}, NEW x \in Nat
  PROVE  x \div n \in Nat /\ x % n \in 0..(n - 1) /\ x = n * (x \div n) + (x % n)
  OBVIOUS

(* A remainder of a remainder.                                             *)
LEMMA RemainderTwice ==
  ASSUME NEW m \in Nat \ {0}, NEW k \in Nat \ {0}, NEW n, n = m * k, NEW x \in Nat
  PROVE  (x % n) % m = x % m
  <1>1. n \in Nat \ {0}
    <2>1. m * k \in Nat /\ m * k # 0
      OBVIOUS
    <2> QED
      BY <2>1
  <1>2. PICK a : a = x \div n
    OBVIOUS
  <1>3. PICK r : r = x % n
    OBVIOUS
  <1>4. a \in Nat /\ r \in 0..(n - 1) /\ x = n * a + r
    BY <1>1, <1>2, <1>3, Division
  <1>5. PICK b : b = r \div m
    OBVIOUS
  <1>6. PICK s : s = r % m
    OBVIOUS
  <1>7. b \in Nat /\ s \in 0..(m - 1) /\ r = m * b + s
    <2>1. r \in Nat
      BY <1>1, <1>4
    <2> QED
      BY <1>5, <1>6, <2>1, Division
  <1>8. x = m * (k * a + b) + s /\ k * a + b \in Nat
    <2>1. n * a = m * (k * a)
      BY <1>4
    <2>2. m * (k * a) + m * b = m * (k * a + b)
      BY <1>4, <1>7
    <2>3. k * a \in Nat /\ m * (k * a) \in Nat /\ m * b \in Nat
      BY <1>4, <1>7
    <2> QED
      BY <1>4, <1>7, <2>1, <2>2, <2>3
  <1>9. PICK p \in Nat : p = k * a + b
    BY <1>8
  <1>10. x % m = s
    <2>1. x = m * p + s
      BY <1>8, <1>9
    <2> QED
      BY <1>7, <2>1
  <1> QED
    BY <1>3, <1>6, <1>10

-----------------------------------------------------------------------------
(* The end of a line.                                                      *)

(* The word an expression is assembled to.                                 *)
Endword(e) == WithAddress(IF e.f \cap {"FW", "AC"} # {} THEN AsAddress(e) ELSE AsWord(e))

(* What DDT has of a line is what it means.                                *)
LEMMA LineAmassed ==
  ASSUME NEW y, NEW e, Amasses(y, e), IsLine(y)
  PROVE  ComesTo(e, Meaning(y))
  <1>1. y \in Texts /\ e \in Exprs
    BY DEF Amasses
  <1>2. CASE IsSum(y) /\ Meaning(y) = Sum(y) % Word
    <2>1. <<>> \in Texts /\ <<>> \o y = y /\ Heads(<<>>, 0, 0, {}) /\ 0 \in Wide
      <3>1. <<>> \in Texts /\ <<>> \o y = y
        BY <1>1, EmptySeq, ConcatEmptySeq DEF Texts
      <3> QED
        BY <3>1, WordSizes DEF Heads
    <2>2. Stands(e, y, 0, 0, {})
      BY <1>1, <2>1 DEF Amasses
    <2>3. IsValue(y) /\ Field(y) = Sum(y) /\ Field(y) \in Wide
      BY <1>1, <1>2, ValueIs DEF IsValue
    <2>4. e.word = 0 /\ e.f = {} /\ e.exp = Sum(y) /\ e.op = "none" /\ e.gotexp
      BY <2>2, <2>3 DEF Stands, HasHeads
    <2>5. 0 + Sum(y) = Sum(y)
      <3>1. PICK x \in Wide : x = Sum(y)
        BY <2>3
      <3>2. 0 + x = x
        BY WordSizes
      <3> QED
        BY <3>1, <3>2
    <2> QED
      BY <1>2, <2>4, <2>5 DEF ComesTo
  <1>3. CASE \E z, x, n : SwapLast(y, z, x, n)
    <2>1. PICK z, x, n : SwapLast(y, z, x, n)
      BY <1>3
    <2>2. z \in Texts /\ x \in Wide /\ n \in Texts
      BY <2>1 DEF SwapLast, Amounts
    <2> QED
      BY <2>1, <2>2 DEF Amasses
  <1> QED
    BY <1>1, <1>2, <1>3, LineCases

(* A word is a part of what the host has, and a half of a word.            *)
LEMMA WordParts ==
  ASSUME NEW x \in Nat
  PROVE  (x % Host) % Word = x % Word /\ (x % Word) % Half = x % Half /\ (x % Word) % Word = x % Word
  <1>1. Half \in Nat \ {0} /\ Word \in Nat \ {0} /\ Host \in Nat \ {0} /\ Word = Half * Half /\ Word <= Host
    BY WordSizes DEF Word
  <1>2. PICK k : k = Host \div Word
    OBVIOUS
  <1>3. k \in Nat /\ Host = Word * k + (Host % Word)
    BY <1>1, <1>2, Division
  <1>4. Host % Word = 0
    BY WordsAssumption DEF Word
  <1>5. Host = Word * k /\ k \in Nat \ {0}
    <2>1. Host = Word * k
      BY <1>1, <1>3, <1>4
    <2>2. k # 0
      BY <1>1, <2>1
    <2> QED
      BY <1>3, <2>1, <2>2
  <1>6. (x % Host) % Word = x % Word
    <2>1. PICK m \in Nat \ {0} : m = Word
      BY <1>1
    <2>2. PICK n : n = Host
      OBVIOUS
    <2>3. n = m * k
      BY <1>5, <2>1, <2>2
    <2>4. (x % n) % m = x % m
      BY <1>5, <2>3, RemainderTwice
    <2> QED
      BY <2>1, <2>2, <2>4
  <1>7. (x % Word) % Half = x % Half
    <2>1. PICK m \in Nat \ {0} : m = Half
      BY <1>1
    <2>2. PICK n : n = Word
      OBVIOUS
    <2>3. n = m * m
      BY <1>1, <2>1, <2>2
    <2>4. (x % n) % m = x % m
      BY <2>3, RemainderTwice
    <2> QED
      BY <2>1, <2>2, <2>4
  <1>8. (x % Word) % Word = x % Word
    <2>1. PICK r : r = x % Word
      OBVIOUS
    <2>2. r \in Nat /\ r < Word
      BY <1>1, <2>1, Remainders
    <2> QED
      BY <1>1, <2>1, <2>2, SmallRemainder
  <1> QED
    BY <1>6, <1>7, <1>8

(* A line ends in its word.                                                *)
LEMMA WordEnded ==
  ASSUME NEW e \in Exprs, NEW w, ComesTo(e, w)
  PROVE  Endword(e) = w
  <1>1. e.f = {} /\ (e.word + e.exp) % Word = w
    BY DEF ComesTo
  <1>2. PICK d : d = AsWord(e)
    OBVIOUS
  <1>3. d.word = (e.word + e.exp) % Host /\ d.f = {"FW"}
    BY <1>1, <1>2 DEF AsWord, Exprs
  <1>4. Endword(e) = WithAddress(d)
    BY <1>1, <1>2 DEF Endword
  <1>5. WithAddress(d) = d.word % Word
    <2>1. "AC" \notin d.f /\ "I" \notin d.f /\ "A" \notin d.f
      BY <1>3
    <2>2. WithAc(d) = d.word
      BY <2>1 DEF WithAc
    <2>3. WithIndirect(d) = d.word + 0
      BY <2>1, <2>2 DEF WithIndirect
    <2>4. d.word + 0 = d.word
      <3>1. d \in Exprs
        BY <1>2, FieldIs
      <3>2. d.word \in Nat
        BY <3>1, WordSizes DEF Exprs
      <3> QED
        BY <3>2
    <2> QED
      BY <2>1, <2>3, <2>4 DEF WithAddress
  <1>6. PICK x \in Nat : x = e.word + e.exp
    <2>1. e.word \in Nat /\ e.exp \in Nat
      BY WordSizes DEF Exprs
    <2> QED
      BY <2>1
  <1>7. (x % Host) % Word = x % Word
    BY WordParts
  <1> QED
    BY <1>1, <1>3, <1>4, <1>5, <1>6, <1>7

(* Nothing is added to a sum.                                              *)
LEMMA NothingAdded ==
  ASSUME NEW e \in Exprs, e.op = "none", e.gotexp
  PROVE  combine(e, 0) = e
  <1>1. PICK d : d = combine(e, 0)
    OBVIOUS
  <1>2. /\ d.word = e.word /\ d.ac = e.ac /\ d.i = e.i /\ d.address = e.address /\ d.f = e.f
        /\ d.exp = Reckoned(e.op, e.exp, 0) /\ d.op = e.op
    BY <1>1 DEF combine, Exprs
  <1>3. d.gotexp = e.gotexp
    <2>1. d.gotexp
      BY <1>1 DEF combine, Exprs
    <2>2. d.gotexp \in BOOLEAN /\ e.gotexp \in BOOLEAN
      BY <1>1 DEF combine, Exprs
    <2> QED
      BY <2>1, <2>2
  <1>4. d.exp = e.exp
    <2>1. PICK x \in Wide : x = e.exp
      BY DEF Exprs
    <2>2. x \in Nat /\ x < Host /\ Host \in Nat \ {0} /\ x + 0 = x
      BY WordSizes DEF Wide
    <2>3. x % Host = x
      BY <2>2, SmallRemainder
    <2> QED
      BY <1>2, <2>1, <2>2, <2>3 DEF Reckoned
  <1>5. d \in Exprs
    <2>1. 0 \in Single /\ Divisible(e, 0)
      BY WordSizes DEF Divisible
    <2> QED
      BY <1>1, <2>1, CombineIs
  <1>6. /\ e = [word |-> e.word, ac |-> e.ac, i |-> e.i, address |-> e.address, f |-> e.f,
               exp |-> e.exp, op |-> e.op, gotexp |-> e.gotexp]
        /\ d = [word |-> d.word, ac |-> d.ac, i |-> d.i, address |-> d.address, f |-> d.f,
               exp |-> d.exp, op |-> d.op, gotexp |-> d.gotexp]
    BY <1>5 DEF Exprs
  <1> QED
    BY <1>1, <1>2, <1>3, <1>4, <1>6

-----------------------------------------------------------------------------
(* Instructions.                                                           *)

(* An instruction: the word w, the accumulator a, the address v.           *)
Coded(w, a, v) ==
  LET op == w % Word
      unit == IF Bit(op, Iot) = 1 THEN Bit(a, 2) * 4 * Half ELSE Bit(a, 1) * 2 * Half
      full == (op + unit) % Word
  IN
  LT(full) * Half + RT(full + v)

(* What it is made of.                                                     *)
CutInto(y, h, j, w, a, F) ==
  /\ h \in Texts /\ j \in Texts /\ w \in Wide /\ a \in Wide /\ F \in SUBSET {"FW", "AC"}
  /\ y = h \o j /\ Heads(h, w, a, F) /\ F # {} /\ IsField(j)
  /\ InstructionOf(y) = Coded(w, a, Field(j))

(* An instruction is made of these.                                        *)
LEMMA InstructionCut ==
  ASSUME NEW y \in Texts, IsInstruction(y)
  PROVE  \E h, j, w, a, F : CutInto(y, h, j, w, a, F)
  <1>1. PICK L \in Nat : L = Len(y)
    BY LenProperties DEF Texts
  <1>2. PICK s \in 0..L : s = LastOf(y, {" "}) /\ (s # 0 => y[s] = " ")
    <2>1. PICK p : p = LastOf(y, {" "})
      OBVIOUS
    <2>2. p = 0 \/ (p \in 1..Len(y) /\ y[p] \in {" "} /\ Depth(y, p) = 0)
      BY <2>1, LastIs
    <2>3. p \in 0..L
      <3>1. CASE p = 0
        BY <1>1, <3>1
      <3>2. CASE p \in 1..Len(y)
        BY <1>1, <3>2
      <3> QED
        BY <2>2, <3>1, <3>2
    <2> QED
      BY <2>1, <2>2, <2>3
  <1>3. PICK c \in 0..L : c = LastOf(y, {","}) /\ (c # 0 => y[c] = ",")
    <2>1. PICK p : p = LastOf(y, {","})
      OBVIOUS
    <2>2. p = 0 \/ (p \in 1..Len(y) /\ y[p] \in {","} /\ Depth(y, p) = 0)
      BY <2>1, LastIs
    <2>3. p \in 0..L
      <3>1. CASE p = 0
        BY <1>1, <3>1
      <3>2. CASE p \in 1..Len(y)
        BY <1>1, <3>2
      <3> QED
        BY <2>2, <3>1, <3>2
    <2> QED
      BY <2>1, <2>2, <2>3
  <1>4. \A i \in 1..L : i \in 1..Len(y)
    BY <1>1
  <1>5. /\ s > 0 \/ c > 0
        /\ s > 0 => IsField(Before(y, s)) /\ (c > 0 => s < c)
        /\ c > 0 => IsField(SubSeq(y, s + 1, c - 1))
        /\ IsField(SubSeq(y, IF c > 0 THEN c + 1 ELSE s + 1, Len(y)))
    BY <1>2, <1>3 DEF IsInstruction
  <1>6. 0 % Word = 0 /\ 0 \in Wide
    BY WordSizes, SmallRemainder
  <1>7. InstructionOf(y) =
          Coded(IF s > 0 THEN Field(Before(y, s)) ELSE 0, IF c > 0 THEN Field(SubSeq(y, s + 1, c - 1)) ELSE 0,
                Field(SubSeq(y, IF c > 0 THEN c + 1 ELSE s + 1, Len(y))))
    BY <1>2, <1>3, <1>6 DEF InstructionOf, Coded
  <1>8. CASE s > 0 /\ c = 0
    <2>1. s \in 1..Len(y) /\ y[s] = " "
      <3>1. s \in 1..L /\ s # 0
        BY <1>1, <1>8
      <3> QED
        BY <1>2, <1>4, <3>1
    <2>2. PICK f : f = Before(y, s)
      OBVIOUS
    <2>3. PICK j : j = Behind(y, s)
      OBVIOUS
    <2>4. f \in Texts /\ j \in Texts /\ y = Append(f, " ") \o j
      BY <2>1, <2>2, <2>3, CutIs DEF CutAt
    <2>5. PICK h : h = Append(f, " ")
      OBVIOUS
    <2>6. h \in Texts
      BY <2>4, <2>5, EndsAppended DEF Signs
    <2>7. IsField(f) /\ IsField(j)
      BY <1>5, <1>8, <2>2, <2>3 DEF Behind
    <2>8. Field(f) \in Wide
      BY <2>4, <2>7, FieldsAre
    <2>9. InstructionOf(y) = Coded(Field(f), 0, Field(j))
      BY <1>7, <1>8, <2>2, <2>3 DEF Behind
    <2>10. Heads(h, Field(f), 0, {"FW"})
      BY <2>4, <2>5, <2>7 DEF Heads
    <2>11. CutInto(y, h, j, Field(f), 0, {"FW"})
      BY <1>6, <2>4, <2>5, <2>6, <2>7, <2>8, <2>9, <2>10 DEF CutInto
    <2> QED
      BY <2>11
  <1>9. CASE s = 0 /\ c > 0
    <2>1. c \in 1..Len(y) /\ y[c] = ","
      <3>1. c \in 1..L /\ c # 0
        BY <1>1, <1>9
      <3> QED
        BY <1>3, <1>4, <3>1
    <2>2. PICK f : f = Before(y, c)
      OBVIOUS
    <2>3. PICK j : j = Behind(y, c)
      OBVIOUS
    <2>4. f \in Texts /\ j \in Texts /\ y = Append(f, ",") \o j
      BY <2>1, <2>2, <2>3, CutIs DEF CutAt
    <2>5. PICK h : h = Append(f, ",")
      OBVIOUS
    <2>6. h \in Texts
      BY <2>4, <2>5, EndsAppended DEF Signs
    <2>7. f = SubSeq(y, s + 1, c - 1)
      BY <1>9, <2>2 DEF Before
    <2>8. IsField(f) /\ IsField(j)
      BY <1>5, <1>9, <2>3, <2>7 DEF Behind
    <2>9. Field(f) \in Wide
      BY <2>4, <2>8, FieldsAre
    <2>10. InstructionOf(y) = Coded(0, Field(f), Field(j))
      BY <1>7, <1>9, <2>3, <2>7 DEF Behind
    <2>11. Heads(h, 0, Field(f), {"AC"})
      BY <2>4, <2>5, <2>8 DEF Heads
    <2>12. CutInto(y, h, j, 0, Field(f), {"AC"})
      BY <1>6, <2>4, <2>5, <2>6, <2>8, <2>9, <2>10, <2>11 DEF CutInto
    <2> QED
      BY <2>12
  <1>10. CASE s > 0 /\ c > 0
    <2>1. s \in 1..L /\ c \in 1..L /\ s # 0 /\ c # 0 /\ s < c
      BY <1>1, <1>5, <1>10
    <2>2. PICK d \in Nat : d = c - 1
      BY <2>1
    <2>3. PICK n \in Nat : n = d - s
      BY <2>1, <2>2
    <2>4. PICK b : b = Before(y, c)
      OBVIOUS
    <2>5. PICK j : j = Behind(y, c)
      OBVIOUS
    <2>6. s \in 1..Len(y) /\ y[s] = " " /\ c \in 1..Len(y) /\ y[c] = ","
      BY <1>2, <1>3, <1>4, <2>1
    <2>7. CutAt(y, c, b, j) /\ y = Append(b, y[c]) \o j
      BY <2>4, <2>5, <2>6, CutIs
    <2>8. b \in Texts /\ j \in Texts /\ y = Append(b, ",") \o j
      BY <2>6, <2>7 DEF CutAt
    <2>9. Len(b) = d /\ \A i \in 1..d : b[i] = y[i]
      BY <2>2, <2>7 DEF CutAt
    <2>10. s \in 1..d /\ s \in 1..Len(b) /\ b[s] = " "
      <3>1. s \in 1..d
        BY <2>1, <2>2
      <3> QED
        BY <2>6, <2>9, <3>1
    <2>11. PICK f : f = Before(b, s)
      OBVIOUS
    <2>12. PICK g : g = Behind(b, s)
      OBVIOUS
    <2>13. CutAt(b, s, f, g) /\ b = Append(f, b[s]) \o g
      BY <2>8, <2>10, <2>11, <2>12, CutIs
    <2>14. f \in Texts /\ g \in Texts /\ b = Append(f, " ") \o g
      BY <2>10, <2>13 DEF CutAt
    <2>15. Len(f) = s - 1 /\ \A i \in 1..(s - 1) : f[i] = b[i]
      BY <2>13 DEF CutAt
    <2>16. Len(g) = n /\ \A i \in 1..n : g[i] = b[s + i]
      BY <2>3, <2>9, <2>13 DEF CutAt
    <2>17. f = Before(y, s)
      <3>1. PICK z : z = Before(y, s)
        OBVIOUS
      <3>2. CutAt(y, s, z, Behind(y, s))
        BY <2>6, <3>1, CutIs
      <3>3. z \in Texts /\ Len(z) = s - 1 /\ \A i \in 1..(s - 1) : z[i] = y[i]
        BY <3>2 DEF CutAt
      <3>4. \A i \in 1..(s - 1) : i \in 1..d
        BY <2>1, <2>2
      <3>5. \A i \in 1..(s - 1) : f[i] = z[i]
        BY <2>9, <2>15, <3>3, <3>4
      <3>6. Len(f) = Len(z) /\ \A i \in 1..Len(f) : f[i] = z[i]
        BY <2>15, <3>3, <3>5
      <3> QED
        BY <2>14, <3>1, <3>3, <3>6, SeqEqual DEF Texts
    <2>18. g = SubSeq(y, s + 1, d)
      <3>1. PICK z : z = SubSeq(y, s + 1, d)
        OBVIOUS
      <3>2. PICK m \in Nat : m = s + 1
        BY <2>1
      <3>3. d \in Int /\ m \in Int /\ \A i \in m..d : i \in 1..L
        BY <1>1, <2>1, <2>2, <3>2
      <3>4. \A i \in m..d : y[i] \in Signs
        BY <1>4, <3>3, ElementOfSeq DEF Texts
      <3>5. /\ SubSeq(y, m, d) \in Seq(Signs)
            /\ Len(SubSeq(y, m, d)) = IF m <= d THEN d - m + 1 ELSE 0
            /\ \A i \in 1..(d - m + 1) : SubSeq(y, m, d)[i] = y[m + i - 1]
        BY <3>3, <3>4, SubSeqProperties
      <3>6. d - m + 1 = n /\ (IF m <= d THEN d - m + 1 ELSE 0) = n
        <4>1. s \in Nat
          BY <1>1
        <4> QED
          BY <2>3, <3>2, <4>1
      <3>7. z \in Seq(Signs) /\ Len(z) = n /\ \A i \in 1..n : z[i] = y[m + i - 1]
        BY <3>1, <3>2, <3>5, <3>6
      <3>8. \A i \in 1..n : s + i \in 1..d /\ m + i - 1 = s + i
        <4>1. s \in Nat
          BY <1>1
        <4> QED
          BY <2>3, <3>2, <4>1
      <3>9. \A i \in 1..n : g[i] = z[i]
        BY <2>9, <2>16, <3>7, <3>8
      <3> QED
        BY <2>14, <2>16, <3>1, <3>7, <3>9, SeqEqual DEF Texts
    <2>19. IsField(f) /\ IsField(g) /\ IsField(j)
      BY <1>5, <1>10, <2>2, <2>5, <2>17, <2>18 DEF Behind
    <2>20. Field(f) \in Wide /\ Field(g) \in Wide
      BY <2>14, <2>19, FieldsAre
    <2>21. InstructionOf(y) = Coded(Field(f), Field(g), Field(j))
      BY <1>7, <1>10, <2>2, <2>5, <2>17, <2>18 DEF Behind
    <2>22. PICK h : h = Append(Append(f, " ") \o g, ",")
      OBVIOUS
    <2>23. h \in Texts /\ y = h \o j
      BY <2>8, <2>14, <2>22, EndsAppended DEF Signs
    <2>24. Heads(h, Field(f), Field(g), {"FW", "AC"})
      BY <2>14, <2>19, <2>22 DEF Heads
    <2>25. CutInto(y, h, j, Field(f), Field(g), {"FW", "AC"})
      BY <2>8, <2>19, <2>20, <2>21, <2>23, <2>24 DEF CutInto
    <2> QED
      BY <2>25
  <1>11. s = 0 \/ s > 0
    OBVIOUS
  <1>12. c = 0 \/ c > 0
    OBVIOUS
  <1> QED
    BY <1>5, <1>8, <1>9, <1>10, <1>11, <1>12

-----------------------------------------------------------------------------
(* Multiples do not change a remainder.                                    *)
LEMMA SameRemainder ==
  ASSUME NEW m \in Nat \ {0}, NEW k \in Nat, NEW y \in Nat
  PROVE  (m * k + y) % m = y % m
  <1>1. PICK a : a = y \div m
    OBVIOUS
  <1>2. PICK r : r = y % m
    OBVIOUS
  <1>3. a \in Nat /\ r \in 0..(m - 1) /\ y = m * a + r
    BY <1>1, <1>2, Division
  <1>4. m * k + y = m * (k + a) + r
    BY <1>3
  <1>5. PICK p \in Nat : p = k + a
    BY <1>3
  <1>6. PICK x \in Nat : x = m * k + y
    <2>1. m * k \in Nat
      OBVIOUS
    <2> QED
      BY <2>1
  <1>7. x % m = r
    <2>1. x = m * p + r
      BY <1>4, <1>5, <1>6
    <2> QED
      BY <1>3, <2>1
  <1> QED
    BY <1>2, <1>6, <1>7

(* A quotient that is even or odd is so without multiples.                 *)
LEMMA SameParity ==
  ASSUME NEW m \in Nat \ {0}, NEW k \in Nat \ {0}, NEW n, n = m * (2 * k), NEW x \in Nat
  PROVE  ((x % n) \div m) % 2 = (x \div m) % 2
  <1>1. n \in Nat \ {0}
    <2>1. m * (2 * k) \in Nat /\ m * (2 * k) # 0
      OBVIOUS
    <2> QED
      BY <2>1
  <1>2. PICK a : a = x \div n
    OBVIOUS
  <1>3. PICK r : r = x % n
    OBVIOUS
  <1>4. a \in Nat /\ r \in Nat /\ x = n * a + r
    <2>1. a \in Nat /\ r \in 0..(n - 1) /\ x = n * a + r
      BY <1>1, <1>2, <1>3, Division
    <2> QED
      BY <1>1, <2>1
  <1>5. PICK b : b = r \div m
    OBVIOUS
  <1>6. PICK s : s = r % m
    OBVIOUS
  <1>7. b \in Nat /\ s \in 0..(m - 1) /\ r = m * b + s
    BY <1>4, <1>5, <1>6, Division
  <1>8. PICK g \in Nat : g = k * a
    BY <1>4
  <1>9. x = m * (2 * g + b) + s
    <2>1. n * a = m * (2 * g)
      BY <1>4, <1>8
    <2>2. m * (2 * g) + m * b = m * (2 * g + b)
      BY <1>7
    <2>3. m * (2 * g) \in Nat /\ m * b \in Nat
      BY <1>7
    <2> QED
      BY <1>4, <1>7, <2>1, <2>2, <2>3
  <1>10. PICK p \in Nat : p = 2 * g + b
    BY <1>7
  <1>11. x \div m = p
    <2>1. x = m * p + s
      BY <1>9, <1>10
    <2> QED
      BY <1>7, <2>1
  <1>12. p % 2 = b % 2
    <2>1. 2 \in Nat \ {0}
      OBVIOUS
    <2>2. (2 * g + b) % 2 = b % 2
      BY <1>7, <2>1, SameRemainder
    <2> QED
      BY <1>10, <2>2
  <1> QED
    BY <1>3, <1>5, <1>11, <1>12

(* The class of an instruction is in its word.                             *)
LEMMA ClassIs ==
  ASSUME NEW w \in Nat
  PROVE  Bit(w % Word, Iot) = Bit(w, Iot)
  <1>1. Half \in Nat \ {0} /\ Half % 16 = 0 /\ Half >= 16
    BY WordsAssumption
  <1>2. PICK k : k = Half \div 16
    OBVIOUS
  <1>3. k \in Nat /\ Half = 16 * k
    BY <1>1, <1>2
  <1>4. k \in Nat \ {0}
    BY <1>1, <1>3
  <1>5. PICK m \in Nat \ {0} : m = Iot
    BY <1>1 DEF Iot
  <1>6. PICK n : n = Word
    OBVIOUS
  <1>7. n = m * (2 * k)
    <2>1. PICK h \in Nat : h = Half
      BY <1>1
    <2>2. n = h * h /\ m = 8 * h /\ h = 16 * k
      BY <1>3, <1>5, <1>6, <2>1 DEF Word, Iot
    <2>3. (8 * h) * (2 * k) = h * (16 * k)
      BY <1>4
    <2> QED
      BY <2>2, <2>3
  <1>8. ((w % n) \div m) % 2 = (w \div m) % 2
    BY <1>4, <1>7, SameParity
  <1> QED
    BY <1>5, <1>6, <1>8 DEF Bit

(* The halves of a word of which the address is added.                     *)
LEMMA HalvesAre ==
  ASSUME NEW t \in Nat, NEW v \in Nat, NEW u, u = t % Word
  PROVE  /\ LT(u) = LT(t) /\ RT(u + v) = RT(t + v)
         /\ (LT(t) * Half + RT(t + v)) % Word = LT(t) * Half + RT(t + v)
  <1>1. Half \in Nat \ {0} /\ Word \in Nat \ {0} /\ Word = Half * Half
    BY WordSizes DEF Word
  <1>2. LT(u) = LT(t)
    BY WordParts DEF LT
  <1>3. u \in Nat /\ u < Word
    BY <1>1, Remainders
  <1>4. RT(u + v) = RT(t + v)
    <2>1. PICK k : k = t \div Word
      OBVIOUS
    <2>2. k \in Nat /\ t = Word * k + u
      BY <1>1, <2>1, Division
    <2>3. PICK h \in Nat \ {0} : h = Half
      BY <1>1
    <2>4. PICK y \in Nat : y = u + v
      BY <1>3
    <2>5. PICK g \in Nat : g = h * k
      BY <2>2
    <2>6. t = h * g + u
      <3>1. (h * h) * k = h * (h * k)
        BY <2>2
      <3> QED
        BY <1>1, <2>2, <2>3, <2>5, <3>1
    <2>7. t + v = h * g + y
      <3>1. h * g \in Nat
        OBVIOUS
      <3> QED
        BY <1>3, <2>4, <2>6, <3>1
    <2>8. (h * g + y) % h = y % h
      BY SameRemainder
    <2> QED
      BY <2>3, <2>4, <2>7, <2>8 DEF RT
  <1>5. PICK a : a = LT(t)
    OBVIOUS
  <1>6. a \in Nat /\ a < Half
    <2>1. u \div Half \in Nat /\ u \div Half < Half
      <3>1. PICK h \in Nat \ {0} : h = Half
        BY <1>1
      <3>2. u < h * h
        BY <1>1, <1>3, <3>1
      <3>3. PICK c : c = u \div h
        OBVIOUS
      <3>4. PICK r : r = u % h
        OBVIOUS
      <3>5. c \in Nat /\ r \in Nat /\ u = h * c + r
        <4>1. c \in Nat /\ r \in 0..(h - 1) /\ u = h * c + r
          BY <1>3, <3>3, <3>4, Division
        <4> QED
          BY <4>1
      <3>6. c < h
        <4>1. SUFFICES ASSUME c >= h
                       PROVE  FALSE
          BY <3>5
        <4>2. h * c >= h * h
          BY <3>5, <4>1
        <4>3. h * c \in Nat /\ h * h \in Nat
          BY <3>5
        <4> QED
          BY <1>3, <3>2, <3>5, <4>2, <4>3
      <3> QED
        BY <3>1, <3>3, <3>5, <3>6
    <2> QED
      BY <1>5, <2>1 DEF LT
  <1>7. PICK b : b = RT(t + v)
    OBVIOUS
  <1>8. b \in Nat /\ b < Half
    <2>1. t + v \in Nat
      OBVIOUS
    <2> QED
      BY <1>1, <1>7, <2>1, Remainders DEF RT
  <1>9. PICK s \in Nat : s = a * Half + b
    <2>1. a * Half \in Nat
      BY <1>1, <1>6
    <2> QED
      BY <1>8, <2>1
  <1>10. s < Word
    <2>1. PICK h \in Nat \ {0} : h = Half
      BY <1>1
    <2>2. (a + 1) * h <= h * h
      BY <1>6, <2>1
    <2>3. (a + 1) * h = a * h + h
      BY <1>6
    <2>4. a * h \in Nat /\ h * h \in Nat
      BY <1>6
    <2> QED
      BY <1>1, <1>8, <1>9, <2>1, <2>2, <2>3, <2>4
  <1>11. s % Word = s
    BY <1>1, <1>10, SmallRemainder
  <1> QED
    BY <1>2, <1>4, <1>5, <1>7, <1>9, <1>11
(* An instruction is assembled as it is coded.                             *)
LEMMA CodedIs ==
  ASSUME NEW d \in Exprs, "A" \in d.f, "I" \notin d.f, "AC" \notin d.f => d.ac = 0
  PROVE  WithAddress(d) = Coded(d.word, d.ac, d.address)
  <1>1. Half \in Nat \ {0} /\ Word \in Nat \ {0}
    BY WordSizes
  <1>2. PICK w \in Nat : w = d.word
    BY WordSizes DEF Exprs
  <1>3. PICK a \in Nat : a = d.ac
    BY WordSizes DEF Exprs
  <1>4. PICK v \in Nat : v = d.address
    BY WordSizes DEF Exprs
  <1>5. PICK unit : unit = IF Bit(w, Iot) = 1 THEN Bit(a, 2) * 4 * Half ELSE Bit(a, 1) * 2 * Half
    OBVIOUS
  <1>6. unit \in Nat
    <2>1. Bit(a, 2) \in Nat /\ Bit(a, 1) \in Nat
      BY BitIs
    <2>2. Bit(a, 2) * 4 * Half \in Nat /\ Bit(a, 1) * 2 * Half \in Nat
      BY <1>1, <2>1
    <2> QED
      BY <1>5, <2>2
  <1>7. PICK t \in Nat : t = w + unit
    BY <1>6
  <1>8. WithAc(d) = t
    <2>1. CASE "AC" \in d.f
      BY <1>2, <1>3, <1>5, <1>7, <2>1 DEF WithAc
    <2>2. CASE "AC" \notin d.f
      <3>1. a = 0
        BY <1>3, <2>2
      <3>2. Bit(a, 2) = 0 /\ Bit(a, 1) = 0
        BY <3>1 DEF Bit
      <3>3. Bit(a, 2) * 4 * Half = 0 /\ Bit(a, 1) * 2 * Half = 0
        BY <1>1, <3>2
      <3>4. t = w
        BY <1>5, <1>7, <3>3
      <3> QED
        BY <1>2, <2>2, <3>4 DEF WithAc
    <2> QED
      BY <2>1, <2>2
  <1>9. WithIndirect(d) = t
    <2>1. t + 0 = t
      OBVIOUS
    <2> QED
      BY <1>8, <2>1 DEF WithIndirect
  <1>10. WithAddress(d) = (LT(t) * Half + RT(t + v)) % Word
    BY <1>4, <1>9 DEF WithAddress
  <1>11. PICK full : full = t % Word
    OBVIOUS
  <1>12. ((w % Word) + unit) % Word = full
    <2>1. PICK k : k = w \div Word
      OBVIOUS
    <2>2. PICK r : r = w % Word
      OBVIOUS
    <2>3. k \in Nat /\ r \in 0..(Word - 1) /\ w = Word * k + r
      BY <1>1, <2>1, <2>2, Division
    <2>4. PICK m \in Nat \ {0} : m = Word
      BY <1>1
    <2>5. r \in Nat
      BY <2>3, <2>4
    <2>6. PICK y \in Nat : y = r + unit
      BY <1>6, <2>5
    <2>7. t = m * k + y
      <3>1. m * k \in Nat
        BY <2>3
      <3> QED
        BY <1>6, <1>7, <2>3, <2>4, <2>5, <2>6, <3>1
    <2>8. (m * k + y) % m = y % m
      BY <2>3, SameRemainder
    <2> QED
      BY <1>11, <2>2, <2>4, <2>6, <2>7, <2>8
  <1>13. Bit(w % Word, Iot) = Bit(w, Iot)
    BY ClassIs
  <1>14. Coded(w, a, v) = LT(full) * Half + RT(full + v)
    BY <1>5, <1>12, <1>13 DEF Coded
  <1> QED
    BY <1>2, <1>3, <1>4, <1>10, <1>11, <1>14, HalvesAre

(* A line that is an instruction ends in it.                               *)
LEMMA InstructionEnded ==
  ASSUME NEW y, NEW e, Amasses(y, e), IsInstruction(y)
  PROVE  e.op = "none" /\ e.gotexp /\ Endword(e) = InstructionOf(y)
  <1>1. y \in Texts /\ e \in Exprs
    BY DEF Amasses
  <1>2. PICK h, j, w, a, F : CutInto(y, h, j, w, a, F)
    BY <1>1, InstructionCut
  <1>3. /\ h \in Texts /\ j \in Texts /\ w \in Wide /\ a \in Wide /\ F \in SUBSET {"FW", "AC"}
        /\ y = h \o j /\ Heads(h, w, a, F) /\ F # {} /\ IsField(j)
        /\ InstructionOf(y) = Coded(w, a, Field(j))
    BY <1>2 DEF CutInto
  <1>4. Stands(e, j, w, a, F)
    BY <1>3 DEF Amasses
  <1>5. IsValue(j) /\ Field(j) \in Wide
    BY <1>3, FieldsAre
  <1>6. HasHeads(e, w, a, F) /\ e.exp = Field(j) /\ e.op = "none" /\ e.gotexp
    BY <1>4, <1>5 DEF Stands
  <1>7. "AC" \notin F => a = 0
    BY <1>3, HeadsAre
  <1>8. PICK d : d = AsAddress(e)
    OBVIOUS
  <1>9. d.word = w /\ d.ac = a /\ d.f = F \cup {"A"} /\ d.address = (0 + e.exp) % Host
    BY <1>1, <1>6, <1>8 DEF AsAddress, HasHeads, Exprs
  <1>10. d.address = Field(j)
    <2>1. PICK x \in Wide : x = e.exp
      BY <1>5, <1>6
    <2>2. x \in Nat /\ x < Host /\ Host \in Nat \ {0} /\ 0 + x = x
      BY WordSizes DEF Wide
    <2>3. x % Host = x
      BY <2>2, SmallRemainder
    <2> QED
      BY <1>6, <1>9, <2>1, <2>2, <2>3
  <1>11. Endword(e) = WithAddress(d)
    <2>1. e.f \cap {"FW", "AC"} # {}
      BY <1>3, <1>6 DEF HasHeads
    <2> QED
      BY <1>8, <2>1 DEF Endword
  <1>12. d \in Exprs
    BY <1>1, <1>8, FieldIs
  <1>13. "A" \in d.f /\ "I" \notin d.f /\ ("AC" \notin d.f => d.ac = 0)
    BY <1>3, <1>7, <1>9
  <1>14. WithAddress(d) = Coded(d.word, d.ac, d.address)
    BY <1>12, <1>13, CodedIs
  <1> QED
    BY <1>3, <1>6, <1>9, <1>10, <1>11, <1>14

-----------------------------------------------------------------------------
(* The groups that are open, and what is kept of them on the stack.        *)

(* The last group opens behind y, of which the stack has e.                *)
OpensBehind(a, b, x, y, k, e) ==
  /\ x \in Texts /\ y \in Texts /\ k \in Seq(Exprs) /\ e \in Exprs
  /\ a = Append(x \o y, "(") /\ b = Append(k, e) /\ Balanced(y) /\ Amasses(y, e)
  /\ Depth(a, Len(a)) >= 1

(* Pairs of a text and a stack, with each all that it opens in.            *)
Nested(S) ==
  \A a \in Texts, b \in Seq(Exprs) : <<a, b>> \in S /\ a # <<>> =>
    \E x, y, k, e : OpensBehind(a, b, x, y, k, e) /\ <<x, k>> \in S

(* The top of the stack is what x opens; below it may be what an error     *)
(* left behind.                                                            *)
Stacked(x, stk) ==
  /\ x \in Texts /\ stk \in Seq(Exprs)
  /\ \E S : <<x, stk>> \in S /\ Nested(S)

(* A line that closes more groups than it opens.                           *)
Lost(k) == \E i \in 1..Len(k) : Depth(k, i) < 0

(* No group is open.                                                       *)
LEMMA StackedNothing ==
  ASSUME NEW stk \in Seq(Exprs)
  PROVE  Stacked(<<>>, stk)
  <1>1. <<>> \in Texts
    BY StaysBalanced
  <1>2. Nested({<<<<>>, stk>>})
    BY DEF Nested
  <1> QED
    BY <1>1, <1>2 DEF Stacked

(* One is opened.                                                          *)
LEMMA StackedOpened ==
  ASSUME NEW x, NEW stk, Stacked(x, stk), NEW y, NEW e, Balanced(y), Amasses(y, e), NEW a, a = Append(x \o y, "(")
  PROVE  Stacked(a, Append(stk, e))
  <1>1. x \in Texts /\ y \in Texts /\ e \in Exprs /\ stk \in Seq(Exprs)
    BY DEF Stacked, Amasses
  <1>2. PICK b : b = Append(stk, e)
    OBVIOUS
  <1>3. b \in Seq(Exprs)
    BY <1>1, <1>2, AppendProperties
  <1>4. PICK S : <<x, stk>> \in S /\ Nested(S)
    BY DEF Stacked
  <1>5. PICK n \in Nat : n = Len(x)
    BY <1>1, LenProperties DEF Texts
  <1>6. PICK m \in Nat : m = Len(y)
    BY <1>1, LenProperties DEF Texts
  <1>7. PICK z : z = x \o y
    OBVIOUS
  <1>8. z \in Texts /\ Len(z) = n + m /\ Depth(z, n + m) = Depth(x, n) + Depth(y, m)
    <2>1. Adjoined(x, y, n, m, z)
      BY <1>1, <1>5, <1>6, <1>7, JoinedIs
    <2>2. m \in 0..m
      OBVIOUS
    <2> QED
      BY <2>1, <2>2 DEF Adjoined
  <1>9. Depth(y, m) = 0
    BY <1>1, <1>6, BalancedIs
  <1>10. Depth(x, n) >= 0
    <2>1. CASE x = <<>>
      <3>1. n = 0
        BY <1>5, <2>1, EmptySeq
      <3> QED
        BY <1>1, <3>1, DepthSteps
    <2>2. CASE x # <<>>
      <3>1. PICK x1, y1, k1, e1 : OpensBehind(x, stk, x1, y1, k1, e1)
        BY <1>1, <1>4, <2>2 DEF Nested
      <3>2. Depth(x, n) >= 1 /\ Depth(x, n) \in Int
        BY <1>5, <3>1, DepthSteps DEF OpensBehind
      <3> QED
        BY <3>2
    <2> QED
      BY <2>1, <2>2
  <1>11. a \in Texts /\ Depth(a, Len(a)) >= 1
    <2>1. PICK p \in Nat : p = n + m
      OBVIOUS
    <2>2. "(" \in Signs
      BY DEF Signs
    <2>3. Grown(z, "(", p, a)
      BY <1>7, <1>8, <2>1, <2>2, Grows
    <2>4. a \in Texts /\ Len(a) = p + 1 /\ Depth(a, p + 1) = Depth(z, p) + 1
      BY <2>3 DEF Grown, Rise
    <2>5. Depth(x, n) + 0 + 1 >= 1
      <3>1. Depth(x, n) \in Int
        BY <1>1, DepthSteps
      <3> QED
        BY <1>10, <3>1
    <2> QED
      BY <1>8, <1>9, <2>1, <2>4, <2>5
  <1>12. OpensBehind(a, b, x, y, stk, e)
    BY <1>1, <1>2, <1>11 DEF OpensBehind
  <1>13. PICK T : T = S \cup {<<a, b>>}
    OBVIOUS
  <1>14. Nested(T)
    <2> SUFFICES ASSUME NEW c \in Texts, NEW d \in Seq(Exprs), <<c, d>> \in T, c # <<>>
                 PROVE  \E x1, y1, k1, e1 : OpensBehind(c, d, x1, y1, k1, e1) /\ <<x1, k1>> \in T
      BY DEF Nested
    <2>1. CASE <<c, d>> \in S
      <3>1. PICK x1, y1, k1, e1 : OpensBehind(c, d, x1, y1, k1, e1) /\ <<x1, k1>> \in S
        BY <1>4, <2>1 DEF Nested
      <3> QED
        BY <1>13, <3>1
    <2>2. CASE c = a /\ d = b
      BY <1>4, <1>12, <1>13, <2>2
    <2> QED
      BY <1>13, <2>1, <2>2
  <1>15. <<a, b>> \in T
    BY <1>13
  <1> QED
    BY <1>2, <1>3, <1>11, <1>14, <1>15 DEF Stacked

(* The last one is known.                                                  *)
LEMMA StackedClosed ==
  ASSUME NEW x, NEW stk, Stacked(x, stk), x # <<>>
  PROVE  /\ Depth(x, Len(x)) >= 1
         /\ \E z, y, k, e : OpensBehind(x, stk, z, y, k, e) /\ Stacked(z, k)
  <1>1. x \in Texts /\ stk \in Seq(Exprs)
    BY DEF Stacked
  <1>2. PICK S : <<x, stk>> \in S /\ Nested(S)
    BY DEF Stacked
  <1>3. PICK z, y, k, e : OpensBehind(x, stk, z, y, k, e) /\ <<z, k>> \in S
    BY <1>1, <1>2 DEF Nested
  <1>4. Stacked(z, k)
    BY <1>2, <1>3 DEF Stacked, OpensBehind
  <1> QED
    BY <1>3, <1>4 DEF OpensBehind

(* What is lost stays so.                                                  *)
LEMMA LostStays ==
  ASSUME NEW k \in Texts, Lost(k)
  PROVE  ~Balanced(k) /\ \A g \in Texts : Lost(k \o g)
  <1>1. PICK n \in Nat : n = Len(k)
    BY LenProperties DEF Texts
  <1>2. PICK i \in 1..n : Depth(k, i) < 0
    BY <1>1 DEF Lost
  <1>3. ~Balanced(k)
    <2>1. i \in 0..Len(k)
      BY <1>1, <1>2
    <2>2. Depth(k, i) \in Int
      BY <1>2, DepthSteps
    <2>3. ~(Depth(k, i) >= 0)
      BY <1>2, <2>2
    <2> QED
      BY <2>1, <2>3, BalancedIs
  <1>4. ASSUME NEW g \in Texts
        PROVE  Lost(k \o g)
    <2>1. PICK m \in Nat : m = Len(g)
      BY LenProperties DEF Texts
    <2>2. PICK t : t = k \o g
      OBVIOUS
    <2>3. Adjoined(k, g, n, m, t)
      BY <1>1, <2>1, <2>2, JoinedIs
    <2>4. i \in 0..n /\ i \in 1..(n + m)
      BY <1>2
    <2>5. Len(t) = n + m /\ Depth(t, i) = Depth(k, i)
      BY <2>3, <2>4 DEF Adjoined
    <2> QED
      BY <1>2, <2>2, <2>4, <2>5 DEF Lost
  <1> QED
    BY <1>3, <1>4

(* A group that was not opened is closed.                                  *)
LEMMA LostNow ==
  ASSUME NEW s \in Texts, Balanced(s)
  PROVE  Lost(Append(s, ")"))
  <1>1. PICK n \in Nat : n = Len(s)
    BY LenProperties DEF Texts
  <1>2. PICK t : t = Append(s, ")")
    OBVIOUS
  <1>3. ")" \in Signs
    BY DEF Signs
  <1>4. Grown(s, ")", n, t)
    BY <1>1, <1>2, <1>3, Grows
  <1>5. Len(t) = n + 1 /\ Depth(t, n + 1) = Depth(s, n) + (0 - 1)
    BY <1>4 DEF Grown, Rise
  <1>6. Depth(s, n) = 0
    BY <1>1, BalancedIs
  <1>7. n + 1 \in 1..(n + 1) /\ 0 + (0 - 1) < 0
    OBVIOUS
  <1> QED
    BY <1>2, <1>5, <1>6, <1>7 DEF Lost

-----------------------------------------------------------------------------
(* What DDT has of the characters that are not in the buffer.              *)

(* k opens the groups x, and goes on with s, of which DDT has e.           *)
Made(k, x, s, e, stk) ==
  s \in Texts /\ k = x \o s /\ Stacked(x, stk) /\ Balanced(s) /\ Amasses(s, e)

Held(k, e, stk) ==
  /\ k \in Texts /\ stk \in Seq(Exprs)
  /\ Lost(k) \/ \E x, s : Made(k, x, s, e, stk) /\ Wraps(s)

(* Characters of the buffer are a text without parentheses.                *)
LEMMA BufferIs ==
  ASSUME NEW b \in Seq(Ins)
  PROVE  b \in Texts /\ Level(b)
  <1>1. Len(b) \in Nat /\ b = [i \in 1..Len(b) |-> b[i]] /\ \A i \in 1..Len(b) : b[i] \in Ins
    BY LenProperties, ElementOfSeq
  <1>2. b \in Seq(Signs)
    BY <1>1, SignsAre
  <1>3. Level(b)
    BY <1>1, SignsAre DEF Level
  <1> QED
    BY <1>2, <1>3 DEF Texts

(* Nothing ends in anything.                                               *)
LEMMA NothingWraps == Wraps(<<>>)
  BY DEF Wraps, EndsWith

(* A line begins.                                                          *)
LEMMA HeldNothing ==
  ASSUME NEW stk \in Seq(Exprs)
  PROVE  Held(<<>>, Empty, stk)
  <1>1. PICK s : s = <<>>
    OBVIOUS
  <1>2. s \in Texts /\ Balanced(s) /\ s \o s = s
    BY <1>1, StaysBalanced, ConcatEmptySeq DEF Texts
  <1>3. Made(s, s, s, Empty, stk)
    BY <1>1, <1>2, StackedNothing, AmassesNothing DEF Made
  <1> QED
    BY <1>1, <1>2, <1>3, NothingWraps DEF Held

(* Three texts joined.                                                     *)
LEMMA ThreeJoined ==
  ASSUME NEW x \in Texts, NEW s \in Texts, NEW b \in Texts
  PROVE  (x \o s) \o b = x \o (s \o b) /\ s \o b \in Texts /\ x \o s \in Texts
  BY ConcatAssociative, EndsJoined DEF Texts

(* A text to which a character is appended.                                *)
LEMMA OneMore ==
  ASSUME NEW x \in Texts, NEW s \in Texts, NEW c \in Signs
  PROVE  Append(x \o s, c) = x \o Append(s, c) /\ Append(s, c) \in Texts
  <1>1. PICK b : b = <<c>>
    OBVIOUS
  <1>2. b \in Texts /\ Append(s, c) = s \o b /\ Append(s, c) \in Texts
    BY <1>1, EndsAppended
  <1>3. PICK k \in Texts : k = x \o s
    BY EndsJoined
  <1>4. Append(k, c) = k \o b
    BY <1>1, EndsAppended
  <1>5. (x \o s) \o b = x \o (s \o b)
    BY <1>2, ThreeJoined
  <1> QED
    BY <1>2, <1>3, <1>4, <1>5

(* An operator or a separator is taken.                                    *)
LEMMA MadeAppended ==
  ASSUME NEW k, NEW x, NEW s, NEW e, NEW stk, Made(k, x, s, e, stk),
         NEW c \in Operators \cup Separators, NEW d, Amasses(Append(s, c), d)
  PROVE  Held(Append(k, c), d, stk)
  <1>1. s \in Texts /\ k = x \o s /\ Stacked(x, stk) /\ Balanced(s) /\ x \in Texts /\ stk \in Seq(Exprs)
    BY DEF Made, Stacked
  <1>2. c \in Signs \ Parentheses /\ c \in Signs /\ c \notin Ins
    BY SignsAre
  <1>3. PICK t : t = Append(s, c)
    OBVIOUS
  <1>4. t \in Texts /\ Append(k, c) = x \o t
    BY <1>1, <1>2, <1>3, OneMore
  <1>5. Balanced(t)
    BY <1>1, <1>2, <1>3, StaysBalanced
  <1>6. Wraps(t)
    <2>1. ~EndsWith(t, Ins)
      BY <1>1, <1>2, <1>3, EndsAppended
    <2> QED
      BY <2>1 DEF Wraps
  <1>7. Made(Append(k, c), x, t, d, stk)
    BY <1>1, <1>3, <1>4, <1>5 DEF Made
  <1>8. Append(k, c) \in Texts
    BY <1>1, <1>4, EndsJoined
  <1> QED
    BY <1>1, <1>6, <1>7, <1>8 DEF Held

(* A group is opened.                                                      *)
LEMMA MadeOpened ==
  ASSUME NEW k, NEW x, NEW s, NEW e, NEW stk, Made(k, x, s, e, stk)
  PROVE  Held(Append(k, "("), Empty, Append(stk, e))
  <1>1. s \in Texts /\ k = x \o s /\ Stacked(x, stk) /\ Balanced(s) /\ Amasses(s, e)
    BY DEF Made
  <1>2. PICK a : a = Append(k, "(")
    OBVIOUS
  <1>3. Stacked(a, Append(stk, e))
    BY <1>1, <1>2, StackedOpened
  <1>4. PICK t : t = <<>>
    OBVIOUS
  <1>5. a \in Texts /\ Append(stk, e) \in Seq(Exprs)
    BY <1>3 DEF Stacked
  <1>6. t \in Texts /\ Balanced(t) /\ a = a \o t
    BY <1>4, <1>5, StaysBalanced, ConcatEmptySeq DEF Texts
  <1>7. Made(a, a, t, Empty, Append(stk, e))
    BY <1>3, <1>4, <1>6, AmassesNothing DEF Made
  <1> QED
    BY <1>2, <1>4, <1>5, <1>7, NothingWraps DEF Held

(* The beginning of a sequence.                                            *)
BeginsWith(s, f, n) == Len(f) = n /\ \A i \in 1..n : f[i] = s[i]

(* It is part of it.                                                       *)
LEMMA BeginningIs ==
  ASSUME NEW S, NEW s \in Seq(S), NEW n \in Nat, n <= Len(s), NEW f, f = SubSeq(s, 1, n)
  PROVE  f \in Seq(S) /\ BeginsWith(s, f, n)
  <1>1. \A i \in 1..n : s[i] \in S
    BY LenProperties, ElementOfSeq
  <1>2. 1 \in Int /\ n \in Int
    OBVIOUS
  <1>3. /\ SubSeq(s, 1, n) \in Seq(S)
        /\ Len(SubSeq(s, 1, n)) = IF 1 <= n THEN n - 1 + 1 ELSE 0
        /\ \A i \in 1..(n - 1 + 1) : SubSeq(s, 1, n)[i] = s[1 + i - 1]
    BY <1>1, <1>2, SubSeqProperties
  <1>4. n - 1 + 1 = n /\ (IF 1 <= n THEN n ELSE 0) = n /\ \A i \in 1..n : 1 + i - 1 = i
    OBVIOUS
  <1> QED
    BY <1>3, <1>4 DEF BeginsWith

(* The last and the rest of what is appended to.                           *)
LEMMA LastAppended ==
  ASSUME NEW S, NEW k \in Seq(S), NEW e \in S
  PROVE  Last(Append(k, e)) = e /\ Front(Append(k, e)) = k
  <1>1. PICK s : s = Append(k, e)
    OBVIOUS
  <1>2. PICK n \in Nat : n = Len(k)
    BY LenProperties
  <1>3. s \in Seq(S) /\ Len(s) = n + 1 /\ (\A i \in 1..n : s[i] = k[i]) /\ s[n + 1] = e
    BY <1>1, <1>2, AppendProperties
  <1>4. Last(s) = e
    BY <1>3 DEF Last
  <1>5. Front(s) = k
    <2>1. (n + 1) - 1 = n
      OBVIOUS
    <2>2. Front(s) = SubSeq(s, 1, n)
      BY <1>3, <2>1 DEF Front
    <2>3. PICK f : f = SubSeq(s, 1, n)
      OBVIOUS
    <2>4. f \in Seq(S) /\ Len(f) = n /\ \A i \in 1..n : f[i] = s[i]
      <3>1. n <= Len(s)
        BY <1>3
      <3>2. f \in Seq(S) /\ BeginsWith(s, f, n)
        BY <1>3, <2>3, <3>1, BeginningIs
      <3> QED
        BY <3>2 DEF BeginsWith
    <2> QED
      BY <1>2, <1>3, <2>2, <2>3, <2>4, SeqEqual
  <1> QED
    BY <1>1, <1>4, <1>5

(* A group is closed, or one too many.                                     *)
LEMMA MadeClosed ==
  ASSUME NEW k, NEW x, NEW s, NEW e, NEW stk, Made(k, x, s, e, stk), stk # <<>>,
         NEW t \in Single, IsLine(s) => t = Meaning(s), NEW d \in Exprs, d = Popped(Last(stk), t)
  PROVE  Held(Append(k, ")"), d, Front(stk))
  <1>1. s \in Texts /\ k = x \o s /\ Stacked(x, stk) /\ Balanced(s) /\ x \in Texts /\ stk \in Seq(Exprs)
    BY DEF Made, Stacked
  <1>2. k \in Texts /\ ")" \in Signs
    BY <1>1, EndsJoined DEF Signs
  <1>3. PICK a : a = Append(k, ")")
    OBVIOUS
  <1>4. a \in Texts /\ Front(stk) \in Seq(Exprs)
    BY <1>1, <1>2, <1>3, EndsAppended, LastOnes
  <1>5. CASE x = <<>>
    <2>1. k = s
      BY <1>1, <1>5, EndsJoined
    <2>2. Lost(a)
      BY <1>1, <1>3, <2>1, LostNow
    <2> QED
      BY <1>3, <1>4, <2>2 DEF Held
  <1>6. CASE x # <<>>
    <2>1. PICK z, y, k1, e1 : OpensBehind(x, stk, z, y, k1, e1) /\ Stacked(z, k1)
      BY <1>1, <1>6, StackedClosed
    <2>2. /\ z \in Texts /\ y \in Texts /\ k1 \in Seq(Exprs) /\ e1 \in Exprs
          /\ x = Append(z \o y, "(") /\ stk = Append(k1, e1) /\ Balanced(y) /\ Amasses(y, e1)
      BY <2>1 DEF OpensBehind
    <2>3. Last(stk) = e1 /\ Front(stk) = k1
      BY <2>2, LastAppended
    <2>4. PICK n : n = Enclosed(y, s)
      OBVIOUS
    <2>5. Amasses(n, d)
      BY <1>1, <2>2, <2>3, <2>4, AmassesClosed
    <2>6. Balanced(n)
      BY <1>1, <2>2, <2>4, BalancedEnclosed
    <2>7. n \in Texts
      BY <2>5 DEF Amasses
    <2>8. PICK g : g = Append(y, "(")
      OBVIOUS
    <2>9. g \in Texts /\ x = z \o g
      <3>1. "(" \in Signs
        BY DEF Signs
      <3> QED
        BY <2>2, <2>8, <3>1, OneMore
    <2>10. k = z \o (g \o s) /\ g \o s \in Texts
      <3>1. z \in Texts
        BY <2>2
      <3>2. (z \o g) \o s = z \o (g \o s) /\ g \o s \in Texts
        BY <1>1, <2>9, <3>1, ThreeJoined
      <3> QED
        BY <1>1, <2>9, <3>2
    <2>11. PICK j \in Texts : j = g \o s
      BY <2>10
    <2>12. a = z \o Append(j, ")")
      BY <1>2, <1>3, <2>2, <2>10, <2>11, OneMore
    <2>13. a = z \o n
      BY <2>4, <2>8, <2>11, <2>12 DEF Enclosed
    <2>14. ~EndsWith(n, Ins)
      <3>1. n = Append(j, ")")
        BY <2>4, <2>8, <2>11 DEF Enclosed
      <3>2. ")" \notin Ins
        BY SignsAre DEF Parentheses
      <3> QED
        BY <1>2, <3>1, <3>2, EndsAppended
    <2>15. Made(a, z, n, d, k1) /\ Wraps(n)
      BY <2>1, <2>5, <2>6, <2>7, <2>13, <2>14 DEF Made, Wraps
    <2> QED
      BY <1>3, <1>4, <2>3, <2>15 DEF Held
  <1> QED
    BY <1>5, <1>6

(* The buffer wraps.                                                       *)
LEMMA HeldWrapped ==
  ASSUME NEW k, NEW e \in Exprs, NEW stk, Held(k, e, stk), NEW b \in Seq(Ins), NEW c \in Ins,
         Len(b) + 1 = BufLen
  PROVE  Held(Append(k \o b, c), e, stk)
  <1>1. k \in Texts /\ stk \in Seq(Exprs) /\ b \in Texts /\ Level(b)
    BY BufferIs DEF Held
  <1>2. c \in Signs /\ c \notin Parentheses /\ c \in Signs \ Parentheses
    BY SignsAre
  <1>3. PICK g : g = Append(b, c)
    OBVIOUS
  <1>4. g \in Texts /\ Append(k \o b, c) = k \o g
    BY <1>1, <1>2, <1>3, OneMore
  <1>5. PICK m \in Nat : m = Len(b)
    BY LenProperties
  <1>6. g \in Seq(Ins) /\ Len(g) = m + 1 /\ m + 1 = BufLen /\ g # <<>>
    BY <1>1, <1>2, <1>3, <1>5, AppendProperties, EndsAppended
  <1>7. Level(g)
    BY <1>6, BufferIs
  <1>8. k \o g \in Texts
    BY <1>1, <1>4, EndsJoined
  <1>9. CASE Lost(k)
    <2>1. Lost(k \o g)
      BY <1>1, <1>4, <1>9, LostStays
    <2> QED
      BY <1>1, <1>4, <1>8, <2>1 DEF Held
  <1>10. CASE \E x, s : Made(k, x, s, e, stk) /\ Wraps(s)
    <2>1. PICK x, s : Made(k, x, s, e, stk)
      BY <1>10
    <2>2. s \in Texts /\ k = x \o s /\ Stacked(x, stk) /\ Balanced(s) /\ x \in Texts
      BY <2>1 DEF Made, Stacked
    <2>3. PICK t : t = s \o g
      OBVIOUS
    <2>4. k \o g = x \o t /\ t \in Texts
      BY <1>4, <2>2, <2>3, ThreeJoined
    <2>5. Balanced(t)
      BY <1>4, <1>7, <2>2, <2>3, StaysBalanced
    <2>6. EndsWith(g, Ins)
      BY <1>6, AllEnd
    <2>7. EndsWith(t, Ins)
      BY <1>4, <1>6, <2>2, <2>3, <2>6, EndsJoined
    <2>8. PICK n \in Nat : n = Len(s)
      BY <2>2, LenProperties DEF Texts
    <2>9. PICK p \in Nat : p = m + 1
      OBVIOUS
    <2>10. Len(t) = n + p /\ \A i \in 1..p : t[n + i] = g[i]
      <3>1. Adjoined(s, g, n, p, t)
        BY <1>4, <1>6, <2>2, <2>3, <2>8, <2>9, JoinedIs
      <3> QED
        BY <3>1 DEF Adjoined
    <2>11. BufLen = p /\ \A i \in 1..p : g[i] \in Ins
      BY <1>6, <2>9, ElementOfSeq
    <2>12. Wraps(t)
      <3>1. n + p >= p /\ (n + p) - p + 1 = n + 1
        OBVIOUS
      <3>2. ASSUME NEW i \in (n + 1)..(n + p)
            PROVE  t[i] \in Ins
        <4>1. PICK r \in 1..p : i = n + r
          <5>1. i - n \in 1..p /\ i = n + (i - n)
            OBVIOUS
          <5> QED
            BY <5>1
        <4> QED
          BY <2>10, <2>11, <4>1
      <3> QED
        BY <2>10, <2>11, <3>1, <3>2 DEF Wraps
    <2>13. Amasses(t, e)
      BY <2>4, <2>7, <2>12, AmassesWrapped
    <2>14. Made(k \o g, x, t, e, stk)
      BY <2>2, <2>4, <2>5, <2>13 DEF Made
    <2> QED
      BY <1>1, <1>4, <1>8, <2>12, <2>14 DEF Held
  <1> QED
    BY <1>9, <1>10 DEF Held

(* A line with a meaning opens no group that it does not close.            *)
LEMMA MeantIsMade ==
  ASSUME NEW k, NEW e, NEW stk, Held(k, e, stk), NEW b \in Seq(Ins), IsLine(k \o b) \/ IsInstruction(k \o b)
  PROVE  Amasses(k, e) /\ Wraps(k)
  <1>1. k \in Texts /\ b \in Texts /\ Level(b)
    BY BufferIs DEF Held
  <1>2. PICK n : n = k \o b
    OBVIOUS
  <1>3. n \in Texts
    BY <1>1, <1>2, EndsJoined
  <1>4. Balanced(n)
    <2>1. CASE IsLine(n)
      BY <1>3, <2>1, MeantIs
    <2>2. CASE IsInstruction(n)
      <3>1. PICK h, j, w, a, F : CutInto(n, h, j, w, a, F)
        BY <1>3, <2>2, InstructionCut
      <3>2. h \in Texts /\ j \in Texts /\ Heads(h, w, a, F) /\ IsField(j) /\ n = h \o j
        BY <3>1 DEF CutInto
      <3>3. Level(h) /\ Level(j)
        BY <3>2, HeadsAre, FieldsAre
      <3>4. <<>> \in Texts /\ Balanced(<<>>) /\ <<>> \o h = h
        BY <3>2, StaysBalanced, ConcatEmptySeq DEF Texts
      <3>5. Balanced(h)
        BY <3>2, <3>3, <3>4, StaysBalanced
      <3> QED
        BY <3>2, <3>3, <3>5, StaysBalanced
    <2> QED
      BY <1>2, <2>1, <2>2
  <1>5. ~Lost(k)
    <2>1. Lost(k) => Lost(n)
      BY <1>1, <1>2, LostStays
    <2>2. Lost(n) => ~Balanced(n)
      BY <1>3, LostStays
    <2> QED
      BY <1>4, <2>1, <2>2
  <1>6. \E x, s : Made(k, x, s, e, stk) /\ Wraps(s)
    BY <1>5 DEF Held
  <1>7. PICK x, s : Made(k, x, s, e, stk) /\ Wraps(s)
    BY <1>6
  <1>8. s \in Texts /\ k = x \o s /\ Stacked(x, stk) /\ Balanced(s) /\ x \in Texts /\ Amasses(s, e)
    BY <1>7 DEF Made, Stacked
  <1>9. x = <<>>
    <2>1. SUFFICES ASSUME x # <<>>
                   PROVE  FALSE
      OBVIOUS
    <2>2. Depth(x, Len(x)) >= 1
      BY <1>8, <2>1, StackedClosed
    <2>3. PICK g : g = s \o b
      OBVIOUS
    <2>4. n = x \o g /\ g \in Texts /\ Balanced(g)
      <3>1. (x \o s) \o b = x \o (s \o b) /\ s \o b \in Texts
        BY <1>1, <1>8, ThreeJoined
      <3>2. Balanced(s \o b)
        BY <1>1, <1>8, StaysBalanced
      <3> QED
        BY <1>2, <1>8, <2>3, <3>1, <3>2
    <2>5. PICK p \in Nat : p = Len(x)
      BY <1>8, LenProperties DEF Texts
    <2>6. PICK r \in Nat : r = Len(g)
      BY <2>4, LenProperties DEF Texts
    <2>7. Adjoined(x, g, p, r, n)
      BY <1>8, <2>4, <2>5, <2>6, JoinedIs
    <2>8. r \in 0..r
      OBVIOUS
    <2>9. Len(n) = p + r /\ Depth(n, p + r) = Depth(x, p) + Depth(g, r)
      BY <2>7, <2>8 DEF Adjoined
    <2>10. Depth(g, r) = 0 /\ Depth(n, p + r) = 0
      BY <1>3, <1>4, <2>4, <2>6, <2>9, BalancedIs
    <2>11. Depth(x, p) \in Int /\ Depth(x, p) >= 1
      BY <2>2, <2>5, DepthSteps
    <2> QED
      BY <2>9, <2>10, <2>11
  <1>10. k = s
    BY <1>8, <1>9, EndsJoined
  <1> QED
    BY <1>7, <1>8, <1>10

-----------------------------------------------------------------------------
(* The invariant: of the word so far, what is not in the buffer is held in *)
(* as and astack.                                                          *)

Ready(k) == buf \in Seq(Ins) /\ line = k \o buf /\ Held(k, as, astack)
LineInv == linemode = "none" /\ plain => \E k : Ready(k)

(* What the buffer is parsed to.                                           *)
LEMMA BufferParsed ==
  ASSUME DdtInv, Legible, buf # <<>>
  PROVE  parse \in Single /\ IsParsed(buf, parse) /\ Divisible(as, parse)
  <1>1. parse \in Single /\ Divisible(as, parse)
    BY ParseIs DEF Legible
  <1>2. IsNumber(buf) => parse = Number(buf)
    BY DEF parse, parsenum
  <1>3. buf \in DOMAIN symtab => parse = symtab[buf]
    <2>1. SUFFICES ASSUME buf \in DOMAIN symtab
                   PROVE  parse = symtab[buf]
      OBVIOUS
    <2>2. buf # <<".">>
      <3>1. buf \in {<<"A">>, <<"B">>}
        BY <2>1 DEF symtab
      <3>2. buf[1] \in {"A", "B"}
        BY <3>1
      <3> QED
        BY <3>2
    <2>3. ~IsNumber(buf)
      BY <2>1, SymbolsAre
    <2> QED
      BY <2>2, <2>3 DEF parse, parsesym
  <1> QED
    BY <1>1, <1>2, <1>3 DEF IsParsed

(* The buffer is combined.                                                 *)
LEMMA CombinedMade ==
  ASSUME DdtInv, Legible, buf \in Seq(Ins), NEW k, NEW x, NEW s, Made(k, x, s, as, astack), Wraps(s)
  PROVE  /\ Made(k \o buf, x, s \o buf, Combined, astack)
         /\ buf # <<>> => EndsWith(s \o buf, Ins)
         /\ buf = <<>> => s \o buf = s /\ Combined = as
  <1>1. s \in Texts /\ k = x \o s /\ Stacked(x, astack) /\ Balanced(s) /\ x \in Texts /\ Amasses(s, as)
    BY DEF Made, Stacked
  <1>2. buf \in Texts /\ Level(buf)
    BY BufferIs
  <1>3. k \o buf = x \o (s \o buf) /\ s \o buf \in Texts
    BY <1>1, <1>2, ThreeJoined
  <1>4. Balanced(s \o buf)
    BY <1>1, <1>2, StaysBalanced
  <1>5. buf = <<>> => s \o buf = s /\ Combined = as
    BY <1>1, <1>2, EndsJoined DEF Combined
  <1>6. Amasses(s \o buf, Combined) /\ (buf # <<>> => EndsWith(s \o buf, Ins))
    <2>1. CASE buf = <<>>
      BY <1>1, <1>5, <2>1
    <2>2. CASE buf # <<>>
      <3>1. PICK t : t = parse
        OBVIOUS
      <3>2. t \in Single /\ IsParsed(buf, t) /\ Divisible(as, t)
        BY <2>2, <3>1, BufferParsed
      <3>3. Amasses(s \o buf, combine(as, t)) /\ EndsWith(s \o buf, Ins)
        BY <1>1, <1>2, <2>2, <3>2, AmassesAdded
      <3> QED
        BY <2>2, <3>1, <3>3 DEF Combined
    <2> QED
      BY <2>1, <2>2
  <1> QED
    BY <1>1, <1>3, <1>4, <1>5, <1>6 DEF Made

(* A line that has a meaning ends in it.                                   *)
LEMMA EndwordIs ==
  ASSUME DdtInv, Readable, buf \in Seq(Ins), NEW s, Amasses(s, as), Wraps(s), NEW n, n = s \o buf
  PROVE  /\ IsLine(n) => Assembled /\ endword = Meaning(n)
         /\ IsInstruction(n) => Assembled /\ endword = InstructionOf(n)
  <1>1. s \in Texts /\ as \in Exprs /\ buf \in Texts /\ Legible
    BY BufferIs DEF Amasses, Readable
  <1>2. PICK e : e = combine(as, IF buf = <<>> THEN 0 ELSE parse)
    OBVIOUS
  <1>3. endword = Endword(e)
    BY <1>2 DEF endword, Endword
  <1>4. CASE buf # <<>>
    <2>1. PICK t : t = parse
      OBVIOUS
    <2>2. t \in Single /\ IsParsed(buf, t) /\ Divisible(as, t)
      BY <1>1, <1>4, <2>1, BufferParsed
    <2>3. Amasses(n, combine(as, t))
      BY <1>1, <1>4, <2>2, AmassesAdded
    <2>4. Amasses(n, e)
      BY <1>2, <1>4, <2>1, <2>3
    <2>5. e \in Exprs
      BY <2>4 DEF Amasses
    <2>6. Assembled
      BY <1>4 DEF Assembled
    <2>7. IsLine(n) => Endword(e) = Meaning(n)
      BY <2>4, <2>5, LineAmassed, WordEnded
    <2>8. IsInstruction(n) => Endword(e) = InstructionOf(n)
      BY <2>4, InstructionEnded
    <2> QED
      BY <1>3, <2>6, <2>7, <2>8
  <1>5. CASE buf = <<>>
    <2>1. n = s
      BY <1>1, <1>5, EndsJoined
    <2>2. Amasses(n, as)
      BY <2>1
    <2>3. e = combine(as, 0)
      BY <1>2, <1>5
    <2>4. as.op = "none" /\ as.gotexp => e = as /\ Assembled
      <3>1. as.op = "none" /\ as.gotexp => combine(as, 0) = as
        BY <1>1, NothingAdded
      <3> QED
        BY <2>3, <3>1 DEF Assembled
    <2>5. IsLine(n) => Assembled /\ Endword(e) = Meaning(n)
      <3>1. IsLine(n) => ComesTo(as, Meaning(n))
        BY <2>2, LineAmassed
      <3>2. IsLine(n) => Endword(as) = Meaning(n)
        BY <1>1, <3>1, WordEnded
      <3> QED
        BY <2>4, <3>1, <3>2 DEF ComesTo
    <2>6. IsInstruction(n) => Assembled /\ Endword(e) = InstructionOf(n)
      BY <2>2, <2>4, InstructionEnded
    <2> QED
      BY <1>3, <2>5, <2>6
  <1> QED
    BY <1>4, <1>5

-----------------------------------------------------------------------------

(* A character more, when too much was closed.                             *)
LEMMA LostMore ==
  ASSUME NEW k, k \in Texts, Lost(k), NEW b \in Texts, NEW c \in Signs, NEW e, NEW stk \in Seq(Exprs)
  PROVE  Held(Append(k \o b, c), e, stk)
  <1>1. PICK n : n = k \o b
    OBVIOUS
  <1>2. n \in Texts /\ Lost(n)
    BY <1>1, EndsJoined, LostStays
  <1>3. PICK d : d = <<c>>
    OBVIOUS
  <1>4. Append(n, c) = n \o d /\ d \in Texts /\ Append(n, c) \in Texts
    BY <1>2, <1>3, EndsAppended
  <1>5. Lost(Append(n, c))
    BY <1>2, <1>4, LostStays
  <1> QED
    BY <1>1, <1>4, <1>5 DEF Held

(* The buffer is empty behind what is held.                                *)
LEMMA HeldReady ==
  ASSUME buf' = <<>>, NEW k, line' = k, Held(k, as', astack')
  PROVE  LineInv'
  <1>1. k \in Texts
    BY DEF Held
  <1>2. k \o <<>> = k
    BY <1>1, ConcatEmptySeq DEF Texts
  <1>3. <<>> \in Seq(Ins)
    BY EmptySeq
  <1>4. Ready(k)'
    BY <1>2, <1>3 DEF Ready
  <1> QED
    BY <1>4 DEF LineInv

(* The word is taken, or all is dropped.                                   *)
LEMMA DroppedReady ==
  ASSUME LineInv, DdtInv'
  PROVE  /\ err => LineInv'
         /\ TakeWord /\ astack' = astack /\ linemode' = linemode => LineInv'
         /\ UNCHANGED <<buf, as, astack, line, plain, linemode>> => LineInv'
  <1>1. ASSUME buf' = <<>>, as' = Empty, line' = <<>>
        PROVE  LineInv'
    <2>1. astack' \in Seq(Exprs)
      BY DEF DdtInv
    <2>2. Held(<<>>, as', astack')
      BY <1>1, <2>1, HeldNothing
    <2> QED
      BY <1>1, <2>2, HeldReady
  <1>2. UNCHANGED <<buf, as, astack, line, plain, linemode>> => LineInv'
    BY DEF LineInv, Ready
  <1> QED
    BY <1>1, <1>2 DEF err, TakeWord

(* A character goes to the buffer, and that may wrap.                      *)
LEMMA InsertReady ==
  ASSUME DdtInv, NEW k, Ready(k), NEW c, Insert(c)
  PROVE  LineInv'
  <1>1. buf \in Seq(Ins) /\ line = k \o buf /\ Held(k, as, astack) /\ as \in Exprs
    BY DEF Ready, DdtInv
  <1>2. /\ c \in Ins /\ buf' = ins(c) /\ line' = Append(line, c)
        /\ as' = as /\ astack' = astack
    BY DEF Insert, Ins
  <1>3. k \in Texts /\ buf \in Texts /\ c \in Signs
    BY <1>1, <1>2, BufferIs, SignsAre DEF Held
  <1>4. CASE Len(buf) + 1 = BufLen
    <2>1. buf' = <<>>
      BY <1>2, <1>4 DEF ins
    <2>2. Held(Append(k \o buf, c), as, astack)
      BY <1>1, <1>2, <1>4, HeldWrapped
    <2> QED
      BY <1>1, <1>2, <2>1, <2>2, HeldReady
  <1>5. CASE Len(buf) + 1 # BufLen
    <2>1. buf' = Append(buf, c)
      BY <1>2, <1>5 DEF ins
    <2>2. Append(k \o buf, c) = k \o Append(buf, c)
      BY <1>3, OneMore
    <2>3. Append(buf, c) \in Seq(Ins)
      BY <1>1, <1>2, AppendProperties
    <2>4. Ready(k)'
      BY <1>1, <1>2, <2>1, <2>2, <2>3 DEF Ready
    <2> QED
      BY <2>4 DEF LineInv
  <1> QED
    BY <1>4, <1>5

(* The whole line goes on with s behind the groups x.                      *)
GoesWith(x, s) ==
  /\ Made(line, x, s, Combined, astack)
  /\ buf # <<>> => EndsWith(s, Ins)
  /\ buf = <<>> => Wraps(s) /\ Combined = as

(* Two cases: too much was closed, or the expression is known.             *)
LEMMA ReadyCases ==
  ASSUME DdtInv, Legible, NEW k, Ready(k)
  PROVE  /\ k \in Texts /\ buf \in Seq(Ins) /\ buf \in Texts /\ line = k \o buf
         /\ \/ Lost(k)
            \/ \E x, s : GoesWith(x, s)
  <1>1. buf \in Seq(Ins) /\ line = k \o buf /\ Held(k, as, astack)
    BY DEF Ready
  <1>2. k \in Texts /\ buf \in Texts
    BY <1>1, BufferIs DEF Held
  <1>3. ASSUME ~Lost(k)
        PROVE  \E x, s : GoesWith(x, s)
    <2>1. PICK x, s : Made(k, x, s, as, astack) /\ Wraps(s)
      BY <1>1, <1>3 DEF Held
    <2>2. /\ Made(k \o buf, x, s \o buf, Combined, astack)
          /\ buf # <<>> => EndsWith(s \o buf, Ins)
          /\ buf = <<>> => s \o buf = s /\ Combined = as
      BY <1>1, <2>1, CombinedMade
    <2>3. GoesWith(x, s \o buf)
      BY <1>1, <2>1, <2>2 DEF GoesWith
    <2> QED
      BY <2>3
  <1> QED
    BY <1>1, <1>2, <1>3

(* An operator or a separator.                                             *)
LEMMA TakenReady ==
  ASSUME DdtInv, DdtInv', NEW k, Ready(k), NEW c, Operator(c) \/ Separator(c)
  PROVE  LineInv'
  <1>1. /\ c \in Operators \cup Separators /\ Legible
        /\ buf' = <<>> /\ line' = Append(line, c) /\ astack' = astack
    BY DEF Operator, Separator, Operators, Separators
  <1>2. as' \in Exprs /\ astack' \in Seq(Exprs) /\ c \in Signs
    BY <1>1, SignsAre DEF DdtInv
  <1>3. k \in Texts /\ buf \in Texts /\ line = k \o buf
    BY <1>1, ReadyCases
  <1>4. CASE Lost(k)
    <2>1. Held(Append(k \o buf, c), as', astack')
      BY <1>2, <1>3, <1>4, LostMore
    <2> QED
      BY <1>1, <1>3, <2>1, HeldReady
  <1>5. CASE ~Lost(k)
    <2>1. PICK x, s : GoesWith(x, s)
      BY <1>1, <1>5, ReadyCases
    <2>2. Amasses(s, Combined) /\ Made(line, x, s, Combined, astack)
      BY <2>1 DEF GoesWith, Made
    <2>3. Amasses(Append(s, c), as')
      <3>1. CASE Operator(c)
        <4>1. c \in Operators
          BY <3>1 DEF Operator, Operators
        <4>2. CASE buf # <<>>
          <5>1. as' = [Combined EXCEPT !.op = c]
            BY <3>1, <4>2 DEF Operator
          <5>2. Operated(Combined, s, c, as')
            BY <2>1, <4>2, <5>1 DEF GoesWith, Operated
          <5> QED
            BY <1>2, <2>2, <4>1, <5>2, AmassesOperated
        <4>3. CASE buf = <<>>
          <5>1. as' = IF c = "-" THEN [Combined EXCEPT !.op = c] ELSE Combined
            BY <2>1, <3>1, <4>3 DEF GoesWith, Operator
          <5>2. Operated(Combined, s, c, as')
            BY <2>1, <4>3, <5>1 DEF GoesWith, Operated
          <5> QED
            BY <1>2, <2>2, <4>1, <5>2, AmassesOperated
        <4> QED
          BY <4>2, <4>3
      <3>2. CASE Separator(c)
        <4>1. c \in Separators
          BY <3>2 DEF Separator, Separators
        <4>2. Separated(Combined, s, c, as')
          <5>1. CASE buf # <<>>
            <6>1. as' = [(IF c = " " THEN IF "FW" \in Combined.f THEN AsAddress(Combined) ELSE AsWord(Combined)
                          ELSE IF "AC" \in Combined.f THEN AsAddress(Combined) ELSE AsAccumulator(Combined))
                         EXCEPT !.exp = 0]
              BY <3>2, <5>1 DEF Separator
            <6> QED
              BY <2>1, <5>1, <6>1 DEF GoesWith, Separated
          <5>2. CASE buf = <<>>
            <6>1. as' = as
              BY <3>2, <5>2 DEF Separator
            <6> QED
              BY <2>1, <5>2, <6>1 DEF GoesWith, Separated
          <5> QED
            BY <5>1, <5>2
        <4> QED
          BY <1>2, <2>2, <4>1, <4>2, AmassesSeparated
      <3> QED
        BY <3>1, <3>2
    <2>4. Held(Append(line, c), as', astack')
      BY <1>1, <2>2, <2>3, MadeAppended
    <2> QED
      BY <1>1, <2>4, HeldReady
  <1> QED
    BY <1>4, <1>5

(* A group is opened.                                                      *)
LEMMA PushedReady ==
  ASSUME LineInv, DdtInv, DdtInv', NEW k, Ready(k), NEW c, pushexp(c)
  PROVE  LineInv'
  <1>1. c = "(" /\ Legible /\ astack' = Append(astack, Combined)
    BY DEF pushexp
  <1>2. astack' \in Seq(Exprs) /\ c \in Signs
    BY <1>1 DEF DdtInv, Signs
  <1>3. k \in Texts /\ buf \in Texts /\ line = k \o buf
    BY <1>1, ReadyCases
  <1>4. CASE err
    BY <1>4, DroppedReady
  <1>5. CASE ~err
    <2>1. buf' = <<>> /\ as' = Empty /\ line' = Append(line, c)
      BY <1>5 DEF pushexp
    <2>2. CASE Lost(k)
      <3>1. Held(Append(k \o buf, c), as', astack')
        BY <1>2, <1>3, <2>2, LostMore
      <3> QED
        BY <1>3, <2>1, <3>1, HeldReady
    <2>3. CASE ~Lost(k)
      <3>1. PICK x, s : GoesWith(x, s)
        BY <1>1, <2>3, ReadyCases
      <3>2. Made(line, x, s, Combined, astack)
        BY <3>1 DEF GoesWith
      <3>3. Held(Append(line, "("), Empty, Append(astack, Combined))
        BY <3>2, MadeOpened
      <3> QED
        BY <1>1, <2>1, <3>3, HeldReady
    <2> QED
      BY <2>2, <2>3
  <1> QED
    BY <1>4, <1>5

(* A group is closed.                                                      *)
LEMMA PoppedReady ==
  ASSUME DdtInv, DdtInv', NEW k, Ready(k), NEW c, popexp(c)
  PROVE  LineInv'
  <1>1. PICK t : t = Or(0)
    OBVIOUS
  <1>2. /\ c = ")" /\ Readable /\ astack # <<>>
        /\ as' = Popped(Last(astack), t) /\ astack' = Front(astack)
        /\ buf' = <<>> /\ line' = Append(line, c)
    BY <1>1 DEF popexp, Popped
  <1>3. as' \in Exprs /\ astack' \in Seq(Exprs) /\ c \in Signs /\ Legible
    BY <1>2 DEF DdtInv, Signs, Readable
  <1>4. k \in Texts /\ buf \in Seq(Ins) /\ buf \in Texts /\ line = k \o buf
    BY <1>3, ReadyCases
  <1>5. t \in Single
    BY <1>1, <1>2, OrIs, WordSizes
  <1>6. CASE Lost(k)
    <2>1. Held(Append(k \o buf, c), as', astack')
      BY <1>3, <1>4, <1>6, LostMore
    <2> QED
      BY <1>2, <1>4, <2>1, HeldReady
  <1>7. CASE ~Lost(k)
    <2>1. PICK x, s : Made(k, x, s, as, astack) /\ Wraps(s)
      BY <1>7 DEF Ready, Held
    <2>2. PICK n : n = s \o buf
      OBVIOUS
    <2>3. Made(line, x, n, Combined, astack)
      BY <1>3, <1>4, <2>1, <2>2, CombinedMade
    <2>4. IsLine(n) => t = Meaning(n)
      <3>1. Amasses(s, as)
        BY <2>1 DEF Made
      <3>2. IsLine(n) => Assembled /\ endword = Meaning(n)
        BY <1>2, <1>4, <2>1, <2>2, <3>1, EndwordIs
      <3> QED
        BY <1>1, <3>2 DEF Or
    <2>5. Held(Append(line, ")"), as', Front(astack))
      BY <1>2, <1>3, <1>5, <2>3, <2>4, MadeClosed
    <2> QED
      BY <1>2, <2>5, HeldReady
  <1> QED
    BY <1>6, <1>7

(* What is in the buffer is erased: a character of it, or all.             *)
LEMMA BufferErased ==
  ASSUME NEW k \in Texts, NEW b \in Seq(Ins), NEW n, n = k \o b
  PROVE  /\ b # <<>> => Front(b) \in Seq(Ins) /\ Front(n) = k \o Front(b)
         /\ SubSeq(n, 1, Len(n) - Len(b)) = k
  <1>1. b \in Texts
    BY BufferIs
  <1>2. ASSUME b # <<>>
        PROVE  Front(b) \in Seq(Ins) /\ Front(n) = k \o Front(b)
    <2>1. PICK p \in Nat \ {0} : p = Len(b)
      BY <1>2, EmptySeq
    <2>2. p \in 1..Len(b)
      BY <2>1
    <2>3. PICK f : f = Before(b, p)
      OBVIOUS
    <2>4. PICK m : m = Behind(b, p)
      OBVIOUS
    <2>5. CutAt(b, p, f, m) /\ b = Append(f, b[p]) \o m
      BY <1>1, <2>2, <2>3, <2>4, CutIs
    <2>6. f \in Texts /\ m \in Texts /\ Len(m) = p - p
      BY <2>1, <2>5 DEF CutAt
    <2>7. m = <<>>
      <3>1. p - p = 0
        OBVIOUS
      <3> QED
        BY <2>6, <3>1, EmptySeq DEF Texts
    <2>8. PICK c : c = b[p]
      OBVIOUS
    <2>9. c \in Signs
      BY <1>1, <2>2, <2>8, ElementOfSeq DEF Texts
    <2>10. b = Append(f, c)
      <3>1. Append(f, c) \in Texts
        BY <2>6, <2>9, EndsAppended
      <3> QED
        BY <2>5, <2>7, <2>8, <3>1, ConcatEmptySeq DEF Texts
    <2>11. Front(b) = f /\ Front(b) \in Seq(Ins)
      <3>1. Front(b) = f
        BY <2>6, <2>9, <2>10, LastAppended DEF Texts
      <3> QED
        BY <1>2, <3>1, LastOnes
    <2>12. PICK g : g = k \o f
      OBVIOUS
    <2>13. g \in Texts /\ n = Append(g, c)
      <3>1. Append(k \o f, c) = k \o Append(f, c)
        BY <2>6, <2>9, OneMore
      <3> QED
        BY <2>6, <2>10, <2>12, <3>1, EndsJoined
    <2>14. Front(n) = g
      BY <2>9, <2>13, LastAppended DEF Texts
    <2> QED
      BY <2>11, <2>12, <2>14
  <1>3. SubSeq(n, 1, Len(n) - Len(b)) = k
    <2>1. PICK a \in Nat : a = Len(k)
      BY LenProperties DEF Texts
    <2>2. PICK d \in Nat : d = Len(b)
      BY LenProperties
    <2>3. n \in Texts /\ Len(n) = a + d /\ \A i \in 1..a : n[i] = k[i]
      <3>1. Adjoined(k, b, a, d, n)
        BY <1>1, <2>1, <2>2, JoinedIs
      <3> QED
        BY <3>1 DEF Adjoined
    <2>4. (a + d) - d = a
      OBVIOUS
    <2>5. PICK f : f = SubSeq(n, 1, a)
      OBVIOUS
    <2>6. a <= Len(n)
      BY <2>3
    <2>7. f \in Texts /\ BeginsWith(n, f, a)
      BY <2>3, <2>5, <2>6, BeginningIs DEF Texts
    <2>8. f = k
      BY <2>1, <2>3, <2>7, SeqEqual DEF BeginsWith, Texts
    <2> QED
      BY <2>2, <2>3, <2>4, <2>5, <2>8
  <1> QED
    BY <1>2, <1>3

(* It is erased.                                                           *)
LEMMA ErasedReady ==
  ASSUME NEW k, Ready(k)
  PROVE  /\ \A c : Erase(c) => LineInv'
         /\ DropBuf => LineInv'
  <1>1. buf \in Seq(Ins) /\ line = k \o buf /\ Held(k, as, astack) /\ k \in Texts
    BY DEF Ready, Held
  <1>2. ASSUME NEW c, Erase(c)
        PROVE  LineInv'
    <2>1. /\ buf # <<>> /\ buf' = Front(buf) /\ line' = Front(line)
          /\ as' = as /\ astack' = astack
      BY <1>2 DEF Erase
    <2>2. buf' \in Seq(Ins) /\ line' = k \o buf'
      BY <1>1, <2>1, BufferErased
    <2>3. Ready(k)'
      BY <1>1, <2>1, <2>2 DEF Ready
    <2> QED
      BY <2>3 DEF LineInv
  <1>3. ASSUME DropBuf
        PROVE  LineInv'
    <2>1. buf' = <<>> /\ line' = SubSeq(line, 1, Len(line) - Len(buf)) /\ as' = as /\ astack' = astack
      BY <1>3 DEF DropBuf
    <2>2. line' = k
      BY <1>1, <2>1, BufferErased
    <2> QED
      BY <1>1, <2>1, <2>2, HeldReady
  <1> QED
    BY <1>2, <1>3

(* A character keeps it.                                                   *)
LEMMA CharacterLine ==
  ASSUME LineInv, DdtInv, DdtInv', NEW c, Character(c)
  PROVE  LineInv'
  <1>1. CASE err
    BY <1>1, DroppedReady
  <1>2. CASE TakeWord /\ astack' = astack /\ linemode' = linemode
    BY <1>2, DroppedReady
  <1>3. CASE UNCHANGED <<exprVars, linemode>>
    BY <1>3, DroppedReady DEF exprVars
  <1>4. CASE linemode' # "none" \/ ~plain'
    BY <1>4 DEF LineInv
  <1>5. ASSUME linemode = "none", plain, Expression(c), ~OutOfTurn(c)
        PROVE  LineInv'
    <2>1. PICK k : Ready(k)
      BY <1>5 DEF LineInv
    <2>2. Insert(c) \/ Operator(c) \/ pushexp(c) \/ popexp(c) \/ Separator(c)
      BY <1>5 DEF Expression
    <2> QED
      BY <2>1, <2>2, InsertReady, TakenReady, PushedReady, PoppedReady
  <1>6. ASSUME linemode = "none", plain, Erase(c) \/ DropBuf
        PROVE  LineInv'
    <2>1. PICK k : Ready(k)
      BY <1>6 DEF LineInv
    <2> QED
      BY <1>6, <2>1, ErasedReady
  <1>7. CASE Location(c)
    <2>1. TakeWord /\ astack' = astack /\ linemode' = linemode
      BY <1>7 DEF Location, Open, Deposit, Return, typeout, aclose, aopen, Kept
    <2> QED
      BY <1>2, <2>1
  <1>8. CASE Go(c) \/ Step1(c)
    <2>1. TakeWord /\ astack' = astack /\ linemode' = linemode
      BY <1>8 DEF Go, Step1
    <2> QED
      BY <1>2, <2>1
  <1>9. CASE Stop(c)
    <2>1. DropBuf /\ linemode' = linemode /\ plain' = plain
      BY <1>9 DEF Stop, DropBuf
    <2> QED
      BY <1>4, <1>6, <2>1
  <1>10. CASE Flagged(c)
    <2>1. EnterLine(c) => linemode' # "none"
      BY DEF EnterLine
    <2>2. num(c) \/ Altmode(c) \/ modechange(c) => UNCHANGED <<exprVars, linemode>>
      BY DEF num, Altmode, modechange, Kept
    <2> QED
      BY <1>3, <1>4, <1>10, <2>1, <2>2 DEF Flagged
  <1>11. CASE Expression(c)
    <2>1. OutOfTurn(c) => ~plain'
      BY DEF OutOfTurn
    <2>2. err \/ (linemode' = linemode /\ plain' = plain) \/ OutOfTurn(c)
      BY <1>11 DEF Expression, Insert, Operator, pushexp, popexp, Separator, Kept
    <2> QED
      BY <1>1, <1>4, <1>5, <1>11, <2>1, <2>2
  <1>12. CASE InLine(c) /\ linemode # "none"
    <2>1. linemode' = linemode
      BY <1>12 DEF InLine, Kept
    <2> QED
      BY <1>4, <1>12, <2>1
  <1>13. CASE Erase(c)
    <2>1. linemode' = linemode /\ plain' = plain
      BY <1>13 DEF Erase, Kept
    <2> QED
      BY <1>4, <1>6, <1>13, <2>1
  <1>14. CASE Cancel(c)
    BY <1>1, <1>14 DEF Cancel
  <1> QED
    BY <1>7, <1>8, <1>9, <1>10, <1>11, <1>12, <1>13, <1>14 DEF Character, Command

(* So does every step.                                                     *)
LEMMA StepLine ==
  ASSUME LineInv, TypedInv, TypedInv', [Next]_vars
  PROVE  LineInv'
  <1>1. DdtInv /\ DdtInv'
    BY DEF TypedInv
  <1>2. CASE Processor \/ ConsoleStep \/ DriveStep \/ SwitchStep \/ fe_svc \/ ServeTape \/ UNCHANGED vars
    <2>1. UNCHANGED ddtVars
      BY <1>2 DEF Processor, ConsoleStep, DriveStep, SwitchStep, fe_svc, ServeTape, vars
    <2> QED
      BY <1>1, <2>1, DroppedReady DEF ddtVars, exprVars, modeVars
  <1>3. CASE Refused
    BY <1>1, <1>3, DroppedReady DEF Refused
  <1>4. CASE Reported
    BY <1>1, <1>4, DroppedReady DEF Reported, Report, exprVars, modeVars
  <1>5. CASE AnyChar
    <2>1. PICK c \in used.keys : Character(c) \/ runline(c) \/ Zero(c)
      BY <1>5 DEF AnyChar
    <2>2. CASE Character(c)
      BY <1>1, <2>2, CharacterLine
    <2>3. CASE runline(c)
      BY <1>1, <2>3, DroppedReady DEF runline
    <2>4. CASE Zero(c)
      BY <1>1, <2>4, DroppedReady DEF Zero, Kept, exprVars
    <2> QED
      BY <2>1, <2>2, <2>3, <2>4
  <1> QED
    BY <1>2, <1>3, <1>4, <1>5 DEF Next

-----------------------------------------------------------------------------
(* What is deposited is what the line means.                               *)

DepositMeans ==
  /\ wrote.plain /\ IsInstruction(wrote.line) => wrote.word = InstructionOf(wrote.line)
  /\ wrote.plain /\ IsLine(wrote.line) => wrote.word = Meaning(wrote.line)

(* Closing a location deposits that.                                       *)
LEMMA ClosingMeans ==
  ASSUME LineInv, DdtInv, linemode = "none", NEW insert, aclose(insert)
  PROVE  DepositMeans'
  <1>1. CASE wrote' = NoDeposit
    BY <1>1 DEF DepositMeans, NoDeposit
  <1>2. CASE wrote' # NoDeposit
    <2>1. Readable /\ wrote'.word = endword /\ wrote'.line = line /\ wrote'.plain = plain
      BY <1>2 DEF aclose
    <2>2. SUFFICES ASSUME plain
                   PROVE  /\ IsInstruction(line) => endword = InstructionOf(line)
                          /\ IsLine(line) => endword = Meaning(line)
      BY <2>1 DEF DepositMeans
    <2>3. PICK k : Ready(k)
      BY <2>2 DEF LineInv
    <2>4. buf \in Seq(Ins) /\ line = k \o buf /\ Held(k, as, astack)
      BY <2>3 DEF Ready
    <2>5. IsLine(line) \/ IsInstruction(line) => Amasses(k, as) /\ Wraps(k)
      BY <2>4, MeantIsMade
    <2> QED
      BY <2>1, <2>4, <2>5, EndwordIs
  <1> QED
    BY <1>1, <1>2

(* So does every step.                                                     *)
LEMMA StepMeans ==
  ASSUME DepositMeans, LineInv, TypedInv, [Next]_vars
  PROVE  DepositMeans'
  <1>1. CASE Processor \/ ConsoleStep \/ DriveStep \/ SwitchStep \/ fe_svc \/ ServeTape \/ UNCHANGED vars
    <2>1. UNCHANGED ddtVars
      BY <1>1 DEF Processor, ConsoleStep, DriveStep, SwitchStep, fe_svc, ServeTape, vars
    <2> QED
      BY <2>1 DEF ddtVars, openVars, DepositMeans
  <1>2. CASE wrote' = NoDeposit
    BY <1>2 DEF DepositMeans, NoDeposit
  <1>3. CASE Refused \/ Reported
    BY <1>2, <1>3 DEF Refused, Reported, Report, err, NoWrite
  <1>4. CASE AnyChar
    <2>1. PICK c \in used.keys : Character(c) \/ runline(c) \/ Zero(c)
      BY <1>4 DEF AnyChar
    <2>2. CASE runline(c) \/ Zero(c)
      BY <1>2, <2>2 DEF runline, Zero, err, NotOpening, NoWrite
    <2>3. CASE linemode = "none" /\ (Open(c) \/ Deposit(c) \/ Return(c))
      <3>1. \E insert : aclose(insert)
        BY <2>3 DEF Open, Deposit, Return
      <3> QED
        BY <2>3, <3>1, ClosingMeans DEF TypedInv
    <2>4. CASE Character(c) /\ ~(linemode = "none" /\ (Open(c) \/ Deposit(c) \/ Return(c)))
      <3>1. CASE Expression(c) \/ Flagged(c)
        BY <1>2, <3>1 DEF Expression, Insert, Operator, pushexp, popexp, Separator, OutOfTurn,
                          Flagged, num, Altmode, modechange, EnterLine, NotOpening, NoWrite, err
      <3>2. CASE typeout(c) \/ Command(c)
        BY <1>2, <3>2 DEF typeout, Command, Go, Step1, Stop, NotOpening, NoWrite
      <3>3. CASE InLine(c) \/ Erase(c) \/ Cancel(c)
        BY <1>2, <3>3 DEF InLine, Erase, Cancel, NotOpening, NoWrite, err
      <3> QED
        BY <2>4, <3>1, <3>2, <3>3 DEF Character, Location
    <2> QED
      BY <2>1, <2>2, <2>3, <2>4
  <1> QED
    BY <1>1, <1>3, <1>4 DEF Next

(* fe.c pushexp(), popexp(), combine(), endword(), aclose(): however a     *)
(* line was typed, erased, and left by errors, what is deposited is what   *)
(* it reads by the help text, and goes where the terminal shows.           *)
THEOREM DepositsAsTyped == Spec => []DepositsTyped
  <1>1. Init => LineInv /\ DepositMeans
    <2> SUFFICES ASSUME DdtInit
                 PROVE  LineInv /\ DepositMeans
      BY DEF Init
    <2>1. <<>> \in Seq(Exprs) /\ <<>> \in Seq(Ins) /\ <<>> \in Texts
      BY StaysBalanced
    <2>2. Held(<<>>, Empty, <<>>) /\ <<>> \o <<>> = <<>>
      BY <2>1, HeldNothing, ConcatEmptySeq DEF Texts
    <2>3. Ready(<<>>)
      BY <2>1, <2>2 DEF DdtInit, Ready
    <2> QED
      BY <2>3 DEF DdtInit, NoDeposit, LineInv, DepositMeans
  <1>2. LineInv /\ DepositMeans /\ TypedInv /\ TypedInv' /\ [Next]_vars => LineInv' /\ DepositMeans'
    BY StepLine, StepMeans
  <1>3. DepositsShown /\ DepositMeans => DepositsTyped
    BY DEF DepositMeans, DepositsTyped
  <1>4. Spec => []TypedInv
    BY FileInvariance, PTL
  <1> QED
    BY <1>1, <1>2, <1>3, <1>4, DepositsAsShown, PTL DEF Spec

=============================================================================
