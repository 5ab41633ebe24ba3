------------------------------ MODULE ItsBytes -------------------------------
(* Words in bytes, as writewits() and readwits() of pdp6common.c have them *)
(* (the evacuate format of ITS): text with the line ends of the host, and  *)
(* a word whose lowest bit is set as a byte of its own kind.  A word is    *)
(* two characters and that bit, for five; there are Rub + 1 characters.    *)
EXTENDS Naturals, Sequences, SequencesExt

Bel == 1
Lf == 2
Cr == 5
Rub == 7
Chars == Rub + 1

(* 0200, 0155, 0356, 0357, 0360                                            *)
Shift == Chars
Highest == 5
CrAlone == 2 * Chars - 2
RubAlone == 2 * Chars - 1
Binary == 2 * Chars

None == Binary + 2 * Chars * Chars

-----------------------------------------------------------------------------
(* Writing.  prev is prevbyte, a CR or RUB that has not been written yet.  *)

flush(s) ==
  [prev |-> None,
   out |-> s.out \o CASE s.prev = Cr -> <<CrAlone>>
                      [] s.prev = Rub -> <<RubAlone>>
                      [] OTHER -> <<>>]

Alone(s, b) ==
  IF b \in {Cr, Rub} THEN [s EXCEPT !.prev = b]
  ELSE [s EXCEPT !.out = Append(@, IF b = Lf THEN Cr ELSE b)]

AfterRub(b) ==
  CASE b = Bel -> Rub
    [] b = Lf -> Shift + Cr
    [] b = Cr -> Shift + Lf
    [] b = Rub -> Shift + Bel
    [] OTHER -> Shift + b

Char(s, b) ==
  CASE s.prev = Cr /\ b = Lf -> [prev |-> None, out |-> Append(s.out, Lf)]
    [] s.prev = Rub /\ b \in 0..Highest \cup {Rub} ->
         [prev |-> None, out |-> Append(s.out, AfterRub(b))]
    [] OTHER -> Alone(flush(s), b)

asciiword(s, w) == Char(Char(s, w \div (2 * Chars)), (w \div 2) % Chars)

(* Fault: prevbyte is not flushed.                                         *)
binword_late(s, w) == [s EXCEPT !.out = Append(@, Binary + w)]

binword(s, w) == [flush(s) EXCEPT !.out = Append(@, Binary + w)]

writewits(s, w) == IF w % 2 = 1 THEN binword(s, w) ELSE asciiword(s, w)

Written(words) == flush(FoldLeft(writewits, [prev |-> None, out |-> <<>>], words)).out

-----------------------------------------------------------------------------
(* Reading.  part is what is left over of the word before; a binary byte   *)
(* behind it ends the program.                                             *)

Pushed(o) ==
  CASE o = Lf -> <<Cr, Lf>>
    [] o = Cr -> <<Lf>>
    [] o = Rub -> <<Rub, Bel>>
    [] o < Rub /\ o \notin {Lf, Cr} -> <<o>>
    [] o = Shift + Bel -> <<Rub, Rub>>
    [] o = Shift + Lf -> <<Rub, Cr>>
    [] o = Shift + Cr -> <<Rub, Lf>>
    [] o = CrAlone -> <<Cr>>
    [] o = RubAlone -> <<Rub>>
    [] OTHER -> <<Rub, o - Shift>>

Full(r) ==
  IF Len(r.part) < 2 THEN r
  ELSE [r EXCEPT !.part = Tail(Tail(r.part)),
                 !.words = Append(@, [word |-> (r.part[1] * Chars + r.part[2]) * 2,
                                      left |-> Tail(Tail(r.part))])]

readbyte(r, o) ==
  IF r.error THEN r
  ELSE IF o < Binary THEN Full([r EXCEPT !.part = @ \o Pushed(o)])
  ELSE IF r.part = <<>> THEN [r EXCEPT !.words = Append(@, [word |-> o - Binary, left |-> <<>>])]
  ELSE [r EXCEPT !.error = TRUE]

(* The words of a file, each with what is left over behind it.  At the end *)
(* of the file a word is filled up with RUBs.                              *)
Read(file, leftover) ==
  LET r == FoldLeft(readbyte, [words |-> <<>>, part |-> leftover, error |-> FALSE], file)
  IN IF r.part = <<>> \/ r.error THEN r ELSE Full([r EXCEPT !.part = @ \o <<Rub>>])
=============================================================================
