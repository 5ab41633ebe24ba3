------------------------------- MODULE DdtWords ------------------------------
(* The words DDT reckons with.  An expression is reckoned with the width   *)
(* of the host and cut to a word when it is assembled.  A small word has   *)
(* one bit for each field of an instruction: I is the lowest bit of the    *)
(* left half, then accumulator, device, and the sign of an in-out class.   *)
EXTENDS Naturals, Sequences, SequencesExt, TLC

CONSTANTS
  Half,           \* 2^18
  Host,           \* 2^64
  BufLen          \* BUFLEN

ASSUME WordsAssumption ==
  /\ Half \in Nat /\ Half >= 16 /\ Half % 16 = 0
  /\ Host \in Nat \ {0} /\ Host % (Half * Half) = 0
  /\ BufLen \in Nat /\ BufLen > 1

Word == Half * Half
ADDRMASK == 4 * Half - 1
Address(w) == w % (ADDRMASK + 1)
Bit(w, b) == (w \div b) % 2

LT(w) == (w % Word) \div Half
RT(w) == w % Half
Swapped(w) == RT(w) * Half + LT(w)

(* The sum is taken for every operator but the three.                      *)
Reckoned(op, x, y) ==
  CASE op = "-" -> (x + Host - y) % Host
    [] op = "*" -> (x * y) % Host
    [] op = "|" -> x \div y
    [] OTHER -> (x + y) % Host

base == 8
Digits == {"0", "1", "2", "7"}
Letters == {"A", "B", "C"}
Value == [c \in Digits |-> CASE c = "0" -> 0 [] c = "1" -> 1 [] c = "2" -> 2 [] c = "7" -> 7]
IsNumber(s) == s # <<>> /\ \A i \in DOMAIN s : s[i] \in Digits
Number(s) == FoldLeft(LAMBDA w, c : (w * base + Value[c]) % Word, 0, s)

(* Two symbols: an address, and an instruction of the in-out class.        *)
Iot == 8 * Half
symtab == [s \in {<<"A">>, <<"B">>} |-> IF s = <<"A">> THEN 14 ELSE Iot]
=============================================================================
