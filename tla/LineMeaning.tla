----------------------------- MODULE LineMeaning -----------------------------
(* What a line means by the help text: a sum of words, or the fields of an *)
(* instruction.  The lines left out are those DDT takes in another way     *)
(* than they read: a product after a parenthesis, a sum of two groups, a   *)
(* number longer than the buffer, a field that ends in a parenthesis.      *)
EXTENDS DdtWords

Operators == {"+", "-", "*", "|"}
Signs == Digits \cup Letters \cup Operators \cup {".", "(", ")", " ", ","}
Texts == Seq(Signs)

Depth(l, i) ==
  Cardinality({j \in 1..i : l[j] = "("}) - Cardinality({j \in 1..i : l[j] = ")"})

Balanced(l) == (\A i \in DOMAIN l : Depth(l, i) >= 0) /\ Depth(l, Len(l)) = 0

(* The last of the characters cs outside of parentheses.                   *)
LastOf(l, cs) ==
  LET at == {i \in DOMAIN l : l[i] \in cs /\ Depth(l, i) = 0} IN
  IF at = {} THEN 0 ELSE CHOOSE i \in at : \A j \in at : j <= i

Before(l, i) == SubSeq(l, 1, i - 1)
Behind(l, i) == SubSeq(l, i + 1, Len(l))

(* Where the group that ends the line opens.                               *)
Opening(l) ==
  CHOOSE i \in DOMAIN l :
    /\ l[i] = "(" /\ Depth(l, i) = 1
    /\ \A j \in i..(Len(l) - 1) : Depth(l, j) >= 1

IsGroup(l) == l # <<>> /\ l[1] = "(" /\ l[Len(l)] = ")" /\ Opening(l) = 1
Inner(l) == SubSeq(l, 2, Len(l) - 1)

(* A group that no operator precedes is swapped and added.                 *)
Swaps(l) ==
  /\ l # <<>> /\ l[Len(l)] = ")"
  /\ Opening(l) = 1 \/ l[Opening(l) - 1] \notin Operators

(* A line without a meaning, of which a quotient by zero is one.           *)
Unmeant == Host

Numeral(m) == IF IsNumber(m) /\ Len(m) < BufLen THEN Number(m) ELSE Unmeant

Applied(op, x, y) ==
  IF Unmeant \in {x, y} \/ (op = "|" /\ y = 0) THEN Unmeant ELSE Reckoned(op, x, y)

Added(x, y) == IF Unmeant \in {x, y} THEN Unmeant ELSE (x + Swapped(y)) % Word

(* Where DDT takes an operator in another way than it reads: behind a      *)
(* group, it forgets it or swaps what follows.                             *)
Misleads(l, p) ==
  \/ p = 1 /\ l[p] # "-"
  \/ p > 1 /\ l[p - 1] = ")" /\ l[p] # "-" /\ (l[p] = "+" => IsGroup(Behind(l, p)))

(* A sum is what stands outside of groups, a line may end in one that is   *)
(* swapped.  means is what shorter lines mean.                             *)
LeftOf(means, l, n) == IF n = 1 THEN 0 ELSE means[Before(l, n)].sum
Term(means, m) == IF IsGroup(m) THEN means[Inner(m)].line ELSE Numeral(m)

SumRead(means, l) ==
  LET p == LastOf(l, Operators) IN
  CASE p = 0 -> Numeral(l)
    [] p # 0 /\ Misleads(l, p) -> Unmeant
    [] OTHER -> Applied(l[p], LeftOf(means, l, p), Term(means, Behind(l, p)))

LineRead(means, l) ==
  LET i == Opening(l)
      sum == SumRead(means, l)
  IN
  CASE Swaps(l) -> Added(LeftOf(means, l, i), means[SubSeq(l, i + 1, Len(l) - 1)].line)
    [] ~Swaps(l) /\ sum = Unmeant -> Unmeant
    [] OTHER -> sum % Word

Reading(means, l) ==
  IF Balanced(l) THEN [sum |-> SumRead(means, l), line |-> LineRead(means, l)]
  ELSE [sum |-> Unmeant, line |-> Unmeant]

Means[l \in Texts] == Reading(Means, l)

Sum(l) == Means[l].sum
Meaning(l) == Means[l].line
IsSum(l) == Sum(l) # Unmeant
IsLine(l) == Meaning(l) # Unmeant

-----------------------------------------------------------------------------
(* An instruction: a word, a blank, an accumulator, a comma, an address.   *)

Plain(l) == \A i \in DOMAIN l : l[i] \notin {"(", ")", " ", ","}
IsField(l) == Plain(l) /\ (l \in DOMAIN symtab \/ IsSum(l))
Field(l) == IF l \in DOMAIN symtab THEN symtab[l] ELSE Sum(l)

IsInstruction(l) ==
  LET s == LastOf(l, {" "})
      c == LastOf(l, {","})
  IN
  /\ s > 0 \/ c > 0
  /\ s > 0 => IsField(Before(l, s)) /\ (c > 0 => s < c)
  /\ c > 0 => IsField(SubSeq(l, s + 1, c - 1))
  /\ IsField(SubSeq(l, IF c > 0 THEN c + 1 ELSE s + 1, Len(l)))

InstructionOf(l) ==
  LET s == LastOf(l, {" "})
      c == LastOf(l, {","})
      op == IF s > 0 THEN Field(Before(l, s)) % Word ELSE 0
      ac == IF c > 0 THEN Field(SubSeq(l, s + 1, c - 1)) ELSE 0
      unit == IF Bit(op, Iot) = 1 THEN Bit(ac, 2) * 4 * Half ELSE Bit(ac, 1) * 2 * Half
      full == (op + unit) % Word
  IN
  LT(full) * Half + RT(full + Field(SubSeq(l, IF c > 0 THEN c + 1 ELSE s + 1, Len(l))))
=============================================================================
