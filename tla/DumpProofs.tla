----------------------------- MODULE DumpProofs ------------------------------
(* Dumps and loads.  The functions they are made of are defined by         *)
(* recursion, and what is known of them is proved by induction over the    *)
(* natural numbers, from the least number principle.                       *)
EXTENDS Sblk, WellFoundedInduction, SequenceTheorems, TLAPS

(***************************************************************************)
(* Induction                                                               *)
(***************************************************************************)

(* A set of numbers has a least one.                                       *)
LEMMA Least ==
  ASSUME NEW T, T \subseteq Nat, T # {}
  PROVE  \E n \in T : \A m \in T : n <= m
  <1> DEFINE R == OpToRel(<, Nat)
  <1>1. IsWellFoundedOn(R, Nat)
    BY NatLessThanWellFounded
  <1> HIDE DEF R
  <1>2. PICK n \in T : \A m \in T : ~(<<m, n>> \in R)
    BY <1>1, WFMin
  <1>3. \A m \in Nat, k \in Nat : m < k => <<m, k>> \in R
    BY DEF R, OpToRel
  <1>4. \A m \in T : ~(m < n)
    BY <1>2, <1>3
  <1> QED
    BY <1>2, <1>4

(* What holds of 0 and of the successor of each number it holds of, holds  *)
(* of all.                                                                 *)
LEMMA Induction ==
  ASSUME NEW T, 0 \in T, \A n \in Nat : n \in T => n + 1 \in T
  PROVE  \A n \in Nat : n \in T
  <1> DEFINE U == {n \in Nat : n \notin T}
  <1> SUFFICES ASSUME U # {}
               PROVE  FALSE
    OBVIOUS
  <1>1. PICK n \in U : \A m \in U : n <= m
    BY Least
  <1>2. n # 0 /\ n - 1 \in Nat /\ n - 1 \notin U
    BY <1>1
  <1>3. n - 1 \in T /\ (n - 1) + 1 = n
    BY <1>2
  <1> QED
    BY <1>1, <1>2, <1>3

(* A descent is a step towards a place to stop, for every element that is  *)
(* not one.                                                                *)
Descent(D, stop, next, measure, most) ==
  /\ most \in Nat /\ next \in [D -> D] /\ measure \in [D -> 0..most]
  /\ \A d \in D \ stop : measure[next[d]] < measure[d]

(* What holds where it ends and goes up with each step holds everywhere.   *)
LEMMA Ascent ==
  ASSUME NEW D, NEW stop, NEW next, NEW measure, NEW most,
         Descent(D, stop, next, measure, most),
         NEW T, D \cap stop \subseteq T,
         \A d \in D \ stop : next[d] \in T => d \in T
  PROVE  D \subseteq T
  <1> DEFINE N == {n \in Nat : \A d \in D : measure[d] <= n => d \in T}
  <1>1. 0 \in N
    BY DEF Descent
  <1>2. \A n \in Nat : n \in N => n + 1 \in N
    BY DEF Descent
  <1> HIDE DEF N
  <1>3. \A n \in Nat : n \in N
    BY <1>1, <1>2, Induction
  <1> QED
    BY <1>3 DEF N, Descent

(* A function that is defined along a descent is defined.                  *)
Stepped(D, V, b, g) == b \in V /\ g \in [D \X V -> V]
DefinedBy(D, stop, next, V, b, g, f) ==
  /\ f \in [D -> V]
  /\ \A d \in D : f[d] = IF d \in stop THEN b ELSE g[<<d, f[next[d]]>>]

(* The equation has a solution.                                            *)
LEMMA Recursion ==
  ASSUME NEW D, NEW stop, NEW next, NEW measure, NEW most,
         Descent(D, stop, next, measure, most),
         NEW V, NEW b, NEW g, Stepped(D, V, b, g)
  PROVE  \E f : DefinedBy(D, stop, next, V, b, g, f)
  <1> b \in V /\ g \in [D \X V -> V]
    BY DEF Stepped
  <1> DEFINE Upto(n, f) ==
        /\ f \in [D -> V]
        /\ \A d \in D : measure[d] <= n => f[d] = IF d \in stop THEN b ELSE g[<<d, f[next[d]]>>]
      N == {n \in Nat : \E f \in [D -> V] : Upto(n, f)}
      Better(f) == [d \in D |-> IF d \in stop THEN b ELSE g[<<d, f[next[d]]>>]]
  <1>1. ASSUME NEW f \in [D -> V]
        PROVE  Better(f) \in [D -> V]
    BY DEF Descent
  <1>2. 0 \in N
    <2>1. \A d \in D : measure[d] <= 0 => d \in stop
      BY DEF Descent
    <2>2. [d \in D |-> b] \in [D -> V] /\ Upto(0, [d \in D |-> b])
      BY <2>1
    <2> HIDE DEF Upto
    <2> QED
      BY <2>2
  <1>3. ASSUME NEW n \in Nat, n \in N
        PROVE  n + 1 \in N
    <2>1. PICK f \in [D -> V] : Upto(n, f)
      BY <1>3
    <2>2. ASSUME NEW d \in D, d \notin stop, measure[d] <= n + 1
          PROVE  /\ next[d] \in D
                 /\ Better(f)[next[d]] = f[next[d]]
      BY <2>1, <2>2 DEF Descent
    <2>3. Upto(n + 1, Better(f))
      <3>1. ASSUME NEW d \in D, measure[d] <= n + 1
            PROVE  Better(f)[d] = IF d \in stop THEN b ELSE g[<<d, Better(f)[next[d]]>>]
        BY <2>2, <3>1
      <3> QED
        BY <1>1, <3>1
    <2>4. Better(f) \in [D -> V]
      BY <1>1, <2>1
    <2> HIDE DEF Better, Upto
    <2> QED
      BY <1>3, <2>3, <2>4
  <1> HIDE DEF N
  <1>4. \A n \in Nat : n \in N
    BY <1>2, <1>3, Induction
  <1>5. PICK f \in [D -> V] : Upto(most, f)
    BY <1>4 DEF N, Descent
  <1>6. \A d \in D : f[d] = IF d \in stop THEN b ELSE g[<<d, f[next[d]]>>]
    BY <1>5 DEF Descent
  <1> QED
    BY <1>6 DEF DefinedBy

(***************************************************************************)
(* Sequences                                                               *)
(***************************************************************************)

(* The elements of two sequences, one behind the other.                    *)
OneBehind(S, s, t, m, n) ==
  /\ s \o t \in Seq(S) /\ Len(s \o t) = m + n
  /\ \A i \in 1..m : (s \o t)[i] = s[i]
  /\ \A i \in 1..n : (s \o t)[m + i] = t[i]

(* They are those of the first, and then those of the second.              *)
LEMMA Joins ==
  ASSUME NEW S, NEW s \in Seq(S), NEW t \in Seq(S), NEW m \in Nat, NEW n \in Nat,
         Len(s) = m, Len(t) = n
  PROVE  OneBehind(S, s, t, m, n)
  <1>1. /\ s \o t \in Seq(S) /\ Len(s \o t) = Len(s) + Len(t)
        /\ \A i \in 1..Len(s) + Len(t) :
             (s \o t)[i] = IF i <= Len(s) THEN s[i] ELSE t[i - Len(s)]
    BY ConcatProperties
  <1> QED
    BY <1>1 DEF OneBehind

(* Those of a sequence without its first.                                  *)
LEMMA Tails ==
  ASSUME NEW S, NEW s \in Seq(S), NEW n \in Nat, Len(s) = n + 1
  PROVE  /\ Tail(s) \in Seq(S) /\ Len(Tail(s)) = n
         /\ \A i \in 1..n : Tail(s)[i] = s[i + 1]
  <1>1. s # <<>>
    BY EmptySeq
  <1>2. /\ Tail(s) \in Seq(S) /\ Len(Tail(s)) = Len(s) - 1
        /\ \A i \in 1..Len(Tail(s)) : Tail(s)[i] = s[i + 1]
    BY <1>1, HeadTailProperties
  <1> QED
    BY <1>2

(* A sequence of one element.                                              *)
LEMMA One ==
  ASSUME NEW S, NEW s \in Seq(S), Len(s) = 1
  PROVE  s[1] \in S /\ s = <<s[1]>>
  <1>1. s[1] \in S
    OBVIOUS
  <1>2. PICK t : t = <<s[1]>>
    OBVIOUS
  <1>3. t \in Seq(S) /\ Len(t) = 1 /\ t[1] = s[1]
    BY <1>1, <1>2
  <1>4. \A i \in 1..Len(s) : s[i] = t[i]
    BY <1>3
  <1>5. s = t
    BY <1>3, <1>4, SeqEqual
  <1> QED
    BY <1>1, <1>2, <1>5

(***************************************************************************)
(* Folds                                                                   *)
(***************************************************************************)

(* A set of numbers up to n has a greatest one.                            *)
LEMMA Greatest ==
  ASSUME NEW n \in Nat, NEW s \in SUBSET (1..n), s # {}
  PROVE  Max(s) \in s /\ \A x \in s : x <= Max(s)
  <1> DEFINE T == {k \in Nat : n - k \in s}
  <1>1. T # {}
    <2>1. PICK x \in s : TRUE
      OBVIOUS
    <2>2. n - x \in Nat /\ n - (n - x) = x
      BY <2>1
    <2> QED
      BY <2>1, <2>2
  <1>2. PICK k \in T : \A j \in T : k <= j
    BY <1>1, Least
  <1>3. n - k \in s
    OBVIOUS
  <1>4. \A x \in s : n - k >= x
    <2> TAKE x \in s
    <2>1. n - x \in T
      OBVIOUS
    <2> QED
      BY <1>2, <2>1
  <1>5. \E x \in s : \A y \in s : x >= y
    BY <1>3, <1>4
  <1>6. Max(s) \in s /\ \A y \in s : Max(s) >= y
    BY <1>5 DEF Max
  <1> QED
    BY <1>6

(* A fold takes the greatest element of a set first.                       *)
Below(n) == [s \in SUBSET (1..n) |-> IF s = {} THEN {} ELSE s \ {Max(s)}]
Top(n) == [s \in SUBSET (1..n) |-> IF s = {} THEN 0 ELSE Max(s)]

(* The two functions, applied.                                             *)
LEMMA BelowTop ==
  ASSUME NEW n \in Nat, NEW s \in SUBSET (1..n)
  PROVE  /\ Below(n)[s] = IF s = {} THEN {} ELSE s \ {Max(s)}
         /\ Top(n)[s] = IF s = {} THEN 0 ELSE Max(s)
  BY DEF Below, Top

(* A set without its greatest element is below it.                         *)
LEMMA SetsDescend ==
  ASSUME NEW n \in Nat
  PROVE  Descent(SUBSET (1..n), {{}}, Below(n), Top(n), n)
  <1>1. Below(n) \in [SUBSET (1..n) -> SUBSET (1..n)]
    BY DEF Below
  <1>2. ASSUME NEW s \in SUBSET (1..n)
        PROVE  (IF s = {} THEN 0 ELSE Max(s)) \in 0..n
    <2>1. CASE s # {}
      <3>1. Max(s) \in 1..n
        BY <2>1, Greatest
      <3> QED
        BY <2>1, <3>1
    <2> QED
      BY <2>1
  <1>3. Top(n) \in [SUBSET (1..n) -> 0..n]
    BY <1>2 DEF Top
  <1>4. ASSUME NEW s \in SUBSET (1..n), s # {}
        PROVE  Top(n)[Below(n)[s]] < Top(n)[s]
    <2> DEFINE r == s \ {Max(s)}
    <2>1. Max(s) \in 1..n /\ Max(s) \in s /\ \A x \in s : x <= Max(s)
      BY <1>4, Greatest
    <2>2. r \in SUBSET (1..n)
      OBVIOUS
    <2>3. Below(n)[s] = r /\ Top(n)[s] = Max(s)
      BY <1>4, BelowTop
    <2>4. Top(n)[r] = IF r = {} THEN 0 ELSE Max(r)
      BY <2>2, BelowTop
    <2>5. r # {} => Max(r) \in r
      BY <2>2, Greatest
    <2>6. \A t \in r : t < Max(s)
      <3> TAKE t \in r
      <3>1. t \in 1..n /\ t <= Max(s) /\ t # Max(s)
        BY <2>1
      <3> QED
        BY <2>1, <3>1
    <2> HIDE DEF r
    <2> QED
      BY <2>1, <2>3, <2>4, <2>5, <2>6
  <1> QED
    BY <1>1, <1>3, <1>4 DEF Descent

(* The numbers up to k have k as the greatest.                             *)
LEMMA Prefix ==
  ASSUME NEW n \in Nat, NEW k \in 1..n, NEW s \in SUBSET (1..n), s = 1..k
  PROVE  Max(s) = k
  <1>1. k \in s
    OBVIOUS
  <1>2. Max(s) \in s /\ \A x \in s : x <= Max(s)
    BY <1>1, Greatest
  <1>3. Max(s) \in 1..k /\ k <= Max(s)
    BY <1>1, <1>2
  <1> QED
    BY <1>3

(* And without it, they are the numbers up to k - 1.                       *)
LEMMA Segments ==
  ASSUME NEW n \in Nat, NEW k \in 1..n
  PROVE  /\ Max(1..k) = k
         /\ (1..k) \ {k} = 1..(k - 1) /\ 1..k \in SUBSET (1..n) /\ 1..k # {}
  <1>1. (1..k) \ {k} = 1..(k - 1) /\ 1..k \in SUBSET (1..n) /\ 1..k # {}
    OBVIOUS
  <1> QED
    BY <1>1, Prefix

Folded(n, V, b, g, f) ==
  /\ f \in [SUBSET (1..n) -> V] /\ f[{}] = b
  /\ \A s \in SUBSET (1..n) : s # {} => f[s] = g[<<s, f[s \ {Max(s)}]>>]

(* There is a function that a fold defines.                                *)
LEMMA FoldExists ==
  ASSUME NEW n \in Nat, NEW V, NEW b, NEW g, Stepped(SUBSET (1..n), V, b, g)
  PROVE  \E f : Folded(n, V, b, g, f)
  <1> DEFINE D == SUBSET (1..n)
  <1>1. Descent(D, {{}}, Below(n), Top(n), n)
    BY SetsDescend
  <1>2. PICK f : DefinedBy(D, {{}}, Below(n), V, b, g, f)
    <2> HIDE DEF D
    <2> QED
      BY <1>1, Recursion DEF D
  <1>3. f \in [D -> V] /\ \A s \in D : f[s] = IF s = {} THEN b ELSE g[<<s, f[Below(n)[s]]>>]
    BY <1>2 DEF DefinedBy
  <1>4. {} \in D /\ \A s \in D : s # {} => Below(n)[s] = s \ {Max(s)}
    BY BelowTop
  <1> HIDE DEF D
  <1>5. f[{}] = b /\ \A s \in D : s # {} => f[s] = g[<<s, f[s \ {Max(s)}]>>]
    BY <1>3, <1>4
  <1> QED
    BY <1>3, <1>5 DEF D, Folded

FoldCloses(n, V, f) ==
  /\ f[{}] \in V
  /\ \A s \in SUBSET (1..n) : s # {} /\ f[s \ {Max(s)}] \in V => f[s] \in V
Run(n, V, f, h) ==
  /\ h \in [0..n -> V] /\ h[0] = f[{}] /\ h[n] = f[1..n]
  /\ \A k \in 1..n : h[k] = f[1..k] /\ h[k - 1] = f[(1..k) \ {k}]

(* It can be read off along the numbers up to n.                           *)
LEMMA FoldRuns ==
  ASSUME NEW n \in Nat, NEW V, NEW f, FoldCloses(n, V, f)
  PROVE  \E h : Run(n, V, f, h)
  <1> DEFINE D == SUBSET (1..n)
      T == {s \in D : f[s] \in V}
      h == [k \in 0..n |-> f[1..k]]
  <1>1. \A s \in D : f[s] \in V
    <2>1. Descent(D, {{}}, Below(n), Top(n), n)
      BY SetsDescend
    <2>2. D \cap {{}} \subseteq T
      BY DEF FoldCloses
    <2>3. ASSUME NEW s \in D \ {{}}, Below(n)[s] \in T
          PROVE  s \in T
      <3>1. Below(n)[s] = s \ {Max(s)}
        BY BelowTop
      <3> QED
        BY <2>3, <3>1 DEF FoldCloses
    <2> HIDE DEF T, D
    <2>4. D \subseteq T
      BY <2>1, <2>2, <2>3, Ascent
    <2> QED
      BY <2>4 DEF T
  <1>2. 1..0 = {} /\ \A k \in 0..n : 1..k \in D
    OBVIOUS
  <1>3. \A k \in 1..n : (1..k) \ {k} = 1..(k - 1) /\ k - 1 \in 0..n /\ k \in 0..n
    BY Segments
  <1> HIDE DEF D
  <1>4. h \in [0..n -> V]
    BY <1>1, <1>2
  <1>5. h[0] = f[{}] /\ h[n] = f[1..n]
    BY <1>2
  <1>6. \A k \in 1..n : h[k] = f[1..k] /\ h[k - 1] = f[(1..k) \ {k}]
    BY <1>3
  <1> HIDE DEF h
  <1>7. Run(n, V, f, h)
    BY <1>4, <1>5, <1>6 DEF Run
  <1> QED
    BY <1>7

(***************************************************************************)
(* Words and bytes                                                         *)
(***************************************************************************)

Bits == 0..(Words - 1)
Characters == 0..Rub
Bytes == 0..(None - 1)
Pending == {None, Cr, Rub}
Cores == [0..(Core - 1) -> Bits]

(* What is left over of a word.                                            *)
Short == {q \in Seq(Characters) : Len(q) <= 1}

Writers == [prev : Pending, out : Seq(Bytes)]
WordsRead == [word : Bits, left : Short]
Readers == [words : Seq(WordsRead), part : Short, error : BOOLEAN]
Loaders == [at : {"rim", "block", "data", "check", "done", "botch"}, iowd : Bits, chk : Bits,
            symbols : BOOLEAN, mem : Cores, pc : 0..(Core - 1), left : Short]

(* The numbers of ItsBytes.                                                *)
LEMMA Numbers ==
  /\ Words = 128 /\ Bits = 0..127 /\ Characters = 0..7 /\ Bytes = 0..143
  /\ Bel = 1 /\ Lf = 2 /\ Cr = 5 /\ Rub = 7 /\ Chars = 8 /\ Shift = 8 /\ Highest = 5
  /\ CrAlone = 14 /\ RubAlone = 15 /\ Binary = 16 /\ None = 144
  BY SblkAssumption
  DEF Bits, Characters, Bytes, Bel, Lf, Cr, Rub, Chars, Shift, Highest, CrAlone, RubAlone,
      Binary, None

(* There are not many sizes of core.                                       *)
LEMMA Sizes ==
  \/ (Core = 1 /\ Left = 128)
  \/ (Core = 2 /\ Left = 64)
  \/ (Core = 4 /\ Left = 32)
  \/ (Core = 8 /\ Left = 16)
  \/ (Core = 16 /\ Left = 8)
  <1>1. Words = 128 /\ Words = Left * Core /\ Left = 128 \div Core /\ Core \in Nat \ {0}
    BY SblkAssumption DEF Words, Left, Chars, Rub
  <1>2. Left \in Nat /\ Left >= 8 /\ Left * Core = 128
    BY <1>1, SblkAssumption
  <1>3. Core <= 16
    BY <1>1, <1>2
  <1>4. Core \in {1, 2, 3, 4, 5, 6, 7, 8, 9, 10, 11, 12, 13, 14, 15, 16}
    BY <1>1, <1>3
  <1>5. Core \notin {3, 5, 6, 7, 9, 10, 11, 12, 13, 14, 15}
    BY <1>2
  <1> QED
    BY <1>2, <1>4, <1>5

(* A word of two halves.                                                   *)
LEMMA Parts ==
  ASSUME NEW x \in 0..(Left - 1), NEW y \in 0..(Core - 1)
  PROVE  /\ x * Core + y \in Bits
         /\ left(x * Core + y) = x /\ right(x * Core + y) = y
  <1>1. Bits = 0..127
    BY Numbers
  <1>2. CASE Core = 1 /\ Left = 128
    BY <1>1, <1>2 DEF left, right
  <1>3. CASE Core = 2 /\ Left = 64
    BY <1>1, <1>3 DEF left, right
  <1>4. CASE Core = 4 /\ Left = 32
    BY <1>1, <1>4 DEF left, right
  <1>5. CASE Core = 8 /\ Left = 16
    BY <1>1, <1>5 DEF left, right
  <1>6. CASE Core = 16 /\ Left = 8
    BY <1>1, <1>6 DEF left, right
  <1> QED
    BY <1>2, <1>3, <1>4, <1>5, <1>6, Sizes

(* The halves of a word are a word again.                                  *)
LEMMA Halves ==
  /\ Core \in 1..16 /\ Left \in 8..128 /\ Left * Core = 128
  /\ \A w \in Bits : /\ left(w) \in 0..(Left - 1) /\ right(w) \in 0..(Core - 1)
                     /\ w = left(w) * Core + right(w)
  <1>1. Core \in 1..16 /\ Left \in 8..128 /\ Left * Core = 128
    BY Sizes
  <1>2. ASSUME NEW w \in Bits
        PROVE  /\ left(w) \in 0..(Left - 1) /\ right(w) \in 0..(Core - 1)
               /\ w = left(w) * Core + right(w)
    <2>1. w \in 0..127
      BY Numbers
    <2> QED
      BY <2>1, Sizes DEF left, right
  <1> QED
    BY <1>1, <1>2

(* The checksum is a word.                                                 *)
LEMMA Checks ==
  \A x \in Bits, y \in Bits : Checked(x, y) \in Bits
  BY Numbers DEF Checked

(* The bytes that stand for something.                                     *)
LEMMA SomeBytes ==
  /\ CrAlone \in Bytes /\ RubAlone \in Bytes /\ Characters \subseteq Bytes
  /\ Cr \in Characters /\ Lf \in Characters /\ Rub \in Characters /\ Bel \in Characters
  /\ \A b \in Characters : AfterRub(b) \in Bytes
  /\ \A w \in Bits : Binary + w \in Bytes
  BY Numbers DEF AfterRub

(* A pending character that is flushed.                                    *)
LEMMA Flushes ==
  ASSUME NEW s \in Writers
  PROVE  flush(s) \in Writers
  <1> DEFINE x == CASE s.prev = Cr -> <<CrAlone>> [] s.prev = Rub -> <<RubAlone>> [] OTHER -> <<>>
  <1>1. s.out \in Seq(Bytes)
    BY DEF Writers
  <1>2. x \in Seq(Bytes)
    BY SomeBytes
  <1> HIDE DEF x
  <1>3. s.out \o x \in Seq(Bytes)
    BY <1>1, <1>2
  <1>4. None \in Pending
    BY DEF Pending
  <1>5. flush(s) = [prev |-> None, out |-> s.out \o x]
    BY DEF flush, x
  <1> QED
    BY <1>3, <1>4, <1>5 DEF Writers

(* A character that is written.                                            *)
LEMMA CharWrites ==
  ASSUME NEW s \in Writers, NEW b \in Characters
  PROVE  Char(s, b) \in Writers
  <1>1. ASSUME NEW t \in Writers, NEW x \in Bytes, NEW p \in Pending
        PROVE  /\ [t EXCEPT !.prev = p] \in Writers
               /\ [t EXCEPT !.out = Append(t.out, x)] \in Writers
               /\ [prev |-> p, out |-> Append(t.out, x)] \in Writers
    <2>1. t.out \in Seq(Bytes) /\ Append(t.out, x) \in Seq(Bytes)
      BY DEF Writers
    <2> QED
      BY <2>1 DEF Writers
  <1>2. None \in Pending /\ Cr \in Pending /\ Rub \in Pending
    BY DEF Pending
  <1>3. ASSUME NEW t \in Writers
        PROVE  Alone(t, b) \in Writers
    <2>1. (IF b = Lf THEN Cr ELSE b) \in Bytes
      BY SomeBytes
    <2> QED
      BY <1>1, <1>2, <2>1 DEF Alone
  <1>4. Alone(flush(s), b) \in Writers
    BY <1>3, Flushes
  <1>5. AfterRub(b) \in Bytes /\ Lf \in Bytes
    BY SomeBytes
  <1> QED
    BY <1>1, <1>2, <1>4, <1>5 DEF Char

(* A word that is written.                                                 *)
LEMMA WordWrites ==
  \A s \in Writers, w \in Bits : writewits(s, w) \in Writers
  <1> TAKE s \in Writers, w \in Bits
  <1>1. flush(s) \in Writers
    BY Flushes
  <1>2. w \div (2 * Chars) \in Characters /\ (w \div 2) % Chars \in Characters
    BY Numbers
  <1>3. Binary + w \in Bytes
    BY SomeBytes
  <1>4. binword(s, w) \in Writers
    BY <1>1, <1>3 DEF binword, Writers
  <1>5. asciiword(s, w) \in Writers
    BY <1>2, CharWrites DEF asciiword
  <1> QED
    BY <1>4, <1>5 DEF writewits

(* What a byte stands for, one character or two.                           *)
LEMMA PushesChars ==
  ASSUME NEW o \in Bytes, o < Binary
  PROVE  \/ \E x \in Characters : Pushed(o) = <<x>>
         \/ \E x, y \in Characters : Pushed(o) = <<x, y>>
  <1>1. o \in 0..15
    BY Numbers
  <1> QED
    BY <1>1, Numbers DEF Pushed

(* At most two.                                                            *)
LEMMA PushesFew ==
  ASSUME NEW o \in Bytes, o < Binary
  PROVE  Pushed(o) \in Seq(Characters) /\ Len(Pushed(o)) <= 2
  <1>1. CASE \E x \in Characters : Pushed(o) = <<x>>
    BY <1>1
  <1>2. CASE \E x, y \in Characters : Pushed(o) = <<x, y>>
    BY <1>2
  <1> QED
    BY <1>1, <1>2, PushesChars

(* A reader whose word is taken when it is full.                           *)
LEMMA FullReads ==
  ASSUME NEW r \in Readers, NEW q \in Seq(Characters), Len(q) <= 3
  PROVE  /\ Full([r EXCEPT !.part = q]) \in Readers
         /\ Len(q) < 2 => Full([r EXCEPT !.part = q]) = [r EXCEPT !.part = q]
         /\ Len(q) >= 2 => Full([r EXCEPT !.part = q]) =
              [words |-> Append(r.words, [word |-> (q[1] * Chars + q[2]) * 2,
                                          left |-> Tail(Tail(q))]),
               part |-> Tail(Tail(q)), error |-> r.error]
  <1> DEFINE t == [r EXCEPT !.part = q]
  <1>1. /\ t.part = q /\ t.words = r.words /\ t.error = r.error
        /\ t = [words |-> r.words, part |-> q, error |-> r.error]
    BY DEF Readers
  <1>2. r.words \in Seq(WordsRead) /\ r.error \in BOOLEAN
    BY DEF Readers
  <1>3. CASE Len(q) < 2
    <2>1. q \in Short
      BY <1>3 DEF Short
    <2>2. Full(t) = t
      BY <1>1, <1>3 DEF Full
    <2> QED
      BY <1>1, <1>2, <1>3, <2>1, <2>2 DEF Readers
  <1>4. CASE Len(q) >= 2
    <2>1. Tail(Tail(q)) \in Short
      BY <1>4 DEF Short
    <2>2. (q[1] * Chars + q[2]) * 2 \in Bits
      <3>1. q[1] \in Characters /\ q[2] \in Characters
        BY <1>4
      <3>2. \A x \in Characters, y \in Characters : (x * Chars + y) * 2 \in Bits
        BY Numbers
      <3> QED
        BY <3>1, <3>2
    <2> DEFINE w == [word |-> (q[1] * Chars + q[2]) * 2, left |-> Tail(Tail(q))]
    <2>3. w \in WordsRead
      BY <2>1, <2>2 DEF WordsRead
    <2>4. Append(r.words, w) \in Seq(WordsRead)
      BY <1>2, <2>3
    <2>5. ~(Len(q) < 2)
      BY <1>4
    <2>6. Full(t) = [words |-> Append(r.words, w), part |-> Tail(Tail(q)), error |-> r.error]
      BY <1>1, <2>5 DEF Full
    <2>7. ASSUME NEW u \in Seq(WordsRead), NEW x \in Short
          PROVE  [words |-> u, part |-> x, error |-> r.error] \in Readers
      BY <1>2 DEF Readers
    <2>8. Full(t) \in Readers
      BY <2>1, <2>4, <2>6, <2>7
    <2> QED
      BY <2>5, <2>6, <2>8
  <1> QED
    BY <1>3, <1>4

(* A byte that is read.                                                    *)
LEMMA ByteReads ==
  \A r \in Readers, o \in Bytes : readbyte(r, o) \in Readers
  <1> TAKE r \in Readers, o \in Bytes
  <1>1. CASE r.error
    BY <1>1 DEF readbyte
  <1>2. CASE ~r.error /\ o < Binary
    <2>1. Pushed(o) \in Seq(Characters) /\ Len(Pushed(o)) <= 2
      BY <1>2, PushesFew
    <2>2. r.part \in Seq(Characters) /\ Len(r.part) <= 1
      BY DEF Readers, Short
    <2>3. r.part \o Pushed(o) \in Seq(Characters) /\ Len(r.part \o Pushed(o)) <= 3
      BY <2>1, <2>2
    <2> QED
      BY <1>2, <2>3, FullReads DEF readbyte
  <1>3. CASE ~r.error /\ ~(o < Binary)
    <2>1. [word |-> o - Binary, left |-> <<>>] \in WordsRead
      BY <1>3, Numbers DEF WordsRead, Short
    <2>2. Append(r.words, [word |-> o - Binary, left |-> <<>>]) \in Seq(WordsRead)
      BY <2>1 DEF Readers
    <2> QED
      BY <1>3, <2>2 DEF readbyte, Readers
  <1> QED
    BY <1>1, <1>2, <1>3, Numbers

(* A word that is loaded.                                                  *)
LEMMA WordLoads ==
  \A l \in Loaders, w \in WordsRead : LoadWord(l, w) \in Loaders
  <1> TAKE l \in Loaders, r \in WordsRead
  <1>1. r.word \in Bits /\ r.left \in Short
    BY DEF WordsRead
  <1>2. aobjn(l.iowd) \in Bits
    <2>1. \A w \in Bits : aobjn(w) \in Bits
      BY Numbers, Halves DEF aobjn
    <2> QED
      BY <2>1 DEF Loaders
  <1>3. Checked(l.chk, r.word) \in Bits
    BY <1>1, Checks DEF Loaders
  <1>4. right(r.word) \in 0..(Core - 1) /\ right(l.iowd) \in 0..(Core - 1)
    BY <1>1, Halves DEF Loaders
  <1>5. [l.mem EXCEPT ![right(l.iowd)] = r.word] \in Cores
    BY <1>1, <1>4 DEF Loaders, Cores
  <1>6. CASE l.at \in {"done", "botch"}
    BY <1>6 DEF LoadWord
  <1>7. CASE l.at = "rim"
    BY <1>7 DEF LoadWord, Loaders
  <1>8. CASE l.at = "block" /\ r.word >= Words \div 2
    <2>1. LoadWord(l, r) = [l EXCEPT !.at = "data", !.iowd = r.word, !.chk = r.word,
                                     !.symbols = right(r.word) = 0]
      BY <1>1, <1>8, Numbers DEF LoadWord
    <2> QED
      BY <1>1, <2>1 DEF Loaders
  <1>9. CASE l.at = "block" /\ r.word < Words \div 2
    <2>1. LoadWord(l, r) = IF r.word - right(r.word) \in {HALT, JRST}
                           THEN [l EXCEPT !.at = "done", !.pc = right(r.word), !.left = r.left]
                           ELSE [l EXCEPT !.at = "botch", !.left = r.left]
      BY <1>1, <1>9, Numbers DEF LoadWord
    <2> QED
      BY <1>1, <1>4, <2>1 DEF Loaders
  <1>10. CASE l.at = "data"
    <2>1. LoadWord(l, r) =
            [l EXCEPT !.chk = Checked(@, r.word), !.iowd = aobjn(l.iowd),
                      !.mem = IF l.symbols THEN @ ELSE [@ EXCEPT ![right(l.iowd)] = r.word],
                      !.at = IF left(aobjn(l.iowd)) = 0 THEN "check" ELSE "data"]
      BY <1>10 DEF LoadWord
    <2> QED
      BY <1>2, <1>3, <1>5, <2>1 DEF Loaders
  <1>11. CASE l.at = "check"
    BY <1>1, <1>11 DEF LoadWord, Loaders
  <1>12. r.word >= Words \div 2 \/ r.word < Words \div 2
    BY <1>1, Numbers
  <1> QED
    BY <1>6, <1>7, <1>8, <1>9, <1>10, <1>11, <1>12 DEF Loaders

(* The checksum, word by word.                                             *)
LEMMA ChecksFold ==
  ASSUME NEW b \in Bits, NEW seq \in Seq(Bits)
  PROVE  \E h \in [0..Len(seq) -> Bits] :
           /\ h[0] = b /\ h[Len(seq)] = FoldLeft(Checked, b, seq)
           /\ \A k \in 1..Len(seq) : h[k] = Checked(h[k - 1], seq[k])
  <1> DEFINE n == Len(seq)
      D == SUBSET (1..n)
      Is(f) == f = [s \in SUBSET DOMAIN seq |->
                      IF s = {} THEN b ELSE LET x == Max(s) IN Checked(f[s \ {x}], seq[x])]
      g == [p \in D \X Bits |-> IF p[1] = {} THEN b ELSE Checked(p[2], seq[Max(p[1])])]
      it == CHOOSE f : Is(f)
  <1>1. n \in Nat /\ DOMAIN seq = 1..n
    OBVIOUS
  <1>2. \A s \in D : s # {} => Max(s) \in 1..n /\ seq[Max(s)] \in Bits
    <2> TAKE s \in D
    <2>1. s # {} => Max(s) \in 1..n
      BY <1>1, Greatest
    <2> QED
      BY <1>1, <2>1
  <1>3. \A x \in Bits, y \in Bits : Checked(x, y) \in Bits
    BY Checks
  <1>4. PICK f : Folded(n, Bits, b, g, f)
    <2>1. Stepped(D, Bits, b, g)
      BY <1>2, <1>3 DEF Stepped
    <2> HIDE DEF g, n
    <2> QED
      BY <1>1, <2>1, FoldExists
  <1>5. Is(f)
    <2>1. ASSUME NEW s \in D, s # {}
          PROVE  f[s] = Checked(f[s \ {Max(s)}], seq[Max(s)])
      <3>1. f[s \ {Max(s)}] \in Bits
        BY <1>4 DEF Folded
      <3> QED
        BY <1>4, <2>1, <3>1 DEF Folded
    <2> HIDE DEF n
    <2> QED
      BY <1>1, <1>4, <2>1 DEF Folded
  <1>6. Is(it)
    <2> HIDE DEF Is
    <2> QED
      BY <1>5
  <1>7. FoldLeft(Checked, b, seq) = it[1..n]
    BY <1>1 DEF FoldLeft, MapThenFoldSet
  <1>8. ASSUME NEW s \in D
        PROVE  it[s] = IF s = {} THEN b ELSE Checked(it[s \ {Max(s)}], seq[Max(s)])
    <2> HIDE DEF it
    <2> QED
      BY <1>1, <1>6
  <1>9. {} \in D
    OBVIOUS
  <1> HIDE DEF it, g, Is, D
  <1>10. PICK h : Run(n, Bits, it, h)
    <2>1. FoldCloses(n, Bits, it)
      BY <1>2, <1>3, <1>8, <1>9 DEF FoldCloses, D
    <2> HIDE DEF n
    <2> QED
      BY <1>1, <2>1, FoldRuns
  <1>11. ASSUME NEW k \in 1..n
         PROVE  h[k] = Checked(h[k - 1], seq[k])
    <2>1. 1..k \in D /\ 1..k # {} /\ Max(1..k) = k
      BY <1>1, Segments DEF D
    <2> QED
      BY <1>8, <1>10, <2>1 DEF Run
  <1> QED
    BY <1>7, <1>8, <1>9, <1>10, <1>11 DEF Run

(* The file, word by word.                                                 *)
LEMMA WritesFold ==
  ASSUME NEW b \in Writers, NEW seq \in Seq(Bits)
  PROVE  \E h \in [0..Len(seq) -> Writers] :
           /\ h[0] = b /\ h[Len(seq)] = FoldLeft(writewits, b, seq)
           /\ \A k \in 1..Len(seq) : h[k] = writewits(h[k - 1], seq[k])
  <1> DEFINE n == Len(seq)
      D == SUBSET (1..n)
      Is(f) == f = [s \in SUBSET DOMAIN seq |->
                      IF s = {} THEN b ELSE LET x == Max(s) IN writewits(f[s \ {x}], seq[x])]
      g == [p \in D \X Writers |-> IF p[1] = {} THEN b ELSE writewits(p[2], seq[Max(p[1])])]
      it == CHOOSE f : Is(f)
  <1>1. n \in Nat /\ DOMAIN seq = 1..n
    OBVIOUS
  <1>2. \A s \in D : s # {} => Max(s) \in 1..n /\ seq[Max(s)] \in Bits
    <2> TAKE s \in D
    <2>1. s # {} => Max(s) \in 1..n
      BY <1>1, Greatest
    <2> QED
      BY <1>1, <2>1
  <1>3. \A x \in Writers, y \in Bits : writewits(x, y) \in Writers
    BY WordWrites
  <1>4. PICK f : Folded(n, Writers, b, g, f)
    <2>1. Stepped(D, Writers, b, g)
      BY <1>2, <1>3 DEF Stepped
    <2> HIDE DEF g, n
    <2> QED
      BY <1>1, <2>1, FoldExists
  <1>5. Is(f)
    <2>1. ASSUME NEW s \in D, s # {}
          PROVE  f[s] = writewits(f[s \ {Max(s)}], seq[Max(s)])
      <3>1. f[s \ {Max(s)}] \in Writers
        BY <1>4 DEF Folded
      <3> QED
        BY <1>4, <2>1, <3>1 DEF Folded
    <2> HIDE DEF n
    <2> QED
      BY <1>1, <1>4, <2>1 DEF Folded
  <1>6. Is(it)
    <2> HIDE DEF Is
    <2> QED
      BY <1>5
  <1>7. FoldLeft(writewits, b, seq) = it[1..n]
    BY <1>1 DEF FoldLeft, MapThenFoldSet
  <1>8. ASSUME NEW s \in D
        PROVE  it[s] = IF s = {} THEN b ELSE writewits(it[s \ {Max(s)}], seq[Max(s)])
    <2> HIDE DEF it
    <2> QED
      BY <1>1, <1>6
  <1>9. {} \in D
    OBVIOUS
  <1> HIDE DEF it, g, Is, D
  <1>10. PICK h : Run(n, Writers, it, h)
    <2>1. FoldCloses(n, Writers, it)
      BY <1>2, <1>3, <1>8, <1>9 DEF FoldCloses, D
    <2> HIDE DEF n
    <2> QED
      BY <1>1, <2>1, FoldRuns
  <1>11. ASSUME NEW k \in 1..n
         PROVE  h[k] = writewits(h[k - 1], seq[k])
    <2>1. 1..k \in D /\ 1..k # {} /\ Max(1..k) = k
      BY <1>1, Segments DEF D
    <2> QED
      BY <1>8, <1>10, <2>1 DEF Run
  <1> QED
    BY <1>7, <1>8, <1>9, <1>10, <1>11 DEF Run

(* The words, byte by byte.                                                *)
LEMMA ReadsFold ==
  ASSUME NEW b \in Readers, NEW seq \in Seq(Bytes)
  PROVE  \E h \in [0..Len(seq) -> Readers] :
           /\ h[0] = b /\ h[Len(seq)] = FoldLeft(readbyte, b, seq)
           /\ \A k \in 1..Len(seq) : h[k] = readbyte(h[k - 1], seq[k])
  <1> DEFINE n == Len(seq)
      D == SUBSET (1..n)
      Is(f) == f = [s \in SUBSET DOMAIN seq |->
                      IF s = {} THEN b ELSE LET x == Max(s) IN readbyte(f[s \ {x}], seq[x])]
      g == [p \in D \X Readers |-> IF p[1] = {} THEN b ELSE readbyte(p[2], seq[Max(p[1])])]
      it == CHOOSE f : Is(f)
  <1>1. n \in Nat /\ DOMAIN seq = 1..n
    OBVIOUS
  <1>2. \A s \in D : s # {} => Max(s) \in 1..n /\ seq[Max(s)] \in Bytes
    <2> TAKE s \in D
    <2>1. s # {} => Max(s) \in 1..n
      BY <1>1, Greatest
    <2> QED
      BY <1>1, <2>1
  <1>3. \A x \in Readers, y \in Bytes : readbyte(x, y) \in Readers
    BY ByteReads
  <1>4. PICK f : Folded(n, Readers, b, g, f)
    <2>1. Stepped(D, Readers, b, g)
      BY <1>2, <1>3 DEF Stepped
    <2> HIDE DEF g, n
    <2> QED
      BY <1>1, <2>1, FoldExists
  <1>5. Is(f)
    <2>1. ASSUME NEW s \in D, s # {}
          PROVE  f[s] = readbyte(f[s \ {Max(s)}], seq[Max(s)])
      <3>1. f[s \ {Max(s)}] \in Readers
        BY <1>4 DEF Folded
      <3> QED
        BY <1>4, <2>1, <3>1 DEF Folded
    <2> HIDE DEF n
    <2> QED
      BY <1>1, <1>4, <2>1 DEF Folded
  <1>6. Is(it)
    <2> HIDE DEF Is
    <2> QED
      BY <1>5
  <1>7. FoldLeft(readbyte, b, seq) = it[1..n]
    BY <1>1 DEF FoldLeft, MapThenFoldSet
  <1>8. ASSUME NEW s \in D
        PROVE  it[s] = IF s = {} THEN b ELSE readbyte(it[s \ {Max(s)}], seq[Max(s)])
    <2> HIDE DEF it
    <2> QED
      BY <1>1, <1>6
  <1>9. {} \in D
    OBVIOUS
  <1> HIDE DEF it, g, Is, D
  <1>10. PICK h : Run(n, Readers, it, h)
    <2>1. FoldCloses(n, Readers, it)
      BY <1>2, <1>3, <1>8, <1>9 DEF FoldCloses, D
    <2> HIDE DEF n
    <2> QED
      BY <1>1, <2>1, FoldRuns
  <1>11. ASSUME NEW k \in 1..n
         PROVE  h[k] = readbyte(h[k - 1], seq[k])
    <2>1. 1..k \in D /\ 1..k # {} /\ Max(1..k) = k
      BY <1>1, Segments DEF D
    <2> QED
      BY <1>8, <1>10, <2>1 DEF Run
  <1> QED
    BY <1>7, <1>8, <1>9, <1>10, <1>11 DEF Run

(* The core, word by word.                                                 *)
LEMMA LoadsFold ==
  ASSUME NEW b \in Loaders, NEW seq \in Seq(WordsRead)
  PROVE  \E h \in [0..Len(seq) -> Loaders] :
           /\ h[0] = b /\ h[Len(seq)] = FoldLeft(LoadWord, b, seq)
           /\ \A k \in 1..Len(seq) : h[k] = LoadWord(h[k - 1], seq[k])
  <1> DEFINE n == Len(seq)
      D == SUBSET (1..n)
      Is(f) == f = [s \in SUBSET DOMAIN seq |->
                      IF s = {} THEN b ELSE LET x == Max(s) IN LoadWord(f[s \ {x}], seq[x])]
      g == [p \in D \X Loaders |-> IF p[1] = {} THEN b ELSE LoadWord(p[2], seq[Max(p[1])])]
      it == CHOOSE f : Is(f)
  <1>1. n \in Nat /\ DOMAIN seq = 1..n
    OBVIOUS
  <1>2. \A s \in D : s # {} => Max(s) \in 1..n /\ seq[Max(s)] \in WordsRead
    <2> TAKE s \in D
    <2>1. s # {} => Max(s) \in 1..n
      BY <1>1, Greatest
    <2> QED
      BY <1>1, <2>1
  <1>3. \A x \in Loaders, y \in WordsRead : LoadWord(x, y) \in Loaders
    BY WordLoads
  <1>4. PICK f : Folded(n, Loaders, b, g, f)
    <2>1. Stepped(D, Loaders, b, g)
      BY <1>2, <1>3 DEF Stepped
    <2> HIDE DEF g, n
    <2> QED
      BY <1>1, <2>1, FoldExists
  <1>5. Is(f)
    <2>1. ASSUME NEW s \in D, s # {}
          PROVE  f[s] = LoadWord(f[s \ {Max(s)}], seq[Max(s)])
      <3>1. f[s \ {Max(s)}] \in Loaders
        BY <1>4 DEF Folded
      <3> QED
        BY <1>4, <2>1, <3>1 DEF Folded
    <2> HIDE DEF n
    <2> QED
      BY <1>1, <1>4, <2>1 DEF Folded
  <1>6. Is(it)
    <2> HIDE DEF Is
    <2> QED
      BY <1>5
  <1>7. FoldLeft(LoadWord, b, seq) = it[1..n]
    BY <1>1 DEF FoldLeft, MapThenFoldSet
  <1>8. ASSUME NEW s \in D
        PROVE  it[s] = IF s = {} THEN b ELSE LoadWord(it[s \ {Max(s)}], seq[Max(s)])
    <2> HIDE DEF it
    <2> QED
      BY <1>1, <1>6
  <1>9. {} \in D
    OBVIOUS
  <1> HIDE DEF it, g, Is, D
  <1>10. PICK h : Run(n, Loaders, it, h)
    <2>1. FoldCloses(n, Loaders, it)
      BY <1>2, <1>3, <1>8, <1>9 DEF FoldCloses, D
    <2> HIDE DEF n
    <2> QED
      BY <1>1, <2>1, FoldRuns
  <1>11. ASSUME NEW k \in 1..n
         PROVE  h[k] = LoadWord(h[k - 1], seq[k])
    <2>1. 1..k \in D /\ 1..k # {} /\ Max(1..k) = k
      BY <1>1, Segments DEF D
    <2> QED
      BY <1>8, <1>10, <2>1 DEF Run
  <1> QED
    BY <1>7, <1>8, <1>9, <1>10, <1>11 DEF Run
(***************************************************************************)
(* Words in bytes, and back                                                *)
(***************************************************************************)

(* A reader at the beginning of a file, with what it has left over.        *)
Reader(q) == [words |-> <<>>, part |-> q, error |-> FALSE]
Decoded(out) == FoldLeft(readbyte, Reader(<<>>), out)

(* A file is read byte by byte.                                            *)
LEMMA Decodes ==
  ASSUME NEW out \in Seq(Bytes), NEW o \in Bytes
  PROVE  /\ Decoded(<<>>) = Reader(<<>>)
         /\ Decoded(out) \in Readers
         /\ Decoded(Append(out, o)) = readbyte(Decoded(out), o)
  <1> DEFINE b == Reader(<<>>)
      n == Len(out)
  <1>1. b \in Readers
    BY DEF Reader, Readers, Short
  <1>2. /\ Append(out, o) \in Seq(Bytes) /\ Len(Append(out, o)) = n + 1 /\ n \in Nat
        /\ Append(out, o)[n + 1] = o /\ \A k \in 1..n : Append(out, o)[k] = out[k]
    OBVIOUS
  <1> HIDE DEF b
  <1>3. PICK h \in [0..n -> Readers] :
          /\ h[0] = b /\ h[n] = FoldLeft(readbyte, b, out)
          /\ \A k \in 1..n : h[k] = readbyte(h[k - 1], out[k])
    BY <1>1, ReadsFold
  <1>4. PICK g \in [0..(n + 1) -> Readers] :
          /\ g[0] = b /\ g[n + 1] = FoldLeft(readbyte, b, Append(out, o))
          /\ \A k \in 1..(n + 1) : g[k] = readbyte(g[k - 1], Append(out, o)[k])
    BY <1>1, <1>2, ReadsFold
  <1> DEFINE T == {k \in Nat : k <= n => g[k] = h[k]}
  <1>5. 0 \in T
    BY <1>3, <1>4
  <1>6. ASSUME NEW k \in Nat, k \in T
        PROVE  k + 1 \in T
    <2>1. SUFFICES ASSUME k + 1 <= n
                   PROVE  g[k + 1] = h[k + 1]
      OBVIOUS
    <2>2. k + 1 \in 1..n /\ k + 1 \in 1..(n + 1) /\ (k + 1) - 1 = k /\ k <= n
      BY <1>2, <2>1
    <2>3. g[k] = h[k]
      BY <1>6, <2>2
    <2> HIDE DEF n
    <2>4. g[k + 1] = readbyte(g[k], Append(out, o)[k + 1])
      BY <1>4, <2>2
    <2>5. h[k + 1] = readbyte(h[k], out[k + 1])
      BY <1>3, <2>2
    <2>6. Append(out, o)[k + 1] = out[k + 1]
      BY <1>2, <2>2
    <2> QED
      BY <2>3, <2>4, <2>5, <2>6
  <1> HIDE DEF T
  <1>7. \A k \in Nat : k \in T
    BY <1>5, <1>6, Induction
  <1>8. g[n] = h[n]
    BY <1>2, <1>7 DEF T
  <1>9. g[n + 1] = readbyte(g[n], o)
    <2>1. n + 1 \in 1..(n + 1) /\ (n + 1) - 1 = n
      BY <1>2
    <2> QED
      BY <1>2, <1>4, <2>1
  <1>10. Decoded(<<>>) = b
    <2>1. PICK f \in [0..Len(<<>>) -> Readers] :
            f[0] = b /\ f[Len(<<>>)] = FoldLeft(readbyte, b, <<>>)
      <3>1. <<>> \in Seq(Bytes)
        OBVIOUS
      <3> QED
        BY <1>1, <3>1, ReadsFold
    <2> QED
      BY <2>1 DEF Decoded, b
  <1>11. h[n] \in Readers
    BY <1>2, <1>3
  <1> QED
    BY <1>3, <1>4, <1>8, <1>9, <1>10, <1>11 DEF Decoded, b

(* A reader that has read some words and part of the next.                 *)
Shows(r, ws, q) ==
  /\ r \in Readers /\ ws \in Seq(Bits) /\ q \in Short
  /\ ~r.error /\ r.part = q /\ Len(r.words) = Len(ws)
  /\ \A i \in 1..Len(ws) : r.words[i].word = ws[i]

(* And one more character.                                                 *)
WordOf(x, y) == (x * Chars + y) * 2
WordsWith(ws, q, y) == IF q = <<>> THEN ws ELSE Append(ws, WordOf(q[1], y))
PartWith(q, y) == IF q = <<>> THEN <<y>> ELSE <<>>

(* They are words and characters.                                          *)
LEMMA WithTypes ==
  ASSUME NEW ws \in Seq(Bits), NEW q \in Short, NEW y \in Characters
  PROVE  WordsWith(ws, q, y) \in Seq(Bits) /\ PartWith(q, y) \in Short
  <1>1. PartWith(q, y) \in Short
    <2>1. <<y>> \in Short /\ <<>> \in Short
      BY DEF Short
    <2> QED
      BY <2>1 DEF PartWith
  <1>2. CASE q # <<>>
    <2>1. q[1] \in Characters
      BY <1>2 DEF Short
    <2>2. \A x \in Characters : WordOf(x, y) \in Bits
      BY Numbers DEF WordOf
    <2> QED
      BY <1>1, <2>1, <2>2 DEF WordsWith
  <1> QED
    BY <1>1, <1>2 DEF WordsWith

(* A reader with more words.                                               *)
LEMMA ShowsMore ==
  ASSUME NEW r \in Readers, NEW ws, NEW q, Shows(r, ws, q), NEW w \in WordsRead, NEW p \in Short
  PROVE  Shows([words |-> Append(r.words, w), part |-> p, error |-> r.error],
               Append(ws, w.word), p)
  <1> DEFINE t == [words |-> Append(r.words, w), part |-> p, error |-> r.error]
  <1>1. /\ r.words \in Seq(WordsRead) /\ ws \in Seq(Bits) /\ Len(r.words) = Len(ws)
        /\ r.error = FALSE /\ \A i \in 1..Len(ws) : r.words[i].word = ws[i]
    BY DEF Shows, Readers
  <1>2. w.word \in Bits
    BY DEF WordsRead
  <1>3. Append(r.words, w) \in Seq(WordsRead) /\ Append(ws, w.word) \in Seq(Bits)
    BY <1>1, <1>2
  <1>4. t \in Readers
    BY <1>1, <1>3 DEF Readers
  <1>5. Len(Append(r.words, w)) = Len(Append(ws, w.word))
    BY <1>1
  <1>6. \A i \in 1..Len(Append(ws, w.word)) :
          Append(r.words, w)[i].word = Append(ws, w.word)[i]
    BY <1>1
  <1> QED
    BY <1>1, <1>3, <1>4, <1>5, <1>6 DEF Shows

(* What is left over is a character or nothing.                            *)
LEMMA ShortIs ==
  ASSUME NEW q \in Short
  PROVE  q = <<>> \/ \E x \in Characters : q = <<x>>
  <1>1. q \in Seq(Characters) /\ Len(q) <= 1
    BY DEF Short
  <1>2. CASE Len(q) = 0
    BY <1>1, <1>2
  <1>3. CASE Len(q) = 1
    BY <1>1, <1>3, One
  <1>4. PICK n \in Nat : n = Len(q)
    BY <1>1
  <1>5. n = 0 \/ n = 1
    BY <1>1, <1>4
  <1> QED
    BY <1>2, <1>3, <1>4, <1>5

(* Two characters, and three, but for the first two.                       *)
LEMMA Behinds ==
  ASSUME NEW c \in Seq(Characters), NEW n \in 2..3, Len(c) = n
  PROVE  /\ c[1] \in Characters /\ c[2] \in Characters /\ WordOf(c[1], c[2]) \in Bits
         /\ Tail(Tail(c)) \in Short
         /\ n = 2 => Tail(Tail(c)) = <<>>
         /\ n = 3 => c[3] \in Characters /\ Tail(Tail(c)) = <<c[3]>>
  <1>1. c[1] \in Characters /\ c[2] \in Characters /\ (n = 3 => c[3] \in Characters)
    <2>1. \A i \in 1..n : c[i] \in Characters
      BY ElementOfSeq
    <2> QED
      BY <2>1
  <1>2. \A x \in Characters, y \in Characters : WordOf(x, y) \in Bits
    BY Numbers DEF WordOf
  <1>3. PICK m \in 0..1 : n = m + 2
    <2>1. n - 2 \in 0..1 /\ n = (n - 2) + 2
      OBVIOUS
    <2> QED
      BY <2>1
  <1>4. PICK t : t = Tail(c)
    OBVIOUS
  <1>5. t \in Seq(Characters) /\ Len(t) = m + 1 /\ \A i \in 1..(m + 1) : t[i] = c[i + 1]
    BY <1>3, <1>4, Tails
  <1>6. PICK u : u = Tail(t)
    OBVIOUS
  <1>7. u \in Seq(Characters) /\ Len(u) = m /\ \A i \in 1..m : u[i] = t[i + 1]
    BY <1>3, <1>5, <1>6, Tails
  <1>8. u \in Short
    BY <1>7 DEF Short
  <1>9. n = 2 => u = <<>>
    BY <1>3, <1>7, EmptySeq
  <1>10. n = 3 => u = <<c[3]>>
    <2>1. n = 3 => m = 1 /\ 1 \in 1..m /\ 2 \in 1..(m + 1)
      BY <1>3
    <2>2. n = 3 => Len(u) = 1 /\ u[1] = c[3]
      BY <1>5, <1>7, <2>1
    <2> QED
      BY <1>7, <2>2, One
  <1> QED
    BY <1>1, <1>2, <1>4, <1>6, <1>8, <1>9, <1>10

(* A reader with a word that is full.                                      *)
LEMMA FullShows ==
  ASSUME NEW r \in Readers, NEW ws, NEW q, Shows(r, ws, q),
         NEW c \in Seq(Characters), NEW n \in 2..3, Len(c) = n
  PROVE  Shows(Full([r EXCEPT !.part = c]), Append(ws, WordOf(c[1], c[2])), Tail(Tail(c)))
  <1> DEFINE p == Tail(Tail(c))
      w == [word |-> WordOf(c[1], c[2]), left |-> p]
  <1>1. p \in Short /\ w \in WordsRead /\ w.word = WordOf(c[1], c[2])
    BY Behinds DEF WordsRead
  <1>2. Full([r EXCEPT !.part = c]) =
          [words |-> Append(r.words, w), part |-> p, error |-> r.error]
    <2>1. Len(c) <= 3 /\ Len(c) >= 2
      OBVIOUS
    <2> QED
      BY <2>1, FullReads DEF WordOf
  <1> HIDE DEF w, p
  <1>3. Shows([words |-> Append(r.words, w), part |-> p, error |-> r.error],
              Append(ws, w.word), p)
    BY <1>1, ShowsMore
  <1> QED
    BY <1>1, <1>2, <1>3 DEF p

(* A byte that stands for one character, and one that stands for two.      *)
LEMMA PushesOne ==
  ASSUME NEW r, NEW ws, NEW q, Shows(r, ws, q),
         NEW o \in Bytes, o < Binary, NEW y \in Characters, Pushed(o) = <<y>>
  PROVE  Shows(readbyte(r, o), WordsWith(ws, q, y), PartWith(q, y))
  <1>1. r \in Readers /\ ws \in Seq(Bits) /\ q \in Short /\ ~r.error /\ r.part = q
    BY DEF Shows
  <1>2. PICK t : t = <<y>>
    OBVIOUS
  <1>3. t \in Seq(Characters) /\ Len(t) = 1 /\ t[1] = y /\ t \in Short
    BY <1>2 DEF Short
  <1>4. readbyte(r, o) = Full([r EXCEPT !.part = q \o t])
    BY <1>1, <1>2 DEF readbyte
  <1>5. CASE q = <<>>
    <2>1. q \o t = t
      BY <1>3, <1>5, ConcatEmptySeq
    <2>2. readbyte(r, o) = [r EXCEPT !.part = t]
      <3>1. PICK n \in Nat : Len(t) = n /\ n = 1
        BY <1>3
      <3>2. Len(t) <= 3 /\ Len(t) < 2
        BY <3>1
      <3>3. Full([r EXCEPT !.part = t]) = [r EXCEPT !.part = t]
        BY <1>1, <1>3, <3>2, FullReads
      <3> QED
        BY <1>4, <2>1, <3>3
    <2>3. [r EXCEPT !.part = t] \in Readers
      BY <1>1, <1>3 DEF Readers
    <2> QED
      BY <1>1, <1>2, <1>3, <1>5, <2>2, <2>3 DEF Shows, WordsWith, PartWith, Readers
  <1>6. ASSUME NEW x \in Characters, q = <<x>>
        PROVE  Shows(readbyte(r, o), WordsWith(ws, q, y), PartWith(q, y))
    <2>1. q \in Seq(Characters) /\ Len(q) = 1 /\ q[1] = x /\ q # <<>>
      BY <1>6
    <2>2. PICK c : c = q \o t
      OBVIOUS
    <2>3. c \in Seq(Characters) /\ Len(c) = 2 /\ c[1] = x /\ c[2] = y
      <3>1. OneBehind(Characters, q, t, 1, 1)
        BY <1>3, <2>1, Joins
      <3>2. 1 \in 1..1 /\ 1 + 1 = 2
        OBVIOUS
      <3> QED
        BY <1>3, <2>1, <2>2, <3>1, <3>2 DEF OneBehind
    <2>4. 2 \in 2..3 /\ Tail(Tail(c)) = <<>>
      BY <2>3, Behinds
    <2>5. Shows(Full([r EXCEPT !.part = c]), Append(ws, WordOf(c[1], c[2])), Tail(Tail(c)))
      BY <1>1, <2>3, <2>4, FullShows
    <2> QED
      BY <1>4, <2>1, <2>2, <2>3, <2>4, <2>5 DEF WordsWith, PartWith
  <1> QED
    BY <1>1, <1>5, <1>6, ShortIs

(* The first of two, and the second.                                       *)
LEMMA PushesTwo ==
  ASSUME NEW r, NEW ws, NEW q, Shows(r, ws, q), NEW o \in Bytes, o < Binary,
         NEW y \in Characters, NEW z \in Characters, Pushed(o) = <<y, z>>
  PROVE  Shows(readbyte(r, o), WordsWith(WordsWith(ws, q, y), PartWith(q, y), z),
               PartWith(PartWith(q, y), z))
  <1>1. r \in Readers /\ ws \in Seq(Bits) /\ q \in Short /\ ~r.error /\ r.part = q
    BY DEF Shows
  <1>2. PICK t : t = <<y, z>>
    OBVIOUS
  <1>3. t \in Seq(Characters) /\ Len(t) = 2 /\ t[1] = y /\ t[2] = z
    BY <1>2
  <1>4. readbyte(r, o) = Full([r EXCEPT !.part = q \o t])
    BY <1>1, <1>2 DEF readbyte
  <1>5. CASE q = <<>>
    <2>1. q \o t = t
      BY <1>3, <1>5, ConcatEmptySeq
    <2>2. 2 \in 2..3 /\ Tail(Tail(t)) = <<>>
      BY <1>3, Behinds
    <2>3. Shows(Full([r EXCEPT !.part = t]), Append(ws, WordOf(t[1], t[2])), Tail(Tail(t)))
      BY <1>1, <1>3, <2>2, FullShows
    <2>4. <<y>> # <<>> /\ <<y>>[1] = y
      OBVIOUS
    <2> QED
      BY <1>3, <1>4, <1>5, <2>1, <2>2, <2>3, <2>4 DEF WordsWith, PartWith
  <1>6. ASSUME NEW x \in Characters, q = <<x>>
        PROVE  Shows(readbyte(r, o), WordsWith(WordsWith(ws, q, y), PartWith(q, y), z),
                     PartWith(PartWith(q, y), z))
    <2>1. q \in Seq(Characters) /\ Len(q) = 1 /\ q[1] = x /\ q # <<>>
      BY <1>6
    <2>2. PICK c : c = q \o t
      OBVIOUS
    <2>3. c \in Seq(Characters) /\ Len(c) = 3 /\ c[1] = x /\ c[2] = y /\ c[3] = z
      <3>1. OneBehind(Characters, q, t, 1, 2)
        BY <1>3, <2>1, Joins
      <3>2. 1 \in 1..1 /\ 1 \in 1..2 /\ 2 \in 1..2 /\ 1 + 1 = 2 /\ 1 + 2 = 3
        OBVIOUS
      <3> QED
        BY <1>3, <2>1, <2>2, <3>1, <3>2 DEF OneBehind
    <2>4. 3 \in 2..3 /\ Tail(Tail(c)) = <<z>>
      BY <2>3, Behinds
    <2>5. Shows(Full([r EXCEPT !.part = c]), Append(ws, WordOf(c[1], c[2])), Tail(Tail(c)))
      BY <1>1, <2>3, <2>4, FullShows
    <2> QED
      BY <1>4, <2>1, <2>2, <2>3, <2>4, <2>5 DEF WordsWith, PartWith
  <1> QED
    BY <1>1, <1>5, <1>6, ShortIs

(* A writer whose reader has some words and part of the next, when what    *)
(* is pending is counted.                                                  *)
Got(s, ws, q) ==
  /\ s \in Writers
  /\ IF s.prev = None THEN Shows(Decoded(s.out), ws, q)
     ELSE \E ws0, q0 : /\ Shows(Decoded(s.out), ws0, q0)
                       /\ ws = WordsWith(ws0, q0, s.prev) /\ q = PartWith(q0, s.prev)

(* A byte more.                                                            *)
LEMMA OneByte ==
  ASSUME NEW out \in Seq(Bytes), NEW ws, NEW q, Shows(Decoded(out), ws, q),
         NEW o \in Bytes, o < Binary, NEW y \in Characters, Pushed(o) = <<y>>
  PROVE  Shows(Decoded(Append(out, o)), WordsWith(ws, q, y), PartWith(q, y))
  BY Decodes, PushesOne

(* A byte more, that stands for two characters.                            *)
LEMMA TwoByte ==
  ASSUME NEW out \in Seq(Bytes), NEW ws, NEW q, Shows(Decoded(out), ws, q),
         NEW o \in Bytes, o < Binary, NEW y \in Characters, NEW z \in Characters,
         Pushed(o) = <<y, z>>
  PROVE  Shows(Decoded(Append(out, o)), WordsWith(WordsWith(ws, q, y), PartWith(q, y), z),
               PartWith(PartWith(q, y), z))
  BY Decodes, PushesTwo

(* What is pending is written.                                             *)
LEMMA FlushGot ==
  ASSUME NEW s, NEW ws, NEW q, Got(s, ws, q)
  PROVE  Got(flush(s), ws, q) /\ flush(s).prev = None
  <1>1. s \in Writers /\ s.out \in Seq(Bytes) /\ s.prev \in {None, Cr, Rub}
    BY DEF Got, Writers, Pending
  <1>2. flush(s) \in Writers /\ flush(s).prev = None
    BY <1>1, Flushes DEF flush
  <1>3. None # Cr /\ None # Rub /\ Cr # Rub /\ CrAlone < Binary /\ RubAlone < Binary
    BY Numbers
  <1>4. CASE s.prev = None
    <2>1. flush(s).out = s.out \o <<>>
      BY <1>3, <1>4 DEF flush
    <2>2. flush(s).out = s.out
      BY <1>1, <2>1, ConcatEmptySeq
    <2> QED
      BY <1>2, <1>4, <2>2 DEF Got
  <1>5. ASSUME NEW o \in Bytes, o < Binary, Pushed(o) = <<s.prev>>,
               flush(s).out = s.out \o <<o>>, s.prev # None
        PROVE  Got(flush(s), ws, q)
    <2>1. flush(s).out = Append(s.out, o)
      BY <1>1, <1>5, AppendIsConcat
    <2>2. s.prev \in Characters
      BY <1>1, <1>5, SomeBytes
    <2>3. PICK ws0, q0 : /\ Shows(Decoded(s.out), ws0, q0)
                         /\ ws = WordsWith(ws0, q0, s.prev) /\ q = PartWith(q0, s.prev)
      BY <1>5 DEF Got
    <2>4. Shows(Decoded(Append(s.out, o)), ws, q)
      BY <1>1, <1>5, <2>2, <2>3, OneByte
    <2> QED
      BY <1>2, <2>1, <2>4 DEF Got
  <1>6. Pushed(CrAlone) = <<Cr>> /\ Pushed(RubAlone) = <<Rub>>
    BY Numbers DEF Pushed
  <1>7. CASE s.prev = Cr
    <2>1. flush(s).out = s.out \o <<CrAlone>>
      BY <1>3, <1>7 DEF flush
    <2> QED
      BY <1>2, <1>3, <1>5, <1>6, <1>7, <2>1, SomeBytes
  <1>8. CASE s.prev = Rub
    <2>1. flush(s).out = s.out \o <<RubAlone>>
      BY <1>3, <1>8 DEF flush
    <2> QED
      BY <1>2, <1>3, <1>5, <1>6, <1>8, <2>1, SomeBytes
  <1> QED
    BY <1>1, <1>2, <1>4, <1>7, <1>8

(* A character with nothing pending.                                       *)
LEMMA AloneGot ==
  ASSUME NEW s, NEW ws, NEW q, Got(s, ws, q), s.prev = None, NEW b \in Characters
  PROVE  Got(Alone(s, b), WordsWith(ws, q, b), PartWith(q, b))
  <1>1. s \in Writers /\ s.out \in Seq(Bytes) /\ Shows(Decoded(s.out), ws, q)
    BY DEF Got, Writers
  <1>2. CASE b \in {Cr, Rub}
    <2>1. Alone(s, b) = [s EXCEPT !.prev = b] /\ b # None
      BY <1>2, Numbers DEF Alone
    <2>2. [s EXCEPT !.prev = b] \in Writers
      BY <1>1, <1>2 DEF Writers, Pending
    <2>3. [s EXCEPT !.prev = b].prev = b /\ [s EXCEPT !.prev = b].out = s.out
      BY <1>1 DEF Writers
    <2> QED
      BY <1>1, <2>1, <2>2, <2>3 DEF Got
  <1>3. CASE b \notin {Cr, Rub}
    <2>1. PICK o : o = IF b = Lf THEN Cr ELSE b
      OBVIOUS
    <2>2. o \in Bytes /\ o < Binary /\ Pushed(o) = <<b>>
      BY <1>3, <2>1, Numbers DEF Pushed
    <2>3. Alone(s, b) = [s EXCEPT !.out = Append(s.out, o)]
      BY <1>3, <2>1 DEF Alone
    <2>4. Append(s.out, o) \in Seq(Bytes)
      BY <1>1, <2>2
    <2>5. Alone(s, b) \in Writers /\ Alone(s, b).prev = None /\ Alone(s, b).out = Append(s.out, o)
      BY <1>1, <2>3, <2>4 DEF Writers
    <2>6. Shows(Decoded(Append(s.out, o)), WordsWith(ws, q, b), PartWith(q, b))
      BY <1>1, <2>2, OneByte
    <2> QED
      BY <2>5, <2>6 DEF Got
  <1> QED
    BY <1>2, <1>3

(* A character, written behind others, is read behind them.                *)
LEMMA CharGot ==
  ASSUME NEW s, NEW ws, NEW q, Got(s, ws, q), NEW b \in Characters
  PROVE  Got(Char(s, b), WordsWith(ws, q, b), PartWith(q, b))
  <1>1. s \in Writers /\ s.out \in Seq(Bytes)
    BY DEF Got, Writers
  <1>2. ASSUME NEW o \in Bytes, o < Binary, s.prev \in Characters, s.prev # None,
               Pushed(o) = <<s.prev, b>>, Char(s, b) = [prev |-> None, out |-> Append(s.out, o)]
        PROVE  Got(Char(s, b), WordsWith(ws, q, b), PartWith(q, b))
    <2>1. PICK ws0, q0 : /\ Shows(Decoded(s.out), ws0, q0)
                         /\ ws = WordsWith(ws0, q0, s.prev) /\ q = PartWith(q0, s.prev)
      BY <1>2 DEF Got
    <2>2. Shows(Decoded(Append(s.out, o)), WordsWith(ws, q, b), PartWith(q, b))
      BY <1>1, <1>2, <2>1, TwoByte
    <2>3. Append(s.out, o) \in Seq(Bytes)
      BY <1>1
    <2>4. Char(s, b) \in Writers /\ Char(s, b).prev = None /\ Char(s, b).out = Append(s.out, o)
      BY <1>2, <2>3 DEF Writers, Pending
    <2> QED
      BY <2>2, <2>4 DEF Got
  <1>3. Cr # Rub /\ None # Cr /\ None # Rub /\ Lf < Binary
    BY Numbers
  <1>4. CASE s.prev = Cr /\ b = Lf
    <2>1. Char(s, b) = [prev |-> None, out |-> Append(s.out, Lf)]
      BY <1>3, <1>4 DEF Char
    <2>2. Pushed(Lf) = <<Cr, Lf>>
      BY Numbers DEF Pushed
    <2>3. Lf \in Bytes /\ s.prev \in Characters
      BY <1>4, SomeBytes
    <2> QED
      BY <1>2, <1>3, <1>4, <2>1, <2>2, <2>3
  <1>5. CASE s.prev = Rub /\ b \in 0..Highest \cup {Rub}
    <2>1. Char(s, b) = [prev |-> None, out |-> Append(s.out, AfterRub(b))]
      BY <1>3, <1>5 DEF Char
    <2>2. Pushed(AfterRub(b)) = <<Rub, b>> /\ AfterRub(b) < Binary
      <3>1. b \in {0, 1, 2, 3, 4, 5, 7}
        BY <1>5, Numbers
      <3> QED
        BY <3>1, Numbers DEF Pushed, AfterRub
    <2>3. AfterRub(b) \in Bytes /\ s.prev \in Characters
      BY <1>5, SomeBytes
    <2> QED
      BY <1>2, <1>3, <1>5, <2>1, <2>2, <2>3
  <1>6. CASE ~(s.prev = Cr /\ b = Lf) /\ ~(s.prev = Rub /\ b \in 0..Highest \cup {Rub})
    <2>1. Char(s, b) = Alone(flush(s), b)
      BY <1>6 DEF Char
    <2> QED
      BY <2>1, FlushGot, AloneGot
  <1> QED
    BY <1>4, <1>5, <1>6

(* A word, written behind others, is read behind them.                     *)
LEMMA WordGot ==
  ASSUME NEW s, NEW ws, Got(s, ws, <<>>), NEW w \in Bits
  PROVE  Got(writewits(s, w), Append(ws, w), <<>>)
  <1>1. ASSUME w % 2 = 1
        PROVE  Got(writewits(s, w), Append(ws, w), <<>>)
    <2> DEFINE f == flush(s)
        o == Binary + w
        r == Decoded(f.out)
    <2>1. Got(f, ws, <<>>) /\ f.prev = None
      BY FlushGot
    <2>2. f \in Writers /\ f.out \in Seq(Bytes) /\ Shows(r, ws, <<>>)
      BY <2>1 DEF Got, Writers
    <2>3. o \in Bytes /\ ~(o < Binary) /\ o - Binary = w
      BY Numbers, SomeBytes
    <2>4. writewits(s, w) = [f EXCEPT !.out = Append(f.out, o)]
      BY <1>1 DEF writewits, binword
    <2> HIDE DEF f, o, r
    <2>5. Append(f.out, o) \in Seq(Bytes)
      BY <2>2, <2>3
    <2>6. /\ writewits(s, w) \in Writers /\ writewits(s, w).prev = None
          /\ writewits(s, w).out = Append(f.out, o)
      BY <2>1, <2>2, <2>4, <2>5 DEF Writers
    <2>7. Decoded(Append(f.out, o)) = readbyte(r, o)
      BY <2>2, <2>3, Decodes DEF r
    <2>8. r \in Readers /\ ~r.error /\ r.part = <<>> /\ r.error = FALSE
      BY <2>2 DEF Shows, Readers
    <2> DEFINE x == [word |-> w, left |-> <<>>]
    <2>9. x \in WordsRead /\ x.word = w /\ <<>> \in Short
      BY DEF WordsRead, Short
    <2>10. readbyte(r, o) = [r EXCEPT !.words = Append(r.words, x)]
      BY <2>3, <2>8 DEF readbyte
    <2> HIDE DEF x
    <2>11. readbyte(r, o) = [words |-> Append(r.words, x), part |-> <<>>, error |-> r.error]
      BY <2>8, <2>10 DEF Readers
    <2>12. Shows(readbyte(r, o), Append(ws, w), <<>>)
      BY <2>2, <2>8, <2>9, <2>11, ShowsMore
    <2> QED
      BY <2>6, <2>7, <2>12 DEF Got
  <1>2. ASSUME w % 2 # 1
        PROVE  Got(writewits(s, w), Append(ws, w), <<>>)
    <2> DEFINE x == w \div (2 * Chars)
        y == (w \div 2) % Chars
    <2>1. x \in Characters /\ y \in Characters /\ WordOf(x, y) = w
      BY <1>2, Numbers DEF WordOf
    <2>2. writewits(s, w) = Char(Char(s, x), y)
      BY <1>2 DEF writewits, asciiword
    <2> HIDE DEF x, y
    <2>3. Got(Char(s, x), ws, <<x>>)
      <3>1. Got(Char(s, x), WordsWith(ws, <<>>, x), PartWith(<<>>, x))
        BY <2>1, CharGot
      <3> QED
        BY <3>1 DEF WordsWith, PartWith
    <2>4. Got(Char(Char(s, x), y), Append(ws, w), <<>>)
      <3>1. Got(Char(Char(s, x), y), WordsWith(ws, <<x>>, y), PartWith(<<x>>, y))
        BY <2>1, <2>3, CharGot
      <3>2. <<x>> # <<>> /\ <<x>>[1] = x
        OBVIOUS
      <3> QED
        BY <2>1, <3>1, <3>2 DEF WordsWith, PartWith
    <2> QED
      BY <2>2, <2>4
  <1> QED
    BY <1>1, <1>2

(* What is read of a file that was written is what was written.            *)
LEMMA RoundTrip ==
  ASSUME NEW words \in Seq(Bits)
  PROVE  Written(words) \in Seq(Bytes) /\ Shows(Read(Written(words), <<>>), words, <<>>)
  <1> DEFINE b == [prev |-> None, out |-> <<>>]
      n == Len(words)
  <1>1. b \in Writers /\ n \in Nat
    BY DEF Writers, Pending
  <1>2. PICK h \in [0..n -> Writers] :
          /\ h[0] = b /\ h[n] = FoldLeft(writewits, b, words)
          /\ \A k \in 1..n : h[k] = writewits(h[k - 1], words[k])
    <2> HIDE DEF b
    <2> QED
      BY <1>1, WritesFold
  <1> DEFINE Upto(k) ==
        \E ws : /\ Got(h[k], ws, <<>>) /\ ws \in Seq(Bits) /\ Len(ws) = k
                /\ \A i \in 1..k : ws[i] = words[i]
      T == {k \in Nat : k <= n => Upto(k)}
  <1>3. 0 \in T
    <2>1. Shows(Decoded(<<>>), <<>>, <<>>)
      <3>1. Decoded(<<>>) = Reader(<<>>) /\ Reader(<<>>) \in Readers
        BY Decodes DEF Reader, Readers, Short
      <3>2. PICK r : r = Reader(<<>>)
        OBVIOUS
      <3>3. r \in Readers /\ ~r.error /\ r.part = <<>> /\ r.words = <<>>
        BY <3>1, <3>2 DEF Reader
      <3>4. <<>> \in Seq(Bits) /\ <<>> \in Short /\ Len(<<>>) = 0 /\ 1..0 = {}
        BY DEF Short
      <3>5. Shows(r, <<>>, <<>>)
        BY <3>3, <3>4 DEF Shows
      <3> QED
        BY <3>1, <3>2, <3>5
    <2>2. b.prev = None /\ b.out = <<>>
      OBVIOUS
    <2>3. Got(b, <<>>, <<>>)
      BY <1>1, <2>1, <2>2 DEF Got
    <2>4. <<>> \in Seq(Bits) /\ Len(<<>>) = 0 /\ \A i \in 1..0 : <<>>[i] = words[i]
      OBVIOUS
    <2> HIDE DEF b
    <2>5. Upto(0)
      BY <1>2, <2>3, <2>4
    <2> QED
      BY <2>5
  <1>4. ASSUME NEW k \in Nat, k \in T
        PROVE  k + 1 \in T
    <2>1. SUFFICES ASSUME k + 1 <= n
                   PROVE  Upto(k + 1)
      OBVIOUS
    <2>2. k + 1 \in 1..n /\ (k + 1) - 1 = k /\ k <= n
      BY <1>1, <2>1
    <2>3. Upto(k)
      BY <1>4, <2>2
    <2>4. PICK ws : /\ Got(h[k], ws, <<>>) /\ ws \in Seq(Bits) /\ Len(ws) = k
                    /\ \A i \in 1..k : ws[i] = words[i]
      BY <2>3
    <2> DEFINE w == words[k + 1]
    <2>5. w \in Bits
      BY <2>2, ElementOfSeq
    <2>6. h[k + 1] = writewits(h[k], w)
      BY <1>2, <2>2
    <2>7. Got(h[k + 1], Append(ws, w), <<>>)
      BY <2>4, <2>5, <2>6, WordGot
    <2>8. /\ Append(ws, w) \in Seq(Bits) /\ Len(Append(ws, w)) = k + 1
          /\ Append(ws, w)[k + 1] = w /\ \A i \in 1..k : Append(ws, w)[i] = ws[i]
      BY <2>4, <2>5, AppendProperties
    <2>9. \A i \in 1..(k + 1) : Append(ws, w)[i] = words[i]
      BY <2>4, <2>8
    <2> QED
      BY <2>7, <2>8, <2>9
  <1> HIDE DEF T
  <1>5. \A k \in Nat : k \in T
    BY <1>3, <1>4, Induction
  <1>6. PICK ws : /\ Got(h[n], ws, <<>>) /\ ws \in Seq(Bits) /\ Len(ws) = n
                  /\ \A i \in 1..n : ws[i] = words[i]
    BY <1>1, <1>5 DEF T
  <1>7. ws = words
    BY <1>6, SeqEqual
  <1>8. Got(flush(h[n]), words, <<>>) /\ flush(h[n]).prev = None
    BY <1>6, <1>7, FlushGot
  <1>9. Written(words) = flush(h[n]).out
    BY <1>2 DEF Written
  <1>10. Written(words) \in Seq(Bytes) /\ Shows(Decoded(Written(words)), words, <<>>)
    BY <1>8, <1>9 DEF Got, Writers
  <1>11. Read(Written(words), <<>>) = Decoded(Written(words))
    BY <1>10 DEF Read, Decoded, Reader, Shows
  <1> QED
    BY <1>10, <1>11

(***************************************************************************)
(* Blocks                                                                  *)
(***************************************************************************)

(* Counting up comes to zero: every word is reached from every other, if   *)
(* there are two words in core, and zero has no left half.                 *)
Stops == {w \in Bits : left(w) = 0}
Counted == [w \in Bits |-> aobjn(w)]
Unit == IF Core = 2 THEN 43 ELSE IF Core = 4 THEN 77 ELSE IF Core = 8 THEN 57 ELSE 113
Steps == [w \in Bits |-> ((128 - w) * Unit) % 128]

(* A number and what 128 leaves of it.                                     *)
LEMMA Modulo ==
  \A z \in Nat : \E x \in Nat : z = 128 * x + (z % 128) /\ z % 128 \in 0..127
  <1> TAKE z \in Nat
  <1>1. z \div 128 \in Nat /\ z = 128 * (z \div 128) + (z % 128) /\ z % 128 \in 0..127
    OBVIOUS
  <1> QED
    BY <1>1

(* A step more, a step less to go.                                         *)
LEMMA CountsDown ==
  ASSUME Core # 1, NEW w \in Bits, w # 0
  PROVE  /\ aobjn(w) \in Bits
         /\ ((128 - aobjn(w)) * Unit) % 128 < ((128 - w) * Unit) % 128
  <1>1. w \in 1..127 /\ Bits = 0..127 /\ Words = 128
    BY Numbers
  <1>2. PICK v : v = aobjn(w)
    OBVIOUS
  <1>3. v = (w + Core + 1) % 128
    BY <1>1, <1>2 DEF aobjn
  <1>4. CASE Core = 2
    <2>1. /\ v \in 0..127 /\ (v = w + 3 \/ v = w + 3 - 128)
          /\ Unit = 43 /\ (128 - w) * 43 \in Nat
      BY <1>1, <1>3, <1>4 DEF Unit
    <2>2. PICK x \in Nat : /\ (128 - w) * 43 = 128 * x + (((128 - w) * 43) % 128)
                          /\ ((128 - w) * 43) % 128 \in 0..127
      BY <2>1, Modulo
    <2>3. ((128 - w) * 43) % 128 # 0
      BY <1>1, <2>2
    <2>4. ((128 - v) * 43) % 128 = (((128 - w) * 43) % 128) - 1
      BY <1>1, <2>1, <2>2, <2>3
    <2> QED
      BY <1>1, <1>2, <2>1, <2>2, <2>4
  <1>5. CASE Core = 4
    <2>1. /\ v \in 0..127 /\ (v = w + 5 \/ v = w + 5 - 128)
          /\ Unit = 77 /\ (128 - w) * 77 \in Nat
      BY <1>1, <1>3, <1>5 DEF Unit
    <2>2. PICK x \in Nat : /\ (128 - w) * 77 = 128 * x + (((128 - w) * 77) % 128)
                          /\ ((128 - w) * 77) % 128 \in 0..127
      BY <2>1, Modulo
    <2>3. ((128 - w) * 77) % 128 # 0
      BY <1>1, <2>2
    <2>4. ((128 - v) * 77) % 128 = (((128 - w) * 77) % 128) - 1
      BY <1>1, <2>1, <2>2, <2>3
    <2> QED
      BY <1>1, <1>2, <2>1, <2>2, <2>4
  <1>6. CASE Core = 8
    <2>1. /\ v \in 0..127 /\ (v = w + 9 \/ v = w + 9 - 128)
          /\ Unit = 57 /\ (128 - w) * 57 \in Nat
      BY <1>1, <1>3, <1>6 DEF Unit
    <2>2. PICK x \in Nat : /\ (128 - w) * 57 = 128 * x + (((128 - w) * 57) % 128)
                          /\ ((128 - w) * 57) % 128 \in 0..127
      BY <2>1, Modulo
    <2>3. ((128 - w) * 57) % 128 # 0
      BY <1>1, <2>2
    <2>4. ((128 - v) * 57) % 128 = (((128 - w) * 57) % 128) - 1
      BY <1>1, <2>1, <2>2, <2>3
    <2> QED
      BY <1>1, <1>2, <2>1, <2>2, <2>4
  <1>7. CASE Core = 16
    <2>1. /\ v \in 0..127 /\ (v = w + 17 \/ v = w + 17 - 128)
          /\ Unit = 113 /\ (128 - w) * 113 \in Nat
      BY <1>1, <1>3, <1>7 DEF Unit
    <2>2. PICK x \in Nat : /\ (128 - w) * 113 = 128 * x + (((128 - w) * 113) % 128)
                          /\ ((128 - w) * 113) % 128 \in 0..127
      BY <2>1, Modulo
    <2>3. ((128 - w) * 113) % 128 # 0
      BY <1>1, <2>2
    <2>4. ((128 - v) * 113) % 128 = (((128 - w) * 113) % 128) - 1
      BY <1>1, <2>1, <2>2, <2>3
    <2> QED
      BY <1>1, <1>2, <2>1, <2>2, <2>4
  <1> QED
    BY <1>4, <1>5, <1>6, <1>7, Sizes

(* Counting a word up leads to one whose count is zero.                    *)
LEMMA WordsDescend ==
  ASSUME Core # 1
  PROVE  Descent(Bits, Stops, Counted, Steps, 127)
  <1>1. Bits = 0..127 /\ 0 \in Stops
    <2>1. 0 * Core + 0 = 0 /\ 0 \in 0..(Left - 1) /\ 0 \in 0..(Core - 1)
      BY Halves
    <2> QED
      BY <2>1, Numbers, Parts DEF Stops
  <1>2. ASSUME NEW w \in Bits
        PROVE  aobjn(w) \in Bits
    <2>1. w \in 0..127 /\ Words = 128 /\ Core \in Nat
      BY Numbers, Halves
    <2> QED
      BY <1>1, <2>1 DEF aobjn
  <1>3. Counted \in [Bits -> Bits]
    BY <1>2 DEF Counted
  <1>4. Steps \in [Bits -> 0..127]
    <2>1. \A w \in Bits : ((128 - w) * Unit) % 128 \in 0..127
      BY <1>1 DEF Unit
    <2> QED
      BY <2>1 DEF Steps
  <1>5. ASSUME NEW w \in Bits \ Stops
        PROVE  Steps[Counted[w]] < Steps[w]
    <2>1. w # 0 /\ aobjn(w) \in Bits
      BY <1>1, <1>2
    <2> QED
      BY <2>1, CountsDown DEF Steps, Counted
  <1> QED
    BY <1>3, <1>4, <1>5 DEF Descent

Cells == 0..(Core - 1)

(* The addresses of a block are well defined.                              *)
LEMMA AddressesAre ==
  ASSUME Core # 1
  PROVE  /\ Addresses \in [Bits -> Seq(Cells)]
         /\ \A w \in Bits :
              Addresses[w] = IF left(w) = 0 THEN <<>> ELSE <<right(w)>> \o Addresses[aobjn(w)]
  <1> DEFINE V == Seq(Cells)
      g == [p \in Bits \X V |-> <<right(p[1])>> \o p[2]]
      Is(f) == f = [iowd \in Bits |->
                      IF left(iowd) = 0 THEN <<>> ELSE <<right(iowd)>> \o f[aobjn(iowd)]]
  <1>1. Stepped(Bits, V, <<>>, g)
    <2>1. \A w \in Bits, v \in V : <<right(w)>> \o v \in V
      <3> TAKE w \in Bits, v \in V
      <3>1. right(w) \in Cells
        BY Halves DEF Cells
      <3> QED
        BY <3>1, ConcatProperties
    <2>2. <<>> \in V
      OBVIOUS
    <2> HIDE DEF V
    <2>3. \A p \in Bits \X V : <<right(p[1])>> \o p[2] \in V
      BY <2>1
    <2>4. g \in [Bits \X V -> V]
      BY <2>3
    <2> HIDE DEF g
    <2> QED
      BY <2>2, <2>4 DEF Stepped
  <1>2. Descent(Bits, Stops, Counted, Steps, 127)
    BY WordsDescend
  <1>3. PICK f : DefinedBy(Bits, Stops, Counted, V, <<>>, g, f)
    <2> HIDE DEF V, g
    <2> QED
      BY <1>1, <1>2, Recursion
  <1>4. f \in [Bits -> V] /\ Is(f)
    <2>1. f \in [Bits -> V]
      BY <1>3 DEF DefinedBy
    <2>2. ASSUME NEW w \in Bits
          PROVE  f[w] = IF left(w) = 0 THEN <<>> ELSE <<right(w)>> \o f[aobjn(w)]
      <3>1. Counted[w] = aobjn(w) /\ (w \in Stops <=> left(w) = 0) /\ aobjn(w) \in Bits
        BY <1>2 DEF Counted, Stops, Descent
      <3>2. f[w] = IF w \in Stops THEN <<>> ELSE g[<<w, f[Counted[w]]>>]
        BY <1>3 DEF DefinedBy
      <3>3. f[aobjn(w)] \in V
        BY <2>1, <3>1
      <3>4. g[<<w, f[aobjn(w)]>>] = <<right(w)>> \o f[aobjn(w)]
        BY <3>3
      <3> HIDE DEF g
      <3> QED
        BY <3>1, <3>2, <3>4
    <2> QED
      BY <2>1, <2>2
  <1>5. Addresses = CHOOSE h : Is(h)
    BY DEF Addresses, Bits
  <1>6. Is(Addresses)
    <2> HIDE DEF Is
    <2> QED
      BY <1>4, <1>5
  <1>7. ASSUME NEW w \in Bits
        PROVE  Addresses[w] = IF left(w) = 0 THEN <<>> ELSE <<right(w)>> \o Addresses[aobjn(w)]
    BY <1>6
  <1>8. \A w \in Bits : Addresses[w] \in V
    <2> DEFINE T == {w \in Bits : Addresses[w] \in V}
    <2>1. Bits \cap Stops \subseteq T
      <3>1. <<>> \in V
        OBVIOUS
      <3> QED
        BY <1>7, <3>1 DEF Stops
    <2>2. ASSUME NEW w \in Bits \ Stops, Counted[w] \in T
          PROVE  w \in T
      <3>1. left(w) # 0 /\ Counted[w] = aobjn(w)
        BY DEF Stops, Counted
      <3>2. Addresses[w] = <<right(w)>> \o Addresses[aobjn(w)]
        BY <1>7, <3>1
      <3>3. right(w) \in Cells /\ Addresses[aobjn(w)] \in V
        BY <2>2, <3>1, Halves DEF Cells
      <3>4. <<right(w)>> \in Seq(Cells)
        BY <3>3
      <3>5. <<right(w)>> \o Addresses[aobjn(w)] \in V
        BY <3>3, <3>4, ConcatProperties
      <3> QED
        BY <3>2, <3>5
    <2> HIDE DEF T
    <2>3. Bits \subseteq T
      BY <1>2, <2>1, <2>2, Ascent
    <2> QED
      BY <2>3 DEF T
  <1>9. Addresses = [iowd \in Bits |->
                      IF left(iowd) = 0 THEN <<>> ELSE <<right(iowd)>> \o Addresses[aobjn(iowd)]]
    BY <1>6
  <1> HIDE DEF Is
  <1>10. DOMAIN Addresses = Bits
    BY <1>9
  <1>11. Addresses \in [Bits -> V]
    <2>1. Addresses = [w \in Bits |-> Addresses[w]]
      BY <1>7, <1>9
    <2> HIDE DEF V
    <2> QED
      BY <1>8, <2>1
  <1> QED
    BY <1>7, <1>11

(* The count of a block, word by word.                                     *)
Walks(w, j) ==
  LET A == Addresses[w]
      n == Len(A)
  IN
  /\ j \in [0..n -> Bits] /\ j[0] = w /\ left(j[n]) = 0
  /\ \A k \in 1..n : left(j[k - 1]) # 0 /\ A[k] = right(j[k - 1]) /\ j[k] = aobjn(j[k - 1])

(* Along the addresses of a block the word is counted up.                  *)
LEMMA BlockWalks ==
  ASSUME Core # 1, NEW w \in Bits
  PROVE  \E j : Walks(w, j)
  <1> DEFINE T == {v \in Bits : \E j : Walks(v, j)}
  <1>1. Descent(Bits, Stops, Counted, Steps, 127)
    BY WordsDescend
  <1>2. Bits \cap Stops \subseteq T
    <2> SUFFICES ASSUME NEW v \in Bits, left(v) = 0
                 PROVE  \E j : Walks(v, j)
      BY DEF Stops
    <2>1. Addresses[v] = <<>>
      BY AddressesAre
    <2>2. PICK j : j = [k \in 0..0 |-> v]
      OBVIOUS
    <2>3. Walks(v, j)
      BY <2>1, <2>2 DEF Walks
    <2> QED
      BY <2>3
  <1>3. ASSUME NEW v \in Bits \ Stops, Counted[v] \in T
        PROVE  v \in T
    <2>1. left(v) # 0 /\ Counted[v] = aobjn(v) /\ aobjn(v) \in Bits
      BY <1>3 DEF Stops, Counted
    <2> DEFINE B == Addresses[aobjn(v)]
        A == Addresses[v]
        m == Len(B)
    <2>2. PICK j : Walks(aobjn(v), j)
      BY <1>3, <2>1
    <2>3. A = <<right(v)>> \o B /\ B \in Seq(Cells) /\ right(v) \in Cells
      BY <2>1, AddressesAre, Halves DEF Cells
    <2>4. m \in Nat /\ A \in Seq(Cells) /\ Len(A) = m + 1
          /\ A[1] = right(v) /\ \A k \in 1..m : A[k + 1] = B[k]
      <3>1. PICK t : t = <<right(v)>>
        OBVIOUS
      <3>2. t \in Seq(Cells) /\ Len(t) = 1 /\ t[1] = right(v) /\ m \in Nat
        BY <2>3, <3>1
      <3>3. OneBehind(Cells, t, B, 1, m)
        BY <2>3, <3>2, Joins
      <3> QED
        BY <2>3, <3>1, <3>2, <3>3 DEF OneBehind
    <2>5. /\ j \in [0..m -> Bits] /\ j[0] = aobjn(v) /\ left(j[m]) = 0
          /\ \A k \in 1..m : /\ left(j[k - 1]) # 0 /\ B[k] = right(j[k - 1])
                             /\ j[k] = aobjn(j[k - 1])
      BY <2>2 DEF Walks
    <2> HIDE DEF A, B, m
    <2> DEFINE i == [k \in 0..(m + 1) |-> IF k = 0 THEN v ELSE j[k - 1]]
    <2>6. i \in [0..(m + 1) -> Bits] /\ i[0] = v /\ \A k \in 0..m : i[k + 1] = j[k]
      BY <2>4, <2>5
    <2> HIDE DEF i
    <2>7. ASSUME NEW k \in 1..(m + 1)
          PROVE  left(i[k - 1]) # 0 /\ A[k] = right(i[k - 1]) /\ i[k] = aobjn(i[k - 1])
      <3>1. CASE k = 1
        BY <2>1, <2>4, <2>5, <2>6, <3>1
      <3>2. CASE k # 1
        <4>1. PICK l \in 1..m : k = l + 1
          <5>1. k - 1 \in 1..m /\ k = (k - 1) + 1
            BY <2>4, <3>2
          <5> QED
            BY <5>1
        <4>2. /\ left(j[l - 1]) # 0 /\ B[l] = right(j[l - 1]) /\ j[l] = aobjn(j[l - 1])
              /\ A[l + 1] = B[l]
          BY <2>4, <2>5
        <4>3. l \in 0..m /\ l - 1 \in 0..m /\ (l - 1) + 1 = l
          BY <2>4
        <4>4. i[l + 1] = j[l] /\ i[l] = j[l - 1]
          BY <2>6, <4>3
        <4> QED
          BY <4>1, <4>2, <4>3, <4>4
      <3> QED
        BY <3>1, <3>2
    <2>8. left(i[m + 1]) = 0
      BY <2>4, <2>5, <2>6
    <2>9. Walks(v, i)
      BY <2>4, <2>6, <2>7, <2>8 DEF Walks, A
    <2> QED
      BY <2>9
  <1> HIDE DEF T
  <1>4. Bits \subseteq T
    BY <1>1, <1>2, <1>3, Ascent
  <1> QED
    BY <1>4 DEF T

(* The loader goes from one state to another when it reads some words,     *)
(* whatever is left over behind each.                                      *)
Leads(h, ws) ==
  \A k \in 1..Len(ws) : \A x \in WordsRead :
    x.word = ws[k] => LoadWord(h[k - 1], x) = h[k]

Runs(l, ws, to) ==
  /\ ws \in Seq(Bits)
  /\ \E h \in [0..Len(ws) -> Loaders] : h[0] = l /\ h[Len(ws)] = to /\ Leads(h, ws)

(* A word.                                                                 *)
LEMMA RunsOne ==
  ASSUME NEW l \in Loaders, NEW to \in Loaders, NEW w \in Bits,
         \A x \in WordsRead : x.word = w => LoadWord(l, x) = to
  PROVE  Runs(l, <<w>>, to)
  <1>1. PICK ws : ws = <<w>>
    OBVIOUS
  <1>2. ws \in Seq(Bits) /\ Len(ws) = 1 /\ ws[1] = w
    BY <1>1
  <1>3. PICK h : h = [k \in 0..1 |-> IF k = 0 THEN l ELSE to]
    OBVIOUS
  <1>4. h \in [0..1 -> Loaders] /\ h[0] = l /\ h[1] = to
    BY <1>3
  <1>5. \A k \in 1..1 : \A x \in WordsRead : x.word = ws[k] => LoadWord(h[k - 1], x) = h[k]
    BY <1>2, <1>4
  <1> QED
    BY <1>1, <1>2, <1>4, <1>5 DEF Runs, Leads

(* No word.                                                                *)
LEMMA RunsNone ==
  ASSUME NEW l \in Loaders
  PROVE  Runs(l, <<>>, l)
  <1>1. PICK ws : ws = <<>>
    OBVIOUS
  <1>2. ws \in Seq(Bits) /\ Len(ws) = 0
    BY <1>1
  <1>3. PICK h : h = [k \in 0..0 |-> l]
    OBVIOUS
  <1>4. h \in [0..0 -> Loaders] /\ h[0] = l /\ 1..0 = {}
    BY <1>3
  <1> QED
    BY <1>1, <1>2, <1>4 DEF Runs, Leads

(* Some words and then others.                                             *)
LEMMA RunsBoth ==
  ASSUME NEW l, NEW s, NEW mid, Runs(l, s, mid), NEW t, NEW to, Runs(mid, t, to)
  PROVE  Runs(l, s \o t, to)
  <1> DEFINE m == Len(s)
      n == Len(t)
      u == s \o t
  <1>1. PICK h \in [0..m -> Loaders] : h[0] = l /\ h[m] = mid /\ Leads(h, s)
    BY DEF Runs
  <1>2. PICK i \in [0..n -> Loaders] : i[0] = mid /\ i[n] = to /\ Leads(i, t)
    BY DEF Runs
  <1>3. s \in Seq(Bits) /\ t \in Seq(Bits) /\ m \in Nat /\ n \in Nat
    BY DEF Runs
  <1>4. OneBehind(Bits, s, t, m, n)
    BY <1>3, Joins
  <1>5. /\ u \in Seq(Bits) /\ Len(u) = m + n /\ \A k \in 1..m : u[k] = s[k]
        /\ \A k \in 1..n : u[m + k] = t[k]
    BY <1>4 DEF OneBehind
  <1>6. /\ \A k \in 1..m : \A x \in WordsRead : x.word = s[k] => LoadWord(h[k - 1], x) = h[k]
        /\ \A k \in 1..n : \A x \in WordsRead : x.word = t[k] => LoadWord(i[k - 1], x) = i[k]
    BY <1>1, <1>2 DEF Leads
  <1> DEFINE g == [k \in 0..(m + n) |-> IF k <= m THEN h[k] ELSE i[k - m]]
  <1> HIDE DEF m, n, u
  <1>7. /\ g \in [0..(m + n) -> Loaders] /\ \A k \in 0..m : g[k] = h[k]
        /\ \A k \in 0..n : g[m + k] = i[k]
    <2>1. \A k \in 0..m : k \in 0..(m + n) /\ k <= m
      BY <1>3
    <2>2. \A k \in 0..n : m + k \in 0..(m + n) /\ (m + k) - m = k /\ (m + k <= m => k = 0 /\ m + k = m)
      BY <1>3
    <2>3. \A k \in 0..(m + n) : ~(k <= m) => k - m \in 0..n
      BY <1>3
    <2>4. \A k \in 0..(m + n) : k <= m => k \in 0..m
      BY <1>3
    <2>5. g \in [0..(m + n) -> Loaders]
      BY <2>3, <2>4
    <2>6. \A k \in 0..m : g[k] = h[k]
      BY <2>1
    <2>7. \A k \in 0..n : g[m + k] = i[k]
      BY <1>1, <1>2, <2>2
    <2> QED
      BY <2>5, <2>6, <2>7
  <1> HIDE DEF g
  <1>8. ASSUME NEW k \in 1..(m + n), NEW x \in WordsRead, x.word = u[k]
        PROVE  LoadWord(g[k - 1], x) = g[k]
    <2>1. CASE k <= m
      <3>1. k \in 1..m /\ k \in 0..m /\ k - 1 \in 0..m
        BY <1>3, <2>1
      <3>2. u[k] = s[k] /\ g[k] = h[k] /\ g[k - 1] = h[k - 1]
        BY <1>5, <1>7, <3>1
      <3> QED
        BY <1>6, <1>8, <3>1, <3>2
    <2>2. CASE ~(k <= m)
      <3>1. PICK j \in 1..n : k = m + j
        <4>1. k - m \in 1..n /\ k = m + (k - m)
          BY <1>3, <2>2
        <4> QED
          BY <4>1
      <3>2. j \in 0..n /\ j - 1 \in 0..n /\ k - 1 = m + (j - 1)
        BY <1>3, <3>1
      <3>3. u[k] = t[j] /\ g[k] = i[j] /\ g[k - 1] = i[j - 1]
        BY <1>5, <1>7, <3>1, <3>2
      <3> QED
        BY <1>6, <1>8, <3>3
    <2> QED
      BY <2>1, <2>2
  <1>9. g[0] = l /\ g[m + n] = to
    <2>1. 0 \in 0..m /\ n \in 0..n
      BY <1>3
    <2> QED
      BY <1>1, <1>2, <1>7, <2>1
  <1>10. Leads(g, u)
    BY <1>5, <1>8 DEF Leads
  <1> QED
    BY <1>5, <1>7, <1>9, <1>10 DEF Runs, u

(* So it goes when it reads them.                                          *)
LEMMA RunsLoad ==
  ASSUME NEW l, NEW ws, NEW to, Runs(l, ws, to),
         NEW rs \in Seq(WordsRead), Len(ws) <= Len(rs), \A k \in 1..Len(ws) : rs[k].word = ws[k],
         NEW g \in [0..Len(rs) -> Loaders], g[0] = l,
         \A k \in 1..Len(rs) : g[k] = LoadWord(g[k - 1], rs[k])
  PROVE  g[Len(ws)] = to
  <1> DEFINE n == Len(ws)
  <1>1. PICK h \in [0..n -> Loaders] : h[0] = l /\ h[n] = to /\ Leads(h, ws)
    BY DEF Runs
  <1>2. n \in Nat /\ Len(rs) \in Nat /\ n <= Len(rs)
    BY DEF Runs
  <1>3. \A k \in 1..n : \A x \in WordsRead : x.word = ws[k] => LoadWord(h[k - 1], x) = h[k]
    BY <1>1 DEF Leads
  <1> DEFINE T == {k \in Nat : k <= n => g[k] = h[k]}
  <1>4. 0 \in T
    BY <1>1
  <1>5. ASSUME NEW k \in Nat, k \in T
        PROVE  k + 1 \in T
    <2>1. SUFFICES ASSUME k + 1 <= n
                   PROVE  g[k + 1] = h[k + 1]
      OBVIOUS
    <2>2. k + 1 \in 1..n /\ k + 1 \in 1..Len(rs) /\ (k + 1) - 1 = k /\ k <= n
      BY <1>2, <2>1
    <2>3. g[k] = h[k]
      BY <1>5, <2>2
    <2>4. rs[k + 1] \in WordsRead /\ rs[k + 1].word = ws[k + 1]
      BY <2>2, ElementOfSeq
    <2>5. g[k + 1] = LoadWord(g[k], rs[k + 1])
      BY <2>2
    <2> HIDE DEF n
    <2>6. LoadWord(h[k], rs[k + 1]) = h[k + 1]
      BY <1>3, <2>2, <2>4
    <2> QED
      BY <2>3, <2>5, <2>6
  <1> HIDE DEF T
  <1>6. \A k \in Nat : k \in T
    BY <1>4, <1>5, Induction
  <1>7. g[n] = h[n]
    BY <1>2, <1>6 DEF T
  <1> QED
    BY <1>1, <1>7

(* A loader in a block.                                                    *)
Loading(l, at, w, c, m) ==
  [at |-> at, iowd |-> w, chk |-> c, symbols |-> l.symbols, mem |-> m, pc |-> l.pc,
   left |-> l.left]

(* It is one.                                                              *)
LEMMA LoadingIs ==
  ASSUME NEW l \in Loaders
  PROVE  /\ l = Loading(l, l.at, l.iowd, l.chk, l.mem)
         /\ \A at \in {"rim", "block", "data", "check"}, w \in Bits, c \in Bits, m \in Cores :
              Loading(l, at, w, c, m) \in Loaders
  BY DEF Loaders, Loading

(* What it expects behind a word, and core with the word in it.            *)
Expected(w) == IF left(w) = 0 THEN "check" ELSE "data"
Put(m, a, x) == [m EXCEPT ![a] = x]

(* A word of a block goes into core.                                       *)
LEMMA DataLoads ==
  ASSUME NEW l \in Loaders, ~l.symbols, NEW w \in Bits, NEW c \in Bits, NEW m \in Cores,
         NEW x \in WordsRead, aobjn(w) \in Bits
  PROVE  LoadWord(Loading(l, "data", w, c, m), x) =
           Loading(l, Expected(aobjn(w)), aobjn(w), Checked(c, x.word),
                   Put(m, right(w), x.word))
  <1> DEFINE d == Loading(l, "data", w, c, m)
  <1>1. /\ d.at = "data" /\ d.iowd = w /\ d.chk = c /\ d.mem = m /\ ~d.symbols
        /\ d.pc = l.pc /\ d.left = l.left /\ d.symbols = l.symbols
    BY DEF Loading
  <1>2. LoadWord(d, x) =
          [d EXCEPT !.chk = Checked(d.chk, x.word), !.iowd = aobjn(d.iowd),
                    !.mem = IF d.symbols THEN d.mem ELSE [d.mem EXCEPT ![right(d.iowd)] = x.word],
                    !.at = IF left(aobjn(d.iowd)) = 0 THEN "check" ELSE "data"]
    BY <1>1 DEF LoadWord
  <1>3. LoadWord(d, x) =
          [d EXCEPT !.chk = Checked(c, x.word), !.iowd = aobjn(w),
                    !.mem = [m EXCEPT ![right(w)] = x.word],
                    !.at = IF left(aobjn(w)) = 0 THEN "check" ELSE "data"]
    BY <1>1, <1>2
  <1> QED
    BY <1>3 DEF Loading, Expected, Put

(* Core, with the words at some addresses as they were in another core.    *)
Over(old, new, A, k) ==
  [a \in Cells |-> IF \E i \in 1..k : A[i] = a THEN new[a] ELSE old[a]]

(* One address more.                                                       *)
LEMMA OverMore ==
  ASSUME NEW old \in Cores, NEW new \in Cores, NEW A \in Seq(Cells), NEW k \in 1..Len(A)
  PROVE  /\ Over(old, new, A, k - 1) \in Cores /\ Over(old, new, A, k) \in Cores
         /\ Over(old, new, A, k) = Put(Over(old, new, A, k - 1), A[k], new[A[k]])
         /\ Over(old, new, A, 0) = old
  <1>1. A[k] \in Cells
    BY ElementOfSeq
  <1>2. Cores = [Cells -> Bits]
    BY DEF Cores, Cells
  <1>3. ASSUME NEW n
        PROVE  Over(old, new, A, n) \in Cores
    BY <1>2 DEF Over
  <1>4. \A a \in Cells : (\E i \in 1..k : A[i] = a) <=> (\E i \in 1..(k - 1) : A[i] = a) \/ A[k] = a
    <2> TAKE a \in Cells
    <2>1. \A i \in 1..k : i \in 1..(k - 1) \/ i = k
      OBVIOUS
    <2>2. \A i \in 1..(k - 1) : i \in 1..k
      OBVIOUS
    <2>3. k \in 1..k
      OBVIOUS
    <2> QED
      BY <2>1, <2>2, <2>3
  <1>5. ASSUME NEW a \in Cells
        PROVE  Over(old, new, A, k)[a] = [Over(old, new, A, k - 1) EXCEPT ![A[k]] = new[A[k]]][a]
    BY <1>1, <1>4 DEF Over
  <1>6. Over(old, new, A, k) = [Over(old, new, A, k - 1) EXCEPT ![A[k]] = new[A[k]]]
    <2> DEFINE p == Over(old, new, A, k)
        o == [Over(old, new, A, k - 1) EXCEPT ![A[k]] = new[A[k]]]
    <2>1. p \in [Cells -> Bits] /\ DOMAIN p = Cells
      BY <1>2, <1>3
    <2>2. DOMAIN o = Cells
      BY DEF Over
    <2>3. p = [a \in Cells |-> p[a]] /\ o = [a \in Cells |-> o[a]]
      BY <2>1, <2>2 DEF Over
    <2> HIDE DEF p, o
    <2> QED
      BY <1>5, <2>3 DEF p, o
  <1>7. Over(old, new, A, 0) = old
    <2>1. 1..0 = {}
      OBVIOUS
    <2> QED
      BY <1>2, <2>1 DEF Over
  <1> QED
    BY <1>3, <1>6, <1>7 DEF Put

(* The words of a block.                                                   *)
Data(m, w) == [i \in DOMAIN Addresses[w] |-> m[Addresses[w][i]]]

(* The data of a block are words, as many as it has addresses.             *)
LEMMA DataIs ==
  ASSUME Core # 1, NEW w \in Bits, NEW m \in Cores
  PROVE  /\ Addresses[w] \in Seq(Cells) /\ Data(m, w) \in Seq(Bits)
         /\ Len(Data(m, w)) = Len(Addresses[w])
         /\ \A k \in 1..Len(Addresses[w]) : Data(m, w)[k] = m[Addresses[w][k]]
  <1>1. PICK A : A = Addresses[w]
    OBVIOUS
  <1>2. A \in Seq(Cells)
    BY <1>1, AddressesAre
  <1>3. PICK n \in Nat : n = Len(A) /\ DOMAIN A = 1..n
    BY <1>2, LenProperties
  <1>4. \A k \in 1..n : m[A[k]] \in Bits
    <2>1. \A k \in 1..n : A[k] \in Cells
      BY <1>2, <1>3, ElementOfSeq
    <2> QED
      BY <2>1 DEF Cores, Cells
  <1>5. Data(m, w) = [k \in 1..n |-> m[A[k]]]
    BY <1>1, <1>3 DEF Data
  <1>6. Data(m, w) \in Seq(Bits) /\ Len(Data(m, w)) = n
    BY <1>3, <1>4, <1>5
  <1> QED
    BY <1>1, <1>2, <1>3, <1>5, <1>6

(* The data of a block, loaded, are in core, and the checksum is their     *)
(* sum.                                                                    *)
LEMMA DataRuns ==
  ASSUME Core # 1, NEW w \in Bits, left(w) # 0, NEW m \in Cores,
         NEW l \in Loaders, l.at = "data", l.iowd = w, ~l.symbols
  PROVE  \E v \in Bits :
           Runs(l, Data(m, w), Loading(l, "check", v, FoldLeft(Checked, l.chk, Data(m, w)),
                                       Over(l.mem, m, Addresses[w], Len(Addresses[w]))))
  <1> DEFINE A == Addresses[w]
      D == Data(m, w)
      n == Len(A)
  <1>1. /\ A \in Seq(Cells) /\ D \in Seq(Bits) /\ Len(D) = n /\ n \in Nat
        /\ \A k \in 1..n : D[k] = m[A[k]] /\ A[k] \in Cells
    BY DataIs, ElementOfSeq, LenProperties
  <1>2. PICK j : Walks(w, j)
    BY BlockWalks
  <1>3. /\ j \in [0..n -> Bits] /\ j[0] = w /\ left(j[n]) = 0
        /\ \A k \in 1..n : left(j[k - 1]) # 0 /\ A[k] = right(j[k - 1]) /\ j[k] = aobjn(j[k - 1])
    BY <1>2 DEF Walks
  <1>4. l.chk \in Bits /\ l.mem \in Cores
    BY DEF Loaders
  <1>5. PICK c \in [0..n -> Bits] :
          /\ c[0] = l.chk /\ c[n] = FoldLeft(Checked, l.chk, D)
          /\ \A k \in 1..n : c[k] = Checked(c[k - 1], D[k])
    <2> HIDE DEF A, D, n
    <2>1. \E c \in [0..Len(D) -> Bits] :
            /\ c[0] = l.chk /\ c[Len(D)] = FoldLeft(Checked, l.chk, D)
            /\ \A k \in 1..Len(D) : c[k] = Checked(c[k - 1], D[k])
      BY <1>1, <1>4, ChecksFold
    <2> QED
      BY <1>1, <2>1
  <1> DEFINE M(k) == Over(l.mem, m, A, k)
      h == [k \in 0..n |-> Loading(l, IF k = n THEN "check" ELSE "data", j[k], c[k], M(k))]
  <1> HIDE DEF A, D, n
  <1>6. n # 0
    BY <1>3
  <1>7. /\ M(0) = l.mem /\ \A k \in 0..n : M(k) \in Cores
        /\ \A k \in 1..n : M(k) = Put(M(k - 1), A[k], m[A[k]])
    <2>1. 1 \in 1..n /\ \A k \in 0..n : k = 0 \/ k \in 1..n
      BY <1>1, <1>6
    <2>2. ASSUME NEW k \in 1..n
          PROVE  /\ M(k) \in Cores /\ M(0) = l.mem
                 /\ M(k) = Put(M(k - 1), A[k], m[A[k]])
      <3>1. k \in 1..Len(A)
        BY DEF n
      <3>2. PICK o : o = l.mem
        OBVIOUS
      <3>3. o \in Cores
        BY <1>4, <3>2
      <3>4. /\ Over(o, m, A, k) \in Cores /\ Over(o, m, A, 0) = o
            /\ Over(o, m, A, k) = Put(Over(o, m, A, k - 1), A[k], m[A[k]])
        BY <1>1, <3>1, <3>3, OverMore
      <3> QED
        BY <3>2, <3>4
    <2> HIDE DEF M
    <2> QED
      BY <1>4, <2>1, <2>2
  <1> HIDE DEF M
  <1>8. h \in [0..n -> Loaders]
    <2>1. ASSUME NEW k \in 0..n
          PROVE  Loading(l, IF k = n THEN "check" ELSE "data", j[k], c[k], M(k)) \in Loaders
      BY <1>3, <1>5, <1>7, LoadingIs
    <2> QED
      BY <2>1
  <1>9. h[0] = l
    <2>1. 0 \in 0..n /\ 0 # n
      BY <1>1, <1>6
    <2>2. h[0] = Loading(l, "data", w, l.chk, l.mem)
      BY <1>3, <1>5, <1>7, <2>1
    <2> QED
      BY <2>2, LoadingIs
  <1>10. h[n] = Loading(l, "check", j[n], FoldLeft(Checked, l.chk, D), M(n))
    <2>1. n \in 0..n
      BY <1>1
    <2> QED
      BY <1>5, <2>1
  <1>11. ASSUME NEW k \in 1..n, NEW x \in WordsRead, x.word = D[k]
         PROVE  LoadWord(h[k - 1], x) = h[k]
    <2>1. k \in 0..n /\ k - 1 \in 0..n /\ k - 1 # n
      BY <1>1
    <2>2. h[k - 1] = Loading(l, "data", j[k - 1], c[k - 1], M(k - 1))
      BY <2>1
    <2>3. j[k - 1] \in Bits /\ c[k - 1] \in Bits /\ M(k - 1) \in Cores /\ j[k] \in Bits
      BY <1>3, <1>5, <1>7, <2>1
    <2>4. j[k] = aobjn(j[k - 1]) /\ A[k] = right(j[k - 1])
      BY <1>3
    <2>5. LoadWord(h[k - 1], x) =
            Loading(l, Expected(aobjn(j[k - 1])), aobjn(j[k - 1]), Checked(c[k - 1], x.word),
                    Put(M(k - 1), right(j[k - 1]), x.word))
      <3>1. PICK p \in Bits, q \in Bits, o \in Cores : p = j[k - 1] /\ q = c[k - 1] /\ o = M(k - 1)
        BY <2>3
      <3>2. aobjn(p) \in Bits /\ h[k - 1] = Loading(l, "data", p, q, o)
        BY <2>2, <2>3, <2>4, <3>1
      <3>3. LoadWord(Loading(l, "data", p, q, o), x) =
              Loading(l, Expected(aobjn(p)), aobjn(p), Checked(q, x.word),
                      Put(o, right(p), x.word))
        BY <3>1, <3>2, DataLoads
      <3> QED
        BY <3>1, <3>2, <3>3
    <2>6. c[k] = Checked(c[k - 1], x.word) /\ M(k) = Put(M(k - 1), A[k], x.word)
      BY <1>1, <1>5, <1>7, <1>11
    <2>7. left(j[k]) = 0 <=> k = n
      <3>1. CASE k = n
        BY <1>3, <3>1
      <3>2. CASE k # n
        <4>1. k + 1 \in 1..n /\ (k + 1) - 1 = k
          BY <1>1, <3>2
        <4> QED
          BY <1>3, <3>2, <4>1
      <3> QED
        BY <3>1, <3>2
    <2>8. h[k] = Loading(l, IF k = n THEN "check" ELSE "data", j[k], c[k], M(k))
      BY <2>1
    <2> HIDE DEF h
    <2> QED
      BY <2>4, <2>5, <2>6, <2>7, <2>8 DEF Expected
  <1>12. j[n] \in Bits
    BY <1>1, <1>3
  <1> HIDE DEF h
  <1>13. Runs(l, D, h[n])
    BY <1>1, <1>8, <1>9, <1>11 DEF Runs, Leads
  <1> QED
    BY <1>10, <1>12, <1>13 DEF A, D, n, M

(* Where a block ends.                                                     *)
LEMMA BlockEnds ==
  ASSUME NEW m \in Cores, NEW a \in First..(Core - 1)
  PROVE  BlockEnd(m, a) \in (a + 1)..Core /\ BlockEnd(m, a) <= a + MAXBLK
  <1> DEFINE S == {Core, a + MAXBLK} \cup
                  {z \in (a + 1)..(Core - 2) : z + 1 - a < MAXBLK /\ m[z] = 0 /\ m[z + 1] = 0}
  <1>1. Core \in Nat /\ First \in 1..Core /\ MAXBLK \in Nat /\ MAXBLK >= 1
    <2>1. Left \div 2 \in Nat
      BY Sizes
    <2> QED
      BY <2>1, SblkAssumption
  <1>2. S \subseteq Nat /\ Core \in S /\ a + MAXBLK \in S /\ \A z \in S : z >= a + 1
    BY <1>1
  <1> HIDE DEF S
  <1>3. PICK n \in S : \A z \in S : n <= z
    BY <1>2, Least
  <1>4. Min(S) \in S /\ \A z \in S : Min(S) <= z
    BY <1>3 DEF Min
  <1>5. BlockEnd(m, a) = Min(S)
    BY DEF BlockEnd, S
  <1>6. PICK z : z = Min(S)
    OBVIOUS
  <1>7. z \in Nat /\ z >= a + 1 /\ z <= Core /\ z <= a + MAXBLK
    BY <1>2, <1>4, <1>6
  <1>8. a \in Nat
    BY <1>1
  <1> QED
    BY <1>1, <1>5, <1>6, <1>7, <1>8

(* The word a block begins with.                                           *)
Iowd(a, e) == (Left - (e - a)) * Core + a

(* The first word of a block is negative, and is no mark of symbols.       *)
LEMMA IowdIs ==
  ASSUME NEW a \in First..(Core - 1), NEW e \in (a + 1)..Core, e <= a + MAXBLK
  PROVE  /\ Core # 1 /\ a \in Cells /\ a # 0 /\ Iowd(a, e) \in Bits
         /\ left(Iowd(a, e)) = Left - (e - a) /\ right(Iowd(a, e)) = a
         /\ Left - (e - a) \in 1..(Left - 1) /\ Iowd(a, e) >= Words \div 2
  <1>1. /\ Core \in Nat /\ First \in Nat /\ First >= 1 /\ First <= Core
        /\ MAXBLK \in Nat /\ MAXBLK <= Left \div 2
    BY Sizes, SblkAssumption
  <1>2. a \in Nat /\ a >= 1 /\ a < Core /\ e \in Nat /\ a < e /\ e - a \in 1..(Left \div 2)
    BY <1>1, Sizes
  <1>3. PICK x : x = Left - (e - a)
    OBVIOUS
  <1>4. x \in 0..(Left - 1) /\ x \in 1..(Left - 1) /\ x * Core >= 64
    BY <1>2, <1>3, Sizes
  <1>5. a \in 0..(Core - 1)
    BY <1>1, <1>2
  <1>6. Iowd(a, e) = x * Core + a
    BY <1>3 DEF Iowd
  <1>7. Iowd(a, e) \in Bits /\ left(Iowd(a, e)) = x /\ right(Iowd(a, e)) = a
    BY <1>4, <1>5, <1>6, Parts
  <1>8. Iowd(a, e) >= Words \div 2
    <2>1. x * Core \in Nat /\ Words = 128
      BY <1>1, <1>4, Numbers, Halves
    <2> QED
      BY <1>2, <1>4, <1>6, <2>1
  <1> QED
    BY <1>1, <1>2, <1>3, <1>4, <1>5, <1>7, <1>8 DEF Cells

(* A block holds the words from its beginning to its end.                  *)
LEMMA BlockHolds ==
  ASSUME NEW a \in First..(Core - 1), NEW e \in (a + 1)..Core, e <= a + MAXBLK,
         NEW b \in a..(e - 1)
  PROVE  \E i \in 1..Len(Addresses[Iowd(a, e)]) : Addresses[Iowd(a, e)][i] = b
  <1> DEFINE w == Iowd(a, e)
      A == Addresses[w]
      n == Len(A)
      x == Left - (e - a)
  <1>1. /\ Core # 1 /\ a \in Cells /\ w \in Bits /\ left(w) = x /\ right(w) = a
        /\ x \in 1..(Left - 1)
    BY IowdIs
  <1>2. PICK j : Walks(w, j)
    BY <1>1, BlockWalks
  <1>3. /\ j \in [0..n -> Bits] /\ j[0] = w /\ left(j[n]) = 0
        /\ \A k \in 1..n : left(j[k - 1]) # 0 /\ A[k] = right(j[k - 1]) /\ j[k] = aobjn(j[k - 1])
    BY <1>2 DEF Walks
  <1>4. n \in Nat
    BY <1>1, DataIs, LenProperties, AddressesAre
  <1>5. /\ Core \in Nat /\ Left \in Nat /\ Words = 128 /\ Left * Core = 128 /\ Bits = 0..127
        /\ a \in Nat /\ e \in Nat /\ e <= Core /\ a < Core /\ e - a \in Nat
    BY <1>1, Halves, Numbers DEF Cells
  <1> HIDE DEF A, n
  <1> DEFINE T == {k \in Nat : k < e - a => k <= n /\ j[k] = (x + k) * Core + (a + k)}
  <1>6. ASSUME NEW k \in Nat, k < e - a
        PROVE  /\ x + k \in 1..(Left - 1) /\ x + k \in 0..(Left - 1) /\ a + k \in 0..(Core - 1)
               /\ (x + k) * Core + (a + k) \in Bits
               /\ left((x + k) * Core + (a + k)) = x + k
               /\ right((x + k) * Core + (a + k)) = a + k
    <2>1. x + k \in 1..(Left - 1) /\ x + k \in 0..(Left - 1) /\ a + k \in 0..(Core - 1)
      BY <1>1, <1>5, <1>6
    <2>2. PICK p \in 0..(Left - 1), q \in 0..(Core - 1) : p = x + k /\ q = a + k
      BY <2>1
    <2>3. p * Core + q \in Bits /\ left(p * Core + q) = p /\ right(p * Core + q) = q
      BY <2>2, Parts
    <2> QED
      BY <2>1, <2>2, <2>3
  <1>7. 0 \in T
    <2>1. w = x * Core + a /\ x + 0 = x /\ a + 0 = a
      BY <1>1, <1>5 DEF Iowd
    <2> QED
      BY <1>3, <1>4, <2>1
  <1>8. ASSUME NEW k \in Nat, k \in T
        PROVE  k + 1 \in T
    <2>1. SUFFICES ASSUME k + 1 < e - a
                   PROVE  k + 1 <= n /\ j[k + 1] = (x + (k + 1)) * Core + (a + (k + 1))
      OBVIOUS
    <2>2. k < e - a
      BY <1>5, <2>1
    <2>3. k <= n /\ j[k] = (x + k) * Core + (a + k)
      BY <1>8, <2>2
    <2>4. left(j[k]) = x + k /\ x + k # 0 /\ j[k] \in Bits
      BY <1>6, <2>2, <2>3
    <2>5. k # n
      BY <1>3, <2>4
    <2>6. k + 1 \in 1..n /\ (k + 1) - 1 = k
      BY <1>4, <2>3, <2>5
    <2>7. j[k + 1] = aobjn(j[k])
      BY <1>3, <2>6
    <2>8. PICK y : y = (x + (k + 1)) * Core + (a + (k + 1))
      OBVIOUS
    <2>9. y \in Bits
      BY <1>6, <2>1, <2>8
    <2>10. y = j[k] + Core + 1
      <3>1. \A p \in Nat : (p + 1) * Core = p * Core + Core /\ p * Core \in Nat
        <4>1. \A p \in Nat, c \in Nat : (p + 1) * c = p * c + c /\ p * c \in Nat
          OBVIOUS
        <4> QED
          BY <1>5, <4>1
      <3>2. x + k \in Nat /\ x + (k + 1) = (x + k) + 1
        BY <1>1
      <3> QED
        BY <1>5, <2>3, <2>8, <3>1, <3>2
    <2>11. aobjn(j[k]) = y
      BY <1>5, <2>4, <2>9, <2>10 DEF aobjn
    <2> QED
      BY <2>6, <2>7, <2>8, <2>11
  <1> HIDE DEF T
  <1>9. \A k \in Nat : k \in T
    BY <1>7, <1>8, Induction
  <1>10. PICK k \in Nat : k < e - a /\ b = a + k
    <2>1. b - a \in Nat /\ b - a < e - a /\ b = a + (b - a)
      BY <1>5
    <2> QED
      BY <2>1
  <1>11. k <= n /\ j[k] = (x + k) * Core + (a + k)
    BY <1>9, <1>10 DEF T
  <1>12. left(j[k]) # 0 /\ right(j[k]) = b
    BY <1>6, <1>10, <1>11
  <1>13. k + 1 \in 1..n /\ (k + 1) - 1 = k
    BY <1>3, <1>4, <1>11, <1>12
  <1>14. A[k + 1] = b
    BY <1>3, <1>12, <1>13
  <1> QED
    BY <1>13, <1>14 DEF A, n

(* A block that is loaded leaves the loader where another begins.          *)
LEMMA BlockRuns ==
  ASSUME NEW m \in Cores, NEW a \in First..(Core - 1), NEW e \in (a + 1)..Core, e <= a + MAXBLK,
         NEW l \in Loaders, l.at = "block"
  PROVE  \E to \in Loaders :
           /\ Runs(l, Block(m, a, e), to) /\ to.at = "block"
           /\ \A b \in Cells : to.mem[b] \in {l.mem[b], m[b]}
           /\ \A b \in a..(e - 1) : to.mem[b] = m[b]
  <1> DEFINE w == Iowd(a, e)
      D == Data(m, w)
      A == Addresses[w]
      l1 == Loading([l EXCEPT !.symbols = FALSE], "data", w, w, l.mem)
      chk == FoldLeft(Checked, w, D)
  <1>1. /\ Core # 1 /\ a \in Cells /\ a # 0 /\ w \in Bits /\ left(w) # 0 /\ right(w) = a
        /\ w >= Words \div 2
    <2>1. Left - (e - a) \in 1..(Left - 1)
      BY IowdIs
    <2>2. Left - (e - a) # 0
      BY <2>1, Sizes
    <2> QED
      BY <2>2, IowdIs
  <1>2. l.mem \in Cores
    BY DEF Loaders
  <1>3. [l EXCEPT !.symbols = FALSE] \in Loaders
    BY DEF Loaders
  <1>4. l1 \in Loaders /\ l1.at = "data" /\ l1.iowd = w /\ ~l1.symbols /\ l1.chk = w /\ l1.mem = l.mem
    <2>1. l1 \in Loaders
      BY <1>1, <1>2, <1>3, LoadingIs
    <2> QED
      BY <2>1 DEF Loading, Loaders
  <1>5. ASSUME NEW x \in WordsRead, x.word = w
        PROVE  LoadWord(l, x) = l1
    <2>1. ~(w < Words \div 2)
      BY <1>1, Numbers
    <2>2. LoadWord(l, x) = [l EXCEPT !.at = "data", !.iowd = w, !.chk = w, !.symbols = right(w) = 0]
      BY <1>1, <1>5, <2>1 DEF LoadWord
    <2>3. (right(w) = 0) = FALSE
      BY <1>1
    <2> QED
      BY <2>2, <2>3 DEF Loading, Loaders
  <1> HIDE DEF w
  <1>6. Runs(l, <<w>>, l1)
    <2> HIDE DEF l1
    <2> QED
      BY <1>1, <1>4, <1>5, RunsOne
  <1>7. PICK v \in Bits : Runs(l1, D, Loading(l1, "check", v, chk, Over(l.mem, m, A, Len(A))))
    <2> HIDE DEF l1
    <2>1. \E v \in Bits : Runs(l1, D, Loading(l1, "check", v, FoldLeft(Checked, l1.chk, D),
                                              Over(l1.mem, m, A, Len(A))))
      BY <1>1, <1>4, DataRuns
    <2> QED
      BY <1>4, <2>1
  <1>8. chk \in Bits /\ A \in Seq(Cells) /\ D \in Seq(Bits)
    <2>1. A \in Seq(Cells) /\ D \in Seq(Bits)
      BY <1>1, DataIs
    <2> HIDE DEF D
    <2>2. PICK c \in [0..Len(D) -> Bits] : c[Len(D)] = FoldLeft(Checked, w, D)
      BY <1>1, <2>1, ChecksFold
    <2>3. Len(D) \in 0..Len(D)
      BY <2>1, LenProperties
    <2> QED
      BY <2>1, <2>2, <2>3
  <1> HIDE DEF A, D, chk, l1
  <1> DEFINE M == Over(l.mem, m, A, Len(A))
      l2 == Loading(l1, "check", v, chk, M)
      to == Loading(l1, "block", v, chk, M)
  <1>9. M \in Cores
    BY <1>2 DEF Over, Cores, Cells
  <1>10. l2 \in Loaders /\ to \in Loaders
    BY <1>4, <1>8, <1>9, LoadingIs
  <1>11. ASSUME NEW x \in WordsRead, x.word = chk
         PROVE  LoadWord(l2, x) = to
    <2>1. l2.at = "check" /\ l2.chk = chk
      BY DEF Loading
    <2>2. LoadWord(l2, x) = [l2 EXCEPT !.at = "block"]
      BY <1>11, <2>1 DEF LoadWord
    <2> QED
      BY <2>2 DEF Loading
  <1>12. Runs(l2, <<chk>>, to)
    <2> HIDE DEF l2, to
    <2> QED
      BY <1>8, <1>10, <1>11, RunsOne
  <1>13. Runs(l, <<w>> \o D \o <<chk>>, to)
    <2>1. Runs(l1, D, l2)
      BY <1>7
    <2> HIDE DEF l2, to
    <2>2. Runs(l, <<w>> \o D, l2)
      BY <1>6, <2>1, RunsBoth
    <2> QED
      BY <1>12, <2>2, RunsBoth
  <1>14. Block(m, a, e) = <<w>> \o D \o <<chk>>
    BY DEF Block, w, D, chk, Data, Iowd
  <1>15. to.at = "block" /\ to.mem = M
    BY DEF Loading
  <1>16. \A b \in Cells : M[b] \in {l.mem[b], m[b]}
    BY DEF Over
  <1>17. ASSUME NEW b \in a..(e - 1)
         PROVE  M[b] = m[b]
    <2>1. \E i \in 1..Len(A) : A[i] = b
      BY BlockHolds DEF A, w
    <2>2. b \in Cells
      <3>1. \A i \in 1..Len(A) : A[i] \in Cells
        BY <1>8, ElementOfSeq
      <3> QED
        BY <2>1, <3>1
    <2> QED
      BY <2>1, <2>2 DEF Over
  <1> HIDE DEF to, M
  <1> QED
    BY <1>10, <1>13, <1>14, <1>15, <1>16, <1>17

(***************************************************************************)
(* Files                                                                   *)
(***************************************************************************)

(* The blocks of a dump from an address on, and where the next begins.     *)
Following(m, B) ==
  [a \in First..Core |->
     CASE a = Core -> <<>>
       [] a < Core /\ m[a] = 0 -> B[a + 1]
       [] OTHER -> Block(m, a, BlockEnd(m, a)) \o B[BlockEnd(m, a)]]
BlocksOf(m) == CHOOSE B : B = Following(m, B)
NextBlock(m) ==
  [a \in First..Core |->
     IF a = Core THEN Core ELSE IF m[a] = 0 THEN a + 1 ELSE BlockEnd(m, a)]

(* Every step leaves less of core.                                         *)
LEMMA BlocksDescend ==
  ASSUME NEW m \in Cores
  PROVE  Descent(First..Core, {Core}, NextBlock(m), [a \in First..Core |-> Core - a], Core)
  <1>1. Core \in Nat /\ First \in 1..Core
    BY SblkAssumption
  <1>2. ASSUME NEW a \in First..Core, a # Core
        PROVE  NextBlock(m)[a] \in (a + 1)..Core
    <2>1. a \in First..(Core - 1) /\ a \in Nat /\ a + 1 \in (a + 1)..Core
      BY <1>1, <1>2
    <2>2. BlockEnd(m, a) \in (a + 1)..Core
      BY <2>1, BlockEnds
    <2> QED
      BY <1>2, <2>1, <2>2 DEF NextBlock
  <1>3. ASSUME NEW a \in First..Core
        PROVE  NextBlock(m)[a] \in First..Core
    <2>1. CASE a = Core
      BY <1>1, <2>1 DEF NextBlock
    <2>2. CASE a # Core
      BY <1>1, <1>2, <2>2
    <2> QED
      BY <2>1, <2>2
  <1>4. NextBlock(m) \in [First..Core -> First..Core]
    BY <1>3 DEF NextBlock
  <1> DEFINE s == [a \in First..Core |-> Core - a]
  <1>5. s \in [First..Core -> 0..Core]
    BY <1>1
  <1>6. ASSUME NEW a \in First..Core, a # Core
        PROVE  s[NextBlock(m)[a]] < s[a]
    <2>1. PICK z : z = NextBlock(m)[a]
      OBVIOUS
    <2>2. z \in (a + 1)..Core /\ z \in First..Core
      BY <1>2, <1>3, <1>6, <2>1
    <2>3. s[z] = Core - z /\ s[a] = Core - a
      BY <2>2
    <2> QED
      BY <1>1, <2>1, <2>2, <2>3
  <1> HIDE DEF s
  <1>7. Descent(First..Core, {Core}, NextBlock(m), s, Core)
    BY <1>1, <1>4, <1>5, <1>6 DEF Descent
  <1> QED
    BY <1>7 DEF s

(* Block is a sequence of words.                                           *)
LEMMA BlockIs ==
  ASSUME NEW m \in Cores, NEW a \in First..(Core - 1)
  PROVE  /\ BlockEnd(m, a) \in First..Core /\ BlockEnd(m, a) \in (a + 1)..Core
         /\ BlockEnd(m, a) <= a + MAXBLK
         /\ Block(m, a, BlockEnd(m, a)) \in Seq(Bits)
  <1>1. BlockEnd(m, a) \in (a + 1)..Core /\ BlockEnd(m, a) <= a + MAXBLK
    BY BlockEnds
  <1>2. BlockEnd(m, a) \in First..Core
    BY <1>1, SblkAssumption
  <1>3. PICK l \in Loaders : l.at = "block"
    <2>1. PICK z : z = [a0 \in Cells |-> 0]
      OBVIOUS
    <2>2. z \in Cores /\ 0 \in Bits /\ 0 \in 0..(Core - 1) /\ <<>> \in Short
      BY <2>1, Numbers, Halves DEF Cores, Cells, Short
    <2> DEFINE l == [at |-> "block", iowd |-> 0, chk |-> 0, symbols |-> FALSE, mem |-> z,
                     pc |-> 0, left |-> <<>>]
    <2>3. l \in Loaders /\ l.at = "block"
      BY <2>2 DEF Loaders
    <2> QED
      BY <2>3
  <1>4. PICK to : Runs(l, Block(m, a, BlockEnd(m, a)), to)
    BY <1>1, <1>3, BlockRuns
  <1> QED
    BY <1>1, <1>2, <1>4 DEF Runs

(* The blocks are well defined.                                            *)
LEMMA BlocksAre ==
  ASSUME NEW m \in Cores
  PROVE  /\ BlocksOf(m)[Core] = <<>>
         /\ \A a \in First..(Core - 1) :
              BlocksOf(m)[a] =
                IF m[a] = 0 THEN BlocksOf(m)[a + 1]
                ELSE Block(m, a, BlockEnd(m, a)) \o BlocksOf(m)[BlockEnd(m, a)]
  <1> DEFINE D == First..Core
      V == Seq(Bits)
      next == NextBlock(m)
      g == [p \in D \X V |-> IF p[1] = Core \/ m[p[1]] = 0 THEN p[2]
                             ELSE Block(m, p[1], BlockEnd(m, p[1])) \o p[2]]
  <1>1. Core \in Nat /\ First \in 1..Core
    BY SblkAssumption
  <1>2. Stepped(D, V, <<>>, g)
    <2>1. <<>> \in V
      OBVIOUS
    <2>2. ASSUME NEW a \in D, NEW v \in V
          PROVE  (IF a = Core \/ m[a] = 0 THEN v ELSE Block(m, a, BlockEnd(m, a)) \o v) \in V
      <3>1. CASE a = Core \/ m[a] = 0
        BY <3>1
      <3>2. CASE ~(a = Core \/ m[a] = 0)
        <4>1. a \in First..(Core - 1)
          BY <1>1, <3>2
        <4>2. Block(m, a, BlockEnd(m, a)) \in Seq(Bits)
          BY <4>1, BlockIs
        <4>3. Block(m, a, BlockEnd(m, a)) \o v \in Seq(Bits)
          BY <4>2, ConcatProperties
        <4> QED
          BY <3>2, <4>3
      <3> QED
        BY <3>1, <3>2
    <2> HIDE DEF V, D
    <2>3. g \in [D \X V -> V]
      BY <2>2
    <2> HIDE DEF g
    <2> QED
      BY <2>1, <2>3 DEF Stepped
  <1>3. PICK f : DefinedBy(D, {Core}, next, V, <<>>, g, f)
    <2>1. Descent(D, {Core}, next, [a \in D |-> Core - a], Core)
      BY BlocksDescend
    <2> DEFINE s == [a \in D |-> Core - a]
    <2> HIDE DEF D, V, g, next, s
    <2> QED
      BY <1>2, <2>1, Recursion DEF s
  <1>4. f \in [D -> V] /\ \A a \in D : f[a] = IF a = Core THEN <<>> ELSE g[<<a, f[next[a]]>>]
    BY <1>3 DEF DefinedBy
  <1>5. ASSUME NEW a \in D
        PROVE  f[a] = CASE a = Core -> <<>>
                        [] a < Core /\ m[a] = 0 -> f[a + 1]
                        [] OTHER -> Block(m, a, BlockEnd(m, a)) \o f[BlockEnd(m, a)]
    <2>1. CASE a = Core
      <3> HIDE DEF g, next, V
      <3>1. f[a] = <<>>
        BY <1>4, <2>1
      <3>2. ~(a < Core)
        BY <1>1, <2>1
      <3> QED
        BY <2>1, <3>1, <3>2
    <2>2. CASE a # Core
      <3>1. a \in First..(Core - 1) /\ a < Core /\ a + 1 \in D
        BY <1>1, <2>2
      <3>2. BlockEnd(m, a) \in D
        BY <3>1, BlockIs
      <3>3. next[a] = (IF m[a] = 0 THEN a + 1 ELSE BlockEnd(m, a)) /\ next[a] \in D
        BY <2>2, <3>1, <3>2 DEF NextBlock
      <3>4. f[next[a]] \in V /\ f[a] = g[<<a, f[next[a]]>>]
        BY <1>4, <2>2, <3>3
      <3>5. g[<<a, f[next[a]]>>] = IF a = Core \/ m[a] = 0 THEN f[next[a]]
                                   ELSE Block(m, a, BlockEnd(m, a)) \o f[next[a]]
        <4>1. PICK v \in V : v = f[next[a]]
          BY <3>4
        <4> QED
          BY <4>1
      <3> HIDE DEF g, next
      <3> QED
        BY <2>2, <3>1, <3>3, <3>4, <3>5
    <2> QED
      BY <2>1, <2>2
  <1>6. f = Following(m, f)
    BY <1>4, <1>5 DEF Following
  <1>7. BlocksOf(m) = Following(m, BlocksOf(m))
    <2>1. \E B : B = Following(m, B)
      BY <1>6
    <2> QED
      BY <2>1 DEF BlocksOf
  <1>8. ASSUME NEW a \in D
        PROVE  BlocksOf(m)[a] =
                 CASE a = Core -> <<>>
                   [] a < Core /\ m[a] = 0 -> BlocksOf(m)[a + 1]
                   [] OTHER -> Block(m, a, BlockEnd(m, a)) \o BlocksOf(m)[BlockEnd(m, a)]
    <2>1. PICK B : B = BlocksOf(m)
      OBVIOUS
    <2>2. B = Following(m, B)
      BY <1>7, <2>1
    <2>3. B[a] = CASE a = Core -> <<>>
                   [] a < Core /\ m[a] = 0 -> B[a + 1]
                   [] OTHER -> Block(m, a, BlockEnd(m, a)) \o B[BlockEnd(m, a)]
      BY <2>2 DEF Following
    <2> QED
      BY <2>1, <2>3
  <1>9. BlocksOf(m)[Core] = <<>>
    <2>1. Core \in D /\ ~(Core < Core)
      BY <1>1
    <2> QED
      BY <1>8, <2>1
  <1>10. ASSUME NEW a \in First..(Core - 1)
         PROVE  BlocksOf(m)[a] =
                  IF m[a] = 0 THEN BlocksOf(m)[a + 1]
                  ELSE Block(m, a, BlockEnd(m, a)) \o BlocksOf(m)[BlockEnd(m, a)]
    <2>1. a \in D /\ a # Core /\ a < Core
      BY <1>1
    <2> QED
      BY <1>8, <2>1
  <1> QED
    BY <1>9, <1>10

(* What a loader makes of a core that was dumped, from an address on.      *)
Brings(l, m, a, to) ==
  /\ to \in Loaders /\ to.at = "block"
  /\ \A b \in Cells : to.mem[b] \in {l.mem[b], m[b]}
  /\ \A b \in a..(Core - 1) : m[b] # 0 => to.mem[b] = m[b]

(* Blocks that are loaded bring back what is not zero.                     *)
LEMMA BlocksRun ==
  ASSUME NEW m \in Cores, NEW a \in First..Core, NEW l \in Loaders, l.at = "block"
  PROVE  \E to : Runs(l, BlocksOf(m)[a], to) /\ Brings(l, m, a, to)
  <1> DEFINE D == First..Core
      Brought(b) == \A k \in Loaders : k.at = "block" =>
                    \E to : Runs(k, BlocksOf(m)[b], to) /\ Brings(k, m, b, to)
      T == {b \in D : Brought(b)}
      s == [b \in D |-> Core - b]
  <1>1. Core \in Nat /\ First \in 1..Core
    BY SblkAssumption
  <1>2. Descent(D, {Core}, NextBlock(m), s, Core)
    BY BlocksDescend
  <1>3. D \cap {Core} \subseteq T
    <2>1. SUFFICES ASSUME NEW k \in Loaders, k.at = "block"
                   PROVE  \E to : Runs(k, BlocksOf(m)[Core], to) /\ Brings(k, m, Core, to)
      BY <1>1
    <2>2. Runs(k, BlocksOf(m)[Core], k)
      BY BlocksAre, RunsNone
    <2>3. Brings(k, m, Core, k)
      <3>1. Core..(Core - 1) = {}
        BY <1>1
      <3> QED
        BY <2>1, <3>1 DEF Brings
    <2> QED
      BY <2>2, <2>3
  <1>4. ASSUME NEW b \in D \ {Core}, NextBlock(m)[b] \in T
        PROVE  b \in T
    <2>1. b \in First..(Core - 1)
      BY <1>1
    <2>2. SUFFICES ASSUME NEW k \in Loaders, k.at = "block"
                   PROVE  \E to : Runs(k, BlocksOf(m)[b], to) /\ Brings(k, m, b, to)
      OBVIOUS
    <2>3. CASE m[b] = 0
      <3>1. NextBlock(m)[b] = b + 1
        BY <2>3 DEF NextBlock
      <3>2. PICK to : Runs(k, BlocksOf(m)[b + 1], to) /\ Brings(k, m, b + 1, to)
        BY <1>4, <2>2, <3>1
      <3>3. BlocksOf(m)[b] = BlocksOf(m)[b + 1]
        BY <2>1, <2>3, BlocksAre
      <3>4. \A c \in b..(Core - 1) : c = b \/ c \in (b + 1)..(Core - 1)
        BY <1>1, <2>1
      <3>5. Brings(k, m, b, to)
        BY <2>3, <3>2, <3>4 DEF Brings
      <3> QED
        BY <3>2, <3>3, <3>5
    <2>4. CASE m[b] # 0
      <3> DEFINE e == BlockEnd(m, b)
      <3>1. NextBlock(m)[b] = e
        BY <2>4 DEF NextBlock
      <3>2. e \in First..Core /\ e \in (b + 1)..Core /\ e <= b + MAXBLK
        BY <2>1, BlockIs
      <3> HIDE DEF e
      <3>3. PICK mid \in Loaders :
              /\ Runs(k, Block(m, b, e), mid) /\ mid.at = "block"
              /\ \A c \in Cells : mid.mem[c] \in {k.mem[c], m[c]}
              /\ \A c \in b..(e - 1) : mid.mem[c] = m[c]
        BY <2>1, <2>2, <3>2, BlockRuns
      <3>4. PICK to : Runs(mid, BlocksOf(m)[e], to) /\ Brings(mid, m, e, to)
        BY <1>4, <3>1, <3>3
      <3>5. BlocksOf(m)[b] = Block(m, b, e) \o BlocksOf(m)[e]
        BY <2>1, <2>4, BlocksAre DEF e
      <3>6. Runs(k, BlocksOf(m)[b], to)
        BY <3>3, <3>4, <3>5, RunsBoth
      <3>7. \A c \in b..(Core - 1) : c \in Cells /\ (c \in b..(e - 1) \/ c \in e..(Core - 1))
        BY <1>1, <2>1, <3>2 DEF Cells
      <3>8. Brings(k, m, b, to)
        BY <3>3, <3>4, <3>7 DEF Brings
      <3> QED
        BY <3>6, <3>8
    <2> QED
      BY <2>3, <2>4
  <1> HIDE DEF T, D, s
  <1>5. D \subseteq T
    BY <1>2, <1>3, <1>4, Ascent
  <1> QED
    BY <1>5 DEF T, D

(* The words that end a file.                                              *)
LEMMA Ends ==
  /\ RimEnd \in Bits /\ RimEnd % 2 = 1
  /\ \A start \in 0..(Core - 1) :
       /\ JRST + start \in Bits /\ ~(JRST + start >= Words \div 2) /\ JRST + start < Words \div 2
       /\ right(JRST + start) = start /\ JRST + start - right(JRST + start) = JRST
  /\ JRST \in 0..48 /\ Core \in 1..16 /\ JRST + Core <= 64
  <1>1. Words = 128 /\ Bits = 0..127
    BY Numbers
  <1>2. \A start \in 0..(Core - 1) : right(JRST + start) = start
    <2> TAKE start \in 0..(Core - 1)
    <2>1. 3 \in 0..(Left - 1)
      BY Sizes
    <2> QED
      BY <2>1, Parts DEF JRST
  <1>3. JRST \in 0..48 /\ Core \in 1..16 /\ JRST + Core <= 64
    BY Sizes DEF JRST
  <1>4. RimEnd \in Bits /\ RimEnd % 2 = 1
    BY <1>1, Sizes DEF RimEnd, HALT
  <1> QED
    BY <1>1, <1>2, <1>3, <1>4

(* The words of a dump.                                                    *)
LEMMA DumpedIs ==
  ASSUME NEW m \in Cores, NEW start \in 0..(Core - 1)
  PROVE  /\ Dumped(m, start) = <<RimEnd>> \o BlocksOf(m)[First] \o <<JRST + start, JRST + start>>
         /\ BlocksOf(m)[First] \in Seq(Bits) /\ Dumped(m, start) \in Seq(Bits)
  <1>1. Dumped(m, start) = <<RimEnd>> \o BlocksOf(m)[First] \o <<JRST + start, JRST + start>>
    BY DEF Dumped, BlocksOf, Following
  <1>2. BlocksOf(m)[First] \in Seq(Bits)
    <2>1. PICK l \in Loaders : l.at = "block"
      <3>1. PICK z : z = [a0 \in Cells |-> 0]
        OBVIOUS
      <3>2. z \in Cores /\ 0 \in Bits /\ 0 \in 0..(Core - 1) /\ <<>> \in Short
        BY <3>1, Numbers, Halves DEF Cores, Cells, Short
      <3> DEFINE l == [at |-> "block", iowd |-> 0, chk |-> 0, symbols |-> FALSE, mem |-> z,
                       pc |-> 0, left |-> <<>>]
      <3>3. l \in Loaders /\ l.at = "block"
        BY <3>2 DEF Loaders
      <3> QED
        BY <3>3
    <2>2. First \in First..Core
      BY SblkAssumption
    <2> QED
      BY <2>1, <2>2, BlocksRun DEF Runs
  <1>3. <<RimEnd>> \in Seq(Bits) /\ <<JRST + start, JRST + start>> \in Seq(Bits)
    BY Ends
  <1>4. <<RimEnd>> \o BlocksOf(m)[First] \in Seq(Bits)
    BY <1>2, <1>3, ConcatProperties
  <1>5. (<<RimEnd>> \o BlocksOf(m)[First]) \o <<JRST + start, JRST + start>> \in Seq(Bits)
    BY <1>3, <1>4, ConcatProperties
  <1> QED
    BY <1>1, <1>2, <1>5

(* A loader that begins.                                                   *)
Fresh(m) ==
  [at |-> "rim", iowd |-> 0, chk |-> 0, symbols |-> FALSE, mem |-> m, pc |-> 0, left |-> <<>>]

(* It is a loader.                                                         *)
LEMMA FreshIs ==
  ASSUME NEW m \in Cores
  PROVE  Fresh(m) \in Loaders
  <1>1. 0 \in Bits /\ 0 \in 0..(Core - 1) /\ <<>> \in Short
    BY Numbers, Halves DEF Short
  <1> QED
    BY <1>1 DEF Fresh, Loaders

(* What is loaded from a dump, over any core.                              *)
LEMMA DumpLoads ==
  ASSUME NEW m \in Cores, NEW old \in Cores, NEW start \in 0..(Core - 1),
         NEW r, Shows(r, Dumped(m, start), <<>>)
  PROVE  LET l == FoldLeft(LoadWord, Fresh(old), r.words) IN
         /\ l \in Loaders /\ l.at = "done" /\ l.pc = start
         /\ \A b \in Cells : l.mem[b] \in {old[b], m[b]}
         /\ \A b \in First..(Core - 1) : m[b] # 0 => l.mem[b] = m[b]
  <1> DEFINE W == Dumped(m, start)
      B == BlocksOf(m)[First]
      J == JRST + start
      n == Len(W)
      P == <<RimEnd>> \o B
      k == Len(P)
      rs == r.words
  <1>1. /\ W = P \o <<J, J>> /\ B \in Seq(Bits) /\ W \in Seq(Bits) /\ J \in Bits
        /\ <<RimEnd>> \in Seq(Bits) /\ P \in Seq(Bits) /\ <<J, J>> \in Seq(Bits)
    <2>1. <<RimEnd>> \in Seq(Bits) /\ J \in Bits
      BY Ends
    <2>2. <<J, J>> \in Seq(Bits)
      BY <2>1
    <2>3. B \in Seq(Bits) /\ W \in Seq(Bits) /\ W = P \o <<J, J>>
      BY DumpedIs
    <2>4. P \in Seq(Bits)
      BY <2>1, <2>3, ConcatProperties
    <2> QED
      BY <2>1, <2>2, <2>3, <2>4
  <1>2. /\ k \in Nat /\ n = k + 2 /\ \A i \in 1..k : W[i] = P[i]
        /\ W[k + 1] = J /\ W[k + 2] = J
    <2>1. PICK t : t = <<J, J>>
      OBVIOUS
    <2>2. t \in Seq(Bits) /\ Len(t) = 2 /\ t[1] = J /\ t[2] = J
      BY <1>1, <2>1
    <2>3. P \in Seq(Bits) /\ k \in Nat
      BY <1>1, LenProperties
    <2> HIDE DEF P, J, W
    <2>4. OneBehind(Bits, P, t, k, 2)
      BY <2>2, <2>3, Joins
    <2>5. 1 \in 1..2 /\ 2 \in 1..2
      OBVIOUS
    <2>6. P \o t = W
      BY <1>1, <2>1
    <2> QED
      BY <2>2, <2>3, <2>4, <2>5, <2>6 DEF OneBehind
  <1>3. /\ rs \in Seq(WordsRead) /\ Len(rs) = n /\ \A i \in 1..n : rs[i].word = W[i]
    BY DEF Shows, Readers
  <1>4. Fresh(old) \in Loaders
    BY FreshIs
  <1> HIDE DEF W, B, J, n, k, rs
  <1>5. PICK g \in [0..Len(rs) -> Loaders] :
          /\ g[0] = Fresh(old) /\ g[Len(rs)] = FoldLeft(LoadWord, Fresh(old), rs)
          /\ \A i \in 1..Len(rs) : g[i] = LoadWord(g[i - 1], rs[i])
    BY <1>3, <1>4, LoadsFold
  <1> DEFINE l0 == [Fresh(old) EXCEPT !.at = "block"]
  <1>6. l0 \in Loaders /\ l0.at = "block" /\ l0.mem = old
    BY <1>4 DEF Loaders, Fresh
  <1>7. Runs(Fresh(old), <<RimEnd>>, l0)
    <2>1. \A x \in WordsRead : x.word = RimEnd => LoadWord(Fresh(old), x) = l0
      BY DEF LoadWord, Fresh
    <2> HIDE DEF l0
    <2> QED
      BY <1>4, <1>6, <2>1, Ends, RunsOne
  <1> HIDE DEF l0
  <1>8. PICK to : Runs(l0, B, to) /\ Brings(l0, m, First, to)
    <2>1. First \in First..Core
      BY SblkAssumption
    <2> QED
      BY <1>6, <2>1, BlocksRun DEF B
  <1>9. Runs(Fresh(old), P, to)
    BY <1>7, <1>8, RunsBoth
  <1> HIDE DEF P
  <1>10. g[k] = to
    <2>1. Len(P) <= Len(rs) /\ \A i \in 1..Len(P) : rs[i].word = P[i]
      <3>1. \A i \in 1..k : i \in 1..n
        BY <1>2
      <3>2. \A i \in 1..k : rs[i].word = P[i]
        BY <1>2, <1>3, <3>1
      <3>3. k <= n
        BY <1>2
      <3> QED
        BY <1>3, <3>2, <3>3 DEF k
    <2>2. g[Len(P)] = to
      BY <1>3, <1>5, <1>9, <2>1, RunsLoad
    <2> QED
      BY <2>2 DEF k
  <1>11. k + 1 \in 1..n /\ k + 2 \in 1..n /\ (k + 1) - 1 = k /\ (k + 2) - 1 = k + 1
    BY <1>2
  <1>12. /\ rs[k + 1] \in WordsRead /\ rs[k + 1].word = J /\ g[k + 1] = LoadWord(to, rs[k + 1])
         /\ g[k + 2] = LoadWord(g[k + 1], rs[k + 2])
    <2>1. rs[k + 1] \in WordsRead
      BY <1>3, <1>11, ElementOfSeq
    <2> QED
      BY <1>2, <1>3, <1>5, <1>10, <1>11, <2>1
  <1>13. to \in Loaders /\ to.at = "block"
    BY <1>8 DEF Brings
  <1>14. g[k + 1] = [to EXCEPT !.at = "done", !.pc = start, !.left = rs[k + 1].left]
    <2>1. /\ ~(J >= Words \div 2) /\ J < Words \div 2 /\ right(J) = start
          /\ J - right(J) = JRST
      <3>1. PICK j : j = JRST + start
        OBVIOUS
      <3>a. right(j) = start /\ j \in Bits
        BY <3>1, Ends
      <3>b. ~(j >= Words \div 2) /\ j < Words \div 2
        BY <3>1, Ends
      <3>c. JRST \in 0..48 /\ Core \in 1..16 /\ JRST + Core <= 64
        BY Ends
      <3>d. j - right(j) = JRST
        BY <3>1, <3>a, <3>c
      <3>2. ~(j >= Words \div 2) /\ j < Words \div 2 /\ right(j) = start /\ j - right(j) = JRST
        BY <3>a, <3>b, <3>d
      <3>3. J = j
        BY <3>1 DEF J
      <3> QED
        BY <3>2, <3>3
    <2>2. LoadWord(to, rs[k + 1]) = [to EXCEPT !.at = "done", !.pc = right(J), !.left = rs[k + 1].left]
      BY <1>12, <1>13, <2>1 DEF LoadWord
    <2> QED
      BY <1>12, <2>1, <2>2
  <1>15. g[k + 1].at = "done" /\ g[k + 1].pc = start /\ g[k + 1].mem = to.mem
    BY <1>13, <1>14 DEF Loaders
  <1>16. g[k + 2] = g[k + 1]
    BY <1>12, <1>15 DEF LoadWord
  <1>17. FoldLeft(LoadWord, Fresh(old), rs) = g[k + 1] /\ g[k + 1] \in Loaders
    <2>1. k + 1 \in 0..n
      BY <1>2
    <2> QED
      BY <1>2, <1>3, <1>5, <1>16, <2>1
  <1> QED
    BY <1>6, <1>8, <1>15, <1>17 DEF Brings, rs

(* Whoever has written a byte, the first byte stays first.                 *)
Headed(s, x) == s \in Writers /\ s.out # <<>> /\ s.out[1] = x

(* So it does behind a flush and behind a word.                            *)
LEMMA HeadStays ==
  ASSUME NEW s, NEW x, Headed(s, x)
  PROVE  /\ Headed(flush(s), x)
         /\ \A w \in Bits : Headed(writewits(s, w), x)
  <1>1. ASSUME NEW t, Headed(t, x), NEW y \in Bytes, NEW p \in Pending
        PROVE  /\ Headed([t EXCEPT !.prev = p], x)
               /\ Headed([t EXCEPT !.out = Append(t.out, y)], x)
               /\ Headed([prev |-> p, out |-> Append(t.out, y)], x)
    <2>1. t \in Writers /\ t.out \in Seq(Bytes) /\ t.out # <<>> /\ t.out[1] = x
      BY <1>1 DEF Headed, Writers
    <2> DEFINE u == Append(t.out, y)
    <2>2. u \in Seq(Bytes) /\ Len(u) = Len(t.out) + 1 /\ \A i \in 1..Len(t.out) : u[i] = t.out[i]
      BY <2>1, AppendProperties
    <2>3. Len(t.out) \in Nat \ {0}
      BY <2>1, LenProperties, EmptySeq
    <2>4. u[1] = x /\ u # <<>>
      BY <2>1, <2>2, <2>3
    <2>5. ASSUME NEW v \in Seq(Bytes), v # <<>>, v[1] = x, NEW q \in Pending
          PROVE  Headed([prev |-> q, out |-> v], x)
      BY <2>5 DEF Headed, Writers
    <2>6. /\ t.prev \in Pending
          /\ [t EXCEPT !.prev = p] = [prev |-> p, out |-> t.out]
          /\ [t EXCEPT !.out = Append(t.out, y)] = [prev |-> t.prev, out |-> Append(t.out, y)]
      BY <2>1 DEF Writers
    <2>7. Headed([prev |-> p, out |-> t.out], x)
      BY <2>1, <2>5
    <2>8. Headed([prev |-> p, out |-> u], x) /\ Headed([prev |-> t.prev, out |-> u], x)
      <3> HIDE DEF u
      <3> QED
        BY <2>2, <2>4, <2>5, <2>6
    <2> QED
      BY <2>6, <2>7, <2>8
  <1>2. None \in Pending /\ Cr \in Pending /\ Rub \in Pending
    BY DEF Pending
  <1>3. ASSUME NEW t, Headed(t, x)
        PROVE  Headed(flush(t), x)
    <2> DEFINE y == CASE t.prev = Cr -> <<CrAlone>> [] t.prev = Rub -> <<RubAlone>> [] OTHER -> <<>>
        u == t.out \o y
    <2>1. y \in Seq(Bytes) /\ t \in Writers /\ t.out \in Seq(Bytes) /\ t.out # <<>> /\ t.out[1] = x
      BY <1>3, SomeBytes DEF Headed, Writers
    <2>2. flush(t) = [prev |-> None, out |-> u]
      BY DEF flush
    <2> HIDE DEF y
    <2>3. Len(t.out) \in Nat \ {0} /\ Len(y) \in Nat
      BY <2>1, LenProperties, EmptySeq
    <2>4. /\ u \in Seq(Bytes) /\ Len(u) = Len(t.out) + Len(y)
          /\ \A i \in 1..(Len(t.out) + Len(y)) :
               u[i] = IF i <= Len(t.out) THEN t.out[i] ELSE y[i - Len(t.out)]
      BY <2>1, ConcatProperties
    <2>5. u[1] = x /\ u # <<>>
      <3>1. 1 \in 1..(Len(t.out) + Len(y)) /\ 1 <= Len(t.out) /\ Len(u) # 0
        BY <2>3, <2>4
      <3> QED
        BY <2>1, <2>4, <3>1
    <2> HIDE DEF u
    <2> QED
      BY <1>2, <2>2, <2>4, <2>5 DEF Headed, Writers
  <1>4. ASSUME NEW t, Headed(t, x), NEW b \in Characters
        PROVE  Headed(Char(t, b), x)
    <2>1. ASSUME NEW u, Headed(u, x)
          PROVE  Headed(Alone(u, b), x)
      <3>1. (IF b = Lf THEN Cr ELSE b) \in Bytes
        BY SomeBytes
      <3> QED
        BY <1>1, <1>2, <2>1, <3>1 DEF Alone
    <2>2. Headed(Alone(flush(t), b), x)
      BY <1>3, <1>4, <2>1
    <2>3. AfterRub(b) \in Bytes /\ Lf \in Bytes
      BY SomeBytes
    <2> QED
      BY <1>1, <1>2, <1>4, <2>2, <2>3 DEF Char
  <1>5. ASSUME NEW w \in Bits
        PROVE  Headed(writewits(s, w), x)
    <2>1. w \div (2 * Chars) \in Characters /\ (w \div 2) % Chars \in Characters
      BY Numbers
    <2>2. Headed(asciiword(s, w), x)
      BY <1>4, <2>1 DEF asciiword
    <2>3. Binary + w \in Bytes
      BY SomeBytes
    <2>4. Headed(flush(s), x)
      BY <1>3
    <2>5. Headed(binword(s, w), x)
      <3>1. PICK t : t = flush(s)
        OBVIOUS
      <3>2. Headed([t EXCEPT !.out = Append(t.out, Binary + w)], x)
        BY <1>1, <1>2, <2>3, <2>4, <3>1
      <3> QED
        BY <3>1, <3>2 DEF binword
    <2> QED
      BY <2>2, <2>5 DEF writewits
  <1> QED
    BY <1>3, <1>5

(* A file of words begins with the first, when that is one of its own kind. *)
LEMMA WrittenBegins ==
  ASSUME NEW words \in Seq(Bits), words # <<>>, words[1] % 2 = 1
  PROVE  /\ Written(words) \in Seq(Bytes) /\ Written(words) # <<>>
         /\ Written(words)[1] = Binary + words[1]
  <1> DEFINE b == [prev |-> None, out |-> <<>>]
      n == Len(words)
      x == Binary + words[1]
  <1>1. b \in Writers /\ n \in Nat \ {0} /\ b.prev = None /\ b.out = <<>>
    BY LenProperties, EmptySeq DEF Writers, Pending
  <1>2. PICK h \in [0..n -> Writers] :
          /\ h[0] = b /\ h[n] = FoldLeft(writewits, b, words)
          /\ \A k \in 1..n : h[k] = writewits(h[k - 1], words[k])
    <2> HIDE DEF b
    <2> QED
      BY <1>1, WritesFold
  <1>3. \A k \in 1..n : words[k] \in Bits
    BY ElementOfSeq
  <1>4. Headed(h[1], x)
    <2>1. 1 \in 1..n /\ 1 - 1 = 0
      BY <1>1
    <2>2. h[1] = writewits(b, words[1]) /\ h[1] \in Writers
      <3> HIDE DEF b
      <3> QED
        BY <1>1, <1>2, <2>1
    <2>3. flush(b) = [prev |-> None, out |-> <<>>]
      <3>1. ~(b.prev = Cr) /\ ~(b.prev = Rub)
        BY <1>1, Numbers
      <3>2. <<>> \o <<>> = <<>>
        OBVIOUS
      <3> HIDE DEF b
      <3> QED
        BY <1>1, <3>1, <3>2 DEF flush
    <2>4. h[1] = [prev |-> None, out |-> <<x>>]
      <3>1. Append(<<>>, x) = <<x>>
        OBVIOUS
      <3> HIDE DEF b
      <3> QED
        BY <2>2, <2>3, <3>1 DEF writewits, binword
    <2>5. <<x>> # <<>> /\ <<x>>[1] = x
      OBVIOUS
    <2> QED
      BY <2>2, <2>4, <2>5 DEF Headed
  <1> DEFINE T == {k \in Nat : k + 1 <= n => Headed(h[k + 1], x)}
  <1>5. 0 \in T
    BY <1>4
  <1>6. ASSUME NEW k \in Nat, k \in T
        PROVE  k + 1 \in T
    <2>1. SUFFICES ASSUME k + 2 <= n
                   PROVE  Headed(h[k + 2], x)
      OBVIOUS
    <2>2. k + 2 \in 1..n /\ (k + 2) - 1 = k + 1 /\ k + 1 <= n
      BY <1>1, <2>1
    <2>3. Headed(h[k + 1], x)
      BY <1>6, <2>2
    <2>4. h[k + 2] = writewits(h[k + 1], words[k + 2]) /\ words[k + 2] \in Bits
      BY <1>2, <1>3, <2>2
    <2> HIDE DEF x
    <2> QED
      BY <2>3, <2>4, HeadStays
  <1> HIDE DEF T
  <1>7. \A k \in Nat : k \in T
    BY <1>5, <1>6, Induction
  <1>8. Headed(h[n], x)
    <2>1. n - 1 \in Nat /\ (n - 1) + 1 = n
      BY <1>1
    <2> QED
      BY <1>7, <2>1 DEF T
  <1>9. Headed(flush(h[n]), x)
    <2> HIDE DEF x
    <2> QED
      BY <1>8, HeadStays
  <1>10. Written(words) = flush(h[n]).out
    BY <1>2 DEF Written
  <1> QED
    BY <1>9, <1>10 DEF Headed, Writers

-----------------------------------------------------------------------------
(* Loading, whatever the reader has left over.                             *)

(* A reader that begins.                                                   *)
LEMMA ReaderIs ==
  ASSUME NEW q \in Short
  PROVE  Reader(q) \in Readers /\ Reader(q).words = <<>> /\ Reader(q).part = q /\ ~Reader(q).error
  <1>1. <<>> \in Seq(WordsRead)
    OBVIOUS
  <1> QED
    BY <1>1 DEF Reader, Readers

(* What is read of a file.                                                 *)
LEMMA FileReads ==
  ASSUME NEW bytes \in Seq(Bytes), NEW q \in Short
  PROVE  Read(bytes, q) \in Readers
  <1> DEFINE r == FoldLeft(readbyte, Reader(q), bytes)
      n == Len(bytes)
  <1>1. r \in Readers
    <2>1. n \in Nat /\ Reader(q) \in Readers
      BY ReaderIs, LenProperties
    <2>2. PICK h \in [0..n -> Readers] :
            /\ h[0] = Reader(q) /\ h[n] = r
            /\ \A k \in 1..n : h[k] = readbyte(h[k - 1], bytes[k])
      BY <2>1, ReadsFold
    <2>3. n \in 0..n
      BY <2>1
    <2> QED
      BY <2>2, <2>3
  <1>2. Read(bytes, q) = IF r.part = <<>> \/ r.error THEN r
                         ELSE Full([r EXCEPT !.part = r.part \o <<Rub>>])
    BY DEF Read, Reader
  <1> HIDE DEF r
  <1>3. r.part \o <<Rub>> \in Seq(Characters) /\ Len(r.part \o <<Rub>>) <= 3
    <2>1. r.part \in Seq(Characters) /\ Len(r.part) <= 1
      BY <1>1 DEF Readers, Short
    <2>2. <<Rub>> \in Seq(Characters) /\ Len(<<Rub>>) = 1
      BY SomeBytes
    <2>3. Len(r.part) \in Nat
      BY <2>1, LenProperties
    <2> QED
      BY <2>1, <2>2, <2>3, ConcatProperties
  <1>4. Full([r EXCEPT !.part = r.part \o <<Rub>>]) \in Readers
    BY <1>1, <1>3, FullReads
  <1> QED
    BY <1>1, <1>2, <1>4

(* A reader that has half a word stops at a word of its own kind.          *)
LEMMA ReadStops ==
  ASSUME NEW bytes \in Seq(Bytes), bytes # <<>>, bytes[1] >= Binary, NEW q \in Short, q # <<>>
  PROVE  Read(bytes, q).words = <<>>
  <1> DEFINE n == Len(bytes)
      Stuck(r) == r.error /\ r.words = <<>>
  <1>1. n \in Nat \ {0} /\ Reader(q) \in Readers
    BY ReaderIs, LenProperties, EmptySeq
  <1>2. PICK h \in [0..n -> Readers] :
          /\ h[0] = Reader(q) /\ h[n] = FoldLeft(readbyte, Reader(q), bytes)
          /\ \A k \in 1..n : h[k] = readbyte(h[k - 1], bytes[k])
    BY <1>1, ReadsFold
  <1>3. Stuck(h[1])
    <2>1. 1 \in 1..n /\ 1 - 1 = 0
      BY <1>1
    <2>2. bytes[1] \in Bytes
      BY <2>1, ElementOfSeq
    <2>3. ~(bytes[1] < Binary)
      <3>1. PICK x : x = bytes[1]
        OBVIOUS
      <3>2. x \in 0..143 /\ x >= 16
        BY <2>2, <3>1, Numbers
      <3> QED
        BY <3>1, <3>2, Numbers
    <2>4. readbyte(Reader(q), bytes[1]) = [Reader(q) EXCEPT !.error = TRUE]
      BY <2>3, ReaderIs DEF readbyte
    <2>5. ASSUME NEW s \in Readers
          PROVE  /\ [s EXCEPT !.error = TRUE].error
                 /\ [s EXCEPT !.error = TRUE].words = s.words
      BY DEF Readers
    <2>6. h[1] = [Reader(q) EXCEPT !.error = TRUE]
      BY <1>2, <2>1, <2>4
    <2> QED
      BY <2>5, <2>6, ReaderIs
  <1> DEFINE T == {k \in Nat : k + 1 <= n => Stuck(h[k + 1])}
  <1>4. 0 \in T
    BY <1>3
  <1>5. ASSUME NEW k \in Nat, k \in T
        PROVE  k + 1 \in T
    <2>1. SUFFICES ASSUME k + 2 <= n
                   PROVE  Stuck(h[k + 2])
      OBVIOUS
    <2>2. k + 2 \in 1..n /\ (k + 2) - 1 = k + 1 /\ k + 1 <= n
      BY <1>1, <2>1
    <2>3. Stuck(h[k + 1])
      BY <1>5, <2>2
    <2>4. h[k + 2] = readbyte(h[k + 1], bytes[k + 2])
      BY <1>2, <2>2
    <2> QED
      BY <2>3, <2>4 DEF readbyte
  <1> HIDE DEF T
  <1>6. \A k \in Nat : k \in T
    BY <1>4, <1>5, Induction
  <1>7. Stuck(h[n])
    <2>1. n - 1 \in Nat /\ (n - 1) + 1 = n
      BY <1>1
    <2>2. n - 1 \in T
      BY <1>6, <2>1
    <2>3. (n - 1) + 1 <= n => Stuck(h[(n - 1) + 1])
      BY <2>2 DEF T
    <2> HIDE DEF Stuck
    <2> QED
      BY <1>1, <2>1, <2>3
  <1>8. Read(bytes, q) = h[n]
    BY <1>2, <1>7 DEF Read, Reader
  <1> QED
    BY <1>7, <1>8

(* The loader of any words.                                                *)
LEMMA LoaderIs ==
  ASSUME NEW old \in Cores, NEW r \in Readers
  PROVE  FoldLeft(LoadWord, Fresh(old), r.words) \in Loaders
  <1> DEFINE rs == r.words
      n == Len(rs)
  <1>1. rs \in Seq(WordsRead) /\ Fresh(old) \in Loaders
    BY FreshIs DEF Readers
  <1> HIDE DEF rs
  <1>2. n \in Nat
    BY <1>1, LenProperties
  <1>3. PICK g \in [0..n -> Loaders] :
          /\ g[0] = Fresh(old) /\ g[n] = FoldLeft(LoadWord, Fresh(old), rs)
          /\ \A i \in 1..n : g[i] = LoadWord(g[i - 1], rs[i])
    BY <1>1, LoadsFold
  <1>4. n \in 0..n
    BY <1>2
  <1> QED
    BY <1>3, <1>4 DEF rs

(* Of no words.                                                            *)
LEMMA NothingLoads ==
  ASSUME NEW old \in Cores
  PROVE  FoldLeft(LoadWord, Fresh(old), <<>>) = Fresh(old)
  <1> DEFINE rs == <<>>
  <1>1. rs \in Seq(WordsRead) /\ Len(rs) = 0 /\ Fresh(old) \in Loaders
    BY FreshIs
  <1> HIDE DEF rs
  <1>2. PICK g \in [0..Len(rs) -> Loaders] :
          /\ g[0] = Fresh(old) /\ g[Len(rs)] = FoldLeft(LoadWord, Fresh(old), rs)
          /\ \A i \in 1..Len(rs) : g[i] = LoadWord(g[i - 1], rs[i])
    BY <1>1, LoadsFold
  <1> QED
    BY <1>1, <1>2 DEF rs

-----------------------------------------------------------------------------
(* The inductive invariant.                                                *)

(* The file is the last dump, and where core was cleared behind it, core   *)
(* still holds zeros where the dump leaves them out.                       *)
FileInv ==
  /\ mem \in Cores /\ leftover \in Short /\ outcome \in {"none", "done", "botch", "exit"}
  /\ dumped \in [core : Cores, start : 0..(Core - 1), zeroed : BOOLEAN]
  /\ file = <<>> \/ file = Written(Dumped(dumped.core, dumped.start))
  /\ dumped.zeroed => \A a \in Cells : dumped.core[a] = 0 => mem[a] = 0

(* At first there is no file.                                              *)
LEMMA InitFile ==
  ASSUME SblkInit, mem \in Cores
  PROVE  FileInv
  <1>1. NoDump.core \in Cores /\ 0 \in 0..(Core - 1) /\ <<>> \in Short
    BY Numbers, Halves DEF NoDump, Cores, Short
  <1>2. NoDump \in [core : Cores, start : 0..(Core - 1), zeroed : BOOLEAN] /\ ~NoDump.zeroed
    BY <1>1 DEF NoDump
  <1> QED
    BY <1>1, <1>2 DEF SblkInit, FileInv

(* Loading the file changes no word but those of the dump; with half a     *)
(* word left over from before, none.                                       *)
LEMMA FileLoads ==
  ASSUME FileInv, file # <<>>
  PROVE  LET l == Loaded.loader IN
         /\ l \in Loaders
         /\ \A b \in Cells : l.mem[b] \in {mem[b], dumped.core[b]}
         /\ leftover = <<>> =>
              /\ l.at = "done" /\ l.pc = dumped.start
              /\ \A b \in First..(Core - 1) : dumped.core[b] # 0 => l.mem[b] = dumped.core[b]
  <1> DEFINE r == Read(file, leftover)
      m == dumped.core
      start == dumped.start
      W == Dumped(m, start)
  <1>1. mem \in Cores /\ leftover \in Short /\ m \in Cores /\ start \in 0..(Core - 1) /\ file = Written(W)
    BY DEF FileInv
  <1>2. Loaded.loader = FoldLeft(LoadWord, Fresh(mem), r.words)
    BY DEF Loaded, Fresh
  <1>3. W \in Seq(Bits) /\ W = <<RimEnd>> \o BlocksOf(m)[First] \o <<JRST + start, JRST + start>>
        /\ BlocksOf(m)[First] \in Seq(Bits)
    BY <1>1, DumpedIs
  <1>4. W # <<>> /\ W[1] = RimEnd
    <2>1. PICK B : B = BlocksOf(m)[First]
      OBVIOUS
    <2>2. PICK E : E = <<JRST + start, JRST + start>>
      OBVIOUS
    <2>3. <<RimEnd>> \in Seq(Bits) /\ E \in Seq(Bits) /\ B \in Seq(Bits)
      BY <1>1, <1>3, <2>1, <2>2, Ends
    <2>4. <<RimEnd>> \o B \in Seq(Bits) /\ Len(<<RimEnd>> \o B) >= 1 /\ (<<RimEnd>> \o B)[1] = RimEnd
      <3>1. Len(B) \in Nat
        BY <2>3, LenProperties
      <3>2. Len(<<RimEnd>>) = 1 /\ <<RimEnd>>[1] = RimEnd
        OBVIOUS
      <3> QED
        BY <2>3, <3>1, <3>2, ConcatProperties
    <2>5. PICK P : P = <<RimEnd>> \o B
      OBVIOUS
    <2>6. P \in Seq(Bits) /\ Len(P) \in Nat /\ Len(P) >= 1 /\ P[1] = RimEnd /\ Len(E) \in Nat
      BY <2>3, <2>4, <2>5, LenProperties
    <2>7. Len(P \o E) >= 1 /\ (P \o E)[1] = RimEnd
      BY <2>3, <2>6, ConcatProperties
    <2>8. W = P \o E
      BY <1>3, <2>1, <2>2, <2>5
    <2> HIDE DEF W
    <2> QED
      BY <2>7, <2>8
  <1>5. file \in Seq(Bytes) /\ file # <<>> /\ file[1] = Binary + RimEnd /\ file[1] >= Binary
    <2>1. RimEnd % 2 = 1 /\ RimEnd \in Bits
      BY Ends
    <2> HIDE DEF W
    <2>2. file \in Seq(Bytes) /\ file # <<>> /\ file[1] = Binary + RimEnd
      BY <1>1, <1>3, <1>4, <2>1, WrittenBegins
    <2>3. Binary + RimEnd >= Binary
      BY <2>1, Numbers
    <2> QED
      BY <2>2, <2>3
  <1>6. r \in Readers
    BY <1>1, <1>5, FileReads
  <1>7. Loaded.loader \in Loaders
    <2> HIDE DEF r
    <2> QED
      BY <1>1, <1>2, <1>6, LoaderIs
  <1>8. CASE leftover = <<>>
    <2>1. Shows(r, W, <<>>)
      <3> HIDE DEF W
      <3> QED
        BY <1>1, <1>3, <1>8, RoundTrip
    <2> HIDE DEF r, m, start
    <2>2. LET l == FoldLeft(LoadWord, Fresh(mem), r.words) IN
          /\ l.at = "done" /\ l.pc = start
          /\ \A b \in Cells : l.mem[b] \in {mem[b], m[b]}
          /\ \A b \in First..(Core - 1) : m[b] # 0 => l.mem[b] = m[b]
      BY <1>1, <2>1, DumpLoads
    <2> QED
      BY <1>2, <1>7, <2>2 DEF m, start
  <1>9. CASE leftover # <<>>
    <2>1. r.words = <<>>
      BY <1>1, <1>5, <1>9, ReadStops
    <2>2. Loaded.loader = Fresh(mem)
      BY <1>1, <1>2, <2>1, NothingLoads
    <2>3. Loaded.loader.mem = mem
      BY <2>2 DEF Fresh
    <2> QED
      BY <1>7, <1>9, <2>3
  <1> QED
    BY <1>8, <1>9

(* It brings back what was dumped.                                         *)
LEMMA FileRestores ==
  ASSUME FileInv
  PROVE  RestoredBy(Loaded.loader) /\ SblkTypeOK
  <1>1. RestoredBy(Loaded.loader)
    <2>1. SUFFICES ASSUME file # <<>>, leftover = <<>>
                   PROVE  LET l == Loaded.loader IN
                          /\ l.at = "done" /\ l.pc = dumped.start
                          /\ \A a \in First..(Core - 1) :
                               dumped.zeroed \/ dumped.core[a] # 0 => l.mem[a] = dumped.core[a]
      BY DEF RestoredBy
    <2>2. /\ Loaded.loader.at = "done" /\ Loaded.loader.pc = dumped.start
          /\ \A b \in Cells : Loaded.loader.mem[b] \in {mem[b], dumped.core[b]}
          /\ \A b \in First..(Core - 1) :
               dumped.core[b] # 0 => Loaded.loader.mem[b] = dumped.core[b]
      BY <2>1, FileLoads
    <2>3. \A a \in First..(Core - 1) : a \in Cells
      BY SblkAssumption DEF Cells
    <2>4. dumped.zeroed => \A a \in Cells : dumped.core[a] = 0 => mem[a] = 0
      BY DEF FileInv
    <2> QED
      BY <2>2, <2>3, <2>4
  <1>2. SblkTypeOK
    BY DEF FileInv, SblkTypeOK, Cores, Bits, Short
  <1> QED
    BY <1>1, <1>2

(* dumpsblk() writes the file anew.                                        *)
LEMMA DumpKeepsFile ==
  ASSUME FileInv, NEW start \in 0..(Core - 1), dumpsblk(start)
  PROVE  FileInv'
  BY DEF FileInv, dumpsblk

(* zerocore() leaves zeros where the dump has them.                        *)
LEMMA ZeroKeepsFile ==
  ASSUME FileInv, zerocore
  PROVE  FileInv'
  <1>1. mem' \in Cores /\ \A a \in Cells : mem'[a] = 0
    BY Numbers DEF zerocore, Cores, Cells
  <1>2. /\ dumped' \in [core : Cores, start : 0..(Core - 1), zeroed : BOOLEAN]
        /\ dumped'.core = dumped.core /\ dumped'.start = dumped.start
    BY DEF FileInv, zerocore
  <1> QED
    BY <1>1, <1>2 DEF FileInv, zerocore

(* loadsblk() puts words of the dump into core.                            *)
LEMMA LoadKeepsFile ==
  ASSUME FileInv, file # <<>>, loadsblk
  PROVE  FileInv'
  <1> DEFINE l == Loaded.loader
  <1>1. l \in Loaders /\ \A b \in Cells : l.mem[b] \in {mem[b], dumped.core[b]}
    BY FileLoads
  <1>2. mem' = l.mem /\ leftover' = l.left /\ UNCHANGED <<file, dumped>>
        /\ outcome' \in {"none", "done", "botch", "exit"}
    BY <1>1 DEF loadsblk, Ended
  <1> HIDE DEF l
  <1>3. mem' \in Cores /\ leftover' \in Short
    BY <1>1, <1>2 DEF Loaders
  <1> QED
    BY <1>1, <1>2, <1>3 DEF FileInv
=============================================================================
