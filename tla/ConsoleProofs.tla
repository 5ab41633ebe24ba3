---------------------------- MODULE ConsoleProofs ----------------------------
(* Proofs about Console: each call of the console is outlined by what is   *)
(* known of the processor before each of its steps, whatever the processor *)
(* has done since the step before.                                         *)
EXTENDS Console, SequenceTheorems, TLAPS

-----------------------------------------------------------------------------
(* What may be known of the processor.                                     *)

InstKeys == {"INSTSTOP", "SING_INST"}
MemKeys == {"MEMSTOP", "SING_CYC"}

Facts == {"free", "sane", "rest", "halt", "idle", "set",
          "flight", "stopping", "ending", "caught", "held", "shut", "off"}

At(n, keys) == [is |-> n, down |-> keys]

(* free: what is in flight is what a running processor executes, or the    *)
(* end of a HALT; sane: nor is a tape read in; rest: nothing is in flight; *)
(* halt: nor does it run; idle: it is between instructions; set: and has   *)
(* its address.  Between a key and the wait after it: flight, anything;    *)
(* stopping, ending and caught, that it will halt, end an instruction or   *)
(* stop in its first cycle; held: it has stopped there; off: and does not  *)
(* run; shut: and fetches nothing yet.                                     *)
True(n) ==
  /\ n \in {"free", "sane"} => (Going => IF run THEN ~InstStop ELSE busy = "last")
  /\ n = "free" => (busy = "readin" => ~InstStop)
  /\ n \in {"sane", "rest", "halt", "flight", "stopping", "ending"} => busy # "readin"
  /\ n \in {"rest", "halt"} => ~Going
  /\ n \in {"halt", "stopping", "shut", "off"} => ~run
  /\ n \in {"idle", "set"} => busy = "no"
  /\ n = "ending" => ~mc_stop /\ ~MemStop /\ (run => InstStop)
  /\ n = "caught" => busy = "fetch" /\ MemStop
  /\ n \in {"held", "shut", "off"} => mc_stop
  /\ n \in {"caught", "held", "shut", "off", "set"} => pc = "ta"
  /\ n \notin {"stopping", "shut"} => ~inhibited

Known(a) == a.is \in Facts /\ down = a.down /\ True(a.is)

(* What else is so then.                                                   *)
Weaker(n) ==
  CASE n = "sane" -> {"sane", "free"}
    [] n = "rest" -> {"rest", "sane", "free"}
    [] n = "halt" -> {"halt", "rest", "sane", "free"}
    [] n = "idle" -> {"idle", "halt", "rest", "sane", "free"}
    [] OTHER -> {n}

(* What is still so when a key is let go.                                  *)
Lasting == Facts \ {"ending", "caught"}

-----------------------------------------------------------------------------
(* The steps, from what is known before to what is known behind.           *)

Sleeps(n, keys, m) ==
  \/ n \in Lasting \ {"flight", "stopping", "shut"} /\ m = n
  \/ n = "flight" /\ m = "sane"
  \/ n \in {"flight", "sane"} /\ keys \cap (InstKeys \cup MemKeys) # {} /\ m = "rest"
  \/ n = "stopping" /\ m = "halt"
  \/ n = "shut" /\ m = "off"
  \/ n = "ending" /\ m = "idle"
  \/ n = "caught" /\ m = "held"

Finishes(n, keys, state, m) ==
  \/ n \in {"rest", "halt", "idle", "held"} /\ m = n
  \/ n = "sane" /\ state = "stopped" /\ keys \cap MemKeys # {} /\ m = "rest"

Presses(n, keys, k, m) ==
  \/ k \in {"INSTSTOP", "STOP"} /\ n \in {"sane", "rest", "halt"} /\ m = "stopping"
  \/ k \in {"INSTSTOP", "STOP"} /\ n = "held" /\ m = "shut"
  \/ k = "SING_INST" /\ n \in {"rest", "halt"} /\ m = n
  \/ k \in {"MEMSTOP", "SING_CYC"} /\ n \in {"sane", "rest", "halt"} /\ m = n
  \/ k = "START" /\ n = "halt" /\ keys \cap InstKeys = {} /\ m = "sane"
  \/ k = "START" /\ n = "halt" /\ keys \cap MemKeys # {} /\ m = "caught"
  \/ k = "READIN" /\ n = "halt" /\ keys \cap InstKeys = {} /\ m = "free"
  \/ k = "MEMCONT" /\ n \in {"rest", "halt"} /\ m = "flight"
  \/ k = "MEMCONT" /\ n = "halt" /\ keys \cap MemKeys = {} /\ m = "ending"
  \/ k = "INSTCONT" /\ n = "idle" /\ m = "flight"
  \/ /\ k = "INSTCONT" /\ n = "idle" /\ m = "ending"
     /\ keys \cap InstKeys # {} /\ keys \cap MemKeys = {}
  \/ k = "CONT" /\ n = "rest" /\ m = "flight"
  \/ /\ k = "CONT" /\ n = "rest" /\ m = "ending"
     /\ keys \cap InstKeys # {} /\ keys \cap MemKeys = {}
  \/ k \in {"EXEC", "XCT"} /\ n = "halt" /\ keys \cap MemKeys = {} /\ m = "ending"
  \/ k \in {"THISEX", "EX", "RESET"} /\ n = "halt" /\ m = "idle"
  \/ k \in {"THISEX", "EX"} /\ n = "off" /\ m = "set"

Fits(a, x, b) ==
  /\ a.is \in Facts /\ b.is \in Facts
  /\ \/ x.do = "sleep" /\ b.down = a.down /\ Sleeps(a.is, a.down, b.is)
     \/ x.do = "wait" /\ b.down = a.down /\ Finishes(a.is, a.down, x.arg, b.is)
     \/ /\ x.do = "down" /\ x.arg \notin a.down /\ Presses(a.is, a.down, x.arg, b.is)
        /\ b.down = (a.down \ Lever({x.arg})) \cup {x.arg}
     \/ /\ x.do = "up" /\ a.is \in Lasting /\ b.is \in Weaker(a.is)
        /\ b.down = a.down \ Lever(x.arg)
     \/ x.do = "ta" /\ b = a /\ a.is = "halt"
     \/ x.do = "complain" /\ b.down = a.down /\ a.is = "idle" /\ b.is \in Weaker("idle")
     \/ x.do = "started" /\ b.down = a.down /\ a.is \in Lasting /\ b.is \in Weaker(a.is)

(* What is known where a condition is found true or false.                 *)
Finds(n, state, truth, m) ==
  \/ state = "running" /\ truth /\ n = "free" /\ m \in Weaker("sane")
  \/ state = "running" /\ truth /\ n \in {"sane", "rest", "held"} /\ m \in Weaker(n)
  \/ state = "running" /\ ~truth /\ n = "held" /\ m = n
  \/ state = "running" /\ ~truth /\ n \in {"free", "sane", "rest"} /\ m \in Weaker("halt")
  \/ state = "stopped" /\ truth /\ n \in {"free", "sane", "rest"} /\ m \in Weaker("rest")
  \/ state = "stopped" /\ truth /\ n \in {"halt", "held"} /\ m \in Weaker(n)
  \/ state = "stopped" /\ ~truth /\ n \in {"free", "sane"} /\ m = n
  \/ state = "stopped" /\ ~truth /\ n \in {"rest", "halt"} /\ m \in Weaker("idle")
  \/ state = "halted" /\ truth /\ n \in {"halt", "idle"} /\ m \in Weaker(n)

Never(n, state, truth) ==
  \/ state = "halted" /\ ~truth /\ n \in {"halt", "idle"}
  \/ state = "stopped" /\ ~truth /\ n = "held"

-----------------------------------------------------------------------------
(* A set of outlines, from what is known before what is left of a call to  *)
(* what is known when it returns, that a step does not lead out of.        *)

Branch(x, truth) == IF truth THEN x.arg.then ELSE x.arg.else

Begun(O, S, a, s, b) ==
  LET x == Head(s) IN
  \/ \E c : Fits(a, x, c) /\ <<c, Tail(s), b>> \in O
  \/ /\ x.do = "if" /\ a.is \in Facts
     /\ \A truth \in BOOLEAN :
          \/ Never(a.is, x.arg.is, truth)
          \/ \E m \in Facts :
               /\ Finds(a.is, x.arg.is, truth, m)
               /\ Branch(x, truth) \in Seq(S)
               /\ <<At(m, a.down), Branch(x, truth) \o Tail(s), b>> \in O
  \/ x.do = "err" /\ a.down = {} /\ a.is \in {"free", "sane"}

Closed(O, S) ==
  \A a, s, b : <<a, s, b>> \in O =>
    s \in Seq(S) /\ (s = <<>> => a = b) /\ (s # <<>> => Begun(O, S, a, s, b))

Outlined(a, s, b) == \E O, S : Closed(O, S) /\ <<a, s, b>> \in O

-----------------------------------------------------------------------------
(* Outlines are put together.                                              *)

LEMMA Done == ASSUME NEW a PROVE Outlined(a, <<>>, a)
  <1>1. Closed({<<a, <<>>, a>>}, {})
    BY DEF Closed
  <1> QED
    BY <1>1 DEF Outlined

LEMMA OneStep ==
  ASSUME NEW x, NEW S, x \in S
  PROVE  /\ <<x>> \in Seq(S) /\ <<x>> # <<>> /\ Head(<<x>>) = x /\ Tail(<<x>>) = <<>>
         /\ \A t \in Seq(S) : t \o <<>> = t
  BY ConcatEmptySeq

LEMMA SimpleStep ==
  ASSUME NEW x, NEW a, NEW b, Fits(a, x, b)
  PROVE  Outlined(a, <<x>>, b)
  <1> DEFINE O == {<<a, <<x>>, b>>, <<b, <<>>, b>>}
  <1>1. <<x>> \in Seq({x}) /\ <<x>> # <<>> /\ Head(<<x>>) = x /\ Tail(<<x>>) = <<>>
    BY OneStep
  <1>2. Begun(O, {x}, a, <<x>>, b)
    BY <1>1 DEF Begun
  <1>3. Closed(O, {x})
    <2> SUFFICES ASSUME NEW a1, NEW s1, NEW b1, <<a1, s1, b1>> \in O
                 PROVE  s1 \in Seq({x}) /\ (s1 = <<>> => a1 = b1) /\ (s1 # <<>> => Begun(O, {x}, a1, s1, b1))
      BY DEF Closed
    <2>1. CASE a1 = a /\ s1 = <<x>> /\ b1 = b
      BY <1>1, <1>2, <2>1
    <2>2. CASE a1 = b /\ s1 = <<>> /\ b1 = b
      BY <2>2
    <2> QED
      BY <2>1, <2>2
  <1> QED
    BY <1>3 DEF Outlined

LEMMA Larger ==
  ASSUME NEW O, NEW S, NEW P, NEW T, O \subseteq P, S \subseteq T,
         NEW a, NEW s, NEW b, Begun(O, S, a, s, b)
  PROVE  Begun(P, T, a, s, b)
  <1>1. Seq(S) \subseteq Seq(T)
    BY SeqMonotonic
  <1> QED
    BY <1>1 DEF Begun

LEMMA Joined ==
  ASSUME NEW S, NEW s \in Seq(S), NEW t \in Seq(S), s # <<>>
  PROVE  /\ s \o t \in Seq(S) /\ s \o t # <<>> /\ Tail(s) \in Seq(S)
         /\ Head(s \o t) = Head(s) /\ Tail(s \o t) = Tail(s) \o t
  <1>1. /\ s \o t \in Seq(S) /\ Len(s \o t) = Len(s) + Len(t)
        /\ \A i \in 1 .. Len(s) + Len(t) :
             (s \o t)[i] = IF i <= Len(s) THEN s[i] ELSE t[i - Len(s)]
    BY ConcatProperties
  <1>2. Len(s) \in Nat \ {0} /\ Len(t) \in Nat
    BY EmptySeq, LenProperties
  <1>3. s \o t # <<>> /\ Head(s \o t) = Head(s)
    BY <1>1, <1>2
  <1>4. /\ Tail(s) \in Seq(S) /\ Len(Tail(s)) = Len(s) - 1
        /\ \A i \in 1 .. Len(Tail(s)) : Tail(s)[i] = s[i + 1]
    BY HeadTailProperties
  <1>5. /\ Tail(s \o t) \in Seq(S) /\ Len(Tail(s \o t)) = Len(s) + Len(t) - 1
        /\ \A i \in 1 .. Len(Tail(s \o t)) : Tail(s \o t)[i] = (s \o t)[i + 1]
    BY <1>1, <1>3, HeadTailProperties
  <1>6. /\ Tail(s) \o t \in Seq(S) /\ Len(Tail(s) \o t) = Len(s) - 1 + Len(t)
        /\ \A i \in 1 .. Len(Tail(s)) + Len(t) :
             (Tail(s) \o t)[i] = IF i <= Len(Tail(s)) THEN Tail(s)[i] ELSE t[i - Len(Tail(s))]
    BY <1>4, ConcatProperties
  <1>7. \A i \in 1 .. Len(Tail(s \o t)) : Tail(s \o t)[i] = (Tail(s) \o t)[i]
    <2> SUFFICES ASSUME NEW i \in 1 .. (Len(s) + Len(t) - 1)
                 PROVE  Tail(s \o t)[i] = (Tail(s) \o t)[i]
      BY <1>5
    <2>1. Tail(s \o t)[i] = IF i + 1 <= Len(s) THEN s[i + 1] ELSE t[i + 1 - Len(s)]
      BY <1>1, <1>2, <1>5
    <2>2. (Tail(s) \o t)[i] = IF i <= Len(s) - 1 THEN Tail(s)[i] ELSE t[i - (Len(s) - 1)]
      BY <1>2, <1>4, <1>6
    <2>3. i <= Len(s) - 1 => Tail(s)[i] = s[i + 1]
      BY <1>2, <1>4
    <2>4. i - (Len(s) - 1) = i + 1 - Len(s) /\ (i + 1 <= Len(s) <=> i <= Len(s) - 1)
      BY <1>2
    <2> QED
      BY <2>1, <2>2, <2>3, <2>4
  <1>8. Tail(s \o t) = Tail(s) \o t
    BY <1>2, <1>5, <1>6, <1>7, SeqEqual
  <1> QED
    BY <1>1, <1>3, <1>4, <1>8

(* What is known when one part returns is what the next begins with.       *)
LEMMA InTurn ==
  ASSUME NEW a, NEW s, NEW b, NEW t, NEW c, Outlined(a, s, b), Outlined(b, t, c)
  PROVE  Outlined(a, s \o t, c)
  <1>1. PICK O1, S1 : Closed(O1, S1) /\ <<a, s, b>> \in O1
    BY DEF Outlined
  <1>2. PICK O2, S2 : Closed(O2, S2) /\ <<b, t, c>> \in O2
    BY DEF Outlined
  <1> DEFINE S == S1 \cup S2
             P == {<<u[1], u[2] \o t, c>> : u \in {v \in O1 : v = <<v[1], v[2], b>>}}
             O == O2 \cup P
  <1>3. \A a1, s1 : <<a1, s1, b>> \in O1 => <<a1, s1 \o t, c>> \in O
    <2> SUFFICES ASSUME NEW a1, NEW s1, <<a1, s1, b>> \in O1
                 PROVE  <<a1, s1 \o t, c>> \in P
      OBVIOUS
    <2> DEFINE u == <<a1, s1, b>>
    <2>1. u \in {v \in O1 : v = <<v[1], v[2], b>>} /\ <<u[1], u[2] \o t, c>> = <<a1, s1 \o t, c>>
      OBVIOUS
    <2> QED
      BY <2>1
  <1>4. \A a1, s1, b1 : <<a1, s1, b1>> \in O =>
          \/ <<a1, s1, b1>> \in O2
          \/ b1 = c /\ \E r : <<a1, r, b>> \in O1 /\ s1 = r \o t
    OBVIOUS
  <1>5. Seq(S1) \subseteq Seq(S) /\ Seq(S2) \subseteq Seq(S) /\ t \in Seq(S)
    BY <1>2, SeqMonotonic DEF Closed
  <1>6. O2 \subseteq O
    OBVIOUS
  <1> HIDE DEF P, O, S
  <1>7. ASSUME NEW a1, NEW r, <<a1, r, b>> \in O1, r # <<>>
        PROVE  Begun(O, S, a1, r \o t, c)
    <2>1. r \in Seq(S1) /\ Begun(O1, S1, a1, r, b)
      BY <1>1, <1>7 DEF Closed
    <2>2. Head(r \o t) = Head(r) /\ Tail(r \o t) = Tail(r) \o t /\ Tail(r) \in Seq(S)
      BY <1>5, <1>7, <2>1, Joined
    <2>3. CASE \E d : Fits(a1, Head(r), d) /\ <<d, Tail(r), b>> \in O1
      BY <1>3, <2>2, <2>3 DEF Begun
    <2>4. CASE Head(r).do = "err" /\ a1.down = {} /\ a1.is \in {"free", "sane"}
      BY <2>2, <2>4 DEF Begun
    <2>5. CASE /\ Head(r).do = "if" /\ a1.is \in Facts
               /\ \A truth \in BOOLEAN :
                    \/ Never(a1.is, Head(r).arg.is, truth)
                    \/ \E m \in Facts :
                         /\ Finds(a1.is, Head(r).arg.is, truth, m)
                         /\ Branch(Head(r), truth) \in Seq(S1)
                         /\ <<At(m, a1.down), Branch(Head(r), truth) \o Tail(r), b>> \in O1
      <3> SUFFICES ASSUME NEW truth \in BOOLEAN, ~Never(a1.is, Head(r).arg.is, truth)
                   PROVE  \E m \in Facts :
                            /\ Finds(a1.is, Head(r).arg.is, truth, m)
                            /\ Branch(Head(r), truth) \in Seq(S)
                            /\ <<At(m, a1.down), Branch(Head(r), truth) \o (Tail(r) \o t), c>> \in O
        BY <2>2, <2>5 DEF Begun
      <3>1. PICK m \in Facts :
              /\ Finds(a1.is, Head(r).arg.is, truth, m)
              /\ Branch(Head(r), truth) \in Seq(S1)
              /\ <<At(m, a1.down), Branch(Head(r), truth) \o Tail(r), b>> \in O1
        BY <2>5
      <3>2. Branch(Head(r), truth) \in Seq(S)
        BY <1>5, <3>1
      <3>3. (Branch(Head(r), truth) \o Tail(r)) \o t = Branch(Head(r), truth) \o (Tail(r) \o t)
        BY <1>5, <2>2, <3>2, ConcatAssociative
      <3> QED
        BY <1>3, <3>1, <3>2, <3>3
    <2> QED
      BY <2>1, <2>3, <2>4, <2>5 DEF Begun
  <1>8. Closed(O, S)
    <2> SUFFICES ASSUME NEW a1, NEW s1, NEW b1, <<a1, s1, b1>> \in O
                 PROVE  s1 \in Seq(S) /\ (s1 = <<>> => a1 = b1) /\ (s1 # <<>> => Begun(O, S, a1, s1, b1))
      BY DEF Closed
    <2>1. CASE <<a1, s1, b1>> \in O2
      BY <1>2, <1>5, <1>6, <2>1, Larger DEF Closed, S
    <2>2. CASE b1 = c /\ \E r : <<a1, r, b>> \in O1 /\ s1 = r \o t
      <3> PICK r : <<a1, r, b>> \in O1 /\ s1 = r \o t
        BY <2>2
      <3>1. r \in Seq(S1) /\ (r = <<>> => a1 = b)
        BY <1>1, <2>2 DEF Closed
      <3>2. CASE r = <<>>
        <4>1. s1 = t
          BY <1>5, <2>2, <3>2, ConcatEmptySeq
        <4> QED
          BY <1>2, <1>5, <1>6, <2>2, <3>1, <3>2, <4>1, Larger DEF Closed, S
      <3>3. CASE r # <<>>
        <4>1. s1 \in Seq(S) /\ s1 # <<>>
          BY <1>5, <3>1, <3>3, Joined
        <4>2. Begun(O, S, a1, s1, b1)
          BY <1>7, <2>2, <3>3
        <4> QED
          BY <4>1, <4>2
      <3> QED
        BY <3>2, <3>3
    <2>3. \/ <<a1, s1, b1>> \in O2
          \/ b1 = c /\ \E r : <<a1, r, b>> \in O1 /\ s1 = r \o t
      BY <1>4
    <2> QED
      BY <2>1, <2>2, <2>3
  <1> QED
    BY <1>1, <1>3, <1>8 DEF Outlined

LEMMA Beside ==
  ASSUME NEW O1, NEW S1, NEW O2, NEW S2, Closed(O1, S1), Closed(O2, S2)
  PROVE  Closed(O1 \cup O2, S1 \cup S2)
  <1> SUFFICES ASSUME NEW a, NEW s, NEW b, <<a, s, b>> \in O1 \cup O2
               PROVE  /\ s \in Seq(S1 \cup S2) /\ (s = <<>> => a = b)
                      /\ (s # <<>> => Begun(O1 \cup O2, S1 \cup S2, a, s, b))
    BY DEF Closed
  <1>1. Seq(S1) \subseteq Seq(S1 \cup S2) /\ Seq(S2) \subseteq Seq(S1 \cup S2)
    BY SeqMonotonic
  <1>2. CASE <<a, s, b>> \in O1
    <2>1. s \in Seq(S1) /\ (s = <<>> => a = b) /\ (s # <<>> => Begun(O1, S1, a, s, b))
      BY <1>2 DEF Closed
    <2> QED
      BY <1>1, <2>1, Larger
  <1>3. CASE <<a, s, b>> \in O2
    <2>1. s \in Seq(S2) /\ (s = <<>> => a = b) /\ (s # <<>> => Begun(O2, S2, a, s, b))
      BY <1>3 DEF Closed
    <2> QED
      BY <1>1, <2>1, Larger
  <1> QED
    BY <1>2, <1>3

(* A condition is found one way only, or the call goes on either way.      *)
Either(n, keys, state, truth, s, b) ==
  \/ Never(n, state, truth)
  \/ \E m \in Facts : Finds(n, state, truth, m) /\ Outlined(At(m, keys), s, b)

LEMMA EitherIsClosed ==
  ASSUME NEW n, NEW keys, NEW state, NEW truth, NEW s, NEW b, Either(n, keys, state, truth, s, b)
  PROVE  \E O, S :
           /\ Closed(O, S)
           /\ \/ Never(n, state, truth)
              \/ \E m \in Facts :
                   /\ Finds(n, state, truth, m)
                   /\ s \in Seq(S) /\ <<At(m, keys), s, b>> \in O
  <1>1. CASE Never(n, state, truth)
    <2>1. Closed({}, {})
      BY DEF Closed
    <2> QED
      BY <1>1, <2>1
  <1>2. CASE ~Never(n, state, truth)
    <2>1. PICK m \in Facts : Finds(n, state, truth, m) /\ Outlined(At(m, keys), s, b)
      BY <1>2 DEF Either
    <2>2. PICK O, S : Closed(O, S) /\ <<At(m, keys), s, b>> \in O
      BY <2>1 DEF Outlined
    <2>3. s \in Seq(S)
      BY <2>2 DEF Closed
    <2> QED
      BY <2>1, <2>2, <2>3
  <1> QED
    BY <1>1, <1>2

LEMMA Chosen ==
  ASSUME NEW n \in Facts, NEW keys, NEW state, NEW then, NEW else, NEW b,
         Either(n, keys, state, TRUE, then, b), Either(n, keys, state, FALSE, else, b)
  PROVE  Outlined(At(n, keys), If(state, then, else), b)
  <1>1. PICK O1, S1 :
           /\ Closed(O1, S1)
           /\ \/ Never(n, state, TRUE)
              \/ \E m \in Facts :
                   /\ Finds(n, state, TRUE, m)
                   /\ then \in Seq(S1) /\ <<At(m, keys), then, b>> \in O1
    BY EitherIsClosed
  <1>2. PICK O2, S2 :
           /\ Closed(O2, S2)
           /\ \/ Never(n, state, FALSE)
              \/ \E m \in Facts :
                   /\ Finds(n, state, FALSE, m)
                   /\ else \in Seq(S2) /\ <<At(m, keys), else, b>> \in O2
    BY EitherIsClosed
  <1> DEFINE x == [do |-> "if", arg |-> [is |-> state, then |-> then, else |-> else]]
             O == O1 \cup O2
             S == S1 \cup S2 \cup {x}
  <1>3. Closed(O, S1 \cup S2)
    BY <1>1, <1>2, Beside
  <1>4. x \in S /\ S1 \subseteq S /\ S2 \subseteq S /\ S1 \cup S2 \subseteq S
    OBVIOUS
  <1>5. x.do = "if" /\ x.arg.is = state /\ Branch(x, TRUE) = then /\ Branch(x, FALSE) = else
    BY DEF Branch
  <1>6. If(state, then, else) = <<x>>
    BY DEF If, Step
  <1> HIDE DEF x, S
  <1>7. Seq(S1) \subseteq Seq(S) /\ Seq(S2) \subseteq Seq(S) /\ Seq(S1 \cup S2) \subseteq Seq(S)
    BY <1>4, SeqMonotonic
  <1>8. /\ <<x>> \in Seq(S) /\ <<x>> # <<>> /\ Head(<<x>>) = x /\ Tail(<<x>>) = <<>>
        /\ \A t \in Seq(S) : t \o <<>> = t
    BY <1>4, OneStep
  <1> DEFINE P == O \cup {<<At(n, keys), <<x>>, b>>}
  <1>9. Begun(P, S, At(n, keys), <<x>>, b)
    <2> SUFFICES ASSUME NEW truth \in BOOLEAN, ~Never(n, state, truth)
                 PROVE  \E m \in Facts :
                          /\ Finds(n, state, truth, m)
                          /\ Branch(x, truth) \in Seq(S)
                          /\ <<At(m, keys), Branch(x, truth) \o <<>>, b>> \in P
      BY <1>5, <1>8 DEF Begun, At
    <2>1. CASE truth = TRUE
      BY <1>1, <1>5, <1>7, <1>8, <2>1
    <2>2. CASE truth = FALSE
      BY <1>2, <1>5, <1>7, <1>8, <2>2
    <2> QED
      BY <2>1, <2>2
  <1>10. Closed(P, S)
    <2> SUFFICES ASSUME NEW a1, NEW s1, NEW b1, <<a1, s1, b1>> \in P
                 PROVE  s1 \in Seq(S) /\ (s1 = <<>> => a1 = b1) /\ (s1 # <<>> => Begun(P, S, a1, s1, b1))
      BY DEF Closed
    <2>1. CASE <<a1, s1, b1>> \in O
      <3>1. s1 \in Seq(S1 \cup S2) /\ (s1 = <<>> => a1 = b1) /\ (s1 # <<>> => Begun(O, S1 \cup S2, a1, s1, b1))
        BY <1>3, <2>1 DEF Closed
      <3>2. O \subseteq P
        OBVIOUS
      <3> HIDE DEF O, P
      <3> QED
        BY <1>4, <1>7, <3>1, <3>2, Larger
    <2>2. CASE a1 = At(n, keys) /\ s1 = <<x>> /\ b1 = b
      BY <1>8, <1>9, <2>2
    <2> QED
      BY <2>1, <2>2
  <1>11. <<At(n, keys), <<x>>, b>> \in P
    OBVIOUS
  <1> QED
    BY <1>6, <1>10, <1>11 DEF Outlined

LEMMA Mistaken ==
  ASSUME NEW a, NEW b, a.down = {}, a.is \in {"free", "sane"}
  PROVE  Outlined(a, Err, b)
  <1> DEFINE x == [do |-> "err", arg |-> {}]
             O == {<<a, <<x>>, b>>}
  <1>1. <<x>> \in Seq({x}) /\ <<x>> # <<>> /\ Head(<<x>>) = x
    BY OneStep
  <1>2. Begun(O, {x}, a, <<x>>, b)
    BY <1>1 DEF Begun
  <1>3. Closed(O, {x})
    <2> SUFFICES ASSUME NEW a1, NEW s1, NEW b1, <<a1, s1, b1>> \in O
                 PROVE  s1 \in Seq({x}) /\ (s1 = <<>> => a1 = b1) /\ (s1 # <<>> => Begun(O, {x}, a1, s1, b1))
      BY DEF Closed
    <2>1. a1 = a /\ s1 = <<x>> /\ b1 = b
      OBVIOUS
    <2> QED
      BY <1>1, <1>2, <2>1
  <1> QED
    BY <1>3 DEF Outlined, Err, Step

-----------------------------------------------------------------------------
(* What the calls are made of, on both machines: a key that is pressed, a  *)
(* key that is pressed and let go, and waiting for the processor.          *)

LEMMA Pressed ==
  ASSUME NEW n \in Facts, NEW keys, NEW k, NEW m1 \in Facts, NEW m \in Facts, NEW pause,
         k \notin keys, keys \cap Lever({k}) = {}, Presses(n, keys, k, m1),
         \/ pause = <<>> /\ m = m1
         \/ pause = usleep /\ Sleeps(m1, keys \cup {k}, m)
  PROVE  Outlined(At(n, keys), Down(k) \o pause, At(m, keys \cup {k}))
  <1>1. Outlined(At(n, keys), Down(k), At(m1, keys \cup {k}))
    <2>1. (keys \ Lever({k})) \cup {k} = keys \cup {k}
      OBVIOUS
    <2>2. Fits(At(n, keys), [do |-> "down", arg |-> k], At(m1, keys \cup {k}))
      BY <2>1 DEF Fits, At
    <2> QED
      BY <2>2, SimpleStep DEF Down, Step
  <1>2. CASE pause = <<>> /\ m = m1
    BY <1>1, <1>2, Done, InTurn
  <1>3. CASE pause = usleep /\ Sleeps(m1, keys \cup {k}, m)
    <2>1. Fits(At(m1, keys \cup {k}), [do |-> "sleep", arg |-> {}], At(m, keys \cup {k}))
      BY <1>3 DEF Fits, At
    <2>2. Outlined(At(m1, keys \cup {k}), usleep, At(m, keys \cup {k}))
      BY <2>1, SimpleStep DEF usleep, Step
    <2> QED
      BY <1>1, <1>3, <2>2, InTurn
  <1> QED
    BY <1>2, <1>3

LEMMA Slept ==
  ASSUME NEW n \in Facts, NEW keys, NEW m \in Facts, Sleeps(n, keys, m)
  PROVE  Outlined(At(n, keys), usleep, At(m, keys))
  <1>1. Fits(At(n, keys), [do |-> "sleep", arg |-> {}], At(m, keys))
    BY DEF Fits, At
  <1> QED
    BY <1>1, SimpleStep DEF usleep, Step

LEMMA Lifted ==
  ASSUME NEW n \in Lasting, NEW keys, NEW ks, NEW m \in Facts, m \in Weaker(n)
  PROVE  Outlined(At(n, keys), keyup(ks), At(m, keys \ Lever(ks)))
  <1>1. Fits(At(n, keys), [do |-> "up", arg |-> ks], At(m, keys \ Lever(ks)))
    BY DEF Fits, At, Lasting
  <1> QED
    BY <1>1, SimpleStep DEF keyup, Step

(* m1 when the key is down, m when the processor has done what it does.    *)
LEMMA Toggled ==
  ASSUME NEW n \in Facts, NEW keys, NEW k, NEW m1 \in Facts, NEW m \in Lasting,
         NEW m2 \in Facts, NEW pause \in {<<>>, usleep},
         k \notin keys, keys \cap Lever({k}) = {}, Presses(n, keys, k, m1),
         Sleeps(m1, keys \cup {k}, m), Sleeps(m, keys \cup {k}, m), m2 \in Weaker(m)
  PROVE  Outlined(At(n, keys), ((Down(k) \o pause) \o usleep) \o keyup({k}), At(m2, keys))
  <1>1. Outlined(At(n, keys), (Down(k) \o pause) \o usleep, At(m, keys \cup {k}))
    <2>1. CASE pause = <<>>
      <3>1. Outlined(At(n, keys), Down(k) \o pause, At(m1, keys \cup {k}))
        BY <2>1, Pressed
      <3>2. Outlined(At(m1, keys \cup {k}), usleep, At(m, keys \cup {k}))
        BY Slept DEF Lasting
      <3> QED
        BY <3>1, <3>2, InTurn
    <2>2. CASE pause = usleep
      <3>1. Outlined(At(n, keys), Down(k) \o pause, At(m, keys \cup {k}))
        BY <2>2, Pressed DEF Lasting
      <3>2. Outlined(At(m, keys \cup {k}), usleep, At(m, keys \cup {k}))
        BY Slept DEF Lasting
      <3> QED
        BY <3>1, <3>2, InTurn
    <2> QED
      BY <2>1, <2>2
  <1>2. Outlined(At(m, keys \cup {k}), keyup({k}), At(m2, (keys \cup {k}) \ Lever({k})))
    BY Lifted
  <1>3. (keys \cup {k}) \ Lever({k}) = keys
    BY DEF Lever
  <1> QED
    BY <1>1, <1>2, <1>3, InTurn

(* The complaint of waithalt() is never made.                              *)
LEMMA HaltWaited ==
  ASSUME NEW n \in {"halt", "idle"}, NEW keys, NEW complaint
  PROVE  Outlined(At(n, keys), WaitUntil("halted") \o Unless("halted", complaint), At(n, keys))
  <1>1. Fits(At(n, keys), [do |-> "wait", arg |-> "halted"], At(n, keys))
    BY DEF Fits, At, Finishes, Facts
  <1>2. Outlined(At(n, keys), WaitUntil("halted"), At(n, keys))
    BY <1>1, SimpleStep DEF WaitUntil, Step
  <1>3. Either(n, keys, "halted", FALSE, complaint, At(n, keys))
    BY DEF Either, Never
  <1>4. Either(n, keys, "halted", TRUE, <<>>, At(n, keys))
    <2>1. n \in Weaker(n) /\ n \in Facts
      BY DEF Weaker, Facts
    <2> QED
      BY <2>1, Done DEF Either, Finds
  <1>5. Outlined(At(n, keys), Unless("halted", complaint), At(n, keys))
    BY <1>3, <1>4, Chosen DEF Unless, Facts
  <1> QED
    BY <1>2, <1>5, InTurn

waitmemstop == If("running", WaitUntil("stopped") \o Unless("stopped", Complain), <<>>)

LEMMA StopWaited ==
  ASSUME NEW keys
  PROVE  /\ Outlined(At("rest", keys), waitmemstop, At("rest", keys))
         /\ Outlined(At("held", keys), waitmemstop, At("held", keys))
         /\ keys \cap MemKeys # {} => Outlined(At("sane", keys), waitmemstop, At("rest", keys))
  <1> DEFINE waiting == WaitUntil("stopped") \o Unless("stopped", Complain)
  <1>1. Outlined(At("idle", keys), Complain, At("rest", keys))
    <2>1. Fits(At("idle", keys), [do |-> "complain", arg |-> {}], At("rest", keys))
      BY DEF Fits, At, Facts, Weaker
    <2> QED
      BY <2>1, SimpleStep DEF Complain, Step
  <1>2. Outlined(At("rest", keys), Unless("stopped", Complain), At("rest", keys))
    <2>1. Either("rest", keys, "stopped", TRUE, <<>>, At("rest", keys))
      BY Done DEF Either, Finds, Weaker, Facts
    <2>2. Either("rest", keys, "stopped", FALSE, Complain, At("rest", keys))
      BY <1>1 DEF Either, Finds, Weaker, Facts
    <2> QED
      BY <2>1, <2>2, Chosen DEF Unless, Facts
  <1>3. Outlined(At("held", keys), Unless("stopped", Complain), At("held", keys))
    <2>1. Either("held", keys, "stopped", TRUE, <<>>, At("held", keys))
      BY Done DEF Either, Finds, Weaker, Facts
    <2>2. Either("held", keys, "stopped", FALSE, Complain, At("held", keys))
      BY DEF Either, Never
    <2> QED
      BY <2>1, <2>2, Chosen DEF Unless, Facts
  <1>4. \A n \in {"rest", "held"} : Outlined(At(n, keys), WaitUntil("stopped"), At(n, keys))
    <2> SUFFICES ASSUME NEW n \in {"rest", "held"}
                 PROVE  Outlined(At(n, keys), WaitUntil("stopped"), At(n, keys))
      OBVIOUS
    <2>1. Fits(At(n, keys), [do |-> "wait", arg |-> "stopped"], At(n, keys))
      BY DEF Fits, At, Facts, Finishes
    <2> QED
      BY <2>1, SimpleStep DEF WaitUntil, Step
  <1>5. keys \cap MemKeys # {} => Outlined(At("sane", keys), WaitUntil("stopped"), At("rest", keys))
    <2> SUFFICES ASSUME keys \cap MemKeys # {}
                 PROVE  Outlined(At("sane", keys), WaitUntil("stopped"), At("rest", keys))
      OBVIOUS
    <2>1. Fits(At("sane", keys), [do |-> "wait", arg |-> "stopped"], At("rest", keys))
      BY DEF Fits, At, Facts, Finishes
    <2> QED
      BY <2>1, SimpleStep DEF WaitUntil, Step
  <1>6. /\ Outlined(At("rest", keys), waiting, At("rest", keys))
        /\ Outlined(At("held", keys), waiting, At("held", keys))
        /\ keys \cap MemKeys # {} => Outlined(At("sane", keys), waiting, At("rest", keys))
    BY <1>2, <1>3, <1>4, <1>5, InTurn
  <1> HIDE DEF waiting
  <1>7. Outlined(At("rest", keys), If("running", waiting, <<>>), At("rest", keys))
    <2>1. Either("rest", keys, "running", TRUE, waiting, At("rest", keys))
      BY <1>6 DEF Either, Finds, Weaker, Facts
    <2>2. Either("rest", keys, "running", FALSE, <<>>, At("rest", keys))
      BY Done DEF Either, Finds, Weaker, Facts
    <2> QED
      BY <2>1, <2>2, Chosen DEF Facts
  <1>8. Outlined(At("held", keys), If("running", waiting, <<>>), At("held", keys))
    <2>1. Either("held", keys, "running", TRUE, waiting, At("held", keys))
      BY <1>6 DEF Either, Finds, Weaker, Facts
    <2>2. Either("held", keys, "running", FALSE, <<>>, At("held", keys))
      BY Done DEF Either, Finds, Weaker, Facts
    <2> QED
      BY <2>1, <2>2, Chosen DEF Facts
  <1>9. ASSUME keys \cap MemKeys # {}
        PROVE  Outlined(At("sane", keys), If("running", waiting, <<>>), At("rest", keys))
    <2>1. Either("sane", keys, "running", TRUE, waiting, At("rest", keys))
      BY <1>6, <1>9 DEF Either, Finds, Weaker, Facts
    <2>2. Either("sane", keys, "running", FALSE, <<>>, At("rest", keys))
      BY Done DEF Either, Finds, Weaker, Facts
    <2> QED
      BY <2>1, <2>2, Chosen DEF Facts
  <1> QED
    BY <1>7, <1>8, <1>9 DEF waitmemstop, waiting

-----------------------------------------------------------------------------
(* The calls on the PDP-6.                                                 *)

LEMMA SixSteps ==
  /\ Six!usleep = usleep /\ Six!set_ta = set_ta /\ Six!Err = Err /\ Six!waitmemstop = waitmemstop
  /\ \A ks : Six!keyup(ks) = keyup(ks)
  /\ \A state, then, else : Six!If(state, then, else) = If(state, then, else)
  /\ \A state, else : Six!Unless(state, else) = Unless(state, else)
  BY DEF Six!usleep, usleep, Six!set_ta, set_ta, Six!Err, Err, Six!waitmemstop, waitmemstop,
         Six!keyup, keyup, Six!If, If, Six!Unless, Unless, Six!WaitUntil, WaitUntil,
         Six!Complain, Complain, Six!Step, Step

LEMMA SixPressed ==
  ASSUME NEW n \in Facts, NEW keys, NEW k, NEW m1 \in Facts, NEW m \in Facts,
         k \notin keys, keys \cap Lever({k}) = {}, Presses(n, keys, k, m1),
         IF k = "INSTSTOP" THEN Sleeps(m1, keys \cup {k}, m) ELSE m = m1
  PROVE  Outlined(At(n, keys), Six!keydown(k), At(m, keys \cup {k}))
  <1> DEFINE pause == IF k = "INSTSTOP" THEN usleep ELSE <<>>
  <1>1. Six!keydown(k) = Down(k) \o pause
    BY DEF Six!keydown, Six!Down, Down, Six!usleep, usleep, Six!Step, Step
  <1>2. \/ pause = <<>> /\ m = m1
        \/ pause = usleep /\ Sleeps(m1, keys \cup {k}, m)
    OBVIOUS
  <1> HIDE DEF pause
  <1>3. Outlined(At(n, keys), Down(k) \o pause, At(m, keys \cup {k}))
    BY <1>2, Pressed
  <1> QED
    BY <1>1, <1>3

LEMMA SixToggled ==
  ASSUME NEW n \in Facts, NEW keys, NEW k, NEW m1 \in Facts, NEW m \in Lasting, NEW m2 \in Facts,
         k \notin keys, keys \cap Lever({k}) = {}, Presses(n, keys, k, m1),
         Sleeps(m1, keys \cup {k}, m), Sleeps(m, keys \cup {k}, m), m2 \in Weaker(m)
  PROVE  Outlined(At(n, keys), Six!keytoggle(k), At(m2, keys))
  <1> DEFINE pause == IF k = "INSTSTOP" THEN usleep ELSE <<>>
  <1>1. Six!keytoggle(k) = ((Down(k) \o pause) \o usleep) \o keyup({k})
    BY DEF Six!keytoggle, Six!keydown, Six!Down, Down, Six!usleep, usleep, Six!keyup, keyup, Six!Step, Step
  <1>2. pause \in {<<>>, usleep}
    OBVIOUS
  <1> HIDE DEF pause
  <1> QED
    BY <1>1, <1>2, Toggled

LEMMA SixHaltWaited ==
  ASSUME NEW n \in {"halt", "idle"}, NEW keys
  PROVE  Outlined(At(n, keys), Six!waithalt, At(n, keys))
  <1>1. Six!waithalt = WaitUntil("halted") \o
          Unless("halted", (Six!keytoggle("INSTSTOP") \o Six!WaitUntil("halted"))
                             \o Six!Unless("halted", Six!Complain))
    BY DEF Six!waithalt, Six!WaitUntil, WaitUntil, Six!Unless, Unless, Six!If, If, Six!Step, Step
  <1> QED
    BY <1>1, HaltWaited

LEMMA SixStopped == Outlined(At("free", {}), Six!cpu_stopinst, At("halt", {}))
  <1>1. Outlined(At("sane", {}), Six!keytoggle("INSTSTOP"), At("halt", {}))
    <2>1. /\ Presses("sane", {}, "INSTSTOP", "stopping")
          /\ Sleeps("stopping", {"INSTSTOP"}, "halt") /\ Sleeps("halt", {"INSTSTOP"}, "halt")
      BY DEF Presses, Sleeps, Lasting, Facts
    <2>2. /\ "halt" \in Weaker("halt") /\ "halt" \in Lasting
          /\ {"sane", "stopping", "halt"} \subseteq Facts /\ {} \cup {"INSTSTOP"} = {"INSTSTOP"}
      BY DEF Weaker, Lasting, Facts
    <2> QED
      BY <2>1, <2>2, SixToggled
  <1>2. Outlined(At("sane", {}), Six!keytoggle("INSTSTOP") \o Six!waithalt, At("halt", {}))
    BY <1>1, SixHaltWaited, InTurn
  <1>3. Either("free", {}, "running", TRUE, Six!keytoggle("INSTSTOP") \o Six!waithalt, At("halt", {}))
    BY <1>2 DEF Either, Finds, Weaker, Facts
  <1>4. Either("free", {}, "running", FALSE, <<>>, At("halt", {}))
    BY Done DEF Either, Finds, Weaker, Facts
  <1> QED
    BY <1>3, <1>4, Chosen, SixSteps DEF Six!cpu_stopinst, Facts

(* A memory cycle that has stopped is continued, or the next instruction   *)
(* begins, and stops again if a stop key is down.                          *)
LEMMA SixContinued ==
  /\ Outlined(At("halt", {}), Six!togglecont, At("free", {}))
  /\ Outlined(At("halt", {"INSTSTOP"}), Six!togglecont, At("idle", {"INSTSTOP"}))
  /\ Outlined(At("rest", {"MEMSTOP"}), Six!togglecont, At("rest", {"MEMSTOP"}))
  <1>1. Outlined(At("halt", {}), Six!togglecont, At("free", {}))
    <2>1. Outlined(At("halt", {}), Six!keytoggle("MEMCONT"), At("free", {}))
      BY SixToggled DEF Presses, Sleeps, Weaker, Lasting, Facts, Lever
    <2>2. Outlined(At("idle", {}), Six!keytoggle("INSTCONT"), At("free", {}))
      BY SixToggled DEF Presses, Sleeps, Weaker, Lasting, Facts, Lever
    <2>3. Either("halt", {}, "stopped", TRUE, Six!keytoggle("MEMCONT"), At("free", {}))
      BY <2>1 DEF Either, Finds, Weaker, Facts
    <2>4. Either("halt", {}, "stopped", FALSE, Six!keytoggle("INSTCONT"), At("free", {}))
      BY <2>2 DEF Either, Finds, Weaker, Facts
    <2> QED
      BY <2>3, <2>4, Chosen, SixSteps DEF Six!togglecont, Facts
  <1>2. Outlined(At("halt", {"INSTSTOP"}), Six!togglecont, At("idle", {"INSTSTOP"}))
    <2>1. Outlined(At("halt", {"INSTSTOP"}), Six!keytoggle("MEMCONT"), At("idle", {"INSTSTOP"}))
      BY SixToggled DEF Presses, Sleeps, Weaker, Lasting, Facts, Lever, InstKeys, MemKeys
    <2>2. Outlined(At("idle", {"INSTSTOP"}), Six!keytoggle("INSTCONT"), At("idle", {"INSTSTOP"}))
      BY SixToggled DEF Presses, Sleeps, Weaker, Lasting, Facts, Lever, InstKeys, MemKeys
    <2>3. Either("halt", {"INSTSTOP"}, "stopped", TRUE, Six!keytoggle("MEMCONT"), At("idle", {"INSTSTOP"}))
      BY <2>1 DEF Either, Finds, Weaker, Facts
    <2>4. Either("halt", {"INSTSTOP"}, "stopped", FALSE, Six!keytoggle("INSTCONT"), At("idle", {"INSTSTOP"}))
      BY <2>2 DEF Either, Finds, Weaker, Facts
    <2> QED
      BY <2>3, <2>4, Chosen, SixSteps DEF Six!togglecont, Facts
  <1>3. Outlined(At("rest", {"MEMSTOP"}), Six!togglecont, At("rest", {"MEMSTOP"}))
    <2>1. Outlined(At("rest", {"MEMSTOP"}), Six!keytoggle("MEMCONT"), At("rest", {"MEMSTOP"}))
      BY SixToggled DEF Presses, Sleeps, Weaker, Lasting, Facts, Lever, InstKeys, MemKeys
    <2>2. Outlined(At("idle", {"MEMSTOP"}), Six!keytoggle("INSTCONT"), At("rest", {"MEMSTOP"}))
      BY SixToggled DEF Presses, Sleeps, Weaker, Lasting, Facts, Lever, InstKeys, MemKeys
    <2>3. Either("rest", {"MEMSTOP"}, "stopped", TRUE, Six!keytoggle("MEMCONT"), At("rest", {"MEMSTOP"}))
      BY <2>1 DEF Either, Finds, Weaker, Facts
    <2>4. Either("rest", {"MEMSTOP"}, "stopped", FALSE, Six!keytoggle("INSTCONT"), At("rest", {"MEMSTOP"}))
      BY <2>2 DEF Either, Finds, Weaker, Facts
    <2> QED
      BY <2>3, <2>4, Chosen, SixSteps DEF Six!togglecont, Facts
  <1> QED
    BY <1>1, <1>2, <1>3

(* A program that runs is not to be continued.                             *)
LEMMA SixRefused ==
  /\ Outlined(At("free", {}), Six!ErrIfRunning, At("rest", {}))
  /\ Outlined(At("free", {}), If("running", Err, <<>>), At("halt", {}))
  <1>1. Outlined(At("sane", {}), Err, At("rest", {})) /\ Outlined(At("sane", {}), Err, At("halt", {}))
    BY Mistaken DEF At
  <1>2. Outlined(At("sane", {}), Unless("stopped", Err), At("rest", {}))
    <2>1. Either("sane", {}, "stopped", TRUE, <<>>, At("rest", {}))
      BY Done DEF Either, Finds, Weaker, Facts
    <2>2. Either("sane", {}, "stopped", FALSE, Err, At("rest", {}))
      BY <1>1 DEF Either, Finds, Weaker, Facts
    <2> QED
      BY <2>1, <2>2, Chosen DEF Unless, Facts
  <1>3. Outlined(At("free", {}), If("running", Unless("stopped", Err), <<>>), At("rest", {}))
    <2>1. Either("free", {}, "running", TRUE, Unless("stopped", Err), At("rest", {}))
      BY <1>2 DEF Either, Finds, Weaker, Facts
    <2>2. Either("free", {}, "running", FALSE, <<>>, At("rest", {}))
      BY Done DEF Either, Finds, Weaker, Facts
    <2> QED
      BY <2>1, <2>2, Chosen DEF Facts
  <1>4. Outlined(At("free", {}), If("running", Err, <<>>), At("halt", {}))
    <2>1. Either("free", {}, "running", TRUE, Err, At("halt", {}))
      BY <1>1 DEF Either, Finds, Weaker, Facts
    <2>2. Either("free", {}, "running", FALSE, <<>>, At("halt", {}))
      BY Done DEF Either, Finds, Weaker, Facts
    <2> QED
      BY <2>1, <2>2, Chosen DEF Facts
  <1> QED
    BY <1>3, <1>4, SixSteps DEF Six!ErrIfRunning

LEMMA AddressSet ==
  ASSUME NEW keys
  PROVE  Outlined(At("halt", keys), set_ta, At("halt", keys))
  <1>1. Fits(At("halt", keys), [do |-> "ta", arg |-> {}], At("halt", keys))
    BY DEF Fits, At, Facts
  <1> QED
    BY <1>1, SimpleStep DEF set_ta, Step

(* What is promised of a call, and a little more: the processor does not   *)
(* go on behind it.                                                        *)
Goal(c) ==
  CASE c = "stopinst" -> "halt"
    [] c \in {"stopmem", "nextmem"} -> "rest"
    [] c \in {"nextinst", "exec", "ioreset"} -> "idle"
    [] c = "setpc" -> "set"
    [] OTHER -> "free"

LEMMA SixStarts ==
  ASSUME NEW key \in {"START", "READIN"}
  PROVE  Outlined(At("free", {}), Six!StartWith(key), At("free", {}))
  <1>1. Outlined(At("halt", {}), keyup({"INSTSTOP", "MEMSTOP", "ADRSTOP"}), At("halt", {}))
    <2>1. {} \ Lever({"INSTSTOP", "MEMSTOP", "ADRSTOP"}) = {}
      OBVIOUS
    <2> QED
      BY <2>1, Lifted DEF Weaker, Lasting, Facts
  <1>2. Outlined(At("halt", {}), set_ta, At("halt", {}))
    BY AddressSet
  <1>3. Outlined(At("halt", {}), Six!keytoggle(key), At("free", {}))
    <2>1. CASE key = "START"
      BY <2>1, SixToggled DEF Presses, Sleeps, Weaker, Lasting, Facts, Lever
    <2>2. CASE key = "READIN"
      BY <2>2, SixToggled DEF Presses, Sleeps, Weaker, Lasting, Facts, Lever
    <2> QED
      BY <2>1, <2>2
  <1>4. Outlined(At("free", {}), (Six!cpu_stopinst \o keyup({"INSTSTOP", "MEMSTOP", "ADRSTOP"})) \o set_ta, At("halt", {}))
    BY <1>1, <1>2, SixStopped, InTurn
  <1> QED
    BY <1>3, <1>4, InTurn, SixSteps DEF Six!StartWith

LEMMA SixSetPc == Outlined(At("free", {}), Six!cpu_setpc, At("set", {}))
  <1>1. Outlined(At("halt", {}), Six!keydown("MEMSTOP"), At("halt", {"MEMSTOP"}))
    BY SixPressed DEF Presses, Facts, Lever
  <1>2. Outlined(At("halt", {"MEMSTOP"}), keyup({"ADRSTOP"}), At("halt", {"MEMSTOP"}))
    <2>1. {"MEMSTOP"} \ Lever({"ADRSTOP"}) = {"MEMSTOP"}
      BY DEF Lever
    <2> QED
      BY <2>1, Lifted DEF Weaker, Lasting, Facts
  <1>3. Outlined(At("halt", {"MEMSTOP"}), set_ta, At("halt", {"MEMSTOP"}))
    BY AddressSet
  <1>4. Outlined(At("halt", {"MEMSTOP"}), Six!keytoggle("START"), At("held", {"MEMSTOP"}))
    BY SixToggled DEF Presses, Sleeps, Weaker, Lasting, Facts, Lever, MemKeys
  <1>5. Outlined(At("held", {"MEMSTOP"}), waitmemstop, At("held", {"MEMSTOP"}))
    BY StopWaited
  <1>6. Outlined(At("held", {"MEMSTOP"}), keyup({"MEMSTOP"}), At("held", {}))
    <2>1. {"MEMSTOP"} \ Lever({"MEMSTOP"}) = {}
      BY DEF Lever
    <2> QED
      BY <2>1, Lifted DEF Weaker, Lasting, Facts
  <1>7. Outlined(At("held", {}), Six!keytoggle("INSTSTOP"), At("off", {}))
    <2>1. /\ Presses("held", {}, "INSTSTOP", "shut")
          /\ Sleeps("shut", {} \cup {"INSTSTOP"}, "off") /\ Sleeps("off", {} \cup {"INSTSTOP"}, "off")
      BY DEF Presses, Sleeps, Lasting, Facts
    <2>2. "off" \in Weaker("off") /\ "off" \in Lasting /\ {"off", "shut", "held"} \subseteq Facts
      BY DEF Weaker, Lasting, Facts
    <2> QED
      BY <2>1, <2>2, SixToggled
  <1>8. Outlined(At("off", {}), Six!Down("THISEX"), At("set", {"THISEX"}))
    <2>1. Down("THISEX") \o <<>> = Down("THISEX")
      BY OneStep DEF Down, Step
    <2>2. Six!Down("THISEX") = Down("THISEX") /\ {} \cup {"THISEX"} = {"THISEX"}
      BY DEF Six!Down, Down, Six!Step, Step
    <2>3. Outlined(At("off", {}), Down("THISEX") \o <<>>, At("set", {} \cup {"THISEX"}))
      <3>1. Presses("off", {}, "THISEX", "set") /\ "off" \in Facts /\ "set" \in Facts
        BY DEF Presses, Facts
      <3> QED
        BY <3>1, Pressed
    <2> QED
      BY <2>1, <2>2, <2>3
  <1>9. /\ Outlined(At("set", {"THISEX"}), usleep, At("set", {"THISEX"}))
        /\ Outlined(At("set", {}), usleep, At("set", {}))
    BY Slept DEF Sleeps, Lasting, Facts
  <1>10. Outlined(At("set", {"THISEX"}), keyup({"THISEX"}), At("set", {}))
    <2>1. {"THISEX"} \ Lever({"THISEX"}) = {}
      BY DEF Lever
    <2> QED
      BY <2>1, Lifted DEF Weaker, Lasting, Facts
  <1> DEFINE caught == ((((Six!cpu_stopinst \o Six!keydown("MEMSTOP")) \o keyup({"ADRSTOP"}))
                            \o set_ta) \o Six!keytoggle("START")) \o waitmemstop
  <1>11. Outlined(At("free", {}), caught, At("held", {"MEMSTOP"}))
    BY <1>1, <1>2, <1>3, <1>4, <1>5, SixStopped, InTurn
  <1>12. Six!cpu_setpc = (((((caught \o keyup({"MEMSTOP"})) \o Six!keytoggle("INSTSTOP"))
                              \o Six!Down("THISEX")) \o usleep) \o keyup({"THISEX"})) \o usleep
    BY SixSteps DEF Six!cpu_setpc
  <1> HIDE DEF caught
  <1> QED
    BY <1>6, <1>7, <1>8, <1>9, <1>10, <1>11, <1>12, InTurn

LEMMA SixStepped ==
  /\ Outlined(At("free", {}), Six!cpu_stopmem, At("rest", {}))
  /\ Outlined(At("free", {}), Six!cpu_cont, At("free", {}))
  /\ Outlined(At("free", {}), Six!cpu_nextinst, At("idle", {}))
  /\ Outlined(At("free", {}), Six!cpu_nextmem, At("rest", {}))
  /\ Outlined(At("free", {}), Six!cpu_exec, At("idle", {}))
  /\ Outlined(At("free", {}), Six!cpu_ioreset, At("idle", {}))
  <1>1. /\ {"MEMSTOP"} \ Lever({"MEMSTOP"}) = {} /\ {"INSTSTOP"} \ Lever({"INSTSTOP"}) = {}
        /\ {} \ Lever({"INSTSTOP", "MEMSTOP"}) = {}
    BY DEF Lever
  <1>2. Outlined(At("free", {}), Six!cpu_stopmem, At("rest", {}))
    <2> DEFINE stop == (Six!keydown("MEMSTOP") \o waitmemstop) \o keyup({"MEMSTOP"})
    <2>1. Outlined(At("sane", {}), Six!keydown("MEMSTOP"), At("sane", {"MEMSTOP"}))
      BY SixPressed DEF Presses, Facts, Lever
    <2>2. Outlined(At("sane", {"MEMSTOP"}), waitmemstop, At("rest", {"MEMSTOP"}))
      BY StopWaited DEF MemKeys
    <2>3. Outlined(At("rest", {"MEMSTOP"}), keyup({"MEMSTOP"}), At("rest", {}))
      BY <1>1, Lifted DEF Weaker, Lasting, Facts
    <2>4. Outlined(At("sane", {}), stop, At("rest", {}))
      BY <2>1, <2>2, <2>3, InTurn
    <2>5. Six!cpu_stopmem = If("running", Unless("stopped", stop), <<>>)
      BY SixSteps DEF Six!cpu_stopmem
    <2> HIDE DEF stop
    <2>6. Outlined(At("sane", {}), Unless("stopped", stop), At("rest", {}))
      <3>1. Either("sane", {}, "stopped", TRUE, <<>>, At("rest", {}))
        BY Done DEF Either, Finds, Weaker, Facts
      <3>2. Either("sane", {}, "stopped", FALSE, stop, At("rest", {}))
        BY <2>4 DEF Either, Finds, Weaker, Facts
      <3> QED
        BY <3>1, <3>2, Chosen DEF Unless, Facts
    <2>7. Either("free", {}, "running", TRUE, Unless("stopped", stop), At("rest", {}))
      BY <2>6 DEF Either, Finds, Weaker, Facts
    <2>8. Either("free", {}, "running", FALSE, <<>>, At("rest", {}))
      BY Done DEF Either, Finds, Weaker, Facts
    <2> QED
      BY <2>5, <2>7, <2>8, Chosen DEF Facts
  <1>3. Outlined(At("free", {}), Six!cpu_cont, At("free", {}))
    <2> DEFINE cont == keyup({"INSTSTOP", "MEMSTOP"}) \o Six!togglecont
    <2>1. Outlined(At("halt", {}), keyup({"INSTSTOP", "MEMSTOP"}), At("halt", {}))
      BY <1>1, Lifted DEF Weaker, Lasting, Facts
    <2>2. Outlined(At("halt", {}), cont, At("free", {}))
      BY <2>1, SixContinued, InTurn
    <2>3. Six!cpu_cont = If("running", <<>>, cont)
      BY SixSteps DEF Six!cpu_cont, Unless
    <2> HIDE DEF cont
    <2>4. Either("free", {}, "running", TRUE, <<>>, At("free", {}))
      BY Done DEF Either, Finds, Weaker, Facts
    <2>5. Either("free", {}, "running", FALSE, cont, At("free", {}))
      BY <2>2 DEF Either, Finds, Weaker, Facts
    <2> QED
      BY <2>3, <2>4, <2>5, Chosen DEF Facts
  <1>4. Outlined(At("free", {}), Six!cpu_nextinst, At("idle", {}))
    <2>1. Outlined(At("rest", {}), Six!keydown("INSTSTOP"), At("halt", {"INSTSTOP"}))
      BY SixPressed DEF Presses, Sleeps, Facts, Lever
    <2>2. Outlined(At("idle", {"INSTSTOP"}), Six!waithalt, At("idle", {"INSTSTOP"}))
      BY SixHaltWaited
    <2>3. Outlined(At("idle", {"INSTSTOP"}), keyup({"INSTSTOP"}), At("idle", {}))
      BY <1>1, Lifted DEF Weaker, Lasting, Facts
    <2> QED
      BY <2>1, <2>2, <2>3, SixRefused, SixContinued, InTurn, SixSteps DEF Six!cpu_nextinst
  <1>5. Outlined(At("free", {}), Six!cpu_nextmem, At("rest", {}))
    <2>1. Outlined(At("rest", {}), Six!keydown("MEMSTOP"), At("rest", {"MEMSTOP"}))
      BY SixPressed DEF Presses, Facts, Lever
    <2>2. Outlined(At("rest", {"MEMSTOP"}), waitmemstop, At("rest", {"MEMSTOP"}))
      BY StopWaited
    <2>3. Outlined(At("rest", {"MEMSTOP"}), keyup({"MEMSTOP"}), At("rest", {}))
      BY <1>1, Lifted DEF Weaker, Lasting, Facts
    <2> QED
      BY <2>1, <2>2, <2>3, SixRefused, SixContinued, InTurn, SixSteps DEF Six!cpu_nextmem
  <1>6. Outlined(At("free", {}), Six!cpu_exec, At("idle", {}))
    <2>1. Outlined(At("halt", {}), Six!keytoggle("EXEC"), At("idle", {}))
      BY SixToggled DEF Presses, Sleeps, Weaker, Lasting, Facts, Lever
    <2> QED
      BY <2>1, SixRefused, InTurn, SixSteps DEF Six!cpu_exec
  <1>7. Outlined(At("free", {}), Six!cpu_ioreset, At("idle", {}))
    <2>1. Outlined(At("halt", {}), Six!keytoggle("RESET"), At("idle", {}))
      BY SixToggled DEF Presses, Sleeps, Weaker, Lasting, Facts, Lever
    <2> QED
      BY <2>1, SixRefused, InTurn, SixSteps DEF Six!cpu_ioreset
  <1> QED
    BY <1>2, <1>3, <1>4, <1>5, <1>6, <1>7

LEMMA SixOutlined ==
  ASSUME NEW c \in Calls
  PROVE  Outlined(At("free", {}), SixCalls[c], At(Goal(c), {}))
  <1>1. Outlined(At("free", {}), Six!cpu_stopinst, At("halt", {}))
    BY SixStopped
  <1>2. /\ Outlined(At("free", {}), Six!cpu_start, At("free", {}))
        /\ Outlined(At("free", {}), Six!cpu_readin, At("free", {}))
    BY SixStarts DEF Six!cpu_start, Six!cpu_readin
  <1> QED
    BY <1>1, <1>2, SixSetPc, SixStepped DEF SixCalls, Calls, Goal

-----------------------------------------------------------------------------
(* The calls on the KA10.                                                  *)

LEMMA KaSteps ==
  /\ Ka!usleep = usleep /\ Ka!set_ta = set_ta /\ Ka!Err = Err /\ Ka!waitmemstop = waitmemstop
  /\ \A ks : Ka!keyup(ks) = keyup(ks)
  /\ \A state, then, else : Ka!If(state, then, else) = If(state, then, else)
  /\ \A state, else : Ka!Unless(state, else) = Unless(state, else)
  BY DEF Ka!usleep, usleep, Ka!set_ta, set_ta, Ka!Err, Err, Ka!waitmemstop, waitmemstop,
         Ka!keyup, keyup, Ka!If, If, Ka!Unless, Unless, Ka!WaitUntil, WaitUntil,
         Ka!Complain, Complain, Ka!Step, Step

LEMMA KaPressed ==
  ASSUME NEW n \in Facts, NEW keys, NEW k, NEW m1 \in Facts, NEW m \in Facts,
         k \notin keys, keys \cap Lever({k}) = {}, Presses(n, keys, k, m1),
         IF k = "STOP" THEN Sleeps(m1, keys \cup {k}, m) ELSE m = m1
  PROVE  Outlined(At(n, keys), Ka!keydown(k), At(m, keys \cup {k}))
  <1> DEFINE pause == IF k = "STOP" THEN usleep ELSE <<>>
  <1>1. Ka!keydown(k) = Down(k) \o pause
    BY DEF Ka!keydown, Ka!Down, Down, Ka!usleep, usleep, Ka!Step, Step
  <1>2. \/ pause = <<>> /\ m = m1
        \/ pause = usleep /\ Sleeps(m1, keys \cup {k}, m)
    OBVIOUS
  <1> HIDE DEF pause
  <1>3. Outlined(At(n, keys), Down(k) \o pause, At(m, keys \cup {k}))
    BY <1>2, Pressed
  <1> QED
    BY <1>1, <1>3

LEMMA KaToggled ==
  ASSUME NEW n \in Facts, NEW keys, NEW k, NEW m1 \in Facts, NEW m \in Lasting, NEW m2 \in Facts,
         k \notin keys, keys \cap Lever({k}) = {}, Presses(n, keys, k, m1),
         Sleeps(m1, keys \cup {k}, m), Sleeps(m, keys \cup {k}, m), m2 \in Weaker(m)
  PROVE  Outlined(At(n, keys), Ka!keytoggle(k), At(m2, keys))
  <1> DEFINE pause == IF k = "STOP" THEN usleep ELSE <<>>
  <1>1. Ka!keytoggle(k) = ((Down(k) \o pause) \o usleep) \o keyup({k})
    BY DEF Ka!keytoggle, Ka!keydown, Ka!Down, Down, Ka!usleep, usleep, Ka!keyup, keyup, Ka!Step, Step
  <1>2. pause \in {<<>>, usleep}
    OBVIOUS
  <1> HIDE DEF pause
  <1> QED
    BY <1>1, <1>2, Toggled

LEMMA KaHaltWaited ==
  ASSUME NEW n \in {"halt", "idle"}, NEW keys
  PROVE  Outlined(At(n, keys), Ka!waithalt, At(n, keys))
  <1>1. Ka!waithalt = WaitUntil("halted") \o
          Unless("halted", (Ka!keytoggle("STOP") \o Ka!WaitUntil("halted"))
                             \o Ka!Unless("halted", Ka!Complain))
    BY DEF Ka!waithalt, Ka!WaitUntil, WaitUntil, Ka!Unless, Unless, Ka!If, If, Ka!Step, Step
  <1> QED
    BY <1>1, HaltWaited

LEMMA LeversUp ==
  /\ {"SING_INST"} \ Lever({"SING_INST"}) = {}
  /\ {"SING_CYC"} \ Lever({"SING_CYC"}) = {}
  /\ {"SING_CYC"} \ Lever({"ADR_STOP"}) = {"SING_CYC"}
  /\ \A ks : {} \ Lever(ks) = {}
  BY DEF Lever

LEMMA KaStopped == Outlined(At("free", {}), Ka!cpu_stopinst, At("halt", {}))
  <1> DEFINE stop == ((Ka!keytoggle("STOP") \o Ka!keydown("SING_INST")) \o Ka!waithalt) \o keyup({"SING_INST"})
  <1>1. Outlined(At("sane", {}), Ka!keytoggle("STOP"), At("halt", {}))
    <2>1. /\ Presses("sane", {}, "STOP", "stopping")
          /\ Sleeps("stopping", {} \cup {"STOP"}, "halt") /\ Sleeps("halt", {} \cup {"STOP"}, "halt")
      BY DEF Presses, Sleeps, Lasting, Facts
    <2>2. "halt" \in Weaker("halt") /\ "halt" \in Lasting /\ {"sane", "stopping", "halt"} \subseteq Facts
      BY DEF Weaker, Lasting, Facts
    <2> QED
      BY <2>1, <2>2, KaToggled
  <1>2. Outlined(At("halt", {}), Ka!keydown("SING_INST"), At("halt", {"SING_INST"}))
    BY KaPressed DEF Presses, Facts, Lever
  <1>3. Outlined(At("halt", {"SING_INST"}), Ka!waithalt, At("halt", {"SING_INST"}))
    BY KaHaltWaited
  <1>4. Outlined(At("halt", {"SING_INST"}), keyup({"SING_INST"}), At("halt", {}))
    BY LeversUp, Lifted DEF Weaker, Lasting, Facts
  <1>5. Outlined(At("sane", {}), stop, At("halt", {}))
    BY <1>1, <1>2, <1>3, <1>4, InTurn
  <1>6. Ka!cpu_stopinst = If("running", stop, <<>>)
    BY KaSteps DEF Ka!cpu_stopinst
  <1> HIDE DEF stop
  <1>7. Either("free", {}, "running", TRUE, stop, At("halt", {}))
    BY <1>5 DEF Either, Finds, Weaker, Facts
  <1>8. Either("free", {}, "running", FALSE, <<>>, At("halt", {}))
    BY Done DEF Either, Finds, Weaker, Facts
  <1> QED
    BY <1>6, <1>7, <1>8, Chosen DEF Facts

LEMMA KaRefused ==
  /\ Outlined(At("free", {}), Ka!ErrIfRunning, At("rest", {}))
  /\ Outlined(At("free", {}), If("running", Err, <<>>), At("halt", {}))
  <1>1. Outlined(At("sane", {}), Err, At("rest", {})) /\ Outlined(At("sane", {}), Err, At("halt", {}))
    BY Mistaken DEF At
  <1>2. Outlined(At("sane", {}), Unless("stopped", Err), At("rest", {}))
    <2>1. Either("sane", {}, "stopped", TRUE, <<>>, At("rest", {}))
      BY Done DEF Either, Finds, Weaker, Facts
    <2>2. Either("sane", {}, "stopped", FALSE, Err, At("rest", {}))
      BY <1>1 DEF Either, Finds, Weaker, Facts
    <2> QED
      BY <2>1, <2>2, Chosen DEF Unless, Facts
  <1>3. Outlined(At("free", {}), If("running", Unless("stopped", Err), <<>>), At("rest", {}))
    <2>1. Either("free", {}, "running", TRUE, Unless("stopped", Err), At("rest", {}))
      BY <1>2 DEF Either, Finds, Weaker, Facts
    <2>2. Either("free", {}, "running", FALSE, <<>>, At("rest", {}))
      BY Done DEF Either, Finds, Weaker, Facts
    <2> QED
      BY <2>1, <2>2, Chosen DEF Facts
  <1>4. Outlined(At("free", {}), If("running", Err, <<>>), At("halt", {}))
    <2>1. Either("free", {}, "running", TRUE, Err, At("halt", {}))
      BY <1>1 DEF Either, Finds, Weaker, Facts
    <2>2. Either("free", {}, "running", FALSE, <<>>, At("halt", {}))
      BY Done DEF Either, Finds, Weaker, Facts
    <2> QED
      BY <2>1, <2>2, Chosen DEF Facts
  <1> QED
    BY <1>3, <1>4, KaSteps DEF Ka!ErrIfRunning

(* One key continues both ways.                                            *)
LEMMA KaContinued ==
  /\ Outlined(At("rest", {}), Ka!togglecont, At("free", {}))
  /\ Outlined(At("rest", {"SING_INST"}), Ka!togglecont, At("idle", {"SING_INST"}))
  /\ Outlined(At("rest", {"SING_CYC"}), Ka!togglecont, At("rest", {"SING_CYC"}))
  <1>1. Outlined(At("rest", {}), Ka!keytoggle("CONT"), At("free", {}))
    BY KaToggled DEF Presses, Sleeps, Weaker, Lasting, Facts, Lever
  <1>2. Outlined(At("rest", {"SING_INST"}), Ka!keytoggle("CONT"), At("idle", {"SING_INST"}))
    BY KaToggled DEF Presses, Sleeps, Weaker, Lasting, Facts, Lever, InstKeys, MemKeys
  <1>3. Outlined(At("rest", {"SING_CYC"}), Ka!keytoggle("CONT"), At("rest", {"SING_CYC"}))
    BY KaToggled DEF Presses, Sleeps, Weaker, Lasting, Facts, Lever, InstKeys, MemKeys
  <1> QED
    BY <1>1, <1>2, <1>3 DEF Ka!togglecont

LEMMA KaStarts ==
  ASSUME NEW key \in {"START", "READIN"}
  PROVE  Outlined(At("free", {}), Ka!StartWith(key), At("free", {}))
  <1>1. Outlined(At("halt", {}), keyup({"SING_INST", "ADR_STOP"}), At("halt", {}))
    <2>1. {} \ Lever({"SING_INST", "ADR_STOP"}) = {}
      OBVIOUS
    <2> QED
      BY <2>1, Lifted DEF Weaker, Lasting, Facts
  <1>2. Outlined(At("halt", {}), set_ta, At("halt", {}))
    BY AddressSet
  <1>3. Outlined(At("halt", {}), Ka!keytoggle(key), At("free", {}))
    <2>1. CASE key = "START"
      BY <2>1, KaToggled DEF Presses, Sleeps, Weaker, Lasting, Facts, Lever
    <2>2. CASE key = "READIN"
      BY <2>2, KaToggled DEF Presses, Sleeps, Weaker, Lasting, Facts, Lever
    <2> QED
      BY <2>1, <2>2
  <1>4. Outlined(At("free", {}), (Ka!cpu_stopinst \o keyup({"SING_INST", "ADR_STOP"})) \o set_ta, At("halt", {}))
    BY <1>1, <1>2, KaStopped, InTurn
  <1> QED
    BY <1>3, <1>4, InTurn, KaSteps DEF Ka!StartWith

LEMMA KaSetPc == Outlined(At("free", {}), Ka!cpu_setpc, At("set", {}))
  <1>1. Outlined(At("halt", {}), Ka!keydown("SING_CYC"), At("halt", {"SING_CYC"}))
    BY KaPressed DEF Presses, Facts, Lever
  <1>2. Outlined(At("halt", {"SING_CYC"}), keyup({"ADR_STOP"}), At("halt", {"SING_CYC"}))
    BY LeversUp, Lifted DEF Weaker, Lasting, Facts
  <1>3. Outlined(At("halt", {"SING_CYC"}), set_ta, At("halt", {"SING_CYC"}))
    BY AddressSet
  <1>4. Outlined(At("halt", {"SING_CYC"}), Ka!keytoggle("START"), At("held", {"SING_CYC"}))
    BY KaToggled DEF Presses, Sleeps, Weaker, Lasting, Facts, Lever, MemKeys
  <1>5. Outlined(At("held", {"SING_CYC"}), waitmemstop, At("held", {"SING_CYC"}))
    BY StopWaited
  <1>6. Outlined(At("held", {"SING_CYC"}), keyup({"SING_CYC"}), At("held", {}))
    BY LeversUp, Lifted DEF Weaker, Lasting, Facts
  <1>7. Outlined(At("held", {}), Ka!keytoggle("STOP"), At("off", {}))
    <2>1. /\ Presses("held", {}, "STOP", "shut")
          /\ Sleeps("shut", {} \cup {"STOP"}, "off") /\ Sleeps("off", {} \cup {"STOP"}, "off")
      BY DEF Presses, Sleeps, Lasting, Facts
    <2>2. "off" \in Weaker("off") /\ "off" \in Lasting /\ {"off", "shut", "held"} \subseteq Facts
      BY DEF Weaker, Lasting, Facts
    <2> QED
      BY <2>1, <2>2, KaToggled
  <1>8. Outlined(At("off", {}), Ka!keytoggle("EX"), At("set", {}))
    <2>1. Presses("off", {}, "EX", "set") /\ Sleeps("set", {} \cup {"EX"}, "set")
      BY DEF Presses, Sleeps, Lasting, Facts
    <2>2. "set" \in Weaker("set") /\ "set" \in Lasting /\ "set" \in Facts /\ "off" \in Facts
      BY DEF Weaker, Lasting, Facts
    <2> QED
      BY <2>1, <2>2, KaToggled
  <1>9. Outlined(At("set", {}), usleep, At("set", {}))
    BY Slept DEF Sleeps, Lasting, Facts
  <1> DEFINE caught == ((((Ka!cpu_stopinst \o Ka!keydown("SING_CYC")) \o keyup({"ADR_STOP"}))
                            \o set_ta) \o Ka!keytoggle("START")) \o waitmemstop
  <1>10. Outlined(At("free", {}), caught, At("held", {"SING_CYC"}))
    BY <1>1, <1>2, <1>3, <1>4, <1>5, KaStopped, InTurn
  <1>11. Ka!cpu_setpc = (((caught \o keyup({"SING_CYC"})) \o Ka!keytoggle("STOP"))
                           \o Ka!keytoggle("EX")) \o usleep
    BY KaSteps DEF Ka!cpu_setpc
  <1> HIDE DEF caught
  <1> QED
    BY <1>6, <1>7, <1>8, <1>9, <1>10, <1>11, InTurn

LEMMA KaStepped ==
  /\ Outlined(At("free", {}), Ka!cpu_cont, At("free", {}))
  /\ Outlined(At("free", {}), Ka!cpu_nextinst, At("idle", {}))
  /\ Outlined(At("free", {}), Ka!cpu_nextmem, At("rest", {}))
  <1>1. Outlined(At("free", {}), Ka!cpu_cont, At("free", {}))
    <2> DEFINE cont == keyup({"SING_CYC", "SING_INST", "ADR_STOP"}) \o Ka!togglecont
    <2>1. Outlined(At("rest", {}), keyup({"SING_CYC", "SING_INST", "ADR_STOP"}), At("rest", {}))
      BY LeversUp, Lifted DEF Weaker, Lasting, Facts
    <2>2. Outlined(At("rest", {}), cont, At("free", {}))
      BY <2>1, KaContinued, InTurn
    <2>3. Ka!cpu_cont = If("running", <<>>, cont)
      BY KaSteps DEF Ka!cpu_cont, Unless
    <2> HIDE DEF cont
    <2>4. Either("free", {}, "running", TRUE, <<>>, At("free", {}))
      BY Done DEF Either, Finds, Weaker, Facts
    <2>5. Either("free", {}, "running", FALSE, cont, At("free", {}))
      BY <2>2 DEF Either, Finds, Weaker, Facts
    <2> QED
      BY <2>3, <2>4, <2>5, Chosen DEF Facts
  <1>2. Outlined(At("free", {}), Ka!cpu_nextinst, At("idle", {}))
    <2>1. Outlined(At("rest", {}), Ka!keydown("SING_INST"), At("rest", {"SING_INST"}))
      BY KaPressed DEF Presses, Facts, Lever
    <2>2. Outlined(At("idle", {"SING_INST"}), Ka!waithalt, At("idle", {"SING_INST"}))
      BY KaHaltWaited
    <2>3. Outlined(At("idle", {"SING_INST"}), keyup({"SING_INST"}), At("idle", {}))
      BY LeversUp, Lifted DEF Weaker, Lasting, Facts
    <2> QED
      BY <2>1, <2>2, <2>3, KaRefused, KaContinued, InTurn, KaSteps DEF Ka!cpu_nextinst
  <1>3. Outlined(At("free", {}), Ka!cpu_nextmem, At("rest", {}))
    <2>1. Outlined(At("rest", {}), Ka!keydown("SING_CYC"), At("rest", {"SING_CYC"}))
      BY KaPressed DEF Presses, Facts, Lever
    <2>2. Outlined(At("rest", {"SING_CYC"}), waitmemstop, At("rest", {"SING_CYC"}))
      BY StopWaited
    <2>3. Outlined(At("rest", {"SING_CYC"}), keyup({"SING_CYC"}), At("rest", {}))
      BY LeversUp, Lifted DEF Weaker, Lasting, Facts
    <2> QED
      BY <2>1, <2>2, <2>3, KaRefused, KaContinued, InTurn, KaSteps DEF Ka!cpu_nextmem
  <1> QED
    BY <1>1, <1>2, <1>3

LEMMA KaStoppedInCycle == Outlined(At("free", {}), Ka!cpu_stopmem, At("rest", {}))
  <1> DEFINE stop == (Ka!keydown("SING_CYC") \o waitmemstop) \o keyup({"SING_CYC"})
  <1>1. Outlined(At("sane", {}), Ka!keydown("SING_CYC"), At("sane", {"SING_CYC"}))
    BY KaPressed DEF Presses, Facts, Lever
  <1>2. Outlined(At("sane", {"SING_CYC"}), waitmemstop, At("rest", {"SING_CYC"}))
    BY StopWaited DEF MemKeys
  <1>3. Outlined(At("rest", {"SING_CYC"}), keyup({"SING_CYC"}), At("rest", {}))
    BY LeversUp, Lifted DEF Weaker, Lasting, Facts
  <1>4. Outlined(At("sane", {}), stop, At("rest", {}))
    BY <1>1, <1>2, <1>3, InTurn
  <1>5. Ka!cpu_stopmem = If("running", Unless("stopped", stop), <<>>)
    BY KaSteps DEF Ka!cpu_stopmem
  <1> HIDE DEF stop
  <1>6. Outlined(At("sane", {}), Unless("stopped", stop), At("rest", {}))
    <2>1. Either("sane", {}, "stopped", TRUE, <<>>, At("rest", {}))
      BY Done DEF Either, Finds, Weaker, Facts
    <2>2. Either("sane", {}, "stopped", FALSE, stop, At("rest", {}))
      BY <1>4 DEF Either, Finds, Weaker, Facts
    <2> QED
      BY <2>1, <2>2, Chosen DEF Unless, Facts
  <1>7. Either("free", {}, "running", TRUE, Unless("stopped", stop), At("rest", {}))
    BY <1>6 DEF Either, Finds, Weaker, Facts
  <1>8. Either("free", {}, "running", FALSE, <<>>, At("rest", {}))
    BY Done DEF Either, Finds, Weaker, Facts
  <1> QED
    BY <1>5, <1>7, <1>8, Chosen DEF Facts

LEMMA KaExecuted ==
  /\ Outlined(At("free", {}), Ka!cpu_exec, At("idle", {}))
  /\ Outlined(At("free", {}), Ka!cpu_ioreset, At("idle", {}))
  <1>1. Outlined(At("halt", {}), Ka!keytoggle("XCT"), At("idle", {}))
    BY KaToggled DEF Presses, Sleeps, Weaker, Lasting, Facts, Lever
  <1>2. Outlined(At("halt", {}), Ka!keytoggle("RESET"), At("idle", {}))
    BY KaToggled DEF Presses, Sleeps, Weaker, Lasting, Facts, Lever
  <1> QED
    BY <1>1, <1>2, KaRefused, InTurn, KaSteps DEF Ka!cpu_exec, Ka!cpu_ioreset

LEMMA KaOutlined ==
  ASSUME NEW c \in Calls
  PROVE  Outlined(At("free", {}), KaCalls[c], At(Goal(c), {}))
  <1>1. /\ Outlined(At("free", {}), Ka!cpu_start, At("free", {}))
        /\ Outlined(At("free", {}), Ka!cpu_readin, At("free", {}))
    BY KaStarts DEF Ka!cpu_start, Ka!cpu_readin
  <1> QED
    BY <1>1, KaStopped, KaSetPc, KaStoppedInCycle, KaStepped, KaExecuted DEF KaCalls, Calls, Goal

-----------------------------------------------------------------------------
(* The outlines tell the truth: of every step of a call that does not      *)
(* outrun the processor, and of whatever the processor does in between.    *)

RunInv == RunTypeOK /\ ~mistimed

LEMMA OutlineBegun ==
  ASSUME NEW a, NEW s, NEW b, Outlined(a, s, b), s # <<>>
  PROVE  \/ \E c : Fits(a, Head(s), c) /\ Outlined(c, Tail(s), b)
         \/ /\ Head(s).do = "if" /\ a.is \in Facts
            /\ \A truth \in BOOLEAN :
                 \/ Never(a.is, Head(s).arg.is, truth)
                 \/ \E m \in Facts :
                      /\ Finds(a.is, Head(s).arg.is, truth, m)
                      /\ Outlined(At(m, a.down), Branch(Head(s), truth) \o Tail(s), b)
         \/ Head(s).do = "err" /\ a.down = {} /\ a.is \in {"free", "sane"}
  <1>1. PICK O, S : Closed(O, S) /\ <<a, s, b>> \in O
    BY DEF Outlined
  <1>2. Begun(O, S, a, s, b)
    BY <1>1 DEF Closed
  <1>3. \A c, t : <<c, t, b>> \in O => Outlined(c, t, b)
    BY <1>1 DEF Outlined
  <1> QED
    BY <1>2, <1>3 DEF Begun

LEMMA OutlineEnded ==
  ASSUME NEW a, NEW b, Outlined(a, <<>>, b)
  PROVE  a = b
  BY DEF Outlined, Closed

LEMMA WeakerIsSo ==
  ASSUME RunTypeOK, NEW n \in Facts, NEW m \in Weaker(n), True(n)
  PROVE  m \in Facts /\ True(m)
  <1>1. \/ m = n
        \/ n \in {"sane", "rest", "halt", "idle"} /\ m = "free"
        \/ n \in {"rest", "halt", "idle"} /\ m = "sane"
        \/ n \in {"halt", "idle"} /\ m = "rest"
        \/ n = "idle" /\ m = "halt"
    BY DEF Weaker, Facts
  <1> QED
    BY <1>1 DEF True, RunTypeOK, Going, Stages, Facts

LEMMA HoldsWhen ==
  /\ Holds("running") <=> run
  /\ Holds("halted") <=> ~run
  /\ Holds("stopped") <=> mc_stop
  BY DEF Holds, isrunning, isstopped

(* What is known does not change when nothing does.                        *)
LEMMA Unchanged ==
  ASSUME UNCHANGED runVars
  PROVE  /\ RunTypeOK => RunTypeOK'
         /\ \A n : True(n) => True(n)'
  BY DEF RunTypeOK, True, Going, MemStop, InstStop, runVars, processor

LEMMA SleepsSoundly ==
  ASSUME RunTypeOK, NEW n \in Facts, True(n), NEW m \in Facts, Sleeps(n, down, m), Settled,
         inhibited' = FALSE, UNCHANGED <<machine, run, mc_stop, busy, mistimed, pc, down>>
  PROVE  True(m)'
  <1>1. /\ (Going' <=> Going) /\ (InstStop' <=> InstStop) /\ (MemStop' <=> MemStop)
    BY DEF Going, InstStop, MemStop
  <1>2. CASE n \in Lasting \ {"flight", "stopping", "shut"} /\ m = n
    BY <1>1, <1>2 DEF True, Facts
  <1>3. CASE n = "flight" /\ m = "sane"
    BY <1>1, <1>3 DEF True, Settled
  <1>4. CASE n \in {"flight", "sane"} /\ down \cap (InstKeys \cup MemKeys) # {} /\ m = "rest"
    <2>1. InstStop \/ MemStop
      BY <1>4 DEF InstStop, MemStop, InstKeys, MemKeys
    <2> QED
      BY <1>1, <1>4, <2>1 DEF True, Settled
  <1>5. CASE n = "stopping" /\ m = "halt"
    BY <1>1, <1>5 DEF True, Settled
  <1>6. CASE n = "shut" /\ m = "off"
    BY <1>1, <1>6 DEF True
  <1>7. CASE n = "ending" /\ m = "idle"
    BY <1>1, <1>7 DEF True, Settled, Going, Stages, RunTypeOK
  <1>8. CASE n = "caught" /\ m = "held"
    BY <1>1, <1>8 DEF True, Settled, Going, Stages
  <1> QED
    BY <1>2, <1>3, <1>4, <1>5, <1>6, <1>7, <1>8 DEF Sleeps

LEMMA FinishesSoundly ==
  ASSUME RunTypeOK, NEW n \in Facts, True(n), NEW state, NEW m, Finishes(n, down, state, m),
         Holds(state) \/ Settled
  PROVE  True(m)
  <1>1. CASE n \in {"rest", "halt", "idle", "held"} /\ m = n
    BY <1>1
  <1>2. CASE n = "sane" /\ state = "stopped" /\ down \cap MemKeys # {} /\ m = "rest"
    <2>1. mc_stop \/ ~Going \/ ~MemStop
      BY <1>2, HoldsWhen DEF Settled
    <2>2. MemStop
      BY <1>2 DEF MemStop, MemKeys
    <2> QED
      BY <1>2, <2>1, <2>2 DEF True, Going
  <1> QED
    BY <1>1, <1>2 DEF Finishes

(* run is off for good.                                                    *)
Off(state) == ~(state # "stopped" /\ ~run /\ (Going \/ busy = "readin"))

LEMMA FindsSoundly ==
  ASSUME RunTypeOK, NEW n \in Facts, True(n), NEW state, Off(state),
         NEW truth \in BOOLEAN, NEW m \in Facts, Finds(n, state, truth, m), truth <=> Holds(state)
  PROVE  True(m)
  <1>1. CASE state = "running"
    <2>1. (truth <=> run) /\ (~run => ~Going /\ busy # "readin")
      BY <1>1, HoldsWhen DEF Off
    <2>2. CASE truth /\ n = "free" /\ m \in Weaker("sane")
      <3>1. True("sane")
        BY <2>1, <2>2 DEF True, RunTypeOK, Facts
      <3> QED
        BY <2>2, <3>1, WeakerIsSo DEF Facts
    <2>3. CASE n \in {"sane", "rest", "held"} /\ m \in Weaker(n)
      BY <2>3, WeakerIsSo
    <2>4. CASE ~truth /\ n = "held" /\ m = n
      BY <2>4
    <2>5. CASE ~truth /\ n \in {"free", "sane", "rest"} /\ m \in Weaker("halt")
      <3>1. True("halt")
        BY <2>1, <2>5 DEF True, Facts
      <3> QED
        BY <2>5, <3>1, WeakerIsSo DEF Facts
    <2> QED
      BY <1>1, <2>2, <2>3, <2>4, <2>5 DEF Finds
  <1>2. CASE state = "stopped"
    <2>1. truth <=> mc_stop
      BY <1>2, HoldsWhen
    <2>2. CASE truth /\ n \in {"free", "sane", "rest"} /\ m \in Weaker("rest")
      <3>1. True("rest")
        BY <2>1, <2>2 DEF True, RunTypeOK, Going, Cycles, Facts
      <3> QED
        BY <2>2, <3>1, WeakerIsSo DEF Facts
    <2>3. CASE n \in {"halt", "held"} /\ m \in Weaker(n)
      BY <2>3, WeakerIsSo
    <2>4. CASE n \in {"free", "sane"} /\ m = n
      BY <2>4
    <2>5. CASE ~truth /\ n \in {"rest", "halt"} /\ m \in Weaker("idle")
      <3>1. True("idle")
        BY <2>1, <2>5 DEF True, RunTypeOK, Going, Stages, Facts
      <3> QED
        BY <2>5, <3>1, WeakerIsSo DEF Facts
    <2> QED
      BY <1>2, <2>2, <2>3, <2>4, <2>5 DEF Finds
  <1>3. CASE state = "halted"
    BY <1>3, WeakerIsSo DEF Finds
  <1> QED
    BY <1>1, <1>2, <1>3 DEF Finds

LEMMA NeverFound ==
  ASSUME RunTypeOK, NEW n \in Facts, True(n), NEW state, NEW truth \in BOOLEAN,
         truth <=> Holds(state)
  PROVE  ~Never(n, state, truth)
  BY HoldsWhen DEF Never, True, RunTypeOK, Going, Stages, Facts

-----------------------------------------------------------------------------
(* The processor goes on.                                                  *)

LEMMA AfterCycles ==
  ASSUME busy \in Cycles
  PROVE  After(busy) \subseteq {"operand", "end", "store", "last"}
  BY DEF Cycles, After

LEMMA TypeWhileItWorks ==
  ASSUME RunTypeOK, Works
  PROVE  RunTypeOK' /\ mistimed' = mistimed /\ inhibited' = inhibited /\ down' = down
  <1>1. CASE MemoryCycle
    <2>1. After(busy) \subseteq Stages
      BY <1>1, AfterCycles DEF MemoryCycle, Stages
    <2> QED
      BY <1>1, <2>1 DEF MemoryCycle, RunTypeOK, Cycles, Stages
  <1>2. CASE CutOff
    BY <1>2 DEF CutOff, RunTypeOK, Cycles, Stages
  <1>3. CASE Execute
    <2>1. /\ busy = "end" /\ busy' \in {"operand", "store", "last"} /\ run' \in BOOLEAN
          /\ pc' = "other" /\ UNCHANGED <<machine, mc_stop, inhibited, mistimed, down>>
      BY <1>3 DEF Execute, RunTypeOK
    <2> QED
      BY <2>1 DEF RunTypeOK, Cycles, Stages
  <1>4. CASE EndInstruction
    BY <1>4 DEF EndInstruction, RunTypeOK, Cycles, Stages
  <1>5. CASE ReadInDone
    BY <1>5 DEF ReadInDone, RunTypeOK, Cycles, Stages
  <1> QED
    BY <1>1, <1>2, <1>3, <1>4, <1>5 DEF Works

LEMMA WorksOn ==
  ASSUME RunTypeOK, NEW n \in Facts, True(n), Works
  PROVE  True(n)'
  <1>0. down' = down /\ inhibited' = inhibited /\ (InstStop' <=> InstStop) /\ (MemStop' <=> MemStop)
    BY TypeWhileItWorks DEF InstStop, MemStop
  <1>1. CASE MemoryCycle
    <2>1. /\ busy \in Cycles /\ ~mc_stop /\ run' = run /\ pc' = pc
          /\ MemStop => mc_stop' = TRUE /\ busy' = busy
          /\ ~MemStop => busy' \in {"operand", "end", "store", "last"} /\ mc_stop' = mc_stop
      BY <1>1, AfterCycles DEF MemoryCycle
    <2>2. Going /\ busy # "no" /\ busy # "readin" /\ busy # "last"
      BY <2>1 DEF Going, Cycles, Stages
    <2>3. CASE MemStop
      <3>1. ~Going' /\ mc_stop'
        BY <2>1, <2>3 DEF Going
      <3> QED
        BY <1>0, <2>1, <2>2, <2>3, <3>1 DEF True, Facts
    <2>4. CASE ~MemStop
      BY <1>0, <2>1, <2>2, <2>4 DEF True, Facts
    <2> QED
      BY <2>3, <2>4
  <1>2. CASE CutOff
    <2>1. /\ inhibited /\ ~run /\ busy' = "no" /\ ~mc_stop /\ UNCHANGED <<run, mc_stop, pc>>
          /\ ~Going'
      BY <1>2 DEF CutOff, Going, Stages
    <2>2. n = "stopping"
      BY <2>1 DEF True, Facts
    <2> QED
      BY <2>1, <2>2 DEF True
  <1>3. CASE Execute
    <2>1. /\ busy = "end" /\ Going /\ ~mc_stop /\ mc_stop' = mc_stop
          /\ run' = TRUE => run = TRUE /\ ~InstStop
          /\ busy' # "no" /\ busy' # "readin" /\ run' \in BOOLEAN
          /\ run /\ ~InstStop /\ ~run' => busy' = "last"
      BY <1>3 DEF Execute, Going, Stages, RunTypeOK, Cycles
    <2> QED
      BY <1>0, <2>1 DEF True, Facts, RunTypeOK
  <1>4. CASE EndInstruction
    <2>1. /\ busy = "last" /\ Going /\ ~mc_stop /\ mc_stop' = mc_stop /\ run' = run /\ pc' = pc
          /\ run => busy' = "fetch"
          /\ ~run => busy' = "no" /\ ~Going'
      BY <1>4 DEF EndInstruction, Going, Stages, RunTypeOK, Cycles
    <2> QED
      BY <1>0, <2>1 DEF True, Facts
  <1>5. CASE ReadInDone
    <2>1. /\ busy = "readin" /\ busy' = "last" /\ ~mc_stop /\ mc_stop' = mc_stop
          /\ run' = ("SING_INST" \notin down)
      BY <1>5 DEF ReadInDone, RunTypeOK, Cycles
    <2>2. n = "free"
      BY <2>1 DEF True, Facts
    <2>3. ~InstStop => "SING_INST" \notin down
      BY DEF InstStop
    <2> QED
      BY <1>0, <2>1, <2>2, <2>3 DEF True
  <1> QED
    BY <1>1, <1>2, <1>3, <1>4, <1>5 DEF Works

-----------------------------------------------------------------------------
(* Keys.                                                                   *)

(* What a key does, when it is pressed at all.                             *)
LEMMA KeyDoes ==
  ASSUME NEW k, k \notin down, KeyDown(k)
  PROVE  /\ down' = (down \ Lever({k})) \cup {k} /\ machine' = machine
         /\ k \in {"INSTSTOP", "STOP"} => StopPressed
         /\ k = "START" => Taken("fetch", TRUE, "ta")
         /\ k = "READIN" =>
              IF machine = "pdp6" THEN Taken("fetch", TRUE, "ta") ELSE Taken("readin", FALSE, "other")
         /\ k = "INSTCONT" => Taken("fetch", TRUE, pc)
         /\ k = "MEMCONT" => Continued
         /\ k = "CONT" => IF mc_stop THEN Continued ELSE Taken("fetch", TRUE, pc)
         /\ k \in {"EXEC", "XCT"} => Taken("operand", FALSE, pc)
         /\ k \in {"THISEX", "EX"} => Taken("no", FALSE, pc)
         /\ k = "RESET" => IF machine = "ka10" /\ run THEN StopPressed ELSE Taken("no", FALSE, pc)
         /\ k \in {"SING_INST", "MEMSTOP", "SING_CYC"} => UNCHANGED processor
  <1>1. Effect(k) /\ down' = (down \ Lever({k})) \cup {k} /\ machine' = machine
    BY DEF KeyDown
  <1> QED
    BY <1>1 DEF Effect

LEMMA TakenWhen ==
  ASSUME RunInv, NEW b, NEW r, NEW p, Taken(b, r, p), ~run, ~Going, ~inhibited
  PROVE  /\ busy' = b /\ run' = r /\ pc' = p /\ mc_stop' = FALSE
         /\ mistimed' = FALSE /\ inhibited' = FALSE
  BY DEF Taken, RunInv, RunTypeOK

LEMMA ContinuedWhen ==
  ASSUME RunTypeOK, Continued
  PROVE  /\ UNCHANGED <<run, inhibited, mistimed, pc>>
         /\ mc_stop => mc_stop' = FALSE /\ busy' \in {"operand", "end", "store", "last"}
         /\ ~mc_stop => UNCHANGED <<mc_stop, busy>>
  BY AfterCycles DEF Continued, RunTypeOK

LEMMA TypeWhenPressed ==
  ASSUME RunTypeOK, NEW k, KeyDown(k)
  PROVE  RunTypeOK'
  <1>1. machine' = machine /\ (UNCHANGED processor \/ Effect(k))
    BY DEF KeyDown
  <1>2. CASE UNCHANGED processor
    BY <1>1, <1>2 DEF processor, RunTypeOK
  <1>3. ASSUME NEW b, NEW r, NEW p, Taken(b, r, p), p \in {"ta", "other"},
               \/ b \in {"fetch", "operand"} /\ r \in BOOLEAN
               \/ b = "no" /\ r = FALSE
               \/ b = "readin" /\ r = FALSE /\ machine # "pdp6"
        PROVE  RunTypeOK'
    <2>1. CASE run
      BY <1>1, <1>2, <1>3, <2>1 DEF Taken
    <2>2. CASE ~run
      BY <1>1, <1>3, <2>2 DEF Taken, RunTypeOK, Stages, Cycles
    <2> QED
      BY <2>1, <2>2
  <1>4. ASSUME StopPressed PROVE RunTypeOK'
    BY <1>1, <1>4 DEF StopPressed, RunTypeOK
  <1>5. ASSUME Continued PROVE RunTypeOK'
    <2>1. UNCHANGED <<machine, run, inhibited, mistimed, pc>>
      BY <1>1, <1>5, ContinuedWhen
    <2>2. CASE mc_stop
      BY <1>5, <2>1, <2>2, ContinuedWhen DEF RunTypeOK, Stages, Cycles
    <2>3. CASE ~mc_stop
      <3>1. UNCHANGED <<mc_stop, busy>>
        BY <1>5, <2>3, ContinuedWhen
      <3> QED
        BY <2>1, <3>1 DEF RunTypeOK
    <2> QED
      BY <2>2, <2>3 DEF RunTypeOK
  <1>6. CASE Effect(k)
    <2>1. pc \in {"ta", "other"}
      BY DEF RunTypeOK
    <2>2. CASE k \in {"INSTSTOP", "STOP"}
      BY <1>4, <1>6, <2>2 DEF Effect
    <2>3. CASE k = "START"
      BY <1>3, <1>6, <2>3 DEF Effect
    <2>4. CASE k = "READIN"
      <3>1. CASE machine = "pdp6"
        BY <1>3, <1>6, <2>4, <3>1 DEF Effect
      <3>2. CASE machine # "pdp6"
        <4>1. Taken("readin", FALSE, "other")
          BY <1>6, <2>4, <3>2 DEF Effect
        <4> QED
          BY <1>3, <3>2, <4>1
      <3> QED
        BY <3>1, <3>2
    <2>5. CASE k = "INSTCONT"
      BY <1>3, <1>6, <2>1, <2>5 DEF Effect
    <2>6. CASE k = "MEMCONT"
      BY <1>5, <1>6, <2>6 DEF Effect
    <2>7. CASE k = "CONT"
      BY <1>3, <1>5, <1>6, <2>1, <2>7 DEF Effect
    <2>8. CASE k \in {"EXEC", "XCT"}
      BY <1>3, <1>6, <2>1, <2>8 DEF Effect
    <2>9. CASE k \in {"THISEX", "EX"}
      BY <1>3, <1>6, <2>1, <2>9 DEF Effect
    <2>10. CASE k = "RESET"
      BY <1>3, <1>4, <1>6, <2>1, <2>10 DEF Effect
    <2>11. CASE k \notin {"INSTSTOP", "STOP", "START", "READIN", "INSTCONT", "MEMCONT", "CONT",
                          "EXEC", "XCT", "THISEX", "EX", "RESET"}
      BY <1>2, <1>6, <2>11 DEF Effect
    <2> QED
      BY <2>2, <2>3, <2>4, <2>5, <2>6, <2>7, <2>8, <2>9, <2>10, <2>11
  <1> QED
    BY <1>1, <1>2, <1>6

LEMMA PressesSoundly ==
  ASSUME RunInv, NEW n \in Facts, True(n), NEW k, k \notin down, KeyDown(k),
         NEW m \in Facts, Presses(n, down, k, m)
  PROVE  ~mistimed' /\ True(m)'
  <1>1. down' = (down \ Lever({k})) \cup {k} /\ machine' = machine
    BY KeyDoes
  <1>2. k \notin {"INSTSTOP", "MEMSTOP"} => down' = down \cup {k}
    BY <1>1 DEF Lever
  <1>3. CASE k \in {"INSTSTOP", "STOP"}
    <2>1. run' = FALSE /\ UNCHANGED <<mc_stop, busy, mistimed, pc>>
      BY <1>3, KeyDoes DEF StopPressed
    <2>2. \/ n \in {"sane", "rest", "halt"} /\ m = "stopping"
          \/ n = "held" /\ m = "shut"
      BY <1>3 DEF Presses
    <2> QED
      BY <2>1, <2>2 DEF RunInv, True
  <1>4. CASE k \in {"SING_INST", "MEMSTOP", "SING_CYC"}
    <2>1. UNCHANGED <<run, mc_stop, inhibited, busy, mistimed, pc>>
      BY <1>4, KeyDoes DEF processor
    <2>2. m = n /\ (n \in {"rest", "halt"} \/ (n = "sane" /\ k \in {"MEMSTOP", "SING_CYC"}))
      BY <1>4 DEF Presses
    <2>3. k \in {"MEMSTOP", "SING_CYC"} /\ InstStop' => InstStop
      BY <1>1 DEF InstStop
    <2> QED
      BY <2>1, <2>2, <2>3 DEF RunInv, True, Going
  <1>5. CASE k = "START"
    <2>1. n = "halt" /\ ((m = "sane" /\ down \cap InstKeys = {}) \/ (m = "caught" /\ down \cap MemKeys # {}))
      BY <1>5 DEF Presses
    <2>2. ~run /\ ~Going /\ ~inhibited
      BY <2>1 DEF True
    <2>3. /\ busy' = "fetch" /\ run' = TRUE /\ pc' = "ta" /\ mc_stop' = FALSE
          /\ mistimed' = FALSE /\ inhibited' = FALSE
      BY <1>5, <2>2, KeyDoes, TakenWhen
    <2>4. (m = "sane" => ~InstStop') /\ (m = "caught" => MemStop')
      BY <1>2, <1>5, <2>1 DEF InstStop, MemStop, InstKeys, MemKeys
    <2> QED
      BY <2>1, <2>3, <2>4 DEF True
  <1>6. CASE k = "READIN"
    <2>1. n = "halt" /\ m = "free" /\ down \cap InstKeys = {}
      BY <1>6 DEF Presses
    <2>2. ~run /\ ~Going /\ ~inhibited
      BY <2>1 DEF True
    <2>3. ~InstStop'
      BY <1>2, <1>6, <2>1 DEF InstStop, InstKeys
    <2>4. \/ busy' = "fetch" /\ run' = TRUE /\ mistimed' = FALSE /\ inhibited' = FALSE
          \/ busy' = "readin" /\ mistimed' = FALSE /\ inhibited' = FALSE
      BY <1>6, <2>2, KeyDoes, TakenWhen
    <2> QED
      BY <2>1, <2>3, <2>4 DEF True, Going, Stages
  <1>7. CASE k = "MEMCONT"
    <2>1. Continued
      BY <1>7, KeyDoes
    <2>2. /\ n \in {"rest", "halt"} /\ m \in {"flight", "ending"}
          /\ m = "ending" => n = "halt" /\ down \cap MemKeys = {}
      BY <1>7 DEF Presses
    <2>3. ~Going /\ ~inhibited /\ busy # "readin" /\ (n = "halt" => ~run)
      BY <2>2 DEF True
    <2>4. m = "ending" => ~run /\ ~MemStop'
      BY <1>2, <1>7, <2>2, <2>3 DEF MemStop, MemKeys
    <2>5. run' = run /\ inhibited' = inhibited /\ mistimed' = mistimed /\ busy' # "readin" /\ mc_stop' = FALSE
      BY <2>1, <2>3, ContinuedWhen DEF RunInv, RunTypeOK
    <2> QED
      BY <2>2, <2>3, <2>4, <2>5 DEF RunInv, True
  <1>8. CASE k = "INSTCONT"
    <2>1. Taken("fetch", TRUE, pc)
      BY <1>8, KeyDoes
    <2>2. /\ n = "idle" /\ m \in {"flight", "ending"}
          /\ m = "ending" => down \cap InstKeys # {} /\ down \cap MemKeys = {}
      BY <1>8 DEF Presses
    <2>3. ~Going /\ ~run /\ ~inhibited
      BY <2>2 DEF True, Going, Stages, RunInv, RunTypeOK
    <2>4. m = "ending" => ~MemStop' /\ InstStop'
      BY <1>2, <1>8, <2>2 DEF MemStop, InstStop, MemKeys, InstKeys
    <2>5. busy' = "fetch" /\ mc_stop' = FALSE /\ mistimed' = FALSE /\ inhibited' = FALSE
      BY <2>1, <2>3, TakenWhen
    <2> QED
      BY <2>2, <2>4, <2>5 DEF True
  <1>9. CASE k = "CONT"
    <2>1. /\ n = "rest" /\ m \in {"flight", "ending"}
          /\ m = "ending" => down \cap InstKeys # {} /\ down \cap MemKeys = {}
      BY <1>9 DEF Presses
    <2>2. ~Going /\ ~inhibited
      BY <2>1 DEF True
    <2>3. m = "ending" => ~MemStop' /\ InstStop'
      BY <1>2, <1>9, <2>1 DEF MemStop, InstStop, MemKeys, InstKeys
    <2>4. CASE mc_stop
      <3>1. /\ busy' \in {"operand", "end", "store", "last"} /\ mc_stop' = FALSE
            /\ UNCHANGED <<inhibited, mistimed>>
        BY <1>9, <2>4, KeyDoes, ContinuedWhen DEF RunInv
      <3> QED
        BY <2>1, <2>2, <2>3, <3>1 DEF RunInv, True
    <2>5. CASE ~mc_stop
      <3>1. ~run
        BY <2>1, <2>2, <2>5 DEF True, Going, Stages, RunInv, RunTypeOK
      <3>2. busy' = "fetch" /\ mc_stop' = FALSE /\ mistimed' = FALSE /\ inhibited' = FALSE
        BY <1>9, <2>2, <2>5, <3>1, KeyDoes, TakenWhen
      <3> QED
        BY <2>1, <2>3, <3>2 DEF True
    <2> QED
      BY <2>4, <2>5
  <1>10. CASE k \in {"EXEC", "XCT"}
    <2>1. n = "halt" /\ m = "ending" /\ down \cap MemKeys = {}
      BY <1>10 DEF Presses
    <2>2. ~run /\ ~Going /\ ~inhibited
      BY <2>1 DEF True
    <2>3. /\ busy' = "operand" /\ run' = FALSE /\ mc_stop' = FALSE
          /\ mistimed' = FALSE /\ inhibited' = FALSE
      BY <1>10, <2>2, KeyDoes, TakenWhen
    <2>4. ~MemStop'
      BY <1>2, <1>10, <2>1 DEF MemStop, MemKeys
    <2> QED
      BY <2>1, <2>3, <2>4 DEF True
  <1>11. CASE k \in {"THISEX", "EX", "RESET"}
    <2>1. \/ n = "halt" /\ m = "idle"
          \/ n = "off" /\ m = "set"
      BY <1>11 DEF Presses
    <2>2. ~run /\ ~Going /\ ~inhibited
      BY <2>1 DEF True, Going
    <2>3. Taken("no", FALSE, pc)
      BY <1>11, <2>2, KeyDoes
    <2>4. busy' = "no" /\ pc' = pc /\ mistimed' = FALSE /\ inhibited' = FALSE
      BY <2>2, <2>3, TakenWhen
    <2> QED
      BY <2>1, <2>4 DEF True
  <1> QED
    BY <1>3, <1>4, <1>5, <1>6, <1>7, <1>8, <1>9, <1>10, <1>11 DEF Presses

-----------------------------------------------------------------------------
(* The steps of a call.                                                    *)

LEMMA TypeInCall ==
  ASSUME RunTypeOK, ConsoleTypeOK, InCall
  PROVE  /\ RunTypeOK' /\ ConsoleTypeOK' /\ call' = call /\ script # <<>>
         /\ outrun => outrun'
  <1>1. CASE KeyStep
    <2>1. script # <<>> /\ UNCHANGED <<call, started, outrun>>
      BY <1>1 DEF KeyStep, Goes
    <2>2. \/ KeyDown(Due.arg)
          \/ KeyUp(Due.arg)
          \/ pc' = "other" /\ UNCHANGED <<machine, run, mc_stop, inhibited, busy, mistimed, down>>
      BY <1>1 DEF KeyStep
    <2>3. RunTypeOK'
      <3>1. CASE KeyDown(Due.arg)
        BY <3>1, TypeWhenPressed
      <3>2. CASE KeyUp(Due.arg)
        BY <3>2 DEF KeyUp, processor, RunTypeOK
      <3>3. CASE pc' = "other" /\ UNCHANGED <<machine, run, mc_stop, inhibited, busy, mistimed, down>>
        BY <3>3 DEF RunTypeOK
      <3> QED
        BY <2>2, <3>1, <3>2, <3>3
    <2> QED
      BY <2>1, <2>3 DEF ConsoleTypeOK
  <1>2. CASE SleepStep
    <2>1. /\ script # <<>> /\ UNCHANGED <<call, started>> /\ outrun' = (outrun \/ ~Settled)
          /\ inhibited' = FALSE /\ UNCHANGED <<machine, run, mc_stop, busy, mistimed, pc, down>>
      BY <1>2 DEF SleepStep, Goes
    <2> QED
      BY <2>1 DEF RunTypeOK, ConsoleTypeOK
  <1>3. CASE WaitStep
    <2>1. /\ script # <<>> /\ UNCHANGED <<call, started>> /\ UNCHANGED runVars
          /\ \/ outrun' = outrun
             \/ outrun' = (outrun \/ ~(Holds(Due.arg) \/ Settled))
      BY <1>3 DEF WaitStep, Goes
    <2>2. RunTypeOK'
      BY <2>1, Unchanged
    <2>3. outrun' \in BOOLEAN /\ (outrun => outrun')
      <3>1. CASE outrun' = outrun
        BY <3>1 DEF ConsoleTypeOK
      <3>2. CASE outrun' = (outrun \/ ~(Holds(Due.arg) \/ Settled))
        <4>1. CASE Holds(Due.arg) \/ Settled
          BY <3>2, <4>1 DEF ConsoleTypeOK
        <4>2. CASE ~(Holds(Due.arg) \/ Settled)
          BY <3>2, <4>2
        <4> QED
          BY <4>1, <4>2
      <3> QED
        BY <2>1, <3>1, <3>2
    <2> QED
      BY <2>1, <2>2, <2>3 DEF ConsoleTypeOK
  <1>4. CASE IfStep
    <2>1. /\ script # <<>> /\ UNCHANGED <<call, started>> /\ UNCHANGED runVars
          /\ outrun' = (outrun \/ ~Off(Due.arg.is))
      BY <1>4 DEF IfStep, Off
    <2> QED
      BY <2>1, Unchanged DEF ConsoleTypeOK
  <1>5. CASE StartedStep
    <2>1. script # <<>> /\ UNCHANGED <<call, outrun>> /\ UNCHANGED runVars /\ started' = TRUE
      BY <1>5 DEF StartedStep
    <2> QED
      BY <2>1, Unchanged DEF ConsoleTypeOK
  <1> QED
    BY <1>1, <1>2, <1>3, <1>4, <1>5 DEF InCall

(* What is known before a step that fits it leads to what is known behind. *)
LEMMA StepsSoundly ==
  ASSUME RunInv, NEW a, Known(a), NEW c, Fits(a, Due, c), ~outrun',
         KeyStep \/ SleepStep \/ WaitStep \/ StartedStep
  PROVE  ~mistimed' /\ Known(c)' /\ script' = Tail(script)
  <1>1. a.is \in Facts /\ c.is \in Facts /\ True(a.is) /\ down = a.down /\ RunTypeOK /\ ~mistimed
    BY DEF Known, Fits, RunInv
  <1>2. ASSUME UNCHANGED runVars, True(c.is), c.down = a.down
        PROVE  ~mistimed' /\ Known(c)'
    <2>1. True(c.is)' /\ mistimed' = mistimed /\ down' = down
      BY <1>2, Unchanged DEF runVars, processor
    <2> QED
      BY <1>1, <1>2, <2>1 DEF Known
  <1>3. CASE KeyStep
    <2>1. \/ Due.do = "down" /\ KeyDown(Due.arg)
          \/ Due.do = "up" /\ KeyUp(Due.arg)
          \/ /\ Due.do = "ta" /\ pc' = "other"
             /\ UNCHANGED <<machine, run, mc_stop, inhibited, busy, mistimed, down>>
      BY <1>3 DEF KeyStep
    <2>2. script' = Tail(script)
      BY <1>3 DEF KeyStep, Goes
    <2>3. CASE Due.do = "down" /\ KeyDown(Due.arg)
      <3>1. /\ Due.arg \notin down /\ Presses(a.is, down, Due.arg, c.is)
            /\ c.down = (down \ Lever({Due.arg})) \cup {Due.arg}
        BY <1>1, <2>3 DEF Fits
      <3>2. ~mistimed' /\ True(c.is)'
        BY <1>1, <2>3, <3>1, PressesSoundly
      <3>3. down' = c.down
        BY <2>3, <3>1, KeyDoes
      <3> QED
        BY <1>1, <2>2, <3>2, <3>3 DEF Known
    <2>4. CASE Due.do = "up" /\ KeyUp(Due.arg)
      <3>1. a.is \in Lasting /\ c.is \in Weaker(a.is) /\ c.down = down \ Lever(Due.arg)
        BY <1>1, <2>4 DEF Fits
      <3>2. True(c.is)
        BY <1>1, <3>1, WeakerIsSo
      <3>3. c.is \in Lasting
        <4>1. c.is = a.is \/ c.is \in {"free", "sane", "rest", "halt"}
          BY <3>1 DEF Weaker
        <4> QED
          BY <1>1, <3>1, <4>1 DEF Lasting, Facts
      <3>4. UNCHANGED <<run, mc_stop, inhibited, busy, mistimed, pc>> /\ down' = c.down
        BY <2>4, <3>1 DEF KeyUp, processor
      <3>5. down' \subseteq down
        BY <3>1, <3>4
      <3>6. (InstStop' => InstStop) /\ (MemStop' => MemStop) /\ (Going' <=> Going)
        BY <3>4, <3>5 DEF InstStop, MemStop, Going
      <3>7. True(c.is)'
        BY <3>2, <3>3, <3>4, <3>6 DEF True, Lasting
      <3> QED
        BY <1>1, <2>2, <3>4, <3>7 DEF Known
    <2>5. CASE /\ Due.do = "ta" /\ pc' = "other"
               /\ UNCHANGED <<machine, run, mc_stop, inhibited, busy, mistimed, down>>
      <3>1. c = a /\ a.is = "halt"
        BY <2>5 DEF Fits
      <3>2. True(c.is)'
        BY <1>1, <2>5, <3>1 DEF True, Going
      <3> QED
        BY <1>1, <2>2, <2>5, <3>1, <3>2 DEF Known
    <2> QED
      BY <2>1, <2>3, <2>4, <2>5
  <1>4. CASE SleepStep
    <2>1. /\ Due.do = "sleep" /\ script' = Tail(script) /\ Settled /\ inhibited' = FALSE
          /\ UNCHANGED <<machine, run, mc_stop, busy, mistimed, pc, down>>
      BY <1>4 DEF SleepStep, Goes
    <2>2. c.down = a.down /\ Sleeps(a.is, a.down, c.is)
      BY <2>1 DEF Fits
    <2>3. True(c.is)'
      BY <1>1, <2>1, <2>2, SleepsSoundly
    <2> QED
      BY <1>1, <2>1, <2>2, <2>3 DEF Known
  <1>5. CASE WaitStep
    <2>1. \/ Due.do = "wait" /\ (Holds(Due.arg) \/ Settled)
          \/ Due.do = "complain"
      BY <1>5 DEF WaitStep
    <2>2. script' = Tail(script) /\ UNCHANGED runVars
      BY <1>5 DEF WaitStep, Goes
    <2>3. True(c.is) /\ c.down = a.down
      <3>1. CASE Due.do = "wait" /\ (Holds(Due.arg) \/ Settled)
        <4>1. c.down = a.down /\ Finishes(a.is, a.down, Due.arg, c.is)
          BY <3>1 DEF Fits
        <4> QED
          BY <1>1, <3>1, <4>1, FinishesSoundly
      <3>2. CASE Due.do = "complain"
        <4>1. a.is = "idle" /\ c.is \in Weaker("idle") /\ c.down = a.down
          BY <3>2 DEF Fits
        <4> QED
          BY <1>1, <4>1, WeakerIsSo
      <3> QED
        BY <2>1, <3>1, <3>2
    <2> QED
      BY <1>2, <2>2, <2>3
  <1>6. CASE StartedStep
    <2>1. script' = Tail(script) /\ UNCHANGED runVars /\ Due.do = "started"
      BY <1>6 DEF StartedStep
    <2>2. c.is \in Weaker(a.is) /\ c.down = a.down
      BY <2>1 DEF Fits
    <2>3. True(c.is)
      BY <1>1, <2>2, WeakerIsSo
    <2> QED
      BY <1>2, <2>1, <2>2, <2>3
  <1> QED
    BY <1>3, <1>4, <1>5, <1>6

(* What is known, unless the front end was outrun, and the outline of what *)
(* is left of the call from there to what is promised of it.               *)
Sound == ~mistimed /\ \E a : Known(a) /\ Outlined(a, script, At(Goal(call), {}))

ConsoleInv == RunTypeOK /\ ConsoleTypeOK /\ (~outrun => Sound)

LEMMA InitConsole ==
  ASSUME RunInit, ConsoleInit
  PROVE  ConsoleInv
  <1>1. RunTypeOK /\ ConsoleTypeOK /\ ~mistimed
    BY DEF RunInit, ConsoleInit, RunTypeOK, ConsoleTypeOK, Calls, Stages
  <1>2. Known(At("free", {}))
    BY DEF RunInit, Known, At, Facts, True, Going, Stages
  <1>3. Goal(call) = "free" /\ script = <<>>
    BY DEF ConsoleInit, Goal
  <1> QED
    BY <1>1, <1>2, <1>3, Done DEF ConsoleInv, Sound

LEMMA WorksBetween ==
  ASSUME ConsoleInv, Works, UNCHANGED consoleVars
  PROVE  ConsoleInv'
  <1>1. RunTypeOK' /\ mistimed' = mistimed /\ down' = down
    BY TypeWhileItWorks DEF ConsoleInv
  <1>2. script' = script /\ call' = call /\ started' = started /\ outrun' = outrun
    BY DEF consoleVars
  <1>3. ASSUME ~outrun PROVE Sound'
    <2>1. PICK a : Known(a) /\ Outlined(a, script, At(Goal(call), {})) /\ ~mistimed
      BY <1>3 DEF ConsoleInv, Sound
    <2>2. True(a.is)'
      BY <2>1, WorksOn DEF ConsoleInv, Known
    <2>3. Known(a)'
      BY <1>1, <2>1, <2>2 DEF Known
    <2>4. Outlined(a, script', At(Goal(call'), {}))
      BY <1>2, <2>1
    <2> QED
      BY <1>1, <2>1, <2>3, <2>4 DEF Sound
  <1> QED
    BY <1>1, <1>2, <1>3 DEF ConsoleInv, ConsoleTypeOK

LEMMA CallGoesOn ==
  ASSUME ConsoleInv, InCall
  PROVE  ConsoleInv'
  <1>1. RunTypeOK' /\ ConsoleTypeOK' /\ call' = call /\ script # <<>> /\ (outrun => outrun')
    BY TypeInCall DEF ConsoleInv
  <1> SUFFICES ASSUME ~outrun' PROVE Sound'
    BY <1>1 DEF ConsoleInv
  <1>2. PICK a : Known(a) /\ Outlined(a, script, At(Goal(call), {}))
    BY <1>1 DEF ConsoleInv, Sound
  <1>3. RunInv /\ RunTypeOK /\ ~mistimed
    BY <1>1 DEF ConsoleInv, Sound, RunInv
  <1>4. Due.do # "err"
    BY DEF InCall, KeyStep, SleepStep, WaitStep, IfStep, StartedStep
  <1>5. CASE \E c : Fits(a, Due, c) /\ Outlined(c, Tail(script), At(Goal(call), {}))
    <2> PICK c : Fits(a, Due, c) /\ Outlined(c, Tail(script), At(Goal(call), {}))
      BY <1>5
    <2>1. Due.do # "if"
      BY DEF Fits
    <2>2. KeyStep \/ SleepStep \/ WaitStep \/ StartedStep
      BY <2>1 DEF InCall, IfStep
    <2>3. ~mistimed' /\ Known(c)' /\ script' = Tail(script)
      BY <1>2, <1>3, <2>2, StepsSoundly
    <2>4. Outlined(c, script', At(Goal(call'), {}))
      BY <1>1, <2>3
    <2> QED
      BY <2>3, <2>4 DEF Sound
  <1>6. CASE /\ Due.do = "if" /\ a.is \in Facts
             /\ \A truth \in BOOLEAN :
                  \/ Never(a.is, Due.arg.is, truth)
                  \/ \E m \in Facts :
                       /\ Finds(a.is, Due.arg.is, truth, m)
                       /\ Outlined(At(m, a.down), Branch(Due, truth) \o Tail(script), At(Goal(call), {}))
    <2>1. IfStep
      BY <1>6 DEF InCall, KeyStep, SleepStep, WaitStep, StartedStep
    <2>2. PICK truth \in BOOLEAN : truth <=> Holds(Due.arg.is)
      <3>1. CASE Holds(Due.arg.is)
        BY <3>1
      <3>2. CASE ~Holds(Due.arg.is)
        BY <3>2
      <3> QED
        BY <3>1, <3>2
    <2>3. script' = Branch(Due, truth) \o Tail(script) /\ UNCHANGED runVars
      BY <2>1, <2>2 DEF IfStep, Branch
    <2>4. True(a.is) /\ Off(Due.arg.is)
      BY <1>2, <2>1 DEF Known, IfStep, Off
    <2>5. ~Never(a.is, Due.arg.is, truth)
      BY <1>3, <1>6, <2>2, <2>4, NeverFound
    <2>6. PICK m \in Facts :
            /\ Finds(a.is, Due.arg.is, truth, m)
            /\ Outlined(At(m, a.down), Branch(Due, truth) \o Tail(script), At(Goal(call), {}))
      BY <1>6, <2>5
    <2>7. True(m)
      BY <1>3, <1>6, <2>2, <2>4, <2>6, FindsSoundly
    <2>8. True(m)' /\ mistimed' = mistimed /\ down' = down
      BY <2>3, <2>7, Unchanged DEF runVars, processor
    <2>9. Known(At(m, a.down))'
      BY <1>2, <2>8 DEF Known, At
    <2>10. Outlined(At(m, a.down), script', At(Goal(call'), {}))
      BY <1>1, <2>3, <2>6
    <2> QED
      BY <1>3, <2>8, <2>9, <2>10 DEF Sound
  <1> QED
    BY <1>1, <1>2, <1>4, <1>5, <1>6, OutlineBegun DEF Due

LEMMA CallIsRefused ==
  ASSUME ConsoleInv, Errs, script' = <<>>, call' = "none", UNCHANGED <<started, outrun, runVars>>
  PROVE  ConsoleInv'
  <1>1. RunTypeOK' /\ ConsoleTypeOK' /\ Goal(call') = "free"
    BY Unchanged DEF ConsoleInv, ConsoleTypeOK, Goal
  <1>2. ASSUME ~outrun PROVE Sound'
    <2>1. PICK a : Known(a) /\ Outlined(a, script, At(Goal(call), {})) /\ ~mistimed
      BY <1>2 DEF ConsoleInv, Sound
    <2>2. a.down = {} /\ a.is \in {"free", "sane"}
      <3>1. script # <<>> /\ Due.do = "err"
        BY DEF Errs
      <3>2. ~\E c : Fits(a, Due, c)
        BY <3>1 DEF Fits
      <3> QED
        BY <2>1, <3>1, <3>2, OutlineBegun DEF Due
    <2>3. True("free") /\ down = {}
      BY <2>1, <2>2 DEF Known, True, Facts
    <2>4. True("free")' /\ down' = down /\ mistimed' = mistimed
      BY <2>3, Unchanged DEF runVars, processor
    <2>5. Known(At("free", {}))'
      BY <2>3, <2>4 DEF Known, At, Facts
    <2> QED
      BY <1>1, <2>1, <2>4, <2>5, Done DEF Sound
  <1> QED
    BY <1>1, <1>2 DEF ConsoleInv

LEMMA BetweenCalls ==
  ASSUME ConsoleInv, ~outrun, script = <<>>
  PROVE  Known(At(Goal(call), {})) /\ down = {} /\ Known(At("free", {}))
  <1>1. PICK a : Known(a) /\ Outlined(a, script, At(Goal(call), {}))
    BY DEF ConsoleInv, Sound
  <1>2. a = At(Goal(call), {})
    BY <1>1, OutlineEnded
  <1>3. Goal(call) \in {"halt", "rest", "idle", "set", "free"}
    BY DEF Goal
  <1>4. True(Goal(call)) /\ down = {}
    BY <1>1, <1>2 DEF Known, At
  <1>5. True("free")
    BY <1>3, <1>4 DEF True, Going, Stages
  <1> QED
    BY <1>1, <1>2, <1>4, <1>5 DEF Known, At, Facts

(* A call that begins has an outline, and nothing before it matters when   *)
(* nothing is in flight and no key is down.                                *)
LEMMA CallBegins ==
  ASSUME ConsoleInv, script = <<>>, NEW c \in Calls, Begin(c)
  PROVE  ConsoleInv'
  <1> DEFINE g == Goal(call')
             body == (IF machine = "pdp6" THEN SixCalls ELSE KaCalls)[c]
             rest == IF Starts(c) THEN Step("started", {}) ELSE <<>>
  <1>1. /\ call' = c /\ script' = body \o rest /\ UNCHANGED <<started, runVars>>
        /\ outrun' = (outrun /\ ~AllAtRest)
    BY DEF Begin
  <1>2. RunTypeOK' /\ ConsoleTypeOK'
    BY <1>1, Unchanged DEF ConsoleInv, ConsoleTypeOK
  <1> SUFFICES ASSUME ~outrun' PROVE Sound'
    BY <1>2 DEF ConsoleInv
  <1>3. ~mistimed /\ Known(At("free", {}))
    <2>1. CASE ~outrun
      BY <2>1, BetweenCalls DEF ConsoleInv, Sound
    <2>2. CASE AllAtRest
      <3>1. True("free")
        BY <2>2 DEF AllAtRest, True, InstStop
      <3> QED
        BY <2>2, <3>1 DEF AllAtRest, Known, At, Facts
    <2> QED
      BY <1>1, <2>1, <2>2
  <1>4. Outlined(At("free", {}), body, At(g, {}))
    <2>1. g = Goal(c)
      BY <1>1
    <2>2. CASE machine = "pdp6"
      BY <2>1, <2>2, SixOutlined
    <2>3. CASE machine # "pdp6"
      BY <2>1, <2>3, KaOutlined
    <2> QED
      BY <2>2, <2>3
  <1>5. Outlined(At(g, {}), rest, At(g, {}))
    <2>1. CASE Starts(c)
      <3>1. g \in {"free", "halt", "rest", "idle", "set"}
        BY DEF Goal
      <3>2. g \in Lasting /\ g \in Facts /\ g \in Weaker(g)
        BY <3>1 DEF Lasting, Facts, Weaker
      <3>3. Fits(At(g, {}), [do |-> "started", arg |-> {}], At(g, {}))
        BY <3>2 DEF Fits, At
      <3>4. rest = Step("started", {})
        BY <2>1
      <3> HIDE DEF g, rest
      <3> QED
        BY <3>3, <3>4, SimpleStep DEF Step
    <2>2. CASE ~Starts(c)
      BY <2>2, Done
    <2> QED
      BY <2>1, <2>2
  <1>6. Outlined(At("free", {}), script', At(g, {}))
    <2> HIDE DEF body, rest, g
    <2> QED
      BY <1>1, <1>4, <1>5, InTurn
  <1>7. Known(At("free", {}))' /\ ~mistimed'
    <2>1. True("free") /\ down = {}
      BY <1>3 DEF Known, At
    <2>2. True("free")' /\ down' = down /\ mistimed' = mistimed
      BY <1>1, <2>1, Unchanged DEF runVars, processor
    <2> QED
      BY <1>3, <2>1, <2>2 DEF Known, At, Facts
  <1> QED
    BY <1>6, <1>7 DEF Sound

LEMMA NothingHappens ==
  ASSUME ConsoleInv, started' \in BOOLEAN, UNCHANGED <<call, script, outrun, runVars>>
  PROVE  ConsoleInv'
  <1>1. RunTypeOK' /\ ConsoleTypeOK'
    BY Unchanged DEF ConsoleInv, ConsoleTypeOK
  <1>2. ASSUME ~outrun PROVE Sound'
    <2>1. PICK a : Known(a) /\ Outlined(a, script, At(Goal(call), {})) /\ ~mistimed
      BY <1>2 DEF ConsoleInv, Sound
    <2>2. True(a.is)' /\ down' = down /\ mistimed' = mistimed
      BY <2>1, Unchanged DEF Known, runVars, processor
    <2>3. Known(a)'
      BY <2>1, <2>2 DEF Known
    <2>4. Outlined(a, script', At(Goal(call'), {}))
      BY <2>1
    <2> QED
      BY <2>1, <2>2, <2>3, <2>4 DEF Sound
  <1> QED
    BY <1>1, <1>2 DEF ConsoleInv

LEMMA KeysAreObeyed ==
  ASSUME ConsoleInv
  PROVE  KeysObeyed
  <1> SUFFICES ASSUME ~outrun
               PROVE  ~mistimed /\ (Complains => Halted) /\ (script = <<>> => down = {} /\ Promised(call))
    BY DEF KeysObeyed
  <1>1. PICK a : Known(a) /\ Outlined(a, script, At(Goal(call), {})) /\ ~mistimed
    BY DEF ConsoleInv, Sound
  <1>2. ASSUME Complains
        PROVE  Halted
    <2>1. script # <<>> /\ Due.do = "complain"
      BY <1>2 DEF Complains
    <2>2. PICK c : Fits(a, Due, c)
      BY <1>1, <2>1, OutlineBegun DEF Due
    <2>3. True("idle")
      BY <1>1, <2>1, <2>2 DEF Fits, Known
    <2> QED
      BY <2>3 DEF Halted, True, Going, Stages, ConsoleInv, RunTypeOK
  <1>3. ASSUME script = <<>>
        PROVE  down = {} /\ Promised(call)
    <2>1. True(Goal(call)) /\ down = {}
      BY <1>3, BetweenCalls DEF Known, At
    <2>2. RunTypeOK
      BY DEF ConsoleInv
    <2>3. CASE call = "stopinst"
      <3>1. ~run
        BY <2>1, <2>3 DEF Goal, True
      <3> QED
        BY <2>1, <2>3, <3>1 DEF Promised
    <2>4. CASE call \in {"stopmem", "nextmem"}
      <3>1. ~run \/ mc_stop
        <4>1. True("rest")
          BY <2>1, <2>4 DEF Goal
        <4> QED
          BY <2>2, <4>1 DEF True, Going, Stages, RunTypeOK
      <3> QED
        BY <2>1, <2>4, <3>1 DEF Promised
    <2>5. CASE call \in {"nextinst", "exec", "ioreset"}
      <3>1. ~run /\ ~mc_stop
        <4>1. True("idle")
          BY <2>1, <2>5 DEF Goal
        <4> QED
          BY <2>2, <4>1 DEF True, RunTypeOK, Cycles
      <3> QED
        BY <2>1, <2>5, <3>1 DEF Promised
    <2>6. CASE call = "setpc"
      <3>1. ~run /\ ~mc_stop /\ pc = "ta"
        <4>1. True("set")
          BY <2>1, <2>6 DEF Goal
        <4> QED
          BY <2>2, <4>1 DEF True, RunTypeOK, Cycles
      <3> QED
        BY <2>1, <2>6, <3>1 DEF Promised
    <2>7. CASE call \in {"start", "readin", "cont", "none"}
      BY <2>1, <2>7 DEF Promised
    <2> QED
      BY <2>3, <2>4, <2>5, <2>6, <2>7 DEF ConsoleInv, ConsoleTypeOK, Calls
  <1> QED
    BY <1>1, <1>2, <1>3
=============================================================================
