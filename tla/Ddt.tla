--------------------------------- MODULE Ddt ---------------------------------
(* The command loop of the front end, host/fe/fe.c: a DDT that assembles   *)
(* words from characters, opens and deposits locations, and calls the      *)
(* console.  A character is handled whole, except for the call it makes.   *)
EXTENDS Console, DdtWords

CONSTANTS
  MaxStack,       \* size of astack
  Seen,           \* words examine() may return
  Locations       \* addresses a stop may report

ASSUME DdtAssumption ==
  /\ MaxStack \in Nat \ {0} /\ Seen \subseteq 0..(Word - 1) /\ Locations \subseteq 0..ADDRMASK

VARIABLES
  buf,            \* the characters of a number or a name
  as, astack,     \* the expression, and those around it
  flags,          \* "none", "CF" or "CCF"
  number,         \* the number behind an altmode: "none", "zero" or "other"
  linemode,       \* "none", or what the line is for
  dot, addr, opened, q,
  starta,
  \* history
  line,           \* the characters of the word so far
  plain,          \* none of them is outside of LineMeaning
  shown,          \* the location on the terminal since the last close or error
  wrote           \* the deposit of the last step

exprVars == <<buf, as, astack, line, plain>>
openVars == <<dot, addr, opened, q, shown, wrote>>
modeVars == <<flags, number, linemode, starta>>
ddtVars == <<exprVars, openVars, modeVars>>
machineVars == <<runVars, consoleVars>>

NoLocation == ADDRMASK + 1
NoDeposit == [at |-> NoLocation, word |-> 0, shown |-> NoLocation, line |-> <<>>, plain |-> FALSE]

Empty ==
  [word |-> 0, ac |-> 0, i |-> 0, address |-> 0, f |-> {},
   exp |-> 0, op |-> "none", gotexp |-> FALSE]

LineModes == {"colon", "load", "dump", "mount", "unmount"}

DdtTypeOK ==
  /\ Len(buf) < BufLen
  /\ {as.word, as.ac, as.i, as.address, as.exp} \subseteq 0..(Host - 1)
  /\ Len(astack) <= MaxStack
  /\ flags \in {"none", "CF", "CCF"} /\ number \in {"none", "zero", "other"}
  /\ linemode \in LineModes \cup {"none"}
  /\ {dot, addr} \subseteq 0..ADDRMASK
  /\ opened \in BOOLEAN /\ {q, starta} \subseteq 0..(Word - 1)

DdtInit ==
  /\ buf = <<>> /\ as = Empty /\ astack = <<>>
  /\ flags = "none" /\ number = "none" /\ linemode = "none"
  /\ dot = 0 /\ addr = 0 /\ opened = FALSE /\ q = 0 /\ starta = 0
  /\ line = <<>> /\ plain = TRUE /\ shown = NoLocation /\ wrote = NoDeposit

-----------------------------------------------------------------------------
(* Numbers, names and words.                                               *)

parsenum == Number(buf)
parsesym == IF buf = <<".">> THEN dot ELSE symtab[buf]

Parses == buf = <<>> \/ IsNumber(buf) \/ buf \in DOMAIN symtab \cup {<<".">>}
parse == IF IsNumber(buf) THEN parsenum ELSE parsesym

(* Fault: the operator stays.                                              *)
combine_op(e, t) ==
  [e EXCEPT !.exp = Reckoned(e.op, e.exp, t), !.gotexp = TRUE]

combine(e, t) ==
  [e EXCEPT !.exp = Reckoned(e.op, e.exp, t), !.gotexp = TRUE, !.op = "none"]

(* as with what is in the buffer.                                          *)
Combined == IF buf = <<>> THEN as ELSE combine(as, parse)

AsWord(e) == [e EXCEPT !.word = (e.word + e.exp) % Host, !.f = @ \cup {"FW"}]
AsAccumulator(e) == [e EXCEPT !.ac = (e.ac + e.exp) % Host, !.f = @ \cup {"AC"}]
AsAddress(e) == [e EXCEPT !.address = (e.address + e.exp) % Host, !.f = @ \cup {"A"}]

WithAc(e) ==
  IF "AC" \notin e.f THEN e.word
  ELSE e.word + IF Bit(e.word, Iot) = 1 THEN Bit(e.ac, 2) * 4 * Half ELSE Bit(e.ac, 1) * 2 * Half

WithIndirect(e) ==
  WithAc(e) + IF "I" \in e.f /\ Bit(WithAc(e), Half) = 0 THEN Bit(e.i, Half) * Half ELSE 0

WithAddress(e) ==
  LET t == WithIndirect(e) IN
  (IF "A" \in e.f THEN LT(t) * Half + RT(t + e.address) ELSE t) % Word

Assembled == buf # <<>> \/ as.gotexp

endword ==
  LET e == combine(as, IF buf = <<>> THEN 0 ELSE parse) IN
  WithAddress(IF e.f \cap {"FW", "AC"} # {} THEN AsAddress(e) ELSE AsWord(e))

Or(w) == IF Assembled THEN endword ELSE w

-----------------------------------------------------------------------------
(* What the actions share.                                                 *)

NoFlags == flags' = "none" /\ number' = "none"
NoWrite == wrote' = NoDeposit

(* endword() leaves as alone when there is no word, its operator too.      *)
TakeWord ==
  IF Assembled THEN buf' = <<>> /\ as' = Empty /\ line' = <<>> /\ plain' = TRUE
  ELSE UNCHANGED <<buf, as, line, plain>>

(* nbuf = 0                                                                *)
DropBuf ==
  /\ buf' = <<>> /\ line' = SubSeq(line, 1, Len(line) - Len(buf))
  /\ UNCHANGED <<as, astack, plain>>

(* The program would stop at a division by zero.                           *)
Divisible(e, t) == e.op = "|" => t # 0
Legible == Parses /\ (buf # <<>> => Divisible(as, parse))
Readable == Legible /\ (buf = <<>> /\ as.gotexp => Divisible(as, 0))

(* The main loop starts over, but for the stack.                           *)
err ==
  /\ buf' = <<>> /\ as' = Empty /\ opened' = FALSE /\ linemode' = "none" /\ NoFlags
  /\ line' = <<>> /\ plain' = TRUE /\ shown' = NoLocation /\ NoWrite
  /\ UNCHANGED <<dot, addr, q, starta>>

(* What is left alone between two calls.                                   *)
Kept == UNCHANGED <<linemode, starta, machineVars>>

-----------------------------------------------------------------------------
(* Expressions.                                                            *)

NotOpening == NoWrite /\ UNCHANGED <<dot, addr, opened, q, shown>>

(* Fault: the buffer does not wrap.                                        *)
ins_on(c) == Append(buf, c)

(* The buffer wraps.                                                       *)
ins(c) == IF Len(buf) + 1 = BufLen THEN <<>> ELSE Append(buf, c)

Insert(c) ==
  /\ c = "." \/ (c \in Digits \cup Letters /\ flags = "none")
  /\ buf' = ins(c) /\ line' = Append(line, c)
  /\ NoFlags /\ NotOpening /\ Kept /\ UNCHANGED <<as, astack, plain>>

num(c) ==
  /\ c \in Digits /\ flags # "none"
  /\ number' = IF c = "0" /\ number # "other" THEN "zero" ELSE "other"
  /\ NotOpening /\ Kept /\ UNCHANGED <<exprVars, flags>>

Altmode(c) ==
  /\ c = "alt"
  /\ flags' = IF flags = "none" THEN "CF" ELSE "CCF"
  /\ NotOpening /\ Kept /\ UNCHANGED <<exprVars, number>>

Operator(c) ==
  /\ c \in {"+", "-", "*", "|"} /\ Legible
  /\ as' = IF buf # <<>> THEN [Combined EXCEPT !.op = c]
           ELSE IF c = "-" THEN [as EXCEPT !.op = c] ELSE as
  /\ buf' = <<>> /\ line' = Append(line, c)
  /\ NoFlags /\ NotOpening /\ Kept /\ UNCHANGED <<astack, plain>>

pushexp(c) ==
  /\ c = "(" /\ Legible /\ Len(astack) < MaxStack
  /\ astack' = Append(astack, Combined)
  /\ IF Len(astack) + 1 = MaxStack THEN err /\ UNCHANGED machineVars
     ELSE /\ buf' = <<>> /\ as' = Empty /\ line' = Append(line, c)
          /\ NoFlags /\ NotOpening /\ Kept /\ UNCHANGED plain

popexp(c) ==
  LET t == Or(0)
      e == Last(astack)
  IN
  /\ c = ")" /\ Readable /\ astack # <<>> /\ Divisible(e, t)
  /\ as' = IF e.op = "none"
           THEN [e EXCEPT !.word = (e.word + Swapped(t)) % Host, !.gotexp = TRUE]
           ELSE combine(e, t)
  /\ astack' = Front(astack) /\ buf' = <<>> /\ line' = Append(line, c)
  /\ NoFlags /\ NotOpening /\ Kept /\ UNCHANGED plain

Separator(c) ==
  /\ c \in {" ", ","} /\ Legible
  /\ LET e == Combined IN
     as' = IF buf = <<>> THEN as
           ELSE [(IF c = " " THEN IF "FW" \in e.f THEN AsAddress(e) ELSE AsWord(e)
                  ELSE IF "AC" \in e.f THEN AsAddress(e) ELSE AsAccumulator(e))
                 EXCEPT !.exp = 0]
  /\ buf' = <<>> /\ line' = Append(line, c)
  /\ NoFlags /\ NotOpening /\ Kept /\ UNCHANGED <<astack, plain>>

(* Neither takes what is in the buffer first.                              *)
OutOfTurn(c) ==
  /\ \/ c = "@" /\ as' = [as EXCEPT !.i = (@ + Half) % Host, !.f = @ \cup {"I"}, !.gotexp = TRUE]
     \/ c = "Q" /\ flags # "none" /\ Divisible(as, q) /\ as' = combine(as, q)
  /\ plain' = FALSE
  /\ NoFlags /\ NotOpening /\ Kept /\ UNCHANGED <<buf, astack, line>>

-----------------------------------------------------------------------------
(* Locations.                                                              *)

Quantity == Address(Or(q))

aclose(insert) ==
  LET deposited == insert /\ opened /\ Assembled IN
  /\ Readable /\ TakeWord
  /\ wrote' = IF deposited
              THEN [at |-> addr, word |-> endword, shown |-> shown, line |-> line, plain |-> plain]
              ELSE NoDeposit

aopen ==
  /\ opened' = TRUE /\ q' \in Seen
  /\ NoFlags /\ Kept /\ UNCHANGED astack

Open(c) ==
  /\ c \in {"/", "!", "\\"} \/ (c \in {"[", "]"} /\ flags = "none")
  /\ aclose(FALSE)
  /\ addr' = Quantity /\ dot' = (IF c = "\\" THEN dot ELSE Quantity)
  /\ shown' = Quantity /\ aopen

Deposit(c) ==
  /\ c \in {"tab", "^", "lf"} /\ aclose(TRUE)
  /\ dot' = CASE c = "tab" -> Quantity
              [] c = "^" -> Address(dot + ADDRMASK)
              [] c = "lf" -> Address(dot + 1)
  /\ addr' = dot' /\ shown' = dot' /\ aopen

Return(c) ==
  /\ c = "cr" /\ aclose(TRUE)
  /\ addr' = Quantity /\ q' = (IF opened THEN Or(q) ELSE q)
  /\ opened' = FALSE /\ shown' = NoLocation
  /\ NoFlags /\ Kept /\ UNCHANGED <<astack, dot>>

typeout(c) ==
  /\ c \in {"_", "=", ";"} \/ (c \in {"\"", "'", "&"} /\ flags = "none")
  /\ Readable /\ TakeWord /\ q' = Or(q)
  /\ NoFlags /\ NoWrite /\ Kept /\ UNCHANGED <<astack, dot, addr, opened, shown>>

modechange(c) ==
  /\ c \in {"S", "C", "H", "\"", "'", "&"} /\ flags # "none"
  /\ NoFlags /\ NotOpening /\ Kept /\ UNCHANGED exprVars

-----------------------------------------------------------------------------
(* Commands.                                                               *)

Go(c) ==
  /\ c \in {"G", "R"} /\ flags # "none" /\ Readable /\ TakeWord
  /\ starta' = IF flags = "CCF" THEN Or(starta) ELSE starta
  /\ Begin(CASE c = "R" -> "readin"
             [] c = "G" /\ number = "zero" -> "setpc"
             [] OTHER -> "start")
  /\ NoFlags /\ NotOpening /\ UNCHANGED <<astack, linemode>>

Step1(c) ==
  /\ c = "^N" \/ (c \in {"P", "X"} /\ flags # "none")
  /\ Readable /\ TakeWord
  /\ Begin(CASE c = "P" -> "cont"
             [] c = "X" -> "exec"
             [] c = "^N" /\ flags = "none" -> "nextinst"
             [] OTHER -> "nextmem")
  /\ NoFlags /\ NotOpening /\ UNCHANGED <<astack, linemode, starta>>

(* What has been assembled stays, but for the buffer.                      *)
Stop(c) ==
  /\ c = "^Z" \/ (c = "I" /\ flags # "none")
  /\ DropBuf
  /\ Begin(CASE c = "I" -> "ioreset"
             [] c = "^Z" /\ flags = "none" -> "stopinst"
             [] OTHER -> "stopmem")
  /\ NoFlags /\ NotOpening /\ UNCHANGED <<linemode, starta>>

(* A stop is reported when no character waits.                             *)
Stopped == ~isrunning \/ isstopped

Report ==
  /\ script = <<>> /\ started /\ Stopped
  /\ started' = FALSE
  /\ dot' \in Locations /\ q' \in Seen
  /\ NoWrite /\ UNCHANGED <<exprVars, addr, opened, shown, modeVars, runVars, call, script, outrun>>

-----------------------------------------------------------------------------
(* Lines, and what ends a line or an expression.                           *)

EnterLine(c) ==
  /\ c = ":" \/ (c \in {"L", "Y", "[", "]"} /\ flags # "none")
  /\ linemode' = CASE c = ":" -> "colon" [] c = "L" -> "load" [] c = "Y" -> "dump"
                   [] c = "[" -> "mount" [] c = "]" -> "unmount"
  /\ DropBuf
  /\ NoFlags /\ NotOpening /\ UNCHANGED <<starta, machineVars>>

InLine(c) ==
  /\ c \notin {"cr", "lf", "erase", "kill"}
  /\ buf' = ins(c) /\ line' = Append(line, c)
  /\ NoFlags /\ NotOpening /\ Kept /\ UNCHANGED <<as, astack, plain>>

Erase(c) ==
  /\ c = "erase" /\ buf # <<>> /\ flags = "none"
  /\ buf' = Front(buf) /\ line' = Front(line)
  /\ NoFlags /\ NotOpening /\ Kept /\ UNCHANGED <<as, astack, plain>>

(* The characters that read the buffer.                                    *)
Parsing(c) ==
  \/ c \in {"+", "-", "*", "|", "(", ")", " ", ",", "/", "!", "\\", "_", "=", ";"}
  \/ c \in {"tab", "^", "lf", "cr", "^N"}
  \/ c \in {"[", "]", "\"", "'", "&"} /\ flags = "none"
  \/ c \in {"G", "R", "P", "X"} /\ flags # "none"

Cancel(c) ==
  /\ \/ c = "kill"
     \/ c = "erase" /\ (buf = <<>> \/ flags # "none")
     \/ linemode = "none" /\ c = "Z" /\ flags = "CF"
     \/ linemode = "none" /\ ~Parses /\ Parsing(c)
  /\ err /\ UNCHANGED <<astack, machineVars>>

Expression(c) == Insert(c) \/ Operator(c) \/ pushexp(c) \/ popexp(c) \/ Separator(c) \/ OutOfTurn(c)
Flagged(c) == num(c) \/ Altmode(c) \/ modechange(c) \/ EnterLine(c)
Location(c) == Open(c) \/ Deposit(c) \/ Return(c) \/ typeout(c)
Command(c) == Go(c) \/ Step1(c) \/ Stop(c)

Character(c) ==
  \/ linemode = "none" /\ (Expression(c) \/ Flagged(c) \/ Location(c) \/ Command(c))
  \/ linemode # "none" /\ InLine(c)
  \/ Erase(c)
  \/ Cancel(c)
=============================================================================
