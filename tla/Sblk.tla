-------------------------------- MODULE Sblk ---------------------------------
(* Dumping core to a file and loading it again, dumpsblk() and loadsblk()  *)
(* of cmd.c: blocks that begin with minus their length and their address   *)
(* and end with a checksum, between a word of the RIM loader and a jump    *)
(* to the start address.                                                   *)
EXTENDS ItsBytes

CONSTANTS
  Core,           \* MAXMEM, 2^18
  First,          \* 020, the accumulators are not dumped
  MAXBLK

Left == (2 * Chars * Chars) \div Core
Words == Left * Core

(* JRST is the code of a word that does not begin a block.                 *)
ASSUME SblkAssumption ==
  /\ Core \in Nat \ {0} /\ Words = 2 * Chars * Chars /\ Left >= 8
  /\ First \in 1..Core /\ MAXBLK \in 1..(Left \div 2)

VARIABLES
  mem,
  file,           \* <<>> when there is none
  leftover,       \* static in readwits()
  outcome,        \* how the last load ended
  dumped          \* history: what was dumped, and its start address

fileVars == <<mem, file, leftover, outcome, dumped>>

NoDump == [core |-> [a \in 0..(Core - 1) |-> 0], start |-> 0, zeroed |-> FALSE]

SblkTypeOK ==
  /\ mem \in [0..(Core - 1) -> 0..(Words - 1)]
  /\ Len(leftover) <= 1 /\ outcome \in {"none", "done", "botch", "exit"}

SblkInit ==
  /\ file = <<>> /\ leftover = <<>>
  /\ outcome = "none" /\ dumped = NoDump

left(w) == w \div Core
right(w) == w % Core

HALT == 2 * Core
JRST == 3 * Core
RimEnd == HALT + 1

(* chk<<1 | chk>>35, plus the word                                         *)
Checked(chk, w) == (2 * chk + chk \div (Words \div 2) + w) % Words

(* Counting up from the highest address carries into the count.            *)
aobjn(iowd) == (iowd + Core + 1) % Words

Addresses[iowd \in 0..(Words - 1)] ==
  IF left(iowd) = 0 THEN <<>> ELSE <<right(iowd)>> \o Addresses[aobjn(iowd)]

-----------------------------------------------------------------------------
(* dumpsblk()                                                              *)

(* A block ends before two zeros, at its largest size, or with core.       *)
BlockEnd(m, a) ==
  Min({Core, a + MAXBLK} \cup
      {z \in (a + 1)..(Core - 2) : z + 1 - a < MAXBLK /\ m[z] = 0 /\ m[z + 1] = 0})

Block(m, a, end) ==
  LET iowd == (Left - (end - a)) * Core + a
      data == [i \in DOMAIN Addresses[iowd] |-> m[Addresses[iowd][i]]]
  IN <<iowd>> \o data \o <<FoldLeft(Checked, iowd, data)>>

Dumped(m, start) ==
  LET Blocks[a \in First..Core] ==
        CASE a = Core -> <<>>
          [] a < Core /\ m[a] = 0 -> Blocks[a + 1]
          [] OTHER -> Block(m, a, BlockEnd(m, a)) \o Blocks[BlockEnd(m, a)]
  IN <<RimEnd>> \o Blocks[First] \o <<JRST + start, JRST + start>>

dumpsblk(start) ==
  /\ file' = Written(Dumped(mem, start))
  /\ dumped' = [core |-> mem, start |-> start, zeroed |-> FALSE]
  /\ UNCHANGED <<mem, leftover, outcome>>

-----------------------------------------------------------------------------
(* loadsblk(), a word at a time.  at is what the loader expects.           *)

LoadWord(l, read) ==
  LET w == read.word IN
  CASE l.at \in {"done", "botch"} -> l
    [] l.at = "rim" -> IF w = RimEnd THEN [l EXCEPT !.at = "block"] ELSE l
    [] l.at = "block" /\ w >= Words \div 2 ->
         [l EXCEPT !.at = "data", !.iowd = w, !.chk = w, !.symbols = right(w) = 0]
    [] l.at = "block" /\ w < Words \div 2 ->
         IF w - right(w) \in {HALT, JRST}
         THEN [l EXCEPT !.at = "done", !.pc = right(w), !.left = read.left]
         ELSE [l EXCEPT !.at = "botch", !.left = read.left]
    [] l.at = "data" ->
         LET next == aobjn(l.iowd) IN
         [l EXCEPT !.chk = Checked(@, w), !.iowd = next,
                   !.mem = IF l.symbols THEN @ ELSE [@ EXCEPT ![right(l.iowd)] = w],
                   !.at = IF left(next) = 0 THEN "check" ELSE "data"]
    [] l.at = "check" ->
         IF w = l.chk THEN [l EXCEPT !.at = "block"]
         ELSE [l EXCEPT !.at = "botch", !.left = read.left]

Loaded ==
  LET words == Read(file, leftover) IN
  [error |-> words.error,
   loader |-> FoldLeft(LoadWord,
                       [at |-> "rim", iowd |-> 0, chk |-> 0, symbols |-> FALSE,
                        mem |-> mem, pc |-> 0, left |-> <<>>], words.words)]

Ended(l) == l.at \in {"done", "botch"}

loadsblk ==
  LET l == Loaded.loader IN
  /\ mem' = l.mem
  /\ leftover' = l.left
  /\ outcome' = CASE Ended(l) -> l.at
                  [] ~Ended(l) /\ Loaded.error -> "exit"
                  [] OTHER -> "botch"
  /\ UNCHANGED <<file, dumped>>

zerocore ==
  /\ mem' = [a \in 0..(Core - 1) |-> 0]
  /\ dumped' = [dumped EXCEPT !.zeroed = TRUE]
  /\ UNCHANGED <<file, leftover, outcome>>

-----------------------------------------------------------------------------

(* What is loaded from a dump is what was dumped, and it starts where it   *)
(* was to start, unless the reader still had half a word of a load before. *)
RestoredBy(l) ==
  file # <<>> /\ leftover = <<>> =>
    /\ l.at = "done" /\ l.pc = dumped.start
    /\ \A a \in First..(Core - 1) :
         IF dumped.zeroed \/ dumped.core[a] # 0 THEN l.mem[a] = dumped.core[a]
         ELSE TRUE
=============================================================================
