----------------------------- MODULE MCFrontEnd ------------------------------
(* Instances of FrontEnd for TLC.                                          *)
EXTENDS FrontEnd

NoCore == [a \in 0..(Core - 1) |-> 0]

(* Words from an address on.                                               *)
From(at, words) ==
  [a \in 0..(Core - 1) |-> IF a - at + 1 \in DOMAIN words THEN words[a - at + 1] ELSE 0]

(* Words that end with CR, RUB, LF or none of them before words that begin *)
(* with each; zeros inside a block and between two; more than a block      *)
(* holds; the highest address.                                             *)
Ends == {10, 46, 36, 112}
Begins == {112, 36, 94, 10}
Memories ==
  {From(4, <<x, y>>) : x \in Ends, y \in Begins}
    \cup {From(2, <<14, 0, 9>>), From(3, <<10, 0, 0, 22>>), From(5, <<14, 3, 5, 7, 10, 11>>),
          From(15, <<14>>), From(13, <<6, 0, 9>>)}

Typed(keys, most, once) ==
  [machine |-> "pdp6", core |-> NoCore, keys |-> keys, most |-> most, once |-> once, drive |-> FALSE]
Keyed(m, keys) ==
  [machine |-> m, core |-> NoCore, keys |-> {"alt", "^N", "^Z"} \cup keys, most |-> 0, once |-> FALSE, drive |-> FALSE]
Filed(m, keys, most) ==
  [machine |-> "pdp6", core |-> m, keys |-> {"alt", "Y", "L", "cr"} \cup keys,
   most |-> most, once |-> FALSE, drive |-> FALSE]

Taped ==
  [machine |-> "ka10", core |-> NoCore, keys |-> {":", "cr"}, most |-> 1, once |-> FALSE,
   drive |-> TRUE]

(* Expressions, instructions, editing; the console; dumps of many cores; a *)
(* tape.                                                                   *)
MCUses ==
  {Taped,
   Typed({"1", "+", "-", "(", ")", "/", "cr"}, 6, TRUE),
   Typed({"7", "*", "|", "-", "/", "cr"}, 5, TRUE),
   Typed({"B", "1", "2", " ", ",", "/", "cr"}, 5, TRUE),
   Typed({"1", "C", ".", "erase", "kill", "/", "\\", "lf", "^", "tab", "cr", "="}, 2, FALSE),
   Typed({"1", "alt", "Q", "@", "S", "[", "]", "cr"}, 1, FALSE),
   Keyed("pdp6", {"0", "G", "R", "P", "X", "I"}),
   Keyed("ka10", {"0", "G", "P", "X", "I"}),
   Keyed("ka10", {"R"}),
   Filed(From(3, <<9>>), {"A", "G"}, 1),
   Filed(From(3, <<9>>), {":", "1", "Z"}, 1)}
   \cup {Filed(m, {"Z"} \cup {"A"}, 1) : m \in Memories}
=============================================================================
