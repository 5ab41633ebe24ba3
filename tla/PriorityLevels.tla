--------------------------- MODULE PriorityLevels ---------------------------
(***************************************************************************)
(* What a priority interrupt system promises: service nests.  A channel is *)
(* taken into service only above all that are being served, and a          *)
(* dismissal ends the highest of them.  Lower numbers are higher channels. *)
(***************************************************************************)
EXTENDS Naturals

CONSTANT Channel

VARIABLE held       \* the channels being served

Highest(S) == {i \in S : \A j \in S : i <= j}

Init == held = {}

Take(i) ==
  /\ \A j \in held : i < j
  /\ held' = held \cup {i}

Dismiss ==
  /\ held # {}
  /\ held' = held \ Highest(held)

Clear == held' = {}

Next == (\E i \in Channel : Take(i)) \/ Dismiss \/ Clear

Spec == Init /\ [][Next]_held
=============================================================================
