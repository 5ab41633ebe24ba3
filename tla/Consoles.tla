------------------------------ MODULE Consoles ------------------------------
(* The other half of host/crt/crt.c: keyboard, joysticks and light pen.    *)
(* What they hold is sent through the display's socket, and a thread of    *)
(* the front end, wcsl_thread(), writes it to the registers of the         *)
(* spacewar consoles.                                                      *)
EXTENDS Naturals, Sequences, FiniteSetsExt

CONSTANTS Consoles,     \* numbers of controllers
          Dirs,         \* bits 0360 of a controller, of a stick
          Buttons,      \* its other bits
          MaxInFlight   \* what the socket holds before write() blocks

ASSUME ConsolesAssumption == "pen" \notin Consoles /\ MaxInFlight \in Nat

VARIABLES
  joys,           \* bits of each controller
  penstate,
  sock,           \* messages on their way: <<controller, bits>>
  csl,            \* registers, that of the pen included
  held            \* history: the keys and buttons somebody holds

consoleVars == <<joys, penstate, sock, csl, held>>

Pen == "pen"
Bits == Dirs \cup Buttons
Registers == Consoles \cup {Pen}

ConsolesTypeOK ==
  /\ joys \in [Consoles -> SUBSET Bits] /\ penstate \in BOOLEAN
  /\ sock \in Seq(Registers \X SUBSET (Bits \cup {Pen})) /\ Len(sock) <= MaxInFlight
  /\ csl \in [Registers -> SUBSET (Bits \cup {Pen})]
  /\ held \in [Registers -> SUBSET (Bits \cup {Pen})]

ConsolesInit ==
  /\ joys = [i \in Consoles |-> {}] /\ penstate = FALSE
  /\ sock = <<>>
  /\ csl = [i \in Registers |-> {}] /\ held = [i \in Registers |-> {}]

write(i, bits) == Len(sock) < MaxInFlight /\ sock' = Append(sock, <<i, bits>>)

updatejoy(i) == write(i, joys'[i])

(* A key sends only a change: it repeats while it is held.                 *)
Changed(i) == IF joys'[i] # joys[i] THEN updatejoy(i) ELSE UNCHANGED sock

keydn(i, b) ==
  /\ joys' = [joys EXCEPT ![i] = @ \cup {b}]
  /\ Changed(i)
  /\ held' = [held EXCEPT ![i] = @ \cup {b}]
  /\ UNCHANGED <<penstate, csl>>

keyup(i, b) ==
  /\ b \in held[i]
  /\ joys' = [joys EXCEPT ![i] = @ \ {b}]
  /\ Changed(i)
  /\ held' = [held EXCEPT ![i] = @ \ {b}]
  /\ UNCHANGED <<penstate, csl>>

(* Fault: the directions of before stay.                                   *)
HatOver(bits, dirs) == bits \cup dirs
Hat(bits, dirs) == (bits \ Dirs) \cup dirs

joyhat(i, dirs) ==
  /\ dirs # held[i] \cap Dirs
  /\ joys' = [joys EXCEPT ![i] = Hat(@, dirs)]
  /\ updatejoy(i)
  /\ held' = [held EXCEPT ![i] = (@ \ Dirs) \cup dirs]
  /\ UNCHANGED <<penstate, csl>>

(* A button changes each time it says something.                           *)
joybtn(i, b) ==
  /\ joys' = [joys EXCEPT ![i] = IF b \in held[i] THEN @ \ {b} ELSE @ \cup {b}]
  /\ updatejoy(i)
  /\ held' = [held EXCEPT ![i] = IF b \in @ THEN @ \ {b} ELSE @ \cup {b}]
  /\ UNCHANGED <<penstate, csl>>

(* Motion, or the button pressed or released.                              *)
mouse(state) ==
  /\ penstate' = state
  /\ IF state \/ penstate # state
     THEN write(Pen, IF state THEN {Pen} ELSE {})
     ELSE UNCHANGED sock
  /\ held' = [held EXCEPT ![Pen] = IF state THEN {Pen} ELSE {}]
  /\ UNCHANGED <<joys, csl>>

wcsl_thread ==
  /\ sock # <<>>
  /\ csl' = [csl EXCEPT ![Head(sock)[1]] = Head(sock)[2]]
  /\ sock' = Tail(sock)
  /\ UNCHANGED <<joys, penstate, held>>

-----------------------------------------------------------------------------

Sent(i) == {n \in DOMAIN sock : sock[n][1] = i}
Latest(i) == IF Sent(i) = {} THEN csl[i] ELSE sock[Max(Sent(i))][2]

(* What is on its way to a register, or in it when nothing is, is what     *)
(* somebody holds: no press and no release is lost, whatever is pressed    *)
(* with it, as long as a controller is not keyboard and stick at once.     *)
ConsoleFollows == \A i \in Registers : Latest(i) = held[i]
=============================================================================
