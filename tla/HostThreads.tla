---------------------------- MODULE HostThreads -----------------------------
(* What the programs of host/ do with threads: the channels of their       *)
(* library, the screen, the controllers.  The three share nothing in       *)
(* motion, so a behaviour uses what used says, chosen once: actors and     *)
(* what they do.                                                           *)
EXTENDS Channel, Crt, Consoles

CONSTANTS Uses, BufSizes

ASSUME BufSizesAssumption == BufSizes \subseteq Nat \ {0}

VARIABLE used

vars == <<used, channelVars, crtVars, consoleVars>>

Init ==
  /\ used \in Uses
  /\ ChannelInit /\ CrtInit /\ ConsolesInit

ChannelStep(A) == A /\ UNCHANGED <<used, crtVars, consoleVars>>
CrtStep(A) == A /\ UNCHANGED <<used, channelVars, consoleVars>>
ConsoleStep(A) == A /\ UNCHANGED <<used, channelVars, crtVars>>

Callers ==
  \/ \E n \in BufSizes, t \in Threads, op \in Promise!Ops :
       <<t, op>> \in used /\ ChannelStep(chancreate(n))
  \/ \E t \in Threads, c \in Promise!Calls(Promise!Ops) :
       <<t, c.op>> \in used /\ ChannelStep(Call(t, c))

Dots ==
  <<"display", "dots">> \in used /\ \E p \in Pixels, i \in Intensities : CrtStep(ReadDot(p, i))

Hands ==
  \/ \E i \in Consoles, b \in Bits :
       /\ <<"keyboard", i>> \in used
       /\ ConsoleStep(keydn(i, b)) \/ ConsoleStep(keyup(i, b))
  \/ \E i \in Consoles, dirs \in SUBSET Dirs :
       <<"stick", i>> \in used /\ ConsoleStep(joyhat(i, dirs))
  \/ \E i \in Consoles, b \in Buttons :
       <<"stick", i>> \in used /\ ConsoleStep(joybtn(i, b))
  \/ <<"mouse", "pen">> \in used /\ \E state \in BOOLEAN : ConsoleStep(mouse(state))

Next ==
  \/ Callers \/ Dots \/ Hands
  \/ \E t \in Threads : ChannelStep(Working(t))
  \/ CrtStep(QueuePixel) \/ CrtStep(render)
  \/ ConsoleStep(wcsl_thread)

(* The scheduler runs every thread, and a thread that asks for a mutex     *)
(* again and again free gets it.                                           *)
Fairness ==
  /\ \A t \in Threads :
       /\ WF_vars(ChannelStep(lockinit(t)))
       /\ SF_vars(ChannelStep(lock(t)))
       /\ WF_vars(ChannelStep(Body(t)))
  /\ WF_vars(CrtStep(QueuePixel)) /\ WF_vars(CrtStep(render))

Spec == Init /\ [][Next]_vars
FairSpec == Spec /\ Fairness

TypeOK == ChannelTypeOK /\ CrtTypeOK /\ ConsolesTypeOK
=============================================================================
