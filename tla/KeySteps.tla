------------------------------ MODULE KeySteps -------------------------------
(* The calls of the console are sequences of steps, between which the      *)
(* processor goes on.                                                      *)
EXTENDS Sequences

Step(what, arg) == <<[do |-> what, arg |-> arg]>>

Down(k) == Step("down", k)
keyup(ks) == Step("up", ks)
set_ta == Step("ta", {})
usleep == Step("sleep", {})
WaitUntil(state) == Step("wait", state)
If(state, then, else) == Step("if", [is |-> state, then |-> then, else |-> else])
Unless(state, else) == If(state, <<>>, else)
Err == Step("err", {})
Complain == Step("complain", {})
=============================================================================
