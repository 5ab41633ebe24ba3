------------------------------- MODULE Console -------------------------------
(* The front end in a call of its console, between two of which it reads   *)
(* its keyboard.  While it waits in one, the processor goes on.            *)
EXTENDS RunControl, KeySteps

Six == INSTANCE ConsoleSix
Ka == INSTANCE ConsoleKa

VARIABLES
  call,           \* the call the front end is in, or was last
  script,         \* what is left of it
  started,        \* the next stop of the processor is reported
  outrun          \* history: it went on as if the processor were at rest

consoleVars == <<call, script, started, outrun>>

Calls == {"start", "readin", "setpc", "stopinst", "stopmem", "cont",
          "nextinst", "nextmem", "exec", "ioreset"}

SixCalls ==
  [start |-> Six!cpu_start, readin |-> Six!cpu_readin, setpc |-> Six!cpu_setpc,
   stopinst |-> Six!cpu_stopinst, stopmem |-> Six!cpu_stopmem, cont |-> Six!cpu_cont,
   nextinst |-> Six!cpu_nextinst, nextmem |-> Six!cpu_nextmem,
   exec |-> Six!cpu_exec, ioreset |-> Six!cpu_ioreset]

KaCalls ==
  [start |-> Ka!cpu_start, readin |-> Ka!cpu_readin, setpc |-> Ka!cpu_setpc,
   stopinst |-> Ka!cpu_stopinst, stopmem |-> Ka!cpu_stopmem, cont |-> Ka!cpu_cont,
   nextinst |-> Ka!cpu_nextinst, nextmem |-> Ka!cpu_nextmem,
   exec |-> Ka!cpu_exec, ioreset |-> Ka!cpu_ioreset]

ConsoleTypeOK == call \in Calls \cup {"none"} /\ started \in BOOLEAN /\ outrun \in BOOLEAN

ConsoleInit == call = "none" /\ script = <<>> /\ started = FALSE /\ outrun = FALSE

(* started is set when a call returns that does not err.                   *)
(* Fault: not when the processor is continued.                             *)
StartsNew(c) == c \in {"start", "readin", "setpc", "nextinst", "nextmem"}

Starts(c) == c \in {"start", "readin", "setpc", "cont", "nextinst", "nextmem"}

(* All keys up, nothing in flight but what a running processor executes.   *)
AllAtRest == down = {} /\ ~mistimed /\ ~inhibited /\ (Going => run)

Begin(c) ==
  /\ call' = c /\ outrun' = (outrun /\ ~AllAtRest)
  /\ script' = (IF machine = "pdp6" THEN SixCalls ELSE KaCalls)[c]
                 \o (IF Starts(c) THEN Step("started", {}) ELSE <<>>)
  /\ UNCHANGED <<started, runVars>>

isrunning == run
isstopped == mc_stop

Holds(state) ==
  CASE state = "running" -> isrunning
    [] state = "halted" -> ~isrunning
    [] state = "stopped" -> isstopped

Due == Head(script)
Goes == script' = Tail(script) /\ UNCHANGED <<call, started>>

KeyStep ==
  /\ script # <<>>
  /\ CASE Due.do = "down" -> KeyDown(Due.arg)
       [] Due.do = "up" -> KeyUp(Due.arg)
       [] Due.do = "ta" ->
            pc' = "other" /\ UNCHANGED <<machine, run, mc_stop, inhibited, busy, mistimed, down>>
       [] OTHER -> FALSE
  /\ Goes /\ UNCHANGED outrun

(* A millisecond is longer than AT INH, but not than every instruction.    *)
SleepStep ==
  /\ script # <<>> /\ Due.do = "sleep"
  /\ inhibited' = FALSE /\ outrun' = (outrun \/ ~Settled)
  /\ Goes /\ UNCHANGED <<machine, run, mc_stop, busy, mistimed, pc, down>>

(* The state is there, or it has been looked for often enough.             *)
WaitStep ==
  /\ script # <<>>
  /\ CASE Due.do = "wait" -> outrun' = (outrun \/ ~(Holds(Due.arg) \/ Settled))
       [] OTHER -> Due.do = "complain" /\ UNCHANGED outrun
  /\ Goes /\ UNCHANGED runVars

(* run is off when a HALT has yet to end, and while the KA10 reads in.     *)
IfStep ==
  /\ script # <<>> /\ Due.do = "if"
  /\ script' = (IF Holds(Due.arg.is) THEN Due.arg.then ELSE Due.arg.else) \o Tail(script)
  /\ outrun' = (outrun \/ (Due.arg.is # "stopped" /\ ~run /\ (Going \/ busy = "readin")))
  /\ UNCHANGED <<call, started, runVars>>

StartedStep ==
  /\ script # <<>> /\ Due.do = "started"
  /\ started' = TRUE /\ script' = Tail(script)
  /\ UNCHANGED <<call, outrun, runVars>>

Complains == script # <<>> /\ Due.do = "complain"
Errs == script # <<>> /\ Due.do = "err"

InCall == KeyStep \/ SleepStep \/ WaitStep \/ IfStep \/ StartedStep

-----------------------------------------------------------------------------

Halted == ~run /\ ~Going

Promised(c) ==
  CASE c \in {"stopinst"} -> ~run
    [] c = "stopmem" -> ~run \/ mc_stop
    [] c = "nextinst" -> ~run /\ ~mc_stop
    [] c = "nextmem" -> ~run \/ mc_stop
    [] c = "setpc" -> ~run /\ ~mc_stop /\ pc = "ta"
    [] c \in {"exec", "ioreset"} -> ~run /\ ~mc_stop
    [] OTHER -> TRUE

(* Whatever the processor does between two steps of a call, unless it      *)
(* outruns the front end: no key is taken with an instruction in flight or *)
(* cut off, the front end gives up waiting only when the processor has     *)
(* halted of itself, and when a call returns the stop keys are up and the  *)
(* processor is as asked for.  It is outrun by an instruction that goes on *)
(* for more than the millisecond it sleeps, such as a long BLT, which no   *)
(* key stops; and when it finds run off before a HALT, an instruction that *)
(* is stepped, or a read-in of the KA10 is over.  Then nothing is claimed: *)
(* START may be taken with the pulses of another instruction in flight.    *)
KeysObeyed ==
  ~outrun =>
    /\ ~mistimed
    /\ Complains => Halted
    /\ script = <<>> => down = {} /\ Promised(call)
=============================================================================
