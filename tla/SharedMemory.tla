---------------------------- MODULE SharedMemory ----------------------------
(***************************************************************************)
(* What the memory system promises to those who share it: every operation  *)
(* a client calls takes effect exactly once, all at one instant, between   *)
(* its call and its return, and a read returns the word that was in        *)
(* memory at that instant.  The clients run on one clock, so one step may  *)
(* move several of them, but no two operations take effect in one step.    *)
(***************************************************************************)

CONSTANTS
  Client,     \* those who share the memory
  Addr,       \* addresses
  Word        \* memory words

VARIABLES
  mem,        \* the contents of memory
  phase,      \* "idle", "called" or "done", per client
  op,         \* the operation last called, per client
  out         \* the word last read, per client; means nothing until the
              \* operation called has taken effect

vars == <<mem, phase, op, out>>

Operation == [kind : {"read"}, addr : Addr] \cup
             [kind : {"write"}, addr : Addr, word : Word]

Init ==
  /\ mem \in [Addr -> Word]
  /\ phase = [c \in Client |-> "idle"]
  /\ op \in [Client -> Operation]
  /\ out \in [Client -> Word]

Stay(c) ==
  /\ phase'[c] = phase[c]
  /\ op'[c] = op[c]
  /\ out'[c] = out[c]

Call(c) ==
  /\ phase[c] = "idle"
  /\ phase'[c] = "called"
  /\ op'[c] \in Operation
  /\ out'[c] \in Word

\* The instant at which c's operation takes effect.
Perform(c) ==
  /\ phase[c] = "called"
  /\ phase'[c] = "done"
  /\ op'[c] = op[c]
  /\ \/ /\ op[c].kind = "read"
        /\ out'[c] = mem[op[c].addr]
        /\ mem' = mem
     \/ /\ op[c].kind = "write"
        /\ out'[c] = out[c]
        /\ mem' = [mem EXCEPT ![op[c].addr] = op[c].word]

Return(c) ==
  /\ phase[c] = "done"
  /\ phase'[c] = "idle"
  /\ op'[c] = op[c]
  /\ out'[c] = out[c]

Local(c) == Stay(c) \/ Call(c) \/ Return(c)

Next ==
  \/ mem' = mem /\ \A c \in Client : Local(c)
  \/ \E p \in Client : Perform(p) /\ \A c \in Client \ {p} : Local(c)

Spec == Init /\ [][Next]_vars
=============================================================================
