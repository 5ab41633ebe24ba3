------------------------------ MODULE FrontEnd -------------------------------
(* The front end: its command loop, its console, its dumps, its DECtape,   *)
(* and the processor and the drive that go on meanwhile.  A session is one *)
(* run of it: the machine, what is in core, the keys the operator uses,    *)
(* how much he types, and whether the drive is used.                       *)
EXTENDS Ddt, LineMeaning, Sblk, DecTape

CONSTANT
  Uses            \* sessions: [machine, core, keys, most, once, drive]

ASSUME UsesAssumption ==
  \A session \in Uses : session.core \in [0..(Core - 1) -> 0..(Words - 1)]

VARIABLES
  used,           \* the session
  unseen          \* history: the processor has stopped and nobody was told

vars == <<ddtVars, machineVars, fileVars, decTapeVars, used, unseen>>

TypeOK == RunTypeOK /\ ConsoleTypeOK /\ DdtTypeOK /\ SblkTypeOK /\ DecTapeTypeOK

Init ==
  /\ used \in Uses /\ unseen = FALSE
  /\ RunInit /\ machine = used.machine
  /\ ConsoleInit /\ DdtInit
  /\ SblkInit /\ mem = used.core
  /\ DecTapeInit

-----------------------------------------------------------------------------
(* Lines.                                                                  *)

coloncmds == {"load", "dump", "mount", "unmount", "listf", "none"}
Asked == IF linemode = "colon" THEN coloncmds ELSE {linemode}

(* A dump or a load without a name does nothing, a load needs the file.    *)
(* What is mounted is the tape of the drive or something else.  A bound: a *)
(* session does one or the other.                                          *)
Does(command) ==
  /\ command \in {"dump", "load"} => buf # <<>> /\ ~used.drive
  /\ command = "load" => file # <<>>
  /\ command \in {"mount", "unmount"} => used.drive /\ ~Writing

(* A file that cannot be opened leaves nothing mounted.                    *)
c_mount == mount \/ unmount

c_dump == dumpsblk(starta) /\ UNCHANGED <<machineVars, decTapeVars>>

c_load ==
  /\ loadsblk /\ UNCHANGED decTapeVars
  /\ IF outcome' = "done" THEN Begin("setpc") ELSE UNCHANGED machineVars

runline(c) ==
  /\ linemode # "none" /\ c \in {"cr", "lf"}
  /\ \E command \in Asked :
       CASE command = "dump" /\ Does("dump") -> c_dump
         [] command = "load" /\ Does("load") -> c_load
         [] command = "mount" /\ Does("mount") -> c_mount /\ UNCHANGED <<fileVars, machineVars>>
         [] command = "unmount" /\ Does("unmount") -> unmount /\ UNCHANGED <<fileVars, machineVars>>
         [] OTHER -> UNCHANGED <<fileVars, machineVars, decTapeVars>>
  /\ err /\ UNCHANGED astack

Zero(c) ==
  /\ linemode = "none" /\ c = "Z" /\ flags = "CCF"
  /\ zerocore
  /\ NoFlags /\ NotOpening /\ Kept /\ UNCHANGED <<exprVars, decTapeVars>>

-----------------------------------------------------------------------------
(* Bounds: a word has at most used.most characters, a start address is one *)
(* of core; a session with used.once ends with its first deposit, and      *)
(* opens one location there, at an address of one character.  No more is   *)
(* typed once a key was taken in the middle of an instruction.             *)

Openers == {"/", "[", "]", "!", "\\"}

Bounded(c) ==
  /\ c \in {"@", "Q"} => plain
  /\ c \in {"G", "R"} /\ flags = "CCF" => Parses /\ Or(starta) < Core
  /\ used.once =>
       /\ wrote = NoDeposit
       /\ c \in Openers => ~opened /\ astack = <<>>
       /\ c \in {"(", ")"} => opened

Longest == IF used.once /\ ~opened THEN 1 ELSE used.most

-----------------------------------------------------------------------------

Going1 == run /\ ~mc_stop
Watch == unseen' = ((unseen \/ Going1) /\ ~Going1')

Processor ==
  /\ Works /\ Watch
  /\ UNCHANGED <<ddtVars, consoleVars, fileVars, decTapeVars, used>>

ConsoleStep ==
  /\ InCall /\ Watch
  /\ UNCHANGED <<ddtVars, fileVars, decTapeVars, used>>

(* The key is refused: "?R? ".                                             *)
Refused ==
  /\ Errs /\ script' = <<>> /\ call' = "none"
  /\ err
  /\ UNCHANGED <<started, outrun, runVars, astack, fileVars, decTapeVars, used, unseen>>

(* The loop reads a character, reports a stop or serves the devices.       *)
Waiting == script = <<>> /\ outcome # "exit" /\ svc = NoRequest

AnyChar ==
  /\ Waiting /\ ~mistimed
  /\ \E c \in used.keys :
       /\ Bounded(c)
       /\ \/ Character(c) /\ UNCHANGED <<fileVars, decTapeVars>>
          \/ runline(c)
          \/ Zero(c)
  /\ Len(line') <= Longest
  /\ UNCHANGED <<used, unseen>>

Reported ==
  /\ Waiting /\ Report /\ unseen' = FALSE
  /\ UNCHANGED <<fileVars, decTapeVars, used>>

-----------------------------------------------------------------------------
(* The drive, and its service in fe_svc().                                 *)

DriveStep ==
  /\ used.drive /\ (Cono \/ Clock120kc)
  /\ UNCHANGED <<ddtVars, machineVars, fileVars, used, unseen>>

SwitchStep ==
  /\ used.drive /\ Waiting /\ Switch
  /\ UNCHANGED <<ddtVars, machineVars, fileVars, used, unseen>>

(* A stop is reported before devices are served.                           *)
fe_svc ==
  /\ Waiting /\ Poll /\ ~(started /\ Stopped)
  /\ UNCHANGED <<ddtVars, machineVars, fileVars, used, unseen>>

(* Without a tape there never was, dt->cur is nil, and the front end gone. *)
ServeTape ==
  /\ outcome # "exit" /\ svc # NoRequest
  /\ IF tape # NoTape
     THEN svc_dt /\ UNCHANGED outcome
     ELSE outcome' = "exit" /\ UNCHANGED decTapeVars
  /\ UNCHANGED <<ddtVars, machineVars, mem, file, leftover, dumped, used, unseen>>

-----------------------------------------------------------------------------

Next ==
  \/ Processor \/ ConsoleStep \/ Refused \/ AnyChar \/ Reported
  \/ DriveStep \/ SwitchStep \/ fe_svc \/ ServeTape

(* The processor works on, and the loop of the front end comes around.     *)
Spec ==
  /\ Init /\ [][Next]_vars
  /\ WF_vars(Processor) /\ WF_vars(ConsoleStep) /\ WF_vars(Refused) /\ WF_vars(Reported)

-----------------------------------------------------------------------------

(* fe.c aopen(), aclose(): a deposit goes where the terminal showed a      *)
(* location since the last close or error.                                 *)
DepositsShown == wrote # NoDeposit => wrote.at = wrote.shown

(* fe.c aclose(), endword(), combine(): what is deposited goes where it is *)
(* shown, and is what the line reads by the help text, however it was      *)
(* typed and erased.                                                       *)
DepositsTyped ==
  /\ DepositsShown
  /\ wrote.plain /\ IsInstruction(wrote.line) => wrote.word = InstructionOf(wrote.line)
  /\ wrote.plain /\ IsLine(wrote.line) => wrote.word = Meaning(wrote.line)

(* cmd.c loadsblk(), dumpsblk(): loading a dump, at any time, brings back  *)
(* what was dumped and the start address.                                  *)
Restored == RestoredBy(Loaded.loader)

(* fe.c threadmain(): when the operator types no more, a processor that    *)
(* has stopped is reported, whoever stopped it, unless the front end is    *)
(* gone.  Not so on the KA10 after a read-in: it is reported as halted     *)
(* while the tape is read, and then no more.                               *)
HaltReported ==
  (machine = "pdp6" \/ "R" \notin used.keys) /\ <>[][~AnyChar]_vars =>
    []<>(~unseen \/ outcome = "exit")
=============================================================================
