------------------------------ MODULE ConsoleKa ------------------------------
(* The console of the KA10, host/fe/ka/real.c: single instruction and      *)
(* single cycle are switches of their own, one key continues both ways.    *)
EXTENDS KeySteps

keydown(k) == Down(k) \o IF k = "STOP" THEN usleep ELSE <<>>
keytoggle(k) == keydown(k) \o usleep \o keyup({k})

waithalt ==
  WaitUntil("halted")
    \o Unless("halted", keytoggle("STOP") \o WaitUntil("halted") \o Unless("halted", Complain))

waitmemstop == If("running", WaitUntil("stopped") \o Unless("stopped", Complain), <<>>)

cpu_stopinst ==
  If("running",
     keytoggle("STOP") \o keydown("SING_INST") \o waithalt
       \o keyup({"SING_INST"}),
     <<>>)

cpu_stopmem ==
  If("running",
     Unless("stopped",
            keydown("SING_CYC") \o waitmemstop \o keyup({"SING_CYC"})),
     <<>>)

(* The read-in takes its device from the maintenance switches.             *)
StartWith(key) ==
  cpu_stopinst
    \o keyup({"SING_INST", "ADR_STOP"}) \o set_ta \o keytoggle(key)

cpu_start == StartWith("START")
cpu_readin == StartWith("READIN")

cpu_setpc ==
  cpu_stopinst
    \o keydown("SING_CYC") \o keyup({"ADR_STOP"}) \o set_ta \o keytoggle("START")
    \o waitmemstop
    \o keyup({"SING_CYC"}) \o keytoggle("STOP")
    \o keytoggle("EX") \o usleep

togglecont == keytoggle("CONT")

cpu_cont == Unless("running", keyup({"SING_CYC", "SING_INST", "ADR_STOP"}) \o togglecont)

ErrIfRunning == If("running", Unless("stopped", Err), <<>>)

cpu_nextinst ==
  ErrIfRunning
    \o keydown("SING_INST") \o togglecont \o waithalt
    \o keyup({"SING_INST"})

cpu_nextmem ==
  ErrIfRunning
    \o keydown("SING_CYC") \o togglecont \o waitmemstop
    \o keyup({"SING_CYC"})

cpu_exec == If("running", Err, <<>>) \o keytoggle("XCT")
cpu_ioreset == If("running", Err, <<>>) \o keytoggle("RESET")
=============================================================================
