----------------------------- MODULE ConsoleSix ------------------------------
(* The console of the PDP-6 in an FPGA, host/fe/6/real.c.                  *)
EXTENDS KeySteps

keydown(k) == Down(k) \o IF k = "INSTSTOP" THEN usleep ELSE <<>>
keytoggle(k) == keydown(k) \o usleep \o keyup({k})

waithalt ==
  WaitUntil("halted")
    \o Unless("halted", keytoggle("INSTSTOP") \o WaitUntil("halted") \o Unless("halted", Complain))

waitmemstop == If("running", WaitUntil("stopped") \o Unless("stopped", Complain), <<>>)

cpu_stopinst == If("running", keytoggle("INSTSTOP") \o waithalt, <<>>)

cpu_stopmem ==
  If("running",
     Unless("stopped",
            keydown("MEMSTOP") \o waitmemstop \o keyup({"MEMSTOP"})),
     <<>>)

StartWith(key) ==
  cpu_stopinst
    \o keyup({"INSTSTOP", "MEMSTOP", "ADRSTOP"}) \o set_ta \o keytoggle(key)

cpu_start == StartWith("START")
cpu_readin == StartWith("READIN")

(* Fault: the memory cycle is left stopped.                                *)
cpu_setpc_stopped ==
  cpu_stopinst
    \o keydown("MEMSTOP") \o keyup({"ADRSTOP"}) \o set_ta \o keytoggle("START")
    \o waitmemstop
    \o keyup({"MEMSTOP"}) \o keytoggle("INSTSTOP")

cpu_setpc ==
  cpu_stopinst
    \o keydown("MEMSTOP") \o keyup({"ADRSTOP"}) \o set_ta \o keytoggle("START")
    \o waitmemstop
    \o keyup({"MEMSTOP"}) \o keytoggle("INSTSTOP")
    \o Down("THISEX") \o usleep \o keyup({"THISEX"}) \o usleep

togglecont ==
  If("stopped",
     keytoggle("MEMCONT"),
     keytoggle("INSTCONT"))

cpu_cont == Unless("running", keyup({"INSTSTOP", "MEMSTOP"}) \o togglecont)

ErrIfRunning == If("running", Unless("stopped", Err), <<>>)

cpu_nextinst ==
  ErrIfRunning
    \o keydown("INSTSTOP") \o togglecont \o waithalt
    \o keyup({"INSTSTOP"})

cpu_nextmem ==
  ErrIfRunning
    \o keydown("MEMSTOP") \o togglecont \o waitmemstop
    \o keyup({"MEMSTOP"})

cpu_exec == If("running", Err, <<>>) \o keytoggle("EXEC")
cpu_ioreset == If("running", Err, <<>>) \o keytoggle("RESET")
=============================================================================
