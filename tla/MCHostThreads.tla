--------------------------- MODULE MCHostThreads ----------------------------
(* Instances of HostThreads for TLC.                                       *)
EXTENDS HostThreads

(* One sends to two, or two to one; a channel is closed on two that wait,  *)
(* or with something in it; those who do not wait beside one who does;     *)
(* a screen; hands at the keys, a stick and the pen.                       *)
MCUses == {
  {<<"a", "send">>, <<"b", "recv">>, <<"c", "recv">>},
  {<<"a", "send">>, <<"b", "send">>, <<"c", "recv">>},
  {<<"a", "close">>, <<"b", "send">>, <<"c", "nbsend">>},
  {<<"a", "close">>, <<"a", "nbrecv">>, <<"b", "recv">>, <<"c", "recv">>},
  {<<"a", "send">>, <<"a", "close">>, <<"b", "recv">>},
  {<<"a", "nbsend">>, <<"b", "nbrecv">>, <<"c", "recv">>},
  {<<"display", "dots">>},
  {<<"keyboard", "first">>, <<"mouse", "pen">>},
  {<<"stick", "first">>, <<"stick", "second">>}}

MCDisplay == {{<<"display", "dots">>}}

MCHalo == [left |-> {"right"}, right |-> {"left"}]
=============================================================================
