-------------------------- MODULE MCSerialConsole --------------------------
(***************************************************************************)
(* The guest's console for TLC: a code of one digit and one of three.      *)
(***************************************************************************)
EXTENDS GuestConsole

ExitCodes == {<<"0">>, <<"1", "2", "7">>}
=============================================================================
