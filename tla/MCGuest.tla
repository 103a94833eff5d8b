------------------------------ MODULE MCGuest ------------------------------
(* Constants with which TLC checks Guest.                                  *)
EXTENDS Guest

\* Success, and the -1 that ExitCode gives for a command ended by a signal.
MCExitCodes == {0, -1}
=============================================================================
