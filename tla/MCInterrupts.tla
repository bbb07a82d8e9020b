---------------------------- MODULE MCInterrupts ----------------------------
(* Two drivers, the keyboard's line and the first line of the second       *)
(* controller; exceptions that hang, return, carry an error code or none.  *)
EXTENDS Interrupts

MCDrivers == {1, 8}
MCFaults  == {3, 8, 13, 14}

=============================================================================
