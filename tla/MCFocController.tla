-------------------------- MODULE MCFocController ---------------------------
(* An instance of FocController for TLC: no voltage, and a command that is  *)
(* longer than the inverter can give.  Half written they make two more, one *)
(* along each axis.  The numbers make the scaled vectors whole.            *)
EXTENDS FocController

MCCommands == {[q |-> 0, d |-> 0], [q |-> 143, d |-> 156]}
=============================================================================
