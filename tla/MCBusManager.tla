----------------------------- MODULE MCBusManager -----------------------------
(* Small instances of the bus driver. *)
EXTENDS BusManager

CONSTANTS g1, g2, p1, p2

\* A default, an explicit value, and one below MINIMUM_MTU.
MCRequestedMtus == {0, 9000, 576}

=============================================================================
