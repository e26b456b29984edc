--------------------------- MODULE MCSwitchRuntime ---------------------------
(***************************************************************************)
(* Model checking of SwitchRuntime: one slot per endpoint, few generations *)
(* and few busy retries.                                                   *)
(***************************************************************************)
EXTENDS SwitchRuntime

CONSTANTS s1, s2

MCEndpointOf == [s \in Slots |-> IF s = s1 THEN 1 ELSE 2]

=============================================================================
