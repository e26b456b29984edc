----------------------------- MODULE MCForwarding -----------------------------
(* Three endpoints, a database that two stations on two VLANs overflow. *)
EXTENDS Forwarding, TLC

CONSTANTS e1, e2, e3, a, b

MCSymmetry == Permutations(EndpointIds) \cup Permutations(Stations)

=============================================================================
