----------------------------- MODULE MCReadPath ------------------------------
(***************************************************************************)
(* The instance of ReadPath that TLC checks: three reads over a limit of   *)
(* two pending reads, a capture queue of two frames that fills, and        *)
(* advances of up to two packets.                                          *)
(***************************************************************************)
EXTENDS ReadPath

=============================================================================
