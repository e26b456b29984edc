---------------------------- MODULE MCReceivePath ----------------------------
(***************************************************************************)
(* The instance of ReceivePath that TLC checks: two frames over a queue of *)
(* one, so that a write and a requeue meet a full queue, and rings of four *)
(* entries, which both wrap; one unusable entry and one cancellation at    *)
(* any moment, and any number of owners.                                   *)
(***************************************************************************)
EXTENDS ReceivePath

=============================================================================
