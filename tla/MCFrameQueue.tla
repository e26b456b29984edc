---------------------------- MODULE MCFrameQueue ----------------------------
(***************************************************************************)
(* Five frames of four sizes for a ring of three slots: the ring wraps,    *)
(* fills up and is closed and reopened in every position of its head.      *)
(***************************************************************************)
EXTENDS FrameQueue, TLC

CONSTANTS f1, f2, f3, f4, f5

Pool == {f1, f2, f3, f4, f5}

(* Two full-sized frames, two smaller ones and one below FRAME_MINIMUM.    *)
Sizes == f1 :> 5 @@ f2 :> 5 @@ f3 :> 3 @@ f4 :> 2 @@ f5 :> 1
=============================================================================
