--------------------------- MODULE MCAdaptiveWait ---------------------------
(* Model-checking instances of AdaptiveWait.                               *)
EXTENDS AdaptiveWaitInvariant

ReadableOnly == {{"readable"}}
EitherBit == {{"readable"}, {"writable"}}
=============================================================================
