------------------------------ MODULE FrameFifo ------------------------------
(***************************************************************************)
(* What the driver relies on from a frame queue: a first-in first-out      *)
(* queue of owned frames, bounded in frames and in bytes, that takes new   *)
(* frames only while it is open.  FrameQueue implements it with a ring of  *)
(* uninitialised slots and two running counters.                           *)
(***************************************************************************)
EXTENDS Integers, Sequences

CONSTANTS
    Frames,     \* the frame objects of the lookaside pool
    Size,       \* the length in bytes of each frame
    Limit,      \* most frames queued at once
    ByteLimit   \* most bytes queued at once

VARIABLES
    queue,      \* the queued frames, oldest first
    state,      \* QueueState
    result      \* what the last operation returned

vars == <<queue, state, result>>

(* The bytes of a queue, summed from its oldest frame.                     *)
Bytes(q) ==
    LET sum[i \in 0..Len(q)] == IF i = 0 THEN 0 ELSE sum[i - 1] + Size[q[i]]
    IN  sum[Len(q)]

Init == queue = <<>> /\ state = "open" /\ result = "none"

(* Refusing a frame depends on nothing but the state and the two budgets.  *)
Enqueue(f) ==
    LET fits == Len(queue) < Limit /\ Bytes(queue) + Size[f] <= ByteLimit IN
    /\ result' = IF state # "open" THEN "closed" ELSE IF fits THEN "ok" ELSE "full"
    /\ queue' = IF result' = "ok" THEN Append(queue, f) ELSE queue
    /\ UNCHANGED state

(* Frames come out in order, whatever the state.                           *)
Dequeue ==
    \/ queue = <<>> /\ result' = "none" /\ UNCHANGED <<queue, state>>
    \/ /\ queue # <<>>
       /\ result' = Head(queue)
       /\ queue' = Tail(queue)
       /\ UNCHANGED state

SetState(s, kept) == state' = s /\ queue' = kept /\ result' = "none"

Next ==
    \/ \E f \in Frames : Enqueue(f)
    \/ Dequeue
    \/ state = "open" /\ SetState("closing", queue)
    \/ SetState("closed", <<>>)
    \/ SetState("open", <<>>)

Spec == Init /\ [][Next]_vars
=============================================================================
