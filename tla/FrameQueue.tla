----------------------------- MODULE FrameQueue -----------------------------
(***************************************************************************)
(* The bounded frame queue of the driver (frame_queue.rs): a ring of       *)
(* possibly uninitialised slots with a head index, a length and a running  *)
(* byte count.  The driver calls every operation under the queue's spin    *)
(* lock, so each one is an action.                                         *)
(*                                                                         *)
(* A frame is an object of the lookaside pool.  The ring moves frames in   *)
(* and out without running destructors, so the module keeps track of who   *)
(* owns each allocated frame: a slot of the window, or the code around the *)
(* queue.                                                                  *)
(***************************************************************************)
EXTENDS Integers, Sequences

CONSTANTS
    Frames,         \* the frame objects of the lookaside pool
    Size,           \* the number of bytes each frame is given
    FrameMinimum,   \* FRAME_MINIMUM
    FrameMaximum,   \* the frame_maximum of the instance
    Limit,          \* FRAME_QUEUE_LIMIT
    Uninit          \* the content of a slot that holds no frame

(* create_tap_device: FRAME_QUEUE_LIMIT.checked_mul(frame_maximum)         *)
ByteLimit == Limit * FrameMaximum

ASSUME FrameAssumption ==
    /\ FrameMinimum \in Nat \ {0} /\ FrameMaximum \in Nat
    /\ Size \in [Frames -> Nat]
    /\ Uninit \notin Frames

ASSUME LimitAssumption == Limit \in Nat \ {0}

VARIABLES
    frames,     \* the slots
    head,       \* index of the oldest frame
    length,     \* number of queued frames
    bytes,      \* number of queued bytes
    state,      \* QueueState
    allocated,  \* frames taken from the pool and not yet released
    outside,    \* frames owned by the code around the queue
    result      \* what the last operation returned

queueVars == <<frames, head, length, bytes, state, allocated, outside, result>>

Slots == 0..(Limit - 1)

(* The slots that hold the queued frames.                                  *)
Window == {(head + i) % Limit : i \in 0..(length - 1)}

(* The queued frames, in the order in which dequeue takes them.            *)
Queued == [i \in 1..length |-> frames[(head + i - 1) % Limit]]

QueueTypeOK ==
    /\ frames \in [Slots -> Frames \cup {Uninit}]
    /\ head \in Slots
    /\ length \in 0..Limit
    /\ bytes \in 0..ByteLimit
    /\ state \in {"open", "closing", "closed"}
    /\ allocated \subseteq Frames
    /\ outside \subseteq allocated
    /\ result \in Frames \cup {"ok", "full", "closed", "none"}

(* FrameQueue::try_new *)
QueueInit ==
    /\ frames = [i \in Slots |-> Uninit]
    /\ head = 0 /\ length = 0 /\ bytes = 0
    /\ state = "open"
    /\ allocated = {} /\ outside = {}
    /\ result = "none"

-----------------------------------------------------------------------------
(* Frame::from_bytes: a frame of the pool is given its bytes, if their     *)
(* number is that of an Ethernet frame the instance can carry.             *)
FromBytes(f) ==
    /\ f \notin allocated
    /\ Size[f] \in FrameMinimum..FrameMaximum
    /\ allocated' = allocated \cup {f}
    /\ outside' = outside \cup {f}
    /\ UNCHANGED <<frames, head, length, bytes, state, result>>

(* The destructor of a frame.                                              *)
DropFrame(f) ==
    /\ f \in outside
    /\ allocated' = allocated \ {f}
    /\ outside' = outside \ {f}
    /\ UNCHANGED <<frames, head, length, bytes, state, result>>

CheckCapacity(n) ==
    IF state # "open" THEN "closed"
    ELSE IF bytes > ByteLimit \/ length >= Limit \/ n > ByteLimit - bytes THEN "full"
    ELSE "ok"

(* Wrong variant: the frame is stored in the slot of the oldest one.       *)
EnqueueAtHead(f) ==
    /\ f \in outside
    /\ result' = CheckCapacity(Size[f])
    /\ IF result' = "ok"
       THEN /\ frames' = [frames EXCEPT ![head] = f]
            /\ length' = length + 1
            /\ bytes' = bytes + Size[f]
            /\ outside' = outside \ {f}
            /\ UNCHANGED allocated
       ELSE /\ outside' = outside \ {f}
            /\ allocated' = allocated \ {f}
            /\ UNCHANGED <<frames, length, bytes>>
    /\ UNCHANGED <<head, state>>

(* enqueue takes the frame by value: a refused frame is dropped.           *)
Enqueue(f) ==
    /\ f \in outside
    /\ result' = CheckCapacity(Size[f])
    /\ IF result' = "ok"
       THEN /\ frames' = [frames EXCEPT ![(head + length) % Limit] = f]
            /\ length' = length + 1
            /\ bytes' = bytes + Size[f]
            /\ outside' = outside \ {f}
            /\ UNCHANGED allocated
       ELSE /\ outside' = outside \ {f}
            /\ allocated' = allocated \ {f}
            /\ UNCHANGED <<frames, length, bytes>>
    /\ UNCHANGED <<head, state>>

(* Wrong variant: the bytes of the frame stay on the account.              *)
DequeueKeepsBytes ==
    /\ length > 0
    /\ LET f == frames[head] IN
       /\ frames' = [frames EXCEPT ![head] = Uninit]
       /\ head' = (head + 1) % Limit
       /\ length' = length - 1
       /\ outside' = outside \cup {f}
       /\ result' = f
    /\ UNCHANGED <<bytes, state, allocated>>

(* assume_init_read moves the frame out of its slot.                       *)
Dequeue ==
    \/ /\ length = 0
       /\ result' = "none"
       /\ UNCHANGED <<frames, head, length, bytes, state, allocated, outside>>
    \/ /\ length > 0
       /\ LET f == frames[head] IN
          /\ frames' = [frames EXCEPT ![head] = Uninit]
          /\ head' = (head + 1) % Limit
          /\ length' = length - 1
          /\ bytes' = bytes - Size[f]
          /\ outside' = outside \cup {f}
          /\ result' = f
       /\ UNCHANGED <<state, allocated>>

(* Wrong variant: the counters are reset and no destructor runs.           *)
ClearByReset ==
    /\ frames' = [i \in Slots |-> Uninit]
    /\ head' = 0 /\ length' = 0 /\ bytes' = 0
    /\ UNCHANGED <<allocated, outside>>

(* The byte count after a number of dequeues.                              *)
BytesLeft[i \in 0..length] ==
    IF i = 0 THEN bytes ELSE BytesLeft[i - 1] - Size[Queued[i]]

(* clear_frames dequeues until nothing is left and drops each frame.       *)
ClearFrames ==
    /\ frames' = [i \in Slots |-> IF i \in Window THEN Uninit ELSE frames[i]]
    /\ head' = (head + length) % Limit
    /\ length' = 0
    /\ bytes' = BytesLeft[length]
    /\ allocated' = allocated \ {frames[i] : i \in Window}
    /\ UNCHANGED outside

(* begin_close *)
BeginClose ==
    /\ state = "open"
    /\ state' = "closing"
    /\ result' = "none"
    /\ UNCHANGED <<frames, head, length, bytes, allocated, outside>>

(* close *)
Close == ClearFrames /\ state' = "closed" /\ result' = "none"

(* Wrong variant: the frames of the previous owner survive.                *)
ReopenKeepsFrames ==
    /\ state' = "open"
    /\ result' = "none"
    /\ UNCHANGED <<frames, head, length, bytes, allocated, outside>>

(* reopen *)
Reopen == ClearFrames /\ state' = "open" /\ result' = "none"

QueueNext ==
    \/ \E f \in Frames : FromBytes(f) \/ DropFrame(f) \/ Enqueue(f)
    \/ Dequeue \/ BeginClose \/ Close \/ Reopen

QueueSpec == QueueInit /\ [][QueueNext]_queueVars

-----------------------------------------------------------------------------
(* A slot holds a frame exactly when it lies in the window, so             *)
(* assume_init_read never reads an uninitialised slot and write never      *)
(* overwrites a frame without dropping it.                                 *)
WindowIsInitialised == \A i \in Slots : frames[i] # Uninit <=> i \in Window

(* Every frame taken from the pool has one owner: the ring never holds a   *)
(* frame twice, never one that other code also owns, and forgets none.     *)
EveryFrameHasOneOwner ==
    /\ allocated = outside \cup {frames[i] : i \in Window}
    /\ \A i \in Window : frames[i] \notin outside
    /\ \A i, j \in Window : frames[i] = frames[j] => i = j

(* readiness_snapshot calls the injection queue writable by its length     *)
(* alone.  The byte budget of create_tap_device makes that right: an open  *)
(* queue below its frame limit takes any frame the instance can carry.     *)
WritableMeansRoom ==
    state = "open" /\ length < Limit =>
        \A n \in FrameMinimum..FrameMaximum : CheckCapacity(n) = "ok"

(* The ring is a first-in first-out queue.  Allocation and release of      *)
(* frames outside the queue are invisible to it.                           *)
Fifo == INSTANCE FrameFifo WITH queue <- Queued

ImplementsFifo == Fifo!Spec
=============================================================================
