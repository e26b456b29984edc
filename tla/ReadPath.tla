------------------------------ MODULE ReadPath -------------------------------
(***************************************************************************)
(* The transmit direction of the adapter, from the packets the network     *)
(* stack sends to the READ requests of user mode, for one control handle   *)
(* from its creation to its cleanup, in D0.                                *)
(*                                                                         *)
(* evt_io_read, the TX advance callback, the work item, ENABLE_ADAPTIVE_-  *)
(* POLLING and evt_file_cleanup share the manual read queue, the capture   *)
(* queue, pending_reads and legacy_direct_read_claims.  The default queue  *)
(* of the driver is sequential, so there is one reader; NetAdapterCx       *)
(* serialises the callbacks of the TX queue; the work item never runs      *)
(* twice at once.  A captured frame is counted, not named, and a request   *)
(* that is retrieved from the manual queue is any of those on it: orders   *)
(* are no concern of this module.  WAIT_FOR_CHANGE, which the capture also *)
(* serves, is in AdaptiveWait, successive owners and power transitions are *)
(* in DatapathLifecycle.                                                   *)
(***************************************************************************)
EXTENDS Naturals, FiniteSets

CONSTANTS
    Reads,          \* the READ requests of the handle
    NoRead,
    ReadLimit,      \* PENDING_READ_LIMIT
    CaptureLimit,   \* FRAME_QUEUE_LIMIT
    MaxPackets      \* bound on the packets of one advance

ASSUME ReadAssumption ==
    /\ IsFiniteSet(Reads) /\ NoRead \notin Reads
    /\ ReadLimit \in Nat \ {0} /\ CaptureLimit \in Nat \ {0} /\ MaxPackets \in Nat \ {0}

VARIABLES
    readQueue,      \* the requests on the manual read queue
    captured,       \* the length of capture_queue
    pendingReads,   \* pending_reads
    claims,         \* legacy_direct_read_claims
    adaptive,       \* adaptive_enabled
    enable,         \* where handle_enable_adaptive_polling is
    reader, readerRead,     \* evt_io_read
    tx, txRead,             \* the TX advance callback
    packets,                \* the packets it has not returned yet
    capturedForLegacyRead,  \* captured_for_legacy_read
    worker, workerRead,     \* evt_read_completion_work_item
    scheduled,              \* the work item is queued
    cleanup                 \* where evt_file_cleanup is

control == <<adaptive, enable, cleanup>>
readerVars == <<reader, readerRead>>
txVars == <<tx, txRead, packets, capturedForLegacyRead>>
workerVars == <<worker, workerRead>>
vars == <<readQueue, captured, pendingReads, claims, control, readerVars, txVars,
          workerVars, scheduled>>

TypeOK ==
    /\ readQueue \subseteq Reads /\ captured \in 0..CaptureLimit
    /\ pendingReads \in 0..ReadLimit /\ claims \in 0..1
    /\ adaptive \in BOOLEAN /\ enable \in {"idle", "checked"}
    /\ reader \in {"idle", "mode", "poll", "admit", "dequeue", "forward", "deliver", "requeue"}
    /\ tx \in {"idle", "packet", "lock", "retrieve", "copy", "frame", "legacy", "adaptive"}
    /\ worker \in {"idle", "loop", "retrieve", "dequeue", "forward", "deliver", "requeue"}
    /\ {readerRead, txRead, workerRead} \subseteq Reads \cup {NoRead}
    /\ packets \in 0..MaxPackets
    /\ capturedForLegacyRead \in BOOLEAN /\ scheduled \in BOOLEAN
    /\ cleanup \in {"idle", "close", "drain", "flush", "purge", "clear", "closed"}

Init ==
    /\ readQueue = {} /\ captured = 0 /\ pendingReads = 0 /\ claims = 0
    /\ adaptive = FALSE /\ enable = "idle"
    /\ reader = "idle" /\ readerRead = NoRead
    /\ tx = "idle" /\ txRead = NoRead /\ packets = 0 /\ capturedForLegacyRead = FALSE
    /\ worker = "idle" /\ workerRead = NoRead /\ scheduled = FALSE
    /\ cleanup = "idle"

(* lifecycle = INSTANCE_OPEN.  Capture leases are given as long: cleanup   *)
(* sets its closer after that.                                             *)
IsOpen == cleanup = "idle"

(* try_admit, release_request                                              *)
CanAdmit == pendingReads < ReadLimit
Released == IF pendingReads = 0 THEN 0 ELSE pendingReads - 1

(* The requests that user mode can use for another READ.                   *)
Idle == Reads \ (readQueue \cup {readerRead, txRead, workerRead})

(* The frame of a request that could not take it goes back to the capture  *)
(* queue, if a second lease is given, the owner is the same and the queue  *)
(* has room.                                                               *)
RequeueCapture ==
    captured' = IF IsOpen /\ captured < CaptureLimit
                THEN captured + 1 ELSE captured

-----------------------------------------------------------------------------
(***************************************************************************)
(* evt_io_read, under a capture lease.                                     *)
(***************************************************************************)
readUnchanged == <<control, claims, txVars, workerVars, scheduled>>

ReadReturns == reader' = "idle" /\ readerRead' = NoRead

ReadEnter ==
    /\ reader = "idle" /\ IsOpen
    /\ \E r \in Idle : readerRead' = r
    /\ reader' = "mode"
    /\ UNCHANGED <<readQueue, captured, pendingReads, readUnchanged>>

ReadMode ==
    /\ reader = "mode"
    /\ reader' = IF adaptive THEN "poll" ELSE "admit"
    /\ UNCHANGED <<readerRead, readQueue, captured, pendingReads, readUnchanged>>

(* In adaptive mode a read never waits.                                    *)
ReadPoll ==
    /\ reader = "poll"
    /\ IF captured > 0
       THEN captured' = captured - 1 /\ reader' = "deliver" /\ UNCHANGED readerRead
       ELSE ReadReturns /\ UNCHANGED captured
    /\ UNCHANGED <<readQueue, pendingReads, readUnchanged>>

ReadAdmit ==
    /\ reader = "admit"
    /\ IF CanAdmit
       THEN pendingReads' = pendingReads + 1 /\ reader' = "dequeue" /\ UNCHANGED readerRead
       ELSE ReadReturns /\ UNCHANGED pendingReads
    /\ UNCHANGED <<readQueue, captured, readUnchanged>>

ReadDequeue ==
    /\ reader = "dequeue"
    /\ IF captured > 0
       THEN captured' = captured - 1 /\ pendingReads' = Released /\ reader' = "deliver"
       ELSE reader' = "forward" /\ UNCHANGED <<captured, pendingReads>>
    /\ UNCHANGED <<readerRead, readQueue, readUnchanged>>

(* forward_request: WDF takes the request, or the driver completes it.     *)
ReadForward ==
    /\ reader = "forward"
    /\ \/ readQueue' = readQueue \cup {readerRead} /\ UNCHANGED pendingReads
       \/ pendingReads' = Released /\ UNCHANGED readQueue
    /\ ReadReturns
    /\ UNCHANGED <<captured, readUnchanged>>

(* complete_captured_frame_to_read *)
ReadDeliver ==
    /\ reader = "deliver"
    /\ \/ ReadReturns
       \/ reader' = "requeue" /\ UNCHANGED readerRead
    /\ UNCHANGED <<readQueue, captured, pendingReads, readUnchanged>>

ReadRequeue ==
    /\ reader = "requeue"
    /\ RequeueCapture
    /\ ReadReturns
    /\ UNCHANGED <<readQueue, pendingReads, readUnchanged>>

(* WDF cancels a request on the manual queue: the queue has no callback    *)
(* for that, so pending_reads keeps counting it.                           *)
CancelQueuedRead ==
    /\ \E r \in readQueue : readQueue' = readQueue \ {r}
    /\ UNCHANGED <<captured, pendingReads, readerVars, readUnchanged>>

-----------------------------------------------------------------------------
(***************************************************************************)
(* handle_enable_adaptive_polling, under the direct-read lock, which it    *)
(* only tries to take.                                                     *)
(***************************************************************************)
DirectLockIsFree ==
    /\ tx \notin {"retrieve", "copy"} /\ enable = "idle"
    /\ cleanup \notin {"flush", "purge", "clear", "closed"}

enableUnchanged == <<readQueue, captured, pendingReads, claims, cleanup, readerVars, txVars,
                     workerVars, scheduled>>

EnableCheck ==
    /\ DirectLockIsFree /\ IsOpen
    /\ ~adaptive /\ pendingReads = 0 /\ claims = 0
    /\ enable' = "checked"
    /\ UNCHANGED <<adaptive, enableUnchanged>>

EnableStore ==
    /\ enable = "checked"
    /\ adaptive' = TRUE
    /\ enable' = "idle"
    /\ UNCHANGED enableUnchanged

-----------------------------------------------------------------------------
(***************************************************************************)
(* evt_packet_queue_advance, capture_transmit_packets and                  *)
(* deliver_transmit_packet_to_read, under a capture lease.                 *)
(***************************************************************************)
txUnchanged == <<control, readerVars, workerVars>>

TxAdvance ==
    /\ tx = "idle" /\ IsOpen
    /\ packets' \in 1..MaxPackets
    /\ tx' = "packet"
    /\ UNCHANGED <<txRead, capturedForLegacyRead, readQueue, captured, pendingReads, claims,
                   scheduled, txUnchanged>>

(* The next packet.  One that has no valid length, or for which there is   *)
(* no frame, is dropped; above PASSIVE_LEVEL it is not delivered directly. *)
TxPacket ==
    /\ tx = "packet" /\ packets > 0
    /\ \/ packets' = packets - 1 /\ UNCHANGED tx
       \/ ~adaptive /\ tx' = "lock" /\ UNCHANGED packets
       \/ tx' = "frame" /\ UNCHANGED packets
    /\ UNCHANGED <<txRead, capturedForLegacyRead, readQueue, captured, pendingReads, claims,
                   scheduled, txUnchanged>>

(* LegacyDirectReadGuard::try_acquire, and the second look at the mode and *)
(* the lifecycle.                                                          *)
TxLock ==
    /\ tx = "lock"
    /\ tx' = IF DirectLockIsFree /\ ~adaptive /\ IsOpen THEN "retrieve" ELSE "frame"
    /\ UNCHANGED <<txRead, packets, capturedForLegacyRead, readQueue, captured, pendingReads,
                   claims, scheduled, txUnchanged>>

TxRetrieve ==
    /\ tx = "retrieve"
    /\ \/ /\ \E r \in readQueue : txRead' = r /\ readQueue' = readQueue \ {r}
          /\ pendingReads' = Released /\ claims' = claims + 1
          /\ tx' = "copy"
       \/ /\ readQueue = {}
          /\ tx' = "frame"
          /\ UNCHANGED <<txRead, readQueue, pendingReads, claims>>
    /\ UNCHANGED <<packets, capturedForLegacyRead, captured, scheduled, txUnchanged>>

(* The read is completed, with the frame or with an error; in the second   *)
(* case the frame is captured.                                             *)
TxCopy ==
    /\ tx = "copy"
    /\ txRead' = NoRead /\ claims' = claims - 1
    /\ \/ tx' = "packet" /\ packets' = packets - 1
       \/ tx' = "frame" /\ UNCHANGED packets
    /\ UNCHANGED <<capturedForLegacyRead, readQueue, captured, pendingReads, scheduled,
                   txUnchanged>>

(* The frame is allocated and filled, or the packet dropped; then the      *)
(* owner is compared and the mode read.                                    *)
TxFrame ==
    /\ tx = "frame"
    /\ \/ IsOpen /\ tx' = (IF adaptive THEN "adaptive" ELSE "legacy") /\ UNCHANGED packets
       \/ tx' = "packet" /\ packets' = packets - 1
    /\ UNCHANGED <<txRead, capturedForLegacyRead, readQueue, captured, pendingReads, claims,
                   scheduled, txUnchanged>>

(* enqueue_existing_capture_frame: a frame that finds no room is dropped.  *)
TxEnqueue ==
    /\ tx \in {"legacy", "adaptive"}
    /\ captured' = IF captured < CaptureLimit THEN captured + 1 ELSE captured
    /\ capturedForLegacyRead' =
           (capturedForLegacyRead \/ (tx = "legacy" /\ captured < CaptureLimit))
    /\ tx' = "packet" /\ packets' = packets - 1
    /\ UNCHANGED <<txRead, readQueue, pendingReads, claims, scheduled, txUnchanged>>

(* Wrong variant: as for a wait, only the first frame queues the work item. *)
TxReturnOnTransition ==
    /\ tx = "packet" /\ packets = 0
    /\ scheduled' = (scheduled \/ (capturedForLegacyRead /\ captured = 1))
    /\ capturedForLegacyRead' = FALSE
    /\ tx' = "idle"
    /\ UNCHANGED <<txRead, packets, readQueue, captured, pendingReads, claims, txUnchanged>>

TxReturn ==
    /\ tx = "packet" /\ packets = 0
    /\ scheduled' = (scheduled \/ capturedForLegacyRead)
    /\ capturedForLegacyRead' = FALSE
    /\ tx' = "idle"
    /\ UNCHANGED <<txRead, packets, readQueue, captured, pendingReads, claims, txUnchanged>>

-----------------------------------------------------------------------------
(***************************************************************************)
(* evt_read_completion_work_item: its loop over the manual queue, under a  *)
(* capture lease per iteration.                                            *)
(***************************************************************************)
workerUnchanged == <<control, claims, readerVars, txVars>>

WorkerReturns == worker' = "idle" /\ workerRead' = NoRead

WorkerRuns ==
    /\ worker = "idle" /\ scheduled
    /\ scheduled' = FALSE
    /\ worker' = "loop"
    /\ UNCHANGED <<workerRead, readQueue, captured, pendingReads, workerUnchanged>>

(* The claim of a WAIT_FOR_CHANGE queues the work item too.  A run that is *)
(* queued behind the flush of a cleanup is given no lease.                 *)
ClaimedWait ==
    /\ adaptive /\ cleanup \in {"idle", "close", "drain"}
    /\ scheduled' = TRUE
    /\ UNCHANGED <<workerVars, readQueue, captured, pendingReads, workerUnchanged>>

WorkerLoop ==
    /\ worker = "loop"
    /\ worker' = IF IsOpen THEN "retrieve" ELSE "idle"
    /\ UNCHANGED <<workerRead, scheduled, readQueue, captured, pendingReads, workerUnchanged>>

WorkerRetrieve ==
    /\ worker = "retrieve"
    /\ \/ /\ \E r \in readQueue : workerRead' = r /\ readQueue' = readQueue \ {r}
          /\ worker' = "dequeue"
       \/ readQueue = {} /\ WorkerReturns /\ UNCHANGED readQueue
    /\ UNCHANGED <<scheduled, captured, pendingReads, workerUnchanged>>

WorkerDequeue ==
    /\ worker = "dequeue"
    /\ IF captured > 0
       THEN captured' = captured - 1 /\ pendingReads' = Released /\ worker' = "deliver"
       ELSE worker' = "forward" /\ UNCHANGED <<captured, pendingReads>>
    /\ UNCHANGED <<workerRead, scheduled, readQueue, workerUnchanged>>

(* Wrong variant: the read counts as retrieved although it goes back.      *)
WorkerForwardReleases ==
    /\ worker = "forward"
    /\ readQueue' = readQueue \cup {workerRead} \/ UNCHANGED readQueue
    /\ pendingReads' = Released
    /\ WorkerReturns
    /\ UNCHANGED <<scheduled, captured, workerUnchanged>>

WorkerForward ==
    /\ worker = "forward"
    /\ \/ readQueue' = readQueue \cup {workerRead} /\ UNCHANGED pendingReads
       \/ pendingReads' = Released /\ UNCHANGED readQueue
    /\ WorkerReturns
    /\ UNCHANGED <<scheduled, captured, workerUnchanged>>

WorkerDeliver ==
    /\ worker = "deliver"
    /\ \/ worker' = "loop" /\ workerRead' = NoRead
       \/ worker' = "requeue" /\ UNCHANGED workerRead
    /\ UNCHANGED <<scheduled, readQueue, captured, pendingReads, workerUnchanged>>

WorkerRequeue ==
    /\ worker = "requeue"
    /\ RequeueCapture
    /\ worker' = "loop" /\ workerRead' = NoRead
    /\ UNCHANGED <<scheduled, readQueue, pendingReads, workerUnchanged>>

-----------------------------------------------------------------------------
(***************************************************************************)
(* evt_file_cleanup                                                        *)
(***************************************************************************)
cleanupUnchanged == <<claims, enable, readerVars, txVars, workerVars, scheduled>>

CleanupRetire ==
    /\ cleanup = "idle" /\ cleanup' = "close"
    /\ UNCHANGED <<adaptive, readQueue, captured, pendingReads, cleanupUnchanged>>

CleanupClose ==
    /\ cleanup = "close" /\ cleanup' = "drain"
    /\ UNCHANGED <<adaptive, readQueue, captured, pendingReads, cleanupUnchanged>>

(* Wrong variant: the closer is set, and the leases are not waited for.    *)
CleanupSkipsDrain ==
    /\ cleanup = "drain"
    /\ tx \notin {"retrieve", "copy"} /\ enable = "idle"
    /\ cleanup' = "flush"
    /\ UNCHANGED <<adaptive, readQueue, captured, pendingReads, cleanupUnchanged>>

(* The leases come back, and the direct-read lock is taken.                *)
CleanupDrain ==
    /\ cleanup = "drain"
    /\ reader = "idle" /\ tx = "idle" /\ worker \in {"idle", "loop"} /\ enable = "idle"
    /\ cleanup' = "flush"
    /\ UNCHANGED <<adaptive, readQueue, captured, pendingReads, cleanupUnchanged>>

CleanupFlush ==
    /\ cleanup = "flush"
    /\ worker = "idle" /\ ~scheduled
    /\ cleanup' = "purge"
    /\ UNCHANGED <<adaptive, readQueue, captured, pendingReads, cleanupUnchanged>>

(* Only a legacy owner's reads are purged: the adaptive one is not         *)
(* expected to have any on the manual queue.                               *)
CleanupPurge ==
    /\ cleanup = "purge"
    /\ readQueue' = IF adaptive THEN readQueue ELSE {}
    /\ cleanup' = "clear"
    /\ UNCHANGED <<adaptive, captured, pendingReads, cleanupUnchanged>>

CleanupClear ==
    /\ cleanup = "clear"
    /\ captured' = 0 /\ pendingReads' = 0 /\ adaptive' = FALSE
    /\ cleanup' = "closed"
    /\ UNCHANGED <<readQueue, cleanupUnchanged>>

-----------------------------------------------------------------------------
Reading ==
    \/ ReadMode \/ ReadPoll \/ ReadAdmit \/ ReadDequeue \/ ReadForward
    \/ ReadDeliver \/ ReadRequeue

Transmitting ==
    TxPacket \/ TxLock \/ TxRetrieve \/ TxCopy \/ TxFrame \/ TxEnqueue \/ TxReturn

Working ==
    \/ WorkerRuns \/ WorkerLoop \/ WorkerRetrieve \/ WorkerDequeue \/ WorkerForward
    \/ WorkerDeliver \/ WorkerRequeue

Cleaning ==
    CleanupClose \/ CleanupDrain \/ CleanupFlush \/ CleanupPurge \/ CleanupClear

Next ==
    \/ ReadEnter \/ Reading \/ CancelQueuedRead
    \/ EnableCheck \/ EnableStore
    \/ TxAdvance \/ Transmitting
    \/ ClaimedWait \/ Working
    \/ CleanupRetire \/ Cleaning

Spec == Init /\ [][Next]_vars

(* The threads that have begun a callback run on.  Reads, packets,         *)
(* cancellations, ENABLE and the closing of the handle need not come.      *)
FairSpec ==
    /\ Spec
    /\ WF_vars(Reading) /\ WF_vars(Transmitting) /\ WF_vars(Working) /\ WF_vars(Cleaning)
    /\ WF_vars(EnableStore)

-----------------------------------------------------------------------------
(***************************************************************************)
(* Properties.                                                             *)
(***************************************************************************)

(* The legacy reads that have been admitted and not yet matched with a     *)
(* frame.                                                                  *)
Waiting ==
    readQueue
        \cup (IF reader \in {"dequeue", "forward"} THEN {readerRead} ELSE {})
        \cup (IF worker \in {"dequeue", "forward"} THEN {workerRead} ELSE {})

(* pending_reads never undercounts the reads that wait: the mode change    *)
(* trusts a zero, and try_admit its limit.  Cancellations make it count    *)
(* too many, never too few.                                                *)
PendingReadsCoverReads == cleanup # "closed" => Cardinality(Waiting) <= pendingReads

(* When a legacy owner's cleanup clears the queues, no thread has one of   *)
(* its reads and none is on the manual queue: a forward that was under way *)
(* has not escaped the purge.                                              *)
CleanupCompletesReads == cleanup = "clear" /\ ~adaptive => Idle = Reads

(* A frame that is captured while a read waits gets to a read: the work    *)
(* item runs on until the frames or the reads are used up.                 *)
CaptureServesReads ==
    (capturedForLegacyRead /\ readQueue # {}) ~> (captured = 0 \/ readQueue = {})

=============================================================================
