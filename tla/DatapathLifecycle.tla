-------------------------- MODULE DatapathLifecycle --------------------------
(***************************************************************************)
(* Admission to the datapath of one TAP instance, and the teardown and     *)
(* recovery paths that close and reopen it: D0 entry and exit, prepare and *)
(* release hardware, and the cleanup of the owner's file handle (lib.rs of *)
(* the NetAdapterCx driver).                                               *)
(*                                                                         *)
(* The threads:                                                            *)
(*   "power"     the PnP and power callbacks, which WDF runs one at a time *)
(*   Handles     file handles: create, and the cleanup of each handle      *)
(*   "tx", "rx"  EVT_PACKET_QUEUE_ADVANCE of the two packet queues         *)
(*   "read", "write"  evt_io_read and evt_io_write                         *)
(*   "control"   ENABLE_ADAPTIVE_POLLING                                   *)
(*                                                                         *)
(* A frame queue is abstracted to the set of owner generations whose       *)
(* frames it holds.  The adaptive wait and the work item that teardown     *)
(* cancels and flushes are the subject of AdaptiveWait.                    *)
(***************************************************************************)
EXTENDS Naturals, FiniteSets

CONSTANTS
    Handles,        \* file handles of the control device
    Workers,        \* the datapath threads that occur
    MaxGeneration,  \* bound on the owner generations
    MaxPower        \* bound on the number of PnP and power callbacks

Directions == {"rx", "tx"}

Closers == {"power", "hardware", "owner"}

AllWorkers == {"tx", "rx", "read", "write", "control"}

Threads == Handles \cup Workers \cup {"power"}

ASSUME LifecycleAssumption ==
    /\ Workers \subseteq AllWorkers
    /\ Handles \cap (AllWorkers \cup {"power", "nobody"}) = {}
    /\ MaxGeneration \in Nat /\ MaxPower \in Nat

VARIABLES
    lifecycle,      \* InstanceState::lifecycle
    closers,        \* the closer bits of the two lease words
    leases,         \* the holders counted by the two lease words
    directLock,     \* holder of legacy_direct_read_lock
    writeLock,      \* holder of write_lifetime_lock
    controlOpen,    \* control_open
    adaptive,       \* adaptive_enabled
    generation,     \* owner_generation
    adapter,        \* the adapter handle is not null
    started,        \* the adapter's queues may call back
    readQueue,      \* the manual read queue, "started" or "purged"
    queueOpen,      \* injection ("rx") and capture ("tx") queue are Open
    frames,         \* the owners whose frames each queue holds
    pnp,            \* what the last PnP or power callback left behind
    job,            \* the PnP or power callback that is running
    powerCount,     \* number of PnP and power callbacks so far
    pc,             \* the next step of each thread
    saw,            \* the generation a worker observed or was issued under
    frame,          \* the owner of the frame rx or read holds
    owns,           \* owns_lifecycle of a cleanup
    wasAdaptive     \* the adaptive flag D0 entry and release hardware read

words == <<closers, leases>>
locks == <<directLock, writeLock>>
owner == <<controlOpen, adaptive, generation>>
device == <<adapter, started, pnp, job, powerCount>>
queues == <<readQueue, queueOpen, frames>>
locals == <<saw, frame, owns, wasAdaptive>>
vars == <<lifecycle, words, locks, owner, device, queues, pc, locals>>

Generations == 0..MaxGeneration

Labels == {"idle", "open", "claim", "stop_adapter", "close_rx", "close_tx",
           "drain_rx", "drain_tx", "lock_direct", "lock_write", "purge",
           "clear_rx", "clear_tx", "finish", "reopen_rx", "reopen_tx",
           "publish", "readmit_rx", "readmit_tx", "start_queue",
           "start_adapter", "unlock", "unlock_resumed", "leave_rx", "leave_tx",
           "check", "generation", "packet", "deliver", "dequeue", "confirm",
           "enqueue", "release", "acquire", "enable"}

TypeOK ==
    /\ lifecycle \in {"open", "suspended", "closing", "closed", "owner_closing"}
    /\ closers \in [Directions -> SUBSET Closers]
    /\ leases \in [Directions -> SUBSET Workers]
    /\ directLock \in Threads \cup {"nobody"}
    /\ writeLock \in Threads \cup {"nobody"}
    /\ controlOpen \in BOOLEAN /\ adaptive \in BOOLEAN
    /\ generation \in Generations
    /\ adapter \in BOOLEAN /\ started \in BOOLEAN
    /\ readQueue \in {"started", "purged"}
    /\ queueOpen \in [Directions -> BOOLEAN]
    /\ frames \in [Directions -> SUBSET Generations]
    /\ pnp \in {"added", "prepared", "on", "off", "released", "failed"}
    /\ job \in {"none", "prepare", "entry", "exit", "release"}
    /\ powerCount \in 0..MaxPower
    /\ pc \in [Threads -> Labels]
    /\ saw \in [Workers -> Generations]
    /\ frame \in [Workers -> Generations]
    /\ owns \in [Handles -> BOOLEAN]
    /\ wasAdaptive \in BOOLEAN

(* InstanceState::new and create_tap_device.                               *)
Init ==
    /\ lifecycle = "open"
    /\ closers = [d \in Directions |-> {"hardware"}]
    /\ leases = [d \in Directions |-> {}]
    /\ directLock = "nobody" /\ writeLock = "nobody"
    /\ controlOpen = FALSE /\ adaptive = FALSE /\ generation = 0
    /\ adapter = TRUE /\ started = FALSE
    /\ readQueue = "started"
    /\ queueOpen = [d \in Directions |-> TRUE]
    /\ frames = [d \in Directions |-> {}]
    /\ pnp = "added" /\ job = "none" /\ powerCount = 0
    /\ pc = [t \in Threads |-> "idle"]
    /\ saw = [t \in Workers |-> 0]
    /\ frame = [t \in Workers |-> 0]
    /\ owns = [h \in Handles |-> FALSE]
    /\ wasAdaptive = FALSE

Goto(t, label) == pc' = [pc EXCEPT ![t] = label]

At(t, label) == t \in Threads /\ pc[t] = label

(* state_lock: evt_file_cleanup keeps it from retiring the owner until it  *)
(* has tried to claim the lifecycle; every other section is one action.    *)
StateLockFree == \A h \in Handles : pc[h] # "claim"

-----------------------------------------------------------------------------
(***************************************************************************)
(* Where the teardown and recovery paths begin.                            *)
(***************************************************************************)
PowerCallback(j, from) ==
    /\ At("power", "idle")
    /\ pnp \in from
    /\ powerCount < MaxPower
    /\ StateLockFree
    /\ powerCount' = powerCount + 1
    /\ job' = j

(* evt_device_prepare_hardware: release hardware has taken the adapter of  *)
(* an instance that is prepared a second time.                             *)
PrepareHardware ==
    /\ PowerCallback(IF adapter THEN "prepare" ELSE "none", {"added", "released"})
    /\ lifecycle' = "closing"
    /\ pnp' = IF adapter THEN pnp ELSE "failed"
    /\ Goto("power", IF adapter THEN "readmit_rx" ELSE "idle")
    /\ UNCHANGED <<words, locks, owner, adapter, started, queues, locals>>

(* evt_device_d0_entry *)
D0Entry ==
    /\ PowerCallback("entry", {"prepared", "off"})
    /\ wasAdaptive' = adaptive
    /\ Goto("power", "start_queue")
    /\ UNCHANGED <<lifecycle, words, locks, owner, adapter, started, pnp, queues,
                   saw, frame, owns>>

(* evt_device_d0_exit *)
D0Exit ==
    /\ PowerCallback("exit", {"on"})
    /\ lifecycle' = "suspended"
    /\ Goto("power", "close_rx")
    /\ UNCHANGED <<words, locks, owner, adapter, started, pnp, queues, locals>>

(* evt_device_release_hardware *)
ReleaseHardware ==
    /\ PowerCallback("release", {"off"})
    /\ lifecycle' = "closing"
    /\ wasAdaptive' = adaptive
    /\ Goto("power", "stop_adapter")
    /\ UNCHANGED <<words, locks, owner, adapter, started, pnp, queues, saw,
                   frame, owns>>

(* NetAdapterStop and NetAdapterStart *)
StopAdapter ==
    /\ At("power", "stop_adapter")
    /\ started' = FALSE
    /\ Goto("power", "close_rx")
    /\ UNCHANGED <<lifecycle, words, locks, owner, adapter, pnp, job, powerCount,
                   queues, locals>>

StartAdapter ==
    /\ At("power", "start_adapter")
    /\ started' = TRUE
    /\ pnp' = "prepared" /\ job' = "none"
    /\ Goto("power", "idle")
    /\ UNCHANGED <<lifecycle, words, locks, owner, adapter, powerCount, queues, locals>>

(* evt_file_create *)
FileCreate(h) ==
    /\ At(h, "idle")
    /\ ~controlOpen
    /\ controlOpen' = TRUE
    /\ Goto(h, "open")
    /\ UNCHANGED <<lifecycle, words, locks, adaptive, generation, device, queues, locals>>

(* evt_file_cleanup retires the owner, then claims the lifecycle.          *)
FileCleanup(h) ==
    /\ At(h, "open")
    /\ generation < MaxGeneration
    /\ StateLockFree
    /\ generation' = generation + 1
    /\ Goto(h, "claim")
    /\ UNCHANGED <<lifecycle, words, locks, controlOpen, adaptive, device, queues, locals>>

ClaimLifecycle(h) ==
    /\ At(h, "claim")
    /\ owns' = [owns EXCEPT ![h] = lifecycle = "open"]
    /\ lifecycle' = IF lifecycle = "open" THEN "owner_closing" ELSE lifecycle
    /\ Goto(h, "close_rx")
    /\ UNCHANGED <<words, locks, owner, device, queues, saw, frame, wasAdaptive>>

-----------------------------------------------------------------------------
(***************************************************************************)
(* The common part of D0 exit, release hardware and owner cleanup.         *)
(***************************************************************************)
Teardowns == Handles \cup {"power"}

CloserOf(t) ==
    IF t # "power" THEN "owner"
    ELSE IF job \in {"entry", "exit"} THEN "power" ELSE "hardware"

(* quiesce_datapath_callbacks: close rx, close tx, drain rx, drain tx.     *)
CloseAdmission(t, d) ==
    /\ At(t, IF d = "rx" THEN "close_rx" ELSE "close_tx")
    /\ closers' = [closers EXCEPT ![d] = @ \cup {CloserOf(t)}]
    /\ Goto(t, IF d = "rx" THEN "close_tx" ELSE "drain_rx")
    /\ UNCHANGED <<lifecycle, leases, locks, owner, device, queues, locals>>

(* Wrong variant: nobody waits for the leases that are out.                *)
DrainWithoutWaiting(t, d) ==
    /\ At(t, IF d = "rx" THEN "drain_rx" ELSE "drain_tx")
    /\ Goto(t, IF d = "rx" THEN "drain_tx" ELSE "lock_direct")
    /\ UNCHANGED <<lifecycle, words, locks, owner, device, queues, locals>>

Drain(t, d) ==
    /\ At(t, IF d = "rx" THEN "drain_rx" ELSE "drain_tx")
    /\ leases[d] = {}
    /\ Goto(t, IF d = "rx" THEN "drain_tx" ELSE "lock_direct")
    /\ UNCHANGED <<lifecycle, words, locks, owner, device, queues, locals>>

LockDirect(t) ==
    /\ At(t, "lock_direct")
    /\ directLock = "nobody"
    /\ directLock' = t
    /\ Goto(t, "lock_write")
    /\ UNCHANGED <<lifecycle, words, writeLock, owner, device, queues, locals>>

LockWrite(t) ==
    /\ At(t, "lock_write")
    /\ writeLock = "nobody"
    /\ writeLock' = t
    /\ Goto(t, "purge")
    /\ UNCHANGED <<lifecycle, words, directLock, owner, device, queues, locals>>

(* An adaptive owner has no reads in the manual queue.                     *)
PurgeReads(t) ==
    /\ At(t, "purge")
    /\ LET legacy == IF t = "power" /\ job = "release" THEN ~wasAdaptive ELSE ~adaptive
       IN  readQueue' = IF legacy THEN "purged" ELSE readQueue
    /\ Goto(t, "clear_rx")
    /\ UNCHANGED <<lifecycle, words, locks, owner, device, queueOpen, frames,
                   saw, frame, owns>>
    /\ wasAdaptive' = (wasAdaptive /\ t # "power")

(* clear_frame_queues: FrameQueue::close on each queue.                    *)
ClearFrameQueues(t, d) ==
    /\ At(t, IF d = "rx" THEN "clear_rx" ELSE "clear_tx")
    /\ queueOpen' = [queueOpen EXCEPT ![d] = FALSE]
    /\ frames' = [frames EXCEPT ![d] = {}]
    /\ Goto(t, IF d = "rx" THEN "clear_tx" ELSE "finish")
    /\ UNCHANGED <<lifecycle, words, locks, owner, device, readQueue, locals>>

(* The end of D0 exit and release hardware; their guards drop the locks.   *)
FinishPower ==
    /\ At("power", "finish")
    /\ StateLockFree
    /\ adapter' = (adapter /\ job = "exit")
    /\ lifecycle' = IF job = "release" THEN "closed" ELSE lifecycle
    /\ pnp' = IF job = "release" THEN "released" ELSE "off"
    /\ job' = "none"
    /\ directLock' = "nobody" /\ writeLock' = "nobody"
    /\ Goto("power", "idle")
    /\ UNCHANGED <<words, owner, started, powerCount, queues, locals>>

(* Wrong variant: owner cleanup unlocks before it reopens the queues.      *)
FinishUnlocksEarly(h) ==
    /\ At(h, "finish")
    /\ StateLockFree
    /\ adaptive' = FALSE
    /\ controlOpen' = FALSE
    /\ directLock' = "nobody" /\ writeLock' = "nobody"
    /\ LET resume == owns[h] /\ lifecycle = "owner_closing" /\ adapter
       IN  Goto(h, IF resume THEN "reopen_rx" ELSE "leave_rx")
    /\ owns' = [owns EXCEPT ![h] = FALSE]
    /\ UNCHANGED <<lifecycle, words, generation, device, queues, saw, frame, wasAdaptive>>

(* Owner cleanup lets the next handle in, and recovers the instance unless *)
(* a power or hardware transition has taken the lifecycle.                 *)
FinishCleanup(h) ==
    /\ At(h, "finish")
    /\ StateLockFree
    /\ adaptive' = FALSE
    /\ controlOpen' = FALSE
    /\ LET resume == owns[h] /\ lifecycle = "owner_closing" /\ adapter
       IN  Goto(h, IF resume THEN "reopen_rx" ELSE "unlock")
    /\ owns' = [owns EXCEPT ![h] = FALSE]
    /\ UNCHANGED <<lifecycle, words, locks, generation, device, queues, saw, frame, wasAdaptive>>

-----------------------------------------------------------------------------
(***************************************************************************)
(* Recovery: D0 entry and the resuming part of owner cleanup, which take   *)
(* the same steps in different orders.                                     *)
(***************************************************************************)

(* reopen_frame_queues: FrameQueue::reopen on each queue.                  *)
ReopenFrameQueues(t, d) ==
    /\ At(t, IF d = "rx" THEN "reopen_rx" ELSE "reopen_tx")
    /\ queueOpen' = [queueOpen EXCEPT ![d] = TRUE]
    /\ frames' = [frames EXCEPT ![d] = {}]
    /\ Goto(t, IF d = "rx" THEN "reopen_tx" ELSE "publish")
    /\ UNCHANGED <<lifecycle, words, locks, owner, device, readQueue, locals>>

(* D0 entry stores OPEN; owner cleanup exchanges it for OWNER_CLOSING.     *)
PublishOpen(t) ==
    /\ At(t, "publish")
    /\ StateLockFree
    /\ LET resumed == t = "power" \/ lifecycle = "owner_closing"
       IN  /\ lifecycle' = IF resumed THEN "open" ELSE lifecycle
           /\ Goto(t, IF resumed THEN "readmit_rx" ELSE "unlock")
    /\ UNCHANGED <<words, locks, owner, device, queues, locals>>

(* What follows the release of the two closers.  It ends D0 entry; prepare *)
(* hardware starts the adapter next, owner cleanup the manual queue.       *)
AfterReadmit(t, d) ==
    LET entered == d = "tx" /\ t = "power" /\ job = "entry"
    IN  /\ Goto(t, IF d = "rx" THEN "readmit_tx"
                   ELSE IF t # "power" THEN "start_queue"
                   ELSE IF entered THEN "idle" ELSE "start_adapter")
        /\ pnp' = IF entered THEN "on" ELSE pnp
        /\ job' = IF entered THEN "none" ELSE job

(* resume_datapath_callbacks *)
Readmit(t, d) ==
    /\ At(t, IF d = "rx" THEN "readmit_rx" ELSE "readmit_tx")
    /\ closers' = [closers EXCEPT ![d] = @ \ {CloserOf(t)}]
    /\ AfterReadmit(t, d)
    /\ UNCHANGED <<lifecycle, leases, locks, owner, adapter, started, powerCount,
                   queues, locals>>

(* resume_manual_queue: before anything else in D0 entry, unless the owner *)
(* is adaptive; after everything else in owner cleanup.                    *)
StartReadQueue(t) ==
    /\ At(t, "start_queue")
    /\ readQueue' = IF t = "power" /\ wasAdaptive THEN readQueue ELSE "started"
    /\ Goto(t, IF t = "power" THEN "reopen_rx" ELSE "unlock_resumed")
    /\ UNCHANGED <<lifecycle, words, locks, owner, device, queueOpen, frames,
                   saw, frame, owns>>
    /\ wasAdaptive' = (wasAdaptive /\ t # "power")

(* The locals of evt_file_cleanup drop in reverse: the two locks, and then *)
(* the quiesce guard, which the resuming path has dropped already.         *)
UnlockCleanup(h) ==
    /\ pc[h] \in {"unlock", "unlock_resumed"}
    /\ directLock' = "nobody" /\ writeLock' = "nobody"
    /\ Goto(h, IF pc[h] = "unlock" THEN "leave_rx" ELSE "idle")
    /\ UNCHANGED <<lifecycle, words, owner, device, queues, locals>>

LeaveCleanup(h, d) ==
    /\ At(h, IF d = "rx" THEN "leave_rx" ELSE "leave_tx")
    /\ closers' = [closers EXCEPT ![d] = @ \ {"owner"}]
    /\ Goto(h, IF d = "rx" THEN "leave_tx" ELSE "idle")
    /\ UNCHANGED <<lifecycle, leases, locks, owner, device, queues, locals>>

TeardownStep(t) ==
    \/ \E d \in Directions :
          CloseAdmission(t, d) \/ Drain(t, d) \/ ClearFrameQueues(t, d)
          \/ ReopenFrameQueues(t, d) \/ Readmit(t, d)
    \/ LockDirect(t) \/ LockWrite(t) \/ PurgeReads(t) \/ PublishOpen(t)
    \/ StartReadQueue(t)

-----------------------------------------------------------------------------
(***************************************************************************)
(* The datapath threads.  "tx", "rx" and "read" run under a lease of their *)
(* direction, "write" under write_lifetime_lock.                           *)
(***************************************************************************)
DirectionOf(t) == IF t \in {"rx", "write"} THEN "rx" ELSE "tx"

HandleOpen == \E h \in Handles : pc[h] = "open"

(* Wrong variant: a read runs without a lease.                             *)
AcquireWithoutLease(t) ==
    /\ t \in {"tx", "rx", "read"} /\ At(t, "idle")
    /\ IF t = "read" THEN HandleOpen ELSE started
    /\ closers[DirectionOf(t)] = {}
    /\ leases' = [leases EXCEPT ![DirectionOf(t)] = @ \cup ({t} \ {"read"})]
    /\ Goto(t, "check")
    /\ UNCHANGED <<lifecycle, closers, locks, owner, device, queues, locals>>

(* evt_packet_queue_advance and evt_io_read take a lease, or return.       *)
AcquireLease(t) ==
    /\ t \in {"tx", "rx", "read"} /\ At(t, "idle")
    /\ IF t = "read" THEN HandleOpen ELSE started
    /\ closers[DirectionOf(t)] = {}
    /\ leases' = [leases EXCEPT ![DirectionOf(t)] = @ \cup {t}]
    /\ Goto(t, "check")
    /\ UNCHANGED <<lifecycle, closers, locks, owner, device, queues, locals>>

(* Wrong variant: the early return keeps the lease.                        *)
CheckLeaksLease(t) ==
    /\ t \in Workers /\ At(t, "check")
    /\ Goto(t, IF lifecycle # "open" THEN "idle"
               ELSE IF t = "write" THEN "enqueue" ELSE "generation")
    /\ UNCHANGED <<lifecycle, words, locks, owner, device, queues, locals>>

CheckLifecycle(t) ==
    /\ t \in Workers /\ At(t, "check")
    /\ Goto(t, IF lifecycle # "open" THEN "release"
               ELSE IF t = "write" THEN "enqueue" ELSE "generation")
    /\ UNCHANGED <<lifecycle, words, locks, owner, device, queues, locals>>

LoadGeneration(t) ==
    /\ t \in Workers /\ At(t, "generation")
    /\ saw' = [saw EXCEPT ![t] = generation]
    /\ Goto(t, IF t = "tx" THEN "packet" ELSE "dequeue")
    /\ UNCHANGED <<lifecycle, words, locks, owner, device, queues, frame, owns, wasAdaptive>>

(* capture_transmit_packets: the ring is empty, or the next packet goes    *)
(* to a pending legacy read if the direct-read lock is free ...            *)
TxRingEmpty ==
    /\ At("tx", "packet")
    /\ Goto("tx", "release")
    /\ UNCHANGED <<lifecycle, words, locks, owner, device, queues, locals>>

TxTryDirect ==
    /\ At("tx", "packet")
    /\ ~adaptive /\ directLock = "nobody"
    /\ directLock' = "tx"
    /\ Goto("tx", "deliver")
    /\ UNCHANGED <<lifecycle, words, writeLock, owner, device, queues, locals>>

(* deliver_transmit_packet_to_read: a read of this owner may be waiting.   *)
TxDeliver ==
    /\ At("tx", "deliver")
    /\ directLock' = "nobody"
    /\ \/ Goto("tx", "packet") /\ ~adaptive /\ lifecycle = "open"
                                /\ generation = saw["tx"] /\ readQueue = "started"
       \/ Goto("tx", "confirm")
    /\ frame' = [frame EXCEPT !["tx"] = saw["tx"]]
    /\ UNCHANGED <<lifecycle, words, writeLock, owner, device, queues, saw, owns, wasAdaptive>>

(* ... and is captured otherwise, also above PASSIVE_LEVEL.                *)
TxCapture ==
    /\ At("tx", "packet")
    /\ frame' = [frame EXCEPT !["tx"] = saw["tx"]]
    /\ Goto("tx", "confirm")
    /\ UNCHANGED <<lifecycle, words, locks, owner, device, queues, saw, owns, wasAdaptive>>

(* inject_receive_frames and evt_io_read: nothing to dequeue, or one frame *)
(* that is delivered or has to go back.                                    *)
DequeueFrame(t) ==
    /\ t \in {"rx", "read"} /\ At(t, "dequeue")
    /\ \/ /\ UNCHANGED <<frames, frame>>
          /\ Goto(t, "release")
       \/ \E g \in frames[DirectionOf(t)], last \in BOOLEAN :
             /\ frames' = [frames EXCEPT ![DirectionOf(t)] = IF last THEN @ \ {g} ELSE @]
             /\ frame' = [frame EXCEPT ![t] = g]
             /\ \/ Goto(t, IF t = "rx" THEN "dequeue" ELSE "release")
                \/ Goto(t, "confirm")
    /\ UNCHANGED <<lifecycle, words, locks, owner, device, readQueue, queueOpen,
                   saw, owns, wasAdaptive>>

(* The owner check before a capture or a requeue.  The requeue of a read   *)
(* takes a lease of its own and drops the frame when it gets none.         *)
ConfirmOwner(t) ==
    /\ t \in {"tx", "rx", "read"} /\ At(t, "confirm")
    /\ Goto(t, IF /\ lifecycle = "open" /\ generation = saw[t]
                  /\ t = "read" => closers["tx"] = {}
               THEN "enqueue" ELSE "release")
    /\ UNCHANGED <<lifecycle, words, locks, owner, device, queues, locals>>

(* FrameQueue::enqueue: an open queue takes the frame unless it is full.   *)
EnqueueFrame(t) ==
    /\ t \in Workers /\ At(t, "enqueue")
    /\ frames' \in {frames} \cup
          (IF queueOpen[DirectionOf(t)]
           THEN {[frames EXCEPT ![DirectionOf(t)] = @ \cup {frame[t]}]} ELSE {})
    /\ Goto(t, IF t = "tx" THEN "packet" ELSE "release")
    /\ UNCHANGED <<lifecycle, words, locks, owner, device, readQueue, queueOpen, locals>>

(* Wrong variant: write_lifetime_lock outlives the handler.                *)
ReleaseLeasesOnly(t) ==
    /\ t \in Workers /\ At(t, "release")
    /\ leases' = [d \in Directions |-> leases[d] \ {t}]
    /\ saw' = [saw EXCEPT ![t] = 0] /\ frame' = [frame EXCEPT ![t] = 0]
    /\ Goto(t, "idle")
    /\ UNCHANGED <<lifecycle, closers, locks, owner, device, queues, owns, wasAdaptive>>

(* The guard of the handler drops: a lease, or write_lifetime_lock.        *)
ReleaseGuard(t) ==
    /\ t \in Workers /\ At(t, "release")
    /\ writeLock' = IF t = "write" THEN "nobody" ELSE writeLock
    /\ leases' = [d \in Directions |-> leases[d] \ {t}]
    /\ saw' = [saw EXCEPT ![t] = 0] /\ frame' = [frame EXCEPT ![t] = 0]
    /\ Goto(t, "idle")
    /\ UNCHANGED <<lifecycle, closers, directLock, owner, device, queues, owns, wasAdaptive>>

(* A write or ENABLE_ADAPTIVE_POLLING of the owner enters the driver; its  *)
(* handle may be closed before the handler gets any further.               *)
IssueRequest(t) ==
    /\ t \in {"write", "control"} /\ At(t, "idle")
    /\ HandleOpen
    /\ frame' = [frame EXCEPT ![t] = IF t = "write" THEN generation ELSE 0]
    /\ Goto(t, IF t = "write" THEN "acquire" ELSE "enable")
    /\ UNCHANGED <<lifecycle, words, locks, owner, device, queues, saw, owns, wasAdaptive>>

(* evt_io_write waits for write_lifetime_lock.                             *)
AcquireWriteLock ==
    /\ At("write", "acquire")
    /\ writeLock = "nobody"
    /\ writeLock' = "write"
    /\ Goto("write", "check")
    /\ UNCHANGED <<lifecycle, words, directLock, owner, device, queues, locals>>

(* handle_enable_adaptive_polling never waits for the direct-read lock;    *)
(* pending legacy reads refuse it too.                                     *)
EnableAdaptivePolling ==
    /\ At("control", "enable")
    /\ StateLockFree
    /\ \/ adaptive' = TRUE /\ directLock = "nobody" /\ lifecycle = "open" /\ ~adaptive
       \/ adaptive' = adaptive
    /\ Goto("control", "idle")
    /\ UNCHANGED <<lifecycle, words, locks, controlOpen, generation, device, queues, locals>>

-----------------------------------------------------------------------------
PowerStarts == PrepareHardware \/ D0Entry \/ D0Exit \/ ReleaseHardware

PowerRuns == StopAdapter \/ StartAdapter \/ FinishPower \/ TeardownStep("power")

HandleStarts(h) == FileCreate(h) \/ FileCleanup(h)

HandleRuns(h) ==
    \/ ClaimLifecycle(h) \/ FinishCleanup(h) \/ UnlockCleanup(h)
    \/ TeardownStep(h)
    \/ \E d \in Directions : LeaveCleanup(h, d)

WorkerStarts(t) == AcquireLease(t) \/ IssueRequest(t)

WorkerRuns(t) ==
    \/ CheckLifecycle(t) \/ LoadGeneration(t) \/ DequeueFrame(t)
    \/ ConfirmOwner(t) \/ EnqueueFrame(t) \/ ReleaseGuard(t)
    \/ /\ t = "tx"
       /\ TxRingEmpty \/ TxTryDirect \/ TxDeliver \/ TxCapture
    \/ t = "write" /\ AcquireWriteLock
    \/ t = "control" /\ EnableAdaptivePolling

Next ==
    \/ PowerStarts \/ PowerRuns
    \/ \E h \in Handles : HandleStarts(h) \/ HandleRuns(h)
    \/ \E t \in Workers : WorkerStarts(t) \/ WorkerRuns(t)

Spec == Init /\ [][Next]_vars

(* Threads that have begun continue.  A wait lock is handed to its waiters *)
(* in turn, and a packet ring holds finitely many packets at the time of   *)
(* an advance; nothing makes a callback or a request begin.                *)
FairSpec ==
    /\ Spec
    /\ WF_vars(PowerRuns)
    /\ SF_vars(LockDirect("power") \/ LockWrite("power"))
    /\ \A h \in Handles : /\ WF_vars(HandleRuns(h))
                          /\ SF_vars(LockDirect(h) \/ LockWrite(h))
    /\ \A t \in Workers : WF_vars(WorkerRuns(t))
    /\ SF_vars(TxRingEmpty)
    /\ SF_vars("rx" \in Workers /\ DequeueFrame("rx") /\ pc'["rx"] = "release")

-----------------------------------------------------------------------------
(***************************************************************************)
(* Properties.                                                             *)
(***************************************************************************)

(* From the end of its drain to its readmission a teardown has the         *)
(* datapath to itself: no thread holds a lease while quiesce_datapath_     *)
(* callbacks protects the purge, the clearing and the reopening.           *)
QuiescedScopeIsDrained ==
    \A t \in Teardowns :
        pc[t] \in {"lock_direct", "lock_write", "purge", "clear_rx", "clear_tx",
                  "finish"} => \A d \in Directions : leases[d] = {}

(* Between D0 exit and D0 entry, and after release hardware, nothing is    *)
(* queued, no queue accepts a frame and no thread is admitted, however     *)
(* owner cleanup interleaves with the power callback.                      *)
PoweredDownIsQuiet ==
    (pnp \in {"off", "released"} /\ job = "none") =>
        \A d \in Directions : /\ leases[d] = {} /\ closers[d] # {}
                              /\ ~queueOpen[d] /\ frames[d] = {}

(* While the instance is open, its capture queue holds frames of the       *)
(* present owner only (the generation checks under the capture lease).     *)
CaptureBelongsToOwner ==
    (lifecycle = "open" /\ StateLockFree) => frames["tx"] \subseteq {generation}

(* A direction that admits callbacks to an open instance has an open queue *)
(* for their frames: reopening precedes publishing, publishing precedes    *)
(* readmission.                                                            *)
AdmittedQueueIsOpen ==
    \A d \in Directions : (lifecycle = "open" /\ closers[d] = {}) => queueOpen[d]

(* Teardown ends: the leases it drains come back, because each is held by  *)
(* a thread that waits for nothing a teardown holds.                       *)
CleanupCompletes ==
    \A h \in Handles : pc[h] = "claim" ~> pc[h] = "idle"

(* D0 exit, D0 entry and release hardware return.                          *)
PowerCallbackCompletes == job # "none" ~> job = "none"

=============================================================================
