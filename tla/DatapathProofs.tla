--------------------------- MODULE DatapathProofs ---------------------------
(***************************************************************************)
(* The teardowns of the datapath, and the way of a frame to NetAdapterCx.  *)
(*                                                                         *)
(* DatapathLifecycle, for any datapath threads and any number of           *)
(* generations and power transitions: a teardown that has drained the      *)
(* lease words keeps the datapath to itself, a powered-down instance is    *)
(* empty, closed and unadmitted, and the captured frames of an open        *)
(* instance belong to its present owner.  The argument has four parts.  A  *)
(* closer stays set from its close to its owner's readmission, and no      *)
(* lease is granted meanwhile (WordsInv).  The direct-read lock has one    *)
(* holder, so an owner cleanup that is reopening the queues is not         *)
(* overlapped by a power transition that clears them (LockInv).  A power   *)
(* transition takes the lifecycle before it waits for that lock, so no     *)
(* cleanup decides to reopen after it (QuietInv).  The state lock covers   *)
(* the retirement of an owner and the claim of the lifecycle, and the      *)
(* words are drained and the capture queue is cleared before OPEN is       *)
(* published again, so no thread carries a frame or a passed owner check   *)
(* from one owner to the next (FrameInv, BeforeOpen).                      *)
(*                                                                         *)
(* ReceivePath, for any rings, limits and frames: NetAdapterCx never waits *)
(* over a queued frame with no request to poll on its way (SleepInv), and  *)
(* an accepted frame is in one place (PlaceInv).                           *)
(***************************************************************************)
EXTENDS DatapathLifecycle, ReceivePath, TLAPS

ClosedRx == {"close_tx", "drain_rx", "drain_tx", "lock_direct", "lock_write",
             "purge", "clear_rx", "clear_tx", "finish"}
ClosedTx == ClosedRx \ {"close_tx"}
DrainedTx == {"lock_direct", "lock_write", "purge", "clear_rx", "clear_tx", "finish"}
DrainedRx == DrainedTx \cup {"drain_tx"}

Types ==
    /\ closers \in [Directions -> SUBSET Closers]
    /\ leases = [d \in Directions |-> leases[d]]
    /\ queueOpen = [d \in Directions |-> queueOpen[d]]
    /\ frames = [d \in Directions |-> frames[d]]
    /\ pc = [t \in Threads |-> pc[t]]

(* Which callback is at work at each label of the power thread.            *)
JobInv ==
    /\ pc["power"] = "idle" <=> job = "none"
    /\ pc["power"] \in ClosedRx \cup {"close_rx"} => job \in {"exit", "release"}
    /\ pc["power"] \in {"start_queue", "reopen_rx", "reopen_tx", "publish"} => job = "entry"
    /\ pc["power"] \in {"readmit_rx", "readmit_tx"} => job \in {"entry", "prepare"}
    /\ pc["power"] = "stop_adapter" => job = "release"
    /\ pc["power"] = "start_adapter" => job = "prepare"
    /\ pc["power"] \notin {"open", "claim", "unlock", "unlock_resumed", "leave_rx", "leave_tx"}

(* What teardown t has closed stays closed, and what it has drained stays  *)
(* drained, until it readmits.                                             *)
WordsInv(t) ==
    /\ pc[t] \in ClosedRx => CloserOf(t) \in closers["rx"]
    /\ pc[t] \in ClosedTx => CloserOf(t) \in closers["tx"]
    /\ pc[t] \in DrainedRx => leases["rx"] = {}
    /\ pc[t] \in DrainedTx => leases["tx"] = {}

Locked == {"lock_write", "purge", "clear_rx", "clear_tx", "finish"}
LockedHandle ==
    Locked \cup {"reopen_rx", "reopen_tx", "publish", "readmit_rx", "readmit_tx",
                 "start_queue", "unlock", "unlock_resumed"}

(* legacy_direct_read_lock has one holder.                                 *)
LockInv ==
    /\ pc["power"] \in Locked => directLock = "power"
    /\ \A h \in Handles : pc[h] \in LockedHandle => directLock = h
    /\ At("tx", "deliver") => directLock = "tx"

PoweredDown == pnp \in {"off", "released"} /\ job = "none"

Empty(d) == ~queueOpen[d] /\ frames[d] = {}

(* What D0 exit and release hardware have achieved when they return, and   *)
(* what they build it from.                                                *)
QuietInv ==
    /\ job = "exit" => lifecycle = "suspended"
    /\ job = "release" => lifecycle = "closing"
    /\ pc["power"] \in {"clear_tx", "finish"} => Empty("rx")
    /\ pc["power"] = "finish" => Empty("tx")
    /\ PoweredDown =>
          /\ lifecycle \in {"suspended", "closed"}
          /\ \A h \in Handles : pc[h] \notin {"reopen_rx", "reopen_tx"}
          /\ \A d \in Directions :
                /\ Empty(d) /\ leases[d] = {}
                /\ "power" \in closers[d] \/ "hardware" \in closers[d]

PowerInv == Types /\ JobInv /\ WordsInv("power") /\ LockInv /\ QuietInv

-----------------------------------------------------------------------------
(* The names of threads are distinct.                                      *)
LEMMA Names ==
    /\ "power" \in Threads /\ "power" \in Teardowns /\ "power" \notin Handles
    /\ "power" \notin Workers
    /\ "nobody" \notin Threads /\ "tx" \notin Handles /\ "tx" # "power"
    /\ Handles \subseteq Threads /\ Workers \subseteq Threads
    /\ Handles \cap Workers = {}
    /\ Teardowns = Handles \cup {"power"}
    /\ Directions = {"rx", "tx"}
    /\ \A t \in Teardowns : t \in Threads /\ t \notin Workers
BY LifecycleAssumption, Zenon DEF Threads, Teardowns, AllWorkers, Directions

(* What a step of a datapath thread can do to the state that teardowns     *)
(* rely on: it takes a lease only where no closer is set, and it puts a    *)
(* frame only into an open queue.                                          *)
LEMMA WorkerFrame ==
    ASSUME Types, NEW t \in Workers, WorkerStarts(t) \/ WorkerRuns(t)
    PROVE  /\ Types'
           /\ \A u \in Teardowns : pc'[u] = pc[u]
           /\ UNCHANGED <<lifecycle, closers, pnp, job, queueOpen, generation>>
           /\ \A d \in Directions : closers[d] # {} /\ leases[d] = {} => leases'[d] = {}
           /\ \A d \in Directions : Empty(d) => Empty(d)'
           /\ \/ directLock' = directLock /\ (At("tx", "deliver")' => At("tx", "deliver"))
              \/ directLock = "nobody" /\ directLock' = "tx"
              \/ At("tx", "deliver") /\ directLock' = "nobody" /\ ~At("tx", "deliver")'
<1>0. t \in Threads /\ t \notin Teardowns
    BY Names, Zenon
<1> USE <1>0 DEF Types, Goto, At
<1>1. CASE AcquireLease(t)
    BY <1>1, Names, Zenon DEF AcquireLease, Empty, DirectionOf, device, queues, owner, locks
<1>2. CASE IssueRequest(t)
    BY <1>2, Names, Zenon DEF IssueRequest, Empty, device, queues, words, owner, locks
<1>3. CASE CheckLifecycle(t)
    BY <1>3, Names, Zenon DEF CheckLifecycle, Empty, device, queues, words, owner, locks
<1>4. CASE LoadGeneration(t)
    BY <1>4, Names, Zenon DEF LoadGeneration, Empty, device, queues, words, owner, locks
<1>5. CASE DequeueFrame(t)
    BY <1>5, Names, ZenonT(30) DEF DequeueFrame, Empty, DirectionOf, device, words, owner, locks
<1>6. CASE ConfirmOwner(t)
    BY <1>6, Names, Zenon DEF ConfirmOwner, Empty, device, queues, words, owner, locks
<1>7. CASE EnqueueFrame(t)
    BY <1>7, Names DEF EnqueueFrame, Empty, DirectionOf, device, words, owner, locks
<1>8. CASE ReleaseGuard(t)
    BY <1>8, Names, Zenon DEF ReleaseGuard, Empty, device, queues, owner
<1>9. CASE t = "tx" /\ (TxRingEmpty \/ TxTryDirect \/ TxDeliver \/ TxCapture)
    BY <1>9, Names DEF TxRingEmpty, TxTryDirect, TxDeliver, TxCapture, Empty,
                       device, queues, words, owner, locks
<1>10. CASE t = "write" /\ AcquireWriteLock
    BY <1>10, Names, Zenon DEF AcquireWriteLock, Empty, device, queues, words, owner
<1>11. CASE t = "control" /\ EnableAdaptivePolling
    BY <1>11, Names, Zenon DEF EnableAdaptivePolling, Empty, device, queues, words, locks
<1> QED
    BY <1>1, <1>2, <1>3, <1>4, <1>5, <1>6, <1>7, <1>8, <1>9, <1>10, <1>11, Zenon
       DEF WorkerStarts, WorkerRuns

(* What a step of owner cleanup can do to the state that the other         *)
(* threads rely on: it sets and releases its own closer only, it takes the *)
(* lifecycle only from OPEN, and it goes on to reopen the queues only if   *)
(* the lifecycle is still its own.                                         *)
LEMMA HandleFrame ==
    ASSUME Types, NEW h \in Handles, HandleStarts(h) \/ HandleRuns(h)
    PROVE  /\ Types'
           /\ \A u \in Threads : u # h => pc'[u] = pc[u]
           /\ UNCHANGED <<leases, pnp, job>>
           /\ \A d \in Directions, c \in {"power", "hardware"} :
                 c \in closers[d] => c \in closers'[d]
           /\ lifecycle' = lifecycle \/ lifecycle \in {"open", "owner_closing"}
           /\ \A d \in Directions :
                 Empty(d) /\ pc[h] \notin {"reopen_rx", "reopen_tx"} => Empty(d)'
           /\ pc'[h] \in {"reopen_rx", "reopen_tx"} =>
                 pc[h] \in {"reopen_rx", "reopen_tx"} \/ lifecycle = "owner_closing"
           /\ \/ directLock' = directLock /\ (pc'[h] \in LockedHandle => pc[h] \in LockedHandle)
              \/ directLock = "nobody" /\ directLock' = h
              \/ pc[h] \in LockedHandle /\ directLock' = "nobody" /\ pc'[h] \notin LockedHandle
           /\ WordsInv(h) => WordsInv(h)'
<1>0. h \in Threads /\ h # "power" /\ CloserOf(h) = "owner" /\ CloserOf(h)' = "owner"
    BY Names, Zenon DEF CloserOf
<1> USE <1>0 DEF Types, Goto, At, Empty, WordsInv, Locked, LockedHandle,
               ClosedRx, ClosedTx, DrainedRx, DrainedTx
<1>1. CASE FileCreate(h)
    BY <1>1, Names, Zenon DEF FileCreate, device, queues, words, locks
<1>2. CASE FileCleanup(h)
    BY <1>2, Names, Zenon DEF FileCleanup, device, queues, words, locks
<1>3. CASE ClaimLifecycle(h)
    BY <1>3, Names, Zenon DEF ClaimLifecycle, device, queues, words, locks
<1>4. CASE FinishCleanup(h)
    BY <1>4, Names, Zenon DEF FinishCleanup, device, queues, words, locks
<1>5. CASE UnlockCleanup(h)
    BY <1>5, Names, Zenon DEF UnlockCleanup, device, queues, words
<1>6. ASSUME NEW d \in Directions, LeaveCleanup(h, d) \/ CloseAdmission(h, d) \/ Readmit(h, d)
      PROVE  closers' \in [Directions -> SUBSET Closers]
    BY <1>6, Names DEF LeaveCleanup, CloseAdmission, Readmit, Closers
<1>7. CASE \E d \in Directions : LeaveCleanup(h, d)
  <2>1. CASE LeaveCleanup(h, "rx")
      BY <1>6, <2>1, Names, Zenon DEF LeaveCleanup, device, queues, locks
  <2>2. CASE LeaveCleanup(h, "tx")
      BY <1>6, <2>2, Names, Zenon DEF LeaveCleanup, device, queues, locks
  <2> QED BY <1>7, <2>1, <2>2, Names, Zenon
<1>8. CASE \E d \in Directions : CloseAdmission(h, d)
  <2>1. CASE CloseAdmission(h, "rx")
      BY <1>6, <2>1, Names, Zenon DEF CloseAdmission, device, queues, locks
  <2>2. CASE CloseAdmission(h, "tx")
      BY <1>6, <2>2, Names DEF CloseAdmission, device, queues, locks
  <2> QED BY <1>8, <2>1, <2>2, Names, Zenon
<1>9. CASE \E d \in Directions : Drain(h, d)
    BY <1>9, Names DEF Drain, device, queues, words, locks
<1>10. CASE \E d \in Directions : ClearFrameQueues(h, d)
  <2>1. CASE ClearFrameQueues(h, "rx")
      BY <2>1, Names, Zenon DEF ClearFrameQueues, device, words, locks
  <2>2. CASE ClearFrameQueues(h, "tx")
      BY <2>2, Names, Zenon DEF ClearFrameQueues, device, words, locks
  <2> QED BY <1>10, <2>1, <2>2, Names, Zenon
<1>11. CASE \E d \in Directions : ReopenFrameQueues(h, d)
  <2>1. CASE ReopenFrameQueues(h, "rx")
      BY <2>1, Names, Zenon DEF ReopenFrameQueues, device, words, locks
  <2>2. CASE ReopenFrameQueues(h, "tx")
      BY <2>2, Names, Zenon DEF ReopenFrameQueues, device, words, locks
  <2> QED BY <1>11, <2>1, <2>2, Names, Zenon
<1>12. CASE \E d \in Directions : Readmit(h, d)
  <2>1. CASE Readmit(h, "rx")
      BY <1>6, <2>1, Names, Zenon DEF Readmit, AfterReadmit, queues, locks
  <2>2. CASE Readmit(h, "tx")
      BY <1>6, <2>2, Names, Zenon DEF Readmit, AfterReadmit, queues, locks
  <2> QED BY <1>12, <2>1, <2>2, Names, Zenon
<1>13. CASE LockDirect(h) \/ LockWrite(h) \/ PurgeReads(h)
    BY <1>13, Names DEF LockDirect, LockWrite, PurgeReads, device, queues, words, locks
<1>14. CASE PublishOpen(h) \/ StartReadQueue(h)
    BY <1>14, Names, ZenonT(30) DEF PublishOpen, StartReadQueue, device, queues, words, locks
<1> QED
    BY <1>1, <1>2, <1>3, <1>4, <1>5, <1>7, <1>8, <1>9, <1>10, <1>11, <1>12, <1>13, <1>14, Zenon
       DEF HandleStarts, HandleRuns, TeardownStep

(* The PnP and power callbacks keep PowerInv, and what they do to the      *)
(* state that an owner cleanup relies on: they leave its closer and the    *)
(* leases alone.                                                           *)
LEMMA PowerStep ==
    ASSUME PowerInv, PowerStarts \/ PowerRuns
    PROVE  /\ PowerInv'
           /\ leases' = leases
           /\ \A u \in Threads : u # "power" => pc'[u] = pc[u]
           /\ \A d \in Directions : "owner" \in closers[d] => "owner" \in closers'[d]
<1> USE Names DEF PowerInv, Types, JobInv, LockInv, QuietInv, PoweredDown, Goto, At, Empty,
                  WordsInv, CloserOf, Locked, LockedHandle,
                  ClosedRx, ClosedTx, DrainedRx, DrainedTx
<1>1. CASE PrepareHardware \/ D0Entry \/ D0Exit \/ ReleaseHardware
    BY <1>1 DEF PrepareHardware, D0Entry, D0Exit, ReleaseHardware, PowerCallback,
                device, queues, words, locks
<1>2. CASE StopAdapter \/ StartAdapter
    BY <1>2 DEF StopAdapter, StartAdapter, queues, words, locks
<1>3. CASE FinishPower
    BY <1>3, Zenon DEF FinishPower, queues, words
<1>4. ASSUME NEW d \in Directions, CloseAdmission("power", d) \/ Readmit("power", d)
      PROVE  closers' \in [Directions -> SUBSET Closers]
    BY <1>4 DEF CloseAdmission, Readmit, Closers
<1>5. CASE \E d \in Directions : CloseAdmission("power", d)
  <2>1. CASE CloseAdmission("power", "rx")
      BY <1>4, <2>1, ZenonT(30) DEF CloseAdmission, device, queues, locks
  <2>2. CASE CloseAdmission("power", "tx")
      BY <1>4, <2>2, Zenon DEF CloseAdmission, device, queues, locks
  <2> QED BY <1>5, <2>1, <2>2, Zenon
<1>6. CASE \E d \in Directions : Drain("power", d)
    BY <1>6 DEF Drain, device, queues, words, locks
<1>7. CASE \E d \in Directions : ClearFrameQueues("power", d)
  <2>1. CASE ClearFrameQueues("power", "rx")
      BY <2>1, Zenon DEF ClearFrameQueues, device, words, locks
  <2>2. CASE ClearFrameQueues("power", "tx")
      BY <2>2, Zenon DEF ClearFrameQueues, device, words, locks
  <2> QED BY <1>7, <2>1, <2>2, Zenon
<1>8. CASE \E d \in Directions : ReopenFrameQueues("power", d)
  <2>1. CASE ReopenFrameQueues("power", "rx")
      BY <2>1, Zenon DEF ReopenFrameQueues, device, words, locks
  <2>2. CASE ReopenFrameQueues("power", "tx")
      BY <2>2, Zenon DEF ReopenFrameQueues, device, words, locks
  <2> QED BY <1>8, <2>1, <2>2, Zenon
<1>9. CASE \E d \in Directions : Readmit("power", d)
  <2>1. CASE Readmit("power", "rx")
      BY <1>4, <2>1, Zenon DEF Readmit, AfterReadmit, queues, locks
  <2>2. CASE Readmit("power", "tx")
      BY <1>4, <2>2, ZenonT(30) DEF Readmit, AfterReadmit, queues, locks
  <2> QED BY <1>9, <2>1, <2>2, Zenon
<1>10. CASE LockDirect("power") \/ LockWrite("power") \/ PurgeReads("power")
    BY <1>10 DEF LockDirect, LockWrite, PurgeReads, device, queues, words, locks
<1>11. CASE PublishOpen("power") \/ StartReadQueue("power")
    BY <1>11 DEF PublishOpen, StartReadQueue, device, queues, words, locks
<1> QED
    BY <1>1, <1>2, <1>3, <1>5, <1>6, <1>7, <1>8, <1>9, <1>10, <1>11, Zenon
       DEF PowerStarts, PowerRuns, TeardownStep

(* create_tap_device: nothing runs, and the hardware closer is set.        *)
LEMMA InitHolds == Init => PowerInv /\ \A h \in Handles : WordsInv(h)
BY Names DEF Init, PowerInv, Types, JobInv, LockInv, QuietInv, PoweredDown, WordsInv, Closers,
             At, Locked, LockedHandle, ClosedRx, ClosedTx, DrainedRx, DrainedTx

(* Every step keeps PowerInv, whatever the number of handles.              *)
LEMMA PowerInductive == PowerInv /\ [Next]_vars => PowerInv'
<1> SUFFICES ASSUME PowerInv, [Next]_vars PROVE PowerInv'
    BY Zenon
<1> USE Names DEF PowerInv, JobInv, LockInv, QuietInv, PoweredDown, WordsInv, CloserOf, At
<1>1. CASE PowerStarts \/ PowerRuns
    BY <1>1, PowerStep, Zenon
<1>2. ASSUME NEW h \in Handles, HandleStarts(h) \/ HandleRuns(h) PROVE PowerInv'
  <2>1. JobInv' /\ WordsInv("power")'
      BY <1>2, HandleFrame DEF ClosedRx, ClosedTx
  <2>2. LockInv'
      BY <1>2, HandleFrame DEF LockedHandle, Locked
  <2>3. QuietInv'
      BY <1>2, HandleFrame DEF LockedHandle, Locked, ClosedRx
  <2> QED BY <1>2, <2>1, <2>2, <2>3, HandleFrame, Zenon
<1>3. ASSUME NEW t \in Workers, WorkerStarts(t) \/ WorkerRuns(t) PROVE PowerInv'
  <2>1. JobInv' /\ WordsInv("power")'
      BY <1>3, WorkerFrame, Zenon DEF ClosedRx, ClosedTx, DrainedRx, DrainedTx
  <2>2. LockInv'
      BY <1>3, WorkerFrame DEF LockedHandle, Locked
  <2>3. QuietInv'
      BY <1>3, WorkerFrame, Zenon
  <2> QED BY <1>3, <2>1, <2>2, <2>3, WorkerFrame, Zenon
<1>4. CASE UNCHANGED vars
    BY <1>4 DEF vars, words, locks, owner, device, queues, Types, Empty
<1> QED BY <1>1, <1>2, <1>3, <1>4, Zenon DEF Next

(* What a cleanup has closed and drained stays so until it readmits, if no *)
(* other cleanup shares its closer.                                        *)
LEMMA HandleInductive ==
    ASSUME NEW h \in Handles, \A g \in Handles : g = h
    PROVE  PowerInv /\ WordsInv(h) /\ [Next]_vars => WordsInv(h)'
<1> SUFFICES ASSUME PowerInv, WordsInv(h), [Next]_vars PROVE WordsInv(h)'
    BY Zenon
<1>0. CloserOf(h) = "owner" /\ CloserOf(h)' = "owner" /\ Types /\ h \in Threads /\ h # "power"
    BY Names, Zenon DEF CloserOf, PowerInv
<1>1. CASE PowerStarts \/ PowerRuns
    BY <1>0, <1>1, PowerStep, Names, Zenon DEF WordsInv
<1>2. CASE \E g \in Handles : HandleStarts(g) \/ HandleRuns(g)
    BY <1>0, <1>2, HandleFrame, Zenon
<1>3. ASSUME NEW t \in Workers, WorkerStarts(t) \/ WorkerRuns(t) PROVE WordsInv(h)'
    BY <1>0, <1>3, WorkerFrame, Names, Zenon DEF WordsInv, ClosedRx, ClosedTx, DrainedRx,
                                                 DrainedTx
<1>4. CASE UNCHANGED vars
    BY <1>0, <1>4, Zenon DEF vars, words, WordsInv
<1> QED BY <1>1, <1>2, <1>3, <1>4, Zenon DEF Next

-----------------------------------------------------------------------------
(* However many owner cleanups overlap D0 exit and release hardware, the   *)
(* instance they leave behind is empty, closed and unadmitted.             *)
THEOREM PowerDownIsQuiet == Spec => []PoweredDownIsQuiet
<1>1. PowerInv => PoweredDownIsQuiet
    BY Names, Zenon DEF PowerInv, QuietInv, PoweredDown, PoweredDownIsQuiet, Empty
<1> QED BY <1>1, InitHolds, PowerInductive, PTL DEF Spec

(* For every set of datapath threads: with one handle at a time, no thread *)
(* holds a lease while a power transition or an owner cleanup is between   *)
(* its drain and its readmission.                                          *)
THEOREM DrainLasts ==
    ASSUME \A g, h \in Handles : g = h
    PROVE  Spec => []QuiescedScopeIsDrained
<1> DEFINE Inv == PowerInv /\ \A h \in Handles : WordsInv(h)
<1>1. Init => Inv
    BY InitHolds, Zenon
<1>2. Inv /\ [Next]_vars => Inv'
    BY PowerInductive, HandleInductive, Zenon
<1>3. Inv => QuiescedScopeIsDrained
    BY Names, Zenon DEF PowerInv, WordsInv, DrainedRx, DrainedTx, QuiescedScopeIsDrained
<1> QED BY <1>1, <1>2, <1>3, PTL DEF Spec

-----------------------------------------------------------------------------
(* The threads that put frames into the capture queue, and their labels.   *)
Capturing == {"tx", "read"} \cap Workers

LeaseLabels == {"check", "generation", "packet", "deliver", "dequeue", "confirm",
                "enqueue", "release"}

(* The present owner may capture.                                          *)
Accepting == lifecycle = "open" /\ StateLockFree

(* No capturing thread is admitted, or can be.                             *)
Sealed(c) == leases["tx"] = {} /\ c \in closers["tx"]

(* Frames under way belong to the owner under whom they were taken.        *)
FrameInv ==
    /\ saw = [t \in Workers |-> saw[t]] /\ frame = [t \in Workers |-> frame[t]]
    /\ \A t \in Capturing : pc[t] = "idle" \/ (pc[t] \in LeaseLabels /\ t \in leases["tx"])
    /\ "control" \in Workers => pc["control"] \in {"idle", "enable"}
    /\ "tx" \in Workers /\ pc["tx"] \in {"confirm", "enqueue"} => frame["tx"] = saw["tx"]
    /\ Accepting =>
          /\ frames["tx"] \subseteq {generation}
          /\ \A t \in Capturing :
                pc[t] = "enqueue" \/ (pc[t] = "confirm" /\ saw[t] = generation)
                    => frame[t] = generation

(* Before the instance becomes OPEN, by owner cleanup or by D0 entry, its  *)
(* capture queue is empty and nobody has passed the lifecycle check: the   *)
(* words are sealed, or the instance was not open since it was prepared.   *)
BeforeOpen ==
    /\ \A h \in Handles :
          /\ pc[h] \in {"reopen_rx", "reopen_tx", "publish"} => Sealed("owner")
          /\ pc[h] = "publish" => frames["tx"] = {}
    /\ pnp = "off" /\ job \in {"none", "entry"} => Sealed("power")
    /\ pnp = "added" /\ job = "none" => Sealed("hardware")
    /\ job = "entry" => pnp \in {"off", "prepared"}
    /\ job = "exit" => pnp = "on"
    /\ pc["power"] = "publish" => frames["tx"] = {}
    /\ \/ job = "prepare"
       \/ pnp = "prepared"
             /\ pc["power"] \in {"idle", "start_queue", "reopen_rx", "reopen_tx", "publish"}
       => /\ lifecycle = "closing"
          /\ \A t \in Capturing : pc[t] \in {"idle", "check", "release"}

OwnerInv == PowerInv /\ (\A h \in Handles : WordsInv(h)) /\ FrameInv /\ BeforeOpen

(* What FrameInv says of datapath thread t alone.                          *)
ThreadFrame(t) ==
    /\ t \in Capturing => pc[t] = "idle" \/ (pc[t] \in LeaseLabels /\ t \in leases["tx"])
    /\ t = "control" => pc[t] \in {"idle", "enable"}
    /\ t = "tx" /\ pc[t] \in {"confirm", "enqueue"} => frame[t] = saw[t]
    /\ Accepting /\ t \in Capturing
          /\ (pc[t] = "enqueue" \/ (pc[t] = "confirm" /\ saw[t] = generation))
       => frame[t] = generation

(* FrameInv, thread by thread.                                             *)
LEMMA FrameByThread ==
    FrameInv <=> /\ saw = [t \in Workers |-> saw[t]] /\ frame = [t \in Workers |-> frame[t]]
                 /\ Accepting => frames["tx"] \subseteq {generation}
                 /\ \A t \in Workers : ThreadFrame(t)
BY Zenon DEF FrameInv, ThreadFrame, Capturing

(* What a step of datapath thread t does to its own part of the state, to  *)
(* the other threads and to the capture queue.                             *)
LEMMA WorkerMoves ==
    ASSUME NEW t \in Workers, Types, WorkerStarts(t) \/ WorkerRuns(t), Accepting' <=> Accepting,
           saw = [u \in Workers |-> saw[u]], frame = [u \in Workers |-> frame[u]],
           Accepting => frames["tx"] \subseteq {generation}, ThreadFrame(t)
    PROVE  /\ saw' = [u \in Workers |-> saw'[u]] /\ frame' = [u \in Workers |-> frame'[u]]
           /\ \A u \in Workers : u # t =>
                 /\ pc'[u] = pc[u] /\ saw'[u] = saw[u] /\ frame'[u] = frame[u]
                 /\ u \in leases["tx"] => u \in leases'["tx"]
           /\ ThreadFrame(t)'
           /\ lifecycle # "open" /\ t \in Capturing /\ pc[t] \in {"idle", "check", "release"}
                 => pc'[t] \in {"idle", "check", "release"}
           /\ \/ frames'["tx"] \subseteq frames["tx"]
              \/ /\ t \in Capturing /\ pc[t] = "enqueue"
                 /\ frames'["tx"] \subseteq frames["tx"] \cup {frame[t]}
<1>0. t \in Threads /\ generation' = generation
    BY WorkerFrame, Names, Zenon
<1> USE <1>0, Names DEF Types, ThreadFrame, Capturing, LeaseLabels, Goto, At
<1>2. CASE AcquireLease(t)
    BY <1>2, Zenon DEF AcquireLease, DirectionOf, queues, locals
<1>3. CASE IssueRequest(t)
    BY <1>3, Zenon DEF IssueRequest, words, queues
<1>4. CASE CheckLifecycle(t)
    BY <1>4, Zenon DEF CheckLifecycle, words, queues, locals
<1>5. CASE LoadGeneration(t)
    BY <1>5, Zenon DEF LoadGeneration, words, queues
<1>6. CASE DequeueFrame(t)
  <2>0. UNCHANGED <<saw, leases>> /\ t \in {"rx", "read"} /\ pc[t] = "dequeue"
      BY <1>6, Zenon DEF DequeueFrame, words
  <2>1. \E l \in {"release", "dequeue", "confirm"} : pc' = [pc EXCEPT ![t] = l]
      BY <1>6, Zenon DEF DequeueFrame
  <2>2. \/ frames' = frames
        \/ \E g : frames' = [frames EXCEPT ![DirectionOf(t)] = @ \ {g}]
        \/ frames' = [frames EXCEPT ![DirectionOf(t)] = @]
      BY <1>6, Zenon DEF DequeueFrame
  <2>3. frames'["tx"] \subseteq frames["tx"]
      BY <2>2 DEF DirectionOf
  <2>4. \/ frame' = frame
        \/ \E g \in frames[DirectionOf(t)] : frame' = [frame EXCEPT ![t] = g]
      BY <1>6, Zenon DEF DequeueFrame
  <2>5. pc'[t] = "confirm" => \E g \in frames[DirectionOf(t)] : frame' = [frame EXCEPT ![t] = g]
      BY <1>6, Zenon DEF DequeueFrame
  <2> QED BY <2>0, <2>1, <2>3, <2>4, <2>5 DEF DirectionOf
<1>7. CASE ConfirmOwner(t)
    BY <1>7, Zenon DEF ConfirmOwner, words, queues, locals
<1>8. CASE EnqueueFrame(t)
  <2>1. /\ UNCHANGED <<saw, frame, leases>> /\ pc[t] = "enqueue" /\ t # "control"
        /\ \E l \in {"release", "packet"} : pc' = [pc EXCEPT ![t] = l]
      BY <1>8, Zenon DEF EnqueueFrame, words, locals
  <2>2. \/ frames'["tx"] = frames["tx"]
        \/ t \in Capturing /\ frames'["tx"] = frames["tx"] \cup {frame[t]}
      BY <1>8, <2>1, LifecycleAssumption DEF EnqueueFrame, DirectionOf, AllWorkers
  <2> QED BY <2>1, <2>2, Zenon
<1>9. CASE ReleaseGuard(t)
    BY <1>9, Zenon DEF ReleaseGuard, queues
<1>10. CASE t = "tx" /\ (TxRingEmpty \/ TxTryDirect \/ TxDeliver \/ TxCapture)
    BY <1>10 DEF TxRingEmpty, TxTryDirect, TxDeliver, TxCapture, words, queues, locals
<1>11. CASE t = "write" /\ AcquireWriteLock
    BY <1>11, Zenon DEF AcquireWriteLock, words, queues, locals
<1>12. CASE t = "control" /\ EnableAdaptivePolling
    BY <1>12, Zenon DEF EnableAdaptivePolling, words, queues, locals
<1> QED
    BY <1>2, <1>3, <1>4, <1>5, <1>6, <1>7, <1>8, <1>9, <1>10, <1>11, <1>12, Zenon
       DEF WorkerStarts, WorkerRuns

(* A datapath thread passes the owner check only as a thread of the        *)
(* present owner, and while the words are sealed none is past it.          *)
LEMMA OwnerWorker ==
    ASSUME OwnerInv, NEW t \in Workers, WorkerStarts(t) \/ WorkerRuns(t)
    PROVE  FrameInv' /\ BeforeOpen'
<1>0. /\ \A u \in Teardowns : pc'[u] = pc[u]
      /\ UNCHANGED <<lifecycle, closers, pnp, job, generation>>
      /\ Types /\ JobInv /\ BeforeOpen
      /\ closers["tx"] # {} /\ leases["tx"] = {} => leases'["tx"] = {}
    BY WorkerFrame, Names, Zenon DEF OwnerInv, PowerInv
<1>1. Accepting' <=> Accepting
    BY <1>0, Names, Zenon DEF Accepting, StateLockFree
<1>2. /\ saw = [u \in Workers |-> saw[u]] /\ frame = [u \in Workers |-> frame[u]]
      /\ Accepting => frames["tx"] \subseteq {generation}
      /\ \A u \in Workers : ThreadFrame(u)
    BY FrameByThread, Zenon DEF OwnerInv
<1>3. /\ saw' = [u \in Workers |-> saw'[u]] /\ frame' = [u \in Workers |-> frame'[u]]
      /\ \A u \in Workers : u # t =>
            /\ pc'[u] = pc[u] /\ saw'[u] = saw[u] /\ frame'[u] = frame[u]
            /\ u \in leases["tx"] => u \in leases'["tx"]
      /\ ThreadFrame(t)'
      /\ lifecycle # "open" /\ t \in Capturing /\ pc[t] \in {"idle", "check", "release"}
            => pc'[t] \in {"idle", "check", "release"}
      /\ \/ frames'["tx"] \subseteq frames["tx"]
         \/ /\ t \in Capturing /\ pc[t] = "enqueue"
            /\ frames'["tx"] \subseteq frames["tx"] \cup {frame[t]}
    BY <1>0, <1>1, <1>2, WorkerMoves, Zenon
<1>4. FrameInv'
  <2>1. ASSUME NEW u \in Workers PROVE ThreadFrame(u)'
      BY <1>0, <1>1, <1>2, <1>3, Zenon DEF ThreadFrame, Capturing
  <2>2. Accepting' => frames'["tx"] \subseteq {generation'}
      BY <1>0, <1>1, <1>2, <1>3, Zenon DEF ThreadFrame
  <2> QED BY <1>3, <2>1, <2>2, Zenon DEF FrameInv, ThreadFrame, Capturing
<1>5. \A c : Sealed(c) => Sealed(c)'
    BY <1>0, Zenon DEF Sealed
<1>6. \A c : Sealed(c) => ~(t \in Capturing /\ pc[t] = "enqueue")
    BY <1>2, Zenon DEF Sealed, ThreadFrame
<1>7. BeforeOpen'
  <2>1. pc["power"] = "publish" => ~(t \in Capturing /\ pc[t] = "enqueue")
      BY <1>0, <1>6, Zenon DEF BeforeOpen, JobInv
  <2>2. \A h \in Handles : pc[h] = "publish" => ~(t \in Capturing /\ pc[t] = "enqueue")
      BY <1>0, <1>6, Zenon DEF BeforeOpen
  <2> QED BY <1>0, <1>3, <1>5, <2>1, <2>2, Names DEF BeforeOpen, Capturing
<1> QED BY <1>4, <1>7, Zenon

(* Owner cleanup retires its owner under the state lock and publishes OPEN *)
(* over an empty capture queue.                                            *)
LEMMA OwnerHandle ==
    ASSUME OwnerInv, NEW h \in Handles, \A g \in Handles : g = h,
           HandleStarts(h) \/ HandleRuns(h)
    PROVE  FrameInv' /\ BeforeOpen'
<1>0. /\ \A u \in Threads : u # h => pc'[u] = pc[u]
      /\ UNCHANGED <<leases, pnp, job>>
      /\ \A c \in {"power", "hardware"} : c \in closers["tx"] => c \in closers'["tx"]
      /\ Types /\ Types' /\ h \in Threads /\ h # "power" /\ h \notin Workers
      /\ CloserOf(h) = "owner"
      /\ \A u \in Workers : u \in Threads /\ u # h
    BY HandleFrame, Names, Zenon DEF OwnerInv, PowerInv, CloserOf
<1>1. StateLockFree <=> pc[h] # "claim"
    BY Zenon DEF StateLockFree
<1>2. StateLockFree' <=> pc'[h] # "claim"
    BY Zenon DEF StateLockFree
<1> USE <1>0, <1>1, <1>2, Names
        DEF Types, OwnerInv, FrameInv, BeforeOpen, Accepting, Sealed, Capturing, WordsInv, Goto, At,
            ClosedRx, ClosedTx, DrainedRx, DrainedTx, LeaseLabels
<1>3. CASE FileCreate(h) \/ FileCleanup(h) \/ ClaimLifecycle(h)
  <2>1. CASE FileCreate(h)
    <3>1. FrameInv'
        BY <2>1, ZenonT(30) DEF FileCreate, queues, words, locals
    <3>2. BeforeOpen'
        BY <2>1, Zenon DEF FileCreate, queues, words, locals
    <3> QED BY <3>1, <3>2, Zenon
  <2>2. CASE FileCleanup(h)
    <3>1. FrameInv'
        BY <2>2, Zenon DEF FileCleanup, queues, words, locals
    <3>2. BeforeOpen'
        BY <2>2, Zenon DEF FileCleanup, queues, words, locals
    <3> QED BY <3>1, <3>2, Zenon
  <2>3. CASE ClaimLifecycle(h)
    <3>1. FrameInv'
        BY <2>3, Zenon DEF ClaimLifecycle, queues, words, locals
    <3>2. BeforeOpen'
        BY <2>3, Zenon DEF ClaimLifecycle, queues, words, locals
    <3> QED BY <3>1, <3>2, Zenon
  <2> QED BY <1>3, <2>1, <2>2, <2>3, Zenon
<1>4. CASE FinishCleanup(h) \/ UnlockCleanup(h)
  <2>1. CASE FinishCleanup(h)
    <3>1. FrameInv'
        BY <2>1, ZenonT(30) DEF FinishCleanup, owner, queues, words, locals
    <3>2. /\ UNCHANGED <<lifecycle, closers, leases, frames, pnp, job>>
          /\ pc[h] = "finish" /\ pc'[h] \in {"reopen_rx", "unlock"}
        BY <2>1, Zenon DEF FinishCleanup, queues, words, device
    <3>3. pc'["power"] = pc["power"] /\ \A t \in Workers : pc'[t] = pc[t]
        BY <1>0, Names, Zenon
    <3>4. Sealed("owner")
        BY <3>2
    <3>5. BeforeOpen'
      <4>1. BeforeOpen /\ \A g \in Handles : g = h
          BY Zenon
      <4> HIDE <1>0, <1>1, <1>2, Names DEF Types, OwnerInv, FrameInv, Accepting, WordsInv
      <4> QED BY <3>2, <3>3, <3>4, <4>1, Zenon
    <3> QED BY <3>1, <3>5, Zenon
  <2>2. CASE UnlockCleanup(h)
    <3>1. FrameInv'
        BY <2>2, ZenonT(30) DEF UnlockCleanup, owner, queues, words, locals
    <3>2. BeforeOpen'
        BY <2>2, Zenon DEF UnlockCleanup, owner, queues, words, locals
    <3> QED BY <3>1, <3>2, Zenon
  <2> QED BY <1>4, <2>1, <2>2, Zenon
<1>5. CASE \E d \in Directions : LeaveCleanup(h, d) \/ CloseAdmission(h, d)
  <2>1. CASE LeaveCleanup(h, "rx")
    <3>1. FrameInv'
        BY <2>1, ZenonT(30) DEF LeaveCleanup, owner, queues, locals
    <3>2. BeforeOpen'
        BY <2>1, Zenon DEF LeaveCleanup, owner, queues, locals
    <3> QED BY <3>1, <3>2, Zenon
  <2>2. CASE LeaveCleanup(h, "tx")
    <3>1. FrameInv'
        BY <2>2, Zenon DEF LeaveCleanup, owner, queues, locals
    <3>2. BeforeOpen'
        BY <2>2, Zenon DEF LeaveCleanup, owner, queues, locals
    <3> QED BY <3>1, <3>2, Zenon
  <2>3. CASE CloseAdmission(h, "rx")
    <3>1. FrameInv'
        BY <2>3, ZenonT(30) DEF CloseAdmission, owner, queues, locals
    <3>2. BeforeOpen'
        BY <2>3, Zenon DEF CloseAdmission, owner, queues, locals
    <3> QED BY <3>1, <3>2, Zenon
  <2>4. CASE CloseAdmission(h, "tx")
    <3>1. FrameInv'
        BY <2>4, ZenonT(30) DEF CloseAdmission, owner, queues, locals
    <3>2. BeforeOpen'
        BY <2>4, Zenon DEF CloseAdmission, owner, queues, locals
    <3> QED BY <3>1, <3>2, Zenon
  <2> QED BY <1>5, <2>1, <2>2, <2>3, <2>4, Zenon
<1>6. CASE \E d \in Directions : Readmit(h, d)
  <2>1. CASE Readmit(h, "rx")
    <3>1. FrameInv'
        BY <2>1, ZenonT(30) DEF Readmit, AfterReadmit, owner, queues, locals
    <3>2. BeforeOpen'
        BY <2>1, Zenon DEF Readmit, AfterReadmit, owner, queues, locals
    <3> QED BY <3>1, <3>2, Zenon
  <2>2. CASE Readmit(h, "tx")
    <3>1. FrameInv'
        BY <2>2, ZenonT(30) DEF Readmit, AfterReadmit, owner, queues, locals
    <3>2. BeforeOpen'
        BY <2>2, Zenon DEF Readmit, AfterReadmit, owner, queues, locals
    <3> QED BY <3>1, <3>2, Zenon
  <2> QED BY <1>6, <2>1, <2>2, Zenon
<1>7. CASE \E d \in Directions : Drain(h, d)
  <2>1. CASE Drain(h, "rx")
    <3>1. FrameInv'
        BY <2>1, Zenon DEF Drain, owner, queues, words, locals
    <3>2. BeforeOpen'
        BY <2>1, Zenon DEF Drain, owner, queues, words, locals
    <3> QED BY <3>1, <3>2, Zenon
  <2>2. CASE Drain(h, "tx")
    <3>1. FrameInv'
        BY <2>2, Zenon DEF Drain, owner, queues, words, locals
    <3>2. BeforeOpen'
        BY <2>2, Zenon DEF Drain, owner, queues, words, locals
    <3> QED BY <3>1, <3>2, Zenon
  <2> QED BY <1>7, <2>1, <2>2, Zenon
<1>8. CASE \E d \in Directions : ClearFrameQueues(h, d)
  <2>1. CASE ClearFrameQueues(h, "rx")
    <3>1. FrameInv'
        BY <2>1, ZenonT(30) DEF ClearFrameQueues, owner, words, locals
    <3>2. BeforeOpen'
        BY <2>1, Zenon DEF ClearFrameQueues, owner, words, locals
    <3> QED BY <3>1, <3>2, Zenon
  <2>2. CASE ClearFrameQueues(h, "tx")
    <3>1. FrameInv'
        BY <2>2, ZenonT(30) DEF ClearFrameQueues, owner, words, locals
    <3>2. BeforeOpen'
        BY <2>2, Zenon DEF ClearFrameQueues, owner, words, locals
    <3> QED BY <3>1, <3>2, Zenon
  <2> QED BY <1>8, <2>1, <2>2, Zenon
<1>9. CASE \E d \in Directions : ReopenFrameQueues(h, d)
  <2>1. CASE ReopenFrameQueues(h, "rx")
    <3>1. FrameInv'
        BY <2>1, ZenonT(30) DEF ReopenFrameQueues, owner, words, locals
    <3>2. BeforeOpen'
        BY <2>1, Zenon DEF ReopenFrameQueues, owner, words, locals
    <3> QED BY <3>1, <3>2, Zenon
  <2>2. CASE ReopenFrameQueues(h, "tx")
    <3>1. FrameInv'
        BY <2>2, ZenonT(30) DEF ReopenFrameQueues, owner, words, locals
    <3>2. BeforeOpen'
        BY <2>2, Zenon DEF ReopenFrameQueues, owner, words, locals
    <3> QED BY <3>1, <3>2, Zenon
  <2> QED BY <1>9, <2>1, <2>2, Zenon
<1>10. CASE LockDirect(h) \/ LockWrite(h) \/ PurgeReads(h)
  <2>1. CASE LockDirect(h)
    <3>1. FrameInv'
        BY <2>1, Zenon DEF LockDirect, owner, queues, words, locals
    <3>2. BeforeOpen'
        BY <2>1, Zenon DEF LockDirect, owner, queues, words, locals
    <3> QED BY <3>1, <3>2, Zenon
  <2>2. CASE LockWrite(h)
    <3>1. FrameInv'
        BY <2>2, Zenon DEF LockWrite, owner, queues, words, locals
    <3>2. BeforeOpen'
        BY <2>2, Zenon DEF LockWrite, owner, queues, words, locals
    <3> QED BY <3>1, <3>2, Zenon
  <2>3. CASE PurgeReads(h)
    <3>1. FrameInv'
        BY <2>3, Zenon DEF PurgeReads, owner, queues, words, locals
    <3>2. BeforeOpen'
        BY <2>3, Zenon DEF PurgeReads, owner, queues, words, locals
    <3> QED BY <3>1, <3>2, Zenon
  <2> QED BY <1>10, <2>1, <2>2, <2>3, Zenon
<1>11. CASE PublishOpen(h) \/ StartReadQueue(h)
  <2>1. CASE PublishOpen(h)
    <3>1. FrameInv'
        BY <2>1, ZenonT(30) DEF PublishOpen, owner, queues, words, locals
    <3>2. BeforeOpen'
        BY <2>1, Zenon DEF PublishOpen, owner, queues, words, locals
    <3> QED BY <3>1, <3>2, Zenon
  <2>2. CASE StartReadQueue(h)
    <3>1. FrameInv'
        BY <2>2, ZenonT(30) DEF StartReadQueue, owner, queues, words, locals
    <3>2. BeforeOpen'
        BY <2>2, Zenon DEF StartReadQueue, owner, queues, words, locals
    <3> QED BY <3>1, <3>2, Zenon
  <2> QED BY <1>11, <2>1, <2>2, Zenon
<1> QED
    BY <1>3, <1>4, <1>5, <1>6, <1>7, <1>8, <1>9, <1>10, <1>11, Zenon
       DEF HandleStarts, HandleRuns, TeardownStep

(* The power callbacks leave the owner alone, and D0 entry publishes OPEN  *)
(* over an empty capture queue.                                            *)
LEMMA OwnerPower ==
    ASSUME OwnerInv, PowerStarts \/ PowerRuns
    PROVE  FrameInv' /\ BeforeOpen'
<1>0. /\ \A u \in Threads : u # "power" => pc'[u] = pc[u]
      /\ leases' = leases
      /\ "owner" \in closers["tx"] => "owner" \in closers'["tx"]
      /\ Types /\ JobInv /\ closers' \in [Directions -> SUBSET Closers]
    BY PowerStep, Names, Zenon DEF OwnerInv, PowerInv, Types
<1>1. (StateLockFree' <=> StateLockFree) /\ \A u \in Workers : pc'[u] = pc[u]
    BY <1>0, Names, Zenon DEF StateLockFree
<1>2. /\ UNCHANGED <<saw, frame, generation>>
      /\ frames'["tx"] = frames["tx"] \/ frames'["tx"] = {}
      /\ lifecycle' = "open" => lifecycle = "open" \/ pc["power"] = "publish"
  <2>1. CASE PowerStarts
      BY <2>1, Zenon DEF PowerStarts, PrepareHardware, D0Entry, D0Exit, ReleaseHardware, owner,
                  queues, locals
  <2>2. CASE StopAdapter \/ StartAdapter \/ FinishPower
      BY <2>2, Zenon DEF StopAdapter, StartAdapter, FinishPower, owner, queues, locals
  <2>3. CASE \E d \in Directions :
                CloseAdmission("power", d) \/ Drain("power", d) \/ Readmit("power", d)
      BY <2>3, Zenon DEF CloseAdmission, Drain, Readmit, owner, queues, locals
  <2>4. CASE \E d \in Directions : ClearFrameQueues("power", d) \/ ReopenFrameQueues("power", d)
      BY <1>0, <2>4, Names, Zenon DEF ClearFrameQueues, ReopenFrameQueues, Types, owner, locals
  <2>5. CASE LockDirect("power") \/ LockWrite("power") \/ PurgeReads("power")
             \/ PublishOpen("power") \/ StartReadQueue("power")
      BY <2>5, Zenon DEF LockDirect, LockWrite, PurgeReads, PublishOpen, StartReadQueue, At,
                  owner, queues, locals
  <2> QED BY <2>1, <2>2, <2>3, <2>4, <2>5, Zenon DEF PowerRuns, TeardownStep
<1>3. pc["power"] = "publish" =>
          frames["tx"] = {} /\ \A t \in Capturing : pc[t] \notin {"confirm", "enqueue"}
    BY <1>0, Zenon DEF OwnerInv, FrameInv, BeforeOpen, JobInv, Sealed
<1>4. FrameInv'
    BY <1>0, <1>1, <1>2, <1>3, Zenon DEF OwnerInv, FrameInv, Accepting, Capturing
<1>5. \A h \in Handles :
          /\ pc'[h] \in {"reopen_rx", "reopen_tx", "publish"} => Sealed("owner")'
          /\ pc'[h] = "publish" => frames'["tx"] = {}
    BY <1>0, <1>2, Names, Zenon DEF OwnerInv, BeforeOpen, Sealed
<1>6. /\ BeforeOpen /\ \A t \in Capturing : pc[t] = "idle" \/ t \in leases["tx"]
      /\ pc["power"] = "finish" => CloserOf("power") \in closers["tx"] /\ leases["tx"] = {}
      /\ PoweredDown => leases["tx"] = {}
    BY Names, Zenon DEF OwnerInv, FrameInv, PowerInv, WordsInv, QuietInv, ClosedTx, ClosedRx, DrainedTx
<1> USE <1>0, <1>1, <1>2, <1>5, <1>6, Names
        DEF BeforeOpen, Sealed, Capturing, JobInv, ClosedRx, PoweredDown, CloserOf, Goto, At
<1> HIDE <1>1, <1>2
<1>7. ASSUME NEW t \in Capturing PROVE pc'[t] = pc[t]
    BY <1>1, Zenon
<1>8. CASE PrepareHardware
    BY <1>4, <1>7, <1>8, Zenon DEF PrepareHardware, PowerCallback, Types, queues, words
<1>9. CASE D0Entry
    BY <1>4, <1>7, <1>9, Zenon DEF D0Entry, PowerCallback, Types, queues, words
<1>10. CASE D0Exit \/ ReleaseHardware
    BY <1>4, <1>7, <1>10, Zenon DEF D0Exit, ReleaseHardware, PowerCallback, Types, queues, words
<1>11. CASE StopAdapter \/ StartAdapter
    BY <1>4, <1>7, <1>11, Zenon DEF StopAdapter, StartAdapter, Types, queues, words
<1>12. CASE FinishPower
    BY <1>4, <1>7, <1>12, Zenon DEF FinishPower, Types, queues, words
<1>13. CASE \E d \in Directions : CloseAdmission("power", d) \/ Drain("power", d)
    BY <1>4, <1>7, <1>13 DEF CloseAdmission, Drain, Types, device, queues, words
<1>14. CASE \E d \in Directions : ClearFrameQueues("power", d)
    BY <1>4, <1>7, <1>14 DEF ClearFrameQueues, Types, device, words
<1>15. CASE ReopenFrameQueues("power", "rx")
    BY <1>4, <1>7, <1>15, Zenon DEF ReopenFrameQueues, Types, device, words
<1>16. CASE ReopenFrameQueues("power", "tx")
    BY <1>4, <1>7, <1>16, Zenon DEF ReopenFrameQueues, Types, device, words
<1>17. CASE Readmit("power", "rx")
    BY <1>4, <1>7, <1>17, Zenon DEF Readmit, AfterReadmit, Types, queues
<1>18. CASE Readmit("power", "tx")
    BY <1>4, <1>7, <1>18, Zenon DEF Readmit, AfterReadmit, Types, queues
<1>19. CASE LockDirect("power") \/ LockWrite("power") \/ PurgeReads("power")
    BY <1>4, <1>7, <1>19 DEF LockDirect, LockWrite, PurgeReads, Types, device, queues, words
<1>20. CASE PublishOpen("power")
    BY <1>4, <1>7, <1>20, Zenon DEF PublishOpen, Types, device, queues, words
<1>21. CASE StartReadQueue("power")
    BY <1>4, <1>7, <1>21, Zenon DEF StartReadQueue, Types, device, queues, words
<1> QED
    BY <1>8, <1>9, <1>10, <1>11, <1>12, <1>13, <1>14, <1>15, <1>16, <1>17, <1>18, <1>19,
       <1>20, <1>21, Zenon
       DEF PowerStarts, PowerRuns, TeardownStep

(* Every step keeps OwnerInv, for one handle.                              *)
LEMMA OwnerInductive ==
    ASSUME \A g, h \in Handles : g = h
    PROVE  OwnerInv /\ [Next]_vars => OwnerInv'
<1> SUFFICES ASSUME OwnerInv, [Next]_vars PROVE OwnerInv'
    BY Zenon
<1>1. PowerInv' /\ \A h \in Handles : WordsInv(h)'
    BY PowerInductive, HandleInductive, Zenon DEF OwnerInv
<1>2. CASE PowerStarts \/ PowerRuns
    BY <1>1, <1>2, OwnerPower, Zenon DEF OwnerInv
<1>3. CASE \E h \in Handles : HandleStarts(h) \/ HandleRuns(h)
    BY <1>1, <1>3, OwnerHandle, Zenon DEF OwnerInv
<1>4. CASE \E t \in Workers : WorkerStarts(t) \/ WorkerRuns(t)
    BY <1>1, <1>4, OwnerWorker, Zenon DEF OwnerInv
<1>5. CASE UNCHANGED vars
  <2>1. FrameInv' /\ BeforeOpen'
      BY <1>5 DEF vars, words, owner, device, queues, locals, OwnerInv, FrameInv, BeforeOpen,
                  Accepting, StateLockFree, Sealed, At
  <2> QED BY <1>1, <2>1, Zenon DEF OwnerInv
<1> QED BY <1>2, <1>3, <1>4, <1>5, Zenon DEF Next

(* For every set of datapath threads and any number of owners and power    *)
(* cycles: an open instance captures frames for its present owner only.    *)
THEOREM CaptureStaysWithItsOwner ==
    ASSUME \A g, h \in Handles : g = h
    PROVE  Spec => []CaptureBelongsToOwner
<1>1. Init => OwnerInv
    BY InitHolds, Names DEF Init, OwnerInv, FrameInv, BeforeOpen, Accepting, Sealed, Capturing, At
<1>2. OwnerInv => CaptureBelongsToOwner
    BY Zenon DEF OwnerInv, FrameInv, Accepting, CaptureBelongsToOwner
<1> QED BY <1>1, <1>2, OwnerInductive, PTL DEF Spec

-----------------------------------------------------------------------------
(* The strengthening.  The first conjunct says which callbacks run in      *)
(* which mode of NetAdapterCx.  The second says what has become of the     *)
(* armed flag while NetAdapterCx waits: whoever took it still notifies, or *)
(* has notified.                                                           *)
SleepInv ==
    /\ callback \in {"advance", "fill"} => polling = "polling"
    /\ callback \in {"check", "take", "notify"} => polling = "waiting"
    /\ polling = "waiting" /\ callback # "notify" /\ ~armed => notified \/ writer = "notify"
    /\ NoFrameSleeps

(* Nothing is queued and nobody waits before the queue is started.         *)
LEMMA SleepInit == ReceiveInit => SleepInv
BY Zenon DEF ReceiveInit, SleepInv, NoFrameSleeps

(* A write queues its frame before it takes the flag, and notifies if it   *)
(* has taken it.                                                           *)
LEMMA SleepWrite == SleepInv /\ (WriteEnter \/ Writing) => SleepInv'
<1> SUFFICES ASSUME SleepInv, WriteEnter \/ Writing PROVE SleepInv'
  BY Zenon
<1> USE DEF SleepInv, NoFrameSleeps, writeUnchanged, netAdapter, rings
<1>1. CASE WriteEnter BY <1>1, Zenon DEF WriteEnter
<1>2. CASE WriteFails BY <1>2, Zenon DEF WriteFails
<1>3. CASE WriteCheck BY <1>3, Zenon DEF WriteCheck
<1>4. CASE WriteEnqueue BY <1>4, Zenon DEF WriteEnqueue
<1>5. CASE WriteTake BY <1>5, Zenon DEF WriteTake
<1>6. CASE WriteNotify BY <1>6, Zenon DEF WriteNotify, Notify
<1> QED BY <1>1, <1>2, <1>3, <1>4, <1>5, <1>6, Zenon DEF Writing

(* The callbacks: an advance runs only while NetAdapterCx polls, and the   *)
(* arming callback looks for a frame after it has stored the flag.         *)
LEMMA SleepCallback == SleepInv /\ Running => SleepInv'
<1> SUFFICES ASSUME SleepInv, Running PROVE SleepInv'
  BY Zenon
<1> USE DEF SleepInv, NoFrameSleeps, advanceUnchanged, callbackUnchanged, netAdapter, rings
<1>1. CASE AdvanceDequeue BY <1>1, Zenon DEF AdvanceDequeue, Return
<1>2. CASE AdvanceFill BY <1>2, Zenon DEF AdvanceFill
<1>3. CASE AdvanceFault BY <1>3, Zenon DEF AdvanceFault, Return
<1>4. CASE CheckQueue BY <1>4, Zenon DEF CheckQueue
<1>5. CASE TakeNotification BY <1>5, Zenon DEF TakeNotification
<1>6. CASE CallbackNotify BY <1>6, Zenon DEF CallbackNotify, Notify
<1> QED BY <1>1, <1>2, <1>3, <1>4, <1>5, <1>6, Zenon DEF Running

(* The steps of NetAdapterCx.                                              *)
LEMMA SleepNetAdapter ==
    ASSUME SleepInv,
           \/ Start \/ Advance \/ EnableNotification \/ Resume \/ Cancel \/ Stop
           \/ ProvidePacket \/ ProvideFragment \/ TakeEntries
    PROVE  SleepInv'
<1> USE DEF SleepInv, NoFrameSleeps, callbackUnchanged, ringsUnchanged, advanceUnchanged,
            netAdapter, rings
<1>1. CASE Start BY <1>1, Zenon DEF Start
<1>2. CASE Advance BY <1>2, Zenon DEF Advance
<1>3. CASE EnableNotification BY <1>3, Zenon DEF EnableNotification
<1>4. CASE Resume BY <1>4, Zenon DEF Resume
<1>5. CASE Cancel BY <1>5, Zenon DEF Cancel
<1>6. CASE Stop BY <1>6, Zenon DEF Stop
<1>7. CASE ProvidePacket BY <1>7, Zenon DEF ProvidePacket
<1>8. CASE ProvideFragment BY <1>8, Zenon DEF ProvideFragment
<1>9. CASE TakeEntries BY <1>9, Zenon DEF TakeEntries
<1> QED BY <1>1, <1>2, <1>3, <1>4, <1>5, <1>6, <1>7, <1>8, <1>9, Zenon

(* Owner cleanup leaves the flag alone and at most empties the queue.      *)
LEMMA SleepCleanup == SleepInv /\ (CleanupRetire \/ Cleaning) => SleepInv'
<1> SUFFICES ASSUME SleepInv, CleanupRetire \/ Cleaning PROVE SleepInv'
  BY Zenon
<1> USE DEF SleepInv, NoFrameSleeps, cleanupUnchanged, netAdapter, rings
<1>1. CASE CleanupRetire BY <1>1, Zenon DEF CleanupRetire
<1>2. CASE CleanupClose BY <1>2, Zenon DEF CleanupClose
<1>3. CASE CleanupLock BY <1>3, Zenon DEF CleanupLock
<1>4. CASE CleanupClear BY <1>4, Zenon DEF CleanupClear
<1>5. CASE CleanupReopen BY <1>5, Zenon DEF CleanupReopen
<1>6. CASE CleanupReturn BY <1>6, Zenon DEF CleanupReturn
<1> QED BY <1>1, <1>2, <1>3, <1>4, <1>5, <1>6, Zenon DEF Cleaning

(* The wake-up of the receive direction is never lost: rx_notification_-   *)
(* armed, evt_io_write and evt_packet_queue_set_notification_enabled keep  *)
(* NetAdapterCx from waiting over a queued frame.                          *)
THEOREM WakeUpIsNotLost == ReceiveSpec => []NoFrameSleeps
<1>1. SleepInv /\ [ReceiveNext]_rxVars => SleepInv'
  <2> SUFFICES ASSUME SleepInv, [ReceiveNext]_rxVars PROVE SleepInv'
    BY Zenon
  <2>1. CASE UNCHANGED rxVars
    BY <2>1, Zenon DEF SleepInv, NoFrameSleeps, rxVars, netAdapter, rings
  <2>2. CASE ReceiveNext
    BY <2>2, SleepWrite, SleepCallback, SleepNetAdapter, SleepCleanup, Zenon DEF ReceiveNext
  <2> QED BY <2>1, <2>2, Zenon
<1>2. SleepInv => NoFrameSleeps
  BY Zenon DEF SleepInv
<1> QED BY SleepInit, <1>1, <1>2, PTL DEF ReceiveSpec

-----------------------------------------------------------------------------
(* How far an index is ahead of another on a ring of n entries.            *)
Ahead(a, x, n) == IF x >= a THEN x - a ELSE x - a + n

(* Going round from what NetAdapterCx has taken, BeginIndex comes before   *)
(* EndIndex.                                                               *)
Ordered(r, n) == r \in Ring(n) /\ Ahead(r.taken, r.begin, n) <= Ahead(r.taken, r.end, n)

(* The entries the driver has returned and NetAdapterCx has not taken.     *)
Behind(r, n) == Window(r.taken, r.begin, n)

(* The returned packets that are indicated, and the frames they refer to.  *)
Shown(pr, ps) == {i \in Behind(pr, PacketCount) : ~ps[i].ignore}
Held(pr, ps, fg) == {fg[ps[i].fragment] : i \in Shown(pr, ps)}

(* An indicated packet refers to a returned fragment, and no two to the    *)
(* same frame.                                                             *)
RingsHold(pr, ps, fr, fg) ==
    /\ Ordered(pr, PacketCount) /\ Ordered(fr, FragmentCount)
    /\ ps \in [0..(PacketCount - 1) -> [ignore : BOOLEAN, fragment : 0..(FragmentCount - 1)]]
    /\ fg \in [0..(FragmentCount - 1) -> Frames \cup {Stale}]
    /\ \A i \in Shown(pr, ps) : ps[i].fragment \in Behind(fr, FragmentCount)
    /\ \A i, j \in Shown(pr, ps) : fg[ps[i].fragment] = fg[ps[j].fragment] => i = j

(* The frame in the hand of the advance callback has its entry waiting.    *)
HandInv ==
    IF callback = "fill" THEN hand \in Frames /\ HasEntry ELSE hand = NoFrame

QueueInv == queue \in Seq(Frames) /\ IsInjective(queue)

(* The queue, the hand and the rings share no frame, and hold what is owed. *)
Shared(held, q, h, o) ==
    /\ held \cap Range(q) = {}
    /\ h # NoFrame => h \notin held /\ h \notin Range(q)
    /\ o = held \cup Range(q) \cup (IF h = NoFrame THEN {} ELSE {h})

PlaceInv ==
    /\ RingsHold(packetRing, packets, fragmentRing, fragments)
    /\ HandInv /\ QueueInv
    /\ Shared(Held(packetRing, packets, fragments), queue, hand, owed)

-----------------------------------------------------------------------------
(* The window up to an index holds the indices that are less far ahead.    *)
LEMMA WindowIsAhead ==
    ASSUME NEW n \in Nat \ {0}, NEW a \in 0..(n - 1), NEW b \in 0..(n - 1),
           NEW i \in 0..(n - 1)
    PROVE  i \in Window(a, b, n) <=> Ahead(a, i, n) < Ahead(a, b, n)
BY DEF Window, Ahead

(* Distances are natural numbers, and tell the indices apart.              *)
LEMMA AheadType ==
    ASSUME NEW n \in Nat \ {0}, NEW a \in 0..(n - 1), NEW x \in 0..(n - 1)
    PROVE  /\ Ahead(a, x, n) \in 0..(n - 1)
           /\ \A y \in 0..(n - 1) : Ahead(a, x, n) = Ahead(a, y, n) => x = y
BY DEF Ahead

(* increment_index goes one further, unless it comes round.                *)
LEMMA IncrementIsAhead ==
    ASSUME NEW n \in Nat \ {0}, NEW a \in 0..(n - 1), NEW x \in 0..(n - 1)
    PROVE  /\ Increment(x, n) \in 0..(n - 1)
           /\ Increment(x, n) # a => Ahead(a, Increment(x, n), n) = Ahead(a, x, n) + 1
BY DEF Ahead, Increment

(* A distance can be measured from an index on the way.                    *)
LEMMA AheadOnTheWay ==
    ASSUME NEW n \in Nat \ {0}, NEW a \in 0..(n - 1), NEW b \in 0..(n - 1),
           NEW x \in 0..(n - 1), Ahead(a, b, n) <= Ahead(a, x, n)
    PROVE  Ahead(b, x, n) = Ahead(a, x, n) - Ahead(a, b, n)
BY DEF Ahead

(* An index not yet on the way lies a whole round behind.                  *)
LEMMA AheadOfTheWay ==
    ASSUME NEW n \in Nat \ {0}, NEW a \in 0..(n - 1), NEW b \in 0..(n - 1),
           NEW x \in 0..(n - 1), Ahead(a, x, n) < Ahead(a, b, n)
    PROVE  Ahead(b, x, n) = Ahead(a, x, n) - Ahead(a, b, n) + n
BY DEF Ahead

(* BeginIndex moves over the entry it stands at.                           *)
LEMMA BeginMoves ==
    ASSUME NEW n \in Nat \ {0}, NEW r, Ordered(r, n), r.begin # r.end,
           NEW s, s \in Ring(n), s.taken = r.taken, s.end = r.end,
           s.begin = Increment(r.begin, n)
    PROVE  /\ Ordered(s, n) /\ r.begin \notin Behind(r, n)
           /\ Behind(s, n) = Behind(r, n) \cup {r.begin}
<1> DEFINE a == r.taken
           b == r.begin
           e == r.end
           c == s.begin
<1>1. a \in 0..(n - 1) /\ b \in 0..(n - 1) /\ e \in 0..(n - 1) /\ c \in 0..(n - 1)
  BY Zenon DEF Ordered, Ring
<1>2. Ahead(a, b, n) < Ahead(a, e, n) /\ Ahead(a, e, n) \in 0..(n - 1)
      /\ Ahead(a, b, n) \in 0..(n - 1)
  <2>1. /\ Ahead(a, b, n) \in 0..(n - 1) /\ Ahead(a, e, n) \in 0..(n - 1)
        /\ Ahead(a, b, n) = Ahead(a, e, n) => b = e
    BY <1>1, AheadType, Zenon
  <2>2. Ahead(a, b, n) <= Ahead(a, e, n) /\ b # e
    BY Zenon DEF Ordered
  <2> QED BY <2>1, <2>2
<1>3. Ahead(a, c, n) = Ahead(a, b, n) + 1
  <2>1. c # a
    BY <1>1, <1>2 DEF Ahead, Increment
  <2> QED BY <1>1, <2>1, IncrementIsAhead, Zenon
<1>4. Ordered(s, n)
  BY <1>1, <1>2, <1>3 DEF Ordered
<1>5. b \notin Window(a, b, n)
  BY <1>1, <1>2, WindowIsAhead
<1>6. ASSUME NEW i \in 0..(n - 1)
      PROVE  i \in Window(a, c, n) <=> i \in Window(a, b, n) \/ i = b
  <2>1. Ahead(a, i, n) \in 0..(n - 1) /\ (Ahead(a, i, n) = Ahead(a, b, n) => i = b)
    BY <1>1, AheadType, Zenon
  <2>2. i \in Window(a, c, n) <=> Ahead(a, i, n) < Ahead(a, c, n)
    BY <1>1, WindowIsAhead, Zenon
  <2>3. i \in Window(a, b, n) <=> Ahead(a, i, n) < Ahead(a, b, n)
    BY <1>1, WindowIsAhead, Zenon
  <2>4. Ahead(a, b, n) \in 0..(n - 1)
    BY <1>1, AheadType, Zenon
  <2>5. CASE i = b
    BY <1>3, <2>2, <2>4, <2>5
  <2>6. CASE i # b
    <3>1. Ahead(a, i, n) # Ahead(a, b, n)
      BY <2>1, <2>6, Zenon
    <3> QED BY <1>3, <2>1, <2>2, <2>3, <2>4, <2>6, <3>1
  <2> QED BY <2>5, <2>6, Zenon
<1>7. Window(a, c, n) \subseteq 0..(n - 1) /\ Window(a, b, n) \subseteq 0..(n - 1)
  BY Zenon DEF Window
<1>8. Window(a, c, n) = Window(a, b, n) \cup {b}
  BY <1>1, <1>6, <1>7, Zenon
<1> QED BY <1>4, <1>5, <1>8, Zenon DEF Behind

(* NetAdapterCx provides the entry at EndIndex.                            *)
LEMMA EndMoves ==
    ASSUME NEW n \in Nat \ {0}, NEW r, Ordered(r, n), Increment(r.end, n) # r.taken,
           NEW s, s \in Ring(n), s.taken = r.taken, s.begin = r.begin,
           s.end = Increment(r.end, n)
    PROVE  Ordered(s, n) /\ r.end \notin Behind(r, n) /\ Behind(s, n) = Behind(r, n)
<1> DEFINE a == r.taken
           b == r.begin
           e == r.end
<1>1. a \in 0..(n - 1) /\ b \in 0..(n - 1) /\ e \in 0..(n - 1)
  BY Zenon DEF Ordered, Ring
<1>2. /\ Ahead(a, b, n) <= Ahead(a, e, n) /\ Ahead(a, e, n) \in 0..(n - 1)
      /\ Ahead(a, b, n) \in 0..(n - 1)
  BY <1>1, AheadType, Zenon DEF Ordered
<1>3. Ahead(a, s.end, n) = Ahead(a, e, n) + 1
  BY <1>1, IncrementIsAhead, Zenon
<1>4. Ordered(s, n)
  BY <1>1, <1>2, <1>3 DEF Ordered
<1>5. e \notin Window(a, b, n)
  BY <1>1, <1>2, WindowIsAhead
<1> QED BY <1>4, <1>5, Zenon DEF Behind

(* The cancellation returns all entries.                                   *)
LEMMA BeginReachesEnd ==
    ASSUME NEW n \in Nat \ {0}, NEW r, Ordered(r, n),
           NEW s, s \in Ring(n), s.taken = r.taken, s.end = r.end, s.begin = r.end
    PROVE  /\ Ordered(s, n) /\ Behind(r, n) \subseteq Behind(s, n)
           /\ Window(r.begin, r.end, n) = Behind(s, n) \ Behind(r, n)
<1> DEFINE a == r.taken
           b == r.begin
           e == r.end
<1>1. a \in 0..(n - 1) /\ b \in 0..(n - 1) /\ e \in 0..(n - 1)
  BY Zenon DEF Ordered, Ring
<1>2. /\ Ahead(a, b, n) <= Ahead(a, e, n) /\ Ahead(a, e, n) \in 0..(n - 1)
      /\ Ahead(a, b, n) \in 0..(n - 1)
  BY <1>1, AheadType, Zenon DEF Ordered
<1>3. Ordered(s, n)
  BY <1>1, <1>2 DEF Ordered
<1>4. ASSUME NEW i \in 0..(n - 1)
      PROVE  /\ i \in Window(a, b, n) => i \in Window(a, e, n)
             /\ i \in Window(b, e, n) <=> i \in Window(a, e, n) /\ i \notin Window(a, b, n)
  <2>1. Ahead(a, i, n) \in 0..(n - 1)
    BY <1>1, AheadType, Zenon
  <2>2. /\ i \in Window(a, e, n) <=> Ahead(a, i, n) < Ahead(a, e, n)
        /\ i \in Window(a, b, n) <=> Ahead(a, i, n) < Ahead(a, b, n)
        /\ i \in Window(b, e, n) <=> Ahead(b, i, n) < Ahead(b, e, n)
    BY <1>1, WindowIsAhead, Zenon
  <2>3. Ahead(b, e, n) = Ahead(a, e, n) - Ahead(a, b, n)
    BY <1>1, <1>2, AheadOnTheWay, Zenon
  <2>4. CASE Ahead(a, i, n) < Ahead(a, b, n)
    <3>1. Ahead(b, i, n) = Ahead(a, i, n) - Ahead(a, b, n) + n
      BY <1>1, <2>4, AheadOfTheWay, Zenon
    <3> QED BY <1>2, <2>1, <2>2, <2>3, <2>4, <3>1
  <2>5. CASE Ahead(a, b, n) <= Ahead(a, i, n)
    <3>1. Ahead(b, i, n) = Ahead(a, i, n) - Ahead(a, b, n)
      BY <1>1, <2>5, AheadOnTheWay, Zenon
    <3> QED BY <1>2, <2>1, <2>2, <2>3, <2>5, <3>1
  <2> QED BY <1>2, <2>1, <2>4, <2>5
<1>5. /\ Window(a, b, n) \subseteq 0..(n - 1) /\ Window(a, e, n) \subseteq 0..(n - 1)
      /\ Window(b, e, n) \subseteq 0..(n - 1)
  BY Zenon DEF Window
<1>6. /\ Window(a, b, n) \subseteq Window(a, e, n)
      /\ Window(b, e, n) = Window(a, e, n) \ Window(a, b, n)
  BY <1>4, <1>5, Zenon
<1> QED BY <1>3, <1>6, Zenon DEF Behind

(* NetAdapterCx takes what is behind BeginIndex.                           *)
LEMMA TakenCatchesUp ==
    ASSUME NEW n \in Nat \ {0}, NEW r, Ordered(r, n),
           NEW s, s \in Ring(n), s.taken = r.begin, s.begin = r.begin, s.end = r.end
    PROVE  Ordered(s, n) /\ Behind(s, n) = {}
<1>1. s.taken \in 0..(n - 1) /\ s.end \in 0..(n - 1)
  BY Zenon DEF Ring
<1>2. Ahead(s.taken, s.begin, n) = 0 /\ Ahead(s.taken, s.end, n) \in 0..(n - 1)
  BY <1>1, AheadType DEF Ahead
<1>3. Window(s.taken, s.begin, n) = {}
  BY <1>1 DEF Window
<1> QED BY <1>2, <1>3 DEF Ordered, Behind

-----------------------------------------------------------------------------
(* One index of a ring moves.                                              *)
LEMMA IndexMoves ==
    ASSUME NEW n \in Nat \ {0}, NEW r \in Ring(n), NEW v \in 0..(n - 1), NEW s
    PROVE  /\ s = [r EXCEPT !.begin = v] =>
                 s \in Ring(n) /\ s.taken = r.taken /\ s.begin = v /\ s.end = r.end
           /\ s = [r EXCEPT !.end = v] =>
                 s \in Ring(n) /\ s.taken = r.taken /\ s.begin = r.begin /\ s.end = v
           /\ s = [r EXCEPT !.taken = v] =>
                 s \in Ring(n) /\ s.taken = v /\ s.begin = r.begin /\ s.end = r.end
<1>1. ASSUME s = [r EXCEPT !.begin = v]
      PROVE  s \in Ring(n) /\ s.taken = r.taken /\ s.begin = v /\ s.end = r.end
  BY <1>1, Zenon DEF Ring
<1>2. ASSUME s = [r EXCEPT !.end = v]
      PROVE  s \in Ring(n) /\ s.taken = r.taken /\ s.begin = r.begin /\ s.end = v
  BY <1>2, Zenon DEF Ring
<1>3. ASSUME s = [r EXCEPT !.taken = v]
      PROVE  s \in Ring(n) /\ s.taken = v /\ s.begin = r.begin /\ s.end = r.end
  BY <1>3, Zenon DEF Ring
<1> QED BY <1>1, <1>2, <1>3, Zenon

(* What RingsHold says, in a form that does not unfold it.                 *)
LEMMA RingsHoldFacts ==
    ASSUME NEW pr, NEW ps, NEW fr, NEW fg, RingsHold(pr, ps, fr, fg)
    PROVE  /\ PacketCount \in Nat \ {0} /\ FragmentCount \in Nat \ {0}
           /\ pr \in Ring(PacketCount) /\ fr \in Ring(FragmentCount)
           /\ \A i \in 0..(PacketCount - 1) : ps[i].fragment \in 0..(FragmentCount - 1)
           /\ Behind(pr, PacketCount) \subseteq 0..(PacketCount - 1)
           /\ Behind(fr, FragmentCount) \subseteq 0..(FragmentCount - 1)
           /\ pr.begin \in 0..(PacketCount - 1) /\ fr.begin \in 0..(FragmentCount - 1)
           /\ pr.end \in 0..(PacketCount - 1) /\ fr.end \in 0..(FragmentCount - 1)
<1>1. PacketCount \in Nat \ {0} /\ FragmentCount \in Nat \ {0}
  BY ReceiveAssumption, Zenon
<1>2. pr \in Ring(PacketCount) /\ fr \in Ring(FragmentCount)
  BY Zenon DEF RingsHold, Ordered
<1>3. \A i \in 0..(PacketCount - 1) : ps[i].fragment \in 0..(FragmentCount - 1)
  BY Zenon DEF RingsHold
<1>4. /\ Behind(pr, PacketCount) \subseteq 0..(PacketCount - 1)
      /\ Behind(fr, FragmentCount) \subseteq 0..(FragmentCount - 1)
  BY Zenon DEF Behind, Window
<1>5. /\ pr.begin \in 0..(PacketCount - 1) /\ fr.begin \in 0..(FragmentCount - 1)
      /\ pr.end \in 0..(PacketCount - 1) /\ fr.end \in 0..(FragmentCount - 1)
  BY <1>2, Zenon DEF Ring
<1> QED BY <1>1, <1>2, <1>3, <1>4, <1>5, Zenon

(* There is a frame in hand that the rings do not hold, and an entry of    *)
(* each ring for it.                                                       *)
Fillable(pr, ps, fr, fg, f) ==
    /\ RingsHold(pr, ps, fr, fg) /\ pr.begin # pr.end /\ fr.begin # fr.end
    /\ f \in Frames /\ f \notin Held(pr, ps, fg)

(* The advance copies a frame: the packet at BeginIndex is indicated with  *)
(* it, and what the other packets refer to stays.                          *)
Filled(pr, ps, fr, fg, f, pr2, ps2, fr2, fg2) ==
    /\ pr2 = [pr EXCEPT !.begin = Increment(pr.begin, PacketCount)]
    /\ fr2 = [fr EXCEPT !.begin = Increment(fr.begin, FragmentCount)]
    /\ ps2 = [ps EXCEPT ![pr.begin] = [ignore |-> FALSE, fragment |-> fr.begin]]
    /\ fg2 = [fg EXCEPT ![fr.begin] = f]

(* rx_advance fills one packet and one fragment and moves both indices.    *)
LEMMA FillHolds ==
    ASSUME NEW pr, NEW ps, NEW fr, NEW fg, NEW f, Fillable(pr, ps, fr, fg, f),
           NEW pr2, NEW ps2, NEW fr2, NEW fg2, Filled(pr, ps, fr, fg, f, pr2, ps2, fr2, fg2)
    PROVE  RingsHold(pr2, ps2, fr2, fg2) /\ Held(pr2, ps2, fg2) = Held(pr, ps, fg) \cup {f}
<1> /\ RingsHold(pr, ps, fr, fg) /\ pr.begin # pr.end /\ fr.begin # fr.end
    /\ f \in Frames /\ f \notin Held(pr, ps, fg)
  BY Zenon DEF Fillable
<1>0. /\ PacketCount \in Nat \ {0} /\ FragmentCount \in Nat \ {0}
      /\ pr \in Ring(PacketCount) /\ fr \in Ring(FragmentCount)
      /\ \A i \in 0..(PacketCount - 1) : ps[i].fragment \in 0..(FragmentCount - 1)
      /\ Behind(pr, PacketCount) \subseteq 0..(PacketCount - 1)
      /\ Behind(fr, FragmentCount) \subseteq 0..(FragmentCount - 1)
      /\ pr.begin \in 0..(PacketCount - 1) /\ fr.begin \in 0..(FragmentCount - 1)
  BY RingsHoldFacts, Zenon
<1>1. /\ Ordered(pr2, PacketCount) /\ pr.begin \notin Behind(pr, PacketCount)
      /\ Behind(pr2, PacketCount) = Behind(pr, PacketCount) \cup {pr.begin}
  <2>1. Increment(pr.begin, PacketCount) \in 0..(PacketCount - 1)
    BY <1>0, IncrementIsAhead, Zenon
  <2>2. /\ pr2 \in Ring(PacketCount) /\ pr2.taken = pr.taken /\ pr2.end = pr.end
        /\ pr2.begin = Increment(pr.begin, PacketCount)
    BY <1>0, <2>1, IndexMoves DEF Filled
  <2>3. Ordered(pr, PacketCount)
    BY Zenon DEF RingsHold
  <2> QED BY <1>0, <2>2, <2>3, BeginMoves, Zenon
<1>2. /\ Ordered(fr2, FragmentCount) /\ fr.begin \notin Behind(fr, FragmentCount)
      /\ Behind(fr2, FragmentCount) = Behind(fr, FragmentCount) \cup {fr.begin}
  <2>1. Increment(fr.begin, FragmentCount) \in 0..(FragmentCount - 1)
    BY <1>0, IncrementIsAhead, Zenon
  <2>2. /\ fr2 \in Ring(FragmentCount) /\ fr2.taken = fr.taken /\ fr2.end = fr.end
        /\ fr2.begin = Increment(fr.begin, FragmentCount)
    BY <1>0, <2>1, IndexMoves DEF Filled
  <2>3. Ordered(fr, FragmentCount)
    BY Zenon DEF RingsHold
  <2> QED BY <1>0, <2>2, <2>3, BeginMoves, Zenon
<1>3. /\ ps2 \in [0..(PacketCount - 1) -> [ignore : BOOLEAN, fragment : 0..(FragmentCount - 1)]]
      /\ ~ps2[pr.begin].ignore /\ ps2[pr.begin].fragment = fr.begin
      /\ \A i \in 0..(PacketCount - 1) : i # pr.begin => ps2[i] = ps[i]
  BY <1>0, Zenon DEF RingsHold, Filled
<1>4. /\ fg2 \in [0..(FragmentCount - 1) -> Frames \cup {Stale}]
      /\ fg2[fr.begin] = f
      /\ \A k \in 0..(FragmentCount - 1) : k # fr.begin => fg2[k] = fg[k]
  BY <1>0, Zenon DEF RingsHold, Filled
<1>5. Shown(pr2, ps2) = Shown(pr, ps) \cup {pr.begin}
  BY <1>0, <1>1, <1>3, Zenon DEF Shown
<1>6. \A i \in Shown(pr, ps) :
          /\ i # pr.begin /\ ps2[i] = ps[i]
          /\ ps[i].fragment \in Behind(fr, FragmentCount)
          /\ fg2[ps2[i].fragment] = fg[ps[i].fragment]
  <2>1. ASSUME NEW i \in Shown(pr, ps)
        PROVE  i # pr.begin /\ ps2[i] = ps[i]
    BY <1>0, <1>1, <1>3, Zenon DEF Shown
  <2>2. ASSUME NEW i \in Shown(pr, ps)
        PROVE  ps[i].fragment \in Behind(fr, FragmentCount)
    BY Zenon DEF RingsHold
  <2>3. ASSUME NEW i \in Shown(pr, ps)
        PROVE  fg2[ps2[i].fragment] = fg[ps[i].fragment]
    BY <1>0, <1>2, <1>4, <2>1, <2>2, Zenon
  <2> QED BY <2>1, <2>2, <2>3, Zenon
<1>7. /\ fg2[ps2[pr.begin].fragment] = f /\ \A i \in Shown(pr, ps) : fg[ps[i].fragment] # f
      /\ \A i, j \in Shown(pr, ps) : fg[ps[i].fragment] = fg[ps[j].fragment] => i = j
  BY <1>3, <1>4, Zenon DEF RingsHold, Held
<1>8. \A i \in Shown(pr2, ps2) : ps2[i].fragment \in Behind(fr2, FragmentCount)
  BY <1>2, <1>3, <1>5, <1>6, Zenon
<1>9. /\ Held(pr2, ps2, fg2) = Held(pr, ps, fg) \cup {f}
      /\ \A i, j \in Shown(pr2, ps2) : fg2[ps2[i].fragment] = fg2[ps2[j].fragment] => i = j
  <2>1. \A i \in Shown(pr, ps) : fg2[ps2[i].fragment] = fg[ps[i].fragment]
    BY <1>6, Zenon
  <2> DEFINE P == Shown(pr, ps)
             b == pr.begin
  <2>2. /\ Held(pr2, ps2, fg2) = {fg2[ps2[i].fragment] : i \in P \cup {b}}
        /\ Held(pr, ps, fg) = {fg[ps[i].fragment] : i \in P} /\ Shown(pr2, ps2) = P \cup {b}
    BY <1>5, Zenon DEF Held
  <2>3. /\ \A i \in P : fg2[ps2[i].fragment] = fg[ps[i].fragment]
        /\ fg2[ps2[b].fragment] = f /\ \A i \in P : fg[ps[i].fragment] # f
        /\ \A i, j \in P : fg[ps[i].fragment] = fg[ps[j].fragment] => i = j
    BY <1>7, <2>1, Zenon
  <2> HIDE DEF P, b
  <2>4. /\ {fg2[ps2[i].fragment] : i \in P \cup {b}} = {fg[ps[i].fragment] : i \in P} \cup {f}
        /\ \A i, j \in P \cup {b} : fg2[ps2[i].fragment] = fg2[ps2[j].fragment] => i = j
    <3>1. {fg2[ps2[i].fragment] : i \in P \cup {b}} = {fg[ps[i].fragment] : i \in P} \cup {f}
      BY <2>3
    <3>2. ASSUME NEW i \in P \cup {b}, NEW j \in P \cup {b},
                 fg2[ps2[i].fragment] = fg2[ps2[j].fragment]
          PROVE  i = j
      BY <2>3, <3>2
    <3> QED BY <3>1, <3>2, Zenon
  <2> QED BY <2>2, <2>4, Zenon
<1> QED BY <1>1, <1>2, <1>3, <1>4, <1>8, <1>9, Zenon DEF RingsHold

(* The same packets refer to the same frames.                              *)
Keeps(pr, ps, fr, fg, pr2, ps2, fr2, fg2) ==
    /\ Ordered(pr2, PacketCount) /\ Ordered(fr2, FragmentCount)
    /\ ps2 \in [0..(PacketCount - 1) -> [ignore : BOOLEAN, fragment : 0..(FragmentCount - 1)]]
    /\ fg2 \in [0..(FragmentCount - 1) -> Frames \cup {Stale}]
    /\ Shown(pr2, ps2) = Shown(pr, ps)
    /\ Behind(fr, FragmentCount) \subseteq Behind(fr2, FragmentCount)
    /\ \A i \in Shown(pr, ps) : ps2[i] = ps[i]
    /\ \A k \in Behind(fr, FragmentCount) : fg2[k] = fg[k]

(* Rings that keep what the indicated packets refer to hold the same.      *)
LEMMA SameIsHeld ==
    ASSUME NEW pr, NEW ps, NEW fr, NEW fg, NEW pr2, NEW ps2, NEW fr2, NEW fg2,
           RingsHold(pr, ps, fr, fg), Keeps(pr, ps, fr, fg, pr2, ps2, fr2, fg2)
    PROVE  RingsHold(pr2, ps2, fr2, fg2) /\ Held(pr2, ps2, fg2) = Held(pr, ps, fg)
<1>1. /\ \A i \in Shown(pr, ps) : ps[i].fragment \in Behind(fr, FragmentCount)
      /\ \A i, j \in Shown(pr, ps) : fg[ps[i].fragment] = fg[ps[j].fragment] => i = j
  BY Zenon DEF RingsHold
<1>2. /\ \A i \in Shown(pr, ps) : fg2[ps2[i].fragment] = fg[ps[i].fragment]
      /\ \A i \in Shown(pr, ps) : ps2[i].fragment \in Behind(fr2, FragmentCount)
      /\ Shown(pr2, ps2) = Shown(pr, ps)
  BY <1>1, Zenon DEF Keeps
<1>3. Held(pr2, ps2, fg2) = Held(pr, ps, fg)
  BY <1>2 DEF Held
<1>4. /\ \A i \in Shown(pr2, ps2) : ps2[i].fragment \in Behind(fr2, FragmentCount)
      /\ \A i, j \in Shown(pr2, ps2) : fg2[ps2[i].fragment] = fg2[ps2[j].fragment] => i = j
  BY <1>1, <1>2, Zenon
<1> QED BY <1>3, <1>4, Zenon DEF RingsHold, Keeps

(* The cancellation returns the rest of the packets, marked.               *)
Ignored(pr, ps, fr, pr2, ps2, fr2) ==
    /\ ps2 = [i \in 0..(PacketCount - 1) |->
                 IF i \in Window(pr.begin, pr.end, PacketCount)
                 THEN [ps[i] EXCEPT !.ignore = TRUE] ELSE ps[i]]
    /\ pr2 = [pr EXCEPT !.begin = pr.end]
    /\ fr2 = [fr EXCEPT !.begin = fr.end]

(* A packet that is returned marked is not indicated, so cancelling shows  *)
(* NetAdapterCx no frame and hides none.                                   *)
LEMMA CancelHolds ==
    ASSUME NEW pr, NEW ps, NEW fr, NEW fg, RingsHold(pr, ps, fr, fg),
           NEW pr2, NEW ps2, NEW fr2, Ignored(pr, ps, fr, pr2, ps2, fr2)
    PROVE  RingsHold(pr2, ps2, fr2, fg) /\ Held(pr2, ps2, fg) = Held(pr, ps, fg)
<1>0. /\ PacketCount \in Nat \ {0} /\ FragmentCount \in Nat \ {0}
      /\ pr \in Ring(PacketCount) /\ fr \in Ring(FragmentCount)
      /\ Behind(pr, PacketCount) \subseteq 0..(PacketCount - 1)
      /\ pr.end \in 0..(PacketCount - 1) /\ fr.end \in 0..(FragmentCount - 1)
  BY RingsHoldFacts, Zenon
<1>1. /\ Ordered(pr2, PacketCount)
      /\ Behind(pr, PacketCount) \subseteq Behind(pr2, PacketCount)
      /\ Window(pr.begin, pr.end, PacketCount) =
             Behind(pr2, PacketCount) \ Behind(pr, PacketCount)
  <2>1. /\ pr2 \in Ring(PacketCount) /\ pr2.taken = pr.taken /\ pr2.end = pr.end
        /\ pr2.begin = pr.end
    BY <1>0, IndexMoves DEF Ignored
  <2> QED BY <1>0, <2>1, BeginReachesEnd, Zenon DEF RingsHold
<1>2. /\ Ordered(fr2, FragmentCount)
      /\ Behind(fr, FragmentCount) \subseteq Behind(fr2, FragmentCount)
  <2>1. /\ fr2 \in Ring(FragmentCount) /\ fr2.taken = fr.taken /\ fr2.end = fr.end
        /\ fr2.begin = fr.end
    BY <1>0, IndexMoves DEF Ignored
  <2> QED BY <1>0, <2>1, BeginReachesEnd, Zenon DEF RingsHold
<1>3. \A i \in 0..(PacketCount - 1) :
          /\ ps2[i] \in [ignore : BOOLEAN, fragment : 0..(FragmentCount - 1)]
          /\ i \in Window(pr.begin, pr.end, PacketCount) => ps2[i].ignore
          /\ i \notin Window(pr.begin, pr.end, PacketCount) => ps2[i] = ps[i]
  <2>1. ASSUME NEW x \in [ignore : BOOLEAN, fragment : 0..(FragmentCount - 1)],
               NEW y, y = [x EXCEPT !.ignore = TRUE]
        PROVE  y \in [ignore : BOOLEAN, fragment : 0..(FragmentCount - 1)] /\ y.ignore
    BY <2>1, Zenon
  <2>2. ASSUME NEW i \in 0..(PacketCount - 1)
        PROVE  /\ ps[i] \in [ignore : BOOLEAN, fragment : 0..(FragmentCount - 1)]
               /\ ps2[i] = IF i \in Window(pr.begin, pr.end, PacketCount)
                           THEN [ps[i] EXCEPT !.ignore = TRUE] ELSE ps[i]
    BY Zenon DEF RingsHold, Ignored
  <2> QED BY <2>1, <2>2, Zenon
<1>4. ps2 \in [0..(PacketCount - 1) -> [ignore : BOOLEAN, fragment : 0..(FragmentCount - 1)]]
  BY <1>3, Zenon DEF Ignored
<1>5. Behind(pr2, PacketCount) \subseteq 0..(PacketCount - 1)
  BY Zenon DEF Behind, Window
<1>6. Shown(pr2, ps2) = Shown(pr, ps) /\ \A i \in Shown(pr, ps) : ps2[i] = ps[i]
  BY <1>0, <1>1, <1>3, <1>5, Zenon DEF Shown
<1>7. fg \in [0..(FragmentCount - 1) -> Frames \cup {Stale}]
  BY Zenon DEF RingsHold
<1>8. Keeps(pr, ps, fr, fg, pr2, ps2, fr2, fg)
  BY <1>1, <1>2, <1>4, <1>6, <1>7, Zenon DEF Keeps
<1> QED BY <1>8, SameIsHeld

(* NetAdapterCx provides a packet, at EndIndex, which is not returned.     *)
PacketProvided(pr, ps, pr2, ps2) ==
    /\ HasRoom(pr, PacketCount)
    /\ pr2 = [pr EXCEPT !.end = Increment(pr.end, PacketCount)]
    /\ ps2 = [ps EXCEPT ![pr.end] = UnusedPacket]

(* A fresh packet is behind no index the driver has returned.             *)
LEMMA ProvidePacketHolds ==
    ASSUME NEW pr, NEW ps, NEW fr, NEW fg, RingsHold(pr, ps, fr, fg),
           NEW pr2, NEW ps2, PacketProvided(pr, ps, pr2, ps2)
    PROVE  RingsHold(pr2, ps2, fr, fg) /\ Held(pr2, ps2, fg) = Held(pr, ps, fg)
<1>0. /\ PacketCount \in Nat \ {0} /\ FragmentCount \in Nat \ {0}
      /\ pr \in Ring(PacketCount) /\ pr.end \in 0..(PacketCount - 1)
      /\ Behind(pr, PacketCount) \subseteq 0..(PacketCount - 1)
  BY RingsHoldFacts, Zenon
<1>1. /\ Ordered(pr2, PacketCount) /\ pr.end \notin Behind(pr, PacketCount)
      /\ Behind(pr2, PacketCount) = Behind(pr, PacketCount)
  <2>1. Increment(pr.end, PacketCount) \in 0..(PacketCount - 1)
    BY <1>0, IncrementIsAhead, Zenon
  <2>2. /\ pr2 \in Ring(PacketCount) /\ pr2.taken = pr.taken /\ pr2.begin = pr.begin
        /\ pr2.end = Increment(pr.end, PacketCount)
    BY <1>0, <2>1, IndexMoves DEF PacketProvided
  <2>3. Ordered(pr, PacketCount) /\ Increment(pr.end, PacketCount) # pr.taken
    BY Zenon DEF RingsHold, HasRoom, PacketProvided
  <2> QED BY <1>0, <2>2, <2>3, EndMoves, Zenon
<1>2. UnusedPacket \in [ignore : BOOLEAN, fragment : 0..(FragmentCount - 1)]
  BY <1>0 DEF UnusedPacket
<1>3. /\ ps2 \in [0..(PacketCount - 1) -> [ignore : BOOLEAN, fragment : 0..(FragmentCount - 1)]]
      /\ \A i \in Behind(pr, PacketCount) : ps2[i] = ps[i]
  BY <1>0, <1>1, <1>2, Zenon DEF RingsHold, PacketProvided
<1>4. Shown(pr2, ps2) = Shown(pr, ps) /\ \A i \in Shown(pr, ps) : ps2[i] = ps[i]
  BY <1>1, <1>3, Zenon DEF Shown
<1>5. /\ fg \in [0..(FragmentCount - 1) -> Frames \cup {Stale}] /\ Ordered(fr, FragmentCount)
  BY Zenon DEF RingsHold
<1>6. Keeps(pr, ps, fr, fg, pr2, ps2, fr, fg)
  BY <1>1, <1>3, <1>4, <1>5, Zenon DEF Keeps
<1> QED BY <1>6, SameIsHeld

(* It provides a fragment, at EndIndex, which is not returned.             *)
FragmentProvided(fr, fg, fr2, fg2) ==
    /\ HasRoom(fr, FragmentCount)
    /\ fr2 = [fr EXCEPT !.end = Increment(fr.end, FragmentCount)]
    /\ fg2 = [fg EXCEPT ![fr.end] = Stale]

(* A fresh fragment is not one that an indicated packet refers to.         *)
LEMMA ProvideFragmentHolds ==
    ASSUME NEW pr, NEW ps, NEW fr, NEW fg, RingsHold(pr, ps, fr, fg),
           NEW fr2, NEW fg2, FragmentProvided(fr, fg, fr2, fg2)
    PROVE  RingsHold(pr, ps, fr2, fg2) /\ Held(pr, ps, fg2) = Held(pr, ps, fg)
<1>0. /\ FragmentCount \in Nat \ {0}
      /\ fr \in Ring(FragmentCount) /\ fr.end \in 0..(FragmentCount - 1)
      /\ Behind(fr, FragmentCount) \subseteq 0..(FragmentCount - 1)
  BY RingsHoldFacts, Zenon
<1>1. /\ Ordered(fr2, FragmentCount) /\ fr.end \notin Behind(fr, FragmentCount)
      /\ Behind(fr2, FragmentCount) = Behind(fr, FragmentCount)
  <2>1. Increment(fr.end, FragmentCount) \in 0..(FragmentCount - 1)
    BY <1>0, IncrementIsAhead, Zenon
  <2>2. /\ fr2 \in Ring(FragmentCount) /\ fr2.taken = fr.taken /\ fr2.begin = fr.begin
        /\ fr2.end = Increment(fr.end, FragmentCount)
    BY <1>0, <2>1, IndexMoves DEF FragmentProvided
  <2>3. Ordered(fr, FragmentCount) /\ Increment(fr.end, FragmentCount) # fr.taken
    BY Zenon DEF RingsHold, HasRoom, FragmentProvided
  <2> QED BY <1>0, <2>2, <2>3, EndMoves, Zenon
<1>2. /\ fg2 \in [0..(FragmentCount - 1) -> Frames \cup {Stale}]
      /\ \A k \in Behind(fr, FragmentCount) : fg2[k] = fg[k]
  BY <1>0, <1>1, Zenon DEF RingsHold, FragmentProvided
<1>3. /\ ps \in [0..(PacketCount - 1) -> [ignore : BOOLEAN, fragment : 0..(FragmentCount - 1)]]
      /\ Ordered(pr, PacketCount)
  BY Zenon DEF RingsHold
<1>4. Keeps(pr, ps, fr, fg, pr, ps, fr2, fg2)
  BY <1>1, <1>2, <1>3, Zenon DEF Keeps
<1> QED BY <1>4, SameIsHeld

(* NetAdapterCx takes the returned entries: nothing is held.               *)
Taken(pr, ps, fr, fg, pr2, ps2, fr2, fg2) ==
    /\ pr2 = [pr EXCEPT !.taken = pr.begin]
    /\ fr2 = [fr EXCEPT !.taken = fr.begin]
    /\ ps2 = [i \in 0..(PacketCount - 1) |->
                 IF i \in Window(pr.taken, pr.begin, PacketCount) THEN UnusedPacket ELSE ps[i]]
    /\ fg2 = [i \in 0..(FragmentCount - 1) |->
                 IF i \in Window(fr.taken, fr.begin, FragmentCount) THEN Stale ELSE fg[i]]

(* After NetAdapterCx has taken what was returned, nothing is held.        *)
LEMMA TakeHolds ==
    ASSUME NEW pr, NEW ps, NEW fr, NEW fg, RingsHold(pr, ps, fr, fg),
           NEW pr2, NEW ps2, NEW fr2, NEW fg2, Taken(pr, ps, fr, fg, pr2, ps2, fr2, fg2)
    PROVE  RingsHold(pr2, ps2, fr2, fg2) /\ Held(pr2, ps2, fg2) = {}
<1>0. /\ PacketCount \in Nat \ {0} /\ FragmentCount \in Nat \ {0}
      /\ pr \in Ring(PacketCount) /\ fr \in Ring(FragmentCount)
      /\ pr.begin \in 0..(PacketCount - 1) /\ fr.begin \in 0..(FragmentCount - 1)
  BY RingsHoldFacts, Zenon
<1>1. Ordered(pr2, PacketCount) /\ Behind(pr2, PacketCount) = {}
  <2>1. /\ pr2 \in Ring(PacketCount) /\ pr2.taken = pr.begin /\ pr2.begin = pr.begin
        /\ pr2.end = pr.end
    BY <1>0, IndexMoves DEF Taken
  <2> QED BY <1>0, <2>1, TakenCatchesUp, Zenon DEF RingsHold
<1>2. Ordered(fr2, FragmentCount)
  <2>1. /\ fr2 \in Ring(FragmentCount) /\ fr2.taken = fr.begin /\ fr2.begin = fr.begin
        /\ fr2.end = fr.end
    BY <1>0, IndexMoves DEF Taken
  <2> QED BY <1>0, <2>1, TakenCatchesUp, Zenon DEF RingsHold
<1>3. UnusedPacket \in [ignore : BOOLEAN, fragment : 0..(FragmentCount - 1)]
  BY <1>0 DEF UnusedPacket
<1>4. ps2 \in [0..(PacketCount - 1) -> [ignore : BOOLEAN, fragment : 0..(FragmentCount - 1)]]
  BY <1>3, Zenon DEF RingsHold, Taken
<1>5. fg2 \in [0..(FragmentCount - 1) -> Frames \cup {Stale}]
  BY Zenon DEF RingsHold, Taken
<1>6. Shown(pr2, ps2) = {}
  BY <1>1, Zenon DEF Shown
<1> QED BY <1>1, <1>2, <1>4, <1>5, <1>6, Zenon DEF RingsHold, Held

-----------------------------------------------------------------------------
(* A frame that is not queued goes to the end of the queue.                *)
LEMMA QueueGrows ==
    ASSUME NEW q \in Seq(Frames), IsInjective(q), NEW f \in Frames, f \notin Range(q)
    PROVE  /\ Append(q, f) \in Seq(Frames) /\ IsInjective(Append(q, f))
           /\ Range(Append(q, f)) = Range(q) \cup {f}
<1> DEFINE p == Append(q, f)
<1>1. /\ p \in Seq(Frames) /\ Len(p) = Len(q) + 1 /\ Len(q) \in Nat
      /\ DOMAIN p = 1..(Len(q) + 1) /\ DOMAIN q = 1..Len(q)
      /\ \A i \in 1..Len(q) : p[i] = q[i]
      /\ p[Len(q) + 1] = f
  OBVIOUS
<1>2. \A i \in 1..Len(q) : q[i] # f
  BY <1>1, Zenon DEF Range
<1> HIDE DEF p
<1>3. IsInjective(p)
  BY <1>1, <1>2 DEF IsInjective
<1>4. Range(p) = Range(q) \cup {f}
  BY <1>1 DEF Range
<1> QED BY <1>1, <1>3, <1>4, Zenon DEF p

(* The frame at the head leaves the queue.                                 *)
LEMMA QueueShrinks ==
    ASSUME NEW q \in Seq(Frames), IsInjective(q), q # <<>>
    PROVE  /\ Head(q) \in Range(q) /\ Head(q) \in Frames
           /\ Tail(q) \in Seq(Frames) /\ IsInjective(Tail(q))
           /\ Range(Tail(q)) = Range(q) \ {Head(q)}
<1> DEFINE p == Tail(q)
           f == Head(q)
<1>1. /\ p \in Seq(Frames) /\ Len(q) \in Nat /\ Len(q) >= 1
      /\ DOMAIN p = 1..(Len(q) - 1) /\ DOMAIN q = 1..Len(q)
      /\ \A i \in 1..(Len(q) - 1) : p[i] = q[i + 1]
      /\ f = q[1] /\ f \in Frames
  OBVIOUS
<1> HIDE DEF p, f
<1>2. f \in Range(q)
  BY <1>1 DEF Range
<1>3. IsInjective(p)
  <2>1. ASSUME NEW i \in DOMAIN p, NEW j \in DOMAIN p, p[i] = p[j] PROVE i = j
    <3>1. i + 1 \in DOMAIN q /\ j + 1 \in DOMAIN q /\ q[i + 1] = q[j + 1]
      BY <1>1, <2>1
    <3>2. i + 1 = j + 1
      BY <3>1, Zenon DEF IsInjective
    <3> QED BY <1>1, <3>2
  <2> QED BY <2>1, Zenon DEF IsInjective
<1>4. ASSUME NEW i \in DOMAIN q, i # 1
      PROVE  i - 1 \in DOMAIN p /\ p[i - 1] = q[i]
  BY <1>1, <1>4
<1>5. ASSUME NEW i \in DOMAIN p PROVE p[i] \in Range(q) /\ p[i] # f
  <2>1. i + 1 \in DOMAIN q /\ p[i] = q[i + 1] /\ 1 \in DOMAIN q /\ i + 1 # 1
    BY <1>1
  <2> QED BY <1>1, <2>1, Zenon DEF Range, IsInjective
<1>6. Range(p) = Range(q) \ {f}
  <2>1. \A i \in DOMAIN q : q[i] # f => q[i] \in Range(p)
    BY <1>1, <1>4, Zenon DEF Range
  <2> QED BY <1>5, <2>1, Zenon DEF Range
<1> QED BY <1>1, <1>2, <1>3, <1>6, Zenon DEF p, f

-----------------------------------------------------------------------------
(* Nothing is queued or held before the queue is started.                  *)
LEMMA PlaceInit ==
    ASSUME ReceiveInit
    PROVE  PlaceInv
<1>1. PacketCount \in Nat \ {0} /\ FragmentCount \in Nat \ {0}
  BY ReceiveAssumption, Zenon
<1>2. Ordered(packetRing, PacketCount) /\ Ordered(fragmentRing, FragmentCount)
  <2>1. ASSUME NEW n \in Nat \ {0}
        PROVE  Ordered([taken |-> 0, begin |-> 0, end |-> 0], n)
    BY DEF Ordered, Ring, Ahead
  <2> QED BY <1>1, <2>1, Zenon DEF ReceiveInit
<1>3. /\ packets \in [0..(PacketCount - 1) ->
                         [ignore : BOOLEAN, fragment : 0..(FragmentCount - 1)]]
      /\ fragments \in [0..(FragmentCount - 1) -> Frames \cup {Stale}]
  BY <1>1 DEF ReceiveInit, UnusedPacket
<1>4. Shown(packetRing, packets) = {}
  <2>1. Behind(packetRing, PacketCount) = {}
    BY <1>1 DEF ReceiveInit, Behind, Window
  <2> QED BY <2>1, Zenon DEF Shown
<1>5. RingsHold(packetRing, packets, fragmentRing, fragments)
  BY <1>2, <1>3, <1>4, Zenon DEF RingsHold
<1>6. Held(packetRing, packets, fragments) = {}
  BY <1>4, Zenon DEF Held
<1>7. queue = <<>> /\ hand = NoFrame /\ owed = {} /\ callback = "none"
  BY Zenon DEF ReceiveInit
<1>8. QueueInv /\ Range(queue) = {}
  BY <1>7 DEF QueueInv, IsInjective, Range
<1> QED BY <1>5, <1>6, <1>7, <1>8, Zenon DEF PlaceInv, HandInv, Shared

(* Most steps move no frame.                                               *)
Quiet == UNCHANGED <<rings, queue, hand, owed>> /\ (callback' = "fill" <=> callback = "fill")

(* A step that moves no frame keeps every frame in its place.              *)
LEMMA QuietPlace == PlaceInv /\ Quiet => PlaceInv'
BY Zenon DEF PlaceInv, Quiet, rings, HandInv, HasEntry, QueueInv, Shared

(* The steps of the write, of the notification and of NetAdapterCx that    *)
(* move no frame.                                                          *)
LEMMA QuietSteps ==
    \/ WriteEnter \/ WriteFails \/ WriteCheck \/ WriteTake \/ WriteNotify
    \/ CheckQueue \/ TakeNotification \/ CallbackNotify
    \/ Start \/ Advance \/ EnableNotification \/ Resume \/ Stop
    \/ CleanupRetire \/ CleanupClose \/ CleanupLock \/ CleanupReopen \/ CleanupReturn
    \/ UNCHANGED rxVars
    => Quiet
<1> USE DEF Quiet, rings
<1>1. WriteEnter \/ WriteFails \/ WriteCheck \/ WriteTake \/ WriteNotify => Quiet
  BY Zenon DEF WriteEnter, WriteFails, WriteCheck, WriteTake, WriteNotify, writeUnchanged
<1>2. CheckQueue \/ TakeNotification \/ CallbackNotify => Quiet
  BY Zenon DEF CheckQueue, TakeNotification, CallbackNotify, callbackUnchanged
<1>3. Start \/ EnableNotification \/ Resume \/ Stop => Quiet
  BY Zenon DEF Start, EnableNotification, Resume, Stop, callbackUnchanged
<1>4. Advance => Quiet
  BY Zenon DEF Advance
<1>5. CleanupRetire \/ CleanupClose \/ CleanupLock \/ CleanupReopen \/ CleanupReturn => Quiet
  BY Zenon DEF CleanupRetire, CleanupClose, CleanupLock, CleanupReopen, CleanupReturn,
         cleanupUnchanged
<1>6. UNCHANGED rxVars => Quiet
  BY Zenon DEF rxVars
<1> QED BY <1>1, <1>2, <1>3, <1>4, <1>5, <1>6, Zenon

(* A write accepts a frame that is not under way.                          *)
LEMMA EnqueuePlace == PlaceInv /\ WriteEnqueue => PlaceInv'
<1> SUFFICES ASSUME PlaceInv, WriteEnqueue PROVE PlaceInv'
  BY Zenon
<1>1. PICK f \in Frames \ owed : queue' = Append(queue, f) /\ owed' = owed \cup {f}
  BY Zenon DEF WriteEnqueue
<1>2. UNCHANGED <<packetRing, packets, fragmentRing, fragments, callback, hand>>
  BY Zenon DEF WriteEnqueue, writeUnchanged, rings
<1>3. f \notin Held(packetRing, packets, fragments) /\ f \notin Range(queue)
      /\ (hand # NoFrame => f # hand)
  BY <1>1, Zenon DEF PlaceInv, Shared
<1>4. QueueInv' /\ Range(queue') = Range(queue) \cup {f}
  BY <1>1, <1>3, QueueGrows, Zenon DEF PlaceInv, QueueInv
<1>5. Shared(Held(packetRing, packets, fragments), queue', hand, owed')
  BY <1>1, <1>3, <1>4, Zenon DEF PlaceInv, Shared
<1> QED BY <1>2, <1>4, <1>5, Zenon DEF PlaceInv, HandInv, HasEntry

(* The advance callback takes the head of the queue.                       *)
LEMMA DequeuePlace ==
    ASSUME PlaceInv, AdvanceDequeue
    PROVE  PlaceInv'
<1>1. UNCHANGED <<packetRing, packets, fragmentRing, fragments, owed>> /\ callback = "advance"
  BY Zenon DEF AdvanceDequeue, rings
<1>2. CASE ~(HasEntry /\ queue # <<>>)
  BY <1>1, <1>2, QuietPlace, Zenon DEF AdvanceDequeue, Quiet, rings, Return
<1>3. CASE HasEntry /\ queue # <<>>
  <2>1. hand' = Head(queue) /\ queue' = Tail(queue) /\ callback' = "fill"
    BY <1>3, Zenon DEF AdvanceDequeue
  <2>2. /\ Head(queue) \in Range(queue) /\ Head(queue) \in Frames
        /\ QueueInv' /\ Range(queue') = Range(queue) \ {Head(queue)}
    BY <1>3, <2>1, QueueShrinks, Zenon DEF PlaceInv, QueueInv
  <2>3. hand = NoFrame
    BY <1>1, Zenon DEF PlaceInv, HandInv
  <2>4. Shared(Held(packetRing, packets, fragments), queue', hand', owed)
    BY <2>1, <2>2, <2>3, ReceiveAssumption, Zenon DEF PlaceInv, Shared
  <2>5. HandInv'
    BY <1>1, <1>3, <2>1, <2>2, Zenon DEF HandInv, HasEntry
  <2> QED BY <1>1, <2>2, <2>4, <2>5, Zenon DEF PlaceInv
<1> QED BY <1>2, <1>3, Zenon

(* It copies the frame to the entry at the BeginIndexes.                   *)
LEMMA FillPlace ==
    ASSUME PlaceInv, AdvanceFill
    PROVE  PlaceInv'
<1>1. /\ Filled(packetRing, packets, fragmentRing, fragments, hand,
                packetRing', packets', fragmentRing', fragments')
      /\ callback = "fill" /\ callback' = "advance" /\ hand' = NoFrame
      /\ UNCHANGED <<queue, owed>>
  BY Zenon DEF AdvanceFill, Fill, Filled
<1>2. /\ hand \in Frames /\ hand # NoFrame
      /\ packetRing.begin # packetRing.end /\ fragmentRing.begin # fragmentRing.end
  BY <1>1, ReceiveAssumption, Zenon DEF PlaceInv, HandInv, HasEntry
<1>3. /\ hand \notin Held(packetRing, packets, fragments)
      /\ RingsHold(packetRing, packets, fragmentRing, fragments)
  BY <1>2, Zenon DEF PlaceInv, Shared
<1>4. /\ RingsHold(packetRing', packets', fragmentRing', fragments')
      /\ Held(packetRing', packets', fragments') =
             Held(packetRing, packets, fragments) \cup {hand}
  <2>1. Fillable(packetRing, packets, fragmentRing, fragments, hand)
    BY <1>2, <1>3, Zenon DEF Fillable
  <2>2. Filled(packetRing, packets, fragmentRing, fragments, hand,
               packetRing', packets', fragmentRing', fragments')
    BY <1>1, Zenon
  <2> QED BY <2>1, <2>2, FillHolds
<1>5. Shared(Held(packetRing', packets', fragments'), queue, NoFrame, owed)
  BY <1>2, <1>4, Zenon DEF PlaceInv, Shared
<1> QED BY <1>1, <1>4, <1>5, Zenon DEF PlaceInv, HandInv, QueueInv

(* It cannot use the entry: the frame goes back to the queue, or is given  *)
(* up.                                                                     *)
LEMMA FaultPlace ==
    ASSUME PlaceInv, AdvanceFault
    PROVE  PlaceInv'
<1>1. /\ UNCHANGED <<packetRing, packets, fragmentRing, fragments>>
      /\ callback = "fill" /\ callback' = "none" /\ hand' = NoFrame
      /\ \/ queue' = Append(queue, hand) /\ owed' = owed
         \/ owed' = owed \ {hand} /\ queue' = queue
  BY Zenon DEF AdvanceFault, Return, rings
<1>2. hand \in Frames /\ hand # NoFrame
  BY <1>1, ReceiveAssumption, Zenon DEF PlaceInv, HandInv
<1>3. hand \notin Held(packetRing, packets, fragments) /\ hand \notin Range(queue)
  BY <1>2, Zenon DEF PlaceInv, Shared
<1>4. QueueInv' /\ Shared(Held(packetRing, packets, fragments), queue', NoFrame, owed')
  <2>1. CASE queue' = Append(queue, hand) /\ owed' = owed
    <3>1. QueueInv' /\ Range(queue') = Range(queue) \cup {hand}
      BY <1>2, <1>3, <2>1, QueueGrows, Zenon DEF PlaceInv, QueueInv
    <3> QED BY <1>2, <1>3, <2>1, <3>1, Zenon DEF PlaceInv, Shared
  <2>2. CASE owed' = owed \ {hand} /\ queue' = queue
    BY <1>2, <1>3, <2>2, Zenon DEF PlaceInv, Shared, QueueInv
  <2> QED BY <1>1, <2>1, <2>2, Zenon
<1> QED BY <1>1, <1>4, Zenon DEF PlaceInv, HandInv

(* The steps that turn the rings while no callback runs.                   *)
LEMMA RingPlace ==
    ASSUME PlaceInv, callback # "fill", UNCHANGED <<queue, hand, callback, owed>>,
           RingsHold(packetRing', packets', fragmentRing', fragments'),
           Held(packetRing', packets', fragments') = Held(packetRing, packets, fragments)
    PROVE  PlaceInv'
BY Zenon DEF PlaceInv, HandInv, QueueInv

(* evt_packet_queue_cancel moves no frame.                                 *)
LEMMA CancelPlace ==
    ASSUME PlaceInv, Cancel
    PROVE  PlaceInv'
<1>1. /\ Ignored(packetRing, packets, fragmentRing, packetRing', packets', fragmentRing')
      /\ callback = "none" /\ UNCHANGED <<fragments, queue, hand, callback, owed>>
  BY Zenon DEF Cancel, ReturnIgnored, Ignored, callbackUnchanged
<1>2. RingsHold(packetRing, packets, fragmentRing, fragments)
  BY Zenon DEF PlaceInv
<1> QED BY <1>1, <1>2, CancelHolds, RingPlace

(* NetAdapterCx provides entries that hold no frame.                       *)
LEMMA ProvidePlace ==
    ASSUME PlaceInv, ProvidePacket \/ ProvideFragment
    PROVE  PlaceInv'
<1>1. RingsHold(packetRing, packets, fragmentRing, fragments)
  BY Zenon DEF PlaceInv
<1>2. CASE ProvidePacket
  <2>1. /\ callback = "none" /\ PacketProvided(packetRing, packets, packetRing', packets')
        /\ UNCHANGED <<fragmentRing, fragments, queue, hand, callback, owed>>
    BY <1>2, Zenon DEF ProvidePacket, PacketProvided, ringsUnchanged
  <2> QED BY <1>1, <2>1, ProvidePacketHolds, RingPlace
<1>3. CASE ProvideFragment
  <2>1. /\ callback = "none"
        /\ FragmentProvided(fragmentRing, fragments, fragmentRing', fragments')
        /\ UNCHANGED <<packetRing, packets, queue, hand, callback, owed>>
    BY <1>3, Zenon DEF ProvideFragment, FragmentProvided, ringsUnchanged
  <2> QED BY <1>1, <2>1, ProvideFragmentHolds, RingPlace
<1> QED BY <1>2, <1>3, Zenon

(* NetAdapterCx takes all it has been shown.                               *)
LEMMA TakePlace ==
    ASSUME PlaceInv, TakeEntries
    PROVE  PlaceInv'
<1>1. /\ Taken(packetRing, packets, fragmentRing, fragments,
               packetRing', packets', fragmentRing', fragments')
      /\ callback = "none" /\ UNCHANGED <<queue, hand, callback>>
      /\ owed' = owed \ Held(packetRing, packets, fragments)
  BY Zenon DEF TakeEntries, Taken, Returned, Indicated, Held, Shown, Behind, ringsUnchanged
<1>2. RingsHold(packetRing, packets, fragmentRing, fragments) /\ hand = NoFrame
  BY <1>1, Zenon DEF PlaceInv, HandInv
<1>3. /\ RingsHold(packetRing', packets', fragmentRing', fragments')
      /\ Held(packetRing', packets', fragments') = {}
  BY <1>1, <1>2, TakeHolds, Zenon
<1>4. Shared({}, queue, hand, owed')
  BY <1>1, <1>2, Zenon DEF PlaceInv, Shared
<1> QED BY <1>1, <1>2, <1>3, <1>4, Zenon DEF PlaceInv, HandInv, QueueInv

(* The cleanup gives up what is queued.                                    *)
LEMMA ClearPlace == PlaceInv /\ CleanupClear => PlaceInv'
<1> SUFFICES ASSUME PlaceInv, CleanupClear PROVE PlaceInv'
  BY Zenon
<1>1. /\ queue' = <<>> /\ owed' = owed \ Range(queue)
      /\ UNCHANGED <<packetRing, packets, fragmentRing, fragments, callback, hand>>
  BY Zenon DEF CleanupClear, cleanupUnchanged, rings
<1>2. QueueInv' /\ Range(queue') = {}
  BY <1>1 DEF QueueInv, IsInjective, Range
<1>3. Shared(Held(packetRing, packets, fragments), queue', hand, owed')
  BY <1>1, <1>2, Zenon DEF PlaceInv, Shared
<1> QED BY <1>1, <1>2, <1>3, Zenon DEF PlaceInv, HandInv, HasEntry

(* Every step keeps each accepted frame in one place.                      *)
LEMMA PlaceStep ==
    ASSUME PlaceInv, [ReceiveNext]_rxVars
    PROVE  PlaceInv'
<1>1. CASE WriteEnqueue \/ AdvanceDequeue \/ CleanupClear
  BY <1>1, EnqueuePlace, DequeuePlace, ClearPlace, Zenon
<1>2. CASE AdvanceFill \/ AdvanceFault \/ Cancel \/ TakeEntries
  BY <1>2, FillPlace, FaultPlace, CancelPlace, TakePlace, Zenon
<1>3. CASE ProvidePacket \/ ProvideFragment
  BY <1>3, ProvidePlace, Zenon
<1>4. CASE Quiet
  BY <1>4, QuietPlace, Zenon
<1> QED BY <1>1, <1>2, <1>3, <1>4, QuietSteps, Zenon DEF ReceiveNext, Writing, Running, Cleaning

(* A frame that a write has accepted is in one place - in the queue, in    *)
(* the hand of the advance callback, or in the fragment of one packet that *)
(* NetAdapterCx will indicate - whatever the sizes of the rings and        *)
(* wherever they wrap: increment_index never lets BeginIndex overtake      *)
(* EndIndex, a packet is indicated only after its fragment has been        *)
(* written, and evt_packet_queue_cancel marks what was not.                *)
THEOREM FramesHaveOnePlace == ReceiveSpec => []FrameHasOnePlace
<1>1. ReceiveInit => PlaceInv
  BY PlaceInit, Zenon
<1>2. PlaceInv /\ [ReceiveNext]_rxVars => PlaceInv'
  BY PlaceStep, Zenon
<1>3. PlaceInv => FrameHasOnePlace
  <2> SUFFICES ASSUME PlaceInv PROVE FrameHasOnePlace
    BY Zenon
  <2>1. Indicated = Shown(packetRing, packets)
    BY Zenon DEF Indicated, Returned, Shown, Behind
  <2>2. /\ IsInjective(queue)
        /\ \A i, j \in Shown(packetRing, packets) :
              fragments[packets[i].fragment] = fragments[packets[j].fragment] => i = j
    BY Zenon DEF PlaceInv, RingsHold, QueueInv
  <2>3. Underway = Held(packetRing, packets, fragments)
                       \cup (IF hand = NoFrame THEN {} ELSE {hand})
    BY <2>1, Zenon DEF Underway, Held
  <2>4. Underway \cap Range(queue) = {} /\ Underway \cup Range(queue) = owed
    BY <2>3, Zenon DEF PlaceInv, Shared
  <2>5. ASSUME NEW i \in Shown(packetRing, packets)
        PROVE  fragments[packets[i].fragment] # hand
    <3>1. fragments[packets[i].fragment] \in Held(packetRing, packets, fragments)
      BY Zenon DEF Held
    <3>2. fragments[packets[i].fragment] \in Frames \cup {Stale}
      <4>1. i \in 0..(PacketCount - 1)
        BY Zenon DEF Shown, Behind, Window
      <4> QED BY <4>1, Zenon DEF PlaceInv, RingsHold
    <3> QED BY <3>1, <3>2, ReceiveAssumption, Zenon DEF PlaceInv, Shared
  <2> QED BY <2>1, <2>2, <2>4, <2>5, Zenon DEF FrameHasOnePlace
<1> QED BY <1>1, <1>2, <1>3, PTL DEF ReceiveSpec
=============================================================================
