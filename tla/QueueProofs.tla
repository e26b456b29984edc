----------------------------- MODULE QueueProofs -----------------------------
(***************************************************************************)
(* The reads of the captured frames, and the queue that holds frames.      *)
(*                                                                         *)
(* ReadPath, for any finite set of reads and any limits: pending_reads     *)
(* covers the reads that wait (ReadPlaces, ReadCount), and a cleanup leaves*)
(* none (ReadCleanupInv).                                                  *)
(*                                                                         *)
(* FrameQueue, for every pool, every frame size and every limit: the ring  *)
(* never reads a slot without a frame and never overwrites one with a      *)
(* frame, every frame taken from the pool has one owner, a queue that is   *)
(* reported writable has room, and the ring implements the first-in        *)
(* first-out queue FrameFifo.  The argument has two parts.  Position of a  *)
(* slot counts from the head; the window is the slots whose position is    *)
(* below the length, enqueue fills the slot at position length and dequeue *)
(* empties the one at position 0 (RingInv).  The byte count is the sum     *)
(* over the queued frames, each of which from_bytes has found no larger    *)
(* than the instance allows (BytesInv).  What the sum over a queue becomes *)
(* when the queue changes is proved by induction on its length.            *)
(***************************************************************************)
EXTENDS ReadPath, FrameQueue, TLAPS

INSTANCE FiniteSetTheorems

(* A read is in one place at most: on the manual queue or with one of the  *)
(* three threads, and a thread has one exactly when its control says so.   *)
ReadPlaces ==
    /\ readQueue \subseteq Reads
    /\ {readerRead, txRead, workerRead} \subseteq Reads \cup {NoRead}
    /\ readerRead = NoRead <=> reader = "idle"
    /\ txRead = NoRead <=> tx # "copy"
    /\ workerRead = NoRead <=> worker \notin {"dequeue", "forward", "deliver", "requeue"}
    /\ {readerRead, txRead, workerRead} \cap readQueue = {}
    /\ readerRead # NoRead => readerRead # txRead /\ readerRead # workerRead
    /\ txRead # NoRead => txRead # workerRead

ReadCount ==
    /\ pendingReads \in Nat
    /\ PendingReadsCoverReads

(* What cleanup has achieved at each of its stages.                        *)
ReadCleanupInv ==
    /\ cleanup \in {"idle", "close", "drain", "flush", "purge", "clear", "closed"}
    /\ cleanup \in {"flush", "purge", "clear", "closed"} =>
           reader = "idle" /\ tx = "idle" /\ worker \in {"idle", "loop"} /\ enable = "idle"
    /\ cleanup \in {"purge", "clear", "closed"} => worker = "idle" /\ ~scheduled
    /\ cleanup = "clear" /\ ~adaptive => readQueue = {}

-----------------------------------------------------------------------------
(* Fewer reads wait.                                                       *)
LEMMA CountShrinks ==
    ASSUME NEW W, NEW V, NEW p \in Nat, IsFiniteSet(W), Cardinality(W) <= p, V \subseteq W
    PROVE  Cardinality(V) <= p
<1>1. IsFiniteSet(V) /\ Cardinality(V) <= Cardinality(W)
    BY FS_Subset, Zenon
<1>2. Cardinality(V) \in Nat /\ Cardinality(W) \in Nat
    BY <1>1, FS_CardinalityType, Zenon
<1> QED
    BY <1>1, <1>2

(* One more read waits, and is counted.                                    *)
LEMMA CountGrows ==
    ASSUME NEW W, NEW V, NEW r, NEW p \in Nat, IsFiniteSet(W), Cardinality(W) <= p,
           V \subseteq W \cup {r}
    PROVE  Cardinality(V) <= p + 1
<1>1. /\ IsFiniteSet(W \cup {r})
      /\ Cardinality(W \cup {r}) = Cardinality(W) \/ Cardinality(W \cup {r}) = Cardinality(W) + 1
    BY FS_AddElement, Zenon
<1>2. Cardinality(W) \in Nat
    BY FS_CardinalityType, Zenon
<1>3. Cardinality(W \cup {r}) <= p + 1
    BY <1>1, <1>2
<1> QED
    BY <1>1, <1>3, CountShrinks

(* One read less waits, and the count goes down.                           *)
LEMMA CountReleases ==
    ASSUME NEW W, NEW V, NEW r \in W, NEW p \in Nat, IsFiniteSet(W), Cardinality(W) <= p,
           V \subseteq W \ {r}
    PROVE  Cardinality(V) <= (IF p = 0 THEN 0 ELSE p - 1)
<1>1. IsFiniteSet(W \ {r}) /\ Cardinality(W \ {r}) = Cardinality(W) - 1
    BY FS_RemoveElement, Zenon
<1>2. Cardinality(W) \in Nat /\ Cardinality(W \ {r}) \in Nat
    BY <1>1, FS_CardinalityType, Zenon
<1>3. p # 0 /\ p - 1 \in Nat /\ Cardinality(W \ {r}) <= p - 1
    BY <1>1, <1>2
<1>4. Cardinality(V) <= p - 1
    BY <1>1, <1>3, CountShrinks, Zenon
<1> QED
    BY <1>3, <1>4, Zenon

(* ReadPath counts with the same Cardinality.                              *)
LEMMA ReadPathCounts ==
    \A S : IsFiniteSet(S) = IsFiniteSet(S) /\ Cardinality(S) = Cardinality(S)
<1>1. ASSUME NEW S PROVE IsFiniteSet(S) = IsFiniteSet(S)
    BY Zenon DEF IsFiniteSet, IsFiniteSet
<1>2. ASSUME NEW S PROVE Cardinality(S) = Cardinality(S)
    BY Zenon DEF Cardinality, Cardinality, IsFiniteSet, IsFiniteSet
<1> QED BY <1>1, <1>2, Zenon

(* Only finitely many reads wait.                                          *)
LEMMA WaitingIsFinite ==
    ASSUME ReadPlaces
    PROVE  IsFiniteSet(Waiting)
<1>1. Waiting \subseteq Reads
    BY Zenon DEF Waiting, ReadPlaces
<1>2. IsFiniteSet(Reads)
    BY ReadPathCounts, ReadAssumption, Zenon
<1> QED
    BY <1>1, <1>2, FS_Subset, Zenon

-----------------------------------------------------------------------------
(* Every step hands a read from one place to the next.                     *)
LEMMA ReadPlacesStep ==
    ASSUME ReadPlaces, [Next]_vars
    PROVE  ReadPlaces'
<1> USE ReadAssumption DEF ReadPlaces
<1>1. CASE ReadEnter
    BY <1>1, Zenon DEF ReadEnter, Idle, readUnchanged, txVars, workerVars
<1>2. CASE Reading
    BY <1>2, Zenon DEF Reading, ReadMode, ReadPoll, ReadAdmit, ReadDequeue,
                ReadForward, ReadDeliver, ReadRequeue, ReadReturns, readUnchanged,
                txVars, workerVars
<1>3. CASE CancelQueuedRead
    BY <1>3, Zenon DEF CancelQueuedRead, readUnchanged, readerVars, txVars, workerVars
<1>4. CASE EnableCheck \/ EnableStore
    BY <1>4, Zenon DEF EnableCheck, EnableStore, enableUnchanged, readerVars, txVars,
                workerVars
<1>5. CASE TxAdvance
    BY <1>5, Zenon DEF TxAdvance, txUnchanged, readerVars, workerVars
<1>6. CASE Transmitting
    BY <1>6, Zenon DEF Transmitting, TxPacket, TxLock, TxRetrieve, TxCopy, TxFrame,
                TxEnqueue, TxReturn, txUnchanged, readerVars, workerVars
<1>7. CASE Working
    BY <1>7, Zenon DEF Working, WorkerRuns, WorkerLoop, WorkerRetrieve, WorkerDequeue,
                WorkerForward, WorkerDeliver, WorkerRequeue, WorkerReturns,
                workerUnchanged, readerVars, txVars
<1>8. CASE CleanupRetire \/ Cleaning
    BY <1>8, Zenon DEF CleanupRetire, Cleaning, CleanupClose, CleanupDrain, CleanupFlush,
                CleanupPurge, CleanupClear, cleanupUnchanged, readerVars, txVars,
                workerVars
<1>9. CASE ClaimedWait \/ UNCHANGED vars
    BY <1>9, Zenon DEF ClaimedWait, vars, workerUnchanged, readerVars, txVars,
                workerVars
<1> QED
    BY <1>1, <1>2, <1>3, <1>4, <1>5, <1>6, <1>7, <1>8, <1>9 DEF Next

(* Every step counts a read before it waits and releases it once.          *)
LEMMA ReadCountStep ==
    ASSUME ReadPlaces, ReadCount, [Next]_vars
    PROVE  ReadCount'
<1> DEFINE Kept == Waiting' \subseteq Waiting /\ pendingReads' = pendingReads
           Left == \E r \in Waiting :
                       Waiting' \subseteq Waiting \ {r} /\ pendingReads' = Released
           Came == \E r \in Reads :
                       Waiting' \subseteq Waiting \cup {r} /\ pendingReads' = pendingReads + 1
<1>1. ASSUME Kept \/ Left \/ Came, cleanup' # "closed" => cleanup # "closed" PROVE ReadCount'
  <2>1. IsFiniteSet(Waiting) /\ pendingReads \in Nat
      BY WaitingIsFinite, Zenon DEF ReadCount
  <2>2. pendingReads' \in Nat
      BY <1>1, <2>1 DEF Released
  <2>3. ASSUME cleanup # "closed" PROVE Cardinality(Waiting') <= pendingReads'
    <3>1. Cardinality(Waiting) <= pendingReads
        BY <2>3, ReadPathCounts, Zenon DEF ReadCount, PendingReadsCoverReads
    <3>2. CASE Kept
        BY <2>1, <3>1, <3>2, CountShrinks, Zenon
    <3>3. CASE Left
        BY <2>1, <3>1, <3>3, CountReleases DEF Released
    <3>4. CASE Came
      <4>1. PICK r \in Reads : /\ Waiting' \subseteq Waiting \cup {r}
                               /\ pendingReads' = pendingReads + 1
          BY <3>4, Zenon
      <4> QED
          BY <2>1, <3>1, <4>1, CountGrows, Zenon
    <3> QED
        BY <1>1, <3>2, <3>3, <3>4, Zenon
  <2> QED
      BY <1>1, <2>2, <2>3, ReadPathCounts, Zenon DEF ReadCount, PendingReadsCoverReads
<1>2. ASSUME UNCHANGED <<readQueue, readerVars, workerVars, pendingReads, cleanup>>
      PROVE  ReadCount'
    BY <1>1, <1>2, Zenon DEF Waiting, readerVars, workerVars
<1>3. CASE ReadEnter
    BY <1>1, <1>3, Zenon DEF ReadEnter, Waiting, readUnchanged, control, workerVars
<1>4. CASE Reading
  <2>1. CASE ReadMode \/ ReadPoll \/ ReadDeliver \/ ReadRequeue
      BY <1>1, <2>1, Zenon DEF ReadMode, ReadPoll, ReadDeliver, ReadRequeue, ReadReturns,
                        Waiting, readUnchanged, control, workerVars
  <2>2. CASE ReadAdmit
      BY <1>1, <2>2, Zenon DEF ReadAdmit, ReadReturns, Waiting, ReadPlaces, readUnchanged,
                        control, workerVars
  <2>3. CASE ReadDequeue
      BY <1>1, <2>3, Zenon DEF ReadDequeue, Waiting, ReadPlaces, readUnchanged, control,
                        workerVars
  <2>4. CASE ReadForward
      BY <1>1, <2>4, Zenon DEF ReadForward, ReadReturns, Waiting, ReadPlaces, readUnchanged,
                        control, workerVars
  <2> QED
      BY <1>4, <2>1, <2>2, <2>3, <2>4, Zenon DEF Reading
<1>5. CASE CancelQueuedRead
    BY <1>1, <1>5, Zenon DEF CancelQueuedRead, Waiting, readUnchanged, control,
                      readerVars, workerVars
<1>6. CASE EnableCheck \/ EnableStore
    BY <1>2, <1>6, Zenon DEF EnableCheck, EnableStore, enableUnchanged
<1>7. CASE TxAdvance
    BY <1>2, <1>7, Zenon DEF TxAdvance, txUnchanged, control
<1>8. CASE Transmitting
  <2>1. CASE TxRetrieve
      BY <1>1, <2>1 DEF TxRetrieve, Waiting, ReadPlaces, txUnchanged, control,
                        readerVars, workerVars
  <2>2. CASE ~TxRetrieve
      BY <1>2, <1>8, <2>2, Zenon DEF Transmitting, TxPacket, TxLock, TxCopy, TxFrame,
                              TxEnqueue, TxReturn, txUnchanged, control
  <2> QED
      BY <2>1, <2>2, Zenon
<1>9. CASE Working
  <2>1. CASE WorkerRuns \/ WorkerLoop \/ WorkerDeliver \/ WorkerRequeue
      BY <1>1, <2>1, Zenon DEF WorkerRuns, WorkerLoop, WorkerDeliver, WorkerRequeue,
                        Waiting, workerUnchanged, control, readerVars
  <2>2. CASE WorkerRetrieve
      BY <1>1, <2>2, Zenon DEF WorkerRetrieve, WorkerReturns, Waiting, workerUnchanged,
                        control, readerVars
  <2>3. CASE WorkerDequeue
      BY <1>1, <2>3 DEF WorkerDequeue, Waiting, ReadPlaces, workerUnchanged, control,
                        readerVars
  <2>4. CASE WorkerForward
      BY <1>1, <2>4 DEF WorkerForward, WorkerReturns, Waiting, ReadPlaces,
                        workerUnchanged, control, readerVars
  <2> QED
      BY <1>9, <2>1, <2>2, <2>3, <2>4, Zenon DEF Working
<1>10. CASE CleanupRetire \/ Cleaning
  <2>1. CASE CleanupClear
      BY <2>1, Zenon DEF CleanupClear, ReadCount, PendingReadsCoverReads
  <2>2. CASE CleanupPurge
      BY <1>1, <2>2, Zenon DEF CleanupPurge, Waiting, cleanupUnchanged, readerVars,
                        workerVars
  <2>3. CASE CleanupRetire \/ CleanupClose \/ CleanupDrain \/ CleanupFlush
      BY <1>1, <2>3, Zenon DEF CleanupRetire, CleanupClose, CleanupDrain, CleanupFlush,
                        Waiting, cleanupUnchanged, readerVars, workerVars
  <2> QED
      BY <1>10, <2>1, <2>2, <2>3, Zenon DEF Cleaning
<1>11. CASE ClaimedWait \/ UNCHANGED vars
    BY <1>2, <1>11, Zenon DEF ClaimedWait, vars, workerUnchanged, control
<1> QED
    BY <1>3, <1>4, <1>5, <1>6, <1>7, <1>8, <1>9, <1>10, <1>11, Zenon DEF Next

(* No thread that a stage of the cleanup has stopped comes back.           *)
LEMMA ReadCleanupStep ==
    ASSUME ReadCleanupInv, [Next]_vars
    PROVE  ReadCleanupInv'
<1> USE DEF ReadCleanupInv
<1>1. CASE ReadEnter \/ TxAdvance \/ EnableCheck
    BY <1>1, Zenon DEF ReadEnter, TxAdvance, EnableCheck, IsOpen, readUnchanged,
                txUnchanged, enableUnchanged, control, readerVars, txVars,
                workerVars
<1>2. CASE Reading
    BY <1>2, Zenon DEF Reading, ReadMode, ReadPoll, ReadAdmit, ReadDequeue,
                ReadForward, ReadDeliver, ReadRequeue, readUnchanged, control,
                txVars, workerVars
<1>3. CASE CancelQueuedRead
    BY <1>3, Zenon DEF CancelQueuedRead, readUnchanged, control, readerVars, txVars,
                workerVars
<1>4. CASE EnableStore
    BY <1>4, Zenon DEF EnableStore, enableUnchanged, readerVars, txVars, workerVars
<1>5. CASE Transmitting
    BY <1>5, Zenon DEF Transmitting, TxPacket, TxLock, TxRetrieve, TxCopy, TxFrame,
                TxEnqueue, TxReturn, txUnchanged, control, readerVars,
                workerVars
<1>6. CASE Working
  <2> USE DEF IsOpen, workerUnchanged, control, readerVars, txVars
  <2>1. CASE WorkerRuns \/ WorkerLoop \/ WorkerRetrieve
      BY <2>1, Zenon DEF WorkerRuns, WorkerLoop, WorkerRetrieve
  <2>2. CASE WorkerDequeue \/ WorkerForward
      BY <2>2, Zenon DEF WorkerDequeue, WorkerForward
  <2>3. CASE WorkerDeliver \/ WorkerRequeue
      BY <2>3, Zenon DEF WorkerDeliver, WorkerRequeue
  <2> QED BY <1>6, <2>1, <2>2, <2>3, Zenon DEF Working
<1>7. CASE CleanupRetire \/ Cleaning
  <2> USE DEF cleanupUnchanged, readerVars, txVars, workerVars
  <2>1. CASE CleanupRetire \/ CleanupClose
      BY <2>1, Zenon DEF CleanupRetire, CleanupClose
  <2>2. CASE CleanupDrain
      BY <2>2, Zenon DEF CleanupDrain
  <2>3. CASE CleanupFlush \/ CleanupPurge
      BY <2>3 DEF CleanupFlush, CleanupPurge
  <2>4. CASE CleanupClear
      BY <2>4, Zenon DEF CleanupClear
  <2> QED BY <1>7, <2>1, <2>2, <2>3, <2>4, Zenon DEF Cleaning
<1>8. CASE ClaimedWait \/ UNCHANGED vars
    BY <1>8 DEF ClaimedWait, vars, workerUnchanged, control, readerVars, txVars,
                workerVars
<1> QED
    BY <1>1, <1>2, <1>3, <1>4, <1>5, <1>6, <1>7, <1>8, Zenon DEF Next

-----------------------------------------------------------------------------
(* No read waits when the handle is opened.                                *)
LEMMA ReadInit == Init => ReadPlaces /\ ReadCount /\ ReadCleanupInv
<1> SUFFICES ASSUME Init PROVE ReadPlaces /\ ReadCount /\ ReadCleanupInv
    BY Zenon
<1>1. ReadPlaces /\ ReadCleanupInv
    BY ReadAssumption, Zenon DEF Init, ReadPlaces, ReadCleanupInv
<1>2. Waiting = {} /\ pendingReads = 0
    BY Zenon DEF Init, Waiting
<1>3. Cardinality(Waiting) <= pendingReads
    BY <1>2, FS_EmptySet
<1> QED
    BY <1>1, <1>2, <1>3, ReadPathCounts, Zenon DEF ReadCount, PendingReadsCoverReads

(* pending_reads never undercounts the reads that wait for a frame,        *)
(* whatever evt_io_read, direct delivery, the work item, cancellations and *)
(* the cleanup of the handle do to each other: each admission is counted   *)
(* before the read can wait, and released by the one thread that takes the *)
(* read from its place.                                                    *)
THEOREM CountCoversReads == Spec => []PendingReadsCoverReads
<1>1. Init => ReadPlaces /\ ReadCount
    BY ReadInit, Zenon
<1>2. ReadPlaces /\ ReadCount /\ [Next]_vars => ReadPlaces' /\ ReadCount'
    BY ReadPlacesStep, ReadCountStep, Zenon
<1>3. ReadCount => PendingReadsCoverReads
    BY Zenon DEF ReadCount
<1> QED
    BY <1>1, <1>2, <1>3, PTL DEF Spec

(* When evt_file_cleanup clears the queues of a legacy owner, every read   *)
(* of the handle has been completed: the drain of the leases comes before  *)
(* the flush of the work item and the flush before the purge, so no thread *)
(* can put a read back behind the purge.                                   *)
THEOREM CleanupLeavesNoRead == Spec => []CleanupCompletesReads
<1>1. Init => ReadPlaces /\ ReadCleanupInv
    BY ReadInit, Zenon
<1>2. ReadPlaces /\ ReadCleanupInv /\ [Next]_vars => ReadPlaces' /\ ReadCleanupInv'
    BY ReadPlacesStep, ReadCleanupStep, Zenon
<1>3. ReadPlaces /\ ReadCleanupInv => CleanupCompletesReads
    BY ReadAssumption, Zenon DEF ReadPlaces, ReadCleanupInv, CleanupCompletesReads, Idle
<1> QED
    BY <1>1, <1>2, <1>3, PTL DEF Spec

-----------------------------------------------------------------------------
(* How far a slot is from the head.                                        *)
Position(k, h) == IF k >= h THEN k - h ELSE k + Limit - h

(* The frames of a window, for any head and any length.                     *)
WindowOf(h, l) == {(h + i) % Limit : i \in 0..(l - 1)}

RingTypes ==
    /\ frames \in [Slots -> Frames \cup {Uninit}]
    /\ head \in Slots
    /\ length \in 0..Limit
    /\ allocated \subseteq Frames
    /\ outside \subseteq allocated

(* WindowIsInitialised and EveryFrameHasOneOwner are inductive together:   *)
(* enqueue must not overwrite a frame, and only the frames that the code   *)
(* outside owns may be enqueued.                                           *)
RingInv == RingTypes /\ WindowIsInitialised /\ EveryFrameHasOneOwner

(* The index arithmetic of enqueue and dequeue: at most one wrap.          *)
LEMMA Wrap ==
    ASSUME NEW h \in Slots, NEW i \in 0..Limit
    PROVE  /\ (h + i) % Limit = IF h + i < Limit THEN h + i ELSE h + i - Limit
           /\ (h + i) % Limit \in Slots
<1>0. Limit \in Nat /\ Limit > 0 /\ h \in Nat /\ i \in Nat /\ h < Limit /\ i <= Limit
    BY LimitAssumption DEF Slots
<1>1. CASE h + i < Limit
    BY <1>0, <1>1 DEF Slots
<1>2. CASE h + i >= Limit
  <2>1. (h + i) % Limit = h + i - Limit
      BY <1>0, <1>2
  <2> QED BY <1>0, <1>2, <2>1 DEF Slots
<1> QED BY <1>0, <1>1, <1>2

(* Positions are natural numbers below the limit.                          *)
LEMMA PositionType ==
    \A h, k \in Slots : Position(k, h) \in Nat /\ Position(k, h) < Limit
BY LimitAssumption DEF Slots, Position

(* A slot lies in the window exactly when its position is below length.    *)
LEMMA WindowByPosition ==
    ASSUME NEW h \in Slots, NEW l \in 0..Limit
    PROVE  /\ WindowOf(h, l) \subseteq Slots
           /\ \A k \in Slots : k \in WindowOf(h, l) <=> Position(k, h) < l
<1>0. Limit \in Nat /\ Limit > 0 /\ h \in 0..(Limit - 1) /\ l \in 0..Limit
    BY LimitAssumption DEF Slots
<1>1. WindowOf(h, l) \subseteq Slots
  <2> SUFFICES ASSUME NEW i \in 0..(l - 1) PROVE (h + i) % Limit \in Slots
      BY Zenon DEF WindowOf
  <2>1. i \in 0..Limit
      BY <1>0
  <2> QED BY <2>1, Wrap, Zenon
<1>2. ASSUME NEW k \in Slots, k \in WindowOf(h, l) PROVE Position(k, h) < l
  <2>1. PICK i \in 0..(l - 1) : k = (h + i) % Limit
      BY <1>2, Zenon DEF WindowOf
  <2>2. i \in 0..Limit /\ i < l
      BY <1>0
  <2>3. k = IF h + i < Limit THEN h + i ELSE h + i - Limit
      BY <2>1, <2>2, Wrap, Zenon
  <2> QED BY <1>0, <2>2, <2>3 DEF Position
<1>3. ASSUME NEW k \in Slots, Position(k, h) < l PROVE k \in WindowOf(h, l)
  <2>1. Position(k, h) \in 0..(l - 1) /\ Position(k, h) \in 0..Limit
      BY <1>0, <1>3, PositionType
  <2>2. h + Position(k, h) = k \/ h + Position(k, h) = k + Limit
      BY <1>0 DEF Position, Slots
  <2>3. (h + Position(k, h)) % Limit = k
      BY <1>0, <2>1, <2>2, Wrap DEF Slots
  <2> QED BY <2>1, <2>3, Zenon DEF WindowOf
<1> QED BY <1>1, <1>2, <1>3, Zenon

(* enqueue fills the one slot that the window gains.                       *)
LEMMA EnqueueWindow ==
    ASSUME NEW h \in Slots, NEW l \in 0..Limit, l < Limit
    PROVE  /\ (h + l) % Limit \in Slots
           /\ (h + l) % Limit \notin WindowOf(h, l)
           /\ WindowOf(h, l + 1) = WindowOf(h, l) \cup {(h + l) % Limit}
<1>0. Limit \in Nat /\ Limit > 0 /\ h \in 0..(Limit - 1) /\ l \in 0..(Limit - 1)
      /\ l + 1 \in 0..Limit
    BY LimitAssumption DEF Slots
<1>1. PICK e \in Slots : e = (h + l) % Limit
    BY Wrap, Zenon
<1>2. e = IF h + l < Limit THEN h + l ELSE h + l - Limit
    BY <1>1, Wrap, Zenon
<1>3. \A k \in Slots : Position(k, h) = l <=> k = e
    BY <1>0, <1>2 DEF Position, Slots
<1>4. \A k \in Slots : Position(k, h) \in Nat
    BY PositionType, Zenon
<1>5. /\ WindowOf(h, l) \subseteq Slots /\ WindowOf(h, l + 1) \subseteq Slots
      /\ \A k \in Slots : k \in WindowOf(h, l) <=> Position(k, h) < l
      /\ \A k \in Slots : k \in WindowOf(h, l + 1) <=> Position(k, h) < l + 1
    BY <1>0, WindowByPosition, Zenon
<1>6. \A k \in Slots : k \in WindowOf(h, l + 1) <=> k \in WindowOf(h, l) \/ k = e
    BY <1>0, <1>3, <1>4, <1>5
<1>7. e \notin WindowOf(h, l)
    BY <1>0, <1>3, <1>5
<1> QED BY <1>1, <1>5, <1>6, <1>7, Zenon

(* dequeue empties the one slot that the window loses.                     *)
LEMMA DequeueWindow ==
    ASSUME NEW h \in Slots, NEW l \in 0..Limit, l > 0
    PROVE  /\ h \in WindowOf(h, l)
           /\ (h + 1) % Limit \in Slots
           /\ WindowOf((h + 1) % Limit, l - 1) = WindowOf(h, l) \ {h}
<1>0. Limit \in Nat /\ Limit > 0 /\ h \in 0..(Limit - 1) /\ l \in 1..Limit
      /\ l - 1 \in 0..Limit /\ 1 \in 0..Limit
    BY LimitAssumption DEF Slots
<1>1. PICK n \in Slots : n = (h + 1) % Limit
    BY <1>0, Wrap, Zenon
<1>2. n = IF h + 1 < Limit THEN h + 1 ELSE h + 1 - Limit
    BY <1>0, <1>1, Wrap, Zenon
<1>3. Position(h, h) = 0 /\ Position(h, n) = Limit - 1
    BY <1>0, <1>2 DEF Position, Slots
<1>4. \A k \in Slots : k # h => Position(k, n) = Position(k, h) - 1
    BY <1>0, <1>2 DEF Position, Slots
<1>5. \A k \in Slots : Position(k, h) \in Nat
    BY PositionType, Zenon
<1>6. /\ WindowOf(h, l) \subseteq Slots /\ WindowOf(n, l - 1) \subseteq Slots
      /\ \A k \in Slots : k \in WindowOf(h, l) <=> Position(k, h) < l
      /\ \A k \in Slots : k \in WindowOf(n, l - 1) <=> Position(k, n) < l - 1
    BY <1>0, WindowByPosition, Zenon
<1>7. \A k \in Slots : k \in WindowOf(n, l - 1) <=> k \in WindowOf(h, l) /\ k # h
    BY <1>0, <1>3, <1>4, <1>5, <1>6
<1>8. h \in WindowOf(h, l)
    BY <1>0, <1>3, <1>6, Zenon
<1> QED BY <1>1, <1>6, <1>7, <1>8, Zenon

(* close and reopen leave an empty window behind.                          *)
LEMMA EmptyWindow == \A h : WindowOf(h, 0) = {}
BY DEF WindowOf

(* Window is WindowOf the current head and length.                         *)
LEMMA WindowFacts == Window = WindowOf(head, length) /\ Window' = WindowOf(head', length')
BY Zenon DEF Window, WindowOf

-----------------------------------------------------------------------------
(* FrameQueue::try_new: every slot is uninitialised and nothing is queued. *)
LEMMA InitRing ==
    QueueInit => RingInv
<1> SUFFICES ASSUME QueueInit PROVE RingInv
    BY Zenon
<1>1. RingTypes
    BY LimitAssumption DEF QueueInit, RingTypes, Slots
<1>2. Window = {}
    BY EmptyWindow, WindowFacts, Zenon DEF QueueInit
<1> QED
    BY <1>1, <1>2, FrameAssumption, Zenon DEF QueueInit, RingInv, WindowIsInitialised, EveryFrameHasOneOwner

(* enqueue stores the frame in the slot the window gains, or drops it.     *)
LEMMA EnqueueRing ==
    ASSUME RingInv, NEW f \in Frames, Enqueue(f)
    PROVE  RingInv'
<1>0. /\ RingTypes /\ WindowIsInitialised /\ EveryFrameHasOneOwner
      /\ f \in outside /\ head' = head
    BY Zenon DEF RingInv, Enqueue
<1>1. CASE CheckCapacity(Size[f]) = "ok"
  <2>1. /\ length < Limit
        /\ frames' = [frames EXCEPT ![(head + length) % Limit] = f]
        /\ length' = length + 1 /\ outside' = outside \ {f} /\ allocated' = allocated
      BY <1>1, LimitAssumption DEF Enqueue, CheckCapacity, RingInv, RingTypes
  <2>2. PICK e : e = (head + length) % Limit
      BY Zenon
  <2>3. /\ e \in Slots /\ e \notin Window
        /\ Window' = Window \cup {e} /\ Window \subseteq Slots
      BY <1>0, <2>1, <2>2, EnqueueWindow, WindowByPosition, WindowFacts, Zenon DEF RingTypes
  <2>4. RingTypes'
      BY <1>0, <2>1, <2>2, <2>3, LimitAssumption DEF RingTypes
  <2>5. /\ frames'[e] = f /\ f # Uninit
        /\ \A k \in Slots : k # e => frames'[k] = frames[k]
      BY <1>0, <2>1, <2>2, <2>3, FrameAssumption, Zenon DEF RingTypes
  <2>6. WindowIsInitialised'
      BY <1>0, <2>3, <2>5, Zenon DEF WindowIsInitialised
  <2>7. EveryFrameHasOneOwner'
      BY <1>0, <2>1, <2>3, <2>5 DEF EveryFrameHasOneOwner
  <2> QED BY <2>4, <2>6, <2>7, Zenon DEF RingInv
<1>2. CASE CheckCapacity(Size[f]) # "ok"
  <2>1. /\ UNCHANGED <<frames, length>>
        /\ outside' = outside \ {f} /\ allocated' = allocated \ {f}
      BY <1>2, Zenon DEF Enqueue
  <2>2. Window' = Window
      BY <1>0, <2>1, WindowFacts, Zenon
  <2> QED BY <1>0, <2>1, <2>2 DEF RingInv, RingTypes, WindowIsInitialised,
                                  EveryFrameHasOneOwner
<1> QED BY <1>1, <1>2, Zenon

(* dequeue moves the frame out of the slot the window loses.               *)
LEMMA DequeueRing ==
    ASSUME RingInv, Dequeue
    PROVE  RingInv'
<1>0. RingTypes /\ WindowIsInitialised /\ EveryFrameHasOneOwner
    BY Zenon DEF RingInv
<1>1. CASE length = 0
  <2>1. UNCHANGED <<frames, head, length, allocated, outside>>
      BY <1>1 DEF Dequeue
  <2>2. Window' = Window
      BY <2>1, WindowFacts, Zenon
  <2> QED BY <1>0, <2>1, <2>2 DEF RingInv, RingTypes, WindowIsInitialised,
                                  EveryFrameHasOneOwner
<1>2. CASE length > 0
  <2>1. /\ frames' = [frames EXCEPT ![head] = Uninit]
        /\ head' = (head + 1) % Limit /\ length' = length - 1
        /\ outside' = outside \cup {frames[head]} /\ allocated' = allocated
      BY <1>2 DEF Dequeue
  <2>2. /\ head \in Window /\ head' \in Slots
        /\ Window' = Window \ {head} /\ Window \subseteq Slots
      BY <1>0, <1>2, <2>1, DequeueWindow, WindowByPosition, WindowFacts, Zenon DEF RingTypes
  <2>3. RingTypes'
      BY <1>0, <1>2, <2>1, <2>2, LimitAssumption DEF RingTypes, EveryFrameHasOneOwner
  <2>4. frames'[head] = Uninit /\ \A k \in Slots : k # head => frames'[k] = frames[k]
      BY <1>0, <2>1, Zenon DEF RingTypes
  <2>5. WindowIsInitialised'
      BY <1>0, <2>2, <2>4, Zenon DEF WindowIsInitialised
  <2>6. EveryFrameHasOneOwner'
      BY <1>0, <2>1, <2>2, <2>4 DEF EveryFrameHasOneOwner
  <2> QED BY <2>3, <2>5, <2>6, Zenon DEF RingInv
<1> QED BY <1>0, <1>1, <1>2 DEF RingTypes

(* close and reopen drop every queued frame and no other.                  *)
LEMMA ClearRing ==
    ASSUME RingInv, ClearFrames
    PROVE  RingInv'
<1>0. RingTypes /\ WindowIsInitialised /\ EveryFrameHasOneOwner
    BY Zenon DEF RingInv
<1>1. /\ frames' = [i \in Slots |-> IF i \in Window THEN Uninit ELSE frames[i]]
      /\ head' = (head + length) % Limit /\ length' = 0 /\ outside' = outside
      /\ allocated' = allocated \ {frames[i] : i \in Window}
    BY Zenon DEF ClearFrames
<1>2. Window' = {}
    BY <1>1, EmptyWindow, WindowFacts, Zenon
<1>3. allocated' = outside
    BY <1>0, <1>1, Zenon DEF EveryFrameHasOneOwner
<1>4. RingTypes'
  <2>1. head' \in Slots
      BY <1>0, <1>1, Wrap, Zenon DEF RingTypes
  <2>2. frames' \in [Slots -> Frames \cup {Uninit}]
      BY <1>0, <1>1, Zenon DEF RingTypes
  <2> QED BY <1>0, <1>1, <1>3, <2>1, <2>2, LimitAssumption DEF RingTypes
<1>5. WindowIsInitialised'
    BY <1>0, <1>1, <1>2, Zenon DEF WindowIsInitialised
<1>6. EveryFrameHasOneOwner'
    BY <1>1, <1>2, <1>3, Zenon DEF EveryFrameHasOneOwner
<1> QED BY <1>4, <1>5, <1>6, Zenon DEF RingInv

(* Allocation and release outside the queue do not touch the ring.         *)
LEMMA OutsideRing ==
    ASSUME RingInv, NEW f \in Frames, FromBytes(f) \/ DropFrame(f)
    PROVE  RingInv'
<1>0. RingTypes /\ WindowIsInitialised /\ EveryFrameHasOneOwner
    BY Zenon DEF RingInv
<1>1. UNCHANGED <<frames, head, length>> /\ Window' = Window
    BY WindowFacts, Zenon DEF FromBytes, DropFrame
<1>2. \/ f \notin allocated /\ allocated' = allocated \cup {f} /\ outside' = outside \cup {f}
      \/ f \in outside /\ allocated' = allocated \ {f} /\ outside' = outside \ {f}
    BY Zenon DEF FromBytes, DropFrame
<1> QED BY <1>0, <1>1, <1>2 DEF RingInv, RingTypes, WindowIsInitialised,
                                EveryFrameHasOneOwner

(* Every operation of the queue keeps the ring invariant.                  *)
LEMMA RingStep ==
    RingInv /\ [QueueNext]_queueVars => RingInv'
<1> SUFFICES ASSUME RingInv, [QueueNext]_queueVars PROVE RingInv'
    BY Zenon
<1>1. CASE \E f \in Frames : FromBytes(f) \/ DropFrame(f)
    BY <1>1, OutsideRing, Zenon
<1>2. CASE \E f \in Frames : Enqueue(f)
    BY <1>2, EnqueueRing, Zenon
<1>3. CASE Dequeue
    BY <1>3, DequeueRing, Zenon
<1>4. CASE Close \/ Reopen
    BY <1>4, ClearRing, Zenon DEF Close, Reopen
<1>5. CASE BeginClose \/ UNCHANGED queueVars
  <2>1. UNCHANGED <<frames, head, length, allocated, outside>> /\ Window' = Window
      BY <1>5, WindowFacts, Zenon DEF BeginClose, queueVars
  <2> QED BY <2>1 DEF RingInv, RingTypes, WindowIsInitialised, EveryFrameHasOneOwner
<1> QED BY <1>1, <1>2, <1>3, <1>4, <1>5, Zenon DEF QueueNext

(* The ring invariant holds in every reachable state.                      *)
THEOREM RingHolds == QueueSpec => []RingInv
<1>1. QueueInit => RingInv
    BY InitRing, Zenon
<1>2. RingInv /\ [QueueNext]_queueVars => RingInv'
    BY RingStep, Zenon
<1> QED BY <1>1, <1>2, PTL DEF QueueSpec

(* For every limit, assume_init_read reads only frames that hold a frame    *)
(* and enqueue writes only frames that hold none.                           *)
THEOREM ReadsOnlyInitialisedSlots == QueueSpec => []WindowIsInitialised
<1>1. RingInv => WindowIsInitialised
    BY Zenon DEF RingInv
<1>2. QueueSpec => []RingInv
    BY RingHolds, Zenon
<1> QED BY <1>1, <1>2, PTL

(* For every limit, no frame of the pool is leaked, owned twice or         *)
(* released while it is queued.                                            *)
THEOREM FramesHaveOneOwner == QueueSpec => []EveryFrameHasOneOwner
<1>1. RingInv => EveryFrameHasOneOwner
    BY Zenon DEF RingInv
<1>2. QueueSpec => []RingInv
    BY RingHolds, Zenon
<1> QED BY <1>1, <1>2, PTL

-----------------------------------------------------------------------------
(* Sums over a queue.                                                      *)
INSTANCE WellFoundedInduction

(* g holds the sums of the sizes of the first frames of q.                 *)
Sums(g, q) ==
    /\ g \in [0..Len(q) -> Int] /\ g[0] = 0
    /\ \A i \in 1..Len(q) : g[i] = g[i - 1] + Size[q[i]]

(* A set of naturals that is not empty has a least element.                *)
LEMMA Least ==
    ASSUME NEW T \in SUBSET Nat, T # {}
    PROVE  \E m \in T : \A k \in T : m <= k
<1>1. PICK m \in T : \A k \in T : ~(<<k, m>> \in OpToRel(<, Nat))
    BY NatLessThanWellFounded, WFMin, Zenon
<1>2. \A k \in T : <<k, m>> \in OpToRel(<, Nat) <=> k < m
    BY Zenon DEF OpToRel
<1>3. \A k \in T : ~(k < m)
    BY <1>1, <1>2, Zenon
<1> QED BY <1>3

(* Induction, for a set in the place of a predicate.                       *)
LEMMA Induct ==
    ASSUME NEW S, 0 \in S, \A n \in Nat : n \in S => n + 1 \in S
    PROVE  Nat \subseteq S
<1> SUFFICES ASSUME Nat \ S # {} PROVE FALSE
    BY Zenon
<1>0. Nat \ S \in SUBSET Nat
    BY Zenon
<1>1. PICK m \in Nat \ S : \A k \in Nat \ S : m <= k
    BY <1>0, Least, Zenon
<1>2. m # 0 /\ m - 1 \in Nat
    BY <1>1
<1>3. m - 1 \in S
    BY <1>1, <1>2
<1> QED BY <1>2, <1>3

(* Every queue has its sums.                                               *)
LEMMA SumExists ==
    ASSUME NEW q \in Seq(Frames)
    PROVE  \E g : Sums(g, q)
<1> DEFINE Upto(n, g) == /\ g \in [0..n -> Int] /\ g[0] = 0
                         /\ \A i \in 1..n : i <= Len(q) => g[i] = g[i - 1] + Size[q[i]]
           S == {n \in Nat : \E g : Upto(n, g)}
<1>0. Len(q) \in Nat /\ \A i \in 1..Len(q) : Size[q[i]] \in Int
    BY FrameAssumption
<1>1. 0 \in S
  <2>1. Upto(0, [i \in 0..0 |-> 0])
      OBVIOUS
  <2> QED BY <2>1, Zenon
<1>2. ASSUME NEW n \in Nat, n \in S PROVE n + 1 \in S
  <2>1. PICK g : Upto(n, g)
      BY <1>2, Zenon
  <2>2. PICK d \in Int : n + 1 <= Len(q) => d = Size[q[n + 1]]
      BY <1>0
  <2> DEFINE h == [i \in 0..(n + 1) |-> IF i <= n THEN g[i] ELSE g[n] + d]
  <2>3. h \in [0..(n + 1) -> Int] /\ h[0] = 0
      BY <2>1
  <2>4. ASSUME NEW i \in 1..(n + 1), i <= Len(q) PROVE h[i] = h[i - 1] + Size[q[i]]
      BY <2>1, <2>2, <2>4
  <2>5. Upto(n + 1, h)
      BY <2>3, <2>4, Zenon
  <2> HIDE DEF h, Upto
  <2> QED BY <2>5
<1>3. Nat \subseteq S
  <2> HIDE DEF S
  <2> QED BY <1>1, <1>2, Induct, Zenon
<1>4. PICK g : Upto(Len(q), g)
    BY <1>0, <1>3, Zenon
<1>5. Sums(g, q)
    BY <1>0, <1>4 DEF Sums
<1> QED BY <1>5, Zenon

(* What the recursive definition of Bytes computes.                        *)
LEMMA BytesIs ==
    ASSUME NEW q \in Seq(Frames), NEW g, Sums(g, q)
    PROVE  Fifo!Bytes(q) = g[Len(q)]
<1> DEFINE Eq(c) == c = [i \in 0..Len(q) |-> IF i = 0 THEN 0 ELSE c[i - 1] + Size[q[i]]]
           c0 == CHOOSE c : Eq(c)
<1>0. Len(q) \in Nat
    OBVIOUS
<1>1. Eq(g)
    BY <1>0 DEF Sums
<1>2. Eq(c0)
    BY <1>1, Zenon
<1>3. Fifo!Bytes(q) = c0[Len(q)]
    BY Zenon DEF Fifo!Bytes
<1> HIDE DEF c0
<1> DEFINE S == {n \in Nat : n <= Len(q) => c0[n] = g[n]}
<1>4. 0 \in S
    BY <1>0, <1>2 DEF Sums
<1>5. ASSUME NEW n \in Nat, n \in S PROVE n + 1 \in S
    BY <1>0, <1>2, <1>5 DEF Sums
<1>6. Nat \subseteq S
  <2> HIDE DEF S
  <2> QED BY <1>4, <1>5, Induct, Zenon
<1> QED BY <1>0, <1>3, <1>6

(* An empty queue has no bytes.                                           *)
LEMMA BytesEmpty == Fifo!Bytes(<<>>) = 0
<1>1. Sums([i \in 0..0 |-> 0], <<>>)
    BY DEF Sums
<1>2. <<>> \in Seq(Frames)
    OBVIOUS
<1> QED BY <1>1, <1>2, BytesIs

(* enqueue adds the bytes of its frame.                                    *)
LEMMA BytesAppend ==
    ASSUME NEW q \in Seq(Frames), NEW f \in Frames
    PROVE  /\ Fifo!Bytes(q) \in Int
           /\ Fifo!Bytes(Append(q, f)) = Fifo!Bytes(q) + Size[f]
<1>0. /\ Len(q) \in Nat /\ Append(q, f) \in Seq(Frames) /\ Len(Append(q, f)) = Len(q) + 1
      /\ \A i \in 1..Len(q) : Append(q, f)[i] = q[i]
      /\ Append(q, f)[Len(q) + 1] = f /\ Size[f] \in Int
    BY FrameAssumption
<1>1. PICK g : Sums(g, q)
    BY SumExists, Zenon
<1>s. /\ g[0] = 0 /\ \A i \in 0..Len(q) : g[i] \in Int
      /\ \A i \in 1..Len(q) : g[i] = g[i - 1] + Size[q[i]]
    BY <1>1, Zenon DEF Sums
<1> DEFINE h == [i \in 0..(Len(q) + 1) |-> IF i <= Len(q) THEN g[i] ELSE g[Len(q)] + Size[f]]
<1>2. h \in [0..(Len(q) + 1) -> Int] /\ h[0] = 0
  <2>1. g[Len(q)] + Size[f] \in Int /\ 0 \in 0..(Len(q) + 1) /\ 0 <= Len(q)
      BY <1>0, <1>s
  <2>2. ASSUME NEW i \in 0..(Len(q) + 1) PROVE h[i] \in Int
    <3>1. CASE i <= Len(q)
        BY <1>0, <1>s, <3>1
    <3>2. CASE ~(i <= Len(q))
        BY <2>1, <3>2, Zenon
    <3> QED BY <3>1, <3>2, Zenon
  <2> QED BY <1>s, <2>1, <2>2, Zenon
<1>3. ASSUME NEW i \in 1..(Len(q) + 1) PROVE h[i] = h[i - 1] + Size[Append(q, f)[i]]
    BY <1>0, <1>s
<1>4. h[Len(q) + 1] = g[Len(q)] + Size[f]
    BY <1>0
<1> HIDE DEF h
<1>5. Sums(h, Append(q, f))
    BY <1>0, <1>2, <1>3, Zenon DEF Sums
<1>6. g[Len(q)] \in Int
    BY <1>0, <1>s
<1>7. Fifo!Bytes(q) = g[Len(q)] /\ Fifo!Bytes(Append(q, f)) = h[Len(Append(q, f))]
    BY <1>0, <1>1, <1>5, BytesIs, Zenon
<1> QED BY <1>0, <1>4, <1>6, <1>7, Zenon

(* dequeue takes the bytes of its frame away.                              *)
LEMMA BytesTail ==
    ASSUME NEW q \in Seq(Frames), q # <<>>
    PROVE  Fifo!Bytes(Tail(q)) = Fifo!Bytes(q) - Size[Head(q)]
<1>0. /\ Len(q) \in Nat /\ Len(q) >= 1 /\ Tail(q) \in Seq(Frames) /\ Len(Tail(q)) = Len(q) - 1
      /\ \A i \in 1..(Len(q) - 1) : Tail(q)[i] = q[i + 1]
      /\ Head(q) = q[1] /\ \A i \in 1..Len(q) : Size[q[i]] \in Int
    BY FrameAssumption
<1>1. PICK g : Sums(g, q)
    BY SumExists, Zenon
<1>s. /\ g[0] = 0 /\ \A i \in 0..Len(q) : g[i] \in Int
      /\ \A i \in 1..Len(q) : g[i] = g[i - 1] + Size[q[i]]
    BY <1>1, Zenon DEF Sums
<1> DEFINE h == [i \in 0..(Len(q) - 1) |-> g[i + 1] - g[1]]
<1>2. h \in [0..(Len(q) - 1) -> Int] /\ h[0] = 0 /\ g[1] = Size[q[1]]
  <2>1. g[1] \in Int /\ g[1] = Size[q[1]] /\ 0 \in 0..(Len(q) - 1)
      BY <1>0, <1>s
  <2>2. ASSUME NEW i \in 0..(Len(q) - 1) PROVE g[i + 1] - g[1] \in Int
    <3>1. i + 1 \in 0..Len(q)
        BY <1>0
    <3> QED BY <1>s, <2>1, <3>1
  <2> QED BY <2>1, <2>2
<1>3. ASSUME NEW i \in 1..(Len(q) - 1) PROVE h[i] = h[i - 1] + Size[Tail(q)[i]]
  <2>1. i + 1 \in 1..Len(q) /\ i \in 1..Len(q) /\ i - 1 \in 0..(Len(q) - 1) /\ (i - 1) + 1 = i
      BY <1>0
  <2>2. g[i + 1] = g[i] + Size[q[i + 1]] /\ Tail(q)[i] = q[i + 1]
      BY <1>0, <1>s, <2>1
  <2>3. h[i] = g[i + 1] - g[1] /\ h[i - 1] = g[i] - g[1]
      BY <1>0, <2>1
  <2>4. g[i] \in Int /\ g[1] \in Int /\ Size[q[i + 1]] \in Int
      BY <1>0, <1>s, <2>1
  <2> HIDE DEF h
  <2> QED BY <2>2, <2>3, <2>4
<1>4. h[Len(q) - 1] = g[Len(q)] - g[1]
    BY <1>0
<1> HIDE DEF h
<1>5. Sums(h, Tail(q))
    BY <1>0, <1>2, <1>3, Zenon DEF Sums
<1>7. Fifo!Bytes(q) = g[Len(q)] /\ Fifo!Bytes(Tail(q)) = h[Len(Tail(q))]
    BY <1>0, <1>1, <1>5, BytesIs, Zenon
<1> QED BY <1>0, <1>2, <1>4, <1>7, Zenon

(* One more frame of m bytes.                                              *)
LEMMA OneMoreTerm ==
    ASSUME NEW n \in Nat, NEW m \in Nat
    PROVE  (n + 1) * m = n * m + m /\ n * m \in Nat
OBVIOUS

(* Frames of at most m bytes have at most m bytes each in all.             *)
LEMMA BytesBound ==
    ASSUME NEW q \in Seq(Frames), NEW m \in Nat, \A i \in 1..Len(q) : Size[q[i]] <= m
    PROVE  Fifo!Bytes(q) \in 0..(Len(q) * m)
<1>0. Len(q) \in Nat /\ \A i \in 1..Len(q) : Size[q[i]] \in Nat
    BY FrameAssumption
<1>1. PICK g : Sums(g, q)
    BY SumExists, Zenon
<1>s. /\ g[0] = 0 /\ \A i \in 0..Len(q) : g[i] \in Int
      /\ \A i \in 1..Len(q) : g[i] = g[i - 1] + Size[q[i]]
    BY <1>1, Zenon DEF Sums
<1> DEFINE S == {n \in Nat : n <= Len(q) => 0 <= g[n] /\ g[n] <= n * m}
<1>2. 0 \in S
    BY <1>s
<1>3. ASSUME NEW n \in Nat, n \in S PROVE n + 1 \in S
  <2> SUFFICES ASSUME n + 1 <= Len(q) PROVE 0 <= g[n + 1] /\ g[n + 1] <= (n + 1) * m
      OBVIOUS
  <2>1. n + 1 \in 1..Len(q) /\ n \in 0..Len(q) /\ 0 <= g[n] /\ g[n] <= n * m
      BY <1>0, <1>3
  <2>2. g[n + 1] = g[n] + Size[q[n + 1]] /\ g[n] \in Int
      BY <1>0, <1>s, <2>1
  <2>3. Size[q[n + 1]] \in Nat /\ Size[q[n + 1]] <= m
      BY <1>0, <2>1, Zenon
  <2>4. (n + 1) * m = n * m + m /\ n * m \in Nat
      BY OneMoreTerm, Zenon
  <2> QED BY <2>1, <2>2, <2>3, <2>4
<1>4. Nat \subseteq S
  <2> HIDE DEF S
  <2> QED BY <1>2, <1>3, Induct, Zenon
<1>5. 0 <= g[Len(q)] /\ g[Len(q)] <= Len(q) * m /\ g[Len(q)] \in Int
    BY <1>0, <1>s, <1>4
<1>6. Fifo!Bytes(q) = g[Len(q)]
    BY <1>1, BytesIs, Zenon
<1>7. Len(q) * m \in Nat
    BY <1>0
<1> QED BY <1>5, <1>6, <1>7

(* The loop of clear_frames ends with an empty account.                    *)
LEMMA BytesLeftIs ==
    ASSUME Queued \in Seq(Frames), Len(Queued) = length, bytes = Fifo!Bytes(Queued)
    PROVE  BytesLeft[length] = 0
<1>0. length \in Nat /\ \A i \in 1..length : Size[Queued[i]] \in Int
    BY FrameAssumption
<1>1. PICK g : Sums(g, Queued)
    BY SumExists, Zenon
<1>b. bytes = g[length] /\ bytes \in Int
  <2>1. Fifo!Bytes(Queued) = g[Len(Queued)]
      BY <1>1, BytesIs, Zenon
  <2>2. g[Len(Queued)] \in Int
      BY <1>0, <1>1 DEF Sums
  <2> QED BY <2>1, <2>2, Zenon
<1> DEFINE Eq(c) ==
               c = [i \in 0..length |->
                       IF i = 0 THEN bytes ELSE c[i - 1] - Size[Queued[i]]]
           c0 == CHOOSE c : Eq(c)
           d == [i \in 0..length |-> bytes - g[i]]
<1>2. Eq(d)
  <2>1. ASSUME NEW i \in 0..length
        PROVE  d[i] = IF i = 0 THEN bytes ELSE d[i - 1] - Size[Queued[i]]
    <3>1. CASE i = 0
        BY <1>0, <1>1, <1>b, <3>1 DEF Sums
    <3>2. CASE i # 0
      <4>1. i \in 1..length /\ i - 1 \in 0..length /\ g[i] \in Int /\ g[i - 1] \in Int
          BY <1>0, <1>1, <3>2 DEF Sums
      <4>2. g[i] = g[i - 1] + Size[Queued[i]]
          BY <1>1, <4>1, Zenon DEF Sums
      <4>3. d[i] = bytes - g[i] /\ d[i - 1] = bytes - g[i - 1]
          BY <4>1, Zenon
      <4>4. Size[Queued[i]] \in Int
          BY <1>0, <4>1, Zenon
      <4>5. bytes - g[i] = (bytes - g[i - 1]) - Size[Queued[i]]
          BY <1>b, <4>1, <4>2, <4>4
      <4> HIDE DEF d
      <4> QED BY <3>2, <4>3, <4>5, Zenon
    <3> QED BY <3>1, <3>2, Zenon
  <2> QED BY <2>1, Zenon
<1>3. Eq(c0)
    BY <1>2, Zenon
<1>4. BytesLeft = c0
    BY Zenon DEF BytesLeft
<1> HIDE DEF c0
<1> DEFINE S == {n \in Nat : n <= length => c0[n] = bytes - g[n]}
<1>5. 0 \in S
    BY <1>0, <1>1, <1>3, <1>b DEF Sums
<1>6. ASSUME NEW n \in Nat, n \in S PROVE n + 1 \in S
  <2> SUFFICES ASSUME n + 1 <= length PROVE c0[n + 1] = bytes - g[n + 1]
      OBVIOUS
  <2>1. n + 1 \in 1..length /\ n \in 0..length /\ (n + 1) - 1 = n /\ c0[n] = bytes - g[n]
      BY <1>0, <1>6
  <2>2. c0[n + 1] = c0[n] - Size[Queued[n + 1]]
      BY <1>0, <1>3, <2>1
  <2>3. g[n + 1] = g[n] + Size[Queued[n + 1]] /\ g[n] \in Int /\ Size[Queued[n + 1]] \in Int
      BY <1>0, <1>1, <2>1, Zenon DEF Sums
  <2> QED BY <1>b, <2>1, <2>2, <2>3
<1>7. Nat \subseteq S
  <2> HIDE DEF S
  <2> QED BY <1>5, <1>6, Induct, Zenon
<1> QED BY <1>0, <1>4, <1>7, <1>b

-----------------------------------------------------------------------------
(* The queue that a ring with these frames, this head and this length holds. *)
QueueOf(r, h, l) == [i \in 1..l |-> r[(h + i - 1) % Limit]]

(* The frames of the window hold frames.                                    *)
Ring(r, h, l) ==
    /\ h \in Slots /\ l \in 0..Limit /\ r \in [Slots -> Frames \cup {Uninit}]
    /\ \A k \in WindowOf(h, l) : r[k] # Uninit

(* What enqueue does to the frames.                                         *)
Stores(r, s, h, l, f) == s = [r EXCEPT ![(h + l) % Limit] = f]

(* The bytes of the queued frames are on the account, and every frame that *)
(* from_bytes let through is one the instance can carry.                   *)
BytesInv ==
    /\ bytes = Fifo!Bytes(Queued)
    /\ \A f \in allocated : Size[f] \in FrameMinimum..FrameMaximum

(* Queued is the queue of the current ring.                                *)
LEMMA QueuedFacts ==
    Queued = QueueOf(frames, head, length) /\ Queued' = QueueOf(frames', head', length')
BY Zenon DEF Queued, QueueOf

(* The frames behind the queue are those of the window.                     *)
LEMMA QueueType ==
    ASSUME NEW r, NEW h, NEW l, Ring(r, h, l)
    PROVE  /\ QueueOf(r, h, l) \in Seq(Frames)
           /\ Len(QueueOf(r, h, l)) = l
           /\ \A i \in 1..l : /\ QueueOf(r, h, l)[i] = r[(h + i - 1) % Limit]
                              /\ (h + i - 1) % Limit \in WindowOf(h, l)
<1>r. /\ h \in Slots /\ l \in 0..Limit /\ r \in [Slots -> Frames \cup {Uninit}]
      /\ \A k \in WindowOf(h, l) : r[k] # Uninit
    BY Zenon DEF Ring
<1>0. Limit \in Nat /\ h \in Nat /\ l \in Nat
    BY <1>r, LimitAssumption DEF Slots
<1>1. ASSUME NEW i \in 1..l
      PROVE  (h + i - 1) % Limit \in WindowOf(h, l) /\ r[(h + i - 1) % Limit] \in Frames
  <2>1. i - 1 \in 0..(l - 1) /\ h + (i - 1) = h + i - 1
      BY <1>0
  <2>2. (h + (i - 1)) % Limit \in WindowOf(h, l)
      BY <2>1, Zenon DEF WindowOf
  <2>3. WindowOf(h, l) \subseteq Slots
      BY <1>r, WindowByPosition, Zenon
  <2> QED BY <1>r, <2>1, <2>2, <2>3, Zenon
<1>2. QueueOf(r, h, l) \in [1..l -> Frames]
    BY <1>1, Zenon DEF QueueOf
<1>3. QueueOf(r, h, l) \in Seq(Frames) /\ Len(QueueOf(r, h, l)) = l
    BY <1>0, <1>2
<1>4. \A i \in 1..l : QueueOf(r, h, l)[i] = r[(h + i - 1) % Limit]
    BY Zenon DEF QueueOf
<1> QED BY <1>1, <1>3, <1>4, Zenon

(* A sequence is the function of its elements.                             *)
LEMMA SequenceIsFunction ==
    ASSUME NEW q \in Seq(Frames) PROVE q = [i \in 1..Len(q) |-> q[i]]
OBVIOUS

(* What appending a frame does to the elements.                            *)
LEMMA AppendIs ==
    ASSUME NEW q \in Seq(Frames), NEW f \in Frames
    PROVE  /\ Append(q, f) \in Seq(Frames) /\ Len(Append(q, f)) = Len(q) + 1
           /\ Append(q, f)[Len(q) + 1] = f
           /\ \A i \in 1..Len(q) : Append(q, f)[i] = q[i]
OBVIOUS

(* A ring without a window holds the empty queue.                          *)
LEMMA QueueEmpty == \A r, h : QueueOf(r, h, 0) = <<>>
BY DEF QueueOf

(* enqueue appends the frame.                                              *)
LEMMA QueueAppend ==
    ASSUME NEW r, NEW h, NEW l, Ring(r, h, l), l < Limit,
           NEW f \in Frames, NEW s, Stores(r, s, h, l, f)
    PROVE  QueueOf(s, h, l + 1) = Append(QueueOf(r, h, l), f)
<1>r. /\ h \in Slots /\ l \in 0..Limit /\ r \in [Slots -> Frames \cup {Uninit}]
      /\ \A k \in WindowOf(h, l) : r[k] # Uninit
    BY Zenon DEF Ring
<1>0. Limit \in Nat /\ h \in Nat /\ l \in Nat
    BY <1>r, LimitAssumption DEF Slots
<1>1. PICK e \in Slots : e = (h + l) % Limit /\ e \notin WindowOf(h, l)
    BY <1>r, EnqueueWindow, Zenon
<1>p. /\ QueueOf(r, h, l) \in Seq(Frames) /\ Len(QueueOf(r, h, l)) = l
      /\ \A i \in 1..l : /\ QueueOf(r, h, l)[i] = r[(h + i - 1) % Limit]
                         /\ (h + i - 1) % Limit \in WindowOf(h, l)
    BY QueueType, Zenon
<1>q. PICK q \in Seq(Frames) : q = QueueOf(r, h, l) /\ Len(q) = l
    BY <1>p, Zenon
<1>2. \A i \in 1..l : q[i] = r[(h + i - 1) % Limit] /\ (h + i - 1) % Limit \in WindowOf(h, l)
    BY <1>p, <1>q, Zenon
<1>3. s = [r EXCEPT ![e] = f]
    BY <1>1, Zenon DEF Stores
<1>4. s[e] = f /\ \A k \in WindowOf(h, l) : s[k] = r[k]
  <2>1. WindowOf(h, l) \subseteq Slots
      BY <1>r, WindowByPosition, Zenon
  <2> QED BY <1>r, <1>1, <1>3, <2>1, Zenon
<1>5. \A i \in 1..(l + 1) : s[(h + i - 1) % Limit] = Append(q, f)[i]
  <2> SUFFICES ASSUME NEW i \in 1..(l + 1)
               PROVE  s[(h + i - 1) % Limit] = Append(q, f)[i]
      BY Zenon
  <2>1. CASE i = l + 1
    <3>1. h + i - 1 = h + l
        BY <1>0, <2>1
    <3>2. Append(q, f)[i] = f
        BY <1>q, <2>1, AppendIs
    <3> QED BY <1>1, <1>4, <3>1, <3>2, Zenon
  <2>2. CASE i # l + 1
    <3>1. i \in 1..l
        BY <1>0, <2>2
    <3>2. Append(q, f)[i] = q[i]
        BY <1>q, <3>1, AppendIs
    <3> QED BY <1>2, <1>4, <3>1, <3>2, Zenon
  <2> QED BY <2>1, <2>2, Zenon
<1>6. QueueOf(s, h, l + 1) = [i \in 1..(l + 1) |-> Append(q, f)[i]]
    BY <1>5, Zenon DEF QueueOf
<1>7. Append(q, f) = [i \in 1..(l + 1) |-> Append(q, f)[i]]
  <2>1. Append(q, f) \in Seq(Frames) /\ Len(Append(q, f)) = l + 1
      BY <1>q, AppendIs, Zenon
  <2> QED BY <2>1, SequenceIsFunction, Zenon
<1> QED BY <1>q, <1>6, <1>7, Zenon

(* dequeue takes the first frame.                                          *)
LEMMA QueueTail ==
    ASSUME NEW r, NEW h, NEW l, Ring(r, h, l), l > 0
    PROVE  /\ QueueOf(r, h, l) # <<>>
           /\ Head(QueueOf(r, h, l)) = r[h]
           /\ QueueOf([r EXCEPT ![h] = Uninit], (h + 1) % Limit, l - 1) = Tail(QueueOf(r, h, l))
<1>r. /\ h \in Slots /\ l \in 0..Limit /\ r \in [Slots -> Frames \cup {Uninit}]
      /\ \A k \in WindowOf(h, l) : r[k] # Uninit
    BY Zenon DEF Ring
<1>0. Limit \in Nat /\ Limit > 0 /\ h \in 0..(Limit - 1) /\ l \in 1..Limit
    BY <1>r, LimitAssumption DEF Slots
<1>1. PICK n \in Slots : n = (h + 1) % Limit
    BY <1>r, DequeueWindow, Zenon
<1>p. /\ QueueOf(r, h, l) \in Seq(Frames) /\ Len(QueueOf(r, h, l)) = l
      /\ \A i \in 1..l : /\ QueueOf(r, h, l)[i] = r[(h + i - 1) % Limit]
                         /\ (h + i - 1) % Limit \in WindowOf(h, l)
    BY QueueType, Zenon
<1>q. PICK q \in Seq(Frames) : q = QueueOf(r, h, l) /\ Len(q) = l
    BY <1>p, Zenon
<1>2. \A i \in 1..l : q[i] = r[(h + i - 1) % Limit] /\ (h + i - 1) % Limit \in WindowOf(h, l)
    BY <1>p, <1>q, Zenon
<1>3. PICK s : s = [r EXCEPT ![h] = Uninit]
    BY Zenon
<1>4. \A k \in Slots : k # h => s[k] = r[k]
    BY <1>r, <1>3, Zenon
<1>5. WindowOf(n, l - 1) = WindowOf(h, l) \ {h} /\ WindowOf(h, l) \subseteq Slots
    BY <1>r, <1>1, DequeueWindow, WindowByPosition, Zenon
<1>6. ASSUME NEW i \in 1..(l - 1)
      PROVE  s[(n + i - 1) % Limit] = Tail(q)[i]
  <2>1. i + 1 \in 1..l /\ Tail(q)[i] = q[i + 1] /\ h + (i + 1) - 1 = h + i
      BY <1>0, <1>q
  <2>2. (n + i - 1) % Limit = (h + i) % Limit
    <3>1. n = IF h + 1 < Limit THEN h + 1 ELSE h + 1 - Limit
        BY <1>r, <1>0, <1>1, Wrap
    <3>2. i - 1 \in 0..Limit /\ i \in 0..Limit /\ n + (i - 1) = n + i - 1 /\ n \in 0..(Limit - 1)
        BY <1>0 DEF Slots
    <3>3. (n + (i - 1)) % Limit
              = IF n + (i - 1) < Limit THEN n + (i - 1) ELSE n + (i - 1) - Limit
        BY <3>2, Wrap, Zenon
    <3>4. (h + i) % Limit = IF h + i < Limit THEN h + i ELSE h + i - Limit
        BY <1>r, <3>2, Wrap, Zenon
    <3>5. (n + (i - 1)) % Limit = (h + i) % Limit
        BY <1>0, <3>1, <3>2, <3>3, <3>4
    <3> QED BY <3>2, <3>5, Zenon
  <2>3. (h + i) % Limit \in WindowOf(n, l - 1)
    <3>1. i - 1 \in 0..((l - 1) - 1) /\ n + (i - 1) = n + i - 1
        BY <1>0 DEF Slots
    <3> QED BY <2>2, <3>1, Zenon DEF WindowOf
  <2> QED BY <1>2, <1>4, <1>5, <2>1, <2>2, <2>3, Zenon
<1>7. QueueOf(s, n, l - 1) = [i \in 1..(l - 1) |-> Tail(q)[i]]
    BY <1>6, Zenon DEF QueueOf
<1>8. Tail(q) = [i \in 1..(l - 1) |-> Tail(q)[i]]
  <2>1. Tail(q) \in Seq(Frames) /\ Len(Tail(q)) = l - 1
      BY <1>0, <1>q
  <2> QED BY <2>1, SequenceIsFunction, Zenon
<1>9. q # <<>> /\ Head(q) = r[h]
  <2>1. 1 \in 1..l /\ h + 1 - 1 = h /\ 0 \in 0..Limit /\ h + 0 = h /\ h < Limit
      BY <1>0
  <2>2. (h + 0) % Limit = h
      BY <1>r, <2>1, Wrap, Zenon
  <2>3. q[1] = r[(h + 1 - 1) % Limit]
      BY <1>2, <2>1, Zenon
  <2>4. q[1] = r[h]
      BY <2>1, <2>2, <2>3, Zenon
  <2> QED BY <1>0, <1>q, <2>4
<1> QED BY <1>1, <1>q, <1>3, <1>7, <1>8, <1>9, Zenon

-----------------------------------------------------------------------------
(* The ring invariant covers the frames of the window.                      *)
LEMMA RingIsRing ==
    ASSUME RingInv
    PROVE  /\ Ring(frames, head, length) /\ Window = WindowOf(head, length)
           /\ \A k \in WindowOf(head, length) : frames[k] \in allocated
<1>0. /\ head \in Slots /\ length \in 0..Limit /\ frames \in [Slots -> Frames \cup {Uninit}]
      /\ WindowIsInitialised /\ EveryFrameHasOneOwner /\ Window = WindowOf(head, length)
    BY WindowFacts, Zenon DEF RingInv, RingTypes
<1>1. WindowOf(head, length) \subseteq Slots
    BY <1>0, WindowByPosition, Zenon
<1>2. \A k \in WindowOf(head, length) : frames[k] # Uninit
    BY <1>0, <1>1, Zenon DEF WindowIsInitialised
<1>3. \A k \in WindowOf(head, length) : frames[k] \in allocated
    BY <1>0, Zenon DEF EveryFrameHasOneOwner
<1> QED BY <1>0, <1>2, <1>3, Zenon DEF Ring

(* What the ring invariant says of the queue.                              *)
LEMMA QueuedIs ==
    ASSUME RingInv
    PROVE  /\ Queued \in Seq(Frames) /\ Len(Queued) = length
           /\ \A i \in 1..length : Queued[i] \in allocated
<1>1. /\ QueueOf(frames, head, length) \in Seq(Frames)
      /\ Len(QueueOf(frames, head, length)) = length
      /\ \A i \in 1..length :
            /\ QueueOf(frames, head, length)[i] = frames[(head + i - 1) % Limit]
            /\ (head + i - 1) % Limit \in WindowOf(head, length)
    BY RingIsRing, QueueType, Zenon
<1> QED BY <1>1, RingIsRing, QueuedFacts, Zenon

(* The byte count stays within length frames of the largest size, and so   *)
(* within the budget of create_tap_device.                                 *)
LEMMA BytesFit ==
    ASSUME RingInv, BytesInv
    PROVE  /\ bytes \in Nat /\ bytes <= length * FrameMaximum /\ bytes <= ByteLimit
           /\ length * FrameMaximum \in Nat /\ ByteLimit \in Nat
<1>0. length \in Nat /\ Limit \in Nat /\ length <= Limit /\ FrameMaximum \in Nat
    BY FrameAssumption, LimitAssumption DEF RingInv, RingTypes
<1>1. \A i \in 1..Len(Queued) : Size[Queued[i]] <= FrameMaximum
    BY QueuedIs DEF BytesInv
<1>2. Fifo!Bytes(Queued) \in 0..(Len(Queued) * FrameMaximum)
    BY <1>0, <1>1, QueuedIs, BytesBound, Zenon
<1>3. length * FrameMaximum \in Nat /\ Limit * FrameMaximum \in Nat
      /\ length * FrameMaximum <= Limit * FrameMaximum
  <2>1. PICK d \in Nat : Limit = length + d
      BY <1>0
  <2>2. (length + d) * FrameMaximum = length * FrameMaximum + d * FrameMaximum
      BY <1>0
  <2>3. PICK x \in Nat, y \in Nat : x = length * FrameMaximum /\ y = d * FrameMaximum
      BY <1>0
  <2>4. Limit * FrameMaximum = x + y
      BY <2>1, <2>2, <2>3, Zenon
  <2> QED BY <2>3, <2>4
<1>4. bytes \in 0..(length * FrameMaximum)
    BY <1>2, QueuedIs, Zenon DEF BytesInv
<1> QED BY <1>3, <1>4 DEF ByteLimit

(* An open queue below its frame limit takes every frame of the instance.  *)
LEMMA RoomForAFrame ==
    ASSUME RingInv, BytesInv
    PROVE  WritableMeansRoom
<1>0. length \in Nat /\ Limit \in Nat /\ length <= Limit /\ FrameMaximum \in Nat
    BY FrameAssumption, LimitAssumption DEF RingInv, RingTypes
<1> SUFFICES ASSUME state = "open", length < Limit, NEW n \in FrameMinimum..FrameMaximum
             PROVE  CheckCapacity(n) = "ok"
    BY Zenon DEF WritableMeansRoom
<1>1. n \in Nat /\ n <= FrameMaximum
    BY FrameAssumption
<1>2. length * FrameMaximum + FrameMaximum <= Limit * FrameMaximum
  <2>1. PICK d \in Nat : Limit = (length + 1) + d
      BY <1>0
  <2>2. ((length + 1) + d) * FrameMaximum
            = length * FrameMaximum + FrameMaximum + d * FrameMaximum
      BY <1>0
  <2>3. d * FrameMaximum \in Nat /\ length * FrameMaximum \in Nat
      BY <1>0
  <2> QED BY <1>0, <2>1, <2>2, <2>3
<1>3. bytes + n <= ByteLimit
    BY <1>0, <1>1, <1>2, BytesFit DEF ByteLimit
<1> QED BY <1>0, <1>1, <1>3, BytesFit DEF CheckCapacity

(* try_new: an empty queue and an empty account.                           *)
LEMMA InitBytes == QueueInit => BytesInv /\ Fifo!Init
<1> SUFFICES ASSUME QueueInit PROVE BytesInv /\ Fifo!Init
    BY Zenon
<1>1. Queued = <<>>
    BY QueuedFacts, QueueEmpty, Zenon DEF QueueInit
<1> QED BY <1>1, BytesEmpty, Zenon DEF QueueInit, BytesInv, Fifo!Init

(* enqueue is the enqueue of the queue it implements.                      *)
LEMMA EnqueueBytes ==
    ASSUME RingInv, BytesInv, NEW f \in Frames, Enqueue(f)
    PROVE  BytesInv' /\ Fifo!Enqueue(f)
<1>0. /\ length \in 0..Limit /\ Limit \in Nat /\ Size[f] \in Nat
      /\ bytes \in Nat /\ bytes <= ByteLimit /\ ByteLimit \in Nat
      /\ Queued \in Seq(Frames) /\ Len(Queued) = length /\ bytes = Fifo!Bytes(Queued)
    BY BytesFit, QueuedIs, FrameAssumption, LimitAssumption, Zenon DEF RingInv, RingTypes, BytesInv
<1>1. result' = CheckCapacity(Size[f]) /\ head' = head /\ state' = state
    BY Zenon DEF Enqueue
<1>2. result' = IF state # "open" THEN "closed"
                ELSE IF /\ Len(Queued) < Limit
                        /\ Fifo!Bytes(Queued) + Size[f] <= ByteLimit
                     THEN "ok" ELSE "full"
    BY <1>0, <1>1 DEF CheckCapacity
<1>3. CASE result' = "ok"
  <2>1. /\ frames' = [frames EXCEPT ![(head + length) % Limit] = f]
        /\ length' = length + 1 /\ bytes' = bytes + Size[f] /\ allocated' = allocated
      BY <1>3, Zenon DEF Enqueue
  <2>2. length < Limit
      BY <1>0, <1>2, <1>3, Zenon
  <2>3. QueueOf(frames', head, length + 1) = Append(QueueOf(frames, head, length), f)
    <3>1. Stores(frames, frames', head, length, f)
        BY <2>1, Zenon DEF Stores
    <3> QED BY <2>2, <3>1, RingIsRing, QueueAppend
  <2>4. Queued' = Append(Queued, f)
      BY <1>1, <2>1, <2>3, QueuedFacts, Zenon
  <2>5. BytesInv'
      BY <1>0, <2>1, <2>4, BytesAppend, Zenon DEF BytesInv
  <2> QED BY <1>1, <1>2, <1>3, <2>4, <2>5 DEF Fifo!Enqueue
<1>4. CASE result' # "ok"
  <2>1. /\ UNCHANGED <<frames, length, bytes>> /\ allocated' = allocated \ {f}
      BY <1>4, Zenon DEF Enqueue
  <2>2. Queued' = Queued
      BY <1>1, <2>1, QueuedFacts, Zenon
  <2>3. BytesInv'
      BY <2>1, <2>2, Zenon DEF BytesInv
  <2> QED BY <1>1, <1>2, <1>4, <2>2, <2>3, Zenon DEF Fifo!Enqueue
<1> QED BY <1>3, <1>4, Zenon

(* dequeue is the dequeue of the queue it implements.                      *)
LEMMA DequeueBytes ==
    ASSUME RingInv, BytesInv, Dequeue
    PROVE  BytesInv' /\ Fifo!Dequeue
<1>0. /\ length \in 0..Limit /\ Limit \in Nat
      /\ Queued \in Seq(Frames) /\ Len(Queued) = length /\ bytes = Fifo!Bytes(Queued)
    BY QueuedIs, LimitAssumption, Zenon DEF RingInv, RingTypes, BytesInv
<1>1. CASE length = 0
  <2>1. /\ UNCHANGED <<frames, head, length, bytes, allocated, state>> /\ result' = "none"
      BY <1>1 DEF Dequeue
  <2>2. Queued' = Queued /\ Queued = <<>>
      BY <1>1, <2>1, QueuedFacts, QueueEmpty, Zenon
  <2> QED BY <2>1, <2>2, Zenon DEF BytesInv, Fifo!Dequeue
<1>2. CASE length > 0
  <2>1. /\ frames' = [frames EXCEPT ![head] = Uninit] /\ head' = (head + 1) % Limit
        /\ length' = length - 1 /\ bytes' = bytes - Size[frames[head]]
        /\ allocated' = allocated /\ state' = state /\ result' = frames[head]
      BY <1>2 DEF Dequeue
  <2>2. /\ QueueOf(frames, head, length) # <<>>
        /\ Head(QueueOf(frames, head, length)) = frames[head]
        /\ QueueOf([frames EXCEPT ![head] = Uninit], (head + 1) % Limit, length - 1)
               = Tail(QueueOf(frames, head, length))
      BY <1>2, RingIsRing, QueueTail, Zenon
  <2>3. Queued # <<>> /\ Head(Queued) = frames[head] /\ Queued' = Tail(Queued)
      BY <2>1, <2>2, QueuedFacts, Zenon
  <2>4. BytesInv'
      BY <1>0, <2>1, <2>3, BytesTail, Zenon DEF BytesInv
  <2> QED BY <2>1, <2>3, <2>4, Zenon DEF Fifo!Dequeue
<1> QED BY <1>0, <1>1, <1>2

(* clear_frames leaves an empty queue and an empty account.                *)
LEMMA ClearBytes ==
    ASSUME RingInv, BytesInv, ClearFrames
    PROVE  BytesInv' /\ Queued' = <<>>
<1>1. /\ length' = 0 /\ bytes' = BytesLeft[length]
      /\ allocated' \subseteq allocated
    BY Zenon DEF ClearFrames
<1>2. BytesLeft[length] = 0
    BY QueuedIs, BytesLeftIs, Zenon DEF BytesInv
<1>3. Queued' = <<>>
    BY <1>1, QueuedFacts, QueueEmpty, Zenon
<1> QED BY <1>1, <1>2, <1>3, BytesEmpty, Zenon DEF BytesInv

(* Every operation keeps the account and is a step of the queue.           *)
LEMMA FifoStep ==
    RingInv /\ BytesInv /\ [QueueNext]_queueVars => BytesInv' /\ [Fifo!Next]_Fifo!vars
<1> SUFFICES ASSUME RingInv, BytesInv, [QueueNext]_queueVars
             PROVE  BytesInv' /\ [Fifo!Next]_Fifo!vars
    BY Zenon
<1>1. CASE \E f \in Frames : FromBytes(f) \/ DropFrame(f)
  <2>1. UNCHANGED <<frames, head, length, bytes, state, result>>
      BY <1>1, Zenon DEF FromBytes, DropFrame
  <2>2. Queued' = Queued
      BY <2>1, QueuedFacts, Zenon
  <2>3. \A f \in allocated' : Size[f] \in FrameMinimum..FrameMaximum
      BY <1>1 DEF FromBytes, DropFrame, BytesInv
  <2> QED BY <2>1, <2>2, <2>3, Zenon DEF BytesInv, Fifo!vars
<1>2. CASE \E f \in Frames : Enqueue(f)
    BY <1>2, EnqueueBytes, Zenon DEF Fifo!Next
<1>3. CASE Dequeue
    BY <1>3, DequeueBytes, Zenon DEF Fifo!Next
<1>4. CASE Close \/ Reopen
  <2>1. BytesInv' /\ Queued' = <<>>
      BY <1>4, ClearBytes, Zenon DEF Close, Reopen
  <2>2. result' = "none" /\ state' \in {"closed", "open"}
      BY <1>4, Zenon DEF Close, Reopen
  <2> QED BY <2>1, <2>2, Zenon DEF Fifo!Next, Fifo!SetState
<1>5. CASE BeginClose
  <2>1. /\ UNCHANGED <<frames, head, length, bytes, allocated>>
        /\ state = "open" /\ state' = "closing" /\ result' = "none"
      BY <1>5, Zenon DEF BeginClose
  <2>2. Queued' = Queued
      BY <2>1, QueuedFacts, Zenon
  <2> QED BY <2>1, <2>2, Zenon DEF BytesInv, Fifo!Next, Fifo!SetState
<1>6. CASE UNCHANGED queueVars
  <2>1. UNCHANGED <<frames, head, length, bytes, allocated, state, result>>
      BY <1>6, Zenon DEF queueVars
  <2>2. Queued' = Queued
      BY <2>1, QueuedFacts, Zenon
  <2> QED BY <2>1, <2>2, Zenon DEF BytesInv, Fifo!vars
<1> QED BY <1>1, <1>2, <1>3, <1>4, <1>5, <1>6, Zenon DEF QueueNext

(* For every pool, every limit and every frame size, an open queue below   *)
(* its frame limit has room for any frame the instance can carry, so       *)
(* readiness_snapshot is right to call it writable.                        *)
THEOREM WritableQueueHasRoom == QueueSpec => []WritableMeansRoom
<1>1. QueueInit => RingInv /\ BytesInv
    BY InitRing, InitBytes, Zenon
<1>2. RingInv /\ BytesInv /\ [QueueNext]_queueVars => RingInv' /\ BytesInv'
    BY RingStep, FifoStep, Zenon
<1>3. RingInv /\ BytesInv => WritableMeansRoom
    BY RoomForAFrame, Zenon
<1> QED BY <1>1, <1>2, <1>3, PTL DEF QueueSpec

(* For every pool, every limit and every frame size, the ring with its     *)
(* head, length and byte count behaves as the first-in first-out queue.    *)
THEOREM RingIsAQueue == QueueSpec => ImplementsFifo
<1>1. QueueInit => RingInv /\ BytesInv /\ Fifo!Init
    BY InitRing, InitBytes, Zenon
<1>2. RingInv /\ BytesInv /\ [QueueNext]_queueVars
          => RingInv' /\ BytesInv' /\ [Fifo!Next]_Fifo!vars
    BY RingStep, FifoStep, Zenon
<1> QED BY <1>1, <1>2, PTL DEF QueueSpec, ImplementsFifo, Fifo!Spec
=============================================================================
