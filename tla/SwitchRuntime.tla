---------------------------- MODULE SwitchRuntime ----------------------------
(***************************************************************************)
(* The runtime of the two-endpoint switch (main.rs of wintap-switch) with  *)
(* its buffer pool (BufferPool of wintap-switch-core): one thread that     *)
(* opens the endpoints and negotiates adaptive polling, posts reads,       *)
(* forwards what they return as writes from the same buffer, retries busy  *)
(* operations, waits for readiness in adaptive mode and drains everything  *)
(* on shutdown.                                                            *)
(*                                                                         *)
(* The I/O ring and the drivers are external.  A ring operation is built   *)
(* into the submission queue, taken by the kernel, completed in any order, *)
(* and popped from the completion queue.                                   *)
(***************************************************************************)
EXTENDS Naturals, Sequences, FiniteSets

CONSTANTS
    Slots,          \* buffer slots
    EndpointOf,     \* the endpoint each slot reads from
    MaxGeneration,  \* u32::MAX, the last generation of a slot
    MaxBusyRetries, \* MAX_BUSY_RETRIES
    ReopenAttempts  \* CLEANUP_REOPEN_ATTEMPTS

Endpoints == 1..2  \* ENDPOINT_COUNT

ASSUME SwitchAssumption ==
    /\ IsFiniteSet(Slots)
    /\ EndpointOf \in [Slots -> Endpoints]
    /\ MaxGeneration \in Nat \ {0} /\ MaxBusyRetries \in Nat
    /\ ReopenAttempts \in Nat \ {0}

VARIABLES
    handle,     \* the handle of each endpoint and the mode its driver is in
    adaptive,   \* adaptive_polling
    attempt,    \* of reopen_legacy_endpoints_after_cleanup
    pool,       \* BufferPool: the generation and state of each slot
    active,     \* the operation of each slot, Idle if none
    cancels,    \* the generation whose cancellation is outstanding, or 0
    ring,       \* the operations built or submitted and not completed
    cq,         \* the completion queue
    waits,      \* the AdaptiveWait of each endpoint
    kernelWait, \* what the driver has done with each WAIT_FOR_CHANGE
    pc,         \* where the thread is
    batch,      \* saw_completion and made_progress of the current batch
    ready,      \* immediately_ready
    inFlight,   \* operations_may_be_in_flight
    stop        \* STOP_REQUESTED

start == <<handle, adaptive, attempt>>

vars == <<start, pool, active, cancels, ring, cq, waits, kernelWait, pc, batch, ready,
          inFlight, stop>>

Idle == [generation |-> 0, write |-> FALSE, queued |-> FALSE, submitted |-> FALSE,
         retries |-> 0, drain |-> FALSE]

Operation == [slot : Slots, generation : 1..MaxGeneration,
              kind : {"read", "write", "cancel"}]

RingEntry == [op : Operation, at : {"built", "kernel"}]

Results == {"ok", "drop", "busy", "empty", "failed"}

Interests == {"readable", "both"}

Starting == {"open", "negotiate", "negotiate_peer", "reopen", "create"}

Relaying == {"batch", "arm", "block", "resume"}

Labels == Starting \cup Relaying \cup
          {"shutdown", "drain_writes", "cancel", "cancel_wait", "closed", "aborted"}

TypeOK ==
    /\ handle \in [Endpoints -> {"closed", "legacy", "adaptive", "cleanup"}]
    /\ adaptive \in BOOLEAN /\ attempt \in 0..ReopenAttempts
    /\ pool \in [Slots -> [generation : 0..MaxGeneration,
                           state : {"free", "read", "write"}]]
    /\ active \in [Slots -> [generation : 0..MaxGeneration, write : BOOLEAN,
                             queued : BOOLEAN, submitted : BOOLEAN,
                             retries : 0..MaxBusyRetries, drain : BOOLEAN]]
    /\ cancels \in [Slots -> 0..MaxGeneration]
    /\ ring \subseteq RingEntry
    /\ cq \in Seq([op : Operation, result : Results])
    /\ waits \in [Endpoints -> [pending : BOOLEAN, interest : Interests]]
    /\ kernelWait \in [Endpoints -> {"none", "pended", "satisfied", "failed"}]
    /\ pc \in Labels
    /\ batch \in [saw : BOOLEAN, progress : BOOLEAN]
    /\ ready \in [Endpoints -> {"todo", "pending", "ready"}]
    /\ inFlight \in BOOLEAN /\ stop \in BOOLEAN

NoBatch == [saw |-> FALSE, progress |-> FALSE]

(* The interest of a wait is read only while it is pending.                *)
NoWait == [pending |-> FALSE, interest |-> "readable"]

Init ==
    /\ handle = [e \in Endpoints |-> "closed"]
    /\ adaptive = FALSE /\ attempt = 0
    /\ pool = [s \in Slots |-> [generation |-> 0, state |-> "free"]]
    /\ active = [s \in Slots |-> Idle]
    /\ cancels = [s \in Slots |-> 0]
    /\ ring = {}
    /\ cq = <<>>
    /\ waits = [e \in Endpoints |-> NoWait]
    /\ kernelWait = [e \in Endpoints |-> "none"]
    /\ pc = "open" /\ batch = NoBatch
    /\ ready = [e \in Endpoints |-> "todo"]
    /\ inFlight = FALSE /\ stop = FALSE

Peer(e) == 3 - e

Built == {r \in ring : r.at = "built"}

(* The submission queue has room for one entry per slot.                   *)
HasRoom(entries) == Cardinality({r \in entries : r.at = "built"}) < Cardinality(Slots)

BuildEntry(s, g, k) ==
    [op |-> [slot |-> s, generation |-> g, kind |-> k], at |-> "built"]

-----------------------------------------------------------------------------
(***************************************************************************)
(* post_read and BufferPool, as operators on the state of the runtime.     *)
(***************************************************************************)
State == [pool |-> pool, active |-> active, ring |-> ring, error |-> FALSE]

SetSlot(st, s, slotState) == [st EXCEPT !.pool[s].state = slotState]

(* BufferPool::begin_read fails on a slot in use and on its last           *)
(* generation; BuildIoRingReadFile on a full submission queue and when     *)
(* ~built, for any other reason.                                           *)
PostRead(st, s, built) ==
    LET g == st.pool[s].generation + 1
        begun == [st EXCEPT !.pool[s] = [generation |-> g, state |-> "read"]]
    IN  IF st.pool[s].state # "free" \/ g > MaxGeneration THEN [st EXCEPT !.error = TRUE]
        ELSE IF ~built \/ ~HasRoom(st.ring) THEN [begun EXCEPT !.error = TRUE]
        ELSE [begun EXCEPT !.active[s] = [Idle EXCEPT !.generation = g, !.queued = TRUE],
                           !.ring = @ \cup {BuildEntry(s, g, "read")}]

(* A loop of post_read over the slots of S in which none fails.            *)
CanPost(st, S) ==
    /\ \A s \in S : st.pool[s].state = "free" /\ st.pool[s].generation < MaxGeneration
    /\ Cardinality({r \in st.ring : r.at = "built"}) + Cardinality(S) <= Cardinality(Slots)

ReadsPosted(st, S) ==
    LET g(s) == st.pool[s].generation + 1
        read(s) == [generation |-> g(s), state |-> "read"]
        posted(s) == [Idle EXCEPT !.generation = g(s), !.queued = TRUE]
    IN  [st EXCEPT !.pool = [s \in Slots |-> IF s \in S THEN read(s) ELSE @[s]],
                   !.active = [s \in Slots |-> IF s \in S THEN posted(s) ELSE @[s]],
                   !.ring = @ \cup {BuildEntry(s, g(s), "read") : s \in S}]

(* begin_dispatch, begin_writes and BuildIoRingWriteFile from the buffer   *)
(* just read; with two endpoints a frame has at most one recipient.        *)
PostWrite(st, s, built) ==
    LET g == st.pool[s].generation
        begun == SetSlot(st, s, "write")
    IN  IF ~built \/ ~HasRoom(st.ring) THEN [begun EXCEPT !.error = TRUE]
        ELSE [begun EXCEPT
                 !.active[s] = [Idle EXCEPT !.generation = g, !.write = TRUE, !.queued = TRUE],
                 !.ring = @ \cup {BuildEntry(s, g, "write")}]

(* Wrong variant: a slot is retried after it was released.               *)
RetryGivenUpSlot(st, s, built) ==
    LET a == st.active[s]
        again == [a EXCEPT !.retries = @ + 1, !.submitted = FALSE, !.queued = FALSE]
    IN  IF ~a.submitted THEN [st EXCEPT !.error = TRUE]
        ELSE IF a.retries >= MaxBusyRetries
        THEN [SetSlot(st, s, "free") EXCEPT !.active[s] = Idle, !.error = TRUE,
                                            !.ring = @ \cup {BuildEntry(s, a.generation, "read")}]
        ELSE IF ~built \/ ~HasRoom(st.ring)
        THEN [st EXCEPT !.active[s] = again, !.error = TRUE]
        ELSE [st EXCEPT !.active[s] = [again EXCEPT !.queued = TRUE],
                        !.ring = @ \cup {BuildEntry(s, a.generation,
                                                    IF a.write THEN "write" ELSE "read")}]

(* retry_busy_operation: the same operation again, or give the slot up.    *)
Retry(st, s, built) ==
    LET a == st.active[s]
        again == [a EXCEPT !.retries = @ + 1, !.submitted = FALSE, !.queued = FALSE]
    IN  IF ~a.submitted THEN [st EXCEPT !.error = TRUE]
        ELSE IF a.retries >= MaxBusyRetries
        THEN [SetSlot(st, s, "free") EXCEPT !.active[s] = Idle, !.error = TRUE]
        ELSE IF ~built \/ ~HasRoom(st.ring)
        THEN [st EXCEPT !.active[s] = again, !.error = TRUE]
        ELSE [st EXCEPT !.active[s] = [again EXCEPT !.queued = TRUE],
                        !.ring = @ \cup {BuildEntry(s, a.generation,
                                                    IF a.write THEN "write" ELSE "read")}]

(* validate_completion *)
Valid(r) == r.op.kind # "cancel" /\ active[r.op.slot].generation = r.op.generation

(* Wrong variant: a dropped frame ends the use of its slot.              *)
ProcessedWithoutRepost(r, built) ==
    LET s == r.op.slot
        inactive == [State EXCEPT !.active[s] = Idle]
        freed == SetSlot(inactive, s, "free")
    IN  IF ~Valid(r) THEN [State EXCEPT !.error = TRUE]
        ELSE IF r.result = "busy" THEN Retry(State, s, built)
        ELSE IF r.result = "empty" /\ adaptive /\ ~active[s].write THEN freed
        ELSE IF r.result \in {"failed", "empty"} THEN [freed EXCEPT !.error = TRUE]
        ELSE IF r.result = "drop" THEN freed
        ELSE IF active[s].write THEN PostRead(freed, s, built)
        ELSE PostWrite(inactive, s, built)

(* process_completion, of a completion that has been popped.               *)
Processed(r, built) ==
    LET s == r.op.slot
        inactive == [State EXCEPT !.active[s] = Idle]
        freed == SetSlot(inactive, s, "free")
    IN  IF ~Valid(r) THEN [State EXCEPT !.error = TRUE]
        ELSE IF r.result = "busy" THEN Retry(State, s, built)
        ELSE IF r.result = "empty" /\ adaptive /\ ~active[s].write THEN freed
        ELSE IF r.result \in {"failed", "empty"} THEN [freed EXCEPT !.error = TRUE]
        ELSE IF active[s].write \/ r.result = "drop" THEN PostRead(freed, s, built)
        ELSE PostWrite(inactive, s, built)

Install(st) == pool' = st.pool /\ active' = st.active /\ ring' = st.ring

(* The top of both loops looks at STOP_REQUESTED.                          *)
Top == IF stop THEN "shutdown" ELSE "batch"

(* What SubmitIoRing hands to the kernel.                                  *)
Submitted(st) ==
    [st EXCEPT !.ring = {[r EXCEPT !.at = "kernel"] : r \in st.ring},
               !.active = [s \in Slots |-> [st.active[s] EXCEPT
                                               !.submitted = @ \/ st.active[s].queued]]]

(* Wrong variant: the operations are not recorded as in flight.            *)
SubmitUnnoticed(st, next) ==
    \/ Install(Submitted(st)) /\ pc' \in next /\ UNCHANGED inFlight
    \/ Install(st) /\ pc' = "shutdown" /\ UNCHANGED inFlight

(* submit_pending_operations; nothing is submitted when it fails.          *)
SubmitPending(st, next) ==
    \/ Install(Submitted(st)) /\ pc' \in next /\ inFlight' = TRUE
    \/ Install(st) /\ pc' = "shutdown" /\ UNCHANGED inFlight

-----------------------------------------------------------------------------
(***************************************************************************)
(* Runtime::start: the endpoints and the mode of the relay.  The driver    *)
(* owns the mode of a handle; a driver without adaptive polling answers    *)
(* that it does not know the request.  The answer of another version of    *)
(* the protocol (Incompatible) is not one a driver of this repository      *)
(* gives.                                                                  *)
(***************************************************************************)
runtime == <<pool, active, cancels, ring, cq, waits, kernelWait, batch, ready, inFlight, stop>>

(* Drop for Endpoint: the driver's cleanup of the handle is still to come. *)
Dropped == [e \in Endpoints |-> IF handle[e] = "closed" THEN "closed" ELSE "cleanup"]

CloseHandles == handle' = Dropped

(* start returns an error and drops what it has opened.                    *)
StartFails == CloseHandles /\ pc' = "closed" /\ UNCHANGED <<adaptive, attempt, runtime>>

Opened(e) ==
    /\ handle' = [handle EXCEPT ![e] = "legacy"]
    /\ pc' = IF e = 1 THEN pc ELSE IF pc = "open" THEN "negotiate" ELSE "create"
    /\ UNCHANGED <<adaptive, attempt, runtime>>

(* reopen_legacy_endpoints_after_cleanup: an open that meets a pending     *)
(* cleanup drops the other endpoint and tries both again.                  *)
CleanupIsPending ==
    /\ pc = "reopen" /\ attempt + 1 < ReopenAttempts
    /\ CloseHandles
    /\ attempt' = attempt + 1
    /\ UNCHANGED <<adaptive, pc, runtime>>

(* open_endpoints, one endpoint after the other.                           *)
OpenEndpoint ==
    /\ pc \in {"open", "reopen"}
    /\ LET e == IF handle[1] = "legacy" THEN 2 ELSE 1 IN
       \/ handle[e] = "closed" /\ Opened(e)
       \/ handle[e] = "cleanup" /\ CleanupIsPending
       \/ StartFails

(* negotiate_adaptive_endpoint: ENABLE_ADAPTIVE_POLLING.                   *)
Negotiated(e) ==
    \/ handle' = [handle EXCEPT ![e] = "adaptive"]
    \/ UNCHANGED handle

NegotiateFirst ==
    /\ pc = "negotiate"
    /\ \/ Negotiated(1) /\ pc' = "negotiate_peer" /\ UNCHANGED <<adaptive, attempt, runtime>>
       \/ StartFails

(* Wrong variant: one endpoint is enough.                                  *)
SelectAny(modes) == \E e \in Endpoints : modes[e] = "adaptive"

(* select_adaptive_polling *)
SelectAdaptivePolling(modes) == \A e \in Endpoints : modes[e] = "adaptive"

(* reopen_for_legacy *)
ReopenForLegacy(modes) ==
    ~SelectAdaptivePolling(modes) /\ \E e \in Endpoints : modes[e] = "adaptive"

NegotiateSecond ==
    /\ pc = "negotiate_peer"
    /\ \/ \E mode \in {"adaptive", "legacy"} :
             LET modes == [handle EXCEPT ![2] = mode] IN
             /\ adaptive' = SelectAdaptivePolling(modes)
             /\ IF ReopenForLegacy(modes)
                THEN handle' = [e \in Endpoints |-> "cleanup"] /\ pc' = "reopen"
                ELSE handle' = modes /\ pc' = "create"
             /\ UNCHANGED <<attempt, runtime>>
       \/ StartFails

(* The ring is created and registered, and a read is posted to every slot  *)
(* and submitted.                                                          *)
CreateRuntime ==
    /\ pc = "create"
    /\ \/ /\ CanPost(State, Slots)
          /\ SubmitPending(ReadsPosted(State, Slots), {Top})
          /\ attempt' = 0
          /\ UNCHANGED <<handle, adaptive, cancels, cq, waits, kernelWait, batch, ready, stop>>
       \/ StartFails

-----------------------------------------------------------------------------
(***************************************************************************)
(* The run loops.                                                          *)
(***************************************************************************)

(* PopIoRingCompletion and process_completion.                             *)
PopCompletion ==
    /\ pc = "batch"
    /\ cq # <<>>
    /\ cq' = Tail(cq)
    /\ \E built \in BOOLEAN :
          LET st == Processed(Head(cq), built)
              moved == Head(cq).result \notin {"busy", "empty"}
          IN  /\ Install(st)
              /\ batch' = IF st.error THEN NoBatch
                           ELSE [saw |-> TRUE, progress |-> batch.progress \/ moved]
              /\ pc' = IF st.error THEN "shutdown" ELSE "batch"
    /\ UNCHANGED <<start, cancels, waits, kernelWait, ready, inFlight, stop>>

(* The queue is empty: submit what the batch built, or go and wait, in     *)
(* adaptive mode once the polling budget is used up.  The legacy loop      *)
(* waits in SubmitIoRing, which may time out or fail.                      *)
EndBatch ==
    /\ pc = "batch"
    /\ cq = <<>>
    /\ IF batch.saw
       THEN SubmitPending(State, IF adaptive /\ ~batch.progress THEN {Top, "arm"} ELSE {Top})
       ELSE /\ pc' \in {Top, IF adaptive THEN "arm" ELSE "shutdown"}
            /\ UNCHANGED <<pool, active, ring, inFlight>>
    /\ batch' = NoBatch
    /\ UNCHANGED <<start, cq, cancels, waits, kernelWait, ready, stop>>

(* PopIoRingCompletion fails, or WaitForMultipleObjects does.              *)
LoopFails ==
    /\ pc \in {"batch", "block"}
    /\ pc' = "shutdown"
    /\ batch' = NoBatch
    /\ UNCHANGED <<start, cq, pool, active, cancels, ring, waits, kernelWait, ready,
                   inFlight, stop>>

-----------------------------------------------------------------------------
(***************************************************************************)
(* wait_for_adaptive_change.                                               *)
(***************************************************************************)

(* adaptive_interest_for_endpoint: a write that was busy is to be retried. *)
Interest(e) ==
    IF \E s \in Slots : active[s].write /\ active[s].retries # 0 /\ Peer(EndpointOf[s]) = e
    THEN "both" ELSE "readable"

(* DeviceIoControl(WAIT_FOR_CHANGE) completes, pends or fails.             *)
IssueWait(e) ==
    \/ /\ ready' = [ready EXCEPT ![e] = "ready"]
       /\ waits' = [waits EXCEPT ![e] = NoWait]
       /\ kernelWait' = [kernelWait EXCEPT ![e] = "none"]
       /\ pc' = "arm"
    \/ /\ ready' = [ready EXCEPT ![e] = "pending"]
       /\ waits' = [waits EXCEPT ![e] = [pending |-> TRUE, interest |-> Interest(e)]]
       /\ kernelWait' = [kernelWait EXCEPT ![e] = "pended"]
       /\ pc' = "arm"
    \/ /\ waits' = [waits EXCEPT ![e] = NoWait]
       /\ kernelWait' = [kernelWait EXCEPT ![e] = "none"]
       /\ pc' = "shutdown"
       /\ UNCHANGED ready

(* Wrong variant: a pending wait is kept whatever its interest.          *)
ArmWaitOnce(e) ==
    /\ pc = "arm" /\ ready[e] = "todo"
    /\ \A before \in 1..(e - 1) : ready[before] # "todo"
    /\ \/ ~waits[e].pending /\ IssueWait(e)
       \/ /\ waits[e].pending
          /\ ready' = [ready EXCEPT ![e] = "pending"]
          /\ UNCHANGED <<waits, kernelWait, pc>>
    /\ UNCHANGED <<start, cq, pool, active, cancels, ring, batch, inFlight, stop>>

(* submit_adaptive_wait, one endpoint after the other.  A pending wait     *)
(* stays when its interest is still the right one; otherwise it is         *)
(* cancelled, drained and issued again, if all that failed it was the      *)
(* cancellation.                                                           *)
ArmWait(e) ==
    /\ pc = "arm" /\ ready[e] = "todo"
    /\ \A before \in 1..(e - 1) : ready[before] # "todo"
    /\ \/ ~waits[e].pending /\ IssueWait(e)
       \/ /\ waits[e].pending /\ waits[e].interest = Interest(e)
          /\ ready' = [ready EXCEPT ![e] = "pending"]
          /\ UNCHANGED <<waits, kernelWait, pc>>
       \/ /\ waits[e].pending /\ waits[e].interest # Interest(e)
          /\ kernelWait[e] # "pended"
          /\ \/ IssueWait(e)
             \/ /\ kernelWait[e] = "failed"
                /\ pc' = "shutdown" /\ UNCHANGED <<waits, kernelWait, ready>>
    /\ UNCHANGED <<start, cq, pool, active, cancels, ring, batch, inFlight, stop>>

(* CancelIoEx fails on a wait that has to be issued again.                 *)
RearmFails(e) ==
    /\ pc = "arm" /\ ready[e] = "todo"
    /\ \A before \in 1..(e - 1) : ready[before] # "todo"
    /\ waits[e].pending /\ waits[e].interest # Interest(e)
    /\ pc' = "shutdown"
    /\ UNCHANGED <<start, cq, pool, active, cancels, ring, waits, kernelWait, batch, ready,
                   inFlight, stop>>

(* Both endpoints have been asked.                                         *)
WaitsAreArmed ==
    /\ pc = "arm"
    /\ \A e \in Endpoints : ready[e] # "todo"
    /\ pc' = IF \E e \in Endpoints : ready[e] = "ready" THEN "resume" ELSE "block"
    /\ ready' = [e \in Endpoints |-> "todo"]
    /\ UNCHANGED <<start, cq, pool, active, cancels, ring, waits, kernelWait, batch, inFlight, stop>>

(* WaitForMultipleObjects returns the first event that is set, or gives up *)
(* when a stop is requested.  complete_adaptive_wait takes the result and  *)
(* rejects a response that is not for the interest asked for.              *)
Wake(e) ==
    /\ pc = "block"
    /\ kernelWait[e] # "pended"
    /\ \A before \in 1..(e - 1) : kernelWait[before] = "pended"
    /\ IF kernelWait[e] = "satisfied"
       THEN /\ pc' \in {"resume", "shutdown"}
            /\ waits' = [waits EXCEPT ![e] = NoWait]
            /\ kernelWait' = [kernelWait EXCEPT ![e] = "none"]
       ELSE pc' = "shutdown" /\ UNCHANGED <<waits, kernelWait>>
    /\ UNCHANGED <<start, cq, pool, active, cancels, ring, batch, ready, inFlight, stop>>

WakeToStop ==
    /\ pc = "block" /\ stop
    /\ \A e \in Endpoints : kernelWait[e] = "pended"
    /\ pc' = "shutdown"
    /\ UNCHANGED <<start, cq, pool, active, cancels, ring, waits, kernelWait, batch, ready,
                   inFlight, stop>>

(* post_adaptive_idle_reads: every idle slot, or the ones before the first *)
(* post_read that fails.                                                   *)
PostIdleReads ==
    /\ pc = "resume"
    /\ LET idle == {s \in Slots : active[s] = Idle} IN
       \/ CanPost(State, idle) /\ SubmitPending(ReadsPosted(State, idle), {Top})
       \/ \E s \in idle : \E before \in SUBSET (idle \ {s}) :
             /\ CanPost(State, before)
             /\ Install(PostRead(ReadsPosted(State, before), s, FALSE))
             /\ pc' = "shutdown" /\ UNCHANGED inFlight
    /\ UNCHANGED <<start, cq, cancels, waits, kernelWait, batch, ready, stop>>

-----------------------------------------------------------------------------
(***************************************************************************)
(* shutdown and Drop.                                                      *)
(***************************************************************************)

(* Drop for Runtime closes the ring, then the handles, and frees the       *)
(* buffers.  With operations in flight it aborts the process instead, and  *)
(* the kernel disposes of them.                                            *)
DropRuntime ==
    /\ CloseHandles
    /\ IF inFlight' /\ \E s \in Slots : active'[s] # Idle
       THEN pc' = "aborted" /\ ring' = {} /\ cq' = <<>>
       ELSE pc' = "closed" /\ UNCHANGED <<ring, cq>>

(* Wrong variant: the waits are cancelled and not drained.                 *)
AbandonWaits ==
    /\ waits' = [e \in Endpoints |-> NoWait]
    /\ kernelWait' = kernelWait

(* cancel_adaptive_waits: CancelIoEx on every pending wait, then           *)
(* GetOverlappedResult on every one.                                       *)
DrainWaits ==
    /\ \A e \in Endpoints : waits[e].pending => kernelWait[e] # "pended"
    /\ waits' = [e \in Endpoints |-> NoWait]
    /\ kernelWait' = [e \in Endpoints |-> IF waits[e].pending THEN "none" ELSE kernelWait[e]]

(* retire_unqueued_operations, and the marking of unsubmitted writes.      *)
Retired ==
    LET unqueued == {s \in Slots : active[s] # Idle /\ ~active[s].queued}
    IN  [State EXCEPT
            !.pool = [s \in Slots |-> [pool[s] EXCEPT !.state = IF s \in unqueued THEN "free" ELSE @]],
            !.active = [s \in Slots |->
                           IF s \in unqueued THEN Idle
                           ELSE [active[s] EXCEPT !.drain = active[s].write /\ ~active[s].submitted]]]

(* The first part of shutdown, up to its submission of what is left.       *)
BeginShutdown ==
    /\ pc = "shutdown"
    /\ DrainWaits
    /\ \/ /\ Install(Submitted(Retired)) /\ inFlight' = TRUE
          /\ pc' = "drain_writes" /\ UNCHANGED <<handle, cq>>
       \/ /\ pool' = Retired.pool /\ active' = Retired.active /\ UNCHANGED inFlight
          /\ DropRuntime
    /\ ready' = [e \in Endpoints |-> "todo"]
    /\ UNCHANGED <<adaptive, attempt, cancels, batch, stop>>

(* Wrong variant: a cancellation is never accounted for.                 *)
CompletionKeepsCancellation(next) ==
    LET r == Head(cq)
        s == r.op.slot
        cancel == r.op.kind = "cancel"
        accepted == IF cancel THEN cancels[s] = r.op.generation ELSE Valid(r)
    IN  /\ UNCHANGED inFlight
        /\ cancels' = cancels
        /\ active' = IF accepted /\ ~cancel THEN [active EXCEPT ![s] = Idle] ELSE active
        /\ pool' = IF accepted /\ ~cancel THEN [pool EXCEPT ![s].state = "free"] ELSE pool
        /\ IF accepted THEN pc' = next /\ cq' = Tail(cq) /\ UNCHANGED <<handle, ring>>
           ELSE DropRuntime

(* try_process_shutdown_completion *)
ShutdownCompletion(next) ==
    LET r == Head(cq)
        s == r.op.slot
        cancel == r.op.kind = "cancel"
        accepted == IF cancel THEN cancels[s] = r.op.generation ELSE Valid(r)
    IN  /\ UNCHANGED inFlight
        /\ cancels' = IF accepted /\ cancel THEN [cancels EXCEPT ![s] = 0] ELSE cancels
        /\ active' = IF accepted /\ ~cancel THEN [active EXCEPT ![s] = Idle] ELSE active
        /\ pool' = IF accepted /\ ~cancel THEN [pool EXCEPT ![s].state = "free"] ELSE pool
        /\ IF accepted THEN pc' = next /\ cq' = Tail(cq) /\ UNCHANGED <<handle, ring>>
           ELSE DropRuntime

DrainWrites ==
    /\ pc = "drain_writes"
    /\ IF \E s \in Slots : active[s].drain
       THEN cq # <<>> /\ ShutdownCompletion("drain_writes")
       ELSE pc' = "cancel" /\ UNCHANGED <<handle, pool, active, cancels, ring, cq, inFlight>>
    /\ UNCHANGED <<adaptive, attempt, waits, kernelWait, batch, ready, stop>>

(* queue_shutdown_cancellations and submit_cancellation_batch, once round  *)
(* the loop that ends when no operation and no cancellation is left.       *)
QueueCancellations ==
    /\ pc = "cancel"
    /\ LET targets == {s \in Slots : active[s].submitted /\ cancels[s] = 0}
           entries == {[BuildEntry(s, active[s].generation, "cancel") EXCEPT !.at = "kernel"] : s \in targets}
       IN  IF \A s \in Slots : active[s] = Idle /\ cancels[s] = 0
           THEN inFlight' = FALSE /\ UNCHANGED <<active, cancels>> /\ DropRuntime
           ELSE /\ cancels' = [s \in Slots |-> IF s \in targets THEN active[s].generation ELSE cancels[s]]
                /\ UNCHANGED <<active, inFlight>>
                /\ \/ pc' = "cancel_wait" /\ ring' = ring \cup entries /\ UNCHANGED <<handle, cq>>
                   \/ targets # {} /\ DropRuntime
    /\ UNCHANGED <<adaptive, attempt, pool, waits, kernelWait, batch, ready, stop>>

CancelCompletion ==
    /\ pc = "cancel_wait"
    /\ cq # <<>>
    /\ ShutdownCompletion("cancel")
    /\ UNCHANGED <<adaptive, attempt, waits, kernelWait, batch, ready, stop>>

(* PopIoRingCompletion, or the wait for a completion, fails in shutdown.   *)
ShutdownWaitFails ==
    /\ pc \in {"drain_writes", "cancel_wait"}
    /\ pc = "drain_writes" => \E s \in Slots : active[s].drain
    /\ UNCHANGED <<pool, active, cancels, waits, kernelWait, batch, ready, inFlight, stop,
                   adaptive, attempt>>
    /\ DropRuntime

Exited == pc \in {"closed", "aborted"} /\ UNCHANGED vars

-----------------------------------------------------------------------------
(***************************************************************************)
(* The ring, the drivers and the console handler.                          *)
(***************************************************************************)
Running == pc \notin {"closed", "aborted"}

Completion(r, result) == [op |-> r.op, result |-> result]

KernelCompletes(r) ==
    /\ r.at = "kernel" /\ r.op.kind # "cancel"
    /\ ring' = ring \ {r}
    /\ \E result \in {"ok", "busy", "failed"} \cup
                      (IF r.op.kind = "write" THEN {}
                       ELSE IF adaptive THEN {"drop", "empty"} ELSE {"drop"}) :
          cq' = Append(cq, Completion(r, result))
    /\ UNCHANGED <<start, pool, active, cancels, waits, kernelWait, pc, batch, ready, inFlight, stop>>

(* A cancellation finds its target completed, or completes it before or    *)
(* after its own completion.                                               *)
KernelCancels(r) ==
    /\ r.at = "kernel" /\ r.op.kind = "cancel"
    /\ LET targets == {t \in ring : /\ t.at = "kernel" /\ t.op.kind # "cancel"
                                    /\ t.op.slot = r.op.slot
                                    /\ t.op.generation = r.op.generation}
       IN  /\ ring' = ring \ (targets \cup {r})
           /\ \/ targets = {} /\ cq' = Append(cq, Completion(r, "failed"))
              \/ \E t \in targets :
                    \/ cq' = cq \o <<Completion(t, "failed"), Completion(r, "ok")>>
                    \/ cq' = cq \o <<Completion(r, "ok"), Completion(t, "failed")>>
    /\ UNCHANGED <<start, pool, active, cancels, waits, kernelWait, pc, batch, ready, inFlight, stop>>

(* The driver satisfies a wait, or ends it on cancellation or teardown.    *)
WaitEnds(e) ==
    /\ kernelWait[e] = "pended"
    /\ \E result \in {"satisfied", "failed"} :
          kernelWait' = [kernelWait EXCEPT ![e] = result]
    /\ UNCHANGED <<start, cq, pool, active, cancels, ring, waits, pc, batch, ready, inFlight, stop>>

(* evt_file_cleanup of the driver returns the instance to legacy mode and  *)
(* to the next owner.                                                      *)
OwnerCleanup(e) ==
    /\ handle[e] = "cleanup"
    /\ handle' = [handle EXCEPT ![e] = "closed"]
    /\ UNCHANGED <<adaptive, attempt, cq, pool, active, cancels, ring, waits, kernelWait, pc,
                   batch, ready, inFlight, stop>>

RequestStop ==
    /\ ~stop
    /\ stop' = TRUE
    /\ UNCHANGED <<start, cq, pool, active, cancels, ring, waits, kernelWait, pc, batch, ready, inFlight>>

Kernel ==
    /\ Running
    /\ \/ \E r \in ring : KernelCompletes(r) \/ KernelCancels(r)
       \/ \E e \in Endpoints : WaitEnds(e) \/ OwnerCleanup(e)
       \/ RequestStop

Thread ==
    \/ OpenEndpoint \/ NegotiateFirst \/ NegotiateSecond \/ CreateRuntime
    \/ PopCompletion \/ EndBatch
    \/ \E e \in Endpoints : ArmWait(e) \/ Wake(e)
    \/ WaitsAreArmed \/ WakeToStop \/ PostIdleReads
    \/ BeginShutdown \/ DrainWrites \/ QueueCancellations \/ CancelCompletion

Failure ==
    LoopFails \/ ShutdownWaitFails \/ \E e \in Endpoints : RearmFails(e)

Next == Thread \/ Failure \/ Kernel \/ Exited

Spec == Init /\ [][Next]_vars

(* The thread runs, without a failing call coming to its rescue; a driver  *)
(* completes every write it is given, every wait that is cancelled and the *)
(* cleanup of a closed handle, and the ring executes cancellations.  A     *)
(* read may stay pending for ever.                                         *)
FairSpec ==
    /\ Spec
    /\ WF_vars(Thread)
    /\ WF_vars(Running /\ \E r \in ring : r.op.kind = "write" /\ KernelCompletes(r))
    /\ WF_vars(Running /\ \E r \in ring : KernelCancels(r))
    /\ \A e \in Endpoints : WF_vars(Running /\ OwnerCleanup(e))
    /\ \A e \in Endpoints : WF_vars(pc \in {"arm", "shutdown"} /\ WaitEnds(e))

-----------------------------------------------------------------------------
(***************************************************************************)
(* Properties.                                                             *)
(***************************************************************************)

IsCurrent(op) ==
    /\ active[op.slot].generation = op.generation
    /\ active[op.slot].write = (op.kind = "write")
    /\ pool[op.slot] = [generation |-> op.generation, state |-> op.kind]

(* A buffer has one user: whatever the ring still holds for a slot is the  *)
(* operation the runtime believes to be active, of the slot's present      *)
(* generation, and there is one such entry.  So no completion is stale and *)
(* a read is reposted only after the operations on its buffer have ended.  *)
BufferHasOneUser ==
    /\ \A r \in ring : r.op.kind # "cancel" => IsCurrent(r.op)
    /\ \A i \in 1..Len(cq) : cq[i].op.kind # "cancel" =>
          /\ IsCurrent(cq[i].op)
          /\ \A r \in ring : r.op # cq[i].op
          /\ \A j \in 1..(i - 1) : cq[j].op # cq[i].op

(* While the runtime runs, every slot is at work or waiting to be posted   *)
(* again by an adaptive wake-up: none is lost to the pool.                 *)
NoSlotIsLost ==
    pc \in Relaying =>
        \A s \in Slots : IF active[s] = Idle THEN adaptive /\ pool[s].state = "free"
                         ELSE active[s].queued

(* Once the ring is closed and the buffers are freed, the kernel works on  *)
(* none of them, whichever step of the shutdown has failed.                *)
ClosedMeansUnused ==
    pc = "closed" => \A r \in ring : r.op.kind # "cancel" => r.at # "kernel"

(* The driver holds the OVERLAPPED of a wait only while the runtime counts *)
(* the wait as pending, so it is neither reused nor freed too early.       *)
WaitBufferIsReserved ==
    \A e \in Endpoints : kernelWait[e] # "none" => waits[e].pending

(* The thread blocks only with a wait outstanding on both endpoints, each  *)
(* for the interest its operations call for.                               *)
BlockedMeansArmed ==
    pc = "block" => \A e \in Endpoints : /\ waits[e].pending /\ kernelWait[e] # "none"
                                         /\ waits[e].interest = Interest(e)

(* The two endpoints run in the mode of the relay: a peer that fails the   *)
(* negotiation leaves no endpoint in adaptive mode, and the relay does not *)
(* start before the handles have been cleaned up and opened again.         *)
EndpointsShareTheMode ==
    pc \notin Starting \cup {"closed", "aborted"} =>
        \A e \in Endpoints : handle[e] = IF adaptive THEN "adaptive" ELSE "legacy"

(* A stop request ends the process, through every failure on the way.      *)
StopCompletes == stop ~> pc \in {"closed", "aborted"}

=============================================================================
