------------------------- MODULE SwitchRuntimeProofs -------------------------
(***************************************************************************)
(* Proofs about SwitchRuntime, for any number of slots, generations, busy  *)
(* retries and reopen attempts, and, at the end, about the forwarding      *)
(* database of the switch that the runtime drives.                         *)
(***************************************************************************)
EXTENDS SwitchRuntime, Forwarding, TLAPS

-----------------------------------------------------------------------------
(***************************************************************************)
(* The mode of the endpoints.                                              *)
(***************************************************************************)

(* What the steps of Runtime::start have settled about the endpoints.      *)
ModeInv ==
    /\ handle \in [Endpoints -> {"closed", "legacy", "adaptive", "cleanup"}]
    /\ pc = "negotiate" => \A e \in Endpoints : handle[e] = "legacy"
    /\ pc = "negotiate_peer" => handle[1] \in {"legacy", "adaptive"} /\ handle[2] = "legacy"
    /\ pc = "reopen" => adaptive = FALSE
    /\ pc = "create" => \A e \in Endpoints : handle[e] = IF adaptive THEN "adaptive" ELSE "legacy"
    /\ EndpointsShareTheMode

(* Steps that leave the endpoints alone and do not go back to the start.   *)
LEMMA ModeFrame ==
    ASSUME ModeInv, UNCHANGED <<handle, adaptive>>,
           pc' = pc \/ (pc \notin Starting \ {"create"} /\ pc' \notin Starting)
                    \/ pc' \in {"closed", "aborted"},
           pc \notin {"closed", "aborted"}
    PROVE  ModeInv'
BY Zenon DEF ModeInv, EndpointsShareTheMode, Starting

(* The handles are closed, and with them the modes they negotiated.        *)
LEMMA ModeDropped ==
    ASSUME ModeInv, CloseHandles, pc' \in {"closed", "aborted"}
    PROVE  ModeInv'
BY Zenon DEF ModeInv, EndpointsShareTheMode, Starting, CloseHandles, Dropped

(* run opens each endpoint, negotiates its mode, and opens the first one   *)
(* again when the second turns out to be standard.                         *)
LEMMA ModeStart ==
    ASSUME ModeInv, OpenEndpoint \/ NegotiateFirst \/ NegotiateSecond \/ CreateRuntime
    PROVE  ModeInv'
<1>1. CASE StartFails
  BY <1>1, ModeDropped, Zenon DEF StartFails
<1>2. CASE pc = "reopen" /\ CleanupIsPending
  BY <1>2, Zenon DEF CleanupIsPending, ModeInv, EndpointsShareTheMode, Starting, CloseHandles, Dropped
<1>3. ASSUME NEW e \in Endpoints, pc \in {"open", "reopen"}, Opened(e),
             e = IF handle[1] = "legacy" THEN 2 ELSE 1
      PROVE  ModeInv'
  BY <1>3 DEF Opened, ModeInv, EndpointsShareTheMode, Starting, Endpoints
<1>4. CASE OpenEndpoint
  BY <1>4, <1>1, <1>2, <1>3 DEF OpenEndpoint, CleanupIsPending, Endpoints
<1>5. CASE NegotiateFirst
  <2>1. CASE pc = "negotiate" /\ Negotiated(1) /\ pc' = "negotiate_peer"
    BY <2>1 DEF Negotiated, ModeInv, EndpointsShareTheMode, Starting, Endpoints
  <2> QED BY <1>5, <1>1, <2>1, Zenon DEF NegotiateFirst
<1>6. ASSUME pc = "negotiate_peer", NEW mode \in {"adaptive", "legacy"},
             NEW modes, modes = [handle EXCEPT ![2] = mode],
             adaptive' = SelectAdaptivePolling(modes),
             IF ReopenForLegacy(modes)
             THEN handle' = [e \in Endpoints |-> "cleanup"] /\ pc' = "reopen"
             ELSE handle' = modes /\ pc' = "create"
      PROVE  ModeInv'
  BY <1>6 DEF ModeInv, EndpointsShareTheMode, Starting, Endpoints, SelectAdaptivePolling,
              ReopenForLegacy
<1>7. CASE NegotiateSecond
  BY <1>7, <1>1, <1>6, Zenon DEF NegotiateSecond
<1>8. CASE CreateRuntime /\ ~StartFails
  <2>1. /\ pc = "create" /\ UNCHANGED <<handle, adaptive>>
        /\ pc' \in {"shutdown", "batch"}
    BY <1>8, Zenon DEF CreateRuntime, SubmitPending, Top
  <2> QED BY <2>1, ModeFrame, Zenon DEF Starting
<1> QED BY <1>1, <1>4, <1>5, <1>7, <1>8, Zenon

(* Neither the relay loop nor the wait protocol negotiates anew.           *)
LEMMA ModeRelay ==
    ASSUME ModeInv,
           \/ PopCompletion \/ EndBatch \/ LoopFails \/ PostIdleReads
           \/ WaitsAreArmed \/ WakeToStop
           \/ \E e \in Endpoints : ArmWait(e) \/ Wake(e) \/ RearmFails(e)
    PROVE  ModeInv'
<1>1. UNCHANGED <<handle, adaptive>> /\ pc \in Relaying /\ pc' \in Relaying \cup {"shutdown"}
  <2>1. CASE PopCompletion
    BY <2>1, Zenon DEF PopCompletion, start, Relaying
  <2>2. CASE EndBatch
    BY <2>2, Zenon DEF EndBatch, SubmitPending, start, Relaying, Top
  <2>3. CASE LoopFails \/ WaitsAreArmed \/ WakeToStop
    BY <2>3, Zenon DEF LoopFails, WaitsAreArmed, WakeToStop, start, Relaying
  <2>4. CASE PostIdleReads
    BY <2>4, Zenon DEF PostIdleReads, SubmitPending, start, Relaying, Top
  <2>5. CASE \E e \in Endpoints : ArmWait(e)
    BY <2>5, Zenon DEF ArmWait, IssueWait, start, Relaying
  <2>6. CASE \E e \in Endpoints : Wake(e) \/ RearmFails(e)
    BY <2>6, Zenon DEF Wake, RearmFails, start, Relaying
  <2> QED BY <2>1, <2>2, <2>3, <2>4, <2>5, <2>6, Zenon
<1> QED BY <1>1, ModeFrame, Zenon DEF Relaying, Starting

(* Shutdown closes both endpoints or neither.                              *)
LEMMA ModeShutdown ==
    ASSUME ModeInv,
           BeginShutdown \/ DrainWrites \/ QueueCancellations \/ CancelCompletion
                         \/ ShutdownWaitFails
    PROVE  ModeInv'
<1>1. /\ UNCHANGED adaptive
      /\ pc \in {"shutdown", "drain_writes", "cancel", "cancel_wait"}
      /\ \/ CloseHandles /\ pc' \in {"closed", "aborted"}
         \/ UNCHANGED handle /\ pc' \in {"drain_writes", "cancel", "cancel_wait"}
  <2>1. CASE BeginShutdown
    BY <2>1, Zenon DEF BeginShutdown, DropRuntime
  <2>2. CASE DrainWrites
    BY <2>2, Zenon DEF DrainWrites, ShutdownCompletion, DropRuntime
  <2>3. CASE QueueCancellations
    BY <2>3, Zenon DEF QueueCancellations, DropRuntime
  <2>4. CASE CancelCompletion
    BY <2>4, Zenon DEF CancelCompletion, ShutdownCompletion, DropRuntime
  <2>5. CASE ShutdownWaitFails
    BY <2>5, Zenon DEF ShutdownWaitFails, DropRuntime
  <2> QED BY <2>1, <2>2, <2>3, <2>4, <2>5, Zenon
<1> QED BY <1>1, ModeFrame, ModeDropped, Zenon DEF Starting

(* Every step keeps the endpoints in one mode.                             *)
LEMMA ModeStep ==
    ASSUME ModeInv, [Next]_vars
    PROVE  ModeInv'
<1>1. CASE Kernel
  <2>1. CASE UNCHANGED <<handle, adaptive, pc>>
    BY <2>1, ModeFrame, <1>1, Zenon DEF Kernel, Running
  <2>2. ASSUME NEW e \in Endpoints, OwnerCleanup(e), Running
        PROVE  ModeInv'
    BY <2>2 DEF OwnerCleanup, Running, ModeInv, EndpointsShareTheMode, Endpoints
  <2> QED BY <1>1, <2>1, <2>2, Zenon DEF Kernel, KernelCompletes, KernelCancels, WaitEnds, RequestStop,
                                 start
<1>2. CASE UNCHANGED vars
  BY <1>2, Zenon DEF vars, start, ModeInv, EndpointsShareTheMode
<1> QED BY <1>1, <1>2, ModeStart, ModeRelay, ModeShutdown, Zenon DEF Next, Thread, Failure, Exited

(* The two endpoints run in the mode of the relay, whichever answers the   *)
(* drivers give to the negotiation and however often the endpoints have to *)
(* be opened again (EndpointsShareTheMode).                                *)
THEOREM RelayRunsInOneMode == Spec => []EndpointsShareTheMode
<1>1. Init => ModeInv
  BY Zenon DEF Init, ModeInv, EndpointsShareTheMode, Starting, Endpoints
<1>2. ModeInv /\ [Next]_vars => ModeInv'
  BY ModeStep, Zenon
<1>3. ModeInv => EndpointsShareTheMode
  BY Zenon DEF ModeInv
<1> QED BY <1>1, <1>2, <1>3, PTL DEF Spec

-----------------------------------------------------------------------------
(***************************************************************************)
(* The adaptive waits.                                                     *)
(***************************************************************************)

(* A wait is with the driver exactly while it is counted as pending, and   *)
(* while the thread arms the waits the ones it has dealt with are armed.   *)
WaitInv ==
    /\ waits \in [Endpoints -> [pending : BOOLEAN, interest : Interests]]
    /\ kernelWait \in [Endpoints -> {"none", "pended", "satisfied", "failed"}]
    /\ ready \in [Endpoints -> {"todo", "pending", "ready"}]
    /\ \A e \in Endpoints : waits[e].pending <=> kernelWait[e] # "none"
    /\ pc \notin {"arm", "shutdown"} => \A e \in Endpoints : ready[e] = "todo"
    /\ pc = "arm" => \A e \in Endpoints :
          ready[e] = "pending" => waits[e].pending /\ waits[e].interest = Interest(e)
    /\ BlockedMeansArmed

(* What an endpoint waits for follows from its operations alone.           *)
LEMMA InterestFrame ==
    ASSUME NEW e \in Endpoints, UNCHANGED active
    PROVE  Interest(e)' = Interest(e) /\ Interest(e) \in Interests
BY Zenon DEF Interest, Interests

(* Steps in which the waits and the operations stay what they are.         *)
LEMMA WaitStays ==
    ASSUME WaitInv, UNCHANGED <<waits, kernelWait, ready, active, pc>>
    PROVE  WaitInv'
BY InterestFrame, Zenon DEF WaitInv, BlockedMeansArmed

(* Steps that leave the waits alone and do not block.                      *)
LEMMA WaitMoves ==
    ASSUME WaitInv, UNCHANGED <<waits, kernelWait, ready>>, pc' # "block",
           pc \notin {"arm", "shutdown"} \/ pc' = "shutdown"
    PROVE  WaitInv'
BY Zenon DEF WaitInv, BlockedMeansArmed

(* arm_adaptive_wait reserves the wait buffer of one endpoint until the    *)
(* driver, or a failed DeviceIoControl, returns it.                        *)
LEMMA WaitIssued ==
    ASSUME WaitInv, NEW e \in Endpoints, pc = "arm", UNCHANGED active, IssueWait(e)
    PROVE  WaitInv'
<1>1. /\ NoWait \in [pending : BOOLEAN, interest : Interests]
      /\ [pending |-> TRUE, interest |-> Interest(e)] \in [pending : BOOLEAN, interest : Interests]
      /\ NoWait.pending = FALSE
  BY InterestFrame, Zenon DEF NoWait, Interests
<1>2. \A x \in Endpoints : Interest(x)' = Interest(x)
  BY InterestFrame, Zenon
<1>3. /\ waits' \in [Endpoints -> [pending : BOOLEAN, interest : Interests]]
      /\ kernelWait' \in [Endpoints -> {"none", "pended", "satisfied", "failed"}]
      /\ ready' \in [Endpoints -> {"todo", "pending", "ready"}]
  <2>1. PICK w \in [pending : BOOLEAN, interest : Interests] : waits' = [waits EXCEPT ![e] = w]
    BY <1>1, Zenon DEF IssueWait
  <2>2. waits' \in [Endpoints -> [pending : BOOLEAN, interest : Interests]]
    BY <2>1, Zenon DEF WaitInv
  <2>3. kernelWait' \in [Endpoints -> {"none", "pended", "satisfied", "failed"}]
    BY Zenon DEF WaitInv, IssueWait
  <2>4. ready' \in [Endpoints -> {"todo", "pending", "ready"}]
    BY Zenon DEF WaitInv, IssueWait
  <2> QED BY <2>2, <2>3, <2>4, Zenon
<1>4. \A x \in Endpoints : waits'[x].pending <=> kernelWait'[x] # "none"
  BY <1>1 DEF WaitInv, IssueWait
<1>5. /\ pc' \in {"arm", "shutdown"}
      /\ pc' = "arm" => \A x \in Endpoints :
            ready'[x] = "pending" => waits'[x].pending /\ waits'[x].interest = Interest(x)
  BY <1>1 DEF WaitInv, IssueWait
<1> QED BY <1>2, <1>3, <1>4, <1>5 DEF WaitInv, BlockedMeansArmed

(* Arming in the loop, and rearming after a wake-up that fails.            *)
LEMMA WaitArmed ==
    ASSUME WaitInv, NEW e \in Endpoints, ArmWait(e) \/ RearmFails(e)
    PROVE  WaitInv'
<1>1. CASE IssueWait(e) /\ ArmWait(e)
  BY <1>1, WaitIssued, Zenon DEF ArmWait
<1>2. CASE pc' = "shutdown" /\ UNCHANGED <<waits, kernelWait, ready>>
  BY <1>2, WaitMoves, Zenon
<1>3. CASE /\ pc = "arm" /\ UNCHANGED <<waits, kernelWait, pc, active>>
           /\ waits[e].pending /\ waits[e].interest = Interest(e)
           /\ ready' = [ready EXCEPT ![e] = "pending"]
  BY <1>3, InterestFrame DEF WaitInv, BlockedMeansArmed
<1> QED BY <1>1, <1>2, <1>3, Zenon DEF ArmWait, RearmFails

(* WaitForMultipleObjects returns for the stop event or an endpoint, whose *)
(* wait is then completed and its buffer free.                             *)
LEMMA WaitWakes ==
    ASSUME WaitInv, WaitsAreArmed \/ WakeToStop \/ \E e \in Endpoints : Wake(e)
    PROVE  WaitInv'
<1>1. CASE WaitsAreArmed
  <2>1. UNCHANGED <<active, waits, kernelWait>> /\ ready' = [e \in Endpoints |-> "todo"]
        /\ pc' \in {"resume", "block"} /\ pc = "arm"
    BY <1>1, Zenon DEF WaitsAreArmed
  <2>2. pc' = "block" => \A e \in Endpoints : ready[e] = "pending"
    BY <1>1, Zenon DEF WaitsAreArmed, WaitInv
  <2>3. \A e \in Endpoints : Interest(e)' = Interest(e)
    BY <2>1, InterestFrame, Zenon
  <2> QED BY <2>1, <2>2, <2>3 DEF WaitInv, BlockedMeansArmed
<1>2. CASE WakeToStop
  BY <1>2, WaitMoves, Zenon DEF WakeToStop
<1>3. ASSUME NEW e \in Endpoints, Wake(e)
      PROVE  WaitInv'
  <2>1. CASE kernelWait[e] # "satisfied"
    BY <1>3, <2>1, WaitMoves, Zenon DEF Wake
  <2>2. CASE kernelWait[e] = "satisfied"
    <3>1. /\ pc = "block" /\ pc' \in {"resume", "shutdown"} /\ UNCHANGED ready
          /\ waits' = [waits EXCEPT ![e] = NoWait]
          /\ kernelWait' = [kernelWait EXCEPT ![e] = "none"]
      BY <1>3, <2>2, Zenon DEF Wake
    <3> QED BY <3>1, Zenon DEF WaitInv, BlockedMeansArmed, NoWait, Interests
  <2> QED BY <2>1, <2>2, Zenon
<1> QED BY <1>1, <1>2, <1>3, Zenon

(* cancel_adaptive_waits collects both waits before shutdown goes on.      *)
LEMMA WaitDrained ==
    ASSUME WaitInv, BeginShutdown
    PROVE  WaitInv'
<1>1. /\ pc' \in {"drain_writes", "closed", "aborted"}
      /\ ready' = [e \in Endpoints |-> "todo"]
      /\ waits' = [e \in Endpoints |-> NoWait]
      /\ kernelWait' = [e \in Endpoints |-> IF waits[e].pending THEN "none" ELSE kernelWait[e]]
  BY Zenon DEF BeginShutdown, DrainWaits, DropRuntime
<1> QED BY <1>1, Zenon DEF WaitInv, BlockedMeansArmed, NoWait, Interests

(* Every step keeps the two sides of each wait in step.                    *)
LEMMA WaitStep ==
    ASSUME WaitInv, [Next]_vars
    PROVE  WaitInv'
<1>1. CASE Kernel
  <2>1. CASE UNCHANGED <<waits, kernelWait, ready, active, pc>>
    BY <2>1, WaitStays, Zenon
  <2>2. ASSUME NEW e \in Endpoints, WaitEnds(e)
        PROVE  WaitInv'
    BY <2>2, InterestFrame DEF WaitEnds, WaitInv, BlockedMeansArmed
  <2> QED BY <1>1, <2>1, <2>2, Zenon DEF Kernel, KernelCompletes, KernelCancels, OwnerCleanup,
                                  RequestStop
<1>2. CASE UNCHANGED vars
  BY <1>2, WaitStays, Zenon DEF vars
<1>3. CASE OpenEndpoint \/ NegotiateFirst \/ NegotiateSecond \/ CreateRuntime
  <2>1. UNCHANGED <<waits, kernelWait, ready>> /\ pc \in Starting
        /\ pc' \in Starting \cup {"closed", "batch", "shutdown"}
    <3>1. CASE OpenEndpoint
      BY <1>3, <3>1, Zenon DEF OpenEndpoint, Opened, CleanupIsPending, StartFails, runtime, Starting
    <3>2. CASE NegotiateFirst
      BY <1>3, <3>2, Zenon DEF NegotiateFirst, StartFails, runtime, Starting
    <3>3. CASE NegotiateSecond
      BY <1>3, <3>3, Zenon DEF NegotiateSecond, StartFails, runtime, Starting
    <3>4. CASE CreateRuntime
      BY <1>3, <3>4, Zenon DEF CreateRuntime, SubmitPending, StartFails, runtime, Starting, Top
    <3> QED BY <1>3, <3>1, <3>2, <3>3, <3>4, Zenon
  <2> QED BY <2>1, WaitMoves, Zenon DEF Starting
<1>4. CASE PopCompletion \/ EndBatch \/ LoopFails \/ PostIdleReads
  <2>1. UNCHANGED <<waits, kernelWait, ready>> /\ pc' # "block"
        /\ (pc \in {"batch", "resume"} \/ pc' = "shutdown")
    <3>1. CASE PopCompletion
      BY <3>1, Zenon DEF PopCompletion
    <3>2. CASE EndBatch
      BY <3>2, Zenon DEF EndBatch, SubmitPending, Top
    <3>3. CASE LoopFails
      BY <3>3, Zenon DEF LoopFails
    <3>4. CASE PostIdleReads
      BY <3>4, Zenon DEF PostIdleReads, SubmitPending, Top
    <3> QED BY <1>4, <3>1, <3>2, <3>3, <3>4, Zenon
  <2> QED BY <2>1, WaitMoves, Zenon
<1>5. CASE DrainWrites \/ QueueCancellations \/ CancelCompletion \/ ShutdownWaitFails
  <2>1. UNCHANGED <<waits, kernelWait, ready>>
        /\ pc \in {"drain_writes", "cancel", "cancel_wait"}
        /\ pc' \in {"drain_writes", "cancel", "cancel_wait", "closed", "aborted"}
    <3>1. CASE DrainWrites
      BY <3>1, Zenon DEF DrainWrites, ShutdownCompletion, DropRuntime
    <3>2. CASE QueueCancellations
      BY <3>2, Zenon DEF QueueCancellations, DropRuntime
    <3>3. CASE CancelCompletion
      BY <3>3, Zenon DEF CancelCompletion, ShutdownCompletion, DropRuntime
    <3>4. CASE ShutdownWaitFails
      BY <3>4, Zenon DEF ShutdownWaitFails, DropRuntime
    <3> QED BY <1>5, <3>1, <3>2, <3>3, <3>4, Zenon
  <2> QED BY <2>1, WaitMoves, Zenon
<1> QED BY <1>1, <1>2, <1>3, <1>4, <1>5, WaitArmed, WaitWakes, WaitDrained, Zenon
        DEF Next, Thread, Failure, Exited

(* submit_adaptive_wait, complete_adaptive_wait and cancel_adaptive_waits  *)
(* keep the two sides of each wait in step through every failure.          *)
LEMMA WaitsAgree == Spec => []WaitInv
<1>1. Init => WaitInv
  BY DEF Init, WaitInv, BlockedMeansArmed, NoWait, Interests
<1>2. WaitInv /\ [Next]_vars => WaitInv'
  BY WaitStep, Zenon
<1> QED BY <1>1, <1>2, PTL DEF Spec

(* The OVERLAPPED of a wait is with the driver only while the runtime      *)
(* counts the wait as pending, so submit_adaptive_wait never reissues one. *)
THEOREM WaitBuffersAreReserved == Spec => []WaitBufferIsReserved
<1>1. WaitInv => WaitBufferIsReserved
  BY Zenon DEF WaitInv, WaitBufferIsReserved
<1> QED BY <1>1, WaitsAgree, PTL

(* WaitForMultipleObjects blocks the thread only with the right wait       *)
(* outstanding on both endpoints.                                          *)
THEOREM BlockingIsArmed == Spec => []BlockedMeansArmed
<1>1. WaitInv => BlockedMeansArmed
  BY Zenon DEF WaitInv
<1> QED BY <1>1, WaitsAgree, PTL

-----------------------------------------------------------------------------
(***************************************************************************)
(* The buffers.  The invariant is stated for the values p, a, rg and q of  *)
(* pool, active, ring and cq, since a step may post reads and submit them. *)
(***************************************************************************)
SlotPool == [generation : 0..MaxGeneration, state : {"free", "read", "write"}]

SlotActive ==
    {x \in [generation : 0..MaxGeneration, write : BOOLEAN, queued : BOOLEAN,
            submitted : BOOLEAN, retries : 0..MaxBusyRetries, drain : BOOLEAN] :
        x.generation = 0 => ~x.queued /\ ~x.submitted}

Completions == [op : Operation, result : Results]

(* The operation is the one its slot is at, and is known to be queued.     *)
AtWork(p, a, op) ==
    /\ a[op.slot].generation = op.generation
    /\ a[op.slot].write = (op.kind = "write")
    /\ a[op.slot].queued
    /\ p[op.slot] = [generation |-> op.generation, state |-> op.kind]

OneUser(p, a, rg, q) ==
    /\ \A r \in rg : r.op.kind # "cancel" => AtWork(p, a, r.op)
    /\ \A i \in 1..Len(q) : q[i].op.kind # "cancel" => AtWork(p, a, q[i].op)
    /\ \A i \in 1..Len(q) : q[i].op.kind # "cancel" => \A r \in rg : r.op # q[i].op
    /\ \A i \in 1..Len(q) : q[i].op.kind # "cancel" => \A j \in 1..Len(q) : q[j].op = q[i].op => j = i
    /\ \A r, t \in rg : r.op.kind # "cancel" /\ r.op = t.op => r = t

Typed(p, a, rg, q) ==
    /\ p \in [Slots -> SlotPool]
    /\ a \in [Slots -> SlotActive]
    /\ rg \subseteq RingEntry
    /\ q \in Seq(Completions)

(* Nothing the kernel may write to or read from is left for the slot.      *)
Unused(rg, q, s) ==
    /\ \A r \in rg : r.op.slot = s => r.op.kind = "cancel"
    /\ \A i \in 1..Len(q) : q[i].op.slot = s => q[i].op.kind = "cancel"

(* The slot is at an operation that has just been built.                   *)
Begins(p, a, s) ==
    /\ p[s].generation = a[s].generation /\ a[s].generation # 0
    /\ p[s].state \in {"read", "write"}
    /\ a[s].write = (p[s].state = "write") /\ a[s].queued

Started(p, a, T) == {BuildEntry(s, a[s].generation, p[s].state) : s \in T}

(* Slots of S that nobody uses change; those of T get a new operation.     *)
Fits(p, a, rg, q) == Typed(p, a, rg, q) /\ OneUser(p, a, rg, q)

Changes(p, a, p2, a2, S) ==
    /\ p2 \in [Slots -> SlotPool] /\ a2 \in [Slots -> SlotActive]
    /\ \A s \in Slots \ S : p2[s] = p[s] /\ a2[s] = a[s]

(* Slots that no entry of the ring refers to may change hands: their old   *)
(* operations leave no trace, and the new ones appear once.                *)
LEMMA SlotsMove ==
    ASSUME NEW p, NEW a, NEW rg, NEW q, Fits(p, a, rg, q),
           NEW S \in SUBSET Slots, \A s \in S : Unused(rg, q, s),
           NEW p2, NEW a2, Changes(p, a, p2, a2, S),
           NEW T \in SUBSET S, \A s \in T : Begins(p2, a2, s)
    PROVE  Fits(p2, a2, rg \cup Started(p2, a2, T), q)
<1> DEFINE New == Started(p2, a2, T)
           rg2 == rg \cup New
<1>0. /\ Typed(p, a, rg, q) /\ OneUser(p, a, rg, q)
      /\ p2 \in [Slots -> SlotPool] /\ a2 \in [Slots -> SlotActive]
      /\ \A s \in Slots \ S : p2[s] = p[s] /\ a2[s] = a[s]
  BY Zenon DEF Fits, Changes
<1>1. ASSUME NEW r \in New
      PROVE  \E s \in T : /\ r = BuildEntry(s, a2[s].generation, p2[s].state)
                          /\ r.op.slot = s /\ r.op.generation = a2[s].generation
                          /\ r.op.kind = p2[s].state /\ r.op.kind # "cancel"
                          /\ r.at = "built" /\ r \in RingEntry
  BY <1>0, <1>1 DEF Started, Begins, BuildEntry, SlotPool, SlotActive, RingEntry, Operation
<1>2. rg2 \subseteq RingEntry
  BY <1>0, <1>1, Zenon DEF Typed
<1>3. ASSUME NEW op \in Operation, op.kind # "cancel", op.slot \notin S, AtWork(p, a, op)
      PROVE  AtWork(p2, a2, op)
  BY <1>0, <1>3, Zenon DEF AtWork, Operation
<1>4. ASSUME NEW r \in New
      PROVE  AtWork(p2, a2, r.op)
  <2>1. PICK s \in T : /\ r = BuildEntry(s, a2[s].generation, p2[s].state)
                       /\ r.op.slot = s /\ r.op.generation = a2[s].generation
                       /\ r.op.kind = p2[s].state /\ r.op.kind # "cancel"
    BY <1>4, <1>1, Zenon
  <2>2. p2[s] \in SlotPool /\ s \in Slots
    BY <1>0, Zenon
  <2>3. p2[s] = [generation |-> r.op.generation, state |-> r.op.kind]
    BY <2>1, <2>2, Zenon DEF SlotPool, Begins
  <2> QED BY <2>1, <2>3, Zenon DEF AtWork, Begins
<1>5. \A r \in rg : r.op \in Operation /\ (r.op.kind # "cancel" => r.op.slot \notin S)
  BY <1>0, Zenon DEF Typed, RingEntry, Unused
<1>6. \A i \in 1..Len(q) : q[i].op \in Operation /\ (q[i].op.kind # "cancel" => q[i].op.slot \notin S)
  <2>1. \A i \in 1..Len(q) : q[i] \in Completions
    BY <1>0 DEF Typed
  <2> QED BY <2>1, Zenon DEF Completions, Unused
<1>7. \A r \in rg2 : r.op.kind # "cancel" => AtWork(p2, a2, r.op)
  BY <1>0, <1>3, <1>4, <1>5, Zenon DEF OneUser
<1>8. \A i \in 1..Len(q) : q[i].op.kind # "cancel" => AtWork(p2, a2, q[i].op)
  BY <1>0, <1>3, <1>6, Zenon DEF OneUser
<1>9. \A i \in 1..Len(q) : q[i].op.kind # "cancel" => \A r \in rg2 : r.op # q[i].op
  BY <1>0, <1>1, <1>6 DEF OneUser
<1>10. \A r, t \in rg2 : r.op.kind # "cancel" /\ r.op = t.op => r = t
  <2>1. ASSUME NEW r \in New, NEW t \in New, r.op = t.op PROVE r = t
    BY <2>1, <1>1 DEF BuildEntry
  <2>2. ASSUME NEW r \in New, NEW t \in rg, r.op = t.op PROVE FALSE
    BY <2>2, <1>1, <1>5, Zenon
  <2>3. ASSUME NEW r \in rg2, NEW t \in rg2, r.op.kind # "cancel", r.op = t.op PROVE r = t
    <3>1. CASE r \in rg /\ t \in rg
      BY <1>0, <2>3, <3>1, Zenon DEF OneUser
    <3> QED BY <2>1, <2>2, <2>3, <3>1, Zenon
  <2> QED BY <2>3, Zenon
<1> QED BY <1>0, <1>2, <1>7, <1>8, <1>9, <1>10, Zenon DEF Fits, Typed, OneUser

(* The submission of what has been built.                                  *)
LEMMA SubmitMoves ==
    ASSUME NEW st, Fits(st.pool, st.active, st.ring, cq),
           st = [pool |-> st.pool, active |-> st.active, ring |-> st.ring, error |-> st.error],
           NEW sb, sb = Submitted(st)
    PROVE  /\ Fits(sb.pool, sb.active, sb.ring, cq)
           /\ sb.pool = st.pool
           /\ \A s \in Slots : /\ sb.active[s].queued = st.active[s].queued
                               /\ (st.active[s].queued \/ st.active[s] = Idle) =>
                                     (sb.active[s] = Idle <=> st.active[s] = Idle)
<1> DEFINE Kernel2(r) == [r EXCEPT !.at = "kernel"]
           act == [s \in Slots |-> [st.active[s] EXCEPT !.submitted = @ \/ st.active[s].queued]]
<1>0. Typed(st.pool, st.active, st.ring, cq) /\ OneUser(st.pool, st.active, st.ring, cq)
  BY Zenon DEF Fits
<1>1. sb.pool = st.pool /\ sb.active = act /\ sb.ring = {Kernel2(r) : r \in st.ring}
  BY Zenon DEF Submitted
<1>2. act \in [Slots -> SlotActive]
  <2>1. ASSUME NEW s \in Slots PROVE act[s] \in SlotActive
    <3>1. st.active[s] \in SlotActive
      BY <1>0, Zenon DEF Typed
    <3> QED BY <3>1, Zenon DEF SlotActive
  <2> QED BY <2>1, Zenon
<1>3. \A s \in Slots : /\ act[s].generation = st.active[s].generation
                       /\ act[s].write = st.active[s].write
                       /\ act[s].queued = st.active[s].queued
  BY <1>0, Zenon DEF Typed, SlotActive
<1>4. ASSUME NEW s \in Slots, st.active[s].queued \/ st.active[s] = Idle
      PROVE  act[s] = Idle <=> st.active[s] = Idle
  <2>1. st.active[s] \in SlotActive
    BY <1>0, Zenon DEF Typed
  <2>2. CASE st.active[s] = Idle
    <3>1. act[s] = [Idle EXCEPT !.submitted = @ \/ Idle.queued]
      BY <2>2, Zenon
    <3> QED BY <2>2, <3>1, Zenon DEF Idle
  <2>3. CASE st.active[s].queued
    BY <2>3, <1>3 DEF Idle
  <2> QED BY <1>4, <2>2, <2>3, Zenon
<1>5. \A r \in st.ring : Kernel2(r) \in RingEntry /\ Kernel2(r).op = r.op /\ Kernel2(r).at = "kernel"
  BY <1>0, Zenon DEF Typed, RingEntry
<1> HIDE DEF act, Kernel2
<1>6. \A t \in sb.ring : \E r \in st.ring : t = Kernel2(r) /\ t.op = r.op /\ t \in RingEntry
  BY <1>1, <1>5, Zenon
<1>7. ASSUME NEW op \in Operation, AtWork(st.pool, st.active, op)
      PROVE  AtWork(sb.pool, sb.active, op)
  BY <1>7, <1>1, <1>3, Zenon DEF AtWork, Operation
<1>8. \A r \in st.ring : r.op \in Operation
  BY <1>0, Zenon DEF Typed, RingEntry
<1>9. \A i \in 1..Len(cq) : cq[i].op \in Operation
  <2>1. \A i \in 1..Len(cq) : cq[i] \in Completions
    BY <1>0 DEF Typed
  <2> QED BY <2>1, Zenon DEF Completions
<1>10. \A r \in sb.ring : r.op.kind # "cancel" => AtWork(sb.pool, sb.active, r.op)
  BY <1>6, <1>7, <1>8, <1>0 DEF OneUser
<1>11. \A i \in 1..Len(cq) : cq[i].op.kind # "cancel" => AtWork(sb.pool, sb.active, cq[i].op)
  BY <1>7, <1>9, <1>0, Zenon DEF OneUser
<1>12. \A i \in 1..Len(cq) : cq[i].op.kind # "cancel" => \A r \in sb.ring : r.op # cq[i].op
  BY <1>6, <1>0 DEF OneUser
<1>13. \A r, t \in sb.ring : r.op.kind # "cancel" /\ r.op = t.op => r = t
  BY <1>6, <1>0 DEF OneUser
<1>14. Typed(sb.pool, sb.active, sb.ring, cq)
  BY <1>1, <1>2, <1>6, <1>0, Zenon DEF Typed
<1>15. OneUser(sb.pool, sb.active, sb.ring, cq)
  BY <1>10, <1>11, <1>12, <1>13, <1>0, Zenon DEF OneUser
<1> QED BY <1>1, <1>3, <1>4, <1>14, <1>15, Zenon DEF Fits

-----------------------------------------------------------------------------
(* What an operator on the runtime's state does to slot s: without a new   *)
(* operation, or with one.                                                 *)
IsState(st) ==
    /\ st = [pool |-> st.pool, active |-> st.active, ring |-> st.ring, error |-> st.error]
    /\ st.pool \in [Slots -> SlotPool] /\ st.active \in [Slots -> SlotActive]

Touches(from, to, s) ==
    /\ IsState(to)
    /\ \A x \in Slots \ {s} : to.pool[x] = from.pool[x] /\ to.active[x] = from.active[x]

Posts(from, to, s) ==
    /\ Begins(to.pool, to.active, s)
    /\ to.ring = from.ring \cup {BuildEntry(s, to.active[s].generation, to.pool[s].state)}

(* The values post_read and post_write give an ActiveOperation.            *)
LEMMA IdleIsActive ==
    /\ Idle \in SlotActive
    /\ \A g \in 1..MaxGeneration :
          /\ [Idle EXCEPT !.generation = g, !.queued = TRUE] \in SlotActive
          /\ [Idle EXCEPT !.generation = g, !.write = TRUE, !.queued = TRUE] \in SlotActive
<1>1. 0 \in 0..MaxGeneration /\ 0 \in 0..MaxBusyRetries /\ 1..MaxGeneration \subseteq 0..MaxGeneration
  BY SwitchAssumption
<1>2. Idle \in SlotActive
  BY <1>1, Zenon DEF Idle, SlotActive
<1>3. ASSUME NEW g \in 1..MaxGeneration
      PROVE  /\ [Idle EXCEPT !.generation = g, !.queued = TRUE] \in SlotActive
             /\ [Idle EXCEPT !.generation = g, !.write = TRUE, !.queued = TRUE] \in SlotActive
  <2> DEFINE Rec == [generation : 0..MaxGeneration, write : BOOLEAN, queued : BOOLEAN,
                     submitted : BOOLEAN, retries : 0..MaxBusyRetries, drain : BOOLEAN]
             x == [Idle EXCEPT !.generation = g, !.queued = TRUE]
             y == [Idle EXCEPT !.generation = g, !.write = TRUE, !.queued = TRUE]
  <2>1. g # 0 /\ g \in 0..MaxGeneration
    BY <1>1
  <2>2. Idle \in Rec
    BY <1>2, Zenon DEF SlotActive
  <2>3. x \in Rec /\ y \in Rec
    BY <2>1, <2>2, Zenon
  <2>4. x.generation = g /\ y.generation = g
    BY Zenon DEF Idle
  <2>5. x \in SlotActive /\ y \in SlotActive
    BY <2>1, <2>3, <2>4, Zenon DEF SlotActive
  <2> QED BY <2>5, Zenon
<1> QED BY <1>2, <1>3, Zenon

(* post_read changes one slot: it builds an entry for its new generation,  *)
(* or reports an error and builds none.                                    *)
LEMMA PostReadTouches ==
    ASSUME NEW st, IsState(st), NEW s \in Slots, NEW built, NEW to, to = PostRead(st, s, built)
    PROVE  /\ Touches(st, to, s)
           /\ \/ to.error = TRUE /\ to.ring = st.ring
              \/ to.error = st.error /\ Posts(st, to, s)
<1> DEFINE g == st.pool[s].generation + 1
           np == [generation |-> g, state |-> "read"]
           na == [Idle EXCEPT !.generation = g, !.queued = TRUE]
<1>1. st.pool[s] \in SlotPool
  BY Zenon DEF IsState
<1>2. st.pool[s].generation \in 0..MaxGeneration /\ MaxGeneration \in Nat
  BY <1>1, SwitchAssumption, Zenon DEF SlotPool
<1>3. CASE st.pool[s].state # "free" \/ g > MaxGeneration
  <2>1. to = [st EXCEPT !.error = TRUE]
    BY <1>3, Zenon DEF PostRead
  <2>2. to = [pool |-> st.pool, active |-> st.active, ring |-> st.ring, error |-> TRUE]
    BY <2>1, Zenon DEF IsState
  <2> QED BY <2>2 DEF Touches, IsState
<1>4. CASE ~(st.pool[s].state # "free" \/ g > MaxGeneration)
  <2>1. g \in 1..MaxGeneration
    BY <1>2, <1>4
  <2>2. np \in SlotPool /\ na \in SlotActive
    <3>1. np \in SlotPool
      BY <2>1 DEF SlotPool
    <3> QED BY <2>1, <3>1, IdleIsActive, Zenon
  <2>3. CASE ~built \/ ~HasRoom(st.ring)
    <3>1. to = [[st EXCEPT !.pool[s] = np] EXCEPT !.error = TRUE]
      BY <1>4, <2>3, Zenon DEF PostRead
    <3>2. to = [pool |-> [st.pool EXCEPT ![s] = np], active |-> st.active, ring |-> st.ring, error |-> TRUE]
      BY <3>1, Zenon DEF IsState
    <3> QED BY <3>2, <2>2 DEF Touches, IsState
  <2>4. CASE ~(~built \/ ~HasRoom(st.ring))
    <3>1. to = [[st EXCEPT !.pool[s] = np] EXCEPT !.active[s] = na,
                                                  !.ring = @ \cup {BuildEntry(s, g, "read")}]
      BY <1>4, <2>4, Zenon DEF PostRead
    <3>2. to = [pool |-> [st.pool EXCEPT ![s] = np], active |-> [st.active EXCEPT ![s] = na],
                ring |-> st.ring \cup {BuildEntry(s, g, "read")}, error |-> st.error]
      BY <3>1, Zenon DEF IsState
    <3>3. Touches(st, to, s)
      BY <3>2, <2>2 DEF Touches, IsState
    <3>4. /\ to.pool[s] = np /\ to.active[s] = na /\ to.error = st.error
          /\ to.ring = st.ring \cup {BuildEntry(s, g, "read")}
      BY <3>2 DEF IsState
    <3>5. /\ na.generation = g /\ na.queued /\ na.write = FALSE
          /\ np.generation = g /\ np.state = "read"
      BY Zenon DEF Idle
    <3> HIDE DEF np, na
    <3>6. Begins(to.pool, to.active, s)
      <4>1. g # 0
        BY <2>1
      <4>2. np.state # "write" /\ np.state \in {"read", "write"}
        BY <3>5, Zenon
      <4> HIDE DEF g
      <4> QED BY <3>4, <3>5, <4>1, <4>2, Zenon DEF Begins
    <3>7. Posts(st, to, s)
      BY <3>4, <3>5, <3>6, Zenon DEF Posts
    <3> QED BY <3>3, <3>4, <3>7, Zenon
  <2> QED BY <2>3, <2>4, Zenon
<1> QED BY <1>3, <1>4, Zenon

(* post_write changes one slot, as post_read does, and takes the           *)
(* generation of the read it forwards.                                     *)
LEMMA PostWriteTouches ==
    ASSUME NEW st, IsState(st), NEW s \in Slots, NEW built, NEW to, to = PostWrite(st, s, built),
           st.pool[s].generation # 0
    PROVE  /\ Touches(st, to, s)
           /\ \/ to.error = TRUE /\ to.ring = st.ring
              \/ to.error = st.error /\ Posts(st, to, s)
<1> DEFINE g == st.pool[s].generation
           np == [generation |-> g, state |-> "write"]
           na == [Idle EXCEPT !.generation = g, !.write = TRUE, !.queued = TRUE]
<1>1. st.pool[s] \in SlotPool
  BY Zenon DEF IsState
<1>2. g \in 1..MaxGeneration
  BY <1>1, SwitchAssumption DEF SlotPool
<1>3. np \in SlotPool /\ na \in SlotActive
  <2>1. np \in SlotPool
    BY <1>2 DEF SlotPool
  <2> QED BY <1>2, <2>1, IdleIsActive, Zenon
<1>4. SetSlot(st, s, "write") = [st EXCEPT !.pool[s] = np]
  <2>1. [st.pool[s] EXCEPT !.state = "write"] = np
    BY <1>1 DEF SlotPool
  <2> QED BY <2>1, Zenon DEF SetSlot
<1>5. CASE ~built \/ ~HasRoom(st.ring)
  <2>1. to = [[st EXCEPT !.pool[s] = np] EXCEPT !.error = TRUE]
    BY <1>4, <1>5, Zenon DEF PostWrite
  <2>2. to = [pool |-> [st.pool EXCEPT ![s] = np], active |-> st.active, ring |-> st.ring, error |-> TRUE]
    BY <2>1, Zenon DEF IsState
  <2> QED BY <2>2, <1>3 DEF Touches, IsState
<1>6. CASE ~(~built \/ ~HasRoom(st.ring))
  <2>1. to = [[st EXCEPT !.pool[s] = np] EXCEPT !.active[s] = na,
                                                !.ring = @ \cup {BuildEntry(s, g, "write")}]
    BY <1>4, <1>6, Zenon DEF PostWrite
  <2>2. to = [pool |-> [st.pool EXCEPT ![s] = np], active |-> [st.active EXCEPT ![s] = na],
              ring |-> st.ring \cup {BuildEntry(s, g, "write")}, error |-> st.error]
    BY <2>1, Zenon DEF IsState
  <2>3. Touches(st, to, s)
    BY <2>2, <1>3 DEF Touches, IsState
  <2>4. /\ to.pool[s] = np /\ to.active[s] = na /\ to.error = st.error
        /\ to.ring = st.ring \cup {BuildEntry(s, g, "write")}
    BY <2>2 DEF IsState
  <2>5. /\ na.generation = g /\ na.queued /\ na.write = TRUE
        /\ np.generation = g /\ np.state = "write"
    BY Zenon DEF Idle
  <2> HIDE DEF np, na
  <2>6. Posts(st, to, s)
    BY <2>4, <2>5, <1>2, Zenon DEF Posts, Begins
  <2> QED BY <2>3, <2>4, <2>6, Zenon
<1> QED BY <1>5, <1>6, Zenon

(* A read the adaptive relay does not repeat frees its slot.               *)
LEMMA FreedTouches ==
    ASSUME NEW st, IsState(st), NEW s \in Slots, NEW to,
           to = SetSlot([st EXCEPT !.active[s] = Idle], s, "free")
    PROVE  /\ Touches(st, to, s) /\ to.ring = st.ring /\ to.error = st.error
           /\ to.active[s] = Idle /\ to.pool[s].state = "free"
<1> DEFINE np == [st.pool[s] EXCEPT !.state = "free"]
<1>1. st.pool[s] \in SlotPool
  BY Zenon DEF IsState
<1>2. np \in SlotPool /\ np.state = "free"
  BY <1>1, Zenon DEF SlotPool
<1>3. to = [[st EXCEPT !.active[s] = Idle] EXCEPT !.pool[s] = np]
  BY Zenon DEF SetSlot, IsState
<1>4. to = [pool |-> [st.pool EXCEPT ![s] = np], active |-> [st.active EXCEPT ![s] = Idle],
            ring |-> st.ring, error |-> st.error]
  BY <1>3, Zenon DEF IsState
<1>5. Idle \in SlotActive
  BY IdleIsActive, Zenon
<1> HIDE DEF np
<1> QED BY <1>2, <1>4, <1>5 DEF Touches, IsState

(* A repeated operation is the slot's operation under its old generation.  *)
LEMMA RetryTouches ==
    ASSUME NEW st, IsState(st), NEW s \in Slots, NEW built, NEW to, to = Retry(st, s, built),
           Begins(st.pool, st.active, s)
    PROVE  /\ Touches(st, to, s)
           /\ \/ to.error = TRUE /\ to.ring = st.ring
              \/ to.error = st.error /\ Posts(st, to, s)
<1> DEFINE x == st.active[s]
           again == [x EXCEPT !.retries = @ + 1, !.submitted = FALSE, !.queued = FALSE]
           queued == [again EXCEPT !.queued = TRUE]
<1>1. x \in SlotActive /\ x.generation # 0 /\ st.pool[s] \in SlotPool
  BY Zenon DEF IsState, Begins
<1>2. CASE ~x.submitted
  <2>1. to = [st EXCEPT !.error = TRUE]
    BY <1>2, Zenon DEF Retry
  <2>2. to = [pool |-> st.pool, active |-> st.active, ring |-> st.ring, error |-> TRUE]
    BY <2>1, Zenon DEF IsState
  <2> QED BY <2>2 DEF Touches, IsState
<1>3. CASE x.submitted /\ x.retries >= MaxBusyRetries
  <2> DEFINE np == [st.pool[s] EXCEPT !.state = "free"]
  <2>1. np \in SlotPool
    BY <1>1, Zenon DEF SlotPool
  <2>2. to = [[st EXCEPT !.pool[s] = np] EXCEPT !.active[s] = Idle, !.error = TRUE]
    BY <1>3, Zenon DEF Retry, SetSlot
  <2>3. to = [pool |-> [st.pool EXCEPT ![s] = np], active |-> [st.active EXCEPT ![s] = Idle],
              ring |-> st.ring, error |-> TRUE]
    BY <2>2, Zenon DEF IsState
  <2>4. Idle \in SlotActive
    BY IdleIsActive, Zenon
  <2> HIDE DEF np
  <2> QED BY <2>1, <2>3, <2>4 DEF Touches, IsState
<1>4. CASE x.submitted /\ ~(x.retries >= MaxBusyRetries)
  <2>1. again \in SlotActive /\ queued \in SlotActive
    <3>1. x.retries \in Nat /\ x.retries + 1 \in 0..MaxBusyRetries
      BY <1>1, <1>4, SwitchAssumption DEF SlotActive
    <3> DEFINE Rec == [generation : 0..MaxGeneration, write : BOOLEAN, queued : BOOLEAN,
                       submitted : BOOLEAN, retries : 0..MaxBusyRetries, drain : BOOLEAN]
    <3>2. x \in Rec
      BY <1>1, Zenon DEF SlotActive
    <3>3. again \in Rec /\ again.generation = x.generation
      BY <3>1, <3>2, Zenon
    <3>4. queued \in Rec /\ queued.generation = x.generation
      <4> HIDE DEF again
      <4> QED BY <3>3, Zenon
    <3> HIDE DEF again, queued
    <3> QED BY <1>1, <3>3, <3>4, Zenon DEF SlotActive
  <2>2. CASE ~built \/ ~HasRoom(st.ring)
    <3>1. to = [st EXCEPT !.active[s] = again, !.error = TRUE]
      BY <1>4, <2>2, Zenon DEF Retry
    <3> HIDE DEF again
    <3>2. to = [pool |-> st.pool, active |-> [st.active EXCEPT ![s] = again], ring |-> st.ring,
                error |-> TRUE]
      BY <3>1, Zenon DEF IsState
    <3> QED BY <2>1, <3>2 DEF Touches, IsState
  <2>3. CASE ~(~built \/ ~HasRoom(st.ring))
    <3> DEFINE k == IF x.write THEN "write" ELSE "read"
    <3>1. to = [st EXCEPT !.active[s] = queued,
                          !.ring = @ \cup {BuildEntry(s, x.generation, k)}]
      BY <1>4, <2>3, Zenon DEF Retry
    <3>2. queued.generation = x.generation /\ queued.write = x.write /\ queued.queued = TRUE
      BY <1>1, Zenon DEF SlotActive
    <3>3. st.pool[s].state = k
      BY Zenon DEF Begins
    <3> HIDE DEF again, queued, k
    <3>4. to = [pool |-> st.pool, active |-> [st.active EXCEPT ![s] = queued],
                ring |-> st.ring \cup {BuildEntry(s, x.generation, k)}, error |-> st.error]
      BY <3>1, Zenon DEF IsState
    <3>5. Touches(st, to, s)
      BY <2>1, <3>4 DEF Touches, IsState
    <3>6. to.pool = st.pool /\ to.active[s] = queued /\ to.error = st.error
          /\ to.ring = st.ring \cup {BuildEntry(s, x.generation, k)}
      BY <3>4 DEF IsState
    <3>7. Begins(to.pool, to.active, s)
      BY <3>2, <3>6, Zenon DEF Begins
    <3>8. Posts(st, to, s)
      BY <3>2, <3>3, <3>6, <3>7, Zenon DEF Posts
    <3> QED BY <3>5, <3>6, <3>8, Zenon
  <2> QED BY <2>2, <2>3, Zenon
<1> QED BY <1>2, <1>3, <1>4, Zenon

(* process_completion leaves the slot of a valid completion at work, or    *)
(* free for the next adaptive wake-up, or fails.                           *)
LEMMA ProcessedTouches ==
    ASSUME IsState(State), NEW r, r.op.slot \in Slots, Valid(r), NEW built,
           Begins(pool, active, r.op.slot), NEW to, to = Processed(r, built)
    PROVE  LET s == r.op.slot IN
           /\ Touches(State, to, s)
           /\ \/ /\ to.ring = ring
                 /\ \/ to.error = TRUE
                    \/ adaptive /\ to.active[s] = Idle /\ to.pool[s].state = "free"
              \/ to.error = FALSE /\ Posts(State, to, s)
<1> DEFINE s == r.op.slot
           inactive == [State EXCEPT !.active[s] = Idle]
           freed == SetSlot(inactive, s, "free")
<1>1. State.pool = pool /\ State.active = active /\ State.ring = ring /\ State.error = FALSE
  BY Zenon DEF State
<1>2. /\ Touches(State, freed, s) /\ freed.ring = ring /\ freed.error = FALSE
      /\ freed.active[s] = Idle /\ freed.pool[s].state = "free" /\ IsState(freed)
  BY FreedTouches, <1>1 DEF Touches
<1>3. /\ Touches(State, inactive, s) /\ inactive.ring = ring /\ inactive.error = FALSE
      /\ inactive.pool = pool /\ IsState(inactive)
  <2>1. inactive = [pool |-> pool, active |-> [active EXCEPT ![s] = Idle], ring |-> ring, error |-> FALSE]
    <3>1. ASSUME NEW st, IsState(st)
          PROVE  [st EXCEPT !.active[s] = Idle] =
                    [pool |-> st.pool, active |-> [st.active EXCEPT ![s] = Idle], ring |-> st.ring,
                     error |-> st.error]
      BY <3>1 DEF IsState
    <3> QED BY <3>1, <1>1, Zenon
  <2>2. Idle \in SlotActive
    BY IdleIsActive, Zenon
  <2> HIDE DEF inactive
  <2> QED BY <2>1, <2>2, <1>1, Zenon DEF Touches, IsState
<1>4. ASSUME NEW mid, Touches(State, mid, s), mid.ring = ring, Touches(mid, to, s)
      PROVE  Touches(State, to, s)
  BY <1>4, Zenon DEF Touches
<1>5. ASSUME NEW mid, mid.ring = ring, Posts(mid, to, s)
      PROVE  Posts(State, to, s)
  BY <1>5, <1>1, Zenon DEF Posts
<1> HIDE DEF inactive, freed
<1>6. CASE r.result = "busy"
  <2>1. to = Retry(State, s, built)
    BY <1>6, Zenon DEF Processed
  <2>2. Begins(State.pool, State.active, s)
    BY <1>1, Zenon
  <2>3. /\ Touches(State, to, s)
        /\ (to.error = TRUE /\ to.ring = State.ring) \/ (to.error = State.error /\ Posts(State, to, s))
    BY <2>1, <2>2, RetryTouches, Zenon
  <2> QED BY <2>3, <1>1, Zenon
<1>7. CASE r.result # "busy" /\ r.result = "empty" /\ adaptive /\ ~active[s].write
  <2>1. to = freed
    BY <1>7, Zenon DEF Processed, freed, inactive
  <2> QED BY <2>1, <1>2, <1>7, Zenon
<1>8. CASE /\ r.result # "busy" /\ r.result \in {"failed", "empty"}
           /\ ~(r.result = "empty" /\ adaptive /\ ~active[s].write)
  <2>1. to = [freed EXCEPT !.error = TRUE]
    BY <1>8, Zenon DEF Processed, freed, inactive
  <2>2. to = [pool |-> freed.pool, active |-> freed.active, ring |-> freed.ring, error |-> TRUE]
    BY <2>1, <1>2, Zenon DEF IsState
  <2>3. Touches(State, to, s) /\ to.error = TRUE /\ to.ring = ring
    BY <2>2, <1>2 DEF Touches, IsState
  <2> QED BY <2>3, Zenon
<1>9. CASE r.result \notin {"busy", "failed", "empty"} /\ (active[s].write \/ r.result = "drop")
  <2>1. to = PostRead(freed, s, built)
    BY <1>9, Zenon DEF Processed, freed, inactive
  <2>2. /\ Touches(freed, to, s)
        /\ \/ to.error = TRUE /\ to.ring = freed.ring
           \/ to.error = freed.error /\ Posts(freed, to, s)
    BY <2>1, <1>2, PostReadTouches, Zenon
  <2> QED BY <2>2, <1>2, <1>4, <1>5, Zenon
<1>10. CASE r.result \notin {"busy", "failed", "empty"} /\ ~(active[s].write \/ r.result = "drop")
  <2>1. to = PostWrite(inactive, s, built)
    BY <1>10, Zenon DEF Processed, inactive
  <2>2. inactive.pool[s].generation # 0
    BY <1>3, Zenon DEF Begins
  <2>3. /\ Touches(inactive, to, s)
        /\ (to.error = TRUE /\ to.ring = inactive.ring)
              \/ (to.error = inactive.error /\ Posts(inactive, to, s))
    BY <2>1, <2>2, <1>3, PostWriteTouches, Zenon
  <2> QED BY <2>3, <1>3, <1>4, <1>5, Zenon
<1> QED BY <1>6, <1>7, <1>8, <1>9, <1>10, Zenon

-----------------------------------------------------------------------------
(* The operations the ring and its completion queue hold are typed.        *)
LEMMA OpsTyped ==
    ASSUME NEW p, NEW a, NEW rg, NEW q, Typed(p, a, rg, q)
    PROVE  /\ \A r \in rg : r.op \in Operation
           /\ Len(q) \in Nat
           /\ \A i \in 1..Len(q) : q[i] \in Completions /\ q[i].op \in Operation
<1>1. Len(q) \in Nat /\ \A i \in 1..Len(q) : q[i] \in Completions
  BY DEF Typed
<1> QED BY <1>1, Zenon DEF Typed, RingEntry, Completions

(* A free slot has no operation in the ring or the completion queue.       *)
LEMMA FreeIsUnused ==
    ASSUME NEW p, NEW a, NEW rg, NEW q, Fits(p, a, rg, q),
           NEW s \in Slots, p[s].state = "free"
    PROVE  Unused(rg, q, s)
<1>0. Typed(p, a, rg, q) /\ OneUser(p, a, rg, q)
  BY Zenon DEF Fits
<1>1. ASSUME NEW op \in Operation, op.slot = s, AtWork(p, a, op)
      PROVE  FALSE
  BY <1>1 DEF AtWork, Operation
<1> QED BY <1>0, <1>1, OpsTyped, Zenon DEF Unused, OneUser

(* pop_completion takes one completion off the queue and leaves the        *)
(* others.                                                                 *)
LEMMA TailMoves ==
    ASSUME NEW p, NEW a, NEW rg, NEW q, Fits(p, a, rg, q), q # <<>>
    PROVE  /\ Fits(p, a, rg, Tail(q))
           /\ Head(q) = q[1] /\ 1 \in 1..Len(q)
           /\ Len(Tail(q)) = Len(q) - 1
           /\ \A i \in 1..Len(Tail(q)) : Tail(q)[i] = q[i + 1] /\ i + 1 \in 1..Len(q)
<1>0. Typed(p, a, rg, q) /\ OneUser(p, a, rg, q)
  BY Zenon DEF Fits
<1>1. q \in Seq(Completions)
  BY <1>0, Zenon DEF Typed
<1>2. /\ Tail(q) \in Seq(Completions) /\ Head(q) = q[1] /\ Len(q) \in Nat /\ 1 \in 1..Len(q)
      /\ Len(Tail(q)) = Len(q) - 1
      /\ \A i \in 1..Len(Tail(q)) : Tail(q)[i] = q[i + 1] /\ i + 1 \in 1..Len(q)
  BY <1>1
<1>3. Typed(p, a, rg, Tail(q))
  BY <1>0, <1>2, Zenon DEF Typed
<1>4. \A i \in 1..Len(Tail(q)) : Tail(q)[i].op.kind # "cancel" =>
          /\ AtWork(p, a, Tail(q)[i].op) /\ \A r \in rg : r.op # Tail(q)[i].op
  BY <1>0, <1>2 DEF OneUser
<1>5. \A i \in 1..Len(Tail(q)) : Tail(q)[i].op.kind # "cancel" =>
          \A j \in 1..Len(Tail(q)) : Tail(q)[j].op = Tail(q)[i].op => j = i
  <2>1. ASSUME NEW i \in 1..Len(Tail(q)), NEW j \in 1..Len(Tail(q)),
               Tail(q)[i].op.kind # "cancel", Tail(q)[j].op = Tail(q)[i].op
        PROVE  j = i
    <3>1. /\ q[i + 1].op.kind # "cancel" /\ q[j + 1].op = q[i + 1].op
          /\ i + 1 \in 1..Len(q) /\ j + 1 \in 1..Len(q)
      BY <2>1, <1>2, Zenon
    <3>2. j + 1 = i + 1
      BY <1>0, <3>1, Zenon DEF OneUser
    <3> QED BY <3>2, <1>2
  <2> QED BY <2>1, Zenon
<1>6. OneUser(p, a, rg, Tail(q))
  BY <1>0, <1>4, <1>5, Zenon DEF OneUser
<1> QED BY <1>2, <1>3, <1>6, Zenon DEF Fits

(* The completion that is popped was the last trace of its operation.      *)
LEMMA HeadIsLast ==
    ASSUME NEW p, NEW a, NEW rg, NEW q, Fits(p, a, rg, q), q # <<>>,
           Head(q).op.kind # "cancel"
    PROVE  /\ Head(q).op.slot \in Slots
           /\ Unused(rg, Tail(q), Head(q).op.slot)
           /\ Begins(p, a, Head(q).op.slot)
<1> DEFINE h == q[1].op
<1>0. Typed(p, a, rg, q) /\ OneUser(p, a, rg, q)
  BY Zenon DEF Fits
<1>1. /\ Head(q) = q[1] /\ 1 \in 1..Len(q)
      /\ \A i \in 1..Len(Tail(q)) : Tail(q)[i] = q[i + 1] /\ i + 1 \in 1..Len(q)
  BY TailMoves, Zenon
<1>2. h \in Operation /\ h.kind # "cancel" /\ AtWork(p, a, h)
  BY <1>0, <1>1, OpsTyped, Zenon DEF OneUser
<1>3. ASSUME NEW op \in Operation, op.kind # "cancel", op.slot = h.slot, AtWork(p, a, op)
      PROVE  op = h
  <2>1. op.generation = h.generation
    BY <1>2, <1>3, Zenon DEF AtWork
  <2>2. op.kind = h.kind
    BY <1>2, <1>3 DEF AtWork
  <2> QED BY <1>2, <1>3, <2>1, <2>2 DEF Operation
<1>4. ASSUME NEW r \in rg, r.op.slot = h.slot, r.op.kind # "cancel"
      PROVE  FALSE
  BY <1>0, <1>4, <1>3, <1>2, <1>1, OpsTyped, Zenon DEF OneUser
<1>5. ASSUME NEW i \in 1..Len(Tail(q)), Tail(q)[i].op.slot = h.slot, Tail(q)[i].op.kind # "cancel"
      PROVE  FALSE
  <2>1. /\ q[i + 1].op.slot = h.slot /\ q[i + 1].op.kind # "cancel" /\ i + 1 \in 1..Len(q)
        /\ q[i + 1].op \in Operation
    BY <1>0, <1>5, <1>1, OpsTyped, Zenon
  <2>2. q[i + 1].op = q[1].op
    BY <1>0, <2>1, <1>3, Zenon DEF OneUser
  <2>3. i + 1 = 1
    BY <1>0, <2>1, <2>2, <1>1, <1>2, Zenon DEF OneUser
  <2> QED BY <2>3
<1>6. Begins(p, a, h.slot)
  BY <1>2 DEF AtWork, Begins, Operation
<1>7. Unused(rg, Tail(q), h.slot)
  BY <1>4, <1>5, Zenon DEF Unused
<1> QED BY <1>1, <1>2, <1>6, <1>7, Zenon DEF Operation

(* SlotsMove for the operators that touch one slot.                        *)
LEMMA SlotMoves ==
    ASSUME NEW from, NEW to, NEW q, Fits(from.pool, from.active, from.ring, q),
           NEW s \in Slots, Unused(from.ring, q, s), Touches(from, to, s),
           to.ring = from.ring \/ Posts(from, to, s)
    PROVE  Fits(to.pool, to.active, to.ring, q)
<1>1. /\ Changes(from.pool, from.active, to.pool, to.active, {s})
      /\ {s} \in SUBSET Slots /\ \A x \in {s} : Unused(from.ring, q, x)
  BY Zenon DEF Touches, IsState, Changes
<1>2. ASSUME NEW T \in SUBSET {s}, \A x \in T : Begins(to.pool, to.active, x),
             to.ring = from.ring \cup Started(to.pool, to.active, T)
      PROVE  Fits(to.pool, to.active, to.ring, q)
  <2>1. Fits(to.pool, to.active, from.ring \cup Started(to.pool, to.active, T), q)
    BY <1>1, <1>2, SlotsMove, Zenon
  <2> QED BY <1>2, <2>1, Zenon
<1>3. CASE to.ring = from.ring
  <2>1. Started(to.pool, to.active, {}) = {}
    BY Zenon DEF Started
  <2> QED BY <1>3, <1>2, <2>1, Zenon
<1>4. CASE Posts(from, to, s)
  <2>1. Started(to.pool, to.active, {s}) = {BuildEntry(s, to.active[s].generation, to.pool[s].state)}
    BY Zenon DEF Started
  <2>2. Begins(to.pool, to.active, s) /\ to.ring = from.ring \cup Started(to.pool, to.active, {s})
    BY <1>4, <2>1, Zenon DEF Posts
  <2> QED BY <1>2, <2>2
<1> QED BY <1>3, <1>4, Zenon

(* A loop of post_read puts every slot of S to work.                       *)
LEMMA ReadsPostedMoves ==
    ASSUME Fits(pool, active, ring, cq), NEW S \in SUBSET Slots, CanPost(State, S),
           NEW to, to = ReadsPosted(State, S)
    PROVE  /\ Fits(to.pool, to.active, to.ring, cq) /\ IsState(to) /\ to.error = FALSE
           /\ \A s \in S : to.active[s].queued
           /\ \A s \in Slots \ S : to.pool[s] = pool[s] /\ to.active[s] = active[s]
           /\ \A r \in to.ring : r \in ring \/ r.at = "built"
<1> DEFINE g(s) == pool[s].generation + 1
           np == [s \in Slots |-> IF s \in S THEN [generation |-> g(s), state |-> "read"] ELSE pool[s]]
           na == [s \in Slots |-> IF s \in S THEN [Idle EXCEPT !.generation = g(s), !.queued = TRUE]
                                  ELSE active[s]]
           nr == {BuildEntry(s, g(s), "read") : s \in S}
<1>1. pool \in [Slots -> SlotPool] /\ active \in [Slots -> SlotActive]
  BY Zenon DEF Fits, Typed
<1>2. \A s \in S : pool[s].state = "free" /\ g(s) \in 1..MaxGeneration
  <2>1. \A s \in S : pool[s].state = "free" /\ pool[s].generation < MaxGeneration
    BY Zenon DEF CanPost, State
  <2>2. \A s \in S : pool[s].generation \in 0..MaxGeneration
    BY <1>1, Zenon DEF SlotPool
  <2> QED BY <2>1, <2>2, SwitchAssumption
<1>3. to = [pool |-> np, active |-> na, ring |-> ring \cup nr, error |-> FALSE]
  BY Zenon DEF ReadsPosted, State
<1>4. np \in [Slots -> SlotPool]
  <2>1. \A s \in S : [generation |-> g(s), state |-> "read"] \in SlotPool
    BY <1>2 DEF SlotPool
  <2> QED BY <1>1, <2>1, Zenon
<1>5. na \in [Slots -> SlotActive]
  <2>1. \A s \in S : [Idle EXCEPT !.generation = g(s), !.queued = TRUE] \in SlotActive
    BY <1>2, IdleIsActive, Zenon
  <2> QED BY <1>1, <2>1, Zenon
<1>6. \A s \in S : /\ np[s].generation = g(s) /\ np[s].state = "read"
                   /\ na[s].generation = g(s) /\ na[s].queued = TRUE /\ na[s].write = FALSE
  BY Zenon DEF Idle
<1>7. \A s \in Slots \ S : np[s] = pool[s] /\ na[s] = active[s]
  BY Zenon
<1>8. \A r \in nr : r.at = "built"
  BY DEF BuildEntry
<1> HIDE DEF np, na
<1>9. nr = Started(np, na, S)
  BY <1>6, Zenon DEF Started
<1>10. \A s \in S : Begins(np, na, s)
  <2>1. ASSUME NEW s \in S PROVE Begins(np, na, s)
    <3>1. g(s) # 0
      BY <1>2
    <3> HIDE DEF g
    <3> QED BY <1>6, <3>1, Zenon DEF Begins
  <2> QED BY <2>1, Zenon
<1>11. \A s \in S : Unused(ring, cq, s)
  BY <1>2, FreeIsUnused, Zenon
<1>12. Changes(pool, active, np, na, S)
  BY <1>4, <1>5, <1>7, Zenon DEF Changes
<1>13. Fits(np, na, ring \cup nr, cq)
  BY <1>9, <1>10, <1>11, <1>12, SlotsMove, Zenon
<1> HIDE DEF nr, g
<1>14. to.pool = np /\ to.active = na /\ to.ring = ring \cup nr /\ to.error = FALSE
  BY <1>3
<1>15. IsState(to)
  BY <1>3, <1>4, <1>5, <1>14, Zenon DEF IsState
<1>16. \A s \in S : to.active[s].queued
  BY <1>6, <1>14, Zenon
<1> QED BY <1>7, <1>8, <1>13, <1>14, <1>15, <1>16, Zenon

-----------------------------------------------------------------------------
(* The kernel has no operation on a buffer.                                *)
Quiet(rg) == \A r \in rg : r.op.kind # "cancel" => r.at # "kernel"

(* An operation that post_read or post_write builds is not submitted yet.  *)
LEMMA PostsQuietly ==
    ASSUME NEW from, NEW to, NEW s, Posts(from, to, s), Quiet(from.ring)
    PROVE  Quiet(to.ring)
<1>1. BuildEntry(s, to.active[s].generation, to.pool[s].state).at = "built"
  BY Zenon DEF BuildEntry
<1>2. \A r \in to.ring :
          r \in from.ring \/ r = BuildEntry(s, to.active[s].generation, to.pool[s].state)
  BY Zenon DEF Posts
<1> HIDE DEF BuildEntry
<1> QED BY <1>1, <1>2, Zenon DEF Quiet

Kept(p, a) == \A s \in Slots : IF a[s] = Idle THEN adaptive /\ p[s].state = "free" ELSE a[s].queued

PoolInv ==
    /\ Fits(pool, active, ring, cq)
    /\ inFlight \in BOOLEAN
    /\ pc \in Starting => ring = {} /\ cq = <<>>
    /\ inFlight = TRUE \/ Quiet(ring)
    /\ pc \in Relaying => Kept(pool, active)
    /\ pc = "closed" => Quiet(ring)

(* The state the handlers start from is well formed.                       *)
LEMMA StateFits == Fits(pool, active, ring, cq) => IsState(State)
BY Zenon DEF Fits, Typed, IsState, State

(* Steps that touch neither slots nor ring: only the phase moves.          *)
LEMMA PoolFrame ==
    ASSUME PoolInv, UNCHANGED <<pool, active, ring, cq, inFlight, adaptive>>,
           \/ pc' = pc
           \/ pc' \in Starting /\ pc \in Starting
           \/ pc' \in Relaying /\ pc \in Relaying
           \/ pc' \in {"shutdown", "drain_writes", "cancel", "cancel_wait"}
           \/ pc' = "closed" /\ pc \in Starting
    PROVE  PoolInv'
<1>1. pc \in Starting => Quiet(ring)
  BY Zenon DEF PoolInv, Quiet
<1>2. UNCHANGED <<Fits(pool, active, ring, cq), Quiet(ring), Kept(pool, active)>>
  BY Zenon DEF Kept
<1> QED BY <1>1, <1>2, Zenon DEF PoolInv, Starting, Relaying

(* The end of the runtime: what is left in the ring is harmless, or the    *)
(* process is aborted.                                                     *)
LEMMA PoolDropped ==
    ASSUME Fits(pool', active', ring, cq), inFlight' \in BOOLEAN, inFlight' = TRUE \/ Quiet(ring),
           DropRuntime
    PROVE  PoolInv'
<1>1. CASE inFlight' /\ \E s \in Slots : active'[s] # Idle
  <2>1. pc' = "aborted" /\ ring' = {} /\ cq' = <<>>
    BY <1>1, Zenon DEF DropRuntime
  <2>2. Fits(pool', active', {}, <<>>)
    BY DEF Fits, Typed, OneUser
  <2>3. Quiet({})
    BY Zenon DEF Quiet
  <2> QED BY <2>1, <2>2, <2>3, Zenon DEF PoolInv, Starting, Relaying
<1>2. CASE ~(inFlight' /\ \E s \in Slots : active'[s] # Idle)
  <2>1. pc' = "closed" /\ UNCHANGED <<ring, cq>>
    BY <1>2, Zenon DEF DropRuntime
  <2>2. Quiet(ring)
    <3>1. CASE \A s \in Slots : active'[s] = Idle
      <4>1. ASSUME NEW r \in ring, r.op.kind # "cancel" PROVE FALSE
        <5>1. r.op \in Operation /\ AtWork(pool', active', r.op)
          BY <4>1, Zenon DEF Fits, Typed, OneUser, RingEntry
        <5> QED BY <5>1, <3>1 DEF AtWork, Operation, Idle
      <4> QED BY <4>1, Zenon DEF Quiet
    <3> QED BY <1>2, <3>1, Zenon
  <2> QED BY <2>1, <2>2, Zenon DEF PoolInv, Starting, Relaying
<1> QED BY <1>1, <1>2, Zenon

(* A handler's state is written back when the handler returns.             *)
LEMMA PoolInstalled ==
    ASSUME NEW st, Install(st), Fits(st.pool, st.active, st.ring, cq'), inFlight' \in BOOLEAN,
           inFlight' = TRUE \/ Quiet(st.ring), UNCHANGED adaptive,
           \/ pc' \in Relaying /\ Kept(st.pool, st.active)
           \/ pc' \in {"shutdown", "drain_writes", "cancel", "cancel_wait"}
    PROVE  PoolInv'
<1>1. pool' = st.pool /\ active' = st.active /\ ring' = st.ring
  BY Zenon DEF Install
<1>2. Kept(st.pool, st.active) => Kept(pool, active)'
  BY <1>1, Zenon DEF Kept
<1> QED BY <1>1, <1>2, Zenon DEF PoolInv, Starting, Relaying

(* submit_pending, with or without an error of the ring.                   *)
LEMMA PoolSubmitted ==
    ASSUME NEW st, IsState(st), Fits(st.pool, st.active, st.ring, cq), Kept(st.pool, st.active),
           inFlight \in BOOLEAN, inFlight = TRUE \/ Quiet(st.ring), NEW next,
           next \subseteq Relaying \cup {"shutdown"}, UNCHANGED <<cq, adaptive>>,
           SubmitPending(st, next)
    PROVE  PoolInv'
<1>1. CASE Install(st) /\ pc' = "shutdown" /\ UNCHANGED inFlight
  BY <1>1, PoolInstalled, Zenon
<1>2. CASE Install(Submitted(st)) /\ pc' \in next /\ inFlight' = TRUE
  <2> DEFINE sb == Submitted(st)
  <2>1. /\ Fits(sb.pool, sb.active, sb.ring, cq) /\ sb.pool = st.pool
        /\ \A s \in Slots : /\ sb.active[s].queued = st.active[s].queued
                            /\ (st.active[s].queued \/ st.active[s] = Idle) =>
                                  (sb.active[s] = Idle <=> st.active[s] = Idle)
    BY SubmitMoves, Zenon DEF IsState
  <2> HIDE DEF sb
  <2>2. Kept(sb.pool, sb.active)
    BY <2>1, Zenon DEF Kept
  <2> QED BY <1>2, <2>1, <2>2, PoolInstalled, Zenon DEF sb
<1> QED BY <1>1, <1>2, Zenon DEF SubmitPending

-----------------------------------------------------------------------------
(* Until the runtime is created there are no operations; create_runtime    *)
(* posts the first read of every slot.                                     *)
LEMMA PoolStart ==
    ASSUME PoolInv, OpenEndpoint \/ NegotiateFirst \/ NegotiateSecond \/ CreateRuntime
    PROVE  PoolInv'
<1>1. CASE /\ UNCHANGED <<pool, active, ring, cq, inFlight>>
           /\ pc \in Starting /\ pc' \in Starting \cup {"closed"}
  <2>1. pc \in Starting => Quiet(ring)
    BY Zenon DEF PoolInv, Quiet
  <2> QED BY <1>1, <2>1, Zenon DEF PoolInv, Starting, Relaying
<1>2. CASE StartFails /\ pc \in Starting
  BY <1>1, <1>2, Zenon DEF StartFails, runtime
<1>3. CASE OpenEndpoint
  BY <1>3, <1>1, Zenon DEF OpenEndpoint, Opened, CleanupIsPending, StartFails, runtime, Starting
<1>4. CASE NegotiateFirst
  BY <1>4, <1>1, Zenon DEF NegotiateFirst, StartFails, runtime, Starting
<1>5. CASE NegotiateSecond
  BY <1>5, <1>1, Zenon DEF NegotiateSecond, StartFails, runtime, Starting
<1>6. CASE CreateRuntime /\ ~StartFails
  <2> DEFINE st == ReadsPosted(State, Slots)
  <2>1. /\ CanPost(State, Slots) /\ SubmitPending(st, {Top}) /\ UNCHANGED <<cq, adaptive>>
        /\ pc = "create"
    BY <1>6, Zenon DEF CreateRuntime
  <2>2. Slots \in SUBSET Slots /\ Fits(pool, active, ring, cq) /\ inFlight \in BOOLEAN /\ ring = {}
    BY <2>1, Zenon DEF PoolInv, Starting
  <2>3. /\ Fits(st.pool, st.active, st.ring, cq) /\ IsState(st)
        /\ \A s \in Slots : st.active[s].queued
        /\ \A r \in st.ring : r \in ring \/ r.at = "built"
    BY <2>1, <2>2, ReadsPostedMoves, Zenon
  <2> HIDE DEF st
  <2>4. Kept(st.pool, st.active)
    BY <2>3 DEF Kept, Idle
  <2>5. Quiet(st.ring)
    BY <2>2, <2>3, Zenon DEF Quiet
  <2>6. {Top} \subseteq Relaying \cup {"shutdown"}
    BY Zenon DEF Top, Relaying
  <2> QED BY <2>1, <2>2, <2>3, <2>4, <2>5, <2>6, PoolSubmitted, Zenon
<1>7. CASE CreateRuntime /\ StartFails
  BY <1>7, <1>2, Zenon DEF CreateRuntime, Starting
<1> QED BY <1>3, <1>4, <1>5, <1>6, <1>7, Zenon

(* process_completion for whatever was popped, in either mode.             *)
LEMMA PoolPop ==
    ASSUME PoolInv, PopCompletion
    PROVE  PoolInv'
<1> DEFINE r == Head(cq)
<1>1. /\ pc = "batch" /\ cq # <<>> /\ cq' = Tail(cq) /\ UNCHANGED <<adaptive, inFlight>>
      /\ Fits(pool, active, ring, cq) /\ inFlight \in BOOLEAN /\ (inFlight = TRUE \/ Quiet(ring))
      /\ Kept(pool, active)
  BY Zenon DEF PopCompletion, PoolInv, Relaying, start
<1>2. PICK built \in BOOLEAN : /\ Install(Processed(r, built))
                               /\ pc' = IF Processed(r, built).error THEN "shutdown" ELSE "batch"
  BY Zenon DEF PopCompletion
<1> DEFINE st == Processed(r, built)
<1>3. /\ State.pool = pool /\ State.active = active /\ State.ring = ring /\ State.error = FALSE
      /\ IsState(State)
  BY <1>1, StateFits, Zenon DEF State
<1>4. Fits(pool, active, ring, Tail(cq))
  BY <1>1, TailMoves, Zenon
<1>5. CASE ~Valid(r)
  <2>1. st = [State EXCEPT !.error = TRUE]
    BY <1>5, Zenon DEF Processed
  <2>2. st.pool = pool /\ st.active = active /\ st.ring = ring /\ st.error = TRUE
    BY <2>1, Zenon DEF State
  <2> HIDE DEF st, r
  <2>3. Install(st) /\ pc' = "shutdown"
    BY <1>2, <2>2, Zenon DEF st
  <2> QED BY <1>1, <1>4, <2>2, <2>3, PoolInstalled, Zenon
<1>6. CASE Valid(r)
  <2> DEFINE s == r.op.slot
  <2>1. s \in Slots /\ Unused(ring, Tail(cq), s) /\ Begins(pool, active, s)
    BY <1>1, <1>6, HeadIsLast, Zenon DEF Valid
  <2>2. /\ Touches(State, st, s)
        /\ \/ /\ st.ring = ring
              /\ \/ st.error = TRUE
                 \/ adaptive /\ st.active[s] = Idle /\ st.pool[s].state = "free"
           \/ st.error = FALSE /\ Posts(State, st, s)
    BY <1>3, <1>6, <2>1, ProcessedTouches, Zenon
  <2> HIDE DEF st, r, s
  <2>3. Fits(st.pool, st.active, st.ring, Tail(cq))
    BY <1>3, <1>4, <2>1, <2>2, SlotMoves, Zenon
  <2>4. Quiet(ring) => Quiet(st.ring)
    <3>1. CASE st.ring = ring
      BY <3>1, Zenon
    <3>2. CASE Posts(State, st, s)
      BY <3>2, PostsQuietly, Zenon DEF State
    <3> QED BY <2>2, <3>1, <3>2, Zenon
  <2>5. st.error = TRUE \/ Kept(st.pool, st.active)
    <3>1. ASSUME st.error # TRUE PROVE Kept(st.pool, st.active)
      <4>1. ASSUME NEW x \in Slots
            PROVE  IF st.active[x] = Idle THEN adaptive /\ st.pool[x].state = "free"
                   ELSE st.active[x].queued
        <5>1. CASE x = s
          <6>1. CASE Posts(State, st, s)
            <7>1. st.active[s].queued
              BY <6>1, Zenon DEF Posts, Begins
            <7>2. st.active[s] # Idle
              BY <7>1 DEF Idle
            <7> QED BY <5>1, <7>1, <7>2, Zenon
          <6>2. CASE adaptive /\ st.active[s] = Idle /\ st.pool[s].state = "free"
            BY <5>1, <6>2, Zenon
          <6> QED BY <3>1, <2>2, <6>1, <6>2, Zenon
        <5>2. CASE x # s
          BY <5>2, <1>1, <1>3, <2>2, Zenon DEF Kept, Touches
        <5> QED BY <5>1, <5>2, Zenon
      <4> QED BY <4>1, Zenon DEF Kept
    <3> QED BY <3>1, Zenon
  <2>6. Install(st) /\ pc' = IF st.error THEN "shutdown" ELSE "batch"
    BY <1>2, Zenon DEF st
  <2>7. \/ pc' \in Relaying /\ Kept(st.pool, st.active)
        \/ pc' \in {"shutdown", "drain_writes", "cancel", "cancel_wait"}
    BY <2>5, <2>6, Zenon DEF Relaying
  <2> QED BY <1>1, <2>3, <2>4, <2>6, <2>7, PoolInstalled, Zenon
<1> QED BY <1>5, <1>6, Zenon

(* The end of a batch of completions, and a wait on the ring that fails.   *)
LEMMA PoolBatch ==
    ASSUME PoolInv, EndBatch \/ LoopFails
    PROVE  PoolInv'
<1>1. CASE LoopFails
  BY <1>1, PoolFrame, Zenon DEF LoopFails, start
<1>2. CASE EndBatch /\ batch.saw
  <2> DEFINE next == IF adaptive /\ ~batch.progress THEN {Top, "arm"} ELSE {Top}
  <2>1. SubmitPending(State, next) /\ UNCHANGED <<cq, adaptive>> /\ pc = "batch"
    BY <1>2, Zenon DEF EndBatch, start
  <2>2. next \subseteq Relaying \cup {"shutdown"}
    BY Zenon DEF Top, Relaying
  <2>3. /\ Fits(State.pool, State.active, State.ring, cq) /\ inFlight \in BOOLEAN
        /\ inFlight = TRUE \/ Quiet(State.ring)
        /\ Kept(State.pool, State.active)
    BY <2>1, Zenon DEF PoolInv, Relaying, State
  <2>4. IsState(State)
    BY StateFits, Zenon DEF PoolInv
  <2> HIDE DEF next
  <2> QED BY <2>1, <2>2, <2>3, <2>4, PoolSubmitted, Zenon
<1>3. CASE EndBatch /\ ~batch.saw
  <2>1. /\ UNCHANGED <<pool, active, ring, cq, inFlight, adaptive>> /\ pc = "batch"
        /\ pc' \in {"shutdown", "batch", "arm"}
    BY <1>3, Zenon DEF EndBatch, Top, start
  <2> QED BY <2>1, PoolFrame, Zenon DEF Relaying
<1> QED BY <1>1, <1>2, <1>3, Zenon

(* Arming and waking change no slot.                                       *)
LEMMA PoolWaits ==
    ASSUME PoolInv,
           \/ WaitsAreArmed \/ WakeToStop
           \/ \E e \in Endpoints : ArmWait(e) \/ Wake(e) \/ RearmFails(e)
    PROVE  PoolInv'
<1>1. /\ UNCHANGED <<pool, active, ring, cq, inFlight, adaptive>>
      /\ pc \in Relaying /\ pc' \in Relaying \cup {"shutdown"}
  <2>1. CASE WaitsAreArmed \/ WakeToStop
    BY <2>1, Zenon DEF WaitsAreArmed, WakeToStop, start, Relaying
  <2>2. CASE \E e \in Endpoints : ArmWait(e)
    BY <2>2, Zenon DEF ArmWait, IssueWait, start, Relaying
  <2>3. CASE \E e \in Endpoints : Wake(e) \/ RearmFails(e)
    BY <2>3, Zenon DEF Wake, RearmFails, start, Relaying
  <2> QED BY <2>1, <2>2, <2>3, Zenon
<1> QED BY <1>1, PoolFrame, Zenon

(* After a wake-up every free slot posts its read again.                   *)
LEMMA PoolResume ==
    ASSUME PoolInv, PostIdleReads
    PROVE  PoolInv'
<1> DEFINE idle == {s \in Slots : active[s] = Idle}
<1>1. /\ pc = "resume" /\ UNCHANGED <<cq, adaptive>>
      /\ Fits(pool, active, ring, cq) /\ inFlight \in BOOLEAN /\ (inFlight = TRUE \/ Quiet(ring))
      /\ Kept(pool, active)
  BY Zenon DEF PostIdleReads, PoolInv, Relaying, start
<1>2. ASSUME NEW S \in SUBSET idle, CanPost(State, S), NEW st, st = ReadsPosted(State, S)
      PROVE  /\ Fits(st.pool, st.active, st.ring, cq) /\ IsState(st)
             /\ \A s \in S : st.active[s].queued
             /\ \A s \in Slots \ S : st.pool[s] = pool[s] /\ st.active[s] = active[s]
             /\ Quiet(ring) => Quiet(st.ring)
  <2>1. S \in SUBSET Slots
    BY Zenon
  <2>2. \A r \in st.ring : r \in ring \/ r.at = "built"
    BY <1>1, <1>2, <2>1, ReadsPostedMoves, Zenon
  <2>3. Quiet(ring) => Quiet(st.ring)
    BY <2>2, Zenon DEF Quiet
  <2>4. /\ Fits(st.pool, st.active, st.ring, cq) /\ IsState(st)
        /\ \A s \in S : st.active[s].queued
        /\ \A s \in Slots \ S : st.pool[s] = pool[s] /\ st.active[s] = active[s]
    <3>1. Fits(pool, active, ring, cq)
      BY <1>1, Zenon
    <3> HIDE DEF idle
    <3> QED BY <3>1, <1>2, <2>1, ReadsPostedMoves, Zenon
  <2> QED BY <2>3, <2>4, Zenon
<1>3. CASE CanPost(State, idle) /\ SubmitPending(ReadsPosted(State, idle), {Top})
  <2> DEFINE st == ReadsPosted(State, idle)
  <2>1. /\ Fits(st.pool, st.active, st.ring, cq) /\ IsState(st)
        /\ \A s \in idle : st.active[s].queued
        /\ \A s \in Slots \ idle : st.pool[s] = pool[s] /\ st.active[s] = active[s]
        /\ Quiet(ring) => Quiet(st.ring)
    BY <1>2, <1>3, Zenon
  <2> HIDE DEF st
  <2>2. Kept(st.pool, st.active)
    <3>1. ASSUME NEW s \in Slots PROVE st.active[s] # Idle /\ st.active[s].queued
      <4>1. CASE s \in idle
        BY <2>1, <4>1 DEF Idle
      <4>2. CASE s \notin idle
        BY <1>1, <2>1, <4>2, Zenon DEF Kept
      <4> QED BY <4>1, <4>2, Zenon
    <3> QED BY <3>1, Zenon DEF Kept
  <2>3. {Top} \subseteq Relaying \cup {"shutdown"}
    BY Zenon DEF Top, Relaying
  <2>4. SubmitPending(st, {Top})
    BY <1>3, Zenon DEF st
  <2> QED BY <1>1, <2>1, <2>2, <2>3, <2>4, PoolSubmitted, Zenon
<1>4. ASSUME NEW s \in idle, NEW before \in SUBSET (idle \ {s}), CanPost(State, before),
             Install(PostRead(ReadsPosted(State, before), s, FALSE)),
             pc' = "shutdown", UNCHANGED inFlight
      PROVE  PoolInv'
  <2> DEFINE st == ReadsPosted(State, before)
             to == PostRead(st, s, FALSE)
  <2>1. before \in SUBSET idle /\ s \in Slots \ before
    BY Zenon
  <2>2. /\ Fits(st.pool, st.active, st.ring, cq) /\ IsState(st)
        /\ st.pool[s] = pool[s]
        /\ Quiet(ring) => Quiet(st.ring)
    BY <1>2, <1>4, <2>1
  <2> HIDE DEF st
  <2>3. Touches(st, to, s) /\ (to.ring = st.ring \/ Posts(st, to, s))
    BY <2>1, <2>2, PostReadTouches, Zenon
  <2> HIDE DEF to
  <2>4. st.pool[s].state = "free"
    BY <1>1, <2>2, Zenon DEF Kept
  <2>5. Unused(st.ring, cq, s)
    BY <2>1, <2>2, <2>4, FreeIsUnused, Zenon
  <2>6. Fits(to.pool, to.active, to.ring, cq)
    BY <2>1, <2>2, <2>3, <2>5, SlotMoves, Zenon
  <2>7. Quiet(ring) => Quiet(to.ring)
    <3>1. CASE to.ring = st.ring
      BY <2>2, <3>1, Zenon
    <3>2. CASE Posts(st, to, s)
      BY <2>2, <3>2, PostsQuietly, Zenon
    <3> QED BY <2>3, <3>1, <3>2, Zenon
  <2>8. Install(to)
    BY <1>4, Zenon DEF to, st
  <2> QED BY <1>1, <1>4, <2>6, <2>7, <2>8, PoolInstalled, Zenon
<1> QED BY <1>3, <1>4, Zenon DEF PostIdleReads

-----------------------------------------------------------------------------
(* The slots that are not queued are retired, and writes are marked.       *)
LEMMA StateChanges ==
    ASSUME NEW st, st = [pool |-> st.pool, active |-> st.active, ring |-> st.ring, error |-> st.error],
           NEW p, NEW a, NEW to, to = [st EXCEPT !.pool = p, !.active = a]
    PROVE  to = [pool |-> p, active |-> a, ring |-> st.ring, error |-> st.error]
BY Zenon

(* Shutdown retires only what was never handed to the ring.                *)
LEMMA RetiredMoves ==
    ASSUME Fits(pool, active, ring, cq)
    PROVE  /\ Fits(Retired.pool, Retired.active, Retired.ring, cq)
           /\ IsState(Retired) /\ Retired.ring = ring
<1> DEFINE unqueued == {s \in Slots : active[s] # Idle /\ ~active[s].queued}
           np == [s \in Slots |-> [pool[s] EXCEPT !.state = IF s \in unqueued THEN "free" ELSE @]]
           mid == [s \in Slots |-> IF s \in unqueued THEN Idle ELSE active[s]]
           marked(s) == [active[s] EXCEPT !.drain = active[s].write /\ ~active[s].submitted]
           na == [s \in Slots |-> IF s \in unqueued THEN Idle ELSE marked(s)]
<1>1. pool \in [Slots -> SlotPool] /\ active \in [Slots -> SlotActive]
  BY Zenon DEF Fits, Typed
<1>2. Retired = [pool |-> np, active |-> na, ring |-> ring, error |-> FALSE]
  <2>1. Retired = [State EXCEPT !.pool = np, !.active = na]
    BY Zenon DEF Retired
  <2>2. /\ State = [pool |-> State.pool, active |-> State.active, ring |-> State.ring, error |-> State.error]
        /\ State.ring = ring /\ State.error = FALSE
    BY Zenon DEF State
  <2> HIDE DEF np, na
  <2> QED BY <2>1, <2>2, StateChanges, Zenon
<1>3. np \in [Slots -> SlotPool] /\ \A s \in Slots \ unqueued : np[s] = pool[s]
  <2>1. ASSUME NEW s \in Slots PROVE np[s] \in SlotPool /\ (s \notin unqueued => np[s] = pool[s])
    <3>1. pool[s] \in SlotPool
      BY <1>1, Zenon
    <3> QED BY <3>1, Zenon DEF SlotPool
  <2> HIDE DEF unqueued
  <2> QED BY <2>1, Zenon
<1>4. mid \in [Slots -> SlotActive] /\ \A s \in Slots \ unqueued : mid[s] = active[s]
  BY <1>1, IdleIsActive, Zenon
<1>5. na \in [Slots -> SlotActive]
      /\ \A s \in Slots : /\ na[s].generation = mid[s].generation /\ na[s].write = mid[s].write
                          /\ na[s].queued = mid[s].queued
  <2>1. ASSUME NEW s \in Slots
        PROVE  /\ marked(s) \in SlotActive /\ marked(s).generation = active[s].generation
               /\ marked(s).write = active[s].write /\ marked(s).queued = active[s].queued
    <3>1. active[s] \in SlotActive
      BY <1>1, Zenon
    <3> QED BY <3>1, Zenon DEF SlotActive
  <2>2. Idle \in SlotActive
    BY IdleIsActive, Zenon
  <2> HIDE DEF marked, unqueued
  <2> QED BY <2>1, <2>2, Zenon
<1>6. \A s \in unqueued : Unused(ring, cq, s)
  BY OpsTyped, Zenon DEF Fits, OneUser, AtWork, Unused
<1> HIDE DEF np, na, mid
<1>7. Fits(np, mid, ring, cq)
  <2>1. Changes(pool, active, np, mid, unqueued)
    BY <1>3, <1>4, Zenon DEF Changes
  <2>2. Started(np, mid, {}) = {}
    BY Zenon DEF Started
  <2>3. unqueued \in SUBSET Slots /\ {} \in SUBSET unqueued /\ ring \cup {} = ring
    BY Zenon
  <2> HIDE DEF unqueued
  <2>4. Fits(np, mid, ring \cup Started(np, mid, {}), cq)
    BY <1>6, <2>1, <2>3, SlotsMove, Zenon
  <2> QED BY <2>2, <2>3, <2>4, Zenon
<1>8. ASSUME NEW op \in Operation, AtWork(np, mid, op)
      PROVE  AtWork(np, na, op)
  BY <1>5, <1>8, Zenon DEF AtWork, Operation
<1>9. Fits(np, na, ring, cq)
  BY <1>5, <1>7, <1>8, OpsTyped, Zenon DEF Fits, Typed, OneUser
<1> QED BY <1>2, <1>3, <1>5, <1>9, Zenon DEF IsState

(* BeginShutdown, with the retirement it starts from.                      *)
LEMMA PoolShutdown ==
    ASSUME PoolInv, BeginShutdown
    PROVE  PoolInv'
<1>1. /\ Fits(pool, active, ring, cq) /\ inFlight \in BOOLEAN /\ (inFlight = TRUE \/ Quiet(ring))
  BY Zenon DEF PoolInv
<1>2. /\ Fits(Retired.pool, Retired.active, Retired.ring, cq)
      /\ IsState(Retired) /\ Retired.ring = ring
  BY <1>1, RetiredMoves, Zenon
<1>3. CASE /\ Install(Submitted(Retired)) /\ inFlight' = TRUE
           /\ pc' = "drain_writes" /\ UNCHANGED <<cq, adaptive>>
  <2> DEFINE sb == Submitted(Retired)
  <2>1. Fits(sb.pool, sb.active, sb.ring, cq)
    BY <1>2, SubmitMoves, Zenon DEF IsState
  <2>2. Install(sb)
    BY <1>3, Zenon
  <2> HIDE DEF sb
  <2> QED BY <1>3, <2>1, <2>2, PoolInstalled, Zenon
<1>4. CASE pool' = Retired.pool /\ active' = Retired.active /\ UNCHANGED inFlight /\ DropRuntime
  BY <1>1, <1>2, <1>4, PoolDropped, Zenon
<1> QED BY <1>3, <1>4, Zenon DEF BeginShutdown

-----------------------------------------------------------------------------
(* A completion taken during shutdown ends its operation.                  *)
LEMMA PoolCompleted ==
    ASSUME PoolInv, NEW next, next \in {"drain_writes", "cancel"}, cq # <<>>,
           ShutdownCompletion(next), UNCHANGED adaptive
    PROVE  PoolInv'
<1> DEFINE r == Head(cq)
           s == r.op.slot
           cancel == r.op.kind = "cancel"
           accepted == IF cancel THEN cancels[s] = r.op.generation ELSE Valid(r)
<1>1. /\ Fits(pool, active, ring, cq) /\ inFlight \in BOOLEAN /\ (inFlight = TRUE \/ Quiet(ring))
      /\ inFlight' = inFlight
  BY Zenon DEF PoolInv, ShutdownCompletion
<1>2. Fits(pool, active, ring, Tail(cq))
  BY <1>1, TailMoves, Zenon
<1>3. CASE accepted /\ ~cancel
  <2>1. /\ active' = [active EXCEPT ![s] = Idle] /\ pool' = [pool EXCEPT ![s].state = "free"]
        /\ pc' = next /\ cq' = Tail(cq) /\ ring' = ring
    BY <1>3, Zenon DEF ShutdownCompletion
  <2>2. s \in Slots /\ Unused(ring, Tail(cq), s)
    BY <1>1, <1>3, HeadIsLast, Zenon
  <2> HIDE DEF r, s, cancel, accepted
  <2>3. pool \in [Slots -> SlotPool] /\ active \in [Slots -> SlotActive] /\ Idle \in SlotActive
    BY <1>1, IdleIsActive, Zenon DEF Fits, Typed
  <2>4. [pool[s] EXCEPT !.state = "free"] \in SlotPool
    <3>1. pool[s] \in SlotPool
      BY <2>2, <2>3, Zenon
    <3> QED BY <3>1, Zenon DEF SlotPool
  <2>5. Changes(pool, active, pool', active', {s})
    BY <2>1, <2>2, <2>3, <2>4, Zenon DEF Changes
  <2>6. {s} \in SUBSET Slots /\ {} \in SUBSET {s} /\ Started(pool', active', {}) = {}
        /\ ring \cup {} = ring /\ \A x \in {s} : Unused(ring, Tail(cq), x)
    BY <2>2, Zenon DEF Started
  <2>7. Fits(pool', active', ring \cup Started(pool', active', {}), Tail(cq))
    BY <1>2, <2>5, <2>6, SlotsMove, Zenon
  <2>8. Fits(pool', active', ring', cq')
    BY <2>1, <2>6, <2>7, Zenon
  <2> QED BY <1>1, <2>1, <2>8, Zenon DEF PoolInv, Starting, Relaying
<1>4. CASE accepted /\ cancel
  <2>1. UNCHANGED <<pool, active, ring>> /\ pc' = next /\ cq' = Tail(cq)
    BY <1>4, Zenon DEF ShutdownCompletion
  <2> HIDE DEF r, s, cancel, accepted
  <2>2. Fits(pool', active', ring', cq')
    BY <1>2, <2>1, Zenon
  <2> QED BY <1>1, <2>1, <2>2, Zenon DEF PoolInv, Starting, Relaying
<1>5. CASE ~accepted
  <2>1. UNCHANGED <<pool, active>> /\ DropRuntime
    BY <1>5, Zenon DEF ShutdownCompletion
  <2> HIDE DEF r, s, cancel, accepted
  <2>2. Fits(pool', active', ring, cq)
    BY <1>1, <2>1, Zenon
  <2> QED BY <1>1, <2>1, <2>2, PoolDropped, Zenon
<1> QED BY <1>3, <1>4, <1>5, Zenon

(* A cancellation is an entry of its own and takes nobody's buffer.        *)
LEMMA PoolCancels ==
    ASSUME PoolInv, QueueCancellations
    PROVE  PoolInv'
<1> DEFINE targets == {s \in Slots : active[s].submitted /\ cancels[s] = 0}
           cancellations == {[BuildEntry(s, active[s].generation, "cancel") EXCEPT !.at = "kernel"] :
                                 s \in targets}
           done == \A s \in Slots : active[s] = Idle /\ cancels[s] = 0
<1>1. /\ Fits(pool, active, ring, cq) /\ inFlight \in BOOLEAN /\ (inFlight = TRUE \/ Quiet(ring))
      /\ UNCHANGED <<pool, active, adaptive>>
  BY Zenon DEF PoolInv, QueueCancellations
<1>2. CASE done
  <2>1. inFlight' = FALSE /\ DropRuntime
    BY <1>2, Zenon DEF QueueCancellations
  <2>2. ASSUME NEW s \in Slots PROVE ~active[s].queued
    BY <1>2 DEF Idle
  <2>3. Quiet(ring)
    <3>1. ASSUME NEW r \in ring PROVE r.op.kind = "cancel"
      <4>1. r.op.slot \in Slots
        BY <1>1, OpsTyped, Zenon DEF Fits, Operation
      <4> HIDE DEF done
      <4> QED BY <1>1, <2>2, <4>1, Zenon DEF Fits, OneUser, AtWork
    <3> QED BY <3>1, Zenon DEF Quiet
  <2>4. Fits(pool', active', ring, cq)
    BY <1>1, Zenon
  <2> QED BY <2>1, <2>3, <2>4, PoolDropped, Zenon
<1>3. CASE ~done /\ targets # {} /\ DropRuntime
  <2>1. UNCHANGED inFlight
    BY <1>3, Zenon DEF QueueCancellations
  <2>2. Fits(pool', active', ring, cq)
    BY <1>1, Zenon
  <2> HIDE DEF targets, cancellations, done
  <2> QED BY <1>1, <1>3, <2>1, <2>2, PoolDropped, Zenon
<1>4. CASE ~done /\ pc' = "cancel_wait" /\ ring' = ring \cup cancellations /\ UNCHANGED <<handle, cq>>
  <2>1. UNCHANGED inFlight
    BY <1>4, Zenon DEF QueueCancellations
  <2>2. ASSUME NEW r \in cancellations PROVE r \in RingEntry /\ r.op.kind = "cancel"
    <3>1. PICK s \in targets : r = [BuildEntry(s, active[s].generation, "cancel") EXCEPT !.at = "kernel"]
      BY Zenon
    <3>2. s \in Slots /\ active[s].submitted /\ active[s] \in SlotActive
      BY <1>1, <3>1, Zenon DEF Fits, Typed
    <3> HIDE DEF targets, cancellations, done
    <3>3. active[s].generation \in 1..MaxGeneration
      BY <3>2 DEF SlotActive
    <3> QED BY <3>1, <3>2, <3>3, Zenon DEF BuildEntry, RingEntry, Operation
  <2> HIDE DEF targets, cancellations, done
  <2>3. Typed(pool, active, ring \cup cancellations, cq)
    BY <1>1, <2>2, Zenon DEF Fits, Typed
  <2>4. OneUser(pool, active, ring \cup cancellations, cq)
    BY <1>1, <2>2, Zenon DEF Fits, OneUser
  <2>5. Fits(pool', active', ring', cq')
    BY <1>1, <1>4, <2>3, <2>4, Zenon DEF Fits
  <2>6. Quiet(ring) => Quiet(ring')
    BY <1>4, <2>2, Zenon DEF Quiet
  <2> QED BY <1>1, <1>4, <2>1, <2>5, <2>6, Zenon DEF PoolInv, Starting, Relaying
<1> QED BY <1>2, <1>3, <1>4, Zenon DEF QueueCancellations

-----------------------------------------------------------------------------
(* Appending to the completion queue.                                      *)
LEMMA Appended ==
    ASSUME NEW C, NEW q \in Seq(C), NEW c \in C, NEW q2, q2 = Append(q, c)
    PROVE  /\ q2 \in Seq(C) /\ Len(q) \in Nat /\ Len(q2) = Len(q) + 1
           /\ \A i \in 1..Len(q2) : (i \in 1..Len(q) /\ q2[i] = q[i]) \/ (i = Len(q) + 1 /\ q2[i] = c)
<1>1. q2 \in Seq(C) /\ Len(q) \in Nat /\ Len(q2) = Len(q) + 1
  OBVIOUS
<1>2. ASSUME NEW i \in 1..Len(q) PROVE q2[i] = q[i]
  OBVIOUS
<1>3. q2[Len(q) + 1] = c
  OBVIOUS
<1>4. \A i \in 1..Len(q2) : i \in 1..Len(q) \/ i = Len(q) + 1
  BY <1>1
<1> QED BY <1>1, <1>2, <1>3, <1>4, Zenon

(* What the ring completes moves to the completion queue.                  *)
LEMMA CompletionMoves ==
    ASSUME NEW p, NEW a, NEW rg, NEW q, Fits(p, a, rg, q), NEW r \in rg, NEW result \in Results
    PROVE  Fits(p, a, rg \ {r}, Append(q, Completion(r, result)))
<1> DEFINE c == Completion(r, result)
           q2 == Append(q, c)
<1>0. Typed(p, a, rg, q) /\ OneUser(p, a, rg, q)
  BY Zenon DEF Fits
<1>1. c \in Completions /\ c.op = r.op /\ r.op \in Operation
  BY <1>0, Zenon DEF Typed, Completion, Completions, RingEntry
<1>2. q \in Seq(Completions)
  BY <1>0, Zenon DEF Typed
<1> HIDE DEF c
<1>3. /\ q2 \in Seq(Completions) /\ Len(q) \in Nat /\ Len(q2) = Len(q) + 1
      /\ \A i \in 1..Len(q2) : (i \in 1..Len(q) /\ q2[i] = q[i]) \/ (i = Len(q) + 1 /\ q2[i] = c)
  BY <1>1, <1>2, Appended, Zenon
<1> HIDE DEF q2
<1>4. Typed(p, a, rg \ {r}, q2)
  BY <1>0, <1>3, Zenon DEF Typed
<1>5. \A t \in rg \ {r} : t.op.kind # "cancel" => AtWork(p, a, t.op)
  BY <1>0, Zenon DEF OneUser
<1>6. \A i \in 1..Len(q2) : q2[i].op.kind # "cancel" => AtWork(p, a, q2[i].op)
  <2>1. \A i \in 1..Len(q) : q[i].op.kind # "cancel" => AtWork(p, a, q[i].op)
    BY <1>0, Zenon DEF OneUser
  <2>2. r.op.kind # "cancel" => AtWork(p, a, r.op)
    BY <1>0, Zenon DEF OneUser
  <2> QED BY <1>1, <1>3, <2>1, <2>2, Zenon
<1>7. \A i \in 1..Len(q2) : q2[i].op.kind # "cancel" => \A t \in rg \ {r} : t.op # q2[i].op
  <2>1. \A i \in 1..Len(q) : q[i].op.kind # "cancel" => \A t \in rg : t.op # q[i].op
    BY <1>0, Zenon DEF OneUser
  <2>2. r.op.kind # "cancel" => \A t \in rg \ {r} : t.op # r.op
    BY <1>0, Zenon DEF OneUser
  <2> QED BY <1>1, <1>3, <2>1, <2>2, Zenon
<1>8. ASSUME NEW i \in 1..Len(q2), q2[i].op.kind # "cancel",
             NEW j \in 1..Len(q2), q2[j].op = q2[i].op
      PROVE  j = i
  <2>1. \A k \in 1..Len(q) : q[k].op.kind # "cancel" => q[k].op # r.op
    BY <1>0, Zenon DEF OneUser
  <2>2. CASE i \in 1..Len(q) /\ j \in 1..Len(q) /\ q2[i] = q[i] /\ q2[j] = q[j]
    BY <1>0, <1>8, <2>2, Zenon DEF OneUser
  <2> QED BY <1>1, <1>3, <1>8, <2>1, <2>2, Zenon
<1>9. \A t, u \in rg \ {r} : t.op.kind # "cancel" /\ t.op = u.op => t = u
  BY <1>0, Zenon DEF OneUser
<1>10. OneUser(p, a, rg \ {r}, q2)
  BY <1>5, <1>6, <1>7, <1>8, <1>9, Zenon DEF OneUser
<1> QED BY <1>4, <1>10, Zenon DEF Fits, q2, c

(* A read or write and the cancellation that found it complete together.   *)
LEMMA TwoAppended ==
    ASSUME NEW C, NEW q \in Seq(C), NEW x, NEW y
    PROVE  q \o <<x, y>> = Append(Append(q, x), y)
OBVIOUS

(* The ring starts, completes or cancels an operation.                     *)
LEMMA PoolKernel ==
    ASSUME PoolInv, Kernel
    PROVE  PoolInv'
<1>0. /\ Fits(pool, active, ring, cq) /\ pc \notin {"closed", "aborted"}
  BY Zenon DEF PoolInv, Kernel, Running
<1>1. ASSUME NEW rg, rg \subseteq ring, NEW r \in ring, r.at = "kernel", ring' = rg,
             Fits(pool, active, rg, cq'),
             UNCHANGED <<start, pool, active, cancels, waits, kernelWait, pc, batch, ready, inFlight, stop>>
      PROVE  PoolInv'
  <2>1. /\ pool' = pool /\ active' = active /\ pc' = pc /\ inFlight' = inFlight /\ adaptive' = adaptive
    BY <1>1, Zenon DEF start
  <2>2. Fits(pool', active', ring', cq')
    BY <1>1, <2>1, Zenon
  <2>3. Quiet(ring) => Quiet(ring')
    BY <1>1, Zenon DEF Quiet
  <2>4. pc \notin Starting
    BY <1>1, Zenon DEF PoolInv
  <2>5. Kept(pool, active) => Kept(pool, active)'
    BY <2>1, Zenon DEF Kept
  <2> QED BY <1>0, <2>1, <2>2, <2>3, <2>4, <2>5, Zenon DEF PoolInv
<1>2. ASSUME NEW r \in ring, KernelCompletes(r)
      PROVE  PoolInv'
  <2>1. PICK result \in Results : cq' = Append(cq, Completion(r, result))
    BY <1>2, Zenon DEF KernelCompletes, Results
  <2>2. Fits(pool, active, ring \ {r}, cq')
    BY <1>0, <2>1, CompletionMoves, Zenon
  <2>3. ring \ {r} \subseteq ring /\ r.at = "kernel" /\ ring' = ring \ {r}
    BY <1>2, Zenon DEF KernelCompletes
  <2> QED BY <1>1, <1>2, <2>2, <2>3, Zenon DEF KernelCompletes
<1>3. ASSUME NEW r \in ring, KernelCancels(r)
      PROVE  PoolInv'
  <2> DEFINE targets == {t \in ring : /\ t.at = "kernel" /\ t.op.kind # "cancel"
                                      /\ t.op.slot = r.op.slot
                                      /\ t.op.generation = r.op.generation}
             rg == ring \ (targets \cup {r})
  <2>1. /\ r.at = "kernel" /\ r.op.kind = "cancel" /\ ring' = rg
        /\ \/ targets = {} /\ cq' = Append(cq, Completion(r, "failed"))
           \/ \E t \in targets :
                 \/ cq' = cq \o <<Completion(t, "failed"), Completion(r, "ok")>>
                 \/ cq' = cq \o <<Completion(r, "ok"), Completion(t, "failed")>>
        /\ UNCHANGED <<start, pool, active, cancels, waits, kernelWait, pc, batch, ready, inFlight, stop>>
    BY <1>3, Zenon DEF KernelCancels
  <2>2. "failed" \in Results /\ "ok" \in Results /\ cq \in Seq(Completions)
    BY <1>0, Zenon DEF Results, Fits, Typed
  <2>3. ASSUME NEW t \in targets PROVE targets = {t} /\ t \in ring /\ t # r
    <3>1. ASSUME NEW u \in targets PROVE u = t
      <4>1. u.op = t.op
        <5>1. AtWork(pool, active, u.op) /\ AtWork(pool, active, t.op)
          BY <1>0, Zenon DEF Fits, OneUser
        <5>2. u.op \in Operation /\ t.op \in Operation
          BY <1>0, OpsTyped, Zenon DEF Fits
        <5>4. u.op.slot = t.op.slot /\ u.op.generation = t.op.generation
          BY Zenon
        <5> HIDE DEF targets
        <5>5. pool[u.op.slot].state = u.op.kind /\ pool[t.op.slot].state = t.op.kind
          BY <5>1 DEF AtWork
        <5>3. u.op.kind = t.op.kind
          BY <5>4, <5>5, Zenon
        <5> QED BY <5>2, <5>3, <5>4 DEF Operation
      <4> QED BY <1>0, <4>1, Zenon DEF Fits, OneUser
    <3>2. t.op.kind # r.op.kind
      BY <2>1, Zenon
    <3> QED BY <3>1, <3>2, Zenon
  <2>4. Fits(pool, active, rg, cq')
    <3>1. CASE targets = {} /\ cq' = Append(cq, Completion(r, "failed"))
      <4>1. rg = ring \ {r}
        BY <3>1, Zenon
      <4> HIDE DEF targets, rg
      <4> QED BY <1>0, <2>2, <3>1, <4>1, CompletionMoves, Zenon
    <3>2. ASSUME NEW t \in targets, cq' = cq \o <<Completion(t, "failed"), Completion(r, "ok")>>
          PROVE  Fits(pool, active, rg, cq')
      <4>1. rg = (ring \ {t}) \ {r} /\ t \in ring /\ r \in ring \ {t}
        BY <2>3, Zenon
      <4> HIDE DEF targets, rg
      <4>2. Fits(pool, active, ring \ {t}, Append(cq, Completion(t, "failed")))
        BY <1>0, <2>2, <4>1, CompletionMoves, Zenon
      <4>3. Fits(pool, active, rg, Append(Append(cq, Completion(t, "failed")), Completion(r, "ok")))
        BY <2>2, <4>1, <4>2, CompletionMoves, Zenon
      <4>4. cq' = Append(Append(cq, Completion(t, "failed")), Completion(r, "ok"))
        BY <2>2, <3>2, TwoAppended
      <4> QED BY <4>3, <4>4, Zenon
    <3>3. ASSUME NEW t \in targets, cq' = cq \o <<Completion(r, "ok"), Completion(t, "failed")>>
          PROVE  Fits(pool, active, rg, cq')
      <4>1. rg = (ring \ {r}) \ {t} /\ r \in ring /\ t \in ring \ {r}
        BY <2>3, Zenon
      <4> HIDE DEF targets, rg
      <4>2. Fits(pool, active, ring \ {r}, Append(cq, Completion(r, "ok")))
        BY <1>0, <2>2, <4>1, CompletionMoves, Zenon
      <4>3. Fits(pool, active, rg, Append(Append(cq, Completion(r, "ok")), Completion(t, "failed")))
        BY <2>2, <4>1, <4>2, CompletionMoves, Zenon
      <4>4. cq' = Append(Append(cq, Completion(r, "ok")), Completion(t, "failed"))
        BY <2>2, <3>3, TwoAppended
      <4> QED BY <4>3, <4>4, Zenon
    <3> HIDE DEF rg
    <3> QED BY <2>1, <3>1, <3>2, <3>3, Zenon
  <2>5. rg \subseteq ring
    BY Zenon
  <2> HIDE DEF rg, targets
  <2> QED BY <1>1, <2>1, <2>4, <2>5, Zenon
<1>4. CASE (\E e \in Endpoints : WaitEnds(e) \/ OwnerCleanup(e)) \/ RequestStop
  <2>1. UNCHANGED <<pool, active, ring, cq, inFlight, adaptive, pc>>
    BY <1>4, Zenon DEF WaitEnds, OwnerCleanup, RequestStop, start
  <2> QED BY <2>1, PoolFrame, Zenon
<1> QED BY <1>2, <1>3, <1>4, Zenon DEF Kernel

(* Before the runtime exists no slot is in use.                            *)
LEMMA PoolStarts ==
    ASSUME Init
    PROVE  PoolInv
<1>1. [generation |-> 0, state |-> "free"] \in SlotPool /\ Idle \in SlotActive
  <2>1. 0 \in 0..MaxGeneration
    BY SwitchAssumption
  <2> QED BY <2>1, IdleIsActive, Zenon DEF SlotPool
<1>2. Typed(pool, active, ring, cq)
  <2>1. /\ pool = [s \in Slots |-> [generation |-> 0, state |-> "free"]]
        /\ active = [s \in Slots |-> Idle] /\ ring = {} /\ cq = <<>>
    BY Zenon DEF Init
  <2>2. pool \in [Slots -> SlotPool] /\ active \in [Slots -> SlotActive]
    BY <1>1, <2>1, Zenon
  <2>3. ring \subseteq RingEntry /\ cq \in Seq(Completions)
    BY <2>1
  <2> QED BY <2>2, <2>3, Zenon DEF Typed
<1>3. OneUser(pool, active, ring, cq)
  <2>1. ring = {} /\ Len(cq) = 0
    BY Zenon DEF Init
  <2>2. 1..Len(cq) = {}
    BY <2>1
  <2> QED BY <2>1, <2>2, Zenon DEF OneUser
<1> QED BY <1>2, <1>3, Zenon DEF Init, PoolInv, Fits, Quiet, Starting, Relaying

(* Every step, the kernel's included, keeps each slot to one operation.    *)
LEMMA PoolStep ==
    ASSUME PoolInv, [Next]_vars
    PROVE  PoolInv'
<1>1. CASE Kernel
  BY <1>1, PoolKernel, Zenon
<1>2. CASE UNCHANGED vars
  BY <1>2, PoolFrame, Zenon DEF vars, start
<1>3. CASE DrainWrites
  <2>1. CASE \E s \in Slots : active[s].drain
    BY <1>3, <2>1, PoolCompleted, Zenon DEF DrainWrites
  <2>2. CASE ~\E s \in Slots : active[s].drain
    BY <1>3, <2>2, PoolFrame, Zenon DEF DrainWrites
  <2> QED BY <2>1, <2>2, Zenon
<1>4. CASE CancelCompletion
  BY <1>4, PoolCompleted, Zenon DEF CancelCompletion
<1>5. CASE ShutdownWaitFails
  <2>1. UNCHANGED <<pool, active, inFlight>> /\ DropRuntime
    BY <1>5, Zenon DEF ShutdownWaitFails
  <2>2. /\ Fits(pool', active', ring, cq) /\ inFlight' \in BOOLEAN
        /\ inFlight' = TRUE \/ Quiet(ring)
    BY <2>1, Zenon DEF PoolInv
  <2> QED BY <2>1, <2>2, PoolDropped, Zenon
<1> QED BY <1>1, <1>2, <1>3, <1>4, <1>5, PoolStart, PoolPop, PoolBatch, PoolWaits, PoolResume,
           PoolShutdown, PoolCancels, Zenon
        DEF Next, Thread, Failure, Exited

(* What the invariant says about buffers, slots and the closed ring.       *)
LEMMA PoolIsSafe ==
    ASSUME PoolInv
    PROVE  BufferHasOneUser /\ NoSlotIsLost /\ ClosedMeansUnused
<1>1. Typed(pool, active, ring, cq) /\ OneUser(pool, active, ring, cq)
  BY Zenon DEF PoolInv, Fits
<1>2. cq \in Seq(Completions)
  BY <1>1, Zenon DEF Typed
<1>3. Len(cq) \in Nat
  BY <1>2
<1>4. \A op : AtWork(pool, active, op) => IsCurrent(op)
  BY Zenon DEF AtWork, IsCurrent
<1>5. \A r \in ring : r.op.kind # "cancel" => IsCurrent(r.op)
  BY <1>1, <1>4, Zenon DEF OneUser
<1>6. ASSUME NEW i \in 1..Len(cq), cq[i].op.kind # "cancel"
      PROVE  /\ IsCurrent(cq[i].op)
             /\ \A r \in ring : r.op # cq[i].op
             /\ \A j \in 1..(i - 1) : cq[j].op # cq[i].op
  <2>1. \A j \in 1..(i - 1) : j \in 1..Len(cq) /\ j # i
    BY <1>3
  <2> QED BY <1>1, <1>4, <1>6, <2>1, Zenon DEF OneUser
<1>7. BufferHasOneUser
  BY <1>5, <1>6, Zenon DEF BufferHasOneUser
<1>8. NoSlotIsLost
  BY Zenon DEF PoolInv, Kept, NoSlotIsLost
<1>9. ClosedMeansUnused
  BY Zenon DEF PoolInv, Quiet, ClosedMeansUnused
<1> QED BY <1>7, <1>8, <1>9, Zenon

(* A buffer of the relay has one user (BufferHasOneUser), through every    *)
(* failed build, submission, completion and cancellation: what the ring    *)
(* still holds for a slot is the slot's present operation, once.           *)
THEOREM BuffersHaveOneUser == Spec => []BufferHasOneUser
<1>1. Init => PoolInv
  BY PoolStarts, Zenon
<1>2. PoolInv /\ [Next]_vars => PoolInv'
  BY PoolStep, Zenon
<1>3. PoolInv => BufferHasOneUser
  BY PoolIsSafe, Zenon
<1> QED BY <1>1, <1>2, <1>3, PTL DEF Spec

(* While the relay runs no slot is lost to the pool (NoSlotIsLost): every  *)
(* one is queued, or free and waiting for an adaptive wake-up to repost    *)
(* its read, whatever order process_completion and the retries ran in.     *)
THEOREM SlotsAreKept == Spec => []NoSlotIsLost
<1>1. Init => PoolInv
  BY PoolStarts, Zenon
<1>2. PoolInv /\ [Next]_vars => PoolInv'
  BY PoolStep, Zenon
<1>3. PoolInv => NoSlotIsLost
  BY PoolIsSafe, Zenon
<1> QED BY <1>1, <1>2, <1>3, PTL DEF Spec

(* IoRingRuntime is dropped, and its buffers freed, only when the kernel   *)
(* works on none of them (ClosedMeansUnused); on every other path the      *)
(* process aborts instead.                                                 *)
THEOREM ClosedRingIsUnused == Spec => []ClosedMeansUnused
<1>1. Init => PoolInv
  BY PoolStarts, Zenon
<1>2. PoolInv /\ [Next]_vars => PoolInv'
  BY PoolStep, Zenon
<1>3. PoolInv => ClosedMeansUnused
  BY PoolIsSafe, Zenon
<1> QED BY <1>1, <1>2, <1>3, PTL DEF Spec

-----------------------------------------------------------------------------
(***************************************************************************)
(* The forwarding database, for any endpoints, addresses, VLANs and size   *)
(* of the database.                                                        *)
(***************************************************************************)

(* An entry is never stale: it names where its station last spoke.  A full *)
(* database leaves entries out, and never keeps one that a move outdated.  *)
(* And the last frame went where the database, as it is now, sends it.     *)
FdbInv ==
    /\ entries \in [Keys -> EndpointIds \cup {Unknown}]
    /\ seen \in [Keys -> EndpointIds \cup {Unknown}]
    /\ \A k \in Keys : entries[k] # Unknown => entries[k] = seen[k]
    /\ Forwarded => /\ last.key \in Keys
                    /\ Unicast /\ entries[last.key] # Unknown =>
                          last.to = {entries[last.key]} \ {last.from}
                    /\ Unicast /\ entries[last.key] = Unknown =>
                          last.to = EndpointIds \ {last.from}

(* The empty database.                                                     *)
LEMMA FdbInitially == FdbInit => FdbInv
BY DEF FdbInit, FdbInv, Forwarded

(* learn writes the entry of the sender, or no entry at all.               *)
LEMMA LearnIsCurrent ==
    ASSUME NEW frame \in Frames, NEW port \in EndpointIds, FdbInv,
           entries' = Learn(entries, frame, port),
           seen' = [seen EXCEPT ![<<frame.source, frame.vlan>>] = port]
    PROVE  /\ entries' \in [Keys -> EndpointIds \cup {Unknown}]
           /\ seen' \in [Keys -> EndpointIds \cup {Unknown}]
           /\ \A k \in Keys : entries'[k] # Unknown => entries'[k] = seen'[k]
<1> DEFINE key == <<frame.source, frame.vlan>>
<1>1. key \in Keys
  BY Zenon DEF Frames, Keys
<1>2. /\ entries \in [Keys -> EndpointIds \cup {Unknown}] /\ seen \in [Keys -> EndpointIds \cup {Unknown}]
      /\ \A k \in Keys : entries[k] # Unknown => entries[k] = seen[k]
  BY Zenon DEF FdbInv
<1>3. entries' = [entries EXCEPT ![key] = port] \/ (entries' = entries /\ key \notin Learnt(entries))
  BY Zenon DEF Learn
<1>4. key \notin Learnt(entries) => entries[key] = Unknown
  BY <1>1, Zenon DEF Learnt
<1> HIDE DEF key
<1>5. seen' = [seen EXCEPT ![key] = port]
  BY Zenon DEF key
<1> QED BY <1>1, <1>2, <1>3, <1>4, <1>5, ZenonT(30)

(* Switch::forward learns first and looks up the destination afterwards.   *)
LEMMA FdbStep ==
    ASSUME FdbInv, FdbNext
    PROVE  FdbInv'
<1>1. PICK frame \in Frames, port \in EndpointIds : Forward(frame, port)
  BY Zenon DEF FdbNext
<1> DEFINE to == <<frame.destination, frame.vlan>>
<1>2. /\ entries' = Learn(entries, frame, port)
      /\ seen' = [seen EXCEPT ![<<frame.source, frame.vlan>>] = port]
      /\ last' = [to |-> Recipients(entries', frame, port), from |-> port, key |-> to]
  BY <1>1, Zenon DEF Forward
<1>3. last'.to = Recipients(entries', frame, port) /\ last'.from = port /\ last'.key = to
  BY <1>2, Zenon
<1>4. to \in Keys /\ to[1] = frame.destination
  BY Zenon DEF Frames, Keys
<1>5. /\ to[1] \in Stations /\ entries'[to] # Unknown => last'.to = {entries'[to]} \ {port}
      /\ to[1] \in Stations /\ entries'[to] = Unknown => last'.to = EndpointIds \ {port}
  BY <1>3, <1>4, Zenon DEF Recipients, Lookup, Peers
<1>6. /\ entries' \in [Keys -> EndpointIds \cup {Unknown}]
      /\ seen' \in [Keys -> EndpointIds \cup {Unknown}]
      /\ \A k \in Keys : entries'[k] # Unknown => entries'[k] = seen'[k]
  BY <1>2, LearnIsCurrent, Zenon
<1> HIDE DEF to
<1> QED BY <1>3, <1>4, <1>5, <1>6, Zenon DEF FdbInv, Forwarded, Unicast

(* What the database knows, for any traffic.                               *)
LEMMA DatabaseIsCurrent == FdbSpec => []FdbInv
<1>1. FdbInv /\ [FdbNext]_fdbVars => FdbInv'
  <2>1. FdbInv /\ UNCHANGED fdbVars => FdbInv'
    BY Zenon DEF FdbInv, fdbVars, Forwarded, Unicast
  <2> QED BY <2>1, FdbStep, Zenon
<1> QED BY <1>1, FdbInitially, PTL DEF FdbSpec

(* Switch::forward, for any traffic: a unicast frame reaches the endpoint  *)
(* where its destination last spoke, be the database full or not.          *)
THEOREM FramesReachTheirStation == FdbSpec => []ReachesStation
<1>1. FdbInv => ReachesStation
  BY Zenon DEF FdbInv, ReachesStation, Forwarded
<1> QED BY <1>1, DatabaseIsCurrent, PTL

(* Switch::forward floods no frame whose destination the database holds,   *)
(* and never returns a frame to the endpoint it came from.                 *)
THEOREM LearntTrafficIsPrivate == FdbSpec => []LearntStationIsPrivate
<1>1. FdbInv => LearntStationIsPrivate
  BY Zenon DEF FdbInv, LearntStationIsPrivate, Forwarded
<1> QED BY <1>1, DatabaseIsCurrent, PTL

=============================================================================
