-------------------------- MODULE AdaptiveWaitProofs --------------------------
(***************************************************************************)
(* OwnershipInv, InterestInv, ScanInv and WakeupInv are invariants of      *)
(* AdaptiveWait, for any number of requests and teardown threads, and with *)
(* them the safety properties that the runs check on small instances.      *)
(***************************************************************************)
EXTENDS AdaptiveWaitRegistration, AdaptiveWaitTeardown

USE DEF OwnerPcs, RegisterPcs, UnmarkPcs, RetirePcs, CallbackPcs

(* A thread outside the protocol's owning steps holds no request.          *)
LEMMA HoldsNothing ==
    ASSUME OwnershipInv, NEW t \in Threads,
           pc[t] \notin OwnerPcs \cup {"precheck", "begin", "complete"}
    PROVE  held[t] = NoRequest
BY DEF OwnershipInv, Ownership, OwnerKnows

(* A step that only moves one thread between steps that own nothing.       *)
LEMMA GotoFrame ==
    ASSUME OwnershipInv, NEW t0 \in Threads \ Requests, NEW l \in Pc,
           l \in PcsOf(t0), Goto(t0, l),
           pc[t0] \notin OwnerPcs \cup {"precheck", "begin", "complete"},
           l \notin OwnerPcs \cup {"precheck", "begin", "complete"},
           l = "stop_cas" => pc[t0] = "stop_slot", l # "stop_slot",
           UNCHANGED <<record, slot, handoff, wdf, completions, held, observed>>
    PROVE  OwnershipInv'
<1>1. record' \in Records /\ observed' \in [Threads -> Records]
    BY DEF OwnershipInv, OwnershipTypes
<1>2. l = "stop_cas" => observed'[t0].state \in {"registering", "pending", "scheduled"}
    BY DEF OwnershipInv, Ownership, OwnerKnows
<1>3. pc' = [pc EXCEPT ![t0] = l]
    BY DEF Goto
<1> QED
    BY <1>1, <1>2, <1>3, Frame, Zenon

(* Leaving the protocol resets the thread's locals, none of them owned.    *)
LEMMA LeaveFrame ==
    ASSUME OwnershipInv, NEW t0 \in Threads \ Requests, Leave(t0),
           pc[t0] \notin OwnerPcs \cup {"precheck", "begin", "complete"},
           record' \in Records,
           \/ record.state' = record.state
           \/ {record.state, record.state'} \subseteq {"pending", "scheduled"},
           UNCHANGED <<slot, handoff, wdf, completions>>
    PROVE  OwnershipInv'
<1>1. Return(t0) \in PcsOf(t0) /\ Return(t0) \in {"flush", "take", "idle"}
    BY ThreadFacts DEF Return, PcsOf, Threads, Callbacks
<1>2. pc' = [pc EXCEPT ![t0] = Return(t0)]
    BY DEF Leave, Goto
<1>3. held' = held
    BY HoldsNothing DEF Leave, ResetLocals, OwnershipInv, OwnershipTypes
<1>4. observed' = [observed EXCEPT ![t0] = FreeRecord(0)]
    BY DEF Leave, ResetLocals
<1>5. /\ observed' \in [Threads -> Records]
      /\ \A t \in Threads : t # t0 => observed'[t] = observed[t]
    BY <1>4, FreeRecordType DEF OwnershipInv, OwnershipTypes
<1>6. Return(t0) \in Pc
    BY <1>1 DEF Pc
<1> QED
    BY <1>1, <1>2, <1>3, <1>5, <1>6, Frame, Zenon

(* A step outside the protocol, or no step at all.                         *)
LEMMA Undisturbed ==
    ASSUME OwnershipInv,
           UNCHANGED <<record, slot, handoff, wdf, completions, pc, held, observed>>
    PROVE  OwnershipInv'
<1>1. OwnershipTypes' /\ ControlOK' /\ ExclusiveOwner'
    BY DEF OwnershipInv, OwnershipTypes, ControlOK, ExclusiveOwner
<1>2. Ownership'
    BY DEF OwnershipInv, Ownership, OwnerKnows, Cancellable
<1>3. SingleHolder' /\ Publication'
    BY DEF OwnershipInv, SingleHolder, Publication, Cancellable
<1>4. Cancellation'
    BY DEF OwnershipInv, Cancellation, CallbackKnows
<1> QED
    BY <1>1, <1>2, <1>3, <1>4, Zenon DEF OwnershipInv

-----------------------------------------------------------------------------
(* The level check and the claim of every claimant own nothing.            *)
LEMMA ClaimStep ==
    ASSUME OwnershipInv, TypeOK, MaskInv, NEW t \in Claimants, Claim(t)
    PROVE  OwnershipInv'
<1> USE ThreadFacts DEF Claimants
<1>1. t \in Threads \ Requests /\ ClaimPcs \subseteq PcsOf(t) /\ ClaimPcs \subseteq Pc
    BY DEF PcsOf, ClaimPcs, Pc
<1>2. record \in Records /\ observed \in [Threads -> Records]
    BY DEF OwnershipInv, OwnershipTypes
<1>3. ASSUME ClaimEnter(t) PROVE OwnershipInv'
  <2>1. CASE adaptive
      BY <1>1, <1>3, <2>1, GotoFrame DEF ClaimEnter, ClaimPcs, locals, shared, requestState
  <2>2. CASE ~adaptive
      BY <1>1, <1>2, <1>3, <2>2, LeaveFrame DEF ClaimEnter, shared, requestState
  <2> QED
      BY <2>1, <2>2, Zenon
<1>4. ASSUME ClaimLoad(t) PROVE OwnershipInv'
  <2>1. CASE record.state \in {"pending", "scheduled"}
      BY <1>1, <1>2, <1>4, <2>1, Frame
         DEF ClaimLoad, Goto, ClaimPcs, shared, requestState
  <2>2. CASE record.state \notin {"pending", "scheduled"}
      BY <1>1, <1>2, <1>4, <2>2, LeaveFrame DEF ClaimLoad, shared, requestState
  <2> QED
      BY <2>1, <2>2, Zenon
<1>5. ASSUME ClaimInspect(t) PROVE OwnershipInv'
  <2>1. /\ pc[t] = "inspect"
        /\ UNCHANGED <<record, slot, handoff, wdf, completions>>
        /\ Leave(t) \/ (Goto(t, "cas") /\ UNCHANGED <<held, observed>>)
      BY <1>5 DEF ClaimInspect, shared, requestState
  <2>2. CASE Leave(t)
      BY <1>1, <1>2, <2>1, <2>2, LeaveFrame
  <2>3. CASE Goto(t, "cas") /\ UNCHANGED <<held, observed>>
      BY <1>1, <2>1, <2>3, GotoFrame DEF ClaimPcs
  <2> QED
      BY <2>1, <2>2, <2>3, Zenon
<1>6. ASSUME ClaimCas(t) PROVE OwnershipInv'
  <2>1. /\ pc[t] = "cas"
        /\ UNCHANGED <<slot, handoff, wdf, completions>>
      BY <1>6 DEF ClaimCas, requestState
  <2>2. CASE record # observed[t]
      BY <1>1, <1>6, <2>1, <2>2, GotoFrame DEF ClaimCas, ClaimPcs, locals
  <2>3. CASE record = observed[t]
    <3>1. record' = [record EXCEPT !.state = "scheduled", !.satisfied = @ \cup bits[t]]
        BY <1>6, <2>3 DEF ClaimCas
    <3>2. record.state \in {"pending", "scheduled"} /\ bits[t] \in SUBSET Bits
        BY <1>1, <2>1, <2>3 DEF MaskInv, ClaimantKnows, TypeOK
    <3>3. record' \in Records /\ record'.state = "scheduled"
        BY <1>2, <3>1, <3>2, Zenon DEF Records, States
    <3>4. CASE Leave(t)
        BY <1>1, <2>1, <3>2, <3>3, <3>4, LeaveFrame
    <3>5. CASE Goto(t, "schedule") /\ UNCHANGED <<held, observed>>
        BY <1>1, <1>2, <2>1, <3>2, <3>3, <3>5, Frame, Zenon DEF Goto, ClaimPcs
    <3> QED
        BY <1>6, <2>3, <3>4, <3>5 DEF ClaimCas, locals
  <2> QED
      BY <2>2, <2>3, Zenon
<1>7. ASSUME ClaimSchedule(t) PROVE OwnershipInv'
    BY <1>1, <1>2, <1>7, LeaveFrame DEF ClaimSchedule, shared, requestState
<1> QED
    BY <1>3, <1>4, <1>5, <1>6, <1>7 DEF Claim

(* handle_wait_for_change, once the wait is dispatched.                    *)
LEMMA RegistrationStep ==
    ASSUME OwnershipInv, Registration
    PROVE  OwnershipInv'
<1> USE ThreadFacts
<1>1. "dispatch" \in Threads \ Requests /\ PcsOf("dispatch") \subseteq Pc
    BY DEF PcsOf, Pc, ClaimPcs
<1>2. {"level_injection", "claim"} \subseteq PcsOf("dispatch") /\ record \in Records
    BY DEF PcsOf, ClaimPcs, OwnershipInv, OwnershipTypes
<1>3. ASSUME LevelCapture PROVE OwnershipInv'
    BY <1>1, <1>2, <1>3, GotoFrame DEF LevelCapture, shared, requestState
<1>4. ASSUME LevelInjection PROVE OwnershipInv'
  <2>1. /\ pc["dispatch"] = "level_injection"
        /\ UNCHANGED <<record, slot, handoff, wdf, completions>>
        /\ Leave("dispatch") \/ (Goto("dispatch", "claim") /\ UNCHANGED <<held, observed>>)
      BY <1>4 DEF LevelInjection, shared, requestState
  <2>2. CASE Leave("dispatch")
      BY <1>1, <1>2, <2>1, <2>2, LeaveFrame
  <2>3. CASE Goto("dispatch", "claim") /\ UNCHANGED <<held, observed>>
      BY <1>1, <1>2, <2>1, <2>3, GotoFrame
  <2> QED
      BY <2>1, <2>2, <2>3, Zenon
<1> QED
    BY <1>3, <1>4, PrecheckStep, BeginStep, PublishSlotStep, PublishInterestStep,
       RecheckStep, MarkStep, PublishPendingStep, ResolveTeardownStep,
       CancelledBeforePublication DEF Registration

(* The read-completion work item.                                          *)
LEMMA WorkItemStep ==
    ASSUME OwnershipInv, WorkItem
    PROVE  OwnershipInv'
<1> USE ThreadFacts
<1>1. "worker" \in Threads \ Requests /\ {"idle", "take"} \subseteq PcsOf("worker")
      /\ {"idle", "take"} \subseteq Pc
    BY DEF PcsOf, Pc
<1>2. ASSUME WorkerStart PROVE OwnershipInv'
    BY <1>1, <1>2, GotoFrame DEF WorkerStart, shared, requestState, locals
<1>3. ASSUME TakeScheduledWait, record.state # "scheduled" PROVE OwnershipInv'
    BY <1>1, <1>3, GotoFrame DEF TakeScheduledWait, requestState
<1> QED
    BY <1>2, <1>3, TakeScheduledStep, TakeSlotStep, WorkerReadyStep DEF WorkItem

(* The teardown callbacks, from their first step to their last.            *)
LEMMA TeardownStart ==
    ASSUME OwnershipInv, NEW s \in Stoppers, Teardown(s)
    PROVE  OwnershipInv'
<1>1. PICK k \in AllKinds \cup Kinds, r \in Requests \cup {NoRequest}, l \in {"stop", "active"} :
          BeginTeardown(s, k, r, l)
    BY DEF Teardown, PacketQueueStop, LifecycleTeardown, IoStop, AllKinds
<1>2. l \in Pc /\ l \in PcsOf(s) /\ s \in Threads \ Requests
    BY ThreadFacts DEF Pc, PcsOf
<1> QED
    BY <1>1, <1>2, GotoFrame DEF BeginTeardown, shared, requestState

(* cancel_wait_request_for_teardown, the flush and the clearing of the     *)
(* frame queues that follow it keep the ownership invariant.               *)
LEMMA TeardownSteps ==
    ASSUME OwnershipInv, NEW s \in Stoppers, TeardownStep(s)
    PROVE  OwnershipInv'
<1>1. /\ s \in Threads \ Requests
      /\ {"idle", "stop", "stop_slot", "stop_cas", "clear", "reopen"} \subseteq PcsOf(s)
      /\ {"idle", "stop", "stop_slot", "stop_cas", "clear", "reopen"} \subseteq Pc
    BY ThreadFacts DEF Pc, PcsOf
<1>2. record \in Records /\ observed \in [Threads -> Records]
    BY DEF OwnershipInv, OwnershipTypes
<1>3. ASSUME IoStopActive(s) PROVE OwnershipInv'
  <2>1. /\ pc[s] = "active" /\ UNCHANGED <<record, slot, handoff, wdf, completions>>
        /\ Leave(s) \/ (Goto(s, "stop") /\ UNCHANGED <<held, observed>>)
      BY <1>3 DEF IoStopActive, shared, requestState, locals
  <2> QED
      BY <1>1, <1>2, <2>1, LeaveFrame, GotoFrame, Zenon
<1>4. ASSUME StopLoad(s) PROVE OwnershipInv'
  <2>1. CASE record.state \in {"registering", "pending", "scheduled"}
      BY <1>1, <1>2, <1>4, <2>1, Frame DEF StopLoad, Goto, shared, requestState
  <2>2. CASE record.state \notin {"registering", "pending", "scheduled"}
      BY <1>1, <1>2, <1>4, <2>2, LeaveFrame DEF StopLoad, shared, requestState
  <2> QED
      BY <2>1, <2>2, Zenon
<1>5. ASSUME StopSlot(s) PROVE OwnershipInv'
  <2>1. /\ pc[s] = "stop_slot" /\ UNCHANGED <<record, slot, handoff, wdf, completions>>
        /\ Leave(s) \/ (Goto(s, "stop_cas") /\ UNCHANGED <<held, observed>>)
      BY <1>5 DEF StopSlot, shared, requestState, locals
  <2> QED
      BY <1>1, <1>2, <2>1, LeaveFrame, GotoFrame, Zenon
<1>6. ASSUME StopCas(s), record.state # observed[s].state PROVE OwnershipInv'
    BY <1>1, <1>6, GotoFrame DEF StopCas, requestState, locals
<1>7. ASSUME StopCas(s) PROVE OwnershipInv'
    BY <1>6, <1>7, StopClaimsRegistration, StopWinsWait
<1>8. ASSUME FlushWorkItem(s) PROVE OwnershipInv'
  <2>1. /\ pc[s] = "flush"
        /\ UNCHANGED <<record, slot, handoff, wdf, completions, held, observed>>
        /\ Goto(s, "idle") \/ Goto(s, "clear")
      BY <1>8 DEF FlushWorkItem, shared, requestState
  <2> QED
      BY <1>1, <2>1, GotoFrame, Zenon
<1>9. ASSUME ClearFrameQueues(s) \/ ReopenFrameQueues(s) PROVE OwnershipInv'
  <2>1. /\ pc[s] \in {"clear", "reopen"}
        /\ UNCHANGED <<record, slot, handoff, wdf, completions, held, observed>>
        /\ Goto(s, "idle") \/ Goto(s, "reopen")
      BY <1>9 DEF ClearFrameQueues, ReopenFrameQueues, shared, requestState, locals
  <2> QED
      BY <1>1, <2>1, GotoFrame, Zenon
<1> QED
    BY <1>3, <1>4, <1>5, <1>7, <1>8, <1>9, StopRereadStep DEF TeardownStep

(* The datapath callbacks only decide when to claim.                       *)
LEMMA DatapathStep ==
    ASSUME OwnershipInv, NEW t \in {"tx", "rx", "read"},
           \/ t = "tx" /\ (TxEnter \/ TxEnqueue)
           \/ t = "rx" /\ (RxEnter \/ Receive)
           \/ t = "read" /\ (ReadEnter \/ Read)
    PROVE  OwnershipInv'
<1>1. t \in Threads \ Requests /\ "idle" \in PcsOf(t) /\ "claim" \in PcsOf(t)
    BY ThreadFacts DEF PcsOf, ClaimPcs
<1>2. \E l \in Pc \cap PcsOf(t) :
          /\ Goto(t, l) /\ l \notin {"stop_slot", "stop_cas"}
          /\ pc[t] \notin OwnerPcs \cup {"precheck", "begin", "complete"}
          /\ l \notin OwnerPcs \cup {"precheck", "begin", "complete"}
  <2>1. CASE t = "tx"
      BY <1>1, <2>1 DEF TxEnter, TxEnqueue, Enter, EnqueueCapture, ClaimFor, PcsOf, Pc
  <2>2. CASE t = "rx"
      BY <1>1, <2>2
         DEF RxEnter, Receive, RxDequeue, RxClaim, RxRequeue, Enter, ClaimFor, PcsOf, Pc
  <2>3. CASE t = "read"
      BY <1>1, <2>3
         DEF ReadEnter, Read, ReadDequeue, ReadRequeue, EnqueueCapture, Enter, ClaimFor,
             PcsOf, Pc
  <2> QED
      BY <2>1, <2>2, <2>3, Zenon
<1>3. UNCHANGED <<record, slot, handoff, wdf, completions, held, observed>>
    BY DEF TxEnter, TxEnqueue, RxEnter, Receive, RxDequeue, RxClaim, RxRequeue, ReadEnter,
           Read, ReadDequeue, ReadRequeue, EnqueueCapture, Enter, ClaimFor, shared,
           requestState, locals
<1> QED
    BY <1>1, <1>2, <1>3, GotoFrame, Zenon

(* The cancellation callback, once WDF has called it.                      *)
LEMMA CancelSteps ==
    ASSUME OwnershipInv, NEW r \in Requests, CancelStep(r)
    PROVE  OwnershipInv'
<1>1. ASSUME CancelCas(r) PROVE OwnershipInv'
    BY <1>1, CancelRetryStep, CancelMeetsRegistration, CancelWinsWait
<1>2. ASSUME HandoffFromCancel(r) PROVE OwnershipInv'
    BY <1>2, CancelHandsOver, CancelArrivesLast
<1> QED
    BY <1>1, <1>2, CancelActiveStep, CancelLoadStep DEF CancelStep

(* Every step of the driver and of its environment.                        *)
LEMMA NextOwnership ==
    ASSUME OwnershipInv, TypeOK, MaskInv, [Next]_vars
    PROVE  OwnershipInv'
<1>1. CASE UNCHANGED vars
    BY <1>1, Undisturbed DEF vars, shared, requestState, locals
<1>2. ASSUME Environment PROVE OwnershipInv'
  <2>1. ASSUME NEW b \in Directions, PacketQueueStart(b) PROVE OwnershipInv'
      BY <2>1, Undisturbed DEF PacketQueueStart, shared, requestState, locals
  <2>2. ASSUME WriteFrame \/ EnableAdaptivePolling PROVE OwnershipInv'
      BY <2>2, Undisturbed DEF WriteFrame, EnableAdaptivePolling, shared, requestState,
         locals
  <2>3. ASSUME NEW r \in Requests, CancelRequest(r) PROVE OwnershipInv'
    <3>1. CASE wdf[r] = "marked"
        BY <2>3, <3>1, CancelMarkedStep
    <3>2. CASE wdf[r] # "marked"
        BY <2>3, <3>2, Undisturbed DEF CancelRequest, shared, locals
    <3> QED
        BY <3>1, <3>2, Zenon
  <2> QED
      BY <1>2, <2>1, <2>2, <2>3, DispatchStep, TeardownStart, DatapathStep
         DEF Environment
<1>3. ASSUME NEW t \in Threads, Step(t) PROVE OwnershipInv'
  <2>1. ASSUME Retire(t) PROVE OwnershipInv'
      BY <2>1, UnmarkStep, HandoffFromUnmarkStep, ClearSlotStep, FreeStep, CompleteStep
         DEF Retire
  <2> QED
      BY <1>3, <2>1, RegistrationStep, WorkItemStep, DatapathStep, ClaimStep,
         TeardownSteps, CancelSteps DEF Step
<1> QED
    BY <1>1, <1>2, <1>3 DEF Next

-----------------------------------------------------------------------------
(* The part of TypeOK that OwnershipInv does not already give.             *)
DeviceTypes ==
    /\ interest \in SUBSET Bits
    /\ adaptive \in BOOLEAN /\ open \in BOOLEAN /\ queuesOpen \in BOOLEAN
    /\ started \in [Bits -> BOOLEAN]
    /\ capture \in 0..CaptureLimit
    /\ injection \in 0..InjectionLimit
    /\ queued \in BOOLEAN
    /\ userCancelled \in [Requests -> BOOLEAN]
    /\ asked \in [Requests -> SUBSET Bits]

LocalTypes ==
    /\ expected \in [Threads -> Requests \cup {NoRequest}]
    /\ bits \in [Threads -> SUBSET Bits]
    /\ status \in [Threads -> {"none", "success", "cancelled", "failed"}]
    /\ kind \in [Stoppers -> AllKinds \cup {"none"}]

(* The queue lengths stay within FRAME_QUEUE_LIMIT and no flag changes type. *)
LEMMA DeviceTypesStep ==
    ASSUME TypeOK, OwnershipInv, Next
    PROVE  DeviceTypes'
<1> USE ThreadFacts, ConfigurationAssumption DEF TypeOK, DeviceTypes
<1>1. ASSUME NEW r \in Requests, NEW i \in Interests, Dispatch(r, i) PROVE DeviceTypes'
    BY <1>1 DEF Dispatch, shared, device
<1>2. ASSUME NEW r \in Requests, CancelRequest(r) \/ CancelStep(r) PROVE DeviceTypes'
    BY <1>2, Zenon DEF CancelRequest, CancelStep, CancelActive, CancelLoad, CancelCas,
                HandoffFromCancel, shared, device, requestState
<1>3. ASSUME NEW s \in Stoppers, Teardown(s) \/ TeardownStep(s) PROVE DeviceTypes'
  <2>1. ASSUME ClearFrameQueues(s) PROVE DeviceTypes'
    <3>1. adaptive' \in BOOLEAN
        BY <2>1, Zenon DEF ClearFrameQueues
    <3>2. /\ capture' = 0 /\ injection' = 0 /\ queuesOpen' = FALSE
          /\ UNCHANGED <<interest, open, started, queued, userCancelled, asked>>
        BY <2>1 DEF ClearFrameQueues, shared, requestState
    <3>3. 0 \in 0..CaptureLimit /\ 0 \in 0..InjectionLimit
        OBVIOUS
    <3> QED
        BY <3>1, <3>2, <3>3, Zenon
  <2>2. ASSUME Teardown(s) PROVE DeviceTypes'
      BY <2>2, Zenon DEF Teardown, PacketQueueStop, LifecycleTeardown, IoStop, BeginTeardown,
                  shared, requestState
  <2> QED
      BY <1>3, <2>1, <2>2, Zenon
         DEF TeardownStep, IoStopActive, StopLoad, StopSlot, StopCas, StopReread,
             FlushWorkItem, ReopenFrameQueues, shared, device, requestState
<1>4. ASSUME NEW b \in Directions, PacketQueueStart(b) PROVE DeviceTypes'
    BY <1>4 DEF PacketQueueStart, shared, requestState
<1>5. ASSUME TxEnter \/ RxEnter \/ ReadEnter \/ EnableAdaptivePolling PROVE DeviceTypes'
    BY <1>5, Zenon DEF TxEnter, RxEnter, ReadEnter, EnableAdaptivePolling, Enter, shared, device,
                requestState
<1>6. ASSUME WriteFrame \/ TxEnqueue \/ Receive \/ Read PROVE DeviceTypes'
  <2>1. ASSUME NEW t, EnqueueCapture(t) PROVE DeviceTypes'
      BY <2>1 DEF EnqueueCapture, shared, requestState
  <2>2. ASSUME WriteFrame \/ RxRequeue PROVE DeviceTypes'
    <3>1. CASE WriteFrame
        BY <3>1 DEF WriteFrame, shared, requestState
    <3>2. CASE RxRequeue
        BY <3>2 DEF RxRequeue, shared, requestState
    <3> QED
        BY <2>2, <3>1, <3>2, Zenon
  <2>3. ASSUME RxDequeue \/ RxClaim PROVE DeviceTypes'
      BY <2>3 DEF RxDequeue, RxClaim, shared, device, requestState
  <2>4. ASSUME ReadDequeue PROVE DeviceTypes'
      BY <2>4 DEF ReadDequeue, shared, requestState
  <2>5. ASSUME ReadRequeue PROVE DeviceTypes'
      BY <2>1, <2>5 DEF ReadRequeue, shared, device, requestState
  <2> QED
      BY <1>6, <2>1, <2>2, <2>3, <2>4, <2>5 DEF TxEnqueue, Receive, Read
<1>7. ASSUME PublishInterest PROVE DeviceTypes'
  <2>1. pc["dispatch"] = "publish_interest" /\ OwnerKnows("dispatch")
      BY <1>7, Knows, Zenon DEF PublishInterest
  <2>2. held["dispatch"] \in Requests
      BY <2>1, Zenon DEF OwnerKnows
  <2> QED
      BY <1>7, <2>2 DEF PublishInterest, device, requestState
<1>8. ASSUME Registration PROVE DeviceTypes'
    BY <1>7, <1>8, Zenon
       DEF Registration, Precheck, BeginWaitRecord, PublishSlot, Recheck, MarkCancelable,
           PublishPending, ResolveTeardown, LevelCapture, LevelInjection, shared, device,
           requestState
<1>9. ASSUME WorkItem PROVE DeviceTypes'
    BY <1>9, Zenon DEF WorkItem, WorkerStart, TakeScheduledWait, TakeSlot, RefreshCapture,
                RefreshInjection, DecideStatus, shared, device, requestState
<1>10. ASSUME NEW t \in Threads, Claim(t) PROVE DeviceTypes'
    BY <1>10, Zenon DEF Claim, ClaimEnter, ClaimLoad, ClaimInspect, ClaimCas, ClaimSchedule,
                shared, device, requestState
<1>11. ASSUME NEW t \in Threads, Retire(t) PROVE DeviceTypes'
    BY <1>11 DEF Retire, Unmark, HandoffFromUnmark, ClearSlot, FreeTheRecord,
                CompleteRequest, shared, device, requestState
<1> QED
    BY <1>1, <1>2, <1>3, <1>4, <1>5, <1>6, <1>8, <1>9, <1>10, <1>11, Zenon
       DEF Next, Environment, Step

(* What leaving the protocol does to a thread's locals.                    *)
LEMMA LeaveTypes ==
    ASSUME LocalTypes, NEW t \in Threads, Leave(t)
    PROVE  LocalTypes'
BY DEF LocalTypes, Leave, ResetLocals

(* What taking over a terminal completion does to a thread's locals.       *)
LEMMA OwnTypes ==
    ASSUME LocalTypes, NEW t \in Threads, NEW r, NEW l,
           NEW c \in {"none", "success", "cancelled", "failed"}, Own(t, r, c, l)
    PROVE  LocalTypes'
BY DEF LocalTypes, Own

(* A step that touches none of these locals keeps their types.             *)
LEMMA SameTypes == LocalTypes /\ UNCHANGED <<expected, bits, status, kind>> => LocalTypes'
BY DEF LocalTypes

(* The locals of every thread keep their types.                            *)
LEMMA LocalTypesStep ==
    ASSUME TypeOK, OwnershipInv, Next
    PROVE  LocalTypes'
<1> USE ThreadFacts, ConfigurationAssumption
<1>1. LocalTypes
    BY DEF TypeOK, LocalTypes
<1>2. slot \in Requests \cup {NoRequest} /\ held \in [Threads -> Requests \cup {NoRequest}]
    BY DEF TypeOK
<1>3. ASSUME NEW r \in Requests, NEW i \in Interests, Dispatch(r, i) PROVE LocalTypes'
    BY <1>1, <1>3, OwnTypes DEF Dispatch
<1>4. ASSUME NEW r \in Requests, CancelRequest(r) PROVE LocalTypes'
    BY <1>1, <1>4, SameTypes DEF CancelRequest, locals
<1>5. ASSUME NEW r \in Requests, CancelStep(r) PROVE LocalTypes'
    BY <1>1, <1>5, SameTypes, OwnTypes, LeaveTypes
       DEF CancelStep, CancelActive, CancelLoad, CancelCas, HandoffFromCancel, locals
<1>6. ASSUME NEW s \in Stoppers, Teardown(s) PROVE LocalTypes'
  <2>1. PICK k \in AllKinds, r \in Requests \cup {NoRequest}, l \in {"stop", "active"} :
            BeginTeardown(s, k, r, l)
      BY <1>6 DEF Teardown, PacketQueueStop, LifecycleTeardown, IoStop, AllKinds
  <2> QED
      BY <1>1, <2>1 DEF BeginTeardown, LocalTypes
<1>7. ASSUME NEW s \in Stoppers, TeardownStep(s) PROVE LocalTypes'
  <2>1. ASSUME FlushWorkItem(s) \/ ReopenFrameQueues(s) PROVE LocalTypes'
      BY <1>1, <2>1 DEF FlushWorkItem, ReopenFrameQueues, LocalTypes
  <2> QED
      BY <1>1, <1>7, <2>1, SameTypes, OwnTypes, LeaveTypes
         DEF TeardownStep, IoStopActive, StopLoad, StopSlot, StopCas, StopReread,
             ClearFrameQueues, locals
<1>8. ASSUME NEW b \in Directions, PacketQueueStart(b) PROVE LocalTypes'
    BY <1>1, <1>8, SameTypes DEF PacketQueueStart, locals
<1>9. ASSUME TxEnter \/ RxEnter \/ ReadEnter \/ EnableAdaptivePolling \/ WriteFrame
      PROVE  LocalTypes'
    BY <1>1, <1>9, SameTypes
       DEF TxEnter, RxEnter, ReadEnter, EnableAdaptivePolling, WriteFrame, Enter, locals
<1>10. ASSUME NEW t \in Threads, NEW b \in Bits, ClaimFor(t, b) PROVE LocalTypes'
    BY <1>1, <1>10 DEF ClaimFor, LocalTypes
<1>11. ASSUME TxEnqueue \/ Receive \/ Read PROVE LocalTypes'
    BY <1>1, <1>10, <1>11, SameTypes
       DEF TxEnqueue, Receive, RxDequeue, RxClaim, RxRequeue, Read, ReadDequeue,
           ReadRequeue, EnqueueCapture, Bits, locals
<1>12. ASSUME Registration PROVE LocalTypes'
  <2>1. ASSUME PublishPending PROVE LocalTypes'
      BY <1>1, <1>2, <2>1, SameTypes, OwnTypes DEF PublishPending, LocalTypes, locals
  <2>2. ASSUME LevelCapture PROVE LocalTypes'
      BY <1>1, <2>2 DEF LevelCapture, Readable, Bits, LocalTypes
  <2>3. ASSUME LevelInjection PROVE LocalTypes'
    <3>1. (bits["dispatch"] \cup Writable) \cap asked[expected["dispatch"]] \in SUBSET Bits
        BY <1>1 DEF Writable, Bits, LocalTypes
    <3> QED
        BY <1>1, <2>3, <3>1, LeaveTypes DEF LevelInjection, LocalTypes
  <2> QED
      BY <1>1, <1>12, <2>1, <2>2, <2>3, SameTypes, OwnTypes
         DEF Registration, Precheck, BeginWaitRecord, PublishSlot, PublishInterest, Recheck,
             MarkCancelable, ResolveTeardown, locals
<1>13. ASSUME WorkItem PROVE LocalTypes'
  <2>1. ASSUME TakeScheduledWait PROVE LocalTypes'
      BY <1>1, <2>1, Zenon DEF TakeScheduledWait, LocalTypes, TypeOK, Records
  <2>2. ASSUME RefreshCapture \/ RefreshInjection PROVE LocalTypes'
      BY <1>1, <2>2 DEF RefreshCapture, RefreshInjection, Readable, Writable, Bits,
         LocalTypes
  <2>3. ASSUME DecideStatus PROVE LocalTypes'
      BY <1>1, <2>3 DEF DecideStatus, LocalTypes
  <2> QED
      BY <1>1, <1>13, <2>1, <2>2, <2>3, SameTypes DEF WorkItem, WorkerStart, TakeSlot, locals
<1>14. ASSUME NEW t \in Threads, Claim(t) PROVE LocalTypes'
  <2>1. ASSUME ClaimInspect(t), ~Leave(t) PROVE LocalTypes'
      BY <1>1, <2>1 DEF ClaimInspect, LocalTypes
  <2> QED
      BY <1>1, <1>14, <2>1, SameTypes, LeaveTypes
         DEF Claim, ClaimEnter, ClaimLoad, ClaimCas, ClaimSchedule, locals
<1>15. ASSUME NEW t \in Threads, Retire(t) PROVE LocalTypes'
  <2>1. ASSUME Unmark(t) PROVE LocalTypes'
      BY <1>1, <2>1 DEF Unmark, LocalTypes
  <2> QED
      BY <1>1, <1>15, <2>1, SameTypes, LeaveTypes
         DEF Retire, HandoffFromUnmark, ClearSlot, FreeTheRecord, CompleteRequest, locals
<1> QED
    BY <1>3, <1>4, <1>5, <1>6, <1>7, <1>8, <1>9, <1>11, <1>12, <1>13, <1>14, <1>15
       DEF Next, Environment, Step

-----------------------------------------------------------------------------
(* A step leaves the claimants that are about to compare-exchange alone.   *)
KeepsClaimants ==
    \A t \in Claimants :
        pc'[t] \in {"inspect", "cas"} =>
            pc[t] = pc'[t] /\ observed'[t] = observed[t] /\ bits'[t] = bits[t]

(* How everybody but a claimant may change the word.                       *)
MovesRecord ==
    \/ record' = record
    \/ /\ record'.sequence = record.sequence + 1
       /\ record'.state \in {"free", "registering"} /\ record'.satisfied = {}
    \/ /\ record'.sequence = record.sequence
       /\ record'.state \in {"unmarking", "cancelled"}
    \/ /\ record.state = "registering" /\ record'.state \in {"pending", "teardown"}
       /\ record'.sequence = record.sequence /\ record'.satisfied = record.satisfied

(* Sequence numbers fence the older observations: whatever else a step     *)
(* does, MaskInv survives it.                                              *)
LEMMA MaskFrame ==
    ASSUME TypeOK, MaskInv, KeepsClaimants, MovesRecord, record' \in Records,
           interest' = interest \/ record'.state \notin {"pending", "scheduled"}
    PROVE  MaskInv'
<1>1. record \in Records /\ observed \in [Threads -> Records] /\ Claimants \subseteq Threads
    BY DEF TypeOK, Claimants, Threads, Callbacks
<1>2. ASSUME NEW t \in Claimants PROVE ClaimantKnows(t)'
  <2>1. CASE pc'[t] \notin {"inspect", "cas"}
      BY <2>1 DEF ClaimantKnows
  <2>2. CASE pc'[t] \in {"inspect", "cas"}
    <3>1. pc'[t] = pc[t] /\ observed'[t] = observed[t] /\ bits'[t] = bits[t]
        BY <2>2 DEF KeepsClaimants
    <3>2. ClaimantKnows(t) /\ observed[t].sequence \in Nat /\ record.sequence \in Nat
        BY <1>1 DEF MaskInv, Records
    <3> QED
        BY <2>2, <3>1, <3>2 DEF ClaimantKnows, MovesRecord
  <2> QED
      BY <2>1, <2>2, Zenon
<1>3. record'.state \in {"registering", "pending"} => record'.satisfied = {}
    BY DEF MaskInv, MovesRecord
<1>4. ScheduledMaskIsCurrent'
    BY DEF MaskInv, MovesRecord, ScheduledMaskIsCurrent
<1> QED
    BY <1>2, <1>3, <1>4 DEF MaskInv

(* Moving one thread somewhere else keeps the claimants.                   *)
LEMMA GotoKeeps ==
    ASSUME TypeOK, NEW t0 \in Threads, NEW l, l \notin {"inspect", "cas"}, Goto(t0, l),
           \A t \in Threads : t # t0 => observed'[t] = observed[t] /\ bits'[t] = bits[t]
    PROVE  KeepsClaimants
<1>1. pc' = [pc EXCEPT ![t0] = l] /\ pc \in [Threads -> Pc] /\ Claimants \subseteq Threads
    BY DEF Goto, TypeOK, Claimants, Threads, Callbacks
<1> QED
    BY <1>1 DEF KeepsClaimants

(* A thread that leaves the wait protocol keeps the other claimants.       *)
LEMMA LeaveKeeps ==
    ASSUME TypeOK, NEW t0 \in Threads, Leave(t0)
    PROVE  KeepsClaimants
<1>1. /\ Return(t0) \notin {"inspect", "cas"} /\ Goto(t0, Return(t0))
      /\ \A t \in Threads : t # t0 => observed'[t] = observed[t] /\ bits'[t] = bits[t]
    BY DEF Return, Leave, ResetLocals, TypeOK
<1> QED
    BY <1>1, GotoKeeps, Zenon

(* A thread that takes over a terminal completion keeps the claimants.     *)
LEMMA OwnKeeps ==
    ASSUME TypeOK, NEW t0 \in Threads, NEW r, NEW c, NEW l, l \notin {"inspect", "cas"},
           Own(t0, r, c, l)
    PROVE  KeepsClaimants
BY GotoKeeps DEF Own

(* claim_wait_for_passive_completion: the compare-exchange succeeds only   *)
(* against the word it loaded, so the bits belong to the current wait.     *)
LEMMA ClaimMask ==
    ASSUME TypeOK, OwnershipInv, OwnershipInv', MaskInv, NEW t0 \in Claimants, Claim(t0)
    PROVE  MaskInv'
<1> USE ThreadFacts DEF Claimants
<1>1. record' \in Records /\ t0 \in Threads
    BY DEF OwnershipInv, OwnershipTypes
<1>2. /\ record \in Records /\ observed \in [Threads -> Records]
      /\ pc \in [Threads -> Pc] /\ bits \in [Threads -> SUBSET Bits]
    BY DEF TypeOK
<1>3. ASSUME UNCHANGED <<record, interest>>, KeepsClaimants PROVE MaskInv'
    BY <1>1, <1>3, MaskFrame DEF MovesRecord
<1>4. ASSUME UNCHANGED <<record, interest>>, Leave(t0) PROVE MaskInv'
    BY <1>1, <1>3, <1>4, LeaveKeeps
<1>5. ASSUME ClaimEnter(t0) PROVE MaskInv'
    BY <1>1, <1>3, <1>4, <1>5, GotoKeeps DEF ClaimEnter, shared, locals
<1>6. ASSUME ClaimLoad(t0), ~Leave(t0) PROVE MaskInv'
  <2>1. /\ record.state \in {"pending", "scheduled"} /\ UNCHANGED <<record, interest, bits>>
        /\ observed' = [observed EXCEPT ![t0] = record]
        /\ pc' = [pc EXCEPT ![t0] = "inspect"]
      BY <1>6 DEF ClaimLoad, Goto, shared
  <2>2. \A t \in Claimants : ClaimantKnows(t)'
      BY <1>2, <2>1 DEF MaskInv, ClaimantKnows, Records, Threads, Callbacks
  <2> QED
      BY <2>1, <2>2 DEF MaskInv, ScheduledMaskIsCurrent
<1>7. ASSUME ClaimInspect(t0), ~Leave(t0) PROVE MaskInv'
  <2>1. /\ UNCHANGED <<record, interest, observed>> /\ pc[t0] = "inspect"
        /\ bits' = [bits EXCEPT ![t0] = interest \cap bits[t0]]
        /\ interest \cap bits[t0] # {}
        /\ pc' = [pc EXCEPT ![t0] = "cas"]
      BY <1>7 DEF ClaimInspect, Goto, shared
  <2>2. \A t \in Claimants : ClaimantKnows(t)'
      BY <1>2, <2>1 DEF MaskInv, ClaimantKnows, Threads, Callbacks
  <2> QED
      BY <2>1, <2>2 DEF MaskInv, ScheduledMaskIsCurrent
<1>8. ASSUME ClaimCas(t0), record # observed[t0] PROVE MaskInv'
    BY <1>1, <1>3, <1>8, GotoKeeps DEF ClaimCas, locals
<1>9. ASSUME ClaimCas(t0), record = observed[t0] PROVE MaskInv'
  <2>1. /\ pc[t0] = "cas" /\ interest' = interest
        /\ record' = [record EXCEPT !.state = "scheduled", !.satisfied = @ \cup bits[t0]]
      BY <1>9 DEF ClaimCas
  <2>2. /\ record.state \in {"pending", "scheduled"}
        /\ bits[t0] # {} /\ bits[t0] \subseteq interest
      BY <1>9, <2>1 DEF MaskInv, ClaimantKnows
  <2>3. /\ record'.state = "scheduled" /\ record'.sequence = record.sequence
        /\ record'.satisfied = record.satisfied \cup bits[t0]
      BY <1>2, <2>1 DEF Records
  <2>4. KeepsClaimants
      BY <1>1, <1>9, LeaveKeeps, GotoKeeps DEF ClaimCas, locals
  <2>5. \A t \in Claimants : ClaimantKnows(t)'
      BY <1>2, <2>1, <2>2, <2>3, <2>4 DEF MaskInv, ClaimantKnows, KeepsClaimants
  <2>6. ScheduledMaskIsCurrent'
      BY <2>1, <2>2, <2>3 DEF MaskInv, ScheduledMaskIsCurrent
  <2> QED
      BY <2>3, <2>5, <2>6 DEF MaskInv
<1>10. ASSUME ClaimSchedule(t0) PROVE MaskInv'
    BY <1>4, <1>10 DEF ClaimSchedule, shared
<1> QED
    BY <1>4, <1>5, <1>6, <1>7, <1>8, <1>9, <1>10 DEF Claim, ClaimLoad, ClaimInspect, shared

(* Every step of the driver and of its environment.                        *)
LEMMA NextMask ==
    ASSUME TypeOK, OwnershipInv, OwnershipInv', MaskInv, Next
    PROVE  MaskInv'
<1> USE ThreadFacts
<1>1. record' \in Records /\ record \in Records
    BY DEF OwnershipInv, OwnershipTypes
<1>2. ASSUME UNCHANGED <<record, interest>>, KeepsClaimants PROVE MaskInv'
    BY <1>1, <1>2, MaskFrame DEF MovesRecord
<1>3. ASSUME NEW t0 \in Threads, NEW l, l \notin {"inspect", "cas"}, Goto(t0, l),
             UNCHANGED <<record, interest, observed, bits>>
      PROVE  MaskInv'
    BY <1>2, <1>3, GotoKeeps
<1>4. ASSUME NEW t0 \in Threads, NEW r, NEW c, NEW l, l \notin {"inspect", "cas"},
             Own(t0, r, c, l), UNCHANGED <<record, interest>>
      PROVE  MaskInv'
    BY <1>2, <1>4, OwnKeeps
<1>5. ASSUME NEW t0 \in Threads, Leave(t0), UNCHANGED <<record, interest>> PROVE MaskInv'
    BY <1>2, <1>5, LeaveKeeps
<1>6. ASSUME UNCHANGED <<record, interest, observed, bits, pc>> PROVE MaskInv'
    BY <1>2, <1>6 DEF KeepsClaimants
<1>7. ASSUME KeepsClaimants, interest' = interest, NEW x \in {"unmarking", "cancelled"},
             Transition(x)
      PROVE  MaskInv'
    BY <1>1, <1>7, MaskFrame DEF MovesRecord, Transition, Records
<1>8. ASSUME NEW r \in Requests, NEW i \in Interests, Dispatch(r, i) PROVE MaskInv'
    BY <1>4, <1>8 DEF Dispatch, shared
<1>9. ASSUME NEW r \in Requests, CancelRequest(r) PROVE MaskInv'
    BY <1>3, <1>6, <1>9 DEF CancelRequest, shared, locals
<1>10. ASSUME NEW r \in Requests, CancelStep(r) PROVE MaskInv'
  <2>1. ASSUME CancelLoad(r), ~Leave(r) PROVE MaskInv'
    <3>1. \E l \in {"cancel_swap", "cancel_cas"} : Goto(r, l)
        BY <2>1 DEF CancelLoad
    <3>2. /\ UNCHANGED <<record, interest, bits>>
          /\ \A t \in Threads : t # r => observed'[t] = observed[t]
        BY <2>1, Zenon DEF CancelLoad, locals, shared, TypeOK
    <3> QED
        BY <1>2, <3>1, <3>2, GotoKeeps, Zenon
  <2>2. ASSUME CancelCas(r) PROVE MaskInv'
    <3>1. interest' = interest /\ KeepsClaimants
        BY <2>2, OwnKeeps, GotoKeeps DEF CancelCas, locals
    <3> QED
        BY <1>2, <1>7, <2>2, <3>1, Zenon DEF CancelCas
  <2> QED
      BY <1>3, <1>4, <1>5, <1>10, <2>1, <2>2
         DEF CancelStep, CancelActive, CancelLoad, HandoffFromCancel, shared, locals
<1>11. ASSUME NEW s \in Stoppers, Teardown(s) PROVE MaskInv'
    BY <1>3, <1>11
       DEF Teardown, PacketQueueStop, LifecycleTeardown, IoStop, BeginTeardown, shared
<1>12. ASSUME NEW s \in Stoppers, TeardownStep(s) PROVE MaskInv'
  <2>1. ASSUME StopLoad(s), ~Leave(s) PROVE MaskInv'
    <3>1. /\ Goto(s, "stop_slot") /\ UNCHANGED <<record, interest, bits>>
          /\ \A t \in Threads : t # s => observed'[t] = observed[t]
        BY <2>1, Zenon DEF StopLoad, shared, TypeOK
    <3> QED
        BY <1>2, <3>1, GotoKeeps, Zenon
  <2>2. ASSUME StopCas(s) PROVE MaskInv'
    <3>1. interest' = interest /\ KeepsClaimants
        BY <2>2, LeaveKeeps, GotoKeeps DEF StopCas, locals
    <3>2. CASE record.state = "registering" /\ Transition("teardown")
        BY <1>1, <3>1, <3>2, MaskFrame DEF MovesRecord, Transition, Records
    <3> QED
        BY <1>2, <1>7, <2>2, <3>1, <3>2, Zenon DEF StopCas
  <2> QED
      BY <1>3, <1>4, <1>5, <1>12, <2>1, <2>2, Zenon
         DEF TeardownStep, IoStopActive, StopLoad, StopSlot, StopReread, FlushWorkItem,
             ClearFrameQueues, ReopenFrameQueues, shared, locals
<1>13. ASSUME NEW b \in Directions, PacketQueueStart(b) PROVE MaskInv'
    BY <1>6, <1>13 DEF PacketQueueStart, shared, locals
<1>14. ASSUME TxEnter \/ RxEnter \/ ReadEnter \/ EnableAdaptivePolling \/ WriteFrame
       PROVE  MaskInv'
    BY <1>3, <1>6, <1>14
       DEF TxEnter, RxEnter, ReadEnter, EnableAdaptivePolling, WriteFrame, Enter, shared,
           locals
<1>15. ASSUME NEW t \in Threads, NEW b, ClaimFor(t, b), UNCHANGED <<record, interest>>
       PROVE  MaskInv'
  <2>1. /\ Goto(t, "claim")
        /\ \A u \in Threads : u # t => observed'[u] = observed[u] /\ bits'[u] = bits[u]
      BY <1>15, Zenon DEF ClaimFor, TypeOK
  <2> QED
      BY <1>2, <1>15, <2>1, GotoKeeps, Zenon
<1>16. ASSUME TxEnqueue \/ Receive \/ Read PROVE MaskInv'
    BY <1>3, <1>15, <1>16
       DEF TxEnqueue, Receive, RxDequeue, RxClaim, RxRequeue, Read, ReadDequeue,
           ReadRequeue, EnqueueCapture, shared, locals
<1>17. ASSUME Registration PROVE MaskInv'
  <2>1. ASSUME BeginWaitRecord, record.state = "free" PROVE MaskInv'
    <3>1. KeepsClaimants /\ interest' = interest
        BY <2>1, OwnKeeps DEF BeginWaitRecord
    <3>2. record' = [state |-> "registering", satisfied |-> {},
                     sequence |-> record.sequence + 1]
        BY <2>1 DEF BeginWaitRecord
    <3> QED
        BY <1>1, <3>1, <3>2, MaskFrame DEF MovesRecord
  <2>2. ASSUME PublishInterest PROVE MaskInv'
    <3>1. record.state \in {"registering", "teardown"} /\ record' = record
        BY <2>2, Zenon DEF PublishInterest, OwnershipInv, Ownership, OwnerKnows
    <3>2. KeepsClaimants
        BY <2>2, GotoKeeps DEF PublishInterest, locals
    <3> QED
        BY <1>1, <3>1, <3>2, MaskFrame DEF MovesRecord
  <2>3. ASSUME PublishPending PROVE MaskInv'
    <3>1. interest' = interest /\ KeepsClaimants
        BY <2>3, OwnKeeps, GotoKeeps DEF PublishPending, locals
    <3>2. CASE record.state = "registering" /\ Transition("pending")
        BY <1>1, <3>1, <3>2, MaskFrame DEF MovesRecord, Transition, Records
    <3> QED
        BY <1>2, <2>3, <3>1, <3>2 DEF PublishPending
  <2>4. ASSUME ResolveTeardown PROVE MaskInv'
    <3>1. interest' = interest /\ KeepsClaimants
        BY <2>4, OwnKeeps DEF ResolveTeardown
    <3> QED
        BY <1>2, <1>7, <2>4, <3>1 DEF ResolveTeardown
  <2>5. ASSUME LevelCapture \/ LevelInjection PROVE MaskInv'
    <3>1. /\ \/ Leave("dispatch")
             \/ /\ Goto("dispatch", "level_injection") \/ Goto("dispatch", "claim")
                /\ \A u \in Threads :
                       u # "dispatch" => observed'[u] = observed[u] /\ bits'[u] = bits[u]
          /\ UNCHANGED <<record, interest>>
        BY <2>5 DEF LevelCapture, LevelInjection, shared, TypeOK
    <3> QED
        BY <1>2, <1>5, <3>1, GotoKeeps, Zenon
  <2>6. ASSUME Precheck \/ Recheck PROVE MaskInv'
    <3>1. UNCHANGED <<record, interest>> /\ "dispatch" \in Threads
        BY <2>6 DEF Precheck, Recheck, shared
    <3>2. \E c : \E l \in {"begin", "mark", "complete", "clear_slot"} :
              Own("dispatch", held["dispatch"], c, l)
        BY <2>6 DEF Precheck, Recheck
    <3> QED
        BY <1>4, <3>1, <3>2, Zenon
  <2>7. ASSUME BeginWaitRecord, record.state # "free" PROVE MaskInv'
      BY <1>4, <2>7 DEF BeginWaitRecord
  <2>8. ASSUME PublishSlot PROVE MaskInv'
      BY <1>4, <2>8 DEF PublishSlot
  <2>9. ASSUME MarkCancelable PROVE MaskInv'
    <3>1. UNCHANGED <<record, interest>> /\ "dispatch" \in Threads
        BY <2>9 DEF MarkCancelable, shared
    <3>2. \/ Own("dispatch", held["dispatch"], "cancelled", "clear_slot")
          \/ Own("dispatch", held["dispatch"], "failed", "clear_slot")
          \/ Own("dispatch", held["dispatch"], "none", "publish")
        BY <2>9, Zenon DEF MarkCancelable
    <3>3. CASE Own("dispatch", held["dispatch"], "cancelled", "clear_slot")
        BY <1>4, <3>1, <3>3
    <3>4. CASE Own("dispatch", held["dispatch"], "failed", "clear_slot")
        BY <1>4, <3>1, <3>4
    <3>5. CASE Own("dispatch", held["dispatch"], "none", "publish")
        BY <1>4, <3>1, <3>5
    <3> QED BY <3>2, <3>3, <3>4, <3>5, Zenon
  <2> QED
      BY <1>17, <2>1, <2>2, <2>3, <2>4, <2>5, <2>6, <2>7, <2>8, <2>9 DEF Registration
<1>18. ASSUME WorkItem PROVE MaskInv'
  <2>1. ASSUME TakeScheduledWait PROVE MaskInv'
    <3>1. interest' = interest /\ KeepsClaimants
      <4>1. /\ Goto("worker", "take_slot") \/ Goto("worker", "idle")
            /\ \A u \in Threads :
                   u # "worker" => observed'[u] = observed[u] /\ bits'[u] = bits[u]
          BY <2>1 DEF TakeScheduledWait, TypeOK
      <4> QED
          BY <2>1, <4>1, GotoKeeps DEF TakeScheduledWait
    <3> QED
        BY <1>2, <1>7, <2>1, <3>1 DEF TakeScheduledWait
  <2>2. ASSUME RefreshCapture \/ RefreshInjection PROVE MaskInv'
    <3>1. /\ Goto("worker", "ready_injection") \/ Goto("worker", "decide")
          /\ \A u \in Threads :
                 u # "worker" => observed'[u] = observed[u] /\ bits'[u] = bits[u]
          /\ UNCHANGED <<record, interest>>
        BY <2>2 DEF RefreshCapture, RefreshInjection, shared, TypeOK
    <3> QED
        BY <1>2, <3>1, GotoKeeps, Zenon
  <2> QED
      BY <1>3, <1>18, <2>1, <2>2 DEF WorkItem, WorkerStart, TakeSlot, DecideStatus, shared,
         locals
<1>19. ASSUME NEW t \in Threads, Retire(t) PROVE MaskInv'
  <2>1. ASSUME ClearSlot(t) PROVE MaskInv'
    <3>1. record' = record /\ KeepsClaimants
        BY <2>1, GotoKeeps DEF ClearSlot, locals
    <3>2. record.state \notin {"pending", "scheduled"}
        BY <2>1 DEF ClearSlot, OwnershipInv, ExclusiveOwner
    <3> QED
        BY <1>1, <3>1, <3>2, MaskFrame, Zenon DEF MovesRecord
  <2>2. ASSUME FreeTheRecord(t) PROVE MaskInv'
    <3>1. interest' = interest /\ KeepsClaimants
        BY <2>2, LeaveKeeps, GotoKeeps DEF FreeTheRecord, locals
    <3>2. record' = [state |-> "free", satisfied |-> {}, sequence |-> record.sequence + 1]
        BY <2>2 DEF FreeTheRecord, FreeRecord
    <3> QED
        BY <1>1, <3>1, <3>2, MaskFrame DEF MovesRecord
  <2> QED
      BY <1>3, <1>5, <1>19, <2>1, <2>2
         DEF Retire, Unmark, HandoffFromUnmark, CompleteRequest, shared, locals
<1> QED
    BY <1>8, <1>9, <1>10, <1>11, <1>12, <1>13, <1>14, <1>16, <1>17, <1>18, <1>19,
       ClaimMask DEF Next, Environment, Step

-----------------------------------------------------------------------------
(* The three invariants are inductive together: the ownership argument     *)
(* needs the claimants' observations, which need the types.                *)
LEMMA Inductive == Spec => [](TypeOK /\ OwnershipInv /\ MaskInv)
<1>1. Init => TypeOK /\ OwnershipInv /\ MaskInv
  <2>1. Init => TypeOK
    <3> SUFFICES ASSUME Init PROVE TypeOK
        OBVIOUS
    <3>1. 0 \in 0..CaptureLimit /\ 0 \in 0..InjectionLimit
        BY ConfigurationAssumption
    <3>2. DeviceTypes
        BY <3>1, Zenon DEF Init, DeviceTypes
    <3>3. LocalTypes
        BY DEF Init, LocalTypes
    <3> QED
        BY <3>2, <3>3, InitOwnership
           DEF OwnershipInv, OwnershipTypes, DeviceTypes, LocalTypes, TypeOK
  <2>2. Init => MaskInv
    <3> SUFFICES ASSUME Init PROVE MaskInv
        OBVIOUS
    <3>1. record.state = "free" /\ record.satisfied = {} /\ \A t \in Claimants : pc[t] = "idle"
        BY ThreadFacts DEF Init, Claimants, FreeRecord
    <3> QED
        BY <3>1 DEF MaskInv, ClaimantKnows, ScheduledMaskIsCurrent
  <2> QED
      BY <2>1, <2>2, InitOwnership, Zenon
<1>2. TypeOK /\ OwnershipInv /\ MaskInv /\ [Next]_vars
          => (TypeOK /\ OwnershipInv /\ MaskInv)'
  <2> SUFFICES ASSUME TypeOK, OwnershipInv, MaskInv, [Next]_vars
               PROVE  (TypeOK /\ OwnershipInv /\ MaskInv)'
      OBVIOUS
  <2>1. OwnershipInv'
      BY NextOwnership
  <2>2. CASE UNCHANGED vars
    <3>1. TypeOK'
        BY <2>2, Zenon DEF TypeOK, vars, shared, device, requestState, locals
    <3>2. MaskInv'
        BY <2>2, Zenon DEF MaskInv, ClaimantKnows, ScheduledMaskIsCurrent, vars, shared, locals
    <3> QED
        BY <2>1, <3>1, <3>2, Zenon
  <2>3. CASE Next
    <3>1. TypeOK'
        BY <2>1, <2>3, DeviceTypesStep, LocalTypesStep, Zenon
           DEF OwnershipInv, OwnershipTypes, DeviceTypes, LocalTypes, TypeOK
    <3> QED
        BY <2>1, <2>3, <3>1, NextMask, Zenon
  <2> QED
      BY <2>2, <2>3, Zenon
<1> QED
    BY <1>1, <1>2, PTL DEF Spec

(* Every variable of the wait protocol keeps its type, and the two frame   *)
(* queues their limits, whatever the number of requests and teardowns.     *)
THEOREM TypeCorrect == Spec => []TypeOK
BY Inductive, PTL

(* The wait record has one owner at a time and every request the driver    *)
(* holds has exactly one thread that will complete it.                     *)
THEOREM OwnershipHolds == Spec => []OwnershipInv
BY Inductive, PTL

(* No interleaving of registration, work item, teardowns and cancellation  *)
(* completes a dispatched wait twice.                                      *)
THEOREM CompletesAtMostOnce == Spec => []AtMostOneCompletion
<1>1. OwnershipInv => AtMostOneCompletion
    BY Zenon DEF OwnershipInv, Cancellation, CallbackKnows, AtMostOneCompletion
<1> QED
    BY <1>1, OwnershipHolds, PTL

(* unmark_and_complete_wait never touches a request that was completed.    *)
THEOREM UnmarksOnlyLiveRequests == Spec => []UnmarkTouchesLiveRequest
<1>1. OwnershipInv => UnmarkTouchesLiveRequest
    BY Zenon DEF OwnershipInv, Ownership, OwnerKnows, Cancellable, UnmarkTouchesLiveRequest
<1> QED
    BY <1>1, OwnershipHolds, PTL

(* wait_request never names a handle WDF may have recycled, except while a *)
(* registration has yet to notice that its request was cancelled.          *)
THEOREM SlotIsLive == Spec => []SlotNamesLiveRequest
<1>1. OwnershipInv => SlotNamesLiveRequest
  <2> SUFFICES ASSUME OwnershipInv, slot # NoRequest, record.state # "cancelled"
               PROVE  wdf[slot] # "idle"
      BY DEF SlotNamesLiveRequest
  <2>1. record.state \in {"registering", "teardown", "pending", "scheduled", "unmarking"}
      BY DEF OwnershipInv, OwnershipTypes, Records, States, Publication
  <2>2. CASE record.state \notin {"registering", "teardown"}
      BY <2>1, <2>2 DEF OwnershipInv, Publication, Cancellable
  <2>3. CASE record.state \in {"registering", "teardown"}
    <3>1. pc["dispatch"] \in RegisterPcs \cup RetirePcs /\ OwnerKnows("dispatch")
        BY <2>3, ThreadFacts DEF OwnershipInv, Publication, Ownership
    <3> QED
        BY <2>3, <3>1 DEF OwnerKnows, Cancellable
  <2> QED
      BY <2>1, <2>2, <2>3, Zenon
<1> QED
    BY <1>1, OwnershipHolds, PTL

(* A claimant that stalled across a retirement never publishes a bit with  *)
(* a later registration: the sequence in the word fences it.               *)
THEOREM MaskIsCurrent == Spec => []ScheduledMaskIsCurrent
<1>1. MaskInv => ScheduledMaskIsCurrent
    BY DEF MaskInv
<1> QED
    BY <1>1, Inductive, PTL

-----------------------------------------------------------------------------
CarryingPcs == {"level_capture", "level_injection", "claim", "load", "inspect", "cas",
                "rx_claim", "rx_requeue"}

(* A step that makes no wait pending and nothing ready keeps WakeupInv if  *)
(* it keeps the claims that are on their way.                              *)
LEMMA WakeupFrame ==
    ASSUME WakeupInv,
           record'.state = "pending" => record.state = "pending" /\ interest' = interest,
           capture' > 0 => capture > 0,
           open' => open,
           Writable' # {} => Writable # {},
           CarriesReadable => CarriesReadable',
           CarriesWritable => CarriesWritable'
    PROVE  WakeupInv'
BY DEF WakeupInv

(* A thread that carries no claim takes none away.                         *)
LEMMA CarriersKept ==
    ASSUME TypeOK, NEW t0 \in Threads, OnlyMoves(t0),
           t0 \notin Claimants \/ pc[t0] \notin CarryingPcs,
           injection' \in Nat, injection' >= injection
    PROVE  /\ CarriesReadable => CarriesReadable'
           /\ CarriesWritable => CarriesWritable'
<1> USE ThreadFacts
<1>1. ASSUME NEW t \in Claimants, pc[t] \in CarryingPcs
      PROVE  pc'[t] = pc[t] /\ bits'[t] = bits[t] /\ observed'[t] = observed[t]
    BY <1>1 DEF OnlyMoves, Claimants
<1>2. ASSUME NEW t \in Claimants, NEW b, Carries(t, b) PROVE Carries(t, b)'
    BY <1>1, <1>2 DEF Carries, Claiming, CarryingPcs
<1>3. /\ pc["dispatch"] \in {"level_capture", "level_injection"} => pc'["dispatch"] = pc["dispatch"]
      /\ pc["rx"] \in {"rx_claim", "rx_requeue"} => pc'["rx"] = pc["rx"]
    BY <1>1 DEF CarryingPcs, Claimants
<1>4. CarriesReadable => CarriesReadable'
    BY <1>2, <1>3 DEF CarriesReadable
<1>5. injection + 1 >= InjectionLimit => injection' + 1 >= InjectionLimit
  <2>1. InjectionLimit \in Nat /\ injection \in Nat
      BY LengthTypes
  <2>2. \A i, j, n \in Nat : j >= i /\ i + 1 >= n => j + 1 >= n
      OBVIOUS
  <2> QED
      BY <2>1, <2>2, Zenon
<1> QED
    BY <1>2, <1>3, <1>4, <1>5 DEF CarriesWritable

(* Only publication makes a wait pending.                                  *)
LEMMA PendingStep ==
    ASSUME TypeOK, OwnershipInv, MaskInv, NEW t0 \in Threads, Step(t0),
           ~PublishPending, record'.state = "pending"
    PROVE  record.state = "pending" /\ interest' = interest
<1> USE ThreadFacts
<1>1. record \in Records
    BY DEF TypeOK
<1>2. record.state = "pending"
  <2>1. ASSUME Registration PROVE record.state = "pending"
      BY <1>1, <2>1
         DEF Registration, Precheck, BeginWaitRecord, PublishSlot, PublishInterest, Recheck,
             MarkCancelable, ResolveTeardown, LevelCapture, LevelInjection, Transition, Records,
             shared
  <2>2. ASSUME WorkItem PROVE record.state = "pending"
      BY <1>1, <2>2
         DEF WorkItem, WorkerStart, TakeScheduledWait, TakeSlot, RefreshCapture,
             RefreshInjection, DecideStatus, Transition, Records, shared
  <2>3. ASSUME TxEnqueue \/ Receive \/ Read PROVE record.state = "pending"
      BY <2>3
         DEF TxEnqueue, Receive, RxDequeue, RxClaim, RxRequeue, Read, ReadDequeue,
             ReadRequeue, EnqueueCapture, shared
  <2>4. ASSUME Claim(t0) PROVE record.state = "pending"
      BY <1>1, <2>4
         DEF Claim, ClaimEnter, ClaimLoad, ClaimInspect, ClaimCas, ClaimSchedule, Records, shared
  <2>5. ASSUME TeardownStep(t0) PROVE record.state = "pending"
      BY <1>1, <2>5
         DEF TeardownStep, IoStopActive, StopLoad, StopSlot, StopCas, StopReread, FlushWorkItem,
             ClearFrameQueues, ReopenFrameQueues, Transition, Records, shared
  <2>6. ASSUME CancelStep(t0) \/ Retire(t0) PROVE record.state = "pending"
      BY <1>1, <2>6
         DEF CancelStep, CancelActive, CancelLoad, CancelCas, HandoffFromCancel, Transition,
             Retire, Unmark, HandoffFromUnmark, ClearSlot, FreeTheRecord, CompleteRequest,
             FreeRecord, Records, shared
  <2> QED
      BY <2>1, <2>2, <2>3, <2>4, <2>5, <2>6 DEF Step
<1>3. interest' = interest
  <2>1. CASE Recheck
      BY <2>1 DEF Recheck, shared
  <2>2. CASE ~Recheck
      BY <2>2, StandingStep DEF Standing
  <2> QED
      BY <2>1, <2>2, Zenon
<1> QED
    BY <1>2, <1>3

(* handle_wait_for_change: the level check that follows publication takes  *)
(* over what happened before it.                                           *)
LEMMA RegistrationWakeup ==
    ASSUME TypeOK, OwnershipInv, MaskInv, InterestInv, WakeupInv, Registration
    PROVE  WakeupInv'
<1> USE ThreadFacts DEF Claimants
<1>1. OnlyMoves("dispatch") /\ Step("dispatch")
    BY StepMoves DEF Step
<1>2. UNCHANGED <<open, queuesOpen, capture, injection>> /\ injection \in Nat
  <2>1. UNCHANGED <<open, queuesOpen, capture, injection>>
      BY <1>1, DeviceKept
  <2> QED
      BY <2>1, LengthTypes
<1>3. Writable' = Writable /\ Readable' = Readable
    BY <1>2 DEF Writable, Readable
<1>4. CASE PublishPending
  <2>1. CASE record.state = "registering"
    <3>1. pc'["dispatch"] = "level_capture"
        BY <1>4, <2>1 DEF PublishPending, Goto, TypeOK
    <3> QED
        BY <3>1 DEF WakeupInv, CarriesReadable, CarriesWritable
  <2>2. CASE record.state # "registering"
    <3>1. UNCHANGED <<record, interest>> /\ pc["dispatch"] \notin CarryingPcs
        BY <1>4, <2>2 DEF PublishPending, CarryingPcs
    <3> QED
        BY <1>1, <1>2, <1>3, <3>1, CarriersKept, WakeupFrame
  <2> QED
      BY <2>1, <2>2, Zenon
<1>5. CASE LevelCapture
  <2>1. /\ UNCHANGED <<record, interest>> /\ pc'["dispatch"] = "level_injection"
        /\ bits'["dispatch"] = Readable
      BY <1>5 DEF LevelCapture, Goto, TypeOK, shared
  <2>2. capture > 0 => Carries("dispatch", "readable")'
      BY <2>1 DEF Carries, Claiming, Readable
  <2> QED
      BY <1>2, <2>1, <2>2 DEF WakeupInv, CarriesReadable, CarriesWritable
<1>6. CASE LevelInjection
  <2> DEFINE ready == (bits["dispatch"] \cup Writable) \cap asked[expected["dispatch"]]
  <2> SUFFICES ASSUME record'.state = "pending" PROVE WakeupInv'
      BY DEF WakeupInv
  <2>1. /\ UNCHANGED <<record, interest>> /\ pc["dispatch"] = "level_injection"
        /\ ready # {} => pc'["dispatch"] = "claim" /\ bits'["dispatch"] = ready
      BY <1>6 DEF LevelInjection, Goto, TypeOK, shared
  <2>2. asked[expected["dispatch"]] = interest
    <3>1. slot \in {expected["dispatch"], NoRequest} /\ expected["dispatch"] \in Requests
        BY <2>1 DEF InterestInv, InterestKnows
    <3> QED
        BY <2>1, <3>1 DEF InterestInv, OwnershipInv, Publication
  <2>3. ASSUME NEW b \in interest, b \in bits["dispatch"] \cup Writable
        PROVE  Carries("dispatch", b)'
      BY <2>1, <2>2, <2>3 DEF Carries, Claiming
  <2>4. ASSUME NEW t \in Claimants, t # "dispatch", NEW b, Carries(t, b) PROVE Carries(t, b)'
      BY <1>1, <2>4 DEF OnlyMoves, Carries, Claiming
  <2>5. "readable" \in interest /\ capture > 0 => CarriesReadable'
    <3> SUFFICES ASSUME "readable" \in interest, capture > 0 PROVE CarriesReadable'
        OBVIOUS
    <3>1. PICK t \in Claimants : Carries(t, "readable")
        BY <2>1 DEF WakeupInv, CarriesReadable
    <3>2. CASE t = "dispatch"
        BY <2>3, <3>1, <3>2 DEF Carries, Claiming, CarriesReadable
    <3>3. CASE t # "dispatch"
        BY <2>4, <3>1, <3>3 DEF CarriesReadable
    <3> QED
        BY <3>2, <3>3
  <2>6. "writable" \in interest /\ Writable # {} => CarriesWritable'
      BY <2>3 DEF CarriesWritable, Writable
  <2> QED
      BY <1>2, <1>3, <2>1, <2>5, <2>6 DEF WakeupInv
<1>7. CASE ~(PublishPending \/ LevelCapture \/ LevelInjection)
  <2>1. pc["dispatch"] \notin CarryingPcs
      BY <1>7 DEF Registration, Precheck, BeginWaitRecord, PublishSlot, PublishInterest,
                  Recheck, MarkCancelable, ResolveTeardown, CarryingPcs
  <2>2. record'.state = "pending" => record.state = "pending" /\ interest' = interest
      BY <1>1, <1>7, PendingStep
  <2> QED
      BY <1>1, <1>2, <1>3, <2>1, <2>2, CarriersKept, WakeupFrame
<1> QED
    BY <1>4, <1>5, <1>6, <1>7, Zenon

(* claim_wait_for_passive_completion: a claim that gives up has found no   *)
(* pending wait that its bits are for.                                     *)
LEMMA ClaimWakeup ==
    ASSUME TypeOK, OwnershipInv, MaskInv, InterestInv, ScanInv, WakeupInv,
           NEW t0 \in Claimants, Claim(t0)
    PROVE  WakeupInv'
<1> USE ThreadFacts
<1> SUFFICES ASSUME record'.state = "pending" PROVE WakeupInv'
    BY DEF WakeupInv
<1>1. t0 \in Threads /\ Step(t0) /\ OnlyMoves(t0)
    BY StepMoves DEF Claimants, Step
<1>2. UNCHANGED <<record, interest, slot, open, queuesOpen, capture, injection>>
    BY DEF Claim, ClaimEnter, ClaimLoad, ClaimInspect, ClaimCas, ClaimSchedule, shared,
           device, TypeOK, Records
<1>3. Writable' = Writable
    BY <1>2 DEF Writable
<1>4. /\ slot \in Requests /\ adaptive
      /\ expected[t0] # NoRequest => slot = expected[t0]
  <2>1. slot \in Requests /\ adaptive
      BY <1>2 DEF OwnershipInv, Publication, ScanInv, Standing
  <2>2. pc[t0] \in ClaimPcs
      BY DEF Claim, ClaimEnter, ClaimLoad, ClaimInspect, ClaimCas, ClaimSchedule, ClaimPcs
  <2> QED
      BY <1>1, <2>1, <2>2 DEF InterestInv, InterestKnows, Claimants
<1>5. ASSUME NEW b \in interest, Carries(t0, b) PROVE Carries(t0, b)'
  <2>1. b \in bits[t0] /\ (pc[t0] = "inspect" => observed[t0].state = "pending")
        /\ pc[t0] # "schedule"
      BY <1>5 DEF Carries, Claiming
  <2>2. CASE ClaimEnter(t0)
    <3>1. Goto(t0, "load") /\ UNCHANGED locals
        BY <1>4, <2>2 DEF ClaimEnter
    <3>2. pc'[t0] = "load" /\ UNCHANGED bits
        BY <1>1, <3>1, GotoMoves DEF locals
    <3> QED
        BY <2>1, <3>2 DEF Carries, Claiming
  <2>3. CASE ClaimLoad(t0)
    <3>1. /\ observed' = [observed EXCEPT ![t0] = record] /\ bits' = bits
          /\ pc' = [pc EXCEPT ![t0] = "inspect"]
        BY <1>2, <2>3 DEF ClaimLoad, Goto
    <3>2. pc'[t0] = "inspect" /\ observed'[t0] = record
        BY <1>1, <3>1 DEF TypeOK
    <3> QED
        BY <1>2, <2>1, <3>1, <3>2 DEF Carries, Claiming
  <2>4. CASE ClaimInspect(t0)
    <3>1. pc[t0] = "inspect" /\ observed[t0].state = "pending" /\ observed[t0] \in Records
        BY <1>1, <2>1, <2>4 DEF ClaimInspect, TypeOK
    <3>2. Claimed(t0) # observed[t0]
        BY <3>1 DEF Claimed, Records
    <3>3. /\ bits' = [bits EXCEPT ![t0] = interest \cap @]
          /\ pc' = [pc EXCEPT ![t0] = "cas"]
        BY <1>4, <2>1, <2>4, <3>2 DEF ClaimInspect, Goto
    <3>4. pc'[t0] = "cas" /\ bits'[t0] = interest \cap bits[t0]
        BY <1>1, <3>3 DEF TypeOK
    <3> QED
        BY <2>1, <3>4 DEF Carries, Claiming
  <2>5. CASE ClaimCas(t0)
    <3>1. record \in Records
        BY DEF TypeOK
    <3>2. Goto(t0, "load") /\ UNCHANGED locals
        BY <2>5, <3>1 DEF ClaimCas, Records
    <3>3. pc'[t0] = "load" /\ UNCHANGED bits
        BY <1>1, <3>2, GotoMoves DEF locals
    <3> QED
        BY <2>1, <3>3 DEF Carries, Claiming
  <2> QED
      BY <2>1, <2>2, <2>3, <2>4, <2>5 DEF Claim, ClaimSchedule
<1>6. ASSUME NEW b \in interest, NEW t \in Claimants, Carries(t, b) PROVE Carries(t, b)'
  <2>1. CASE t # t0
      BY <1>1, <1>6, <2>1 DEF OnlyMoves, Carries, Claiming, Claimants
  <2> QED
      BY <1>5, <1>6, <2>1
<1>7. /\ pc["dispatch"] \in {"level_capture", "level_injection"} => pc'["dispatch"] = pc["dispatch"]
      /\ pc["rx"] \in {"rx_claim", "rx_requeue"} => pc'["rx"] = pc["rx"]
  <2>1. pc[t0] \in ClaimPcs
      BY DEF Claim, ClaimEnter, ClaimLoad, ClaimInspect, ClaimCas, ClaimSchedule, ClaimPcs
  <2> QED
      BY <1>1, <2>1 DEF OnlyMoves, ClaimPcs
<1>8. "readable" \in interest /\ CarriesReadable => CarriesReadable'
    BY <1>6, <1>7 DEF CarriesReadable
<1>9. "writable" \in interest /\ CarriesWritable => CarriesWritable'
    BY <1>2, <1>6, <1>7 DEF CarriesWritable
<1> QED
    BY <1>2, <1>3, <1>8, <1>9 DEF WakeupInv

(* The queue transitions: the one that makes a queue ready claims its bit, *)
(* or receive is about to put the frame back and fill the queue again.     *)
LEMMA DatapathWakeup ==
    ASSUME TypeOK, OwnershipInv, MaskInv, WakeupInv, TxEnqueue \/ Receive \/ Read
    PROVE  WakeupInv'
<1> USE ThreadFacts DEF Claimants
<1>1. /\ capture \in Nat /\ injection \in Nat /\ injection <= InjectionLimit
      /\ InjectionLimit \in Nat /\ pc \in [Threads -> Pc] /\ bits \in [Threads -> SUBSET Bits]
    BY LengthTypes DEF TypeOK
<1>2. UNCHANGED <<record, interest, open, queuesOpen>>
    BY DEF TxEnqueue, Receive, RxDequeue, RxClaim, RxRequeue, Read, ReadDequeue,
           ReadRequeue, EnqueueCapture, shared, device
<1>3. ASSUME NEW t \in {"tx", "read"}, pc[t] \in {"tx_enqueue", "read_requeue"},
             OnlyMoves(t), EnqueueCapture(t)
      PROVE  WakeupInv'
  <2>1. injection' = injection
      BY <1>3 DEF EnqueueCapture
  <2>2. Writable' = Writable /\ (CarriesReadable => CarriesReadable')
        /\ (CarriesWritable => CarriesWritable')
      BY <1>1, <1>2, <1>3, <2>1, CarriersKept DEF Writable, CarryingPcs
  <2>3. CASE capture' = capture
      BY <1>2, <2>2, <2>3, WakeupFrame
  <2>4. CASE capture' # capture /\ capture # 0
      BY <1>1, <1>2, <2>2, <2>4, WakeupFrame
  <2>5. CASE capture' # capture /\ capture = 0
    <3>1. ClaimFor(t, "readable")
        BY <1>3, <2>5 DEF EnqueueCapture
    <3>2. pc'[t] = "claim" /\ bits'[t] = {"readable"}
        BY <1>1, <3>1 DEF ClaimFor, Goto
    <3>3. CarriesReadable'
        BY <3>2 DEF CarriesReadable, Carries, Claiming
    <3> QED
        BY <1>2, <2>2, <3>3 DEF WakeupInv
  <2> QED
      BY <2>3, <2>4, <2>5
<1>4. ASSUME TxEnqueue PROVE WakeupInv'
    BY <1>3, <1>4, StepMoves DEF TxEnqueue, Step
<1>5. ASSUME Read PROVE WakeupInv'
  <2>1. OnlyMoves("read")
      BY <1>5, StepMoves DEF Step
  <2>2. CASE ReadRequeue /\ EnqueueCapture("read")
      BY <1>3, <2>1, <2>2 DEF ReadRequeue
  <2>3. CASE ~(ReadRequeue /\ EnqueueCapture("read"))
    <3>1. /\ pc["read"] \in {"read_dequeue", "read_requeue"} /\ injection' = injection
          /\ capture' > 0 => capture > 0
        BY <1>1, <1>5, <2>3 DEF Read, ReadDequeue, ReadRequeue, device
    <3>2. Writable' = Writable
        BY <1>2, <3>1 DEF Writable
    <3> QED
        BY <1>1, <1>2, <2>1, <3>1, <3>2, CarriersKept, WakeupFrame DEF CarryingPcs
  <2> QED
      BY <2>2, <2>3, Zenon
<1>6. ASSUME Receive PROVE WakeupInv'
  <2>1. OnlyMoves("rx") /\ capture' = capture
      BY <1>6, StepMoves DEF Step, Receive, RxDequeue, RxClaim, RxRequeue, device
  <2>2. ASSUME NEW t \in Claimants, NEW b, Carries(t, b), pc["rx"] \notin CarryingPcs \ {"rx_claim", "rx_requeue"}
        PROVE  Carries(t, b)'
      BY <2>1, <2>2 DEF OnlyMoves, Carries, Claiming, CarryingPcs
  <2>3. pc["rx"] \in {"rx_dequeue", "rx_claim", "rx_requeue"} /\ pc'["dispatch"] = pc["dispatch"]
      BY <1>6, <2>1 DEF Receive, RxDequeue, RxClaim, RxRequeue, OnlyMoves
  <2>4. CarriesReadable => CarriesReadable'
      BY <2>2, <2>3 DEF CarriesReadable, CarryingPcs
  <2>5. ASSUME CarriesWritable, pc["rx"] = "rx_dequeue" PROVE CarriesWritable'
      BY <2>2, <2>3, <2>5 DEF CarriesWritable, CarryingPcs
  <2>6. CASE RxDequeue
    <3>1. CASE injection' = injection
        BY <1>2, <2>1, <2>4, <2>5, <2>6, <3>1, WakeupFrame DEF RxDequeue, Writable
    <3>2. CASE injection' # injection /\ queuesOpen /\ injection = InjectionLimit
      <4>1. /\ pc'["rx"] \in {"rx_claim", "rx_requeue"} /\ injection' = injection - 1
            /\ injection > 0
          BY <1>1, <2>6, <3>2 DEF RxDequeue, Goto
      <4>2. CarriesWritable'
          BY <1>1, <3>2, <4>1 DEF CarriesWritable
      <4> QED
          BY <1>2, <2>1, <2>4, <4>2 DEF WakeupInv
    <3>3. CASE injection' # injection /\ ~(queuesOpen /\ injection = InjectionLimit)
      <4>1. pc["rx"] = "rx_dequeue"
          BY <2>6 DEF RxDequeue
      <4>2. Writable' # {} => Writable # {}
          BY <1>1, <1>2, <3>3 DEF Writable
      <4> QED
          BY <1>2, <2>1, <2>4, <2>5, <4>1, <4>2, WakeupFrame
    <3> QED
        BY <3>1, <3>2, <3>3
  <2>7. CASE RxClaim
    <3>1. /\ pc'["rx"] = "claim" /\ bits'["rx"] = {"writable"} /\ injection' = injection
        BY <1>1, <2>7 DEF RxClaim, ClaimFor, Goto, device
    <3>2. CarriesWritable'
        BY <3>1 DEF CarriesWritable, Carries, Claiming
    <3> QED
        BY <1>2, <2>1, <2>4, <3>2 DEF WakeupInv
  <2>8. CASE RxRequeue
    <3>1. /\ pc["rx"] = "rx_requeue"
          /\ \/ injection' = injection + 1
             \/ injection' = injection /\ (~open \/ ~queuesOpen \/ injection = InjectionLimit)
        BY <2>8 DEF RxRequeue
    <3>2. open' /\ Writable' # {} =>
              Writable # {} /\ ~(injection + 1 >= InjectionLimit)
        BY <1>1, <1>2, <3>1 DEF Writable
    <3>3. CarriesWritable /\ ~(injection + 1 >= InjectionLimit) => CarriesWritable'
        BY <2>2, <2>3, <3>1 DEF CarriesWritable, CarryingPcs
    <3> QED
        BY <1>2, <2>1, <2>4, <3>2, <3>3 DEF WakeupInv
  <2> QED
      BY <1>6, <2>6, <2>7, <2>8 DEF Receive
<1> QED
    BY <1>4, <1>5, <1>6

(* Every step of the driver and of its environment.                        *)
LEMMA NextWakeup ==
    ASSUME TypeOK, OwnershipInv, MaskInv, InterestInv, ScanInv, WakeupInv, Next
    PROVE  WakeupInv'
<1> USE ThreadFacts
<1>1. injection \in Nat /\ capture \in Nat /\ InjectionLimit \in Nat /\ pc \in [Threads -> Pc]
    BY LengthTypes DEF TypeOK
<1>2. ASSUME NEW t \in Threads, OnlyMoves(t), t \notin Claimants \/ pc[t] \notin CarryingPcs,
             record'.state = "pending" => record.state = "pending" /\ interest' = interest,
             UNCHANGED <<capture, injection, queuesOpen>>, open' => open
      PROVE  WakeupInv'
  <2>1. Writable' = Writable
      BY <1>2 DEF Writable
  <2> QED
      BY <1>1, <1>2, <2>1, CarriersKept, WakeupFrame
<1>3. ASSUME NEW r \in Requests, NEW i \in Interests, Dispatch(r, i) PROVE WakeupInv'
    BY <1>2, <1>3, OwnMoves DEF Dispatch, shared, device, CarryingPcs
<1>4. ASSUME NEW t \in Threads, NEW l, Goto(t, l), UNCHANGED <<shared, device, locals>>,
             pc[t] \notin CarryingPcs \/ t \notin Claimants
      PROVE  WakeupInv'
    BY <1>2, <1>4, GotoMoves DEF shared, device
<1>5. ASSUME UNCHANGED <<record, interest, capture, queuesOpen, open, pc, locals>>,
             \/ injection' = injection
             \/ injection < InjectionLimit /\ injection' = injection + 1
      PROVE  WakeupInv'
  <2>1. CarriesReadable => CarriesReadable'
      BY <1>5 DEF CarriesReadable, Carries, Claiming, locals
  <2>2. CarriesWritable => CarriesWritable'
      BY <1>1, <1>5 DEF CarriesWritable, Carries, Claiming, locals
  <2>3. Writable' # {} => Writable # {}
      BY <1>1, <1>5 DEF Writable
  <2> QED
      BY <1>5, <2>1, <2>2, <2>3, WakeupFrame
<1>6. ASSUME NEW r \in Requests, CancelRequest(r) PROVE WakeupInv'
    BY <1>4, <1>5, <1>6 DEF CancelRequest, shared, device, locals, Claimants
<1>7. ASSUME NEW s \in Stoppers, Teardown(s) PROVE WakeupInv'
  <2>1. /\ UNCHANGED <<record, interest, capture, injection, queuesOpen>> /\ (open' => open)
        /\ UNCHANGED <<held, bits, status, observed>>
        /\ \E k : kind' = [kind EXCEPT ![s] = k]
        /\ \E r : expected' = [expected EXCEPT ![s] = r]
        /\ \E l : pc' = [pc EXCEPT ![s] = l]
    <3>1. \E k, r, l : BeginTeardown(s, k, r, l)
        BY <1>7 DEF Teardown, PacketQueueStop, LifecycleTeardown, IoStop
    <3>2. open' => open
        BY <1>7 DEF Teardown, PacketQueueStop, LifecycleTeardown, IoStop
    <3> QED
        BY <3>1, <3>2 DEF BeginTeardown, Goto, shared
  <2>2. OnlyMoves(s)
      BY <2>1 DEF OnlyMoves, TypeOK
  <2> QED
      BY <1>2, <2>1, <2>2 DEF Claimants
<1>8. ASSUME \/ WriteFrame \/ EnableAdaptivePolling
             \/ \E b \in Directions : PacketQueueStart(b)
      PROVE  WakeupInv'
    BY <1>5, <1>8 DEF WriteFrame, EnableAdaptivePolling, PacketQueueStart, shared
<1>9. ASSUME TxEnter \/ RxEnter \/ ReadEnter PROVE WakeupInv'
    BY <1>4, <1>9 DEF TxEnter, RxEnter, ReadEnter, Enter, CarryingPcs
<1>10. ASSUME Environment PROVE WakeupInv'
    BY <1>3, <1>6, <1>7, <1>8, <1>9, <1>10 DEF Environment
<1>11. ASSUME NEW s \in Stoppers, TeardownStep(s) PROVE WakeupInv'
  <2>1. s \in Threads /\ OnlyMoves(s) /\ StopperKnows(s) /\ s \notin Claimants
      BY <1>11, StepMoves DEF Step, ScanInv, Claimants
  <2>2. record'.state = "pending" => record.state = "pending" /\ interest' = interest
    <3>1. ~PublishPending
        BY <2>1, <1>1, <1>11
           DEF PublishPending, Own, Goto, OnlyMoves, TeardownStep
    <3> QED
        BY <1>11, <2>1, <3>1, PendingStep DEF Step
  <2>3. CASE ClearFrameQueues(s) \/ ReopenFrameQueues(s)
    <3>1. pc[s] \in {"clear", "reopen"} /\ record' = record
        BY <2>3 DEF ClearFrameQueues, ReopenFrameQueues, shared
    <3>2. record.state # "pending"
        BY <2>1, <3>1 DEF StopperKnows, ScanPcs, Standing
    <3> QED
        BY <3>1, <3>2 DEF WakeupInv
  <2>4. CASE ~(ClearFrameQueues(s) \/ ReopenFrameQueues(s))
    <3>1. UNCHANGED <<capture, injection, queuesOpen, open>>
        BY <1>11, <2>4
           DEF TeardownStep, IoStopActive, StopLoad, StopSlot, StopCas, StopReread,
               FlushWorkItem, device
    <3> QED
        BY <1>2, <2>1, <2>2, <3>1
  <2> QED
      BY <2>3, <2>4, Zenon
<1>12. ASSUME NEW t \in Threads, Step(t), ~PublishPending, UNCHANGED device,
              t \notin Claimants \/ pc[t] \notin CarryingPcs
       PROVE  WakeupInv'
    BY <1>2, <1>12, StepMoves, PendingStep DEF device
<1>13. ASSUME NEW t \in Threads,
              \/ t = "worker" /\ WorkItem
              \/ t \in Requests /\ CancelStep(t)
              \/ Retire(t)
       PROVE  WakeupInv'
  <2>1. Step(t) /\ OnlyMoves(t)
      BY <1>13, StepMoves DEF Step
  <2>2. UNCHANGED device /\ (t \notin Claimants \/ pc[t] \notin CarryingPcs)
      BY <1>13
         DEF WorkItem, WorkerStart, TakeScheduledWait, TakeSlot, RefreshCapture,
             RefreshInjection, DecideStatus, CancelStep, CancelActive, CancelLoad, CancelCas,
             HandoffFromCancel, Retire, Unmark, HandoffFromUnmark, ClearSlot, FreeTheRecord,
             CompleteRequest, Claimants, CarryingPcs
  <2>3. ~PublishPending
    <3>1. t = "dispatch" => pc["dispatch"] # "publish"
        BY <1>13 DEF Retire, Unmark, HandoffFromUnmark, ClearSlot, FreeTheRecord,
                     CompleteRequest
    <3> QED
        BY <1>1, <2>1, <3>1 DEF PublishPending, Own, Goto, OnlyMoves
  <2> QED
      BY <1>12, <2>1, <2>2, <2>3
<1>14. ASSUME NEW t \in Threads, Step(t) PROVE WakeupInv'
    BY <1>11, <1>13, <1>14, RegistrationWakeup, ClaimWakeup, DatapathWakeup DEF Step
<1> QED
    BY <1>10, <1>14 DEF Next

-----------------------------------------------------------------------------
(* InstanceState::new: no wait, no teardown and nothing ready.             *)
LEMMA InitReadiness == Init => InterestInv /\ ScanInv /\ WakeupInv
<1> SUFFICES ASSUME Init PROVE InterestInv /\ ScanInv /\ WakeupInv
    OBVIOUS
<1> USE ThreadFacts
<1>1. record.state = "free"
    BY DEF Init, FreeRecord
<1>2. InterestInv
  <2>1. ASSUME NEW t \in Threads PROVE InterestKnows(t)
      BY DEF Init, InterestKnows, ClaimPcs
  <2> QED
      BY <1>1, <2>1 DEF InterestInv
<1>3. ScanInv
  <2>1. ~Standing
      BY <1>1 DEF Standing
  <2>2. \A s \in Stoppers : StopperKnows(s)
      BY DEF Init, StopperKnows, LifecycleKinds
  <2> QED
      BY <2>1, <2>2 DEF Init, ScanInv, LifecycleKinds
<1> QED
    BY <1>1, <1>2, <1>3 DEF WakeupInv

(* The three invariants are inductive on top of the ownership argument:    *)
(* the scans need to know what a published interest is about, and the      *)
(* wake-ups that a wait stands only in an instance that polls adaptively.  *)
LEMMA ReadinessInductive == Spec => [](InterestInv /\ ScanInv /\ WakeupInv)
<1>1. /\ TypeOK /\ OwnershipInv /\ MaskInv
      /\ InterestInv /\ ScanInv /\ WakeupInv /\ [Next]_vars
      => (InterestInv /\ ScanInv /\ WakeupInv)'
  <2> SUFFICES ASSUME TypeOK, OwnershipInv, MaskInv, InterestInv, ScanInv, WakeupInv,
                      [Next]_vars
               PROVE  (InterestInv /\ ScanInv /\ WakeupInv)'
      OBVIOUS
  <2>1. CASE Next
      BY <2>1, NextInterest, NextScan, NextWakeup, Zenon
  <2>2. CASE UNCHANGED vars
    <3>1. /\ UNCHANGED <<record, slot, interest, adaptive, open, started, queuesOpen, capture>>
          /\ UNCHANGED <<injection, asked, pc, held, expected, bits, status, observed, kind>>
        BY <2>2, Zenon DEF vars, shared, device, requestState, locals
    <3>2. InterestInv'
        BY <3>1 DEF InterestInv, InterestKnows
    <3>3. ScanInv'
        BY <3>1 DEF ScanInv, StopperKnows, Standing
    <3>4. WakeupInv'
        BY <3>1, Zenon
           DEF WakeupInv, CarriesReadable, CarriesWritable, Carries, Claiming, Writable
    <3> QED
        BY <3>2, <3>3, <3>4, Zenon
  <2> QED
      BY <2>1, <2>2, Zenon
<1> QED
    BY <1>1, InitReadiness, Inductive, PTL DEF Spec

(* A wait that succeeds reports at least one readiness bit, and only bits  *)
(* of its own input, however often the handle was recycled.                *)
THEOREM SuccessIsReady == Spec => []SuccessReportsReadiness
<1>1. InterestInv => SuccessReportsReadiness
    BY DEF InterestInv, InterestKnows, SuccessReportsReadiness
<1> QED
    BY <1>1, ReadinessInductive, PTL

(* Once evt_packet_queue_stop has returned, no wait that is interested in  *)
(* the stopped direction can be claimed: the registration's recheck and    *)
(* the scan cannot both miss.                                              *)
THEOREM StopLeavesNoWait == Spec => []StoppedDirectionHasNoWait
<1>1. ScanInv => StoppedDirectionHasNoWait
    BY DEF ScanInv, Standing, StoppedDirectionHasNoWait
<1> QED
    BY <1>1, ReadinessInductive, PTL

(* D0 exit and owner cleanup clear the frame queues of an instance that    *)
(* has no wait.                                                            *)
THEOREM ClosingLeavesNoWait == Spec => []ClosedInstanceHasNoWait
<1>1. ScanInv => ClosedInstanceHasNoWait
    BY DEF ScanInv, StopperKnows, Standing, ClosedInstanceHasNoWait, LifecycleKinds, ScanPcs
<1> QED
    BY <1>1, ReadinessInductive, PTL

(* No wake-up is lost: a pending wait whose condition holds has a claim on *)
(* its way that will not give up, or a teardown that will cancel it.       *)
THEOREM WakeupsAreKept == Spec => []NoLostWakeup
<1>1. ScanInv /\ WakeupInv => NoLostWakeup
  <2> SUFFICES ASSUME ScanInv, WakeupInv, record.state = "pending" PROVE NoLostWakeup
      BY DEF NoLostWakeup
  <2>1. \A t, b : Carries(t, b) => Claiming(t, b)
      BY DEF Carries
  <2>2. CarriesReadable => OwesReadable
      BY <2>1 DEF CarriesReadable, OwesReadable
  <2>3. CarriesWritable => OwesWritable
      BY <2>1 DEF CarriesWritable, OwesWritable
  <2>4. ~open => OwesCancellation
      BY DEF ScanInv, StopperKnows, Standing, OwesCancellation, LifecycleKinds, ScanPcs
  <2> QED
      BY <2>2, <2>3, <2>4 DEF WakeupInv, NoLostWakeup
<1> QED
    BY <1>1, ReadinessInductive, PTL
=============================================================================
