---------------------------- MODULE AdaptiveWait ----------------------------
(***************************************************************************)
(* The adaptive WAIT_FOR_CHANGE protocol of the NetAdapterCx driver        *)
(* (crates/wintap-netadaptercx-driver/src/lib.rs).                         *)
(*                                                                         *)
(* One pending wait at a time is published through a packed atomic word,   *)
(* wait_state = (sequence, satisfied, state), a request slot and a         *)
(* two-valued cancellation handoff.  The threads that meet there:          *)
(*                                                                         *)
(*   "dispatch"  handle_wait_for_change, serialised by the control queue   *)
(*   "worker"    the read-completion work item, at passive level           *)
(*   "tx"        EVT_PACKET_QUEUE_ADVANCE of the transmit queue            *)
(*   "rx"        EVT_PACKET_QUEUE_ADVANCE of the receive queue             *)
(*   "read"      evt_io_read of the adaptive owner                         *)
(*   Stoppers    packet-queue stop, D0 exit, file cleanup and EvtIoStop    *)
(*   Requests    the WDF cancellation callback of each request             *)
(*                                                                         *)
(* Every atomic load, store, swap and compare-exchange that another thread *)
(* can tell apart is a step of its own.  A compare-exchange loop whose     *)
(* outcome depends only on the current word (transition_wait_record,       *)
(* begin_wait_record) is one step; the claim loop, which uses an older     *)
(* observation, is not.                                                    *)
(***************************************************************************)
EXTENDS Naturals, FiniteSets

CONSTANTS
    Requests,       \* WDFREQUEST handles; WDF recycles a completed handle
    NoRequest,      \* the null handle
    Stoppers,       \* threads that run teardown callbacks
    Kinds,          \* the teardown callbacks that occur, a subset of AllKinds
    Interests,      \* the interest masks user mode asks for
    Directions,     \* the packet queues NetAdapterCx creates
    Callers,        \* the datapath callbacks that occur
    CaptureLimit,   \* FRAME_QUEUE_LIMIT of the capture queue
    InjectionLimit, \* FRAME_QUEUE_LIMIT of the injection queue
    MaxSequence     \* bound on the registration sequence number

Bits == {"readable", "writable"}

AllKinds == {"queue", "power", "owner", "iostop"}

Callbacks == {"dispatch", "worker", "tx", "rx", "read"}

Threads == Callbacks \cup Stoppers \cup Requests

Claimants == {"dispatch", "tx", "rx", "read"}

ASSUME ThreadAssumption ==
    /\ Stoppers \cap Requests = {}
    /\ Callbacks \cap (Stoppers \cup Requests) = {}
    /\ NoRequest \notin Requests

ASSUME ConfigurationAssumption ==
    /\ Kinds \subseteq AllKinds
    /\ Interests \subseteq SUBSET Bits
    /\ {} \notin Interests
    /\ Directions \subseteq Bits
    /\ Callers \subseteq {"tx", "rx", "read", "write"}
    /\ CaptureLimit \in Nat \ {0}
    /\ InjectionLimit \in Nat \ {0}
    /\ MaxSequence \in Nat

VARIABLES
    record,         \* wait_state: the packed word
    slot,           \* wait_request
    interest,       \* wait_interest
    handoff,        \* wait_cancel_handoff
    adaptive,       \* adaptive_enabled
    open,           \* lifecycle = INSTANCE_OPEN
    started,        \* tx_queue_started ("readable"), rx_queue_started ("writable")
    queuesOpen,     \* both frame queues are in QueueState::Open
    capture,        \* length of the capture queue
    injection,      \* length of the injection queue
    queued,         \* the work item is queued in WDF
    wdf,            \* WDF's view of each request
    userCancelled,  \* the I/O manager cancelled the request while it was unmarked
    asked,          \* the interest in each request's input buffer
    completions,    \* WdfRequestComplete calls since the request was dispatched
    pc,             \* the next step of each thread
    held,           \* the request a thread is about to unmark or complete
    expected,       \* expected_request of a claim or a teardown
    bits,           \* readiness bits a thread carries
    status,         \* the terminal status a thread carries
    observed,       \* the word a claimant or a teardown loaded
    kind            \* the callback a stopper is running

shared == <<record, slot, interest, handoff>>
device == <<adaptive, open, started, queuesOpen, capture, injection>>
requestState == <<wdf, userCancelled, asked, completions>>
locals == <<held, expected, bits, status, observed, kind>>
vars == <<shared, device, queued, requestState, pc, locals>>

States == {"free", "registering", "pending", "scheduled", "unmarking",
           "teardown", "cancelled"}

Records == [state : States, satisfied : SUBSET Bits, sequence : Nat]

FreeRecord(n) == [state |-> "free", satisfied |-> {}, sequence |-> n]

Pc == {"idle", "precheck", "begin", "publish_slot", "publish_interest",
       "recheck", "mark", "publish", "resolve_teardown", "level_capture",
       "level_injection", "claim", "load", "inspect", "cas", "schedule",
       "take", "take_slot", "ready_capture", "ready_injection", "decide",
       "unmark", "swap", "clear_slot", "free", "complete",
       "active", "stop", "stop_slot", "stop_cas", "stop_reread", "flush",
       "clear", "reopen", "cancel", "cancel_cas", "cancel_swap",
       "tx_enqueue", "rx_dequeue", "rx_claim", "rx_requeue", "read_dequeue",
       "read_requeue"}

TypeOK ==
    /\ record \in Records
    /\ slot \in Requests \cup {NoRequest}
    /\ interest \in SUBSET Bits
    /\ handoff \in {"none", "cancel_arrived", "unmark_cancelled"}
    /\ adaptive \in BOOLEAN /\ open \in BOOLEAN /\ queuesOpen \in BOOLEAN
    /\ started \in [Bits -> BOOLEAN]
    /\ capture \in 0..CaptureLimit
    /\ injection \in 0..InjectionLimit
    /\ queued \in BOOLEAN
    /\ wdf \in [Requests -> {"idle", "owned", "marked", "cancelling"}]
    /\ userCancelled \in [Requests -> BOOLEAN]
    /\ asked \in [Requests -> SUBSET Bits]
    /\ completions \in [Requests -> 0..2]
    /\ pc \in [Threads -> Pc]
    /\ held \in [Threads -> Requests \cup {NoRequest}]
    /\ expected \in [Threads -> Requests \cup {NoRequest}]
    /\ bits \in [Threads -> SUBSET Bits]
    /\ status \in [Threads -> {"none", "success", "cancelled", "failed"}]
    /\ observed \in [Threads -> Records]
    /\ kind \in [Stoppers -> AllKinds \cup {"none"}]

Init ==
    /\ record = FreeRecord(0)
    /\ slot = NoRequest
    /\ interest = {}
    /\ handoff = "none"
    /\ adaptive = FALSE
    /\ open = TRUE
    /\ started = [b \in Bits |-> FALSE]
    /\ queuesOpen = TRUE
    /\ capture = 0
    /\ injection = 0
    /\ queued = FALSE
    /\ wdf = [r \in Requests |-> "idle"]
    /\ userCancelled = [r \in Requests |-> FALSE]
    /\ asked = [r \in Requests |-> {}]
    /\ completions = [r \in Requests |-> 0]
    /\ pc = [t \in Threads |-> "idle"]
    /\ held = [t \in Threads |-> NoRequest]
    /\ expected = [t \in Threads |-> NoRequest]
    /\ bits = [t \in Threads |-> {}]
    /\ status = [t \in Threads |-> "none"]
    /\ observed = [t \in Threads |-> FreeRecord(0)]
    /\ kind = [s \in Stoppers |-> "none"]

-----------------------------------------------------------------------------
(***************************************************************************)
(* Control flow shared by the threads.                                     *)
(***************************************************************************)
Goto(t, label) == pc' = [pc EXCEPT ![t] = label]

(* Where a thread continues once its part in the wait protocol is over.    *)
Return(t) ==
    IF t \in Stoppers THEN "flush" ELSE IF t = "worker" THEN "take" ELSE "idle"

ResetLocals(t) ==
    /\ held' = [held EXCEPT ![t] = NoRequest]
    /\ expected' = [expected EXCEPT ![t] = NoRequest]
    /\ bits' = [bits EXCEPT ![t] = {}]
    /\ status' = [status EXCEPT ![t] = "none"]
    /\ observed' = [observed EXCEPT ![t] = FreeRecord(0)]
    /\ UNCHANGED kind

Leave(t) == Goto(t, Return(t)) /\ ResetLocals(t)

(* A thread that owns the terminal completion of r with the given status   *)
(* goes on to the given step.                                              *)
Own(t, r, code, label) ==
    /\ Goto(t, label)
    /\ held' = [held EXCEPT ![t] = r]
    /\ status' = [status EXCEPT ![t] = code]
    /\ UNCHANGED <<expected, bits, observed, kind>>

InterestStarted(i) == \A b \in i : started[b]

(* transition_wait_record: keeps the sequence and the satisfied mask.      *)
Transition(to) == record' = [record EXCEPT !.state = to]

-----------------------------------------------------------------------------
(***************************************************************************)
(* handle_wait_for_change: registration on the control-queue dispatch.     *)
(***************************************************************************)

(* WDF presents a wait.  The control queue's synchronisation lock excludes *)
(* another handler and EvtIoStop.                                          *)
Dispatch(r, i) ==
    /\ pc["dispatch"] = "idle"
    /\ \A s \in Stoppers : kind[s] # "iostop"
    /\ wdf[r] = "idle" /\ pc[r] = "idle"
    /\ record.sequence < MaxSequence
    /\ wdf' = [wdf EXCEPT ![r] = "owned"]
    /\ userCancelled' = [userCancelled EXCEPT ![r] = FALSE]
    /\ asked' = [asked EXCEPT ![r] = i]
    /\ completions' = [completions EXCEPT ![r] = 0]
    /\ Own("dispatch", r, "none", "precheck")
    /\ UNCHANGED <<shared, device, queued>>

(* The early rejections: not open, a requested direction stopped, or the   *)
(* owner has not negotiated adaptive polling.                              *)
Precheck ==
    /\ pc["dispatch"] = "precheck"
    /\ LET r == held["dispatch"]
           admitted == open /\ InterestStarted(asked[r]) /\ adaptive
       IN  IF admitted THEN Own("dispatch", r, "none", "begin")
                       ELSE Own("dispatch", r, "failed", "complete")
    /\ UNCHANGED <<shared, device, queued, requestState>>

(* begin_wait_record *)
BeginWaitRecord ==
    /\ pc["dispatch"] = "begin"
    /\ LET r == held["dispatch"] IN
       \/ /\ record.state = "free"
          /\ record' = [state |-> "registering", satisfied |-> {},
                        sequence |-> record.sequence + 1]
          /\ Own("dispatch", r, "none", "publish_slot")
       \/ /\ record.state # "free"
          /\ UNCHANGED record
          /\ Own("dispatch", r, "failed", "complete")
    /\ UNCHANGED <<slot, interest, handoff, device, queued, requestState>>

(* The slot compare-exchange.  A slot that is still taken retires the      *)
(* record and fails the request as busy.                                   *)
PublishSlot ==
    /\ pc["dispatch"] = "publish_slot"
    /\ LET r == held["dispatch"]
           vacant == slot = NoRequest
       IN  /\ slot' = IF vacant THEN r ELSE slot
           /\ Own("dispatch", r, IF vacant THEN "none" ELSE "failed",
                  IF vacant THEN "publish_interest" ELSE "clear_slot")
    /\ UNCHANGED <<record, interest, handoff, device, queued, requestState>>

PublishInterest ==
    /\ pc["dispatch"] = "publish_interest"
    /\ interest' = asked[held["dispatch"]]
    /\ handoff' = "none"
    /\ Goto("dispatch", "recheck")
    /\ UNCHANGED <<record, slot, device, queued, requestState, locals>>

(* Wrong variant: the recheck forgets the lifecycle.                       *)
RecheckIgnoringLifecycle ==
    /\ pc["dispatch"] = "recheck"
    /\ LET r == held["dispatch"]
       IN  IF adaptive /\ InterestStarted(asked[r])
           THEN Own("dispatch", r, "none", "mark")
           ELSE Own("dispatch", r, "cancelled", "clear_slot")
    /\ UNCHANGED <<shared, device, queued, requestState>>

(* The recheck after the slot is visible.                                  *)
Recheck ==
    /\ pc["dispatch"] = "recheck"
    /\ LET r == held["dispatch"]
           admitted == open /\ adaptive /\ InterestStarted(asked[r])
       IN  IF admitted THEN Own("dispatch", r, "none", "mark")
                       ELSE Own("dispatch", r, "cancelled", "clear_slot")
    /\ UNCHANGED <<shared, device, queued, requestState>>

(* WdfRequestMarkCancelableEx: refuses a request that is already cancelled *)
(* without calling the callback, or fails, or accepts the routine.         *)
MarkCancelable ==
    /\ pc["dispatch"] = "mark"
    /\ LET r == held["dispatch"] IN
       \/ /\ userCancelled[r]
          /\ UNCHANGED wdf
          /\ Own("dispatch", r, "cancelled", "clear_slot")
       \/ /\ UNCHANGED wdf
          /\ Own("dispatch", r, "failed", "clear_slot")
       \/ /\ ~userCancelled[r]
          /\ wdf' = [wdf EXCEPT ![r] = "marked"]
          /\ Own("dispatch", r, "none", "publish")
    /\ UNCHANGED <<shared, device, queued, userCancelled, asked, completions>>

(* Wrong variant: no level check once the wait is published.               *)
PublishWithoutLevelCheck ==
    /\ pc["dispatch"] = "publish"
    /\ \/ /\ record.state = "registering"
          /\ Transition("pending")
          /\ Leave("dispatch")
       \/ /\ record.state = "teardown"
          /\ UNCHANGED record
          /\ Goto("dispatch", "resolve_teardown")
          /\ UNCHANGED locals
       \/ /\ record.state \notin {"registering", "teardown"}
          /\ UNCHANGED record
          /\ Own("dispatch", NoRequest, "none", "clear_slot")
    /\ UNCHANGED <<slot, interest, handoff, device, queued, requestState>>

(* transition_wait_record(REGISTERING, PENDING) and its outcomes.  Once    *)
(* pending, the dispatch thread no longer owns the request and only names  *)
(* it as the request its level check may claim.                            *)
PublishPending ==
    /\ pc["dispatch"] = "publish"
    /\ \/ /\ record.state = "registering"
          /\ Transition("pending")
          /\ Goto("dispatch", "level_capture")
          /\ held' = [held EXCEPT !["dispatch"] = NoRequest]
          /\ expected' = [expected EXCEPT !["dispatch"] = held["dispatch"]]
          /\ UNCHANGED <<bits, status, observed, kind>>
       \/ /\ record.state = "teardown"
          /\ UNCHANGED record
          /\ Goto("dispatch", "resolve_teardown")
          /\ UNCHANGED locals
       \/ /\ record.state \notin {"registering", "teardown"}
          /\ UNCHANGED record
          /\ Own("dispatch", NoRequest, "none", "clear_slot")
    /\ UNCHANGED <<slot, interest, handoff, device, queued, requestState>>

(* transition_wait_record(TEARDOWN, UNMARKING): the registration does the  *)
(* unmark handshake unless the cancellation callback came in between.      *)
ResolveTeardown ==
    /\ pc["dispatch"] = "resolve_teardown"
    /\ \/ /\ record.state = "teardown"
          /\ Transition("unmarking")
          /\ Own("dispatch", held["dispatch"], "cancelled", "unmark")
       \/ /\ record.state # "teardown"
          /\ UNCHANGED record
          /\ Own("dispatch", NoRequest, "none", "clear_slot")
    /\ UNCHANGED <<slot, interest, handoff, device, queued, requestState>>

(* readiness_snapshot takes the two queue locks one after the other.       *)
Readable == IF capture > 0 THEN {"readable"} ELSE {}
Writable == IF queuesOpen /\ injection < InjectionLimit THEN {"writable"} ELSE {}

LevelCapture ==
    /\ pc["dispatch"] = "level_capture"
    /\ bits' = [bits EXCEPT !["dispatch"] = Readable]
    /\ Goto("dispatch", "level_injection")
    /\ UNCHANGED <<shared, device, queued, requestState, held, expected,
                   status, observed, kind>>

(* The claim is made only for readiness the request asked for: with the    *)
(* generations changed but no bit set the claim has an empty condition and *)
(* returns at once.                                                        *)
LevelInjection ==
    /\ pc["dispatch"] = "level_injection"
    /\ LET ready == (bits["dispatch"] \cup Writable) \cap asked[expected["dispatch"]]
       IN  \/ /\ ready # {}
              /\ bits' = [bits EXCEPT !["dispatch"] = ready]
              /\ Goto("dispatch", "claim")
              /\ UNCHANGED <<held, expected, status, observed, kind>>
           \/ ready = {} /\ Leave("dispatch")
    /\ UNCHANGED <<shared, device, queued, requestState>>

-----------------------------------------------------------------------------
(***************************************************************************)
(* claim_wait_for_passive_completion, for every claimant.                  *)
(***************************************************************************)
ClaimEnter(t) ==
    /\ pc[t] = "claim"
    /\ IF adaptive THEN Goto(t, "load") /\ UNCHANGED locals ELSE Leave(t)
    /\ UNCHANGED <<shared, device, queued, requestState>>

ClaimLoad(t) ==
    /\ pc[t] = "load"
    /\ IF record.state \in {"pending", "scheduled"}
       THEN /\ observed' = [observed EXCEPT ![t] = record]
            /\ Goto(t, "inspect")
            /\ UNCHANGED <<held, expected, bits, status, kind>>
       ELSE Leave(t)
    /\ UNCHANGED <<shared, device, queued, requestState>>

(* The slot and the interest belong to whatever is published now; only the *)
(* compare-exchange against the observed word ties them together.          *)
Claimed(t) ==
    [observed[t] EXCEPT !.state = "scheduled",
                        !.satisfied = @ \cup (interest \cap bits[t])]

ClaimInspect(t) ==
    /\ pc[t] = "inspect"
    /\ IF \/ slot = NoRequest
          \/ expected[t] # NoRequest /\ slot # expected[t]
          \/ interest \cap bits[t] = {}
          \/ Claimed(t) = observed[t]
       THEN Leave(t)
       ELSE /\ bits' = [bits EXCEPT ![t] = interest \cap @]
            /\ Goto(t, "cas")
            /\ UNCHANGED <<held, expected, status, observed, kind>>
    /\ UNCHANGED <<shared, device, queued, requestState>>

(* Wrong variant: the compare-exchange looks at the state bits only.       *)
CasOnStateOnly(t) ==
    /\ pc[t] = "cas"
    /\ \/ /\ record.state = observed[t].state
          /\ record' = [record EXCEPT !.state = "scheduled",
                                      !.satisfied = @ \cup bits[t]]
          /\ IF observed[t].state = "pending"
             THEN Goto(t, "schedule") /\ UNCHANGED locals
             ELSE Leave(t)
       \/ /\ record.state # observed[t].state
          /\ UNCHANGED record
          /\ Goto(t, "load")
          /\ UNCHANGED locals
    /\ UNCHANGED <<slot, interest, handoff, device, queued, requestState>>

(* bits[t] now holds the satisfied mask computed in ClaimInspect.  Each    *)
(* claimant's condition is either one bit or the registration's own        *)
(* readiness, so a retry that narrows it again loses nothing.              *)
ClaimCas(t) ==
    /\ pc[t] = "cas"
    /\ \/ /\ record = observed[t]
          /\ record' = [record EXCEPT !.state = "scheduled",
                                      !.satisfied = @ \cup bits[t]]
          /\ IF observed[t].state = "pending"
             THEN Goto(t, "schedule") /\ UNCHANGED locals
             ELSE Leave(t)
       \/ /\ record # observed[t]
          /\ UNCHANGED record
          /\ Goto(t, "load")
          /\ UNCHANGED locals
    /\ UNCHANGED <<slot, interest, handoff, device, queued, requestState>>

(* enqueue_work_item: WDF coalesces an item that is already queued.        *)
ClaimSchedule(t) ==
    /\ pc[t] = "schedule"
    /\ queued' = TRUE
    /\ Leave(t)
    /\ UNCHANGED <<shared, device, requestState>>

Claim(t) ==
    ClaimEnter(t) \/ ClaimLoad(t) \/ ClaimInspect(t) \/ ClaimCas(t) \/ ClaimSchedule(t)

-----------------------------------------------------------------------------
(***************************************************************************)
(* unmark_and_complete_wait, finish_wait and the completion itself.        *)
(***************************************************************************)

(* WdfRequestUnmarkCancelable: succeeds; or reports that cancellation has  *)
(* begun, so the callback runs or has run; or fails in a way that keeps    *)
(* the callback from running.                                              *)
Unmark(t) ==
    /\ pc[t] = "unmark"
    /\ LET r == held[t] IN
       \/ /\ wdf[r] = "marked"
          /\ wdf' = [wdf EXCEPT ![r] = "owned"]
          /\ Goto(t, "clear_slot")
          /\ UNCHANGED status
       \/ /\ wdf[r] = "marked"
          /\ wdf' = [wdf EXCEPT ![r] = "owned"]
          /\ Goto(t, "clear_slot")
          /\ status' = [status EXCEPT ![t] = "failed"]
       \/ /\ wdf[r] = "cancelling"
          /\ UNCHANGED wdf
          /\ Goto(t, "swap")
          /\ status' = [status EXCEPT ![t] = "cancelled"]
    /\ UNCHANGED <<shared, device, queued, userCancelled, asked, completions,
                   held, expected, bits, observed, kind>>

(* Wrong variants: the claimant ignores what the swap returned, and        *)
(* completes, or leaves, in both cases.                                    *)
UnmarkAlwaysCompletes(t) ==
    /\ pc[t] = "swap"
    /\ handoff' = "unmark_cancelled"
    /\ Goto(t, "clear_slot")
    /\ UNCHANGED <<record, slot, interest, device, queued, requestState, locals>>

UnmarkAlwaysLeaves(t) ==
    /\ pc[t] = "swap"
    /\ handoff' = "unmark_cancelled"
    /\ Leave(t)
    /\ UNCHANGED <<record, slot, interest, device, queued, requestState>>

(* The claimant's half of the cancellation handoff.                        *)
HandoffFromUnmark(t) ==
    /\ pc[t] = "swap"
    /\ handoff' = "unmark_cancelled"
    /\ \/ /\ handoff = "cancel_arrived"
          /\ Goto(t, "clear_slot")
          /\ UNCHANGED locals
       \/ handoff # "cancel_arrived" /\ Leave(t)
    /\ UNCHANGED <<record, slot, interest, device, queued, requestState>>

(* finish_wait, first part: interest, handoff and slot are withdrawn.      *)
ClearSlot(t) ==
    /\ pc[t] = "clear_slot"
    /\ interest' = {}
    /\ handoff' = "none"
    /\ slot' = NoRequest
    /\ Goto(t, "free")
    /\ UNCHANGED <<record, device, queued, requestState, locals>>

(* finish_wait, second part: the word returns to FREE under a new          *)
(* sequence.  A thread that retires on behalf of another owner completes   *)
(* nothing.                                                                *)
FreeTheRecord(t) ==
    /\ pc[t] = "free"
    /\ record' = FreeRecord(record.sequence + 1)
    /\ IF held[t] = NoRequest
       THEN Leave(t)
       ELSE Goto(t, "complete") /\ UNCHANGED locals
    /\ UNCHANGED <<slot, interest, handoff, device, queued, requestState>>

(* WdfRequestComplete: WDF may recycle the handle from here on.            *)
CompleteRequest(t) ==
    /\ pc[t] = "complete"
    /\ LET r == held[t] IN
       /\ wdf' = [wdf EXCEPT ![r] = "idle"]
       /\ completions' = [completions EXCEPT ![r] = IF @ < 2 THEN @ + 1 ELSE @]
    /\ Leave(t)
    /\ UNCHANGED <<shared, device, queued, userCancelled, asked>>

Retire(t) ==
    Unmark(t) \/ HandoffFromUnmark(t) \/ ClearSlot(t) \/ FreeTheRecord(t)
    \/ CompleteRequest(t)

-----------------------------------------------------------------------------
(***************************************************************************)
(* evt_read_completion_work_item.  The drain of legacy reads that follows  *)
(* the wait loop is not part of this module.                               *)
(***************************************************************************)
WorkerStart ==
    /\ pc["worker"] = "idle"
    /\ queued
    /\ queued' = FALSE
    /\ Goto("worker", "take")
    /\ UNCHANGED <<shared, device, requestState, locals>>

(* Wrong variant: the recorded mask is thrown away and only refreshed.     *)
TakeWithoutMask ==
    /\ pc["worker"] = "take"
    /\ \/ record.state = "scheduled" /\ Transition("unmarking") /\ Goto("worker", "take_slot")
       \/ record.state # "scheduled" /\ UNCHANGED record /\ Goto("worker", "idle")
    /\ UNCHANGED <<slot, interest, handoff, device, queued, requestState, locals>>

(* take_scheduled_wait *)
TakeScheduledWait ==
    /\ pc["worker"] = "take"
    /\ \/ /\ record.state = "scheduled"
          /\ Transition("unmarking")
          /\ bits' = [bits EXCEPT !["worker"] = record.satisfied]
          /\ Goto("worker", "take_slot")
       \/ /\ record.state # "scheduled"
          /\ UNCHANGED <<record, bits>>
          /\ Goto("worker", "idle")
    /\ UNCHANGED <<slot, interest, handoff, device, queued, requestState, held,
                   expected, status, observed, kind>>

TakeSlot ==
    /\ pc["worker"] = "take_slot"
    /\ held' = [held EXCEPT !["worker"] = slot]
    /\ Goto("worker", IF slot = NoRequest THEN "clear_slot" ELSE "ready_capture")
    /\ UNCHANGED <<shared, device, queued, requestState, expected, bits, status,
                   observed, kind>>

(* The recorded mask is refreshed from the current readiness.              *)
RefreshCapture ==
    /\ pc["worker"] = "ready_capture"
    /\ bits' = [bits EXCEPT !["worker"] = @ \cup (Readable \cap interest)]
    /\ Goto("worker", "ready_injection")
    /\ UNCHANGED <<shared, device, queued, requestState, held, expected, status,
                   observed, kind>>

RefreshInjection ==
    /\ pc["worker"] = "ready_injection"
    /\ bits' = [bits EXCEPT !["worker"] = @ \cup (Writable \cap interest)]
    /\ Goto("worker", "decide")
    /\ UNCHANGED <<shared, device, queued, requestState, held, expected, status,
                   observed, kind>>

(* complete_scheduled_wait_at_passive *)
DecideStatus ==
    /\ pc["worker"] = "decide"
    /\ status' = [status EXCEPT !["worker"] =
                    IF open /\ InterestStarted(interest) THEN "success"
                                                         ELSE "cancelled"]
    /\ Goto("worker", "unmark")
    /\ UNCHANGED <<shared, device, queued, requestState, held, expected, bits,
                   observed, kind>>

WorkItem ==
    WorkerStart \/ TakeScheduledWait \/ TakeSlot \/ RefreshCapture
    \/ RefreshInjection \/ DecideStatus

-----------------------------------------------------------------------------
(***************************************************************************)
(* Teardown: packet-queue stop, D0 exit, owner cleanup and EvtIoStop all   *)
(* reach cancel_wait_request_for_teardown.                                 *)
(***************************************************************************)
BeginTeardown(s, k, r, label) ==
    /\ pc[s] = "idle"
    /\ k \in Kinds
    /\ kind' = [kind EXCEPT ![s] = k]
    /\ expected' = [expected EXCEPT ![s] = r]
    /\ Goto(s, label)
    /\ UNCHANGED <<shared, adaptive, queuesOpen, capture, injection, queued,
                   requestState, held, bits, status, observed>>

(* evt_packet_queue_stop.  NetAdapterCx does not start a queue again       *)
(* before its stop callback has returned, nor stop it twice.               *)
PacketQueueStop(s, b) ==
    /\ started[b]
    /\ started' = [started EXCEPT ![b] = FALSE]
    /\ BeginTeardown(s, "queue", NoRequest, "stop")
    /\ UNCHANGED open

(* evt_packet_queue_start *)
PacketQueueStart(b) ==
    /\ ~started[b]
    /\ \A s \in Stoppers : kind[s] # "queue"
    /\ started' = [started EXCEPT ![b] = TRUE]
    /\ UNCHANGED <<shared, adaptive, open, queuesOpen, capture, injection, queued,
                   requestState, pc, locals>>

(* evt_device_d0_exit and evt_file_cleanup.  The legacy direct-read lock   *)
(* lets one of them at a time into its cancel, flush and clear phase.      *)
LifecycleTeardown(s, k) ==
    /\ k \in {"power", "owner"}
    /\ \A q \in Stoppers : kind[q] \notin {"power", "owner"}
    /\ open
    /\ open' = FALSE
    /\ BeginTeardown(s, k, NoRequest, "stop")
    /\ UNCHANGED started

(* evt_io_stop on the control queue, for a request the driver holds.       *)
IoStop(s, r) ==
    /\ pc["dispatch"] = "idle"
    /\ wdf[r] # "idle"
    /\ BeginTeardown(s, "iostop", r, "active")
    /\ UNCHANGED <<open, started>>

(* wait_request_is_active *)
IoStopActive(s) ==
    /\ pc[s] = "active"
    /\ IF slot = expected[s] THEN Goto(s, "stop") /\ UNCHANGED locals ELSE Leave(s)
    /\ UNCHANGED <<shared, device, queued, requestState>>

(* Wrong variant: teardown takes a registration for nobody's wait.         *)
StopLoadSkipsRegistering(s) ==
    /\ pc[s] = "stop"
    /\ IF record.state \in {"pending", "scheduled"}
       THEN /\ observed' = [observed EXCEPT ![s] = record]
            /\ Goto(s, "stop_slot")
            /\ UNCHANGED <<held, expected, bits, status, kind>>
       ELSE Leave(s)
    /\ UNCHANGED <<shared, device, queued, requestState>>

(* cancel_wait_request_for_teardown: the load at the head of the loop.     *)
StopLoad(s) ==
    /\ pc[s] = "stop"
    /\ IF record.state \in {"registering", "pending", "scheduled"}
       THEN /\ observed' = [observed EXCEPT ![s] = record]
            /\ Goto(s, "stop_slot")
            /\ UNCHANGED <<held, expected, bits, status, kind>>
       ELSE Leave(s)
    /\ UNCHANGED <<shared, device, queued, requestState>>

(* The advisory look at the slot.                                          *)
StopSlot(s) ==
    /\ pc[s] = "stop_slot"
    /\ IF \/ expected[s] # NoRequest /\ slot # expected[s]
          \/ observed[s].state # "registering" /\ slot = NoRequest
       THEN Leave(s)
       ELSE Goto(s, "stop_cas") /\ UNCHANGED locals
    /\ UNCHANGED <<shared, device, queued, requestState>>

(* Wrong variant: teardown stores the new state without comparing.         *)
StopWithoutCompare(s) ==
    /\ pc[s] = "stop_cas"
    /\ \/ /\ record.state = "registering"
          /\ Transition("teardown")
          /\ Leave(s)
       \/ /\ record.state # "registering"
          /\ Transition("unmarking")
          /\ Goto(s, "stop_reread")
          /\ UNCHANGED locals
    /\ UNCHANGED <<slot, interest, handoff, device, queued, requestState>>

(* transition_wait_record compares the state only, so it can win against a *)
(* later registration than the one that was loaded.                        *)
StopCas(s) ==
    /\ pc[s] = "stop_cas"
    /\ \/ /\ record.state = "registering" /\ observed[s].state = "registering"
          /\ Transition("teardown")
          /\ Leave(s)
       \/ /\ record.state # "registering" /\ record.state = observed[s].state
          /\ Transition("unmarking")
          /\ Goto(s, "stop_reread")
          /\ UNCHANGED locals
       \/ /\ record.state # observed[s].state
          /\ UNCHANGED record
          /\ Goto(s, "stop")
          /\ UNCHANGED locals
    /\ UNCHANGED <<slot, interest, handoff, device, queued, requestState>>

StopReread(s) ==
    /\ pc[s] = "stop_reread"
    /\ Own(s, slot, "cancelled", IF slot = NoRequest THEN "clear_slot" ELSE "unmark")
    /\ UNCHANGED <<shared, device, queued, requestState>>

(* EvtIoStop returns; the others flush the work item, and the two          *)
(* lifecycle teardowns go on to clear the frame queues.                    *)
FlushWorkItem(s) ==
    /\ pc[s] = "flush"
    /\ kind[s] # "iostop" => ~queued /\ pc["worker"] = "idle"
    /\ \/ /\ kind[s] \in {"queue", "iostop"}
          /\ Goto(s, "idle")
          /\ kind' = [kind EXCEPT ![s] = "none"]
       \/ /\ kind[s] \in {"power", "owner"}
          /\ Goto(s, "clear")
          /\ UNCHANGED kind
    /\ UNCHANGED <<shared, device, queued, requestState, held, expected, bits,
                   status, observed>>

(* clear_frame_queues; owner cleanup also withdraws adaptive polling and   *)
(* republishes the queues for the next owner.                              *)
ClearFrameQueues(s) ==
    /\ pc[s] = "clear"
    /\ queuesOpen' = FALSE
    /\ capture' = 0
    /\ injection' = 0
    /\ adaptive' = (adaptive /\ kind[s] = "power")
    /\ Goto(s, "reopen")
    /\ UNCHANGED <<shared, open, started, queued, requestState, locals>>

(* The rest of evt_file_cleanup, or the D0 entry that follows a D0 exit.   *)
ReopenFrameQueues(s) ==
    /\ pc[s] = "reopen"
    /\ queuesOpen' = TRUE
    /\ open' = TRUE
    /\ Goto(s, "idle")
    /\ kind' = [kind EXCEPT ![s] = "none"]
    /\ UNCHANGED <<shared, adaptive, started, capture, injection, queued,
                   requestState, held, expected, bits, status, observed>>

Teardown(s) ==
    \/ \E b \in Directions : PacketQueueStop(s, b)
    \/ \E k \in Kinds : LifecycleTeardown(s, k)
    \/ \E r \in Requests : IoStop(s, r)

TeardownStep(s) ==
    IoStopActive(s) \/ StopLoad(s) \/ StopSlot(s) \/ StopCas(s) \/ StopReread(s)
    \/ FlushWorkItem(s) \/ ClearFrameQueues(s) \/ ReopenFrameQueues(s)

-----------------------------------------------------------------------------
(***************************************************************************)
(* cancel_wait_from_wdf: the cancellation callback of request r.           *)
(***************************************************************************)

(* The I/O manager cancels the request.  WDF calls the routine only while  *)
(* the request is marked; before that MarkCancelableEx will report it.     *)
CancelRequest(r) ==
    /\ \/ /\ wdf[r] = "owned" /\ ~userCancelled[r]
          /\ userCancelled' = [userCancelled EXCEPT ![r] = TRUE]
          /\ UNCHANGED <<wdf, pc>>
       \/ /\ wdf[r] = "marked"
          /\ wdf' = [wdf EXCEPT ![r] = "cancelling"]
          /\ Goto(r, "active")
          /\ UNCHANGED userCancelled
    /\ UNCHANGED <<shared, device, queued, asked, completions, locals>>

CancelActive(r) ==
    /\ pc[r] = "active"
    /\ IF slot = r THEN Goto(r, "cancel") /\ UNCHANGED locals
                   ELSE Own(r, r, "cancelled", "complete")
    /\ UNCHANGED <<shared, device, queued, requestState>>

CancelLoad(r) ==
    /\ pc[r] = "cancel"
    /\ IF record.state = "unmarking" THEN Goto(r, "cancel_swap") /\ UNCHANGED locals
       ELSE IF record.state \in {"free", "cancelled"} THEN Leave(r)
       ELSE /\ observed' = [observed EXCEPT ![r] = record]
            /\ Goto(r, "cancel_cas")
            /\ UNCHANGED <<held, expected, bits, status, kind>>
    /\ UNCHANGED <<shared, device, queued, requestState>>

(* A registration that has not published yet retires the record itself;    *)
(* otherwise the callback retires it before completing.                    *)
CancelCas(r) ==
    /\ pc[r] = "cancel_cas"
    /\ \/ /\ record.state = observed[r].state
          /\ Transition("cancelled")
          /\ Own(r, r, "cancelled",
                 IF record.state \in {"registering", "teardown"} THEN "complete"
                                                                  ELSE "clear_slot")
       \/ /\ record.state # observed[r].state
          /\ UNCHANGED record
          /\ Goto(r, "cancel")
          /\ UNCHANGED locals
    /\ UNCHANGED <<slot, interest, handoff, device, queued, requestState>>

(* Wrong variants: the callback ignores what the swap returned, and        *)
(* completes, or leaves, in both cases.                                    *)
CancelAlwaysCompletes(r) ==
    /\ pc[r] = "cancel_swap"
    /\ handoff' = "cancel_arrived"
    /\ Own(r, r, "cancelled", "clear_slot")
    /\ UNCHANGED <<record, slot, interest, device, queued, requestState>>

CancelAlwaysLeaves(r) ==
    /\ pc[r] = "cancel_swap"
    /\ handoff' = "cancel_arrived"
    /\ Leave(r)
    /\ UNCHANGED <<record, slot, interest, device, queued, requestState>>

(* The callback's half of the handoff.                                     *)
HandoffFromCancel(r) ==
    /\ pc[r] = "cancel_swap"
    /\ handoff' = "cancel_arrived"
    /\ \/ /\ handoff = "unmark_cancelled"
          /\ Own(r, r, "cancelled", "clear_slot")
       \/ handoff # "unmark_cancelled" /\ Leave(r)
    /\ UNCHANGED <<record, slot, interest, device, queued, requestState>>

CancelStep(r) ==
    CancelActive(r) \/ CancelLoad(r) \/ CancelCas(r) \/ HandoffFromCancel(r)

-----------------------------------------------------------------------------
(***************************************************************************)
(* The queue transitions that make a wait ready.  Frames are counted, and  *)
(* admission through the datapath leases is left to DatapathLifecycle.     *)
(***************************************************************************)
Enter(t, label) ==
    /\ t \in Callers
    /\ pc[t] = "idle"
    /\ open
    /\ Goto(t, label)
    /\ UNCHANGED <<shared, device, queued, requestState, locals>>

ClaimFor(t, b) ==
    /\ Goto(t, "claim")
    /\ bits' = [bits EXCEPT ![t] = {b}]
    /\ UNCHANGED <<held, expected, status, observed, kind>>

(* enqueue_existing_capture_frame: the empty-to-nonempty transition claims *)
(* READABLE; a closed or full queue drops the frame.                       *)
EnqueueCapture(t) ==
    /\ IF queuesOpen /\ capture < CaptureLimit
       THEN /\ capture' = capture + 1
            /\ IF capture = 0 THEN ClaimFor(t, "readable")
                              ELSE Goto(t, "idle") /\ UNCHANGED locals
       ELSE UNCHANGED capture /\ Goto(t, "idle") /\ UNCHANGED locals
    /\ UNCHANGED <<shared, adaptive, open, started, queuesOpen, injection, queued,
                   requestState>>

(* capture_transmit_packets: one packet after the lifecycle check.         *)
TxEnter == Enter("tx", "tx_enqueue")
TxEnqueue == pc["tx"] = "tx_enqueue" /\ EnqueueCapture("tx")

(* evt_io_read in adaptive mode: dequeue, and put the frame back when it   *)
(* cannot be copied into the caller's buffer.                              *)
ReadEnter == adaptive /\ Enter("read", "read_dequeue")

ReadDequeue ==
    /\ pc["read"] = "read_dequeue"
    /\ \/ /\ capture = 0
          /\ UNCHANGED capture
          /\ Goto("read", "idle")
       \/ /\ capture > 0
          /\ capture' = capture - 1
          /\ \E label \in {"idle", "read_requeue"} : Goto("read", label)
    /\ UNCHANGED <<shared, adaptive, open, started, queuesOpen, injection, queued,
                   requestState, locals>>

(* Wrong variant: the frame is put back without a claim.                   *)
RequeueWithoutClaim ==
    /\ pc["read"] = "read_requeue"
    /\ IF queuesOpen /\ capture < CaptureLimit THEN capture' = capture + 1
                                               ELSE UNCHANGED capture
    /\ Goto("read", "idle")
    /\ UNCHANGED <<shared, adaptive, open, started, queuesOpen, injection, queued,
                   requestState, locals>>

(* requeue_capture_frame_and_schedule_wait *)
ReadRequeue ==
    /\ pc["read"] = "read_requeue"
    /\ \/ EnqueueCapture("read")
       \/ /\ ~open
          /\ Goto("read", "idle")
          /\ UNCHANGED <<shared, device, queued, requestState, locals>>

(* inject_receive_frames: the full-to-nonfull transition claims WRITABLE,  *)
(* after the frame is copied; a descriptor that cannot take it puts the    *)
(* frame back.                                                             *)
RxEnter == Enter("rx", "rx_dequeue")

(* Wrong variant: leaving the full state claims nothing.                   *)
DequeueWithoutClaim ==
    /\ pc["rx"] = "rx_dequeue"
    /\ \/ injection = 0 /\ UNCHANGED injection /\ Goto("rx", "idle")
       \/ /\ injection > 0
          /\ injection' = injection - 1
          /\ \E label \in {"rx_requeue", "rx_dequeue"} : Goto("rx", label)
    /\ UNCHANGED <<shared, adaptive, open, started, queuesOpen, capture, queued,
                   requestState, locals>>

RxDequeue ==
    /\ pc["rx"] = "rx_dequeue"
    /\ \/ /\ injection = 0
          /\ UNCHANGED injection
          /\ Goto("rx", "idle")
       \/ /\ injection > 0
          /\ injection' = injection - 1
          /\ \/ Goto("rx", "rx_requeue")
             \/ Goto("rx", IF queuesOpen /\ injection = InjectionLimit
                           THEN "rx_claim" ELSE "rx_dequeue")
    /\ UNCHANGED <<shared, adaptive, open, started, queuesOpen, capture, queued,
                   requestState, locals>>

RxClaim ==
    /\ pc["rx"] = "rx_claim"
    /\ ClaimFor("rx", "writable")
    /\ UNCHANGED <<shared, device, queued, requestState>>

(* requeue_injection_frame: dropped when the queue is closed or refilled,  *)
(* or when the owner was retired meanwhile.                                *)
RxRequeue ==
    /\ pc["rx"] = "rx_requeue"
    /\ \/ /\ queuesOpen /\ injection < InjectionLimit
          /\ injection' = injection + 1
       \/ /\ ~open \/ ~queuesOpen \/ injection = InjectionLimit
          /\ UNCHANGED injection
    /\ Goto("rx", "idle")
    /\ UNCHANGED <<shared, adaptive, open, started, queuesOpen, capture, queued,
                   requestState, locals>>

(* evt_io_write: enqueue_injection_frame                                   *)
WriteFrame ==
    /\ "write" \in Callers
    /\ open /\ queuesOpen /\ injection < InjectionLimit
    /\ injection' = injection + 1
    /\ UNCHANGED <<shared, adaptive, open, started, queuesOpen, capture, queued,
                   requestState, pc, locals>>

Receive == RxDequeue \/ RxClaim \/ RxRequeue

Read == ReadDequeue \/ ReadRequeue

(* handle_enable_adaptive_polling, also serialised by the control queue.   *)
EnableAdaptivePolling ==
    /\ pc["dispatch"] = "idle"
    /\ \A s \in Stoppers : kind[s] # "iostop"
    /\ open /\ ~adaptive
    /\ adaptive' = TRUE
    /\ UNCHANGED <<shared, open, started, queuesOpen, capture, injection, queued,
                   requestState, pc, locals>>

-----------------------------------------------------------------------------
Registration ==
    Precheck \/ BeginWaitRecord \/ PublishSlot \/ PublishInterest \/ Recheck
    \/ MarkCancelable \/ PublishPending \/ ResolveTeardown \/ LevelCapture
    \/ LevelInjection

(* What the operating system, the network and user mode decide.            *)
Environment ==
    \/ \E r \in Requests, i \in Interests : Dispatch(r, i)
    \/ \E r \in Requests : CancelRequest(r)
    \/ \E s \in Stoppers : Teardown(s)
    \/ \E b \in Directions : PacketQueueStart(b)
    \/ TxEnter \/ RxEnter \/ ReadEnter \/ WriteFrame \/ EnableAdaptivePolling

(* What the driver's own code does once entered.                           *)
Step(t) ==
    \/ t = "dispatch" /\ Registration
    \/ t = "worker" /\ WorkItem
    \/ t = "tx" /\ TxEnqueue
    \/ t = "rx" /\ Receive
    \/ t = "read" /\ Read
    \/ t \in Claimants /\ Claim(t)
    \/ t \in Stoppers /\ TeardownStep(t)
    \/ t \in Requests /\ CancelStep(t)
    \/ Retire(t)

Next == Environment \/ \E t \in Threads : Step(t)

Spec == Init /\ [][Next]_vars

(* Callbacks that the driver has entered run to completion: none of them   *)
(* blocks except WdfWorkItemFlush, which waits for the work item.  Nothing *)
(* obliges the operating system to call, cancel, stop or resume.           *)
Running(t) == Step(t) /\ pc[t] # "reopen"

FairSpec == Spec /\ \A t \in Threads : WF_vars(Running(t))

-----------------------------------------------------------------------------
(***************************************************************************)
(* Safety.                                                                 *)
(***************************************************************************)

(* Registration, the worker, every teardown and the cancellation callback  *)
(* together complete a dispatched wait no more than once ("On return the   *)
(* request always has exactly one terminal owner", lib.rs:3974).           *)
AtMostOneCompletion == \A r \in Requests : completions[r] <= 1

(* WdfRequestUnmarkCancelable is only called on a request that is still    *)
(* marked or whose cancellation callback has not completed it.             *)
UnmarkTouchesLiveRequest ==
    \A t \in Threads :
        pc[t] = "unmark" => wdf[held[t]] \in {"marked", "cancelling"}

(* The published slot never names a handle WDF is free to recycle; the one *)
(* documented exception is a cancellation that met a registration before   *)
(* it published, which stays in CANCELLED until the registration retires.  *)
SlotNamesLiveRequest ==
    slot # NoRequest /\ record.state # "cancelled" => wdf[slot] # "idle"

(* A claimant that stalled across a retirement never contributes a bit to  *)
(* a later registration: a scheduled mask is nonempty and lies within the  *)
(* interest of the registration it is published with.                      *)
ScheduledMaskIsCurrent ==
    record.state = "scheduled" =>
        record.satisfied # {} /\ record.satisfied \subseteq interest

(* A wait that succeeds reports at least one readiness bit, and only bits  *)
(* its caller asked for.                                                   *)
SuccessReportsReadiness ==
    \A t \in Threads :
        pc[t] = "complete" /\ status[t] = "success" =>
            bits[t] # {} /\ bits[t] \subseteq asked[held[t]]

(* Who still owes a pending wait a claim for bit b.                        *)
Claiming(t, b) ==
    b \in bits[t] /\ pc[t] \in {"level_injection", "claim", "load", "inspect", "cas"}

OwesReadable ==
    pc["dispatch"] = "level_capture" \/ \E t \in Claimants : Claiming(t, "readable")

OwesWritable ==
    \/ pc["dispatch"] \in {"level_capture", "level_injection"}
    \/ pc["rx"] \in {"rx_claim", "rx_requeue"}
    \/ \E t \in Claimants : Claiming(t, "writable")

(* D0 exit or owner cleanup has yet to scan for a wait and cancel it.      *)
OwesCancellation ==
    \E s \in Stoppers : /\ kind[s] \in {"power", "owner"}
                        /\ pc[s] \in {"stop", "stop_slot", "stop_cas"}

(* No wakeup is lost between a queue transition and the registration of a  *)
(* wait: a pending wait whose condition holds has a claim on its way.  One *)
(* case is different: receive releases a frame that it cannot put back     *)
(* into a closed instance and claims nothing (requeue_injection_frame),    *)
(* so the teardown that closed the instance must still be going to cancel  *)
(* the wait.                                                               *)
NoLostWakeup ==
    record.state = "pending" =>
        /\ "readable" \in interest /\ capture > 0 => OwesReadable
        /\ "writable" \in interest /\ Writable # {} =>
               OwesWritable \/ OwesCancellation

(* Once evt_packet_queue_stop has returned for a direction, no wait that   *)
(* is interested in it can be claimed until the direction starts again.    *)
StoppedDirectionHasNoWait ==
    \A b \in Bits :
        ~started[b] /\ (\A s \in Stoppers : kind[s] # "queue") =>
            ~(record.state \in {"pending", "scheduled"} /\ b \in interest)

(* D0 exit and owner cleanup leave no wait behind when they clear the      *)
(* frame queues.                                                           *)
ClosedInstanceHasNoWait ==
    ~open /\ (\A s \in Stoppers : kind[s] \in {"power", "owner"} =>
                                   pc[s] \in {"clear", "reopen"}) =>
        record.state \notin {"pending", "scheduled"}

-----------------------------------------------------------------------------
(***************************************************************************)
(* Liveness.                                                               *)
(***************************************************************************)

(* The record never stays in a transient state: "retire the wait so a      *)
(* later WAIT_FOR_CHANGE is not rejected as busy" (lib.rs:4009).           *)
RecordResolves ==
    record.state \notin {"free", "pending"} ~> record.state \in {"free", "pending"}

(* A wait cancelled by the I/O manager is completed, whoever owns it.      *)
CancelledWaitCompletes ==
    \A r \in Requests : wdf[r] = "cancelling" ~> wdf[r] = "idle"

(* A pending wait for a frame that is there does not stay pending, unless  *)
(* a read takes the frame first (claim_wait_for_passive_completion, and    *)
(* the level check handle_wait_for_change makes once it has published).    *)
ReadyWaitIsTaken ==
    record.state = "pending" /\ "readable" \in interest /\ capture > 0
        ~> record.state # "pending" \/ capture = 0
=============================================================================
