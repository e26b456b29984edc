----------------------- MODULE AdaptiveWaitOwnership ------------------------
(***************************************************************************)
(* The moves of the ownership argument, each preserving OwnershipInv: what *)
(* a thread that owns nothing may do (Frame), what the owner of the record *)
(* may do (OwnerMoves), what an unresolved cancellation callback may do    *)
(* (CallbackMoves), and the steps that retire a record. The last lemmas    *)
(* say what one step leaves alone in every other thread (OnlyMoves).       *)
(***************************************************************************)
EXTENDS AdaptiveWaitInvariant, TLAPS

(* The callbacks, the stoppers and the requests are distinct threads.      *)
LEMMA ThreadFacts ==
    /\ {"dispatch", "worker", "tx", "rx", "read"} \subseteq Threads
    /\ \A r \in Requests :
           r \in Threads /\ r \notin Stoppers
           /\ r \notin {"dispatch", "worker", "tx", "rx", "read"}
    /\ \A s \in Stoppers :
           s \in Threads /\ s \notin Requests
           /\ s \notin {"dispatch", "worker", "tx", "rx", "read"}
    /\ NoRequest \notin Requests
BY ThreadAssumption DEF Threads, Callbacks

(* InstanceState::new: nothing is published and no thread is running.      *)
LEMMA InitOwnership == Init => OwnershipInv
<1> SUFFICES ASSUME Init PROVE OwnershipInv
    OBVIOUS
<1> USE ThreadFacts
<1>1. OwnershipTypes
    BY DEF Init, OwnershipTypes, Records, FreeRecord, States, Pc
<1>2. ControlOK
    BY DEF Init, ControlOK, PcsOf
<1>3. ExclusiveOwner
    BY DEF Init, ExclusiveOwner, OwnerPcs, RegisterPcs, UnmarkPcs, RetirePcs
<1>4. Ownership
    BY DEF Init, Ownership, OwnerKnows, RegisterPcs, UnmarkPcs, RetirePcs
<1>5. SingleHolder
    BY DEF Init, SingleHolder
<1>6. Publication
    BY DEF Init, Publication, FreeRecord
<1>7. Cancellation
    BY DEF Init, Cancellation, CallbackKnows, CallbackPcs, RetirePcs
<1> QED
    BY <1>1, <1>2, <1>3, <1>4, <1>5, <1>6, <1>7 DEF OwnershipInv

(* A step that touches neither the slot, the handoff, WDF's view nor who   *)
(* holds what, and moves one thread between steps that own nothing.        *)
LEMMA Frame ==
    ASSUME OwnershipInv, NEW t0 \in Threads \ Requests, NEW l \in Pc,
           l \in PcsOf(t0),
           pc' = [pc EXCEPT ![t0] = l],
           pc[t0] \notin OwnerPcs \cup {"precheck", "begin", "complete"},
           l \notin OwnerPcs \cup {"precheck", "begin", "complete"},
           record' \in Records,
           \/ record.state' = record.state
           \/ {record.state, record.state'} \subseteq {"pending", "scheduled"},
           observed' \in [Threads -> Records],
           \A t \in Threads : t # t0 => observed'[t] = observed[t],
           l \in {"stop_slot", "stop_cas"} =>
               observed'[t0].state \in {"registering", "pending", "scheduled"},
           UNCHANGED <<slot, handoff, wdf, completions, held>>
    PROVE  OwnershipInv'
<1> USE ThreadFacts DEF OwnershipInv
<1>1. \A t \in Threads : t # t0 => pc'[t] = pc[t]
    BY DEF OwnershipTypes
<1>2. pc'[t0] = l
    BY DEF OwnershipTypes
<1>3. OwnershipTypes'
    BY Zenon DEF OwnershipTypes
<1>4. ControlOK'
    BY <1>1, <1>2 DEF ControlOK, PcsOf
<1>5. ExclusiveOwner'
    BY <1>1, <1>2 DEF ExclusiveOwner
<1>6. \A r \in Requests : Cancellable(r)' = Cancellable(r)
    BY <1>1 DEF Cancellable
<1>7. Ownership'
  <2> SUFFICES ASSUME NEW t \in Threads PROVE OwnerKnows(t)'
      BY DEF Ownership
  <2>1. CASE t = t0
      BY <2>1, <1>2 DEF Ownership, OwnerKnows, OwnerPcs, RegisterPcs, UnmarkPcs, RetirePcs
  <2>2. CASE t # t0
      BY <2>2, <1>1, <1>6 DEF Ownership, OwnerKnows, ExclusiveOwner, OwnerPcs,
         RegisterPcs, UnmarkPcs, RetirePcs
  <2> QED
      BY <2>1, <2>2, Zenon
<1>8. SingleHolder'
    BY <1>1, <1>2 DEF SingleHolder, Ownership, OwnerKnows
<1>9. Publication'
    BY <1>1, <1>2, <1>6 DEF Publication, OwnershipTypes, OwnerPcs, RegisterPcs, RetirePcs
<1>10. Cancellation'
    BY <1>1, <1>2 DEF Cancellation, CallbackKnows, OwnerPcs, RetirePcs
<1> QED
    BY <1>3, <1>4, <1>5, <1>7, <1>8, <1>9, <1>10, Zenon

(* Where the retirement steps of a thread lead.                            *)
LEMMA Knows ==
    ASSUME OwnershipInv, NEW t \in Threads
    PROVE  /\ pc[t] \in PcsOf(t) /\ OwnerKnows(t)
           /\ \A r \in Requests : CallbackKnows(r)
BY Zenon DEF OwnershipInv, ControlOK, Ownership, Cancellation

(* Where the shared retirement code can take each kind of thread.          *)
LEMMA RetireControl ==
    ASSUME NEW t \in Threads
    PROVE  /\ Return(t) \in {"idle", "take", "flush"}
           /\ t \in Requests => Return(t) = "idle"
           /\ "unmark" \in PcsOf(t) =>
                  t \notin Requests /\ {"swap", "clear_slot"} \subseteq PcsOf(t)
           /\ "swap" \in PcsOf(t) =>
                  t \notin Requests /\ {"clear_slot", Return(t)} \subseteq PcsOf(t)
           /\ "clear_slot" \in PcsOf(t) => "free" \in PcsOf(t)
           /\ "free" \in PcsOf(t) => {"complete", Return(t)} \subseteq PcsOf(t)
           /\ "complete" \in PcsOf(t) => Return(t) \in PcsOf(t)
<1> USE ThreadFacts DEF RegisterPcs, RetirePcs, CallbackPcs
<1>1. CASE t \in Requests
    BY <1>1 DEF PcsOf, Return
<1>2. CASE t \in Stoppers
    BY <1>2 DEF PcsOf, Return
<1>3. CASE t \in Callbacks
    BY <1>3 DEF PcsOf, Return, Callbacks, ClaimPcs
<1> QED
    BY <1>1, <1>2, <1>3 DEF Threads

(* The word finish_wait stores, whatever sequence number it carries.       *)
LEMMA FreeRecordType == \A n \in Nat : FreeRecord(n) \in Records
BY DEF FreeRecord, Records, States

-----------------------------------------------------------------------------
(* One thread moves, and at most one request changes hands.                *)
OnlyThread(t0) ==
    \A t \in Threads :
        t # t0 => pc'[t] = pc[t] /\ held'[t] = held[t] /\ observed'[t] = observed[t]

OnlyRequest(r0) ==
    \A r \in Requests :
        r # r0 => wdf'[r] = wdf[r] /\ completions'[r] = completions[r]

NoOtherOwner(t0) == \A t \in Threads : t # t0 => pc[t] \notin OwnerPcs

NoOtherHolds(t0, r) == \A t \in Threads : t # t0 => held[t] # r

(* The owner is alone, and so is whoever finds the record claimable.       *)
LEMMA SoleOwner ==
    ASSUME OwnershipInv, NEW t0 \in Threads,
           \/ pc[t0] \in OwnerPcs
           \/ record.state \in {"free", "pending", "scheduled"}
    PROVE  NoOtherOwner(t0)
BY DEF OwnershipInv, ExclusiveOwner, NoOtherOwner

(* Nobody else holds the owner's request, nor the published one.           *)
LEMMA SoleHolds ==
    ASSUME OwnershipInv, NEW t0 \in Threads, NoOtherOwner(t0), NEW r \in Requests,
           \/ r = held[t0] /\ pc[t0] \notin {"publish", "resolve_teardown", "complete"}
           \/ r = slot /\ record.state # "cancelled"
    PROVE  NoOtherHolds(t0, r)
BY ThreadFacts DEF OwnershipInv, SingleHolder, NoOtherOwner, NoOtherHolds, OwnerPcs,
       RegisterPcs

(* What the owner does to its request is nobody else's request.            *)
LEMMA HolderMoves ==
    ASSUME OwnershipInv, OwnershipTypes', NEW t0 \in Threads, OnlyThread(t0),
           NoOtherOwner(t0),
           held'[t0] # NoRequest => NoOtherHolds(t0, held'[t0]),
           slot' # NoRequest => NoOtherHolds(t0, slot'),
           slot' # NoRequest /\ held'[t0] = slot' => pc'[t0] \in OwnerPcs
    PROVE  SingleHolder'
<1>1. ASSUME NEW t \in Threads, NEW u \in Threads, t # u, t # t0, u # t0,
             held[t] = held[u], held[t] # NoRequest
      PROVE  FALSE
    BY <1>1 DEF OwnershipInv, SingleHolder, NoOtherOwner, OwnerPcs, RegisterPcs
<1> QED
    BY <1>1 DEF SingleHolder, OnlyThread, NoOtherHolds

(* The threads that own nothing are not disturbed by the owner.            *)
LEMMA OthersKeep ==
    ASSUME OwnershipInv, NEW t0 \in Threads, OnlyThread(t0), NoOtherOwner(t0),
           NEW t \in Threads, t # t0,
           held[t] # NoRequest => wdf'[held[t]] = wdf[held[t]]
    PROVE  OwnerKnows(t)'
<1>1. pc'[t] = pc[t] /\ held'[t] = held[t] /\ observed'[t] = observed[t]
    BY DEF OnlyThread
<1>2. pc[t] \notin OwnerPcs
    BY DEF NoOtherOwner
<1>3. OwnerKnows(t)
    BY DEF OwnershipInv, Ownership
<1> QED
    BY <1>1, <1>2, <1>3, ThreadFacts
       DEF OwnerKnows, OwnerPcs, RegisterPcs, UnmarkPcs, RetirePcs

(* A request that is not published, or that the driver owns, has no        *)
(* cancellation in progress.                                               *)
LEMMA OtherRequestsKeep ==
    ASSUME OwnershipInv, NEW r \in Requests, slot # r \/ wdf[r] = "owned",
           pc'[r] = pc[r], held'[r] = held[r], wdf'[r] = wdf[r],
           completions'[r] = completions[r]
    PROVE  CallbackKnows(r)'
<1>1. CallbackKnows(r)
    BY DEF OwnershipInv, Cancellation
<1> QED
    BY <1>1 DEF CallbackKnows, CallbackPcs

(* A step of the owner preserves OwnershipInv if it does so for the owner, *)
(* its request and the published record.                                   *)
LEMMA OwnerMoves ==
    ASSUME OwnershipInv, OwnershipTypes', NEW t0 \in Threads, NEW r0,
           OnlyThread(t0), OnlyRequest(r0), NoOtherOwner(t0),
           slot \in {r0, NoRequest}, t0 \in Requests => t0 = r0,
           wdf' = wdf \/ NoOtherHolds(t0, r0),
           pc'[t0] \in PcsOf(t0),
           pc'[t0] \in OwnerPcs => record'.state \notin {"free", "pending", "scheduled"},
           OwnerKnows(t0)', SingleHolder', Publication',
           r0 \in Requests => CallbackKnows(r0)'
    PROVE  OwnershipInv'
<1> USE ThreadFacts
<1>1. ControlOK'
    BY DEF OwnershipInv, ControlOK, OnlyThread, PcsOf
<1>2. ExclusiveOwner'
    BY DEF ExclusiveOwner, OnlyThread, NoOtherOwner
<1>3. Ownership'
  <2> SUFFICES ASSUME NEW t \in Threads, t # t0 PROVE OwnerKnows(t)'
      BY Zenon DEF Ownership
  <2>1. held[t] # NoRequest => wdf'[held[t]] = wdf[held[t]]
      BY DEF OnlyRequest, NoOtherHolds, OwnershipInv, OwnershipTypes
  <2> QED
      BY <2>1, OthersKeep, Zenon
<1>4. Cancellation'
  <2> SUFFICES ASSUME NEW r \in Requests, r # r0 PROVE CallbackKnows(r)'
      BY Zenon DEF Cancellation
  <2>1. slot # r /\ pc'[r] = pc[r] /\ held'[r] = held[r]
      BY DEF OnlyThread
  <2>2. wdf'[r] = wdf[r] /\ completions'[r] = completions[r]
      BY DEF OnlyRequest
  <2> QED
      BY <2>1, <2>2, OtherRequestsKeep, Zenon
<1> QED
    BY <1>1, <1>2, <1>3, <1>4, Zenon DEF OwnershipInv

(* A callback that has not settled its request yet owns nothing: its steps *)
(* preserve OwnershipInv as long as its request stays cancellable.         *)
LEMMA CallbackMoves ==
    ASSUME OwnershipInv, OwnershipTypes', NEW r0 \in Requests,
           OnlyThread(r0), OnlyRequest(r0),
           slot = r0, held[r0] = NoRequest, pc[r0] \notin OwnerPcs \cup {"complete"},
           pc'[r0] \in CallbackPcs \/ (pc'[r0] = "idle" /\ record.state = "unmarking"),
           \A t \in Threads : pc[t] \notin RetirePcs,
           wdf[r0] \in {"marked", "cancelling"}, wdf'[r0] = "cancelling",
           Cancellable(r0)',
           handoff' = handoff \/ (handoff' = "cancel_arrived" /\ record.state = "unmarking"),
           UNCHANGED <<record, slot, completions, held>>,
           CallbackKnows(r0)'
    PROVE  OwnershipInv'
<1> USE ThreadFacts
<1>1. ControlOK'
  <2> SUFFICES ASSUME NEW t \in Threads PROVE pc'[t] \in PcsOf(t)
      BY DEF ControlOK
  <2>1. CASE t = r0
      BY <2>1 DEF PcsOf
  <2>2. CASE t # r0
      BY <2>2 DEF OwnershipInv, ControlOK, OnlyThread
  <2> QED
      BY <2>1, <2>2, Zenon
<1>2. \A t \in Threads : pc'[t] \in OwnerPcs \cup {"complete"} => t # r0 /\ pc'[t] = pc[t]
    BY DEF OnlyThread, OwnerPcs, RegisterPcs, UnmarkPcs, RetirePcs, CallbackPcs
<1>3. ExclusiveOwner'
    BY <1>2 DEF OwnershipInv, ExclusiveOwner
<1>4. Ownership'
  <2> SUFFICES ASSUME NEW t \in Threads PROVE OwnerKnows(t)'
      BY Zenon DEF Ownership
  <2>1. CASE t = r0
      BY <2>1, <1>2
         DEF OwnerKnows, OwnerPcs, RegisterPcs, UnmarkPcs, RetirePcs, CallbackPcs
  <2>2. CASE t # r0
    <3>1. /\ pc'[t] = pc[t] /\ held'[t] = held[t] /\ observed'[t] = observed[t]
          /\ OwnerKnows(t) /\ pc[t] \notin RetirePcs
        BY <2>2 DEF OwnershipInv, Ownership, OnlyThread
    <3>2. held[t] # NoRequest => wdf'[held[t]] = wdf[held[t]] \/ held[t] = r0
        BY DEF OwnershipInv, OwnershipTypes, OnlyRequest
    <3>3. pc[t] \in {"precheck", "begin", "publish_slot", "publish_interest", "recheck",
                     "mark"} => held[t] # r0
        BY <3>1, Zenon DEF OwnerKnows
    <3> QED
        BY <3>1, <3>2, <3>3
           DEF OwnerKnows, OwnerPcs, RegisterPcs, UnmarkPcs, RetirePcs
  <2> QED
      BY <2>1, <2>2, Zenon
<1>5. SingleHolder'
  <2>1. SingleHolder /\ UNCHANGED <<record, slot, held>>
      BY Zenon DEF OwnershipInv
  <2>2. \A t \in Threads : t # r0 => pc'[t] = pc[t]
      BY Zenon DEF OnlyThread
  <2> QED
      BY <1>2, <2>1, <2>2 DEF SingleHolder
<1>6. Publication'
    BY Zenon DEF OwnershipInv, Publication, OnlyThread, OwnerPcs, RegisterPcs, RetirePcs
<1>7. Cancellation'
  <2> SUFFICES ASSUME NEW r \in Requests, r # r0 PROVE CallbackKnows(r)'
      BY Zenon DEF Cancellation
  <2>1. slot # r /\ pc'[r] = pc[r] /\ held'[r] = held[r]
      BY Zenon DEF OnlyThread
  <2>2. wdf'[r] = wdf[r] /\ completions'[r] = completions[r]
      BY DEF OnlyRequest
  <2> QED
      BY <2>1, <2>2, OtherRequestsKeep, Zenon
<1> QED
    BY <1>1, <1>3, <1>4, <1>5, <1>6, <1>7, Zenon DEF OwnershipInv

-----------------------------------------------------------------------------
(* WdfRequestUnmarkCancelable is called by the owner on the published      *)
(* request.                                                                *)
LEMMA UnmarkStep ==
    ASSUME OwnershipInv, NEW t0 \in Threads, Unmark(t0)
    PROVE  OwnershipInv'
<1> USE ThreadFacts
<1>a. /\ pc[t0] = "unmark" /\ pc[t0] \in PcsOf(t0) /\ OwnerKnows(t0)
      /\ \A r \in Requests : CallbackKnows(r)
    BY Knows, Zenon DEF Unmark
<1>0. PICK r0 \in Requests : r0 = held[t0]
    BY <1>a DEF OwnerKnows, UnmarkPcs
<1>1. /\ pc[t0] = "unmark" /\ t0 \notin Requests /\ slot = r0 /\ Cancellable(r0)
      /\ record.state = "unmarking" /\ {"swap", "clear_slot"} \subseteq PcsOf(t0)
      /\ \A r \in Requests : r # r0 => pc[r] \notin CallbackPcs
      /\ wdf[r0] = "marked" => pc[r0] = "idle"
    BY <1>a, <1>0, RetireControl DEF OwnerKnows, CallbackKnows, UnmarkPcs
<1>2. NoOtherOwner(t0) /\ NoOtherHolds(t0, r0)
    BY <1>0, <1>1, SoleOwner, SoleHolds DEF OwnerPcs, RegisterPcs, UnmarkPcs, RetirePcs
<1>3. \/ /\ wdf[r0] = "marked" /\ wdf' = [wdf EXCEPT ![r0] = "owned"]
         /\ pc' = [pc EXCEPT ![t0] = "clear_slot"]
      \/ /\ wdf[r0] = "cancelling" /\ wdf' = wdf
         /\ pc' = [pc EXCEPT ![t0] = "swap"]
    BY <1>1, <1>0, RetireControl DEF OwnershipInv, OwnershipTypes, Unmark, Goto
<1>4. UNCHANGED <<record, slot, handoff, completions, held, observed>>
    BY <1>0, <1>1 DEF OwnershipInv, OwnershipTypes, Unmark, shared
<1>5. OwnershipTypes'
    BY <1>0, <1>1, <1>3, <1>4 DEF OwnershipInv, OwnershipTypes, Pc
<1>6. OnlyThread(t0) /\ OnlyRequest(r0)
    BY <1>0, <1>3, <1>4 DEF OwnershipInv, OwnershipTypes, OnlyThread, OnlyRequest
<1>7. /\ pc'[t0] \in PcsOf(t0)
      /\ pc'[t0] \in OwnerPcs => record'.state \notin {"free", "pending", "scheduled"}
    BY <1>0, <1>1, <1>3, <1>4
       DEF OwnershipInv, OwnershipTypes, OwnerPcs, RegisterPcs, UnmarkPcs, RetirePcs
<1>8. OwnerKnows(t0)'
    BY <1>0, <1>1, <1>3, <1>4
       DEF OwnershipInv, OwnershipTypes, OwnerKnows, Cancellable, CallbackPcs, OwnerPcs,
           RegisterPcs, UnmarkPcs, RetirePcs
<1>9. SingleHolder'
    BY <1>0, <1>1, <1>2, <1>3, <1>4, <1>5, <1>6, HolderMoves
       DEF OwnershipInv, OwnershipTypes, OwnerPcs, RegisterPcs, UnmarkPcs, RetirePcs
<1>10. Publication'
    BY <1>0, <1>1, <1>3, <1>4
       DEF OwnershipInv, OwnershipTypes, Publication, Cancellable, RegisterPcs,
           RetirePcs, CallbackPcs
<1>11. CallbackKnows(r0)'
    BY <1>0, <1>1, <1>2, <1>3, <1>4
       DEF OwnershipInv, OwnershipTypes, Cancellation, CallbackKnows, NoOtherOwner,
           CallbackPcs, OwnerPcs, RegisterPcs, UnmarkPcs, RetirePcs
<1> QED
    BY <1>0, <1>1, <1>2, <1>4, <1>5, <1>6, <1>7, <1>8, <1>9, <1>10, <1>11, OwnerMoves, Zenon

(* The claimant's half of the handoff: it retires the record if the        *)
(* callback has been there, and leaves the request to it otherwise.        *)
LEMMA HandoffFromUnmarkStep ==
    ASSUME OwnershipInv, NEW t0 \in Threads, HandoffFromUnmark(t0)
    PROVE  OwnershipInv'
<1> USE ThreadFacts
<1>0. PICK r0 \in Requests : r0 = held[t0]
    BY DEF OwnershipInv, HandoffFromUnmark, Ownership, OwnerKnows, UnmarkPcs
<1>1. /\ pc[t0] = "swap" /\ t0 \notin Requests /\ slot = r0 /\ Cancellable(r0)
      /\ wdf[r0] = "cancelling" /\ record.state = "unmarking"
      /\ {"clear_slot", Return(t0)} \subseteq PcsOf(t0)
      /\ Return(t0) \in {"idle", "take", "flush"}
      /\ \A r \in Requests : wdf[r] # "marked"
      /\ \A r \in Requests : r # r0 \/ handoff = "cancel_arrived" => pc[r] \notin CallbackPcs
  <2>1. /\ pc[t0] = "swap" /\ "swap" \in PcsOf(t0) /\ OwnerKnows(t0)
        /\ \A r \in Requests : CallbackKnows(r)
      BY Knows DEF HandoffFromUnmark
  <2>2. slot = r0 /\ Cancellable(r0) /\ wdf[r0] = "cancelling" /\ record.state = "unmarking"
      BY <1>0, <2>1 DEF OwnerKnows, UnmarkPcs
  <2>3. /\ t0 \notin Requests /\ {"clear_slot", Return(t0)} \subseteq PcsOf(t0)
        /\ Return(t0) \in {"idle", "take", "flush"}
      BY <2>1, RetireControl, Zenon
  <2>4. /\ \A r \in Requests : wdf[r] # "marked"
        /\ \A r \in Requests : r # r0 \/ handoff = "cancel_arrived" => pc[r] \notin CallbackPcs
      BY <2>1, <2>2 DEF CallbackKnows
  <2> QED
      BY <2>1, <2>2, <2>3, <2>4, Zenon
<1>2. NoOtherOwner(t0) /\ NoOtherHolds(t0, r0)
    BY <1>0, <1>1, SoleOwner, SoleHolds DEF OwnerPcs, RegisterPcs, UnmarkPcs, RetirePcs
<1>3. /\ handoff' = "unmark_cancelled"
      /\ \/ /\ handoff = "cancel_arrived" /\ held' = held /\ observed' = observed
            /\ pc' = [pc EXCEPT ![t0] = "clear_slot"]
         \/ /\ handoff # "cancel_arrived" /\ pc' = [pc EXCEPT ![t0] = Return(t0)]
            /\ held' = [held EXCEPT ![t0] = NoRequest]
            /\ observed' = [observed EXCEPT ![t0] = FreeRecord(0)]
    BY <1>1, <1>0, RetireControl
       DEF OwnershipInv, OwnershipTypes, HandoffFromUnmark, Goto, Leave, ResetLocals,
           locals
<1>4. UNCHANGED <<record, slot, wdf, completions>>
    BY <1>0, <1>1 DEF OwnershipInv, OwnershipTypes, HandoffFromUnmark, requestState
<1>5. OwnershipTypes'
    BY <1>0, <1>1, <1>3, <1>4, FreeRecordType DEF OwnershipInv, OwnershipTypes, Pc
<1>6. OnlyThread(t0) /\ OnlyRequest(r0)
    BY <1>0, <1>3, <1>4 DEF OwnershipInv, OwnershipTypes, OnlyThread, OnlyRequest
<1>7. /\ pc'[t0] \in PcsOf(t0)
      /\ pc'[t0] \in OwnerPcs => record'.state \notin {"free", "pending", "scheduled"}
    BY <1>0, <1>1, <1>3, <1>4
       DEF OwnershipInv, OwnershipTypes, OwnerPcs, RegisterPcs, UnmarkPcs, RetirePcs
<1>8. OwnerKnows(t0)'
    BY <1>0, <1>1, <1>3, <1>4
       DEF OwnershipInv, OwnershipTypes, OwnerKnows, Cancellable, CallbackPcs, OwnerPcs,
           RegisterPcs, UnmarkPcs, RetirePcs
<1>9. SingleHolder'
    BY <1>0, <1>1, <1>2, <1>3, <1>4, <1>5, <1>6, HolderMoves
       DEF OwnershipInv, OwnershipTypes, OwnerPcs, RegisterPcs, UnmarkPcs, RetirePcs
<1>10. Publication'
    BY <1>0, <1>1, <1>3, <1>4
       DEF OwnershipInv, OwnershipTypes, Publication, Cancellable, RegisterPcs,
           RetirePcs, CallbackPcs
<1>11. CallbackKnows(r0)'
    BY <1>0, <1>1, <1>2, <1>3, <1>4
       DEF OwnershipInv, OwnershipTypes, Cancellation, CallbackKnows, NoOtherOwner,
           CallbackPcs, OwnerPcs, RegisterPcs, UnmarkPcs, RetirePcs
<1> QED
    BY <1>0, <1>1, <1>2, <1>4, <1>5, <1>6, <1>7, <1>8, <1>9, <1>10, <1>11, OwnerMoves, Zenon

(* finish_wait withdraws the slot; no callback can still need it.          *)
LEMMA ClearSlotStep ==
    ASSUME OwnershipInv, NEW t0 \in Threads, ClearSlot(t0)
    PROVE  OwnershipInv'
<1> USE ThreadFacts
<1>0. PICK r0 \in Requests \cup {NoRequest} : r0 = slot
    BY DEF OwnershipInv, OwnershipTypes
<1>1. /\ pc[t0] = "clear_slot" /\ "free" \in PcsOf(t0) /\ (t0 \in Requests => t0 = r0)
      /\ held[t0] \in {r0, NoRequest} /\ record.state \notin {"free", "pending", "scheduled"}
      /\ \A r \in Requests : pc[r] \notin CallbackPcs /\ wdf[r] # "marked"
      /\ held[t0] # NoRequest => wdf[held[t0]] \in {"owned", "cancelling"}
  <2>1. /\ pc[t0] = "clear_slot" /\ "clear_slot" \in PcsOf(t0) /\ OwnerKnows(t0)
        /\ ExclusiveOwner /\ \A r \in Requests : CallbackKnows(r)
      BY Knows DEF ClearSlot, OwnershipInv
  <2>2. /\ held[t0] \in {r0, NoRequest}
        /\ \A r \in Requests : pc[r] \notin CallbackPcs
        /\ held[t0] # NoRequest => wdf[held[t0]] \in {"owned", "cancelling"}
      BY <1>0, <2>1 DEF OwnerKnows, RetirePcs
  <2>3. record.state \notin {"free", "pending", "scheduled"}
      BY <2>1 DEF ExclusiveOwner, OwnerPcs, RetirePcs
  <2>4. \A r \in Requests : wdf[r] # "marked"
      BY <2>1 DEF CallbackKnows, RetirePcs
  <2>5. t0 \in Requests => t0 = r0
    <3>1. t0 \in Requests => held[t0] = t0
        BY <2>1 DEF CallbackKnows, RetirePcs
    <3> QED
        BY <2>2, <3>1, Zenon
  <2> QED
      BY <2>1, <2>2, <2>3, <2>4, <2>5, RetireControl, Zenon
<1>2. NoOtherOwner(t0) /\ (held[t0] # NoRequest => NoOtherHolds(t0, held[t0]))
    BY <1>0, <1>1, SoleOwner, SoleHolds
       DEF OwnershipInv, OwnershipTypes, OwnerPcs, RegisterPcs, UnmarkPcs, RetirePcs
<1>3. /\ slot' = NoRequest /\ handoff' = "none"
      /\ pc' = [pc EXCEPT ![t0] = "free"]
    BY <1>1, <1>0, RetireControl DEF OwnershipInv, OwnershipTypes, ClearSlot, Goto
<1>4. UNCHANGED <<record, wdf, completions, held, observed>>
    BY <1>0, <1>1, Zenon DEF OwnershipInv, OwnershipTypes, ClearSlot, requestState, locals
<1>5. OwnershipTypes'
    BY <1>0, <1>1, <1>3, <1>4 DEF OwnershipInv, OwnershipTypes, Pc
<1>6. OnlyThread(t0) /\ OnlyRequest(r0)
    BY <1>0, <1>3, <1>4 DEF OwnershipInv, OwnershipTypes, OnlyThread, OnlyRequest
<1>7. /\ pc'[t0] \in PcsOf(t0)
      /\ pc'[t0] \in OwnerPcs => record'.state \notin {"free", "pending", "scheduled"}
    BY <1>0, <1>1, <1>3, <1>4
       DEF OwnershipInv, OwnershipTypes, OwnerPcs, RegisterPcs, UnmarkPcs, RetirePcs
<1>8. OwnerKnows(t0)'
    BY <1>0, <1>1, <1>3, <1>4
       DEF OwnershipInv, OwnershipTypes, OwnerKnows, Cancellable, CallbackPcs, OwnerPcs,
           RegisterPcs, UnmarkPcs, RetirePcs
<1>9. SingleHolder'
    BY <1>0, <1>1, <1>2, <1>3, <1>4, <1>5, <1>6, HolderMoves, Zenon
       DEF OwnershipInv, OwnershipTypes, OwnerPcs, RegisterPcs, UnmarkPcs, RetirePcs
<1>10. Publication'
    BY <1>0, <1>1, <1>3, <1>4
       DEF OwnershipInv, OwnershipTypes, Publication, Cancellable, RegisterPcs,
           RetirePcs, CallbackPcs
<1>11. r0 \in Requests => CallbackKnows(r0)'
    BY <1>0, <1>1, <1>2, <1>3, <1>4
       DEF OwnershipInv, OwnershipTypes, Cancellation, CallbackKnows, NoOtherOwner,
           CallbackPcs, OwnerPcs, RegisterPcs, UnmarkPcs, RetirePcs
<1> QED
    BY <1>0, <1>1, <1>2, <1>4, <1>5, <1>6, <1>7, <1>8, <1>9, <1>10, <1>11, OwnerMoves, Zenon

(* finish_wait frees the record; whoever retired it for itself still has   *)
(* its request to complete.                                                *)
LEMMA FreeStep ==
    ASSUME OwnershipInv, NEW t0 \in Threads, FreeTheRecord(t0)
    PROVE  OwnershipInv'
<1> USE ThreadFacts
<1>0. PICK r0 \in Requests \cup {NoRequest} : r0 = held[t0]
    BY DEF OwnershipInv, OwnershipTypes
<1>1. /\ pc[t0] = "free" /\ slot = NoRequest /\ (t0 \in Requests => t0 = r0)
      /\ {"complete", Return(t0)} \subseteq PcsOf(t0) /\ Return(t0) \in {"idle", "take", "flush"}
      /\ \A r \in Requests : pc[r] \notin CallbackPcs /\ wdf[r] # "marked"
      /\ r0 # NoRequest => wdf[r0] \in {"owned", "cancelling"}
  <2>1. /\ pc[t0] = "free" /\ "free" \in PcsOf(t0) /\ OwnerKnows(t0)
        /\ \A r \in Requests : CallbackKnows(r)
      BY Knows DEF FreeTheRecord
  <2>2. /\ slot = NoRequest /\ \A r \in Requests : pc[r] \notin CallbackPcs
        /\ r0 # NoRequest => wdf[r0] \in {"owned", "cancelling"}
      BY <1>0, <2>1, Zenon DEF OwnerKnows, RetirePcs
  <2>3. /\ \A r \in Requests : wdf[r] # "marked"
        /\ t0 \in Requests => t0 = r0
      BY <1>0, <2>1, Zenon DEF CallbackKnows, RetirePcs
  <2> QED
      BY <2>1, <2>2, <2>3, RetireControl, Zenon
<1>2. NoOtherOwner(t0) /\ (r0 # NoRequest => NoOtherHolds(t0, r0))
    BY <1>0, <1>1, SoleOwner, SoleHolds
       DEF OwnershipInv, OwnershipTypes, OwnerPcs, RegisterPcs, UnmarkPcs, RetirePcs
<1>3. /\ record' \in Records /\ record'.state = "free"
      /\ \/ /\ r0 = NoRequest /\ pc' = [pc EXCEPT ![t0] = Return(t0)] /\ held' = held
            /\ observed' = [observed EXCEPT ![t0] = FreeRecord(0)]
         \/ /\ r0 # NoRequest /\ pc' = [pc EXCEPT ![t0] = "complete"] /\ held' = held
            /\ observed' = observed
    BY <1>1, <1>0, RetireControl
       DEF OwnershipInv, OwnershipTypes, FreeTheRecord, Goto, Leave, ResetLocals, locals,
           FreeRecord, Records, States
<1>4. UNCHANGED <<slot, handoff, wdf, completions>>
    BY <1>0, <1>1 DEF OwnershipInv, OwnershipTypes, FreeTheRecord, requestState
<1>5. OwnershipTypes'
    BY <1>0, <1>1, <1>3, <1>4, FreeRecordType DEF OwnershipInv, OwnershipTypes, Pc
<1>6. OnlyThread(t0) /\ OnlyRequest(r0)
    BY <1>0, <1>3, <1>4 DEF OwnershipInv, OwnershipTypes, OnlyThread, OnlyRequest
<1>7. /\ pc'[t0] \in PcsOf(t0)
      /\ pc'[t0] \in OwnerPcs => record'.state \notin {"free", "pending", "scheduled"}
    BY <1>0, <1>1, <1>3, <1>4
       DEF OwnershipInv, OwnershipTypes, OwnerPcs, RegisterPcs, UnmarkPcs, RetirePcs
<1>8. OwnerKnows(t0)'
    BY <1>0, <1>1, <1>3, <1>4
       DEF OwnershipInv, OwnershipTypes, OwnerKnows, Cancellable, CallbackPcs, OwnerPcs,
           RegisterPcs, UnmarkPcs, RetirePcs
<1>9. SingleHolder'
    BY <1>0, <1>1, <1>2, <1>3, <1>4, <1>5, <1>6, HolderMoves
       DEF OwnershipInv, OwnershipTypes, OwnerPcs, RegisterPcs, UnmarkPcs, RetirePcs
<1>10. Publication'
    BY <1>0, <1>1, <1>3, <1>4
       DEF OwnershipInv, OwnershipTypes, Publication, Cancellable, RegisterPcs,
           RetirePcs, CallbackPcs
<1>11. r0 \in Requests => CallbackKnows(r0)'
    BY <1>0, <1>1, <1>2, <1>3, <1>4
       DEF OwnershipInv, OwnershipTypes, Cancellation, CallbackKnows, NoOtherOwner,
           CallbackPcs, OwnerPcs, RegisterPcs, UnmarkPcs, RetirePcs
<1> QED
    BY <1>0, <1>1, <1>2, <1>4, <1>5, <1>6, <1>7, <1>8, <1>9, <1>10, <1>11, OwnerMoves, Zenon

(* The completing thread is the only one that still knows the request,     *)
(* apart from a registration that will find its record cancelled.          *)
LEMMA CompleteStep ==
    ASSUME OwnershipInv, NEW t0 \in Threads, CompleteRequest(t0)
    PROVE  OwnershipInv'
<1> USE ThreadFacts
<1>0. PICK r0 \in Requests : r0 = held[t0]
    BY Zenon DEF OwnershipInv, CompleteRequest, Ownership, OwnerKnows
<1>1. /\ pc[t0] = "complete" /\ wdf[r0] \in {"owned", "cancelling"} /\ completions[r0] = 0
      /\ Return(t0) \in {"idle", "take", "flush"} /\ Return(t0) \in PcsOf(t0)
  <2>1. /\ pc[t0] = "complete" /\ "complete" \in PcsOf(t0) /\ OwnerKnows(t0)
        /\ CallbackKnows(r0)
      BY <1>0, Knows DEF CompleteRequest
  <2>2. wdf[r0] \in {"owned", "cancelling"}
      BY <1>0, <2>1 DEF OwnerKnows
  <2>3. completions[r0] = 0
      BY <2>1, <2>2 DEF CallbackKnows
  <2> QED
      BY <2>1, <2>2, <2>3, RetireControl, Zenon
<1>2. /\ slot = r0 => record.state = "cancelled"
      /\ \A t \in Threads : t # t0 /\ held[t] = r0 =>
             record.state = "cancelled" /\ pc[t] \in {"publish", "resolve_teardown"}
      /\ t0 \in Requests => t0 = r0
  <2>1. SingleHolder /\ (t0 \in Requests => CallbackKnows(t0))
      BY Zenon DEF OwnershipInv, Cancellation
  <2>2. t0 \in Requests => t0 = r0
      BY <1>0, <1>1, <2>1 DEF CallbackKnows
  <2>3. slot = r0 => record.state = "cancelled"
      BY <1>0, <1>1, <2>1 DEF SingleHolder, OwnerPcs, RegisterPcs, UnmarkPcs, RetirePcs
  <2>4. \A t \in Threads : t # t0 /\ held[t] = r0 =>
            record.state = "cancelled" /\ pc[t] \in {"publish", "resolve_teardown"}
      BY <1>0, <1>1, <2>1 DEF SingleHolder
  <2> QED
      BY <2>2, <2>3, <2>4, Zenon
<1>3. pc[r0] \notin CallbackPcs
    BY <1>2 DEF OwnershipInv, Cancellation, CallbackKnows
<1>4. /\ wdf' = [wdf EXCEPT ![r0] = "idle"]
      /\ completions' = [completions EXCEPT ![r0] = IF @ < 2 THEN @ + 1 ELSE @]
      /\ pc' = [pc EXCEPT ![t0] = Return(t0)]
      /\ held' = [held EXCEPT ![t0] = NoRequest]
      /\ observed' = [observed EXCEPT ![t0] = FreeRecord(0)]
      /\ UNCHANGED <<record, slot, handoff>>
    BY <1>0 DEF CompleteRequest, Goto, Leave, ResetLocals, shared
<1>5. OwnershipTypes'
    BY <1>1, <1>4, FreeRecordType DEF OwnershipInv, OwnershipTypes, Pc
<1>6. OnlyThread(t0) /\ OnlyRequest(r0)
    BY <1>4 DEF OwnershipInv, OwnershipTypes, OnlyThread, OnlyRequest
<1>7. /\ pc'[t0] = Return(t0) /\ held'[t0] = NoRequest
      /\ wdf'[r0] = "idle" /\ completions'[r0] = 1
    BY <1>1, <1>4 DEF OwnershipInv, OwnershipTypes
<1> HIDE <1>4
<1>8. UNCHANGED <<record, slot, handoff>>
    BY <1>4
<1>9. ControlOK'
    BY <1>1, <1>6, <1>7 DEF OwnershipInv, ControlOK, OnlyThread
<1>10. ExclusiveOwner'
    BY <1>1, <1>6, <1>7, <1>8, Zenon
       DEF OwnershipInv, ExclusiveOwner, OnlyThread, OwnerPcs, RegisterPcs, UnmarkPcs,
           RetirePcs
<1>11. slot \in Requests /\ slot # r0 =>
           wdf'[slot] = wdf[slot] /\ (Cancellable(slot)' <=> Cancellable(slot))
    BY <1>2, <1>6, <1>8, Zenon DEF OnlyThread, OnlyRequest, Cancellable
<1>12. Ownership'
  <2> SUFFICES ASSUME NEW t \in Threads PROVE OwnerKnows(t)'
      BY Zenon DEF Ownership
  <2>1. CASE t = t0
      BY <2>1, <1>1, <1>7 DEF OwnerKnows, RegisterPcs, UnmarkPcs, RetirePcs
  <2>2. CASE t # t0
    <3>1. /\ pc'[t] = pc[t] /\ held'[t] = held[t] /\ observed'[t] = observed[t]
          /\ OwnerKnows(t)
        BY <2>2, <1>6 DEF OwnershipInv, Ownership, OnlyThread
    <3>2. held[t] \in Requests /\ held[t] # r0 => wdf'[held[t]] = wdf[held[t]]
        BY <1>6, Zenon DEF OnlyRequest
    <3>3. held[t] \in Requests \cup {NoRequest}
        BY DEF OwnershipInv, OwnershipTypes
    <3>4. \A r \in Requests : pc[r] \notin CallbackPcs => pc'[r] \notin CallbackPcs
        BY <1>1, <1>6, <1>7, Zenon DEF OnlyThread, CallbackPcs
    <3>5. held[t] = r0 =>
              record.state = "cancelled" /\ pc[t] \in {"publish", "resolve_teardown"}
        BY <2>2, <1>2
    <3>6. CASE held[t] = r0
        BY <1>8, <3>1, <3>5, <3>6, Zenon
           DEF OwnerKnows, OwnerPcs, RegisterPcs, UnmarkPcs, RetirePcs
    <3>7. CASE held[t] # r0
      <4>1. slot = r0 => pc[t] \notin UnmarkPcs
          BY <1>2, <3>1, Zenon DEF OwnerKnows
      <4>2. slot \in Requests /\ pc[t] \in UnmarkPcs \cup {"publish", "resolve_teardown"}
               /\ Cancellable(slot) => wdf'[slot] = wdf[slot] /\ Cancellable(slot)'
          BY <1>11, <3>1, <3>7, <4>1, Zenon DEF OwnerKnows
      <4>3. CASE pc[t] \in UnmarkPcs
          BY <1>8, <3>1, <3>2, <3>7, <4>2, <4>3, Zenon
             DEF OwnerKnows, OwnerPcs, RegisterPcs, UnmarkPcs, RetirePcs
      <4>4. CASE pc[t] \in {"publish", "resolve_teardown"}
          BY <1>8, <3>1, <3>7, <4>2, <4>4, Zenon
             DEF OwnerKnows, OwnerPcs, RegisterPcs, UnmarkPcs, RetirePcs
      <4>5. CASE pc[t] \in RetirePcs
          BY <1>8, <3>1, <3>2, <3>3, <3>4, <3>7, <4>5, Zenon
             DEF OwnerKnows, OwnerPcs, RegisterPcs, UnmarkPcs, RetirePcs
      <4>6. CASE pc[t] \notin UnmarkPcs \cup {"publish", "resolve_teardown"} \cup RetirePcs
          BY <1>8, <3>1, <3>2, <3>3, <3>7, <4>6, Zenon
             DEF OwnerKnows, OwnerPcs, RegisterPcs, UnmarkPcs, RetirePcs
      <4> QED
          BY <4>3, <4>4, <4>5, <4>6, Zenon
    <3> QED
        BY <3>6, <3>7, Zenon
  <2> QED
      BY <2>1, <2>2, Zenon
<1>13. SingleHolder'
  <2>1. SingleHolder
      BY Zenon DEF OwnershipInv
  <2>2. /\ \A t \in Threads : t # t0 => pc'[t] = pc[t] /\ held'[t] = held[t]
        /\ record' = record /\ slot' = slot
      BY <1>6, <1>8, Zenon DEF OnlyThread
  <2> QED
      BY <1>7, <2>1, <2>2 DEF SingleHolder
<1>14. Publication'
    BY <1>1, <1>2, <1>6, <1>7, <1>8, <1>11
       DEF OwnershipInv, OwnershipTypes, Publication, OnlyThread, RegisterPcs, RetirePcs
<1>15. Cancellation'
  <2> SUFFICES ASSUME NEW r \in Requests PROVE CallbackKnows(r)'
      BY Zenon DEF Cancellation
  <2>1. CallbackKnows(r) /\ held[r] \in Requests \cup {NoRequest}
      BY DEF OwnershipInv, OwnershipTypes, Cancellation
  <2>2. CASE r = r0
    <3>1. pc'[r] \notin CallbackPcs \cup RetirePcs \cup {"complete"}
        BY <2>1, <2>2, <1>0, <1>1, <1>2, <1>3, <1>6, <1>7, Zenon
           DEF OnlyThread, CallbackKnows, CallbackPcs, RetirePcs
    <3>2. held'[r] \in {NoRequest, r}
        BY <2>1, <2>2, <1>6, <1>7, Zenon DEF OnlyThread, CallbackKnows
    <3>3. wdf'[r] = "idle" /\ completions'[r] = 1
        BY <2>2, <1>7, Zenon
    <3>4. pc'[r] # "cancel_swap" /\ pc'[r] # "cancel_cas"
        BY <3>1, Zenon DEF CallbackPcs
    <3>5. completions'[r] <= 1 /\ wdf'[r] # "marked"
        BY <3>3
    <3> QED
        BY <3>1, <3>2, <3>3, <3>4, <3>5, Zenon DEF CallbackKnows
  <2>3. CASE r # r0
    <3>1. /\ pc'[r] = pc[r] /\ held'[r] = held[r] /\ observed'[r] = observed[r]
          /\ wdf'[r] = wdf[r] /\ completions'[r] = completions[r]
        BY <2>3, <1>2, <1>6, Zenon DEF OnlyThread, OnlyRequest
    <3>2. \A t \in Threads :
              /\ pc[t] \notin RetirePcs => pc'[t] \notin RetirePcs
              /\ pc[t] \notin OwnerPcs => pc'[t] \notin OwnerPcs
      <4>1. pc'[t0] \notin RetirePcs /\ pc'[t0] \notin OwnerPcs
          BY <1>1, <1>7 DEF OwnerPcs, RegisterPcs, UnmarkPcs, RetirePcs
      <4> QED
          BY <1>6, <4>1, Zenon DEF OnlyThread
    <3> QED
        BY <2>1, <3>1, <3>2, <1>8 DEF CallbackKnows
  <2> QED
      BY <2>2, <2>3, Zenon
<1> QED
    BY <1>5, <1>9, <1>10, <1>12, <1>13, <1>14, <1>15, Zenon DEF OwnershipInv

-----------------------------------------------------------------------------
(* The lengths of the two frame queues.                                    *)
LEMMA LengthTypes ==
    ASSUME TypeOK
    PROVE  /\ capture \in Nat /\ injection \in Nat /\ InjectionLimit \in Nat
           /\ injection <= InjectionLimit
<1>1. capture \in 0..CaptureLimit /\ injection \in 0..InjectionLimit
    BY Zenon DEF TypeOK
<1>2. CaptureLimit \in Nat /\ InjectionLimit \in Nat
    BY ConfigurationAssumption
<1> QED
    BY <1>1, <1>2

(* A step of one thread leaves what the others are doing alone.            *)
OnlyMoves(t0) ==
    /\ \A t \in Threads \ {t0} :
          /\ pc'[t] = pc[t] /\ held'[t] = held[t] /\ expected'[t] = expected[t]
          /\ bits'[t] = bits[t] /\ status'[t] = status[t] /\ observed'[t] = observed[t]
    /\ \A s \in Stoppers \ {t0} : kind'[s] = kind[s]

(* A step that does not touch a thread's locals.                           *)
LEMMA GotoMoves ==
    ASSUME TypeOK, NEW t0 \in Threads, NEW l, Goto(t0, l), UNCHANGED locals
    PROVE  OnlyMoves(t0) /\ pc'[t0] = l
<1>1. pc' = [pc EXCEPT ![t0] = l] /\ pc \in [Threads -> Pc]
    BY DEF Goto, TypeOK
<1> QED
    BY <1>1 DEF OnlyMoves, locals

(* A thread that leaves the wait protocol resets its own locals.           *)
LEMMA LeaveMoves ==
    ASSUME TypeOK, NEW t0 \in Threads, Leave(t0)
    PROVE  /\ OnlyMoves(t0) /\ UNCHANGED kind
           /\ pc'[t0] = Return(t0) /\ held'[t0] = NoRequest /\ expected'[t0] = NoRequest
           /\ bits'[t0] = {} /\ status'[t0] = "none"
BY DEF TypeOK, Leave, Goto, ResetLocals, OnlyMoves

(* A thread that takes over a terminal completion.                         *)
LEMMA OwnMoves ==
    ASSUME TypeOK, NEW t0 \in Threads, NEW r, NEW c, NEW l, Own(t0, r, c, l)
    PROVE  /\ OnlyMoves(t0) /\ UNCHANGED <<expected, bits, observed, kind>>
           /\ pc'[t0] = l /\ held'[t0] = r /\ status'[t0] = c
BY DEF TypeOK, Own, Goto, OnlyMoves

(* Every step of a thread, registration and work item first.               *)
LEMMA StepMoves ==
    ASSUME TypeOK, NEW t0 \in Threads, Step(t0)
    PROVE  OnlyMoves(t0)
<1> USE ThreadFacts
<1>1. ASSUME NEW t \in Threads, NEW l, Goto(t, l), UNCHANGED <<held, expected, observed, kind>>,
             status' = status \/ \E x : status' = [status EXCEPT ![t] = x],
             bits' = bits \/ \E x : bits' = [bits EXCEPT ![t] = x]
      PROVE  OnlyMoves(t)
    BY <1>1 DEF TypeOK, Goto, OnlyMoves
<1>2. ASSUME NEW t \in Threads, NEW l, Goto(t, l), UNCHANGED <<bits, status, observed, kind>>,
             \E x : held' = [held EXCEPT ![t] = x],
             \E x : expected' = [expected EXCEPT ![t] = x]
      PROVE  OnlyMoves(t)
    BY <1>2 DEF TypeOK, Goto, OnlyMoves
<1>3. ASSUME NEW t \in Threads, NEW l, Goto(t, l), UNCHANGED <<held, expected, bits, status, kind>>,
             \E x : observed' = [observed EXCEPT ![t] = x]
      PROVE  OnlyMoves(t)
    BY <1>3 DEF TypeOK, Goto, OnlyMoves
<1>4. ASSUME NEW t \in Threads, NEW l, Goto(t, l),
             UNCHANGED <<held, expected, bits, status, observed>>,
             \E x : kind' = [kind EXCEPT ![t] = x]
      PROVE  OnlyMoves(t)
    BY <1>4 DEF TypeOK, Goto, OnlyMoves
<1>5. ASSUME NEW t \in Threads, NEW l, Goto(t, l), UNCHANGED locals PROVE OnlyMoves(t)
    BY <1>5, GotoMoves
<1>6. ASSUME NEW t \in Threads, Leave(t) PROVE OnlyMoves(t)
    BY <1>6, LeaveMoves
<1>7. ASSUME NEW t \in Threads, NEW r, NEW c, NEW l, Own(t, r, c, l) PROVE OnlyMoves(t)
    BY <1>7, OwnMoves
<1>8. ASSUME Registration PROVE OnlyMoves("dispatch")
  <2>1. ASSUME Precheck \/ BeginWaitRecord \/ PublishSlot \/ Recheck \/ MarkCancelable
                  \/ ResolveTeardown
        PROVE  OnlyMoves("dispatch")
    <3>1. \E r, c, l : Own("dispatch", r, c, l)
        BY <2>1 DEF Precheck, BeginWaitRecord, PublishSlot, Recheck, MarkCancelable,
                    ResolveTeardown
    <3> QED
        BY <1>7, <3>1
  <2>2. ASSUME PublishInterest PROVE OnlyMoves("dispatch")
      BY <1>5, <2>2 DEF PublishInterest
  <2>3. ASSUME PublishPending PROVE OnlyMoves("dispatch")
      BY <1>2, <1>5, <1>7, <2>3 DEF PublishPending
  <2>4. ASSUME LevelCapture \/ LevelInjection PROVE OnlyMoves("dispatch")
    <3>1. \/ Leave("dispatch")
          \/ /\ \E l : Goto("dispatch", l)
             /\ \E x : bits' = [bits EXCEPT !["dispatch"] = x]
             /\ UNCHANGED <<held, expected, status, observed, kind>>
        BY <2>4 DEF LevelCapture, LevelInjection
    <3> QED
        BY <1>1, <1>6, <3>1
  <2> QED
      BY <1>8, <2>1, <2>2, <2>3, <2>4 DEF Registration
<1>9. ASSUME WorkItem PROVE OnlyMoves("worker")
  <2>1. ASSUME WorkerStart PROVE OnlyMoves("worker")
      BY <1>5, <2>1 DEF WorkerStart
  <2>2. ASSUME TakeSlot PROVE OnlyMoves("worker")
      BY <2>2 DEF TakeSlot, Goto, OnlyMoves, TypeOK
  <2>3. ASSUME TakeScheduledWait \/ RefreshCapture \/ RefreshInjection \/ DecideStatus
        PROVE  OnlyMoves("worker")
    <3>1. /\ \E l : Goto("worker", l)
          /\ bits' = bits \/ \E x : bits' = [bits EXCEPT !["worker"] = x]
          /\ status' = status \/ \E x : status' = [status EXCEPT !["worker"] = x]
          /\ UNCHANGED <<held, expected, observed, kind>>
        BY <2>3 DEF TakeScheduledWait, RefreshCapture, RefreshInjection, DecideStatus
    <3> QED
        BY <1>1, <3>1
  <2> QED
      BY <1>9, <2>1, <2>2, <2>3 DEF WorkItem
<1>10. ASSUME NEW t \in {"tx", "read"}, EnqueueCapture(t) PROVE OnlyMoves(t)
    BY <1>1, <1>5, <1>10 DEF EnqueueCapture, ClaimFor
<1>11. ASSUME Receive PROVE OnlyMoves("rx")
    BY <1>1, <1>5, <1>11 DEF Receive, RxDequeue, RxClaim, RxRequeue, ClaimFor
<1>12. ASSUME Read PROVE OnlyMoves("read")
    BY <1>5, <1>10, <1>12 DEF Read, ReadDequeue, ReadRequeue
<1>13. ASSUME NEW t \in Claimants, Claim(t) PROVE OnlyMoves(t)
  <2>1. t \in Threads
      BY DEF Claimants
  <2>2. ASSUME ClaimEnter(t) \/ ClaimCas(t) \/ ClaimSchedule(t) PROVE OnlyMoves(t)
      BY <1>5, <1>6, <2>1, <2>2 DEF ClaimEnter, ClaimCas, ClaimSchedule
  <2>3. ASSUME ClaimLoad(t) PROVE OnlyMoves(t)
      BY <1>3, <1>6, <2>1, <2>3 DEF ClaimLoad
  <2>4. ASSUME ClaimInspect(t) PROVE OnlyMoves(t)
      BY <1>1, <1>6, <2>1, <2>4 DEF ClaimInspect
  <2> QED
      BY <1>13, <2>2, <2>3, <2>4 DEF Claim
<1>14. ASSUME NEW s \in Stoppers, TeardownStep(s) PROVE OnlyMoves(s)
  <2>1. s \in Threads
      OBVIOUS
  <2>2. ASSUME IoStopActive(s) \/ StopSlot(s) \/ StopCas(s) \/ ClearFrameQueues(s)
        PROVE  OnlyMoves(s)
      BY <1>5, <1>6, <2>1, <2>2 DEF IoStopActive, StopSlot, StopCas, ClearFrameQueues
  <2>3. ASSUME StopLoad(s) PROVE OnlyMoves(s)
      BY <1>3, <1>6, <2>1, <2>3 DEF StopLoad
  <2>4. ASSUME StopReread(s) PROVE OnlyMoves(s)
      BY <1>7, <2>1, <2>4 DEF StopReread
  <2>5. ASSUME FlushWorkItem(s) \/ ReopenFrameQueues(s) PROVE OnlyMoves(s)
      BY <1>4, <1>5, <2>1, <2>5 DEF FlushWorkItem, ReopenFrameQueues, locals
  <2> QED
      BY <1>14, <2>2, <2>3, <2>4, <2>5 DEF TeardownStep
<1>15. ASSUME NEW r \in Requests, CancelStep(r) PROVE OnlyMoves(r)
  <2>1. r \in Threads
      OBVIOUS
  <2>2. ASSUME CancelLoad(r) PROVE OnlyMoves(r)
      BY <1>3, <1>5, <1>6, <2>1, <2>2 DEF CancelLoad
  <2> QED
      BY <1>5, <1>6, <1>7, <1>15, <2>1, <2>2
         DEF CancelStep, CancelActive, CancelCas, HandoffFromCancel
<1>16. ASSUME Retire(t0) PROVE OnlyMoves(t0)
  <2>1. ASSUME Unmark(t0) PROVE OnlyMoves(t0)
      BY <1>1, <2>1 DEF Unmark
  <2> QED
      BY <1>5, <1>6, <1>16, <2>1
         DEF Retire, HandoffFromUnmark, ClearSlot, FreeTheRecord, CompleteRequest
<1> QED
    BY <1>8, <1>9, <1>10, <1>11, <1>12, <1>13, <1>14, <1>15, <1>16 DEF Step, TxEnqueue
=============================================================================
