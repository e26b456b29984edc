---------------------- MODULE AdaptiveWaitRegistration ----------------------
(***************************************************************************)
(* handle_wait_for_change and the read-completion work item preserve       *)
(* OwnershipInv: one lemma per action, and one per outcome where the       *)
(* outcomes differ in who owns the request. The second half shows that     *)
(* every step keeps InterestInv: the interest a claim or a work item reads *)
(* is the one its request asked for.                                       *)
(***************************************************************************)
EXTENDS AdaptiveWaitOwnership

(* A recycled handle that is dispatched again is held and published by     *)
(* nobody.                                                                 *)
LEMMA DispatchStep ==
    ASSUME OwnershipInv, NEW r0 \in Requests, NEW i, Dispatch(r0, i)
    PROVE  OwnershipInv'
<1> USE ThreadFacts DEF OwnershipInv, OwnerPcs, RegisterPcs, UnmarkPcs, RetirePcs, CallbackPcs
<1>1. /\ pc["dispatch"] = "idle" /\ wdf[r0] = "idle" /\ pc[r0] = "idle"
      /\ \A t \in Threads : held[t] # r0
      /\ slot # r0
  <2>1. pc["dispatch"] = "idle" /\ wdf[r0] = "idle" /\ pc[r0] = "idle"
      BY DEF Dispatch
  <2>2. ASSUME NEW t \in Threads, held[t] = r0 PROVE FALSE
    <3>1. OwnerKnows(t) /\ pc[t] \in PcsOf(t)
        BY DEF Ownership, ControlOK
    <3>2. pc[t] \in {"publish", "resolve_teardown"} => t = "dispatch"
        BY <3>1 DEF PcsOf, ClaimPcs
    <3>3. CASE pc[t] \in UnmarkPcs
        BY <3>1, <3>3, <2>1, <2>2 DEF OwnerKnows, Cancellable
    <3>4. CASE pc[t] \notin UnmarkPcs
        BY <3>1, <3>2, <3>4, <2>1, <2>2 DEF OwnerKnows
    <3> QED
        BY <3>3, <3>4, Zenon
  <2>3. ASSUME slot = r0 PROVE FALSE
    <3>1. record.state \in {"pending", "scheduled", "unmarking", "cancelled"}
        BY <2>1, <2>3 DEF OwnershipTypes, Records, States, Publication
    <3>2. CASE record.state # "cancelled"
        BY <3>1, <3>2, <2>1, <2>3 DEF Publication, Cancellable
    <3>3. CASE record.state = "cancelled"
      <4>1. PICK t \in Threads : pc[t] \in {"publish", "resolve_teardown", "clear_slot"}
          BY <3>3, <2>3 DEF Publication
      <4>2. t # "dispatch"
          BY <4>1, <2>1
      <4>3. pc[t] = "clear_slot"
          BY <4>1, <4>2 DEF ControlOK, PcsOf, ClaimPcs
      <4>4. t \in Requests \/ t \in Stoppers \/ t = "worker"
          BY <4>2, <4>3 DEF ControlOK, PcsOf, ClaimPcs, Threads, Callbacks
      <4>5. held[t] = r0 \/ held[t] = NoRequest
          BY <4>3, <2>3 DEF Ownership, OwnerKnows
      <4>6. held[t] # NoRequest
          BY <4>2, <4>3 DEF Ownership, OwnerKnows
      <4> QED
          BY <4>5, <4>6, <2>2, Zenon
    <3> QED
        BY <3>2, <3>3, Zenon
  <2> QED
      BY <2>1, <2>2, <2>3, Zenon
<1>2. /\ pc' = [pc EXCEPT !["dispatch"] = "precheck"]
      /\ held' = [held EXCEPT !["dispatch"] = r0]
      /\ wdf' = [wdf EXCEPT ![r0] = "owned"]
      /\ completions' = [completions EXCEPT ![r0] = 0]
    BY <1>1 DEF Dispatch, Own, Goto
<1>3. UNCHANGED <<record, slot, handoff, observed>>
    BY <1>1 DEF Dispatch, Own, shared
<1>4. OwnershipTypes'
    BY <1>1, <1>2, <1>3 DEF OwnershipTypes, Pc
<1>5. ControlOK'
    BY <1>1, <1>2, <1>3 DEF ControlOK, PcsOf, OwnershipTypes
<1>6. ExclusiveOwner'
    BY <1>1, <1>2, <1>3 DEF ExclusiveOwner, OwnershipTypes
<1>7. Ownership'
  <2> SUFFICES ASSUME NEW t \in Threads PROVE OwnerKnows(t)'
      BY DEF Ownership
  <2>1. CASE t = "dispatch"
      BY <2>1, <1>1, <1>2, <1>3
         DEF OwnershipTypes, Ownership, OwnerKnows, ExclusiveOwner, Cancellation,
             CallbackKnows, Cancellable
  <2>2. CASE t # "dispatch"
      BY <2>2, <1>1, <1>2, <1>3
         DEF OwnershipTypes, Ownership, OwnerKnows, ExclusiveOwner, SingleHolder,
             Cancellable
  <2> QED
      BY <2>1, <2>2, Zenon
<1>8. SingleHolder'
    BY <1>1, <1>2, <1>3 DEF SingleHolder, OwnershipTypes, Ownership, OwnerKnows
<1>9. Publication'
    BY <1>1, <1>2, <1>3 DEF Publication, OwnershipTypes, Cancellable
<1>10. Cancellation'
  <2> SUFFICES ASSUME NEW r \in Requests PROVE CallbackKnows(r)'
      BY DEF Cancellation
  <2>1. CASE r = r0
      BY <2>1, <1>1, <1>2, <1>3
         DEF OwnershipTypes, Cancellation, CallbackKnows, ControlOK, PcsOf, SingleHolder,
             ExclusiveOwner, Ownership, OwnerKnows
  <2>2. CASE r # r0
      BY <2>2, <1>1, <1>2, <1>3 DEF OwnershipTypes, Cancellation, CallbackKnows
  <2> QED
      BY <2>1, <2>2, Zenon
<1> QED
    BY <1>4, <1>5, <1>6, <1>7, <1>8, <1>9, <1>10, Zenon

(* The early rejections, and a record that is not free, hand the request   *)
(* to its completion.                                                      *)
LEMMA PrecheckStep ==
    ASSUME OwnershipInv, Precheck \/ (BeginWaitRecord /\ record.state # "free")
    PROVE  OwnershipInv'
<1> USE ThreadFacts DEF OwnershipInv, OwnerPcs, RegisterPcs, UnmarkPcs, RetirePcs, CallbackPcs
<1> DEFINE r0 == held["dispatch"]
<1>1. /\ pc["dispatch"] \in {"precheck", "begin"} /\ r0 \in Requests /\ wdf[r0] = "owned"
    BY DEF Precheck, BeginWaitRecord, Ownership, OwnerKnows
<1>2. \E l \in {"begin", "complete"} : pc' = [pc EXCEPT !["dispatch"] = l]
    BY <1>1 DEF Precheck, BeginWaitRecord, Own, Goto
<1>3. UNCHANGED <<record, slot, handoff, wdf, completions, held, observed>>
    BY <1>1 DEF Precheck, BeginWaitRecord, Own, Goto, shared, requestState, OwnershipTypes
<1> HIDE DEF r0
<1>4. OwnershipTypes'
    BY <1>1, <1>2, <1>3 DEF OwnershipTypes, Pc
<1>5. ControlOK'
    BY <1>1, <1>2, <1>3 DEF ControlOK, PcsOf, OwnershipTypes
<1>6. ExclusiveOwner'
    BY <1>1, <1>2, <1>3 DEF ExclusiveOwner, OwnershipTypes
<1>7. Ownership'
  <2> SUFFICES ASSUME NEW t \in Threads PROVE OwnerKnows(t)'
      BY DEF Ownership
  <2>1. CASE t = "dispatch"
      BY <2>1, <1>1, <1>2, <1>3
         DEF OwnershipTypes, Ownership, OwnerKnows, ExclusiveOwner, Cancellation,
             CallbackKnows, Cancellable, r0
  <2>2. CASE t # "dispatch"
      BY <2>2, <1>1, <1>2, <1>3
         DEF OwnershipTypes, Ownership, OwnerKnows, ExclusiveOwner, SingleHolder,
             Cancellable
  <2> QED
      BY <2>1, <2>2, Zenon
<1>8. SingleHolder'
    BY <1>1, <1>2, <1>3 DEF SingleHolder, OwnershipTypes, Ownership, OwnerKnows, r0
<1>9. Publication'
    BY <1>1, <1>2, <1>3 DEF Publication, OwnershipTypes, Cancellable
<1>10. Cancellation'
  <2> SUFFICES ASSUME NEW r \in Requests PROVE CallbackKnows(r)'
      BY DEF Cancellation
  <2> QED
      BY <1>1, <1>2, <1>3 DEF OwnershipTypes, Cancellation, CallbackKnows
<1> QED
    BY <1>4, <1>5, <1>6, <1>7, <1>8, <1>9, <1>10, Zenon

(* begin_wait_record takes a free record, so nobody else owns one.         *)
LEMMA BeginStep ==
    ASSUME OwnershipInv, BeginWaitRecord, record.state = "free"
    PROVE  OwnershipInv'
<1> USE ThreadFacts
<1>0. PICK r0 \in Requests : r0 = held["dispatch"]
    BY 
       DEF OwnershipInv, BeginWaitRecord, Publication, Ownership, OwnerKnows,
           RegisterPcs
<1>1. /\ pc["dispatch"] = "begin" /\ r0 \in Requests /\ wdf[r0] = "owned"
      /\ slot = NoRequest
    BY <1>0
       DEF OwnershipInv, BeginWaitRecord, Publication, Ownership, OwnerKnows,
           RegisterPcs
<1>2. NoOtherOwner("dispatch") /\ NoOtherHolds("dispatch", r0)
    BY <1>0, <1>1, SoleOwner, SoleHolds DEF OwnerPcs, RegisterPcs, UnmarkPcs, RetirePcs
<1>3. /\ record' \in Records /\ record'.state = "registering"
      /\ pc' = [pc EXCEPT !["dispatch"] = "publish_slot"]
    BY <1>1, <1>0
       DEF OwnershipInv, OwnershipTypes, BeginWaitRecord, Own, Goto, Records, States
<1>4. UNCHANGED <<slot, handoff, wdf, completions, held, observed>>
    BY <1>0, <1>1 DEF OwnershipInv, OwnershipTypes, BeginWaitRecord, Own, requestState
<1>5. OwnershipTypes'
    BY <1>0, <1>1, <1>3, <1>4 DEF OwnershipInv, OwnershipTypes, Pc
<1>6. OnlyThread("dispatch") /\ OnlyRequest(r0)
    BY <1>0, <1>3, <1>4 DEF OwnershipInv, OwnershipTypes, OnlyThread, OnlyRequest
<1>7. /\ pc'["dispatch"] \in PcsOf("dispatch")
      /\ pc'["dispatch"] \in OwnerPcs => record'.state \notin {"free", "pending", "scheduled"}
    BY <1>0, <1>1, <1>3, <1>4
       DEF OwnershipInv, OwnershipTypes, PcsOf, OwnerPcs, RegisterPcs, UnmarkPcs,
           RetirePcs
<1>8. OwnerKnows("dispatch")'
    BY <1>0, <1>1, <1>3, <1>4
       DEF OwnershipInv, OwnershipTypes, OwnerKnows, Cancellable, CallbackPcs, OwnerPcs,
           RegisterPcs, UnmarkPcs, RetirePcs
<1>9. SingleHolder'
    BY <1>0, <1>1, <1>2, <1>3, <1>4, <1>5, <1>6, HolderMoves
       DEF OwnershipInv, OwnershipTypes, OwnerPcs, RegisterPcs, UnmarkPcs, RetirePcs
<1>10. Publication'
    BY <1>0, <1>1, <1>3, <1>4
       DEF OwnershipInv, OwnershipTypes, Publication, Cancellable, RegisterPcs,
           RetirePcs, CallbackPcs
<1>11. CallbackKnows(r0)'
    BY <1>0, <1>1, <1>3, <1>4, <1>6, OtherRequestsKeep DEF OnlyThread
<1> QED
    BY <1>0, <1>1, <1>2, <1>4, <1>5, <1>6, <1>7, <1>8, <1>9, <1>10, <1>11, OwnerMoves, Zenon

(* The slot of a registering record is vacant until the registration       *)
(* publishes it.                                                           *)
LEMMA PublishSlotStep ==
    ASSUME OwnershipInv, PublishSlot
    PROVE  OwnershipInv'
<1> USE ThreadFacts
<1>0. PICK r0 \in Requests : r0 = held["dispatch"]
    BY DEF OwnershipInv, PublishSlot, Ownership, OwnerKnows, RegisterPcs
<1>1. /\ pc["dispatch"] = "publish_slot" /\ r0 \in Requests /\ wdf[r0] = "owned"
      /\ slot = NoRequest /\ record.state \in {"registering", "teardown"}
    BY <1>0 DEF OwnershipInv, PublishSlot, Ownership, OwnerKnows, RegisterPcs
<1>2. NoOtherOwner("dispatch") /\ NoOtherHolds("dispatch", r0)
    BY <1>0, <1>1, SoleOwner, SoleHolds DEF OwnerPcs, RegisterPcs, UnmarkPcs, RetirePcs
<1>3. slot' = r0 /\ pc' = [pc EXCEPT !["dispatch"] = "publish_interest"]
    BY <1>1, <1>0 DEF OwnershipInv, OwnershipTypes, PublishSlot, Own, Goto
<1>4. UNCHANGED <<record, handoff, wdf, completions, held, observed>>
    BY <1>0, <1>1 DEF OwnershipInv, OwnershipTypes, PublishSlot, Own, requestState
<1>5. OwnershipTypes'
    BY <1>0, <1>1, <1>3, <1>4 DEF OwnershipInv, OwnershipTypes, Pc
<1>6. OnlyThread("dispatch") /\ OnlyRequest(r0)
    BY <1>0, <1>3, <1>4 DEF OwnershipInv, OwnershipTypes, OnlyThread, OnlyRequest
<1>7. /\ pc'["dispatch"] \in PcsOf("dispatch")
      /\ pc'["dispatch"] \in OwnerPcs => record'.state \notin {"free", "pending", "scheduled"}
    BY <1>0, <1>1, <1>3, <1>4
       DEF OwnershipInv, OwnershipTypes, PcsOf, OwnerPcs, RegisterPcs, UnmarkPcs,
           RetirePcs
<1>8. OwnerKnows("dispatch")'
    BY <1>0, <1>1, <1>3, <1>4
       DEF OwnershipInv, OwnershipTypes, OwnerKnows, Cancellable, CallbackPcs, OwnerPcs,
           RegisterPcs, UnmarkPcs, RetirePcs
<1>9. SingleHolder'
    BY <1>0, <1>1, <1>2, <1>3, <1>4, <1>5, <1>6, HolderMoves
       DEF OwnershipInv, OwnershipTypes, OwnerPcs, RegisterPcs, UnmarkPcs, RetirePcs
<1>10. Publication'
    BY <1>0, <1>1, <1>3, <1>4
       DEF OwnershipInv, OwnershipTypes, Publication, Cancellable, RegisterPcs,
           RetirePcs, CallbackPcs
<1>11. CallbackKnows(r0)'
    BY <1>0, <1>1, <1>3, <1>4, <1>6, OtherRequestsKeep DEF OnlyThread
<1> QED
    BY <1>0, <1>1, <1>2, <1>4, <1>5, <1>6, <1>7, <1>8, <1>9, <1>10, <1>11, OwnerMoves, Zenon

(* The handoff word is reset before the request becomes cancellable.       *)
LEMMA PublishInterestStep ==
    ASSUME OwnershipInv, PublishInterest
    PROVE  OwnershipInv'
<1> USE ThreadFacts
<1>0. PICK r0 \in Requests : r0 = held["dispatch"]
    BY DEF OwnershipInv, PublishInterest, Ownership, OwnerKnows, RegisterPcs
<1>1. /\ pc["dispatch"] = "publish_interest" /\ r0 \in Requests /\ wdf[r0] = "owned"
      /\ slot = r0 /\ record.state \in {"registering", "teardown"}
    BY <1>0 DEF OwnershipInv, PublishInterest, Ownership, OwnerKnows, RegisterPcs
<1>2. NoOtherOwner("dispatch") /\ NoOtherHolds("dispatch", r0)
    BY <1>0, <1>1, SoleOwner, SoleHolds DEF OwnerPcs, RegisterPcs, UnmarkPcs, RetirePcs
<1>3. handoff' = "none" /\ pc' = [pc EXCEPT !["dispatch"] = "recheck"]
    BY <1>1, <1>0 DEF OwnershipInv, OwnershipTypes, PublishInterest, Goto
<1>4. UNCHANGED <<record, slot, wdf, completions, held, observed>>
    BY <1>0, <1>1
       DEF OwnershipInv, OwnershipTypes, PublishInterest, requestState, locals
<1>5. OwnershipTypes'
    BY <1>0, <1>1, <1>3, <1>4 DEF OwnershipInv, OwnershipTypes, Pc
<1>6. OnlyThread("dispatch") /\ OnlyRequest(r0)
    BY <1>0, <1>3, <1>4 DEF OwnershipInv, OwnershipTypes, OnlyThread, OnlyRequest
<1>7. /\ pc'["dispatch"] \in PcsOf("dispatch")
      /\ pc'["dispatch"] \in OwnerPcs => record'.state \notin {"free", "pending", "scheduled"}
    BY <1>0, <1>1, <1>3, <1>4
       DEF OwnershipInv, OwnershipTypes, PcsOf, OwnerPcs, RegisterPcs, UnmarkPcs,
           RetirePcs
<1>8. OwnerKnows("dispatch")'
    BY <1>0, <1>1, <1>3, <1>4
       DEF OwnershipInv, OwnershipTypes, OwnerKnows, Cancellable, CallbackPcs, OwnerPcs,
           RegisterPcs, UnmarkPcs, RetirePcs
<1>9. SingleHolder'
    BY <1>0, <1>1, <1>2, <1>3, <1>4, <1>5, <1>6, HolderMoves
       DEF OwnershipInv, OwnershipTypes, OwnerPcs, RegisterPcs, UnmarkPcs, RetirePcs
<1>10. Publication'
    BY <1>0, <1>1, <1>3, <1>4
       DEF OwnershipInv, OwnershipTypes, Publication, Cancellable, RegisterPcs,
           RetirePcs, CallbackPcs
<1>11. CallbackKnows(r0)'
    BY <1>0, <1>1, <1>3, <1>4, <1>6, OtherRequestsKeep DEF OnlyThread
<1> QED
    BY <1>0, <1>1, <1>2, <1>4, <1>5, <1>6, <1>7, <1>8, <1>9, <1>10, <1>11, OwnerMoves, Zenon

(* The recheck retires the record itself or goes on to mark the request.   *)
LEMMA RecheckStep ==
    ASSUME OwnershipInv, Recheck
    PROVE  OwnershipInv'
<1> USE ThreadFacts
<1>0. PICK r0 \in Requests : r0 = held["dispatch"]
    BY 
       DEF OwnershipInv, Recheck, Cancellation, CallbackKnows, Ownership, OwnerKnows,
           RegisterPcs
<1>1. /\ pc["dispatch"] = "recheck" /\ r0 \in Requests /\ wdf[r0] = "owned"
      /\ slot = r0 /\ handoff = "none" /\ record.state \in {"registering", "teardown"}
      /\ \A r \in Requests : pc[r] \notin CallbackPcs
    BY <1>0
       DEF OwnershipInv, Recheck, Cancellation, CallbackKnows, Ownership, OwnerKnows,
           RegisterPcs
<1>2. NoOtherOwner("dispatch") /\ NoOtherHolds("dispatch", r0)
    BY <1>0, <1>1, SoleOwner, SoleHolds DEF OwnerPcs, RegisterPcs, UnmarkPcs, RetirePcs
<1>3. \E l \in {"mark", "clear_slot"} : pc' = [pc EXCEPT !["dispatch"] = l]
    BY <1>1, <1>0 DEF OwnershipInv, OwnershipTypes, Recheck, Own, Goto
<1>4. UNCHANGED <<record, slot, handoff, wdf, completions, held, observed>>
    BY <1>0, <1>1 DEF OwnershipInv, OwnershipTypes, Recheck, Own, shared, requestState
<1>5. OwnershipTypes'
    BY <1>0, <1>1, <1>3, <1>4 DEF OwnershipInv, OwnershipTypes, Pc
<1>6. OnlyThread("dispatch") /\ OnlyRequest(r0)
    BY <1>0, <1>3, <1>4 DEF OwnershipInv, OwnershipTypes, OnlyThread, OnlyRequest
<1>7. /\ pc'["dispatch"] \in PcsOf("dispatch")
      /\ pc'["dispatch"] \in OwnerPcs => record'.state \notin {"free", "pending", "scheduled"}
    BY <1>0, <1>1, <1>3, <1>4
       DEF OwnershipInv, OwnershipTypes, PcsOf, OwnerPcs, RegisterPcs, UnmarkPcs,
           RetirePcs
<1>8. OwnerKnows("dispatch")'
    BY <1>0, <1>1, <1>3, <1>4
       DEF OwnershipInv, OwnershipTypes, OwnerKnows, Cancellable, CallbackPcs, OwnerPcs,
           RegisterPcs, UnmarkPcs, RetirePcs
<1>9. SingleHolder'
    BY <1>0, <1>1, <1>2, <1>3, <1>4, <1>5, <1>6, HolderMoves
       DEF OwnershipInv, OwnershipTypes, OwnerPcs, RegisterPcs, UnmarkPcs, RetirePcs
<1>10. Publication'
    BY <1>0, <1>1, <1>3, <1>4
       DEF OwnershipInv, OwnershipTypes, Publication, Cancellable, RegisterPcs,
           RetirePcs, CallbackPcs
<1>11. CallbackKnows(r0)'
    BY <1>0, <1>1, <1>3, <1>4, <1>6, OtherRequestsKeep DEF OnlyThread
<1> QED
    BY <1>0, <1>1, <1>2, <1>4, <1>5, <1>6, <1>7, <1>8, <1>9, <1>10, <1>11, OwnerMoves, Zenon

(* MarkCancelable either leaves the request unmarked and retires it, or    *)
(* makes it cancellable while the registration owns the record.            *)
LEMMA MarkStep ==
    ASSUME OwnershipInv, MarkCancelable
    PROVE  OwnershipInv'
<1> USE ThreadFacts
<1>0. PICK r0 \in Requests : r0 = held["dispatch"]
    BY 
       DEF OwnershipInv, MarkCancelable, Cancellation, CallbackKnows, Ownership,
           OwnerKnows, RegisterPcs
<1>1. /\ pc["dispatch"] = "mark" /\ r0 \in Requests /\ wdf[r0] = "owned"
      /\ slot = r0 /\ handoff = "none" /\ record.state \in {"registering", "teardown"}
      /\ \A r \in Requests : pc[r] \notin CallbackPcs
    BY <1>0
       DEF OwnershipInv, MarkCancelable, Cancellation, CallbackKnows, Ownership,
           OwnerKnows, RegisterPcs
<1>2. NoOtherOwner("dispatch") /\ NoOtherHolds("dispatch", r0)
    BY <1>0, <1>1, SoleOwner, SoleHolds DEF OwnerPcs, RegisterPcs, UnmarkPcs, RetirePcs
<1>3. \/ wdf' = wdf /\ pc' = [pc EXCEPT !["dispatch"] = "clear_slot"]
      \/ /\ wdf' = [wdf EXCEPT ![r0] = "marked"]
         /\ pc' = [pc EXCEPT !["dispatch"] = "publish"]
    BY <1>1, <1>0 DEF OwnershipInv, OwnershipTypes, MarkCancelable, Own, Goto
<1>4. UNCHANGED <<record, slot, handoff, completions, held, observed>>
    BY <1>0, <1>1 DEF OwnershipInv, OwnershipTypes, MarkCancelable, Own, shared
<1>5. OwnershipTypes'
    BY <1>0, <1>1, <1>3, <1>4 DEF OwnershipInv, OwnershipTypes, Pc
<1>6. OnlyThread("dispatch") /\ OnlyRequest(r0)
    BY <1>0, <1>3, <1>4 DEF OwnershipInv, OwnershipTypes, OnlyThread, OnlyRequest
<1>7. /\ pc'["dispatch"] \in PcsOf("dispatch")
      /\ pc'["dispatch"] \in OwnerPcs => record'.state \notin {"free", "pending", "scheduled"}
    BY <1>0, <1>1, <1>3, <1>4
       DEF OwnershipInv, OwnershipTypes, PcsOf, OwnerPcs, RegisterPcs, UnmarkPcs,
           RetirePcs
<1>8. OwnerKnows("dispatch")'
    BY <1>0, <1>1, <1>3, <1>4
       DEF OwnershipInv, OwnershipTypes, OwnerKnows, Cancellable, CallbackPcs, OwnerPcs,
           RegisterPcs, UnmarkPcs, RetirePcs
<1>9. SingleHolder'
    BY <1>0, <1>1, <1>2, <1>3, <1>4, <1>5, <1>6, HolderMoves
       DEF OwnershipInv, OwnershipTypes, OwnerPcs, RegisterPcs, UnmarkPcs, RetirePcs
<1>10. Publication'
    BY <1>0, <1>1, <1>3, <1>4
       DEF OwnershipInv, OwnershipTypes, Publication, Cancellable, RegisterPcs,
           RetirePcs, CallbackPcs
<1>11. CallbackKnows(r0)'
  <2>1. pc[r0] = "idle" /\ held[r0] = NoRequest
      BY <1>0, <1>1, <1>2
         DEF OwnershipInv, Cancellation, CallbackKnows, ControlOK, PcsOf, NoOtherHolds,
             CallbackPcs, RetirePcs
  <2> QED
      BY <1>0, <1>1, <1>2, <1>3, <1>4, <2>1
         DEF OwnershipInv, OwnershipTypes, Cancellation, CallbackKnows, NoOtherOwner,
             CallbackPcs, OwnerPcs, RetirePcs
<1> QED
    BY <1>0, <1>1, <1>2, <1>4, <1>5, <1>6, <1>7, <1>8, <1>9, <1>10, <1>11, OwnerMoves, Zenon

(* A registration that was not overtaken publishes the wait, or finds that *)
(* a teardown claimed it.                                                  *)
LEMMA PublishPendingStep ==
    ASSUME OwnershipInv, PublishPending, record.state # "cancelled"
    PROVE  OwnershipInv'
<1> USE ThreadFacts
<1>0. PICK r0 \in Requests : r0 = held["dispatch"]
    BY DEF OwnershipInv, PublishPending, Ownership, OwnerKnows
<1>1. /\ pc["dispatch"] = "publish" /\ slot = r0 /\ Cancellable(r0)
      /\ handoff # "cancel_arrived" /\ record.state \in {"registering", "teardown"}
    BY <1>0 DEF OwnershipInv, PublishPending, Ownership, OwnerKnows
<1>2. NoOtherOwner("dispatch") /\ NoOtherHolds("dispatch", r0)
    BY <1>0, <1>1, SoleOwner, SoleHolds DEF OwnerPcs, RegisterPcs, UnmarkPcs, RetirePcs
<1>3. \/ /\ record.state = "registering" /\ record' \in Records /\ record'.state = "pending"
         /\ pc' = [pc EXCEPT !["dispatch"] = "level_capture"]
         /\ held' = [held EXCEPT !["dispatch"] = NoRequest]
      \/ /\ record.state = "teardown" /\ record' = record /\ held' = held
         /\ pc' = [pc EXCEPT !["dispatch"] = "resolve_teardown"]
    BY <1>1, <1>0
       DEF OwnershipInv, OwnershipTypes, PublishPending, Goto, Transition, Records,
           States, locals
<1>4. UNCHANGED <<slot, handoff, wdf, completions, observed>>
    BY <1>0, <1>1
       DEF OwnershipInv, OwnershipTypes, PublishPending, Own, requestState, locals
<1>5. OwnershipTypes'
    BY <1>0, <1>1, <1>3, <1>4 DEF OwnershipInv, OwnershipTypes, Pc
<1>6. OnlyThread("dispatch") /\ OnlyRequest(r0)
    BY <1>0, <1>3, <1>4 DEF OwnershipInv, OwnershipTypes, OnlyThread, OnlyRequest
<1>7. /\ pc'["dispatch"] \in PcsOf("dispatch")
      /\ pc'["dispatch"] \in OwnerPcs => record'.state \notin {"free", "pending", "scheduled"}
    BY <1>0, <1>1, <1>3, <1>4
       DEF OwnershipInv, OwnershipTypes, PcsOf, OwnerPcs, RegisterPcs, UnmarkPcs,
           RetirePcs
<1>8. OwnerKnows("dispatch")'
    BY <1>0, <1>1, <1>3, <1>4
       DEF OwnershipInv, OwnershipTypes, OwnerKnows, Cancellable, CallbackPcs, OwnerPcs,
           RegisterPcs, UnmarkPcs, RetirePcs
<1>9. SingleHolder'
    BY <1>0, <1>1, <1>2, <1>3, <1>4, <1>5, <1>6, HolderMoves
       DEF OwnershipInv, OwnershipTypes, OwnerPcs, RegisterPcs, UnmarkPcs, RetirePcs
<1>10. Publication'
    BY <1>0, <1>1, <1>3, <1>4
       DEF OwnershipInv, OwnershipTypes, Publication, Cancellable, RegisterPcs,
           RetirePcs, CallbackPcs
<1>11. CallbackKnows(r0)'
    BY <1>0, <1>1, <1>2, <1>3, <1>4
       DEF OwnershipInv, OwnershipTypes, Cancellation, CallbackKnows, NoOtherOwner,
           CallbackPcs, OwnerPcs, RegisterPcs, UnmarkPcs, RetirePcs
<1> QED
    BY <1>0, <1>1, <1>2, <1>4, <1>5, <1>6, <1>7, <1>8, <1>9, <1>10, <1>11, OwnerMoves, Zenon

(* The cancellation callback took the request: the registration completes  *)
(* nothing and only retires the record.                                    *)
LEMMA CancelledBeforePublication ==
    ASSUME OwnershipInv, PublishPending \/ ResolveTeardown, record.state = "cancelled"
    PROVE  OwnershipInv'
<1> USE ThreadFacts
<1>0. PICK r0 \in Requests : r0 = held["dispatch"]
    BY Zenon DEF OwnershipInv, PublishPending, ResolveTeardown, Ownership, OwnerKnows
<1>1. /\ pc["dispatch"] \in {"publish", "resolve_teardown"} /\ slot = r0
      /\ \A r \in Requests : pc[r] \notin CallbackPcs /\ wdf[r] # "marked"
    BY <1>0, Zenon
       DEF OwnershipInv, PublishPending, ResolveTeardown, Ownership, OwnerKnows,
           Cancellation, CallbackKnows
<1>2. NoOtherOwner("dispatch")
    BY <1>0, <1>1, SoleOwner DEF OwnerPcs, RegisterPcs, UnmarkPcs, RetirePcs
<1>3. /\ pc' = [pc EXCEPT !["dispatch"] = "clear_slot"]
      /\ held' = [held EXCEPT !["dispatch"] = NoRequest]
    BY <1>1, <1>0
       DEF OwnershipInv, OwnershipTypes, PublishPending, ResolveTeardown, Goto, Own
<1>4. UNCHANGED <<record, slot, handoff, wdf, completions, observed>>
    BY <1>0, <1>1
       DEF OwnershipInv, OwnershipTypes, PublishPending, ResolveTeardown, Own,
           requestState
<1>5. OwnershipTypes'
    BY <1>0, <1>1, <1>3, <1>4 DEF OwnershipInv, OwnershipTypes, Pc
<1>6. OnlyThread("dispatch") /\ OnlyRequest(r0)
    BY <1>0, <1>3, <1>4 DEF OwnershipInv, OwnershipTypes, OnlyThread, OnlyRequest
<1>7. /\ pc'["dispatch"] \in PcsOf("dispatch")
      /\ pc'["dispatch"] \in OwnerPcs => record'.state \notin {"free", "pending", "scheduled"}
    BY <1>0, <1>1, <1>3, <1>4
       DEF OwnershipInv, OwnershipTypes, PcsOf, OwnerPcs, RegisterPcs, UnmarkPcs,
           RetirePcs
<1>8. OwnerKnows("dispatch")'
    BY <1>0, <1>1, <1>3, <1>4
       DEF OwnershipInv, OwnershipTypes, OwnerKnows, Cancellable, CallbackPcs, OwnerPcs,
           RegisterPcs, UnmarkPcs, RetirePcs
<1>9. SingleHolder'
    BY <1>0, <1>1, <1>2, <1>3, <1>4
       DEF OwnershipInv, OwnershipTypes, SingleHolder, NoOtherOwner, OwnerPcs,
           RegisterPcs, UnmarkPcs, RetirePcs
<1>10. Publication'
    BY <1>0, <1>1, <1>3, <1>4
       DEF OwnershipInv, OwnershipTypes, Publication, Cancellable, RegisterPcs,
           RetirePcs, CallbackPcs
<1>11. CallbackKnows(r0)'
    BY <1>0, <1>1, <1>2, <1>3, <1>4
       DEF OwnershipInv, OwnershipTypes, Cancellation, CallbackKnows, NoOtherOwner,
           CallbackPcs, OwnerPcs, RegisterPcs, UnmarkPcs, RetirePcs
<1> QED
    BY <1>0, <1>1, <1>2, <1>4, <1>5, <1>6, <1>7, <1>8, <1>9, <1>10, <1>11, OwnerMoves, Zenon

(* The registration does the unmark handshake for the teardown.            *)
LEMMA ResolveTeardownStep ==
    ASSUME OwnershipInv, ResolveTeardown, record.state # "cancelled"
    PROVE  OwnershipInv'
<1> USE ThreadFacts
<1>0. PICK r0 \in Requests : r0 = held["dispatch"]
    BY Zenon DEF OwnershipInv, ResolveTeardown, Ownership, OwnerKnows
<1>1. /\ pc["dispatch"] = "resolve_teardown" /\ slot = r0 /\ Cancellable(r0)
      /\ handoff # "cancel_arrived" /\ record.state = "teardown"
    BY <1>0 DEF OwnershipInv, ResolveTeardown, Ownership, OwnerKnows
<1>2. NoOtherOwner("dispatch") /\ NoOtherHolds("dispatch", r0)
    BY <1>0, <1>1, SoleOwner, SoleHolds DEF OwnerPcs, RegisterPcs, UnmarkPcs, RetirePcs
<1>3. /\ record' \in Records /\ record'.state = "unmarking"
      /\ pc' = [pc EXCEPT !["dispatch"] = "unmark"]
    BY <1>1, <1>0, Zenon
       DEF OwnershipInv, OwnershipTypes, ResolveTeardown, Own, Goto, Transition, Records,
           States
<1>4. UNCHANGED <<slot, handoff, wdf, completions, held, observed>>
    BY <1>0, <1>1 DEF OwnershipInv, OwnershipTypes, ResolveTeardown, Own, requestState
<1>5. OwnershipTypes'
    BY <1>0, <1>1, <1>3, <1>4 DEF OwnershipInv, OwnershipTypes, Pc
<1>6. OnlyThread("dispatch") /\ OnlyRequest(r0)
    BY <1>0, <1>3, <1>4 DEF OwnershipInv, OwnershipTypes, OnlyThread, OnlyRequest
<1>7. /\ pc'["dispatch"] \in PcsOf("dispatch")
      /\ pc'["dispatch"] \in OwnerPcs => record'.state \notin {"free", "pending", "scheduled"}
    BY <1>0, <1>1, <1>3, <1>4
       DEF OwnershipInv, OwnershipTypes, PcsOf, OwnerPcs, RegisterPcs, UnmarkPcs,
           RetirePcs
<1>8. OwnerKnows("dispatch")'
    BY <1>0, <1>1, <1>3, <1>4
       DEF OwnershipInv, OwnershipTypes, OwnerKnows, Cancellable, CallbackPcs, OwnerPcs,
           RegisterPcs, UnmarkPcs, RetirePcs
<1>9. SingleHolder'
    BY <1>0, <1>1, <1>2, <1>3, <1>4, <1>5, <1>6, HolderMoves
       DEF OwnershipInv, OwnershipTypes, OwnerPcs, RegisterPcs, UnmarkPcs, RetirePcs
<1>10. Publication'
    BY <1>0, <1>1, <1>3, <1>4
       DEF OwnershipInv, OwnershipTypes, Publication, Cancellable, RegisterPcs,
           RetirePcs, CallbackPcs
<1>11. CallbackKnows(r0)'
    BY <1>0, <1>1, <1>2, <1>3, <1>4
       DEF OwnershipInv, OwnershipTypes, Cancellation, CallbackKnows, NoOtherOwner,
           CallbackPcs, OwnerPcs, RegisterPcs, UnmarkPcs, RetirePcs
<1> QED
    BY <1>0, <1>1, <1>2, <1>4, <1>5, <1>6, <1>7, <1>8, <1>9, <1>10, <1>11, OwnerMoves, Zenon

-----------------------------------------------------------------------------
(* take_scheduled_wait makes the worker the owner.                         *)
LEMMA TakeScheduledStep ==
    ASSUME OwnershipInv, TakeScheduledWait, record.state = "scheduled"
    PROVE  OwnershipInv'
<1> USE ThreadFacts
<1>0. PICK r0 \in Requests : r0 = slot
    BY DEF OwnershipInv, TakeScheduledWait, Publication, Ownership, OwnerKnows, OwnerPcs,
           RegisterPcs, UnmarkPcs, RetirePcs
<1>1. /\ pc["worker"] = "take" /\ held["worker"] = NoRequest /\ slot = r0
      /\ Cancellable(r0) /\ handoff # "cancel_arrived"
    BY <1>0
       DEF OwnershipInv, TakeScheduledWait, Publication, Ownership, OwnerKnows, OwnerPcs,
           RegisterPcs, UnmarkPcs, RetirePcs
<1>2. NoOtherOwner("worker") /\ NoOtherHolds("worker", r0)
    BY <1>0, <1>1, SoleOwner, SoleHolds DEF OwnerPcs, RegisterPcs, UnmarkPcs, RetirePcs
<1>3. /\ record' \in Records /\ record'.state = "unmarking"
      /\ pc' = [pc EXCEPT !["worker"] = "take_slot"]
    BY <1>1, <1>0
       DEF OwnershipInv, OwnershipTypes, TakeScheduledWait, Goto, Transition, Records,
           States
<1>4. UNCHANGED <<slot, handoff, wdf, completions, held, observed>>
    BY <1>0, <1>1 DEF OwnershipInv, OwnershipTypes, TakeScheduledWait, requestState
<1>5. OwnershipTypes'
    BY <1>0, <1>1, <1>3, <1>4 DEF OwnershipInv, OwnershipTypes, Pc
<1>6. OnlyThread("worker") /\ OnlyRequest(r0)
    BY <1>0, <1>3, <1>4 DEF OwnershipInv, OwnershipTypes, OnlyThread, OnlyRequest
<1>7. /\ pc'["worker"] \in PcsOf("worker")
      /\ pc'["worker"] \in OwnerPcs => record'.state \notin {"free", "pending", "scheduled"}
    BY <1>0, <1>1, <1>3, <1>4
       DEF OwnershipInv, OwnershipTypes, PcsOf, OwnerPcs, RegisterPcs, UnmarkPcs,
           RetirePcs
<1>8. OwnerKnows("worker")'
    BY <1>0, <1>1, <1>3, <1>4
       DEF OwnershipInv, OwnershipTypes, OwnerKnows, Cancellable, CallbackPcs, OwnerPcs,
           RegisterPcs, UnmarkPcs, RetirePcs
<1>9. SingleHolder'
    BY <1>0, <1>1, <1>2, <1>3, <1>4, <1>5, <1>6, HolderMoves
       DEF OwnershipInv, OwnershipTypes, OwnerPcs, RegisterPcs, UnmarkPcs, RetirePcs
<1>10. Publication'
    BY <1>0, <1>1, <1>3, <1>4
       DEF OwnershipInv, OwnershipTypes, Publication, Cancellable, RegisterPcs,
           RetirePcs, CallbackPcs
<1>11. CallbackKnows(r0)'
    BY <1>0, <1>1, <1>2, <1>3, <1>4
       DEF OwnershipInv, OwnershipTypes, Cancellation, CallbackKnows, NoOtherOwner,
           CallbackPcs, OwnerPcs, RegisterPcs, UnmarkPcs, RetirePcs
<1> QED
    BY <1>0, <1>1, <1>2, <1>4, <1>5, <1>6, <1>7, <1>8, <1>9, <1>10, <1>11, OwnerMoves, Zenon

(* The worker reads the slot of the record it owns.                        *)
LEMMA TakeSlotStep ==
    ASSUME OwnershipInv, TakeSlot
    PROVE  OwnershipInv'
<1> USE ThreadFacts
<1>0. PICK r0 \in Requests : r0 = slot
    BY DEF OwnershipInv, TakeSlot, UnmarkPcs, Ownership, OwnerKnows
<1>1. /\ pc["worker"] = "take_slot" /\ slot = r0 /\ Cancellable(r0)
      /\ record.state = "unmarking"
    BY <1>0 DEF OwnershipInv, TakeSlot, UnmarkPcs, Ownership, OwnerKnows
<1>2. NoOtherOwner("worker") /\ NoOtherHolds("worker", r0)
    BY <1>0, <1>1, SoleOwner, SoleHolds DEF OwnerPcs, RegisterPcs, UnmarkPcs, RetirePcs
<1>3. /\ pc' = [pc EXCEPT !["worker"] = "ready_capture"]
      /\ held' = [held EXCEPT !["worker"] = r0]
    BY <1>1, <1>0, Zenon DEF OwnershipInv, OwnershipTypes, TakeSlot, Goto
<1>4. UNCHANGED <<record, slot, handoff, wdf, completions, observed>>
    BY <1>0, <1>1 DEF OwnershipInv, OwnershipTypes, TakeSlot, shared, requestState
<1>5. OwnershipTypes'
    BY <1>0, <1>1, <1>3, <1>4 DEF OwnershipInv, OwnershipTypes, Pc
<1>6. OnlyThread("worker") /\ OnlyRequest(r0)
    BY <1>0, <1>3, <1>4 DEF OwnershipInv, OwnershipTypes, OnlyThread, OnlyRequest
<1>7. /\ pc'["worker"] \in PcsOf("worker")
      /\ pc'["worker"] \in OwnerPcs => record'.state \notin {"free", "pending", "scheduled"}
    BY <1>0, <1>1, <1>3, <1>4
       DEF OwnershipInv, OwnershipTypes, PcsOf, OwnerPcs, RegisterPcs, UnmarkPcs,
           RetirePcs
<1>8. OwnerKnows("worker")'
    BY <1>0, <1>1, <1>3, <1>4
       DEF OwnershipInv, OwnershipTypes, OwnerKnows, Cancellable, CallbackPcs, OwnerPcs,
           RegisterPcs, UnmarkPcs, RetirePcs
<1>9. SingleHolder'
    BY <1>0, <1>1, <1>2, <1>3, <1>4, <1>5, <1>6, HolderMoves, Zenon
       DEF OwnershipInv, OwnershipTypes, OwnerPcs, RegisterPcs, UnmarkPcs, RetirePcs
<1>10. Publication'
    BY <1>0, <1>1, <1>3, <1>4
       DEF OwnershipInv, OwnershipTypes, Publication, Cancellable, RegisterPcs,
           RetirePcs, CallbackPcs
<1>11. CallbackKnows(r0)'
    BY <1>0, <1>1, <1>2, <1>3, <1>4
       DEF OwnershipInv, OwnershipTypes, Cancellation, CallbackKnows, NoOtherOwner,
           CallbackPcs, OwnerPcs, RegisterPcs, UnmarkPcs, RetirePcs
<1> QED
    BY <1>0, <1>1, <1>2, <1>4, <1>5, <1>6, <1>7, <1>8, <1>9, <1>10, <1>11, OwnerMoves, Zenon

(* The worker refreshes the readiness and decides the status.              *)
LEMMA WorkerReadyStep ==
    ASSUME OwnershipInv, RefreshCapture \/ RefreshInjection \/ DecideStatus
    PROVE  OwnershipInv'
<1> USE ThreadFacts
<1>0. PICK r0 \in Requests : r0 = slot
    BY DEF OwnershipInv, RefreshCapture, RefreshInjection, DecideStatus, UnmarkPcs,
           Ownership, OwnerKnows
<1>1. /\ pc["worker"] \in {"ready_capture", "ready_injection", "decide"} /\ slot = r0
      /\ held["worker"] = r0 /\ Cancellable(r0) /\ record.state = "unmarking"
    BY <1>0
       DEF OwnershipInv, RefreshCapture, RefreshInjection, DecideStatus, UnmarkPcs,
           Ownership, OwnerKnows
<1>2. NoOtherOwner("worker") /\ NoOtherHolds("worker", r0)
    BY <1>0, <1>1, SoleOwner, SoleHolds DEF OwnerPcs, RegisterPcs, UnmarkPcs, RetirePcs
<1>3. \E l \in {"ready_injection", "decide", "unmark"} : pc' = [pc EXCEPT !["worker"] = l]
    BY <1>1, <1>0
       DEF OwnershipInv, OwnershipTypes, RefreshCapture, RefreshInjection, DecideStatus,
           Goto
<1>4. UNCHANGED <<record, slot, handoff, wdf, completions, held, observed>>
    BY <1>0, <1>1
       DEF OwnershipInv, OwnershipTypes, RefreshCapture, RefreshInjection, DecideStatus,
           shared, requestState
<1>5. OwnershipTypes'
    BY <1>0, <1>1, <1>3, <1>4 DEF OwnershipInv, OwnershipTypes, Pc
<1>6. OnlyThread("worker") /\ OnlyRequest(r0)
    BY <1>0, <1>3, <1>4 DEF OwnershipInv, OwnershipTypes, OnlyThread, OnlyRequest
<1>7. /\ pc'["worker"] \in PcsOf("worker")
      /\ pc'["worker"] \in OwnerPcs => record'.state \notin {"free", "pending", "scheduled"}
    BY <1>0, <1>1, <1>3, <1>4
       DEF OwnershipInv, OwnershipTypes, PcsOf, OwnerPcs, RegisterPcs, UnmarkPcs,
           RetirePcs
<1>8. OwnerKnows("worker")'
    BY <1>0, <1>1, <1>3, <1>4
       DEF OwnershipInv, OwnershipTypes, OwnerKnows, Cancellable, CallbackPcs, OwnerPcs,
           RegisterPcs, UnmarkPcs, RetirePcs
<1>9. SingleHolder'
    BY <1>0, <1>1, <1>2, <1>3, <1>4, <1>5, <1>6, HolderMoves
       DEF OwnershipInv, OwnershipTypes, OwnerPcs, RegisterPcs, UnmarkPcs, RetirePcs
<1>10. Publication'
    BY <1>0, <1>1, <1>3, <1>4
       DEF OwnershipInv, OwnershipTypes, Publication, Cancellable, RegisterPcs,
           RetirePcs, CallbackPcs
<1>11. CallbackKnows(r0)'
    BY <1>0, <1>1, <1>2, <1>3, <1>4
       DEF OwnershipInv, OwnershipTypes, Cancellation, CallbackKnows, NoOtherOwner,
           CallbackPcs, OwnerPcs, RegisterPcs, UnmarkPcs, RetirePcs
<1> QED
    BY <1>0, <1>1, <1>2, <1>4, <1>5, <1>6, <1>7, <1>8, <1>9, <1>10, <1>11, OwnerMoves, Zenon

-----------------------------------------------------------------------------
(* A thread's step keeps InterestInv when the published input stays what   *)
(* it was, and the thread itself knows what it needs.                      *)
LEMMA InterestFrame ==
    ASSUME InterestInv, NEW t0 \in Threads, OnlyMoves(t0), InterestKnows(t0)',
           UNCHANGED <<interest, asked>>,
           slot' = slot \/ slot' = NoRequest \/ t0 = "dispatch",
           record'.state \in {"pending", "scheduled", "unmarking"} /\ slot' # NoRequest =>
               interest' = asked'[slot']
    PROVE  InterestInv'
<1>1. ASSUME NEW t \in Threads \ {t0} PROVE InterestKnows(t)'
  <2>1. /\ pc'[t] = pc[t] /\ held'[t] = held[t] /\ expected'[t] = expected[t]
        /\ bits'[t] = bits[t] /\ status'[t] = status[t] /\ InterestKnows(t)
      BY DEF OnlyMoves, InterestInv
  <2> QED
      BY <2>1 DEF InterestKnows
<1> QED
    BY <1>1 DEF InterestInv

(* The common case: the slot is untouched, and the record is as published  *)
(* as it was.                                                              *)
LEMMA InterestKept ==
    ASSUME InterestInv, NEW t0 \in Threads, OnlyMoves(t0), InterestKnows(t0)',
           UNCHANGED <<interest, asked, slot>>,
           \/ record' = record
           \/ record.state \in {"pending", "scheduled", "unmarking"}
           \/ record'.state \notin {"pending", "scheduled", "unmarking"}
    PROVE  InterestInv'
BY InterestFrame DEF InterestInv

(* A thread that carries no request and no success knows all it needs.     *)
LEMMA KnowsNothing ==
    ASSUME NEW t0 \in Threads, status'[t0] # "success",
           pc'[t0] \notin {"recheck", "mark", "publish", "resolve_teardown", "take_slot",
                           "ready_capture", "ready_injection", "decide"},
           t0 = "dispatch" => pc'[t0] \notin {"level_capture", "level_injection"} \cup ClaimPcs,
           t0 \in {"tx", "rx", "read"} => expected'[t0] = NoRequest
    PROVE  InterestKnows(t0)'
BY DEF InterestKnows

(* A thread that leaves the protocol, or takes over a cancelled or failed  *)
(* request, claims nothing about readiness.                                *)
LEMMA InterestLeaves ==
    ASSUME TypeOK, InterestInv, NEW t0 \in Threads, UNCHANGED <<interest, asked, slot>>,
           \/ Leave(t0)
           \/ \E r, l : \E c \in {"none", "cancelled", "failed"} :
                 /\ Own(t0, r, c, l)
                 /\ l \notin {"recheck", "mark", "publish", "resolve_teardown", "take_slot",
                              "ready_capture", "ready_injection", "decide"}
                 /\ t0 = "dispatch" =>
                      l \notin {"level_capture", "level_injection"} \cup ClaimPcs,
           \/ record' = record
           \/ record.state \in {"pending", "scheduled", "unmarking"}
           \/ record'.state \notin {"pending", "scheduled", "unmarking"}
    PROVE  InterestInv'
<1>1. t0 \in {"tx", "rx", "read"} => expected[t0] = NoRequest
    BY DEF InterestInv, InterestKnows
<1>2. OnlyMoves(t0) /\ InterestKnows(t0)'
  <2>1. CASE Leave(t0)
    <3>1. Return(t0) \in {"flush", "take", "idle"}
        BY DEF Return
    <3> QED
        BY <2>1, <3>1, LeaveMoves, KnowsNothing DEF ClaimPcs
  <2>2. CASE ~Leave(t0)
      BY <1>1, <2>2, OwnMoves, KnowsNothing
  <2> QED
      BY <2>1, <2>2, Zenon
<1> QED
    BY <1>2, InterestKept

(* A thread that moves on outside registration and completion.             *)
LEMMA InterestGoes ==
    ASSUME TypeOK, InterestInv, NEW t0 \in Threads, NEW l, Goto(t0, l), OnlyMoves(t0),
           UNCHANGED <<interest, asked, slot, status>>,
           pc[t0] \notin {"unmark", "clear_slot", "free", "complete"},
           l \notin {"recheck", "mark", "publish", "resolve_teardown", "take_slot",
                     "ready_capture", "ready_injection", "decide"},
           t0 = "dispatch" => l \notin {"level_capture", "level_injection"} \cup ClaimPcs,
           t0 \in {"tx", "rx", "read"} => expected'[t0] = expected[t0],
           \/ record' = record
           \/ record.state \in {"pending", "scheduled", "unmarking"}
           \/ record'.state \notin {"pending", "scheduled", "unmarking"}
    PROVE  InterestInv'
<1>1. pc'[t0] = l
    BY DEF Goto, TypeOK
<1>2. status'[t0] # "success" /\ (t0 \in {"tx", "rx", "read"} => expected'[t0] = NoRequest)
    BY DEF InterestInv, InterestKnows
<1> QED
    BY <1>1, <1>2, KnowsNothing, InterestKept, Zenon

(* handle_wait_for_change up to the publication of the wait.               *)
LEMMA RegistrationInterest ==
    ASSUME TypeOK, OwnershipInv, InterestInv, Registration
    PROVE  InterestInv'
<1> USE ThreadFacts
<1> DEFINE r == held["dispatch"]
<1>1. OnlyMoves("dispatch")
    BY StepMoves DEF Step
<1>2. InterestKnows("dispatch") /\ OwnerKnows("dispatch")
    BY DEF InterestInv, OwnershipInv, Ownership
<1>3. ASSUME Precheck \/ BeginWaitRecord PROVE InterestInv'
  <2>1. /\ UNCHANGED <<interest, asked, slot>>
        /\ record' = record \/ record'.state = "registering"
      BY <1>3 DEF Precheck, BeginWaitRecord, shared, requestState
  <2>2. \E l \in {"begin", "complete", "publish_slot"} :
           \E c \in {"none", "failed"} : Own("dispatch", r, c, l)
      BY <1>3 DEF Precheck, BeginWaitRecord
  <2> QED
      BY <2>1, <2>2, InterestLeaves DEF ClaimPcs
<1>4. ASSUME PublishSlot PROVE InterestInv'
  <2>1. record.state \in {"registering", "teardown"} /\ UNCHANGED <<record, interest, asked>>
      BY <1>2, <1>4 DEF PublishSlot, OwnerKnows, RegisterPcs, requestState
  <2>2. /\ pc'["dispatch"] \in {"publish_interest", "clear_slot"}
        /\ status'["dispatch"] \in {"none", "failed"}
      BY <1>4, OwnMoves DEF PublishSlot
  <2>3. InterestKnows("dispatch")'
      BY <2>2, KnowsNothing DEF ClaimPcs
  <2> QED
      BY <1>1, <2>1, <2>3, InterestFrame
<1>5. ASSUME PublishInterest PROVE InterestInv'
  <2>1. /\ pc["dispatch"] = "publish_interest" /\ UNCHANGED <<record, slot, asked, locals>>
        /\ interest' = asked[r] /\ pc'["dispatch"] = "recheck"
      BY <1>5, GotoMoves DEF PublishInterest, requestState
  <2>2. record.state \in {"registering", "teardown"}
      BY <1>2, <2>1 DEF OwnerKnows, RegisterPcs
  <2>3. InterestKnows("dispatch")'
      BY <1>2, <2>1 DEF InterestKnows, locals, ClaimPcs
  <2>4. ASSUME NEW t \in Threads \ {"dispatch"} PROVE InterestKnows(t)'
    <3>1. pc[t] \notin OwnerPcs
        BY <2>1 DEF OwnershipInv, ExclusiveOwner, OwnerPcs, RegisterPcs
    <3>2. /\ pc'[t] = pc[t] /\ held'[t] = held[t] /\ expected'[t] = expected[t]
          /\ bits'[t] = bits[t] /\ status'[t] = status[t] /\ InterestKnows(t)
        BY <1>1 DEF OnlyMoves, InterestInv
    <3> QED
        BY <2>1, <3>1, <3>2 DEF InterestKnows, OwnerPcs, RegisterPcs, UnmarkPcs
  <2> QED
      BY <2>1, <2>2, <2>3, <2>4 DEF InterestInv
<1>6. ASSUME NEW l \in {"mark", "publish"}, Own("dispatch", r, "none", l),
             UNCHANGED <<shared, asked>>, pc["dispatch"] \in {"recheck", "mark"}
      PROVE  InterestInv'
  <2>1. InterestKnows("dispatch")'
      BY <1>2, <1>6, OwnMoves DEF InterestKnows, shared, ClaimPcs
  <2> QED
      BY <1>1, <1>6, <2>1, InterestKept DEF shared
<1>7. ASSUME NEW c \in {"cancelled", "failed"}, Own("dispatch", r, c, "clear_slot"),
             UNCHANGED <<shared, asked>>
      PROVE  InterestInv'
    BY <1>7, InterestLeaves DEF shared, ClaimPcs
<1>8. ASSUME Recheck PROVE InterestInv'
    BY <1>6, <1>7, <1>8 DEF Recheck, requestState
<1>9. ASSUME MarkCancelable PROVE InterestInv'
    BY <1>6, <1>7, <1>9 DEF MarkCancelable
<1>10. ASSUME PublishPending, record.state = "registering" PROVE InterestInv'
  <2>1. /\ pc["dispatch"] = "publish" /\ UNCHANGED <<interest, slot, asked, status>>
        /\ pc' = [pc EXCEPT !["dispatch"] = "level_capture"]
        /\ expected' = [expected EXCEPT !["dispatch"] = r]
      BY <1>10 DEF PublishPending, requestState, Goto
  <2>2. slot = r /\ r \in Requests /\ interest = asked[r]
      BY <1>2, <2>1 DEF OwnerKnows, InterestKnows
  <2>3. pc'["dispatch"] = "level_capture" /\ expected'["dispatch"] = r
      BY <2>1 DEF TypeOK
  <2>4. InterestKnows("dispatch")'
      BY <1>2, <2>1, <2>2, <2>3 DEF InterestKnows, ClaimPcs
  <2> QED
      BY <1>1, <2>1, <2>2, <2>4, InterestFrame
<1>11. ASSUME PublishPending, record.state # "registering" PROVE InterestInv'
  <2>1. pc["dispatch"] = "publish" /\ UNCHANGED <<record, interest, slot, asked>>
      BY <1>11 DEF PublishPending, requestState
  <2>2. CASE Goto("dispatch", "resolve_teardown") /\ UNCHANGED locals
    <3>1. /\ pc'["dispatch"] = "resolve_teardown"
          /\ UNCHANGED <<held, expected, bits, status>>
        BY <2>2, GotoMoves DEF locals
    <3>2. InterestKnows("dispatch")'
        BY <1>2, <2>1, <3>1 DEF InterestKnows, ClaimPcs
    <3> QED
        BY <1>1, <2>1, <3>2, InterestKept
  <2>3. CASE Own("dispatch", NoRequest, "none", "clear_slot")
      BY <2>1, <2>3, InterestLeaves DEF ClaimPcs
  <2> QED
      BY <1>11, <2>2, <2>3 DEF PublishPending
<1>12. ASSUME ResolveTeardown PROVE InterestInv'
  <2>1. /\ pc["dispatch"] = "resolve_teardown" /\ UNCHANGED <<interest, slot, asked>>
        /\ slot = r /\ interest = asked[r]
      BY <1>2, <1>12 DEF ResolveTeardown, requestState, OwnerKnows, InterestKnows
  <2>2. /\ pc'["dispatch"] \in {"unmark", "clear_slot"}
        /\ status'["dispatch"] \in {"cancelled", "none"}
      BY <1>12, OwnMoves DEF ResolveTeardown
  <2>3. InterestKnows("dispatch")'
      BY <2>2, KnowsNothing DEF ClaimPcs
  <2> QED
      BY <1>1, <2>1, <2>3, InterestFrame
<1>13. ASSUME LevelCapture \/ LevelInjection PROVE InterestInv'
  <2>1. UNCHANGED <<record, interest, slot, asked>>
      BY <1>13 DEF LevelCapture, LevelInjection, shared, requestState
  <2>2. CASE Leave("dispatch")
      BY <2>1, <2>2, InterestLeaves
  <2>3. CASE ~Leave("dispatch")
    <3>1. /\ UNCHANGED <<expected, status, held>>
          /\ pc["dispatch"] \in {"level_capture", "level_injection"}
          /\ pc' = [pc EXCEPT !["dispatch"] = "level_injection"]
                \/ pc' = [pc EXCEPT !["dispatch"] = "claim"]
        BY <1>13, <2>3 DEF LevelCapture, LevelInjection, Goto
    <3>2. pc'["dispatch"] \in {"level_injection", "claim"}
        BY <3>1 DEF TypeOK
    <3>3. InterestKnows("dispatch")'
        BY <1>2, <2>1, <3>1, <3>2 DEF InterestKnows, ClaimPcs
    <3> QED
        BY <1>1, <2>1, <3>3, InterestKept
  <2> QED
      BY <2>2, <2>3, Zenon
<1> QED
    BY <1>3, <1>4, <1>5, <1>8, <1>9, <1>10, <1>11, <1>12, <1>13 DEF Registration

(* claim_wait_for_passive_completion changes no request and no interest.   *)
LEMMA ClaimInterest ==
    ASSUME TypeOK, OwnershipInv, MaskInv, InterestInv, NEW t0 \in Claimants, Claim(t0)
    PROVE  InterestInv'
<1> USE ThreadFacts
<1>1. t0 \in Threads /\ OnlyMoves(t0)
    BY StepMoves DEF Claimants, Step
<1>2. InterestKnows(t0) /\ ClaimantKnows(t0)
    BY <1>1 DEF InterestInv, MaskInv
<1>3. /\ UNCHANGED <<interest, slot, asked>>
      /\ record' = record \/ record.state \in {"pending", "scheduled"}
      /\ pc[t0] \in ClaimPcs
    BY <1>2 DEF Claim, ClaimEnter, ClaimLoad, ClaimInspect, ClaimCas, ClaimSchedule, shared,
                requestState, ClaimPcs, ClaimantKnows
<1>4. CASE Leave(t0)
    BY <1>1, <1>3, <1>4, InterestLeaves
<1>5. CASE ~Leave(t0)
  <2>1. /\ UNCHANGED <<expected, status, held>>
        /\ \E l \in ClaimPcs : Goto(t0, l)
      BY <1>5 DEF Claim, ClaimEnter, ClaimLoad, ClaimInspect, ClaimCas, ClaimSchedule, locals,
                  ClaimPcs
  <2>2. pc'[t0] \in ClaimPcs
      BY <1>1, <2>1 DEF TypeOK, Goto
  <2>3. InterestKnows(t0)'
      BY <1>2, <1>3, <2>1, <2>2 DEF InterestKnows, ClaimPcs
  <2> QED
      BY <1>1, <1>3, <2>3, InterestKept
<1> QED
    BY <1>4, <1>5, Zenon

(* The work item: the mask it takes was nonempty and within the interest   *)
(* of the published request, and each refresh adds only asked-for bits.    *)
LEMMA WorkItemInterest ==
    ASSUME TypeOK, OwnershipInv, MaskInv, InterestInv, WorkItem
    PROVE  InterestInv'
<1> USE ThreadFacts
<1>1. OnlyMoves("worker")
    BY StepMoves DEF Step
<1>2. InterestKnows("worker") /\ OwnerKnows("worker")
    BY DEF InterestInv, OwnershipInv, Ownership
<1>3. pc \in [Threads -> Pc] /\ bits \in [Threads -> SUBSET Bits] /\ held \in [Threads -> Requests \cup {NoRequest}]
    BY DEF TypeOK
<1>4. UNCHANGED <<interest, slot, asked, expected>>
    BY DEF WorkItem, WorkerStart, TakeScheduledWait, TakeSlot, RefreshCapture,
           RefreshInjection, DecideStatus, shared, requestState, locals
<1>5. ASSUME pc["worker"] \in UnmarkPcs PROVE slot \in Requests /\ interest = asked[slot]
    BY <1>2, <1>5 DEF OwnerKnows, InterestInv
<1>6. ASSUME WorkerStart PROVE InterestInv'
    BY <1>1, <1>4, <1>6, InterestGoes DEF WorkerStart, locals, shared
<1>7. ASSUME TakeScheduledWait, record.state = "scheduled" PROVE InterestInv'
  <2>1. /\ pc["worker"] = "take" /\ UNCHANGED status
        /\ pc' = [pc EXCEPT !["worker"] = "take_slot"]
        /\ bits' = [bits EXCEPT !["worker"] = record.satisfied]
      BY <1>7 DEF TakeScheduledWait, Goto
  <2>2. pc'["worker"] = "take_slot" /\ bits'["worker"] = record.satisfied
      BY <1>3, <2>1
  <2>3. record.satisfied # {} /\ record.satisfied \subseteq interest
      BY <1>7 DEF MaskInv, ScheduledMaskIsCurrent
  <2>4. InterestKnows("worker")'
      BY <1>2, <1>4, <2>1, <2>2, <2>3 DEF InterestKnows
  <2> QED
      BY <1>1, <1>4, <1>7, <2>4, InterestKept
<1>8. ASSUME TakeScheduledWait, record.state # "scheduled" PROVE InterestInv'
    BY <1>1, <1>4, <1>8, InterestGoes DEF TakeScheduledWait
<1>9. ASSUME TakeSlot PROVE InterestInv'
  <2>1. /\ pc["worker"] = "take_slot" /\ UNCHANGED <<status, bits, record>>
        /\ held' = [held EXCEPT !["worker"] = slot]
        /\ pc' = [pc EXCEPT !["worker"] = IF slot = NoRequest THEN "clear_slot"
                                                              ELSE "ready_capture"]
      BY <1>9 DEF TakeSlot, Goto, shared
  <2>2. slot \in Requests /\ interest = asked[slot]
      BY <1>5, <2>1 DEF UnmarkPcs
  <2>3. pc'["worker"] = "ready_capture" /\ held'["worker"] = slot
      BY <1>3, <2>1, <2>2
  <2>4. InterestKnows("worker")'
      BY <1>2, <1>4, <2>1, <2>2, <2>3 DEF InterestKnows
  <2> QED
      BY <1>1, <1>4, <2>1, <2>4, InterestKept
<1>10. ASSUME RefreshCapture \/ RefreshInjection PROVE InterestInv'
  <2>1. /\ pc["worker"] \in {"ready_capture", "ready_injection"}
        /\ UNCHANGED <<status, record, held>>
        /\ \E x \in SUBSET interest : bits' = [bits EXCEPT !["worker"] = @ \cup x]
        /\ \E l \in {"ready_injection", "decide"} : pc' = [pc EXCEPT !["worker"] = l]
      BY <1>10 DEF RefreshCapture, RefreshInjection, Goto, shared
  <2>2. held["worker"] = slot /\ slot \in Requests /\ interest = asked[slot]
      BY <1>2, <1>5, <2>1 DEF UnmarkPcs, OwnerKnows
  <2>3. /\ pc'["worker"] \in {"ready_injection", "decide"}
        /\ \E x \in SUBSET interest : bits'["worker"] = bits["worker"] \cup x
      BY <1>3, <2>1
  <2>4. InterestKnows("worker")'
      BY <1>2, <1>4, <2>1, <2>2, <2>3 DEF InterestKnows
  <2> QED
      BY <1>1, <1>4, <2>1, <2>4, InterestKept
<1>11. ASSUME DecideStatus PROVE InterestInv'
  <2>1. /\ pc["worker"] = "decide" /\ UNCHANGED <<record, held, bits>>
        /\ pc' = [pc EXCEPT !["worker"] = "unmark"]
      BY <1>11 DEF DecideStatus, Goto, shared
  <2>2. held["worker"] = slot /\ slot \in Requests
      BY <1>2, <1>5, <2>1 DEF UnmarkPcs, OwnerKnows
  <2>3. pc'["worker"] = "unmark"
      BY <1>3, <2>1
  <2>4. InterestKnows("worker")'
      BY <1>2, <1>4, <2>1, <2>2, <2>3 DEF InterestKnows
  <2> QED
      BY <1>1, <1>4, <2>1, <2>4, InterestKept
<1> QED
    BY <1>6, <1>7, <1>8, <1>9, <1>10, <1>11 DEF WorkItem

(* unmark_and_complete_wait and finish_wait: success stays with the        *)
(* request it was decided for until that request is completed.             *)
LEMMA RetireInterest ==
    ASSUME TypeOK, OwnershipInv, InterestInv, NEW t0 \in Threads, Retire(t0)
    PROVE  InterestInv'
<1> USE ThreadFacts
<1>1. OnlyMoves(t0)
    BY StepMoves DEF Step
<1>2. InterestKnows(t0) /\ OwnerKnows(t0)
    BY DEF InterestInv, OwnershipInv, Ownership
<1>3. pc \in [Threads -> Pc] /\ status \in [Threads -> {"none", "success", "cancelled", "failed"}]
    BY DEF TypeOK
<1>4. ASSUME Unmark(t0) PROVE InterestInv'
  <2>1. /\ pc[t0] = "unmark" /\ UNCHANGED <<record, interest, slot, asked, held, expected, bits>>
        /\ \/ pc' = [pc EXCEPT ![t0] = "clear_slot"]
           \/ pc' = [pc EXCEPT ![t0] = "swap"] /\ status' = [status EXCEPT ![t0] = "cancelled"]
        /\ \/ status' = status \/ status' = [status EXCEPT ![t0] = "failed"]
           \/ status' = [status EXCEPT ![t0] = "cancelled"]
      BY <1>4 DEF Unmark, Goto, shared
  <2>2. \/ pc'[t0] = "clear_slot" /\ status'[t0] \in {status[t0], "failed", "cancelled"}
        \/ pc'[t0] = "swap" /\ status'[t0] = "cancelled"
      BY <1>3, <2>1
  <2>3. InterestKnows(t0)'
      BY <1>2, <2>1, <2>2 DEF InterestKnows, ClaimPcs
  <2> QED
      BY <1>1, <2>1, <2>3, InterestKept
<1>5. ASSUME HandoffFromUnmark(t0) PROVE InterestInv'
    BY <1>1, <1>5, InterestGoes, InterestLeaves
       DEF HandoffFromUnmark, requestState, locals, ClaimPcs
<1>6. ASSUME ClearSlot(t0) PROVE InterestInv'
  <2>1. /\ pc[t0] = "clear_slot" /\ slot' = NoRequest
        /\ UNCHANGED <<record, asked, locals>> /\ pc'[t0] = "free"
      BY <1>6, GotoMoves DEF ClearSlot, requestState
  <2>2. InterestKnows(t0)'
      BY <1>2, <2>1 DEF InterestKnows, ClaimPcs, locals
  <2>3. ASSUME NEW t \in Threads \ {t0} PROVE InterestKnows(t)'
    <3>1. pc[t] \notin OwnerPcs
        BY <2>1 DEF OwnershipInv, ExclusiveOwner, OwnerPcs, RetirePcs
    <3>2. /\ pc'[t] = pc[t] /\ held'[t] = held[t] /\ expected'[t] = expected[t]
          /\ bits'[t] = bits[t] /\ status'[t] = status[t] /\ InterestKnows(t)
        BY <1>1 DEF OnlyMoves, InterestInv
    <3> QED
        BY <2>1, <3>1, <3>2 DEF InterestKnows, OwnerPcs, RegisterPcs, UnmarkPcs
  <2> QED
      BY <2>1, <2>2, <2>3 DEF InterestInv
<1>7. ASSUME FreeTheRecord(t0) PROVE InterestInv'
  <2>1. /\ pc[t0] = "free" /\ UNCHANGED <<interest, slot, asked>> /\ record'.state = "free"
      BY <1>7 DEF FreeTheRecord, requestState, FreeRecord
  <2>2. CASE Leave(t0)
      BY <2>1, <2>2, InterestLeaves
  <2>3. CASE Goto(t0, "complete") /\ UNCHANGED locals
    <3>1. pc'[t0] = "complete" /\ UNCHANGED <<held, expected, bits, status>>
        BY <2>3, GotoMoves DEF locals
    <3>2. InterestKnows(t0)'
        BY <1>2, <2>1, <3>1 DEF InterestKnows, ClaimPcs
    <3> QED
        BY <1>1, <2>1, <3>2, InterestKept
  <2> QED
      BY <1>7, <2>2, <2>3 DEF FreeTheRecord
<1>8. ASSUME CompleteRequest(t0) PROVE InterestInv'
    BY <1>8, InterestLeaves DEF CompleteRequest, shared
<1> QED
    BY <1>4, <1>5, <1>6, <1>7, <1>8 DEF Retire

(* A recycled handle gets a new input: nobody published or holds it.       *)
LEMMA DispatchInterest ==
    ASSUME TypeOK, OwnershipInv, InterestInv, NEW r \in Requests, NEW i \in Interests,
           Dispatch(r, i)
    PROVE  InterestInv'
<1> USE ThreadFacts
<1>1. /\ UNCHANGED <<record, interest, slot, handoff, bits, expected>>
      /\ pc["dispatch"] = "idle" /\ wdf[r] = "idle"
      /\ \A q \in Requests \ {r} : asked'[q] = asked[q]
    BY DEF Dispatch, shared, Own, TypeOK
<1>2. OnlyMoves("dispatch") /\ pc'["dispatch"] = "precheck" /\ status'["dispatch"] = "none"
    BY OwnMoves DEF Dispatch
<1>3. InterestKnows("dispatch")'
    BY <1>2, KnowsNothing DEF ClaimPcs
<1>4. ASSUME NEW t \in Threads \ {"dispatch"} PROVE InterestKnows(t)'
  <2>1. /\ pc'[t] = pc[t] /\ held'[t] = held[t] /\ expected'[t] = expected[t]
        /\ bits'[t] = bits[t] /\ status'[t] = status[t] /\ InterestKnows(t)
      BY <1>2 DEF OnlyMoves, InterestInv
  <2>2. OwnerKnows(t) /\ pc[t] \in PcsOf(t)
      BY DEF OwnershipInv, Ownership, ControlOK
  <2>3. pc[t] \notin {"recheck", "mark", "publish", "resolve_teardown"}
      BY <2>2 DEF PcsOf, ClaimPcs, RetirePcs, CallbackPcs
  <2>4. ASSUME pc[t] \in {"ready_capture", "ready_injection", "decide", "unmark",
                          "clear_slot", "free", "complete"},
               held[t] \in Requests
        PROVE  asked'[held[t]] = asked[held[t]]
      BY <1>1, <2>2, <2>4 DEF OwnerKnows, UnmarkPcs, RetirePcs, Cancellable
  <2>5. pc[t] \in {"ready_capture", "ready_injection", "decide"} => held[t] \in Requests
      BY <2>2 DEF OwnerKnows, UnmarkPcs
  <2> QED
      BY <1>1, <2>1, <2>3, <2>4, <2>5 DEF InterestKnows
<1>5. record.state \in {"pending", "scheduled", "unmarking"} /\ slot # NoRequest =>
          interest = asked'[slot]
    BY <1>1 DEF OwnershipInv, Publication, Cancellable, InterestInv, OwnershipTypes
<1> QED
    BY <1>1, <1>3, <1>4, <1>5 DEF InterestInv

(* The teardown callbacks and the cancellation callback.                   *)
LEMMA TeardownInterest ==
    ASSUME TypeOK, OwnershipInv, InterestInv, NEW t0 \in Stoppers \cup Requests,
           \/ t0 \in Stoppers /\ (Teardown(t0) \/ TeardownStep(t0))
           \/ t0 \in Requests /\ (CancelRequest(t0) \/ CancelStep(t0))
    PROVE  InterestInv'
<1> USE ThreadFacts
<1>1. t0 \in Threads /\ t0 \notin {"dispatch", "worker", "tx", "rx", "read"}
    OBVIOUS
<1>2. status[t0] # "success"
    BY <1>1 DEF InterestInv, InterestKnows
<1>3. ASSUME NEW l, Goto(t0, l), OnlyMoves(t0), UNCHANGED <<interest, asked, slot, status>>,
             l \notin {"recheck", "mark", "publish", "resolve_teardown", "take_slot",
                       "ready_capture", "ready_injection", "decide"},
             \/ record' = record
             \/ record.state \in {"pending", "scheduled", "unmarking"}
             \/ record'.state \notin {"pending", "scheduled", "unmarking"}
      PROVE  InterestInv'
  <2>1. pc'[t0] = l
      BY <1>1, <1>3 DEF Goto, TypeOK
  <2> QED
      BY <1>1, <1>2, <1>3, <2>1, KnowsNothing, InterestKept, Zenon
<1>4. ASSUME t0 \in Stoppers, Teardown(t0) PROVE InterestInv'
  <2>1. PICK l \in {"stop", "active"} : \E k, r : BeginTeardown(t0, k, r, l)
      BY <1>4 DEF Teardown, PacketQueueStop, LifecycleTeardown, IoStop
  <2>2. /\ Goto(t0, l) /\ UNCHANGED <<record, interest, asked, slot, status>>
        /\ \E k : kind' = [kind EXCEPT ![t0] = k]
        /\ \E r : expected' = [expected EXCEPT ![t0] = r]
        /\ UNCHANGED <<held, bits, observed>>
      BY <2>1 DEF BeginTeardown, shared, requestState
  <2>3. OnlyMoves(t0)
      BY <1>1, <2>2 DEF OnlyMoves, Goto, TypeOK
  <2> QED
      BY <1>3, <2>2, <2>3
<1>5. ASSUME t0 \in Stoppers, TeardownStep(t0) PROVE InterestInv'
  <2>1. OnlyMoves(t0)
      BY <1>1, <1>5, StepMoves DEF Step
  <2>2. /\ UNCHANGED <<interest, slot, asked>>
        /\ record' = record \/ record.state \in {"registering", "pending", "scheduled"}
        /\ record.state = "registering" =>
               record'.state \notin {"pending", "scheduled", "unmarking"}
    <3>1. pc[t0] = "stop_cas" => observed[t0].state \in {"registering", "pending", "scheduled"}
        BY <1>1 DEF OwnershipInv, Ownership, OwnerKnows
    <3> QED
        BY <1>5, <3>1
           DEF TeardownStep, IoStopActive, StopLoad, StopSlot, StopCas, StopReread, Transition,
               FlushWorkItem, ClearFrameQueues, ReopenFrameQueues, shared, requestState, TypeOK,
               Records
  <2>3. \/ Leave(t0)
        \/ \E r : \E l \in {"unmark", "clear_slot"} : Own(t0, r, "cancelled", l)
        \/ /\ UNCHANGED status
           /\ \E l \in {"stop", "stop_slot", "stop_cas", "stop_reread", "idle", "clear",
                        "reopen"} : Goto(t0, l)
      BY <1>5
         DEF TeardownStep, IoStopActive, StopLoad, StopSlot, StopCas, StopReread,
             FlushWorkItem, ClearFrameQueues, ReopenFrameQueues, locals
  <2>4. CASE Leave(t0)
      BY <1>1, <2>2, <2>4, InterestLeaves, Zenon
  <2>5. CASE \E r : \E l \in {"unmark", "clear_slot"} : Own(t0, r, "cancelled", l)
      BY <1>1, <2>2, <2>5, InterestLeaves
  <2> QED
      BY <1>3, <2>1, <2>2, <2>3, <2>4, <2>5
<1>6. ASSUME t0 \in Requests, CancelRequest(t0) PROVE InterestInv'
  <2>1. UNCHANGED <<record, interest, slot, asked, locals>>
      BY <1>6 DEF CancelRequest, shared
  <2>2. CASE Goto(t0, "active")
      BY <1>1, <1>3, <2>1, <2>2, GotoMoves DEF locals
  <2>3. CASE UNCHANGED pc
      BY <2>1, <2>3 DEF InterestInv, InterestKnows, locals
  <2> QED
      BY <1>6, <2>2, <2>3 DEF CancelRequest
<1>7. ASSUME t0 \in Requests, CancelStep(t0) PROVE InterestInv'
  <2>1. OnlyMoves(t0)
      BY <1>1, <1>7, StepMoves DEF Step
  <2>2. /\ UNCHANGED <<interest, slot, asked>>
        /\ record' = record \/ record'.state \notin {"pending", "scheduled", "unmarking"}
      BY <1>7 DEF CancelStep, CancelActive, CancelLoad, CancelCas, HandoffFromCancel,
                  Transition, shared, requestState, TypeOK, Records
  <2>3. \/ Leave(t0)
        \/ \E l \in {"complete", "clear_slot"} : Own(t0, t0, "cancelled", l)
        \/ /\ UNCHANGED status
           /\ \E l \in {"cancel", "cancel_swap", "cancel_cas"} : Goto(t0, l)
      BY <1>7 DEF CancelStep, CancelActive, CancelLoad, CancelCas, HandoffFromCancel, locals
  <2>4. CASE Leave(t0)
      BY <1>1, <2>2, <2>4, InterestLeaves, Zenon
  <2>5. CASE \E l \in {"complete", "clear_slot"} : Own(t0, t0, "cancelled", l)
      BY <1>1, <2>2, <2>5, InterestLeaves
  <2> QED
      BY <1>3, <2>1, <2>2, <2>3, <2>4, <2>5
<1> QED
    BY <1>4, <1>5, <1>6, <1>7

(* Every step of the driver and of its environment.                        *)
LEMMA NextInterest ==
    ASSUME TypeOK, OwnershipInv, MaskInv, InterestInv, Next
    PROVE  InterestInv'
<1> USE ThreadFacts
<1>1. ASSUME UNCHANGED <<record, slot, interest, asked, pc, held, expected, bits, status>>
      PROVE  InterestInv'
    BY <1>1 DEF InterestInv, InterestKnows
<1>2. ASSUME NEW t \in {"tx", "rx", "read"}, NEW l, Goto(t, l), OnlyMoves(t),
             UNCHANGED <<record, interest, asked, slot, status, expected>>,
             pc[t] \notin {"unmark", "clear_slot", "free", "complete"},
             l \in {"tx_enqueue", "rx_dequeue", "rx_claim", "rx_requeue", "read_dequeue",
                    "read_requeue", "claim", "idle"}
      PROVE  InterestInv'
    BY <1>2, InterestGoes
<1>3. ASSUME \/ TxEnter \/ RxEnter \/ ReadEnter \/ WriteFrame \/ EnableAdaptivePolling
             \/ \E b \in Directions : PacketQueueStart(b)
      PROVE  InterestInv'
  <2>1. ASSUME NEW t \in {"tx", "rx", "read"},
               NEW l \in {"tx_enqueue", "rx_dequeue", "read_dequeue"}, Enter(t, l)
        PROVE  InterestInv'
      BY <1>2, <2>1, GotoMoves DEF Enter, shared, requestState, locals
  <2> QED
      BY <1>1, <1>3, <2>1
         DEF TxEnter, RxEnter, ReadEnter, WriteFrame, EnableAdaptivePolling, PacketQueueStart,
             shared, requestState, locals
<1>4. ASSUME NEW t \in {"tx", "rx", "read"},
             \/ t = "tx" /\ TxEnqueue
             \/ t = "rx" /\ Receive
             \/ t = "read" /\ Read
      PROVE  InterestInv'
  <2>1. OnlyMoves(t)
      BY <1>4, StepMoves DEF Step
  <2>2. /\ UNCHANGED <<record, interest, asked, slot, status, expected>>
        /\ pc[t] \in {"tx_enqueue", "rx_dequeue", "rx_claim", "rx_requeue", "read_dequeue",
                      "read_requeue"}
        /\ \E l \in {"tx_enqueue", "rx_dequeue", "rx_claim", "rx_requeue", "read_dequeue",
                     "read_requeue", "claim", "idle"} : Goto(t, l)
      BY <1>4
         DEF TxEnqueue, Receive, RxDequeue, RxClaim, RxRequeue, Read, ReadDequeue,
             ReadRequeue, EnqueueCapture, ClaimFor, shared, requestState, locals
  <2> QED
      BY <1>2, <2>1, <2>2
<1>5. ASSUME Environment PROVE InterestInv'
    BY <1>3, <1>5, DispatchInterest, TeardownInterest DEF Environment
<1>6. ASSUME NEW t \in Threads, Step(t) PROVE InterestInv'
    BY <1>4, <1>6, RegistrationInterest, WorkItemInterest, ClaimInterest, TeardownInterest,
       RetireInterest DEF Step
<1> QED
    BY <1>5, <1>6 DEF Next
=============================================================================
