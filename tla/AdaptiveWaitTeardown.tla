------------------------ MODULE AdaptiveWaitTeardown ------------------------
(***************************************************************************)
(* The teardown paths and the cancellation callback preserve OwnershipInv: *)
(* one lemma per action and outcome. The second half shows that every step *)
(* keeps ScanInv: only the recheck of a registration makes a wait stand,   *)
(* the recheck fails behind a closed gate, and a scan ends with none       *)
(* standing.                                                               *)
(***************************************************************************)
EXTENDS AdaptiveWaitOwnership

(* Teardown claims a registration for its dispatch thread.                 *)
LEMMA StopClaimsRegistration ==
    ASSUME OwnershipInv, NEW t0 \in Stoppers, StopCas(t0),
           observed[t0].state = "registering", record.state = "registering"
    PROVE  OwnershipInv'
<1> USE ThreadFacts DEF OwnershipInv, OwnerPcs, RegisterPcs, UnmarkPcs, RetirePcs, CallbackPcs
<1>1. pc[t0] = "stop_cas" /\ held[t0] = NoRequest /\ Return(t0) = "flush"
    BY DEF StopCas, Ownership, OwnerKnows, Return
<1>2. /\ record' \in Records /\ record'.state = "teardown"
      /\ pc' = [pc EXCEPT ![t0] = "flush"]
      /\ observed' = [observed EXCEPT ![t0] = FreeRecord(0)]
    BY <1>1, Zenon
       DEF StopCas, Goto, Leave, ResetLocals, Transition, OwnershipTypes, Records,
           States
<1>3. UNCHANGED <<slot, handoff, wdf, completions, held>>
    BY <1>1, Zenon DEF StopCas, Leave, ResetLocals, OwnershipTypes, requestState
<1>4. OwnershipTypes'
    BY <1>1, <1>2, <1>3, FreeRecordType DEF OwnershipTypes, Pc
<1>5. ControlOK'
    BY <1>1, <1>2, <1>3, FreeRecordType DEF ControlOK, PcsOf, OwnershipTypes
<1>6. ExclusiveOwner'
    BY <1>1, <1>2, <1>3, FreeRecordType DEF ExclusiveOwner, OwnershipTypes
<1>7. Ownership'
  <2> SUFFICES ASSUME NEW t \in Threads PROVE OwnerKnows(t)'
      BY DEF Ownership
  <2>1. CASE t = t0
      BY <2>1, <1>1, <1>2, <1>3, FreeRecordType
         DEF OwnershipTypes, Ownership, OwnerKnows, Publication, Cancellable
  <2>2. CASE t # t0
      BY <2>2, <1>1, <1>2, <1>3, FreeRecordType
         DEF OwnershipTypes, Ownership, OwnerKnows, ExclusiveOwner, SingleHolder,
             Cancellable
  <2> QED
      BY <2>1, <2>2, Zenon
<1>8. SingleHolder'
    BY <1>1, <1>2, <1>3, FreeRecordType
       DEF SingleHolder, OwnershipTypes, Ownership, OwnerKnows
<1>9. Publication'
    BY <1>1, <1>2, <1>3, FreeRecordType DEF Publication, OwnershipTypes, Cancellable
<1>10. Cancellation'
  <2> SUFFICES ASSUME NEW r \in Requests PROVE CallbackKnows(r)'
      BY DEF Cancellation
  <2> QED
      BY <1>1, <1>2, <1>3, FreeRecordType
         DEF OwnershipTypes, Cancellation, CallbackKnows
<1> QED
    BY <1>4, <1>5, <1>6, <1>7, <1>8, <1>9, <1>10, Zenon

(* Teardown becomes the owner of a published wait.                         *)
LEMMA StopWinsWait ==
    ASSUME OwnershipInv, NEW t0 \in Stoppers, StopCas(t0),
           observed[t0].state # "registering", record.state = observed[t0].state
    PROVE  OwnershipInv'
<1> USE ThreadFacts
<1>0. PICK r0 \in Requests : r0 = slot
    BY DEF OwnershipInv, StopCas, Publication, Ownership, OwnerKnows, OwnerPcs,
           RegisterPcs, UnmarkPcs, RetirePcs
<1>1. /\ pc[t0] = "stop_cas" /\ held[t0] = NoRequest /\ slot = r0
      /\ record.state \in {"pending", "scheduled"}
      /\ Cancellable(r0) /\ handoff # "cancel_arrived"
    BY <1>0
       DEF OwnershipInv, StopCas, Publication, Ownership, OwnerKnows, OwnerPcs,
           RegisterPcs, UnmarkPcs, RetirePcs
<1>2. NoOtherOwner(t0) /\ NoOtherHolds(t0, r0)
    BY <1>0, <1>1, SoleOwner, SoleHolds DEF OwnerPcs, RegisterPcs, UnmarkPcs, RetirePcs
<1>3. /\ record' \in Records /\ record'.state = "unmarking"
      /\ pc' = [pc EXCEPT ![t0] = "stop_reread"]
    BY <1>1, <1>0
       DEF OwnershipInv, OwnershipTypes, StopCas, Goto, Transition, Records, States
<1>4. UNCHANGED <<slot, handoff, wdf, completions, held, observed>>
    BY <1>0, <1>1 DEF OwnershipInv, OwnershipTypes, StopCas, requestState, locals
<1>5. OwnershipTypes'
    BY <1>0, <1>1, <1>3, <1>4 DEF OwnershipInv, OwnershipTypes, Pc
<1>6. OnlyThread(t0) /\ OnlyRequest(r0)
    BY <1>0, <1>3, <1>4 DEF OwnershipInv, OwnershipTypes, OnlyThread, OnlyRequest
<1>7. /\ pc'[t0] \in PcsOf(t0)
      /\ pc'[t0] \in OwnerPcs => record'.state \notin {"free", "pending", "scheduled"}
    BY <1>0, <1>1, <1>3, <1>4
       DEF OwnershipInv, OwnershipTypes, PcsOf, OwnerPcs, RegisterPcs, UnmarkPcs,
           RetirePcs
<1>8. OwnerKnows(t0)'
    BY <1>0, <1>1, <1>3, <1>4
       DEF OwnershipInv, OwnershipTypes, OwnerKnows, Cancellable, CallbackPcs, OwnerPcs,
           RegisterPcs, UnmarkPcs, RetirePcs
<1>9. SingleHolder'
    BY <1>0, <1>1, <1>2, <1>3, <1>4, <1>5, <1>6, HolderMoves
       DEF OwnershipInv, OwnershipTypes, OwnerPcs, RegisterPcs, UnmarkPcs, RetirePcs
<1>10. Publication'
    BY <1>0, <1>1, <1>3, <1>4
       DEF OwnershipInv, OwnershipTypes, Publication, Cancellable, RegisterPcs,
           RetirePcs, CallbackPcs
<1>11. CallbackKnows(r0)'
    BY <1>0, <1>1, <1>2, <1>3, <1>4
       DEF OwnershipInv, OwnershipTypes, Cancellation, CallbackKnows, NoOtherOwner,
           CallbackPcs, OwnerPcs, RegisterPcs, UnmarkPcs, RetirePcs
<1> QED
    BY <1>0, <1>1, <1>2, <1>4, <1>5, <1>6, <1>7, <1>8, <1>9, <1>10, <1>11, OwnerMoves, Zenon

(* The slot re-read after the transition names the request it won.         *)
LEMMA StopRereadStep ==
    ASSUME OwnershipInv, NEW t0 \in Stoppers, StopReread(t0)
    PROVE  OwnershipInv'
<1> USE ThreadFacts
<1>0. PICK r0 \in Requests : r0 = slot
    BY DEF OwnershipInv, StopReread, UnmarkPcs, Ownership, OwnerKnows
<1>1. /\ pc[t0] = "stop_reread" /\ slot = r0 /\ Cancellable(r0)
      /\ record.state = "unmarking"
    BY <1>0 DEF OwnershipInv, StopReread, UnmarkPcs, Ownership, OwnerKnows
<1>2. NoOtherOwner(t0) /\ NoOtherHolds(t0, r0)
    BY <1>0, <1>1, SoleOwner, SoleHolds DEF OwnerPcs, RegisterPcs, UnmarkPcs, RetirePcs
<1>3. /\ held' = [held EXCEPT ![t0] = r0]
      /\ pc' = [pc EXCEPT ![t0] = "unmark"]
    BY <1>1, <1>0, Zenon DEF OwnershipInv, OwnershipTypes, StopReread, Own, Goto
<1>4. UNCHANGED <<record, slot, handoff, wdf, completions, observed>>
    BY <1>0, <1>1
       DEF OwnershipInv, OwnershipTypes, StopReread, Own, shared, requestState
<1>5. OwnershipTypes'
    BY <1>0, <1>1, <1>3, <1>4 DEF OwnershipInv, OwnershipTypes, Pc
<1>6. OnlyThread(t0) /\ OnlyRequest(r0)
    BY <1>0, <1>3, <1>4 DEF OwnershipInv, OwnershipTypes, OnlyThread, OnlyRequest
<1>7. /\ pc'[t0] \in PcsOf(t0)
      /\ pc'[t0] \in OwnerPcs => record'.state \notin {"free", "pending", "scheduled"}
    BY <1>0, <1>1, <1>3, <1>4
       DEF OwnershipInv, OwnershipTypes, PcsOf, OwnerPcs, RegisterPcs, UnmarkPcs,
           RetirePcs
<1>8. OwnerKnows(t0)'
    BY <1>0, <1>1, <1>3, <1>4
       DEF OwnershipInv, OwnershipTypes, OwnerKnows, Cancellable, CallbackPcs, OwnerPcs,
           RegisterPcs, UnmarkPcs, RetirePcs
<1>9. SingleHolder'
    BY <1>0, <1>1, <1>2, <1>3, <1>4, <1>5, <1>6, HolderMoves
       DEF OwnershipInv, OwnershipTypes, OwnerPcs, RegisterPcs, UnmarkPcs, RetirePcs
<1>10. Publication'
    BY <1>0, <1>1, <1>3, <1>4
       DEF OwnershipInv, OwnershipTypes, Publication, Cancellable, RegisterPcs,
           RetirePcs, CallbackPcs
<1>11. CallbackKnows(r0)'
    BY <1>0, <1>1, <1>2, <1>3, <1>4
       DEF OwnershipInv, OwnershipTypes, Cancellation, CallbackKnows, NoOtherOwner,
           CallbackPcs, OwnerPcs, RegisterPcs, UnmarkPcs, RetirePcs
<1> QED
    BY <1>0, <1>1, <1>2, <1>4, <1>5, <1>6, <1>7, <1>8, <1>9, <1>10, <1>11, OwnerMoves, Zenon

-----------------------------------------------------------------------------
(* WDF calls the cancellation routine of a marked request.                 *)
LEMMA CancelMarkedStep ==
    ASSUME OwnershipInv, NEW r0 \in Requests, CancelRequest(r0), wdf[r0] = "marked"
    PROVE  OwnershipInv'
<1> USE ThreadFacts
<1>1. /\ pc[r0] = "idle" /\ handoff = "none"
      /\ slot = r0 /\ held[r0] = NoRequest /\ handoff # "cancel_arrived"
      /\ \A t \in Threads : pc[t] \notin RetirePcs
    BY DEF OwnershipInv, CancelRequest, Cancellation, CallbackKnows, CallbackPcs,
           Ownership, OwnerKnows, OwnerPcs, RegisterPcs, UnmarkPcs, RetirePcs
<1>2. wdf' = [wdf EXCEPT ![r0] = "cancelling"] /\ pc' = [pc EXCEPT ![r0] = "active"]
    BY <1>1 DEF OwnershipInv, OwnershipTypes, CancelRequest, Goto
<1>3. UNCHANGED <<record, slot, handoff, completions, held, observed>>
    BY <1>1 DEF OwnershipInv, OwnershipTypes, CancelRequest, shared, locals
<1>4. OwnershipTypes'
    BY <1>1, <1>2, <1>3 DEF OwnershipInv, OwnershipTypes, Pc
<1>5. OnlyThread(r0) /\ OnlyRequest(r0)
    BY <1>2, <1>3 DEF OwnershipInv, OwnershipTypes, OnlyThread, OnlyRequest
<1>6. /\ pc'[r0] \in CallbackPcs \/ (pc'[r0] = "idle" /\ record.state = "unmarking")
      /\ wdf[r0] \in {"marked", "cancelling"} /\ wdf'[r0] = "cancelling" /\ Cancellable(r0)'
    BY <1>1, <1>2, <1>3 DEF OwnershipInv, OwnershipTypes, Cancellable, CallbackPcs
<1>7. CallbackKnows(r0)'
    BY <1>1, <1>2, <1>3, <1>5
       DEF OwnershipInv, OwnershipTypes, Cancellation, CallbackKnows, CallbackPcs,
           OnlyThread, OwnerPcs, RegisterPcs, UnmarkPcs, RetirePcs
<1> QED
    BY <1>1, <1>2, <1>3, <1>4, <1>5, <1>6, <1>7, CallbackMoves
       DEF OwnerPcs, RegisterPcs, UnmarkPcs, RetirePcs

(* The callback finds its own request published.                           *)
LEMMA CancelActiveStep ==
    ASSUME OwnershipInv, NEW r0 \in Requests, CancelActive(r0)
    PROVE  OwnershipInv'
<1> USE ThreadFacts
<1>1. /\ pc[r0] = "active" /\ wdf[r0] = "cancelling"
      /\ slot = r0 /\ held[r0] = NoRequest /\ handoff # "cancel_arrived"
      /\ \A t \in Threads : pc[t] \notin RetirePcs
    BY DEF OwnershipInv, CancelActive, Cancellation, CallbackKnows, CallbackPcs,
           Ownership, OwnerKnows, OwnerPcs, RegisterPcs, UnmarkPcs, RetirePcs
<1>2. pc' = [pc EXCEPT ![r0] = "cancel"]
    BY <1>1 DEF OwnershipInv, OwnershipTypes, CancelActive, Goto
<1>3. UNCHANGED <<record, slot, handoff, wdf, completions, held, observed>>
    BY <1>1
       DEF OwnershipInv, OwnershipTypes, CancelActive, shared, requestState, locals
<1>4. OwnershipTypes'
    BY <1>1, <1>2, <1>3 DEF OwnershipInv, OwnershipTypes, Pc
<1>5. OnlyThread(r0) /\ OnlyRequest(r0)
    BY <1>2, <1>3 DEF OwnershipInv, OwnershipTypes, OnlyThread, OnlyRequest
<1>6. /\ pc'[r0] \in CallbackPcs \/ (pc'[r0] = "idle" /\ record.state = "unmarking")
      /\ wdf[r0] \in {"marked", "cancelling"} /\ wdf'[r0] = "cancelling" /\ Cancellable(r0)'
    BY <1>1, <1>2, <1>3 DEF OwnershipInv, OwnershipTypes, Cancellable, CallbackPcs
<1>7. CallbackKnows(r0)'
    BY <1>1, <1>2, <1>3, <1>5
       DEF OwnershipInv, OwnershipTypes, Cancellation, CallbackKnows, CallbackPcs,
           OnlyThread, OwnerPcs, RegisterPcs, UnmarkPcs, RetirePcs
<1> QED
    BY <1>1, <1>2, <1>3, <1>4, <1>5, <1>6, <1>7, CallbackMoves
       DEF OwnerPcs, RegisterPcs, UnmarkPcs, RetirePcs

(* The callback looks at the record of its own wait.                       *)
LEMMA CancelLoadStep ==
    ASSUME OwnershipInv, NEW r0 \in Requests, CancelLoad(r0)
    PROVE  OwnershipInv'
<1> USE ThreadFacts
<1>1. /\ pc[r0] = "cancel" /\ wdf[r0] = "cancelling" /\ record.state \notin {"free", "cancelled"}
      /\ slot = r0 /\ held[r0] = NoRequest /\ handoff # "cancel_arrived"
      /\ \A t \in Threads : pc[t] \notin RetirePcs
    BY DEF OwnershipInv, CancelLoad, Cancellation, CallbackKnows, CallbackPcs, Ownership,
           OwnerKnows, OwnerPcs, RegisterPcs, UnmarkPcs, RetirePcs
<1>2. \E o \in Records, l \in {"cancel_swap", "cancel_cas"} :
          /\ pc' = [pc EXCEPT ![r0] = l] /\ observed' = [observed EXCEPT ![r0] = o]
          /\ l = "cancel_swap" => record.state = "unmarking"
          /\ l = "cancel_cas" => o.state \in {"registering", "teardown", "pending", "scheduled"}
    BY <1>1 DEF OwnershipInv, OwnershipTypes, CancelLoad, Goto, locals, Records, States
<1>3. UNCHANGED <<record, slot, handoff, wdf, completions, held>>
    BY <1>1 DEF OwnershipInv, OwnershipTypes, CancelLoad, shared, requestState, locals
<1>4. OwnershipTypes'
    BY <1>1, <1>2, <1>3 DEF OwnershipInv, OwnershipTypes, Pc
<1>5. OnlyThread(r0) /\ OnlyRequest(r0)
    BY <1>2, <1>3 DEF OwnershipInv, OwnershipTypes, OnlyThread, OnlyRequest
<1>6. /\ pc'[r0] \in CallbackPcs \/ (pc'[r0] = "idle" /\ record.state = "unmarking")
      /\ wdf[r0] \in {"marked", "cancelling"} /\ wdf'[r0] = "cancelling" /\ Cancellable(r0)'
    BY <1>1, <1>2, <1>3 DEF OwnershipInv, OwnershipTypes, Cancellable, CallbackPcs
<1>7. CallbackKnows(r0)'
    BY <1>1, <1>2, <1>3, <1>5
       DEF OwnershipInv, OwnershipTypes, Cancellation, CallbackKnows, CallbackPcs,
           OnlyThread, OwnerPcs, RegisterPcs, UnmarkPcs, RetirePcs
<1> QED
    BY <1>1, <1>2, <1>3, <1>4, <1>5, <1>6, <1>7, CallbackMoves
       DEF OwnerPcs, RegisterPcs, UnmarkPcs, RetirePcs

(* The record moved on since the callback looked: it looks again.          *)
LEMMA CancelRetryStep ==
    ASSUME OwnershipInv, NEW r0 \in Requests,
           CancelCas(r0), record.state # observed[r0].state
    PROVE  OwnershipInv'
<1> USE ThreadFacts
<1>1. /\ pc[r0] = "cancel_cas" /\ wdf[r0] = "cancelling"
      /\ slot = r0 /\ held[r0] = NoRequest /\ handoff # "cancel_arrived"
      /\ \A t \in Threads : pc[t] \notin RetirePcs
  <2>1. pc[r0] = "cancel_cas" /\ CallbackKnows(r0) /\ \A t \in Threads : OwnerKnows(t)
      BY Zenon DEF CancelCas, OwnershipInv, Cancellation, Ownership
  <2> QED
      BY <2>1 DEF CallbackKnows, CallbackPcs, OwnerKnows, OwnerPcs, RegisterPcs, UnmarkPcs,
                  RetirePcs
<1>2. pc' = [pc EXCEPT ![r0] = "cancel"]
    BY <1>1 DEF OwnershipInv, OwnershipTypes, CancelCas, Goto
<1>3. UNCHANGED <<record, slot, handoff, wdf, completions, held, observed>>
    BY <1>1 DEF OwnershipInv, OwnershipTypes, CancelCas, requestState, locals
<1>4. OwnershipTypes'
    BY <1>1, <1>2, <1>3 DEF OwnershipInv, OwnershipTypes, Pc
<1>5. OnlyThread(r0) /\ OnlyRequest(r0)
    BY <1>2, <1>3 DEF OwnershipInv, OwnershipTypes, OnlyThread, OnlyRequest
<1>6. /\ pc'[r0] \in CallbackPcs \/ (pc'[r0] = "idle" /\ record.state = "unmarking")
      /\ wdf[r0] \in {"marked", "cancelling"} /\ wdf'[r0] = "cancelling" /\ Cancellable(r0)'
    BY <1>1, <1>2, <1>3 DEF OwnershipInv, OwnershipTypes, Cancellable, CallbackPcs
<1>7. CallbackKnows(r0)'
    BY <1>1, <1>2, <1>3, <1>5
       DEF OwnershipInv, OwnershipTypes, Cancellation, CallbackKnows, CallbackPcs,
           OnlyThread, OwnerPcs, RegisterPcs, UnmarkPcs, RetirePcs
<1> QED
    BY <1>1, <1>2, <1>3, <1>4, <1>5, <1>6, <1>7, CallbackMoves, Zenon
       DEF OwnerPcs, RegisterPcs, UnmarkPcs, RetirePcs

(* The callback takes the request from a registration that has not         *)
(* published it; the registration will retire the record.                  *)
LEMMA CancelMeetsRegistration ==
    ASSUME OwnershipInv, NEW r0 \in Requests, CancelCas(r0),
           record.state = observed[r0].state,
           record.state \in {"registering", "teardown"}
    PROVE  OwnershipInv'
<1> USE ThreadFacts DEF OwnershipInv, OwnerPcs, RegisterPcs, UnmarkPcs, RetirePcs, CallbackPcs
<1>1. /\ pc[r0] = "cancel_cas" /\ slot = r0 /\ held[r0] = NoRequest
      /\ wdf[r0] = "cancelling"
      /\ pc["dispatch"] \in {"publish", "resolve_teardown"} /\ held["dispatch"] = r0
      /\ \A t \in Threads : t # "dispatch" => pc[t] \notin OwnerPcs /\ held[t] # r0
  <2>1. pc[r0] = "cancel_cas" /\ slot = r0 /\ held[r0] = NoRequest /\ wdf[r0] = "cancelling"
      BY Zenon DEF CancelCas, Cancellation, CallbackKnows, Ownership, OwnerKnows
  <2>2. pc["dispatch"] \in RegisterPcs
      BY <2>1, Zenon DEF Publication, Ownership, OwnerKnows
  <2>3. pc["dispatch"] \in {"publish", "resolve_teardown"} /\ held["dispatch"] = r0
      BY <2>1, <2>2, Zenon DEF Ownership, OwnerKnows
  <2>4. \A t \in Threads : t # "dispatch" => pc[t] \notin OwnerPcs
      BY <2>3 DEF ExclusiveOwner
  <2>5. \A t \in Threads : t # "dispatch" => held[t] # r0
      BY <2>1, <2>4 DEF SingleHolder
  <2> QED
      BY <2>1, <2>3, <2>4, <2>5, Zenon
<1>2. /\ record' \in Records /\ record'.state = "cancelled"
      /\ pc' = [pc EXCEPT ![r0] = "complete"] /\ held' = [held EXCEPT ![r0] = r0]
    BY <1>1 DEF CancelCas, Goto, Own, Transition, OwnershipTypes, Records, States
<1>3. UNCHANGED <<slot, handoff, wdf, completions, observed>>
    BY <1>1 DEF CancelCas, Own, requestState
<1>4. OwnershipTypes'
    BY <1>1, <1>2, <1>3 DEF OwnershipTypes, Pc
<1>5. OnlyThread(r0) /\ pc'[r0] = "complete" /\ held'[r0] = r0
    BY <1>2, <1>3 DEF OwnershipTypes, OnlyThread
<1>6. ControlOK'
    BY <1>5 DEF ControlOK, PcsOf, OnlyThread
<1>7. ExclusiveOwner'
    BY <1>1, <1>2, <1>5 DEF ExclusiveOwner, OnlyThread
<1>8. Ownership'
  <2> SUFFICES ASSUME NEW t \in Threads PROVE OwnerKnows(t)'
      BY Zenon DEF Ownership
  <2>1. CASE t = r0
      BY <2>1, <1>1, <1>3, <1>5 DEF OwnerKnows
  <2>2. CASE t # r0
    <3>1. /\ pc'[t] = pc[t] /\ held'[t] = held[t] /\ observed'[t] = observed[t]
          /\ OwnerKnows(t)
        BY <2>2, <1>5, Zenon DEF Ownership, OnlyThread
    <3>2. pc[t] \in OwnerPcs => pc[t] \in {"publish", "resolve_teardown"}
        BY <1>1
    <3> QED
        BY <3>1, <3>2, <1>2, <1>3, Zenon DEF OwnerKnows
  <2> QED
      BY <2>1, <2>2, Zenon
<1>9. SingleHolder'
    BY <1>1, <1>2, <1>3, <1>5 DEF SingleHolder, OnlyThread
<1>10. Publication'
    BY <1>1, <1>2, <1>3, <1>5 DEF Publication, OnlyThread
<1>11. Cancellation'
  <2> SUFFICES ASSUME NEW r \in Requests PROVE CallbackKnows(r)'
      BY Zenon DEF Cancellation
  <2>1. CallbackKnows(r) /\ CallbackKnows(r0)
      BY DEF Cancellation
  <2>2. CASE r = r0
      BY <2>1, <2>2, <1>1, <1>3, <1>5 DEF CallbackKnows
  <2>3. CASE r # r0
      BY <2>1, <2>3, <1>1, <1>3, <1>5, OtherRequestsKeep, Zenon DEF OnlyThread
  <2> QED
      BY <2>2, <2>3, Zenon
<1> QED
    BY <1>4, <1>6, <1>7, <1>8, <1>9, <1>10, <1>11, Zenon

(* The callback takes a published wait and will retire its record.         *)
LEMMA CancelWinsWait ==
    ASSUME OwnershipInv, NEW r0 \in Requests, CancelCas(r0),
           record.state = observed[r0].state, record.state \notin {"registering",
           "teardown"}
    PROVE  OwnershipInv'
<1> USE ThreadFacts
<1>1. /\ pc[r0] = "cancel_cas" /\ slot = r0 /\ wdf[r0] = "cancelling"
      /\ record.state \in {"pending", "scheduled"} /\ held[r0] = NoRequest
      /\ \A r \in Requests : r # r0 => pc[r] \notin CallbackPcs
  <2>1. pc[r0] = "cancel_cas" /\ OwnerKnows(r0) /\ \A r \in Requests : CallbackKnows(r)
      BY Knows DEF CancelCas
  <2>2. /\ slot = r0 /\ wdf[r0] = "cancelling" /\ record.state \in {"pending", "scheduled"}
        /\ \A r \in Requests : r # r0 => pc[r] \notin CallbackPcs
      BY <2>1 DEF CallbackKnows, CallbackPcs
  <2>3. held[r0] = NoRequest
      BY <2>1, Zenon DEF OwnerKnows, OwnerPcs, RegisterPcs, UnmarkPcs, RetirePcs
  <2> QED
      BY <2>1, <2>2, <2>3, Zenon
<1>2. NoOtherOwner(r0) /\ NoOtherHolds(r0, r0)
    BY <1>1, SoleOwner, SoleHolds, Zenon DEF OwnerPcs, RegisterPcs, UnmarkPcs, RetirePcs
<1>3. /\ record' \in Records /\ record'.state = "cancelled"
      /\ pc' = [pc EXCEPT ![r0] = "clear_slot"] /\ held' = [held EXCEPT ![r0] = r0]
    BY <1>1
       DEF OwnershipInv, OwnershipTypes, CancelCas, Own, Goto, Transition, Records,
           States
<1>4. UNCHANGED <<slot, handoff, wdf, completions, observed>>
    BY <1>1 DEF OwnershipInv, OwnershipTypes, CancelCas, Own, requestState
<1>5. OwnershipTypes'
    BY <1>1, <1>3, <1>4 DEF OwnershipInv, OwnershipTypes, Pc
<1>6. OnlyThread(r0) /\ OnlyRequest(r0)
    BY <1>3, <1>4 DEF OwnershipInv, OwnershipTypes, OnlyThread, OnlyRequest
<1>7. /\ pc'[r0] \in PcsOf(r0)
      /\ pc'[r0] \in OwnerPcs => record'.state \notin {"free", "pending", "scheduled"}
    BY <1>1, <1>3, <1>4
       DEF OwnershipInv, OwnershipTypes, PcsOf, OwnerPcs, RegisterPcs, UnmarkPcs,
           RetirePcs
<1>8. OwnerKnows(r0)'
    BY <1>1, <1>3, <1>4
       DEF OwnershipInv, OwnershipTypes, OwnerKnows, Cancellable, CallbackPcs, OwnerPcs,
           RegisterPcs, UnmarkPcs, RetirePcs
<1>9. SingleHolder'
    BY <1>1, <1>2, <1>3, <1>4, <1>5, <1>6, HolderMoves, Zenon
       DEF OwnershipInv, OwnershipTypes, OwnerPcs, RegisterPcs, UnmarkPcs, RetirePcs
<1>10. Publication'
    BY <1>1, <1>3, <1>4
       DEF OwnershipInv, OwnershipTypes, Publication, Cancellable, RegisterPcs,
           RetirePcs, CallbackPcs
<1>11. CallbackKnows(r0)'
    BY <1>1, <1>2, <1>3, <1>4
       DEF OwnershipInv, OwnershipTypes, Cancellation, CallbackKnows, NoOtherOwner,
           CallbackPcs, OwnerPcs, RegisterPcs, UnmarkPcs, RetirePcs
<1> QED
    BY <1>1, <1>2, <1>4, <1>5, <1>6, <1>7, <1>8, <1>9, <1>10, <1>11, OwnerMoves, Zenon

(* The callback arrives before the claimant and leaves the completion to   *)
(* it.                                                                     *)
LEMMA CancelHandsOver ==
    ASSUME OwnershipInv, NEW r0 \in Requests,
           HandoffFromCancel(r0), handoff # "unmark_cancelled"
    PROVE  OwnershipInv'
<1> USE ThreadFacts
<1>1. /\ pc[r0] = "cancel_swap" /\ wdf[r0] = "cancelling" /\ record.state = "unmarking"
      /\ Return(r0) = "idle"
      /\ slot = r0 /\ held[r0] = NoRequest /\ handoff # "cancel_arrived"
      /\ \A t \in Threads : pc[t] \notin RetirePcs
  <2>1. pc[r0] = "cancel_swap" /\ OwnerKnows(r0) /\ CallbackKnows(r0)
      BY Knows DEF HandoffFromCancel
  <2>2. /\ wdf[r0] = "cancelling" /\ record.state = "unmarking"
        /\ slot = r0 /\ handoff # "cancel_arrived"
      BY <2>1 DEF CallbackKnows, CallbackPcs
  <2>3. held[r0] = NoRequest
      BY <2>1 DEF OwnerKnows, OwnerPcs, RegisterPcs, UnmarkPcs, RetirePcs
  <2>4. ASSUME NEW t \in Threads PROVE pc[t] \notin RetirePcs
    <3>1. OwnerKnows(t)
        BY Knows, Zenon
    <3> QED
        BY <2>1, <3>1, Zenon DEF OwnerKnows, CallbackPcs
  <2> QED
      BY <2>1, <2>2, <2>3, <2>4, RetireControl, Zenon
<1>2. /\ handoff' = "cancel_arrived" /\ pc' = [pc EXCEPT ![r0] = "idle"]
      /\ observed' = [observed EXCEPT ![r0] = FreeRecord(0)]
    BY <1>1, Zenon
       DEF OwnershipInv, OwnershipTypes, HandoffFromCancel, Goto, Leave, ResetLocals
<1>3. UNCHANGED <<record, slot, wdf, completions, held>>
    BY <1>1
       DEF OwnershipInv, OwnershipTypes, HandoffFromCancel, Leave, ResetLocals,
           requestState
<1>4. OwnershipTypes'
    BY <1>1, <1>2, <1>3, FreeRecordType DEF OwnershipInv, OwnershipTypes, Pc
<1>5. OnlyThread(r0) /\ OnlyRequest(r0)
    BY <1>2, <1>3 DEF OwnershipInv, OwnershipTypes, OnlyThread, OnlyRequest
<1>6. /\ pc'[r0] \in CallbackPcs \/ (pc'[r0] = "idle" /\ record.state = "unmarking")
      /\ wdf[r0] \in {"marked", "cancelling"} /\ wdf'[r0] = "cancelling" /\ Cancellable(r0)'
    BY <1>1, <1>2, <1>3 DEF OwnershipInv, OwnershipTypes, Cancellable, CallbackPcs
<1>7. CallbackKnows(r0)'
    BY <1>1, <1>2, <1>3, <1>5
       DEF OwnershipInv, OwnershipTypes, Cancellation, CallbackKnows, CallbackPcs,
           OnlyThread, OwnerPcs, RegisterPcs, UnmarkPcs, RetirePcs
<1> QED
    BY <1>1, <1>2, <1>3, <1>4, <1>5, <1>6, <1>7, CallbackMoves
       DEF OwnerPcs, RegisterPcs, UnmarkPcs, RetirePcs

(* The callback arrives after the claimant has gone and retires the record *)
(* itself.                                                                 *)
LEMMA CancelArrivesLast ==
    ASSUME OwnershipInv, NEW r0 \in Requests, HandoffFromCancel(r0),
           handoff = "unmark_cancelled"
    PROVE  OwnershipInv'
<1> USE ThreadFacts
<1>1. /\ pc[r0] = "cancel_swap" /\ slot = r0 /\ wdf[r0] = "cancelling"
      /\ record.state = "unmarking" /\ held[r0] = NoRequest
      /\ \A r \in Requests : r # r0 => pc[r] \notin CallbackPcs
      /\ NoOtherOwner(r0)
  <2>1. pc[r0] = "cancel_swap" /\ OwnerKnows(r0) /\ \A r \in Requests : CallbackKnows(r)
      BY Knows DEF HandoffFromCancel
  <2>2. /\ slot = r0 /\ wdf[r0] = "cancelling" /\ record.state = "unmarking"
        /\ \A r \in Requests : r # r0 => pc[r] \notin CallbackPcs
        /\ NoOtherOwner(r0)
      BY <2>1 DEF CallbackKnows, CallbackPcs, NoOtherOwner
  <2>3. held[r0] = NoRequest
      BY <2>1 DEF OwnerKnows, OwnerPcs, RegisterPcs, UnmarkPcs, RetirePcs
  <2> QED
      BY <2>1, <2>2, <2>3, Zenon
<1>2. NoOtherOwner(r0) /\ NoOtherHolds(r0, r0)
    BY <1>1, SoleOwner, SoleHolds DEF OwnerPcs, RegisterPcs, UnmarkPcs, RetirePcs
<1>3. /\ handoff' = "cancel_arrived" /\ pc' = [pc EXCEPT ![r0] = "clear_slot"]
      /\ held' = [held EXCEPT ![r0] = r0]
    BY <1>1, Zenon DEF OwnershipInv, OwnershipTypes, HandoffFromCancel, Own, Goto
<1>4. UNCHANGED <<record, slot, wdf, completions, observed>>
    BY <1>1, Zenon DEF OwnershipInv, OwnershipTypes, HandoffFromCancel, Own, requestState
<1>5. OwnershipTypes'
    BY <1>1, <1>3, <1>4 DEF OwnershipInv, OwnershipTypes, Pc
<1>6. OnlyThread(r0) /\ OnlyRequest(r0)
    BY <1>3, <1>4 DEF OwnershipInv, OwnershipTypes, OnlyThread, OnlyRequest
<1>7. /\ pc'[r0] \in PcsOf(r0)
      /\ pc'[r0] \in OwnerPcs => record'.state \notin {"free", "pending", "scheduled"}
    BY <1>1, <1>3, <1>4
       DEF OwnershipInv, OwnershipTypes, PcsOf, OwnerPcs, RegisterPcs, UnmarkPcs,
           RetirePcs
<1>8. OwnerKnows(r0)'
    BY <1>1, <1>3, <1>4
       DEF OwnershipInv, OwnershipTypes, OwnerKnows, Cancellable, CallbackPcs, OwnerPcs,
           RegisterPcs, UnmarkPcs, RetirePcs
<1>9. SingleHolder'
    BY <1>1, <1>2, <1>3, <1>4, <1>5, <1>6, HolderMoves, Zenon
       DEF OwnershipInv, OwnershipTypes, OwnerPcs, RegisterPcs, UnmarkPcs, RetirePcs
<1>10. Publication'
    BY <1>1, <1>3, <1>4
       DEF OwnershipInv, OwnershipTypes, Publication, Cancellable, RegisterPcs,
           RetirePcs, CallbackPcs
<1>11. CallbackKnows(r0)'
    BY <1>1, <1>2, <1>3, <1>4, Zenon
       DEF OwnershipInv, OwnershipTypes, Cancellation, CallbackKnows, NoOtherOwner,
           CallbackPcs, OwnerPcs, RegisterPcs, UnmarkPcs, RetirePcs
<1> QED
    BY <1>1, <1>2, <1>4, <1>5, <1>6, <1>7, <1>8, <1>9, <1>10, <1>11, OwnerMoves, Zenon

-----------------------------------------------------------------------------
(* Only the recheck of handle_wait_for_change lets a wait stand that did   *)
(* not stand before, and no step changes the interest of one that does.    *)
LEMMA StandingStep ==
    ASSUME TypeOK, OwnershipInv, MaskInv, NEW t0 \in Threads, Step(t0), ~Recheck, Standing'
    PROVE  Standing /\ interest' = interest
<1> USE ThreadFacts
<1>1. OnlyMoves(t0)
    BY StepMoves
<1>2. record \in Records /\ pc \in [Threads -> Pc]
    BY DEF TypeOK
<1>3. ASSUME UNCHANGED <<record, interest>>, t0 # "dispatch"
      PROVE  Standing /\ interest' = interest
    BY <1>1, <1>3 DEF OnlyMoves, Standing
<1>4. ASSUME NEW l, Goto("dispatch", l), UNCHANGED <<record, interest>>,
             l \notin {"mark", "publish"}
      PROVE  Standing /\ interest' = interest
    BY <1>2, <1>4 DEF Goto, Standing
<1>5. ASSUME NEW t \in Threads, Leave(t), UNCHANGED <<record, interest>>, t = t0
      PROVE  Standing /\ interest' = interest
    BY <1>3, <1>4, <1>5 DEF Leave, Return
<1>6. ASSUME t0 = "dispatch", Registration PROVE Standing /\ interest' = interest
  <2>1. OwnerKnows("dispatch")
      BY DEF OwnershipInv, Ownership
  <2>2. ASSUME Precheck PROVE Standing /\ interest' = interest
      BY <1>4, <2>2 DEF Precheck, Own, shared
  <2>3. ASSUME BeginWaitRecord PROVE Standing /\ interest' = interest
      BY <1>2, <2>3 DEF BeginWaitRecord, Own, Goto, Standing
  <2>4. ASSUME PublishSlot \/ ResolveTeardown PROVE Standing /\ interest' = interest
      BY <1>2, <2>4 DEF PublishSlot, ResolveTeardown, Own, Goto, Standing, Transition, Records
  <2>5. ASSUME PublishInterest PROVE Standing /\ interest' = interest
    <3>1. record.state \in {"registering", "teardown"} /\ record' = record
        BY <2>1, <2>5 DEF PublishInterest, OwnerKnows, RegisterPcs
    <3>2. pc'["dispatch"] = "recheck"
        BY <2>5, GotoMoves DEF PublishInterest
    <3> QED
        BY <3>1, <3>2 DEF Standing
  <2>6. ASSUME MarkCancelable PROVE Standing /\ interest' = interest
    <3>1. pc["dispatch"] = "mark" /\ UNCHANGED <<record, interest>>
        BY <2>6 DEF MarkCancelable, shared
    <3> QED
        BY <3>1 DEF Standing
  <2>7. ASSUME PublishPending PROVE Standing /\ interest' = interest
      BY <1>2, <2>7 DEF PublishPending, Standing, Transition, Records
  <2>8. ASSUME LevelCapture \/ LevelInjection PROVE Standing /\ interest' = interest
      BY <1>4, <1>5, <1>6, <2>8 DEF LevelCapture, LevelInjection, shared
  <2> QED
      BY <1>6, <2>2, <2>3, <2>4, <2>5, <2>6, <2>7, <2>8 DEF Registration
<1>7. ASSUME t0 = "worker", WorkItem PROVE Standing /\ interest' = interest
  <2>1. ASSUME TakeScheduledWait PROVE Standing /\ interest' = interest
      BY <1>2, <1>3, <1>7, <2>1 DEF TakeScheduledWait, Transition, Standing, Records
  <2> QED
      BY <1>3, <1>7, <2>1
         DEF WorkItem, WorkerStart, TakeSlot, RefreshCapture, RefreshInjection, DecideStatus,
             shared
<1>8. ASSUME \/ t0 = "tx" /\ TxEnqueue
             \/ t0 = "rx" /\ Receive
             \/ t0 = "read" /\ Read
      PROVE  Standing /\ interest' = interest
    BY <1>3, <1>8
       DEF TxEnqueue, Receive, RxDequeue, RxClaim, RxRequeue, Read, ReadDequeue,
           ReadRequeue, EnqueueCapture, shared
<1>9. ASSUME t0 \in Claimants, Claim(t0) PROVE Standing /\ interest' = interest
  <2>1. ClaimantKnows(t0)
      BY <1>9 DEF MaskInv
  <2>2. ASSUME ClaimCas(t0), record = observed[t0] PROVE Standing /\ interest' = interest
      BY <2>1, <2>2 DEF ClaimCas, ClaimantKnows, Standing
  <2>3. ASSUME ~(ClaimCas(t0) /\ record = observed[t0]), ~Leave(t0)
        PROVE  Standing /\ interest' = interest
    <3>1. UNCHANGED <<record, interest>> /\ \E l \in ClaimPcs : Goto(t0, l)
        BY <1>9, <2>3 DEF Claim, ClaimEnter, ClaimLoad, ClaimInspect, ClaimCas, ClaimSchedule,
                          shared, ClaimPcs
    <3> QED
        BY <1>3, <1>4, <3>1 DEF ClaimPcs
  <2>4. ASSUME ~(ClaimCas(t0) /\ record = observed[t0]), Leave(t0)
        PROVE  Standing /\ interest' = interest
      BY <1>5, <1>9, <2>4 DEF Claim, ClaimEnter, ClaimLoad, ClaimInspect, ClaimCas,
                              ClaimSchedule, shared
  <2> QED
      BY <2>2, <2>3, <2>4
<1>10. ASSUME t0 \in Stoppers, TeardownStep(t0) PROVE Standing /\ interest' = interest
  <2>1. ASSUME StopCas(t0) PROVE Standing /\ interest' = interest
      BY <1>2, <1>3, <1>10, <2>1 DEF StopCas, Transition, Standing, Records
  <2> QED
      BY <1>3, <1>10, <2>1
         DEF TeardownStep, IoStopActive, StopLoad, StopSlot, StopReread, FlushWorkItem,
             ClearFrameQueues, ReopenFrameQueues, shared
<1>11. ASSUME t0 \in Requests, CancelStep(t0) PROVE Standing /\ interest' = interest
  <2>1. ASSUME CancelCas(t0) PROVE Standing /\ interest' = interest
      BY <1>2, <1>3, <1>11, <2>1 DEF CancelCas, Transition, Standing, Records
  <2> QED
      BY <1>3, <1>11, <2>1 DEF CancelStep, CancelActive, CancelLoad, HandoffFromCancel, shared
<1>12. ASSUME Retire(t0) PROVE Standing /\ interest' = interest
  <2>1. ASSUME ClearSlot(t0) PROVE Standing /\ interest' = interest
    <3>1. pc[t0] = "clear_slot" /\ record' = record /\ pc'[t0] = "free"
        BY <2>1, GotoMoves DEF ClearSlot
    <3>2. record.state \notin {"pending", "scheduled"}
        BY <3>1 DEF OwnershipInv, ExclusiveOwner, OwnerPcs, RetirePcs
    <3>3. t0 # "dispatch" => pc["dispatch"] \notin {"mark", "publish"}
        BY <3>1 DEF OwnershipInv, ExclusiveOwner, OwnerPcs, RetirePcs, RegisterPcs
    <3> QED
        BY <1>1, <3>1, <3>2, <3>3 DEF Standing, OnlyMoves
  <2>2. ASSUME FreeTheRecord(t0) PROVE Standing /\ interest' = interest
      BY <2>2 DEF FreeTheRecord, FreeRecord, Standing
  <2>3. ASSUME Unmark(t0) PROVE Standing /\ interest' = interest
      BY <1>3, <1>4, <2>3 DEF Unmark, shared
  <2>4. ASSUME HandoffFromUnmark(t0) \/ CompleteRequest(t0)
        PROVE  Standing /\ interest' = interest
      BY <1>3, <1>4, <1>5, <2>4 DEF HandoffFromUnmark, CompleteRequest, shared
  <2> QED
      BY <1>12, <2>1, <2>2, <2>3, <2>4 DEF Retire
<1> QED
    BY <1>6, <1>7, <1>8, <1>9, <1>10, <1>11, <1>12 DEF Step

(* Only the teardown callbacks change the state of the instance, and only  *)
(* the datapath callbacks the length of a queue.                           *)
LEMMA DeviceKept ==
    ASSUME NEW t0 \in Threads, Step(t0), ~(t0 \in Stoppers /\ TeardownStep(t0))
    PROVE  /\ UNCHANGED <<adaptive, open, started, queuesOpen, kind>>
           /\ \/ UNCHANGED <<capture, injection>>
              \/ t0 = "tx" /\ TxEnqueue
              \/ t0 = "rx" /\ Receive
              \/ t0 = "read" /\ Read
<1>1. ASSUME NEW t, Leave(t) PROVE UNCHANGED kind
    BY <1>1 DEF Leave, ResetLocals
<1>2. ASSUME Registration PROVE UNCHANGED <<device, kind>>
  <2>1. ASSUME Precheck \/ BeginWaitRecord \/ PublishSlot \/ PublishInterest \/ Recheck
        PROVE  UNCHANGED <<device, kind>>
      BY <2>1 DEF Precheck, BeginWaitRecord, PublishSlot, PublishInterest, Recheck, Own, locals
  <2>2. ASSUME MarkCancelable \/ PublishPending \/ ResolveTeardown \/ LevelCapture
               \/ LevelInjection
        PROVE  UNCHANGED <<device, kind>>
      BY <1>1, <2>2 DEF MarkCancelable, PublishPending, ResolveTeardown, LevelCapture,
                        LevelInjection, Own, locals
  <2> QED
      BY <1>2, <2>1, <2>2 DEF Registration
<1>3. ASSUME WorkItem PROVE UNCHANGED <<device, kind>>
    BY <1>3 DEF WorkItem, WorkerStart, TakeScheduledWait, TakeSlot, RefreshCapture,
                RefreshInjection, DecideStatus, locals
<1>4. ASSUME TxEnqueue \/ Receive \/ Read
      PROVE  UNCHANGED <<adaptive, open, started, queuesOpen, kind>>
    BY <1>4 DEF TxEnqueue, Receive, RxDequeue, RxClaim, RxRequeue, Read, ReadDequeue,
                ReadRequeue, EnqueueCapture, ClaimFor, device, locals
<1>5. ASSUME Claim(t0) PROVE UNCHANGED <<device, kind>>
    BY <1>1, <1>5 DEF Claim, ClaimEnter, ClaimLoad, ClaimInspect, ClaimCas, ClaimSchedule,
                      locals
<1>6. ASSUME CancelStep(t0) PROVE UNCHANGED <<device, kind>>
    BY <1>1, <1>6 DEF CancelStep, CancelActive, CancelLoad, CancelCas, HandoffFromCancel, Own,
                      locals
<1>7. ASSUME Retire(t0) PROVE UNCHANGED <<device, kind>>
    BY <1>1, <1>7 DEF Retire, Unmark, HandoffFromUnmark, ClearSlot, FreeTheRecord,
                      CompleteRequest, locals
<1> QED
    BY <1>2, <1>3, <1>4, <1>5, <1>6, <1>7 DEF Step, device

(* A step of a thread keeps ScanInv when no wait comes to stand and, if it *)
(* ends a scan, none stands afterwards.                                    *)
LEMMA ScanFrame ==
    ASSUME ScanInv, NEW t0 \in Threads, OnlyMoves(t0),
           UNCHANGED <<open, started, kind>>,
           Standing' => Standing /\ interest' = interest /\ adaptive' = adaptive,
           t0 \in Stoppers =>
               /\ pc'[t0] # "idle"
               /\ pc'[t0] \in {"clear", "reopen"} => kind[t0] \in LifecycleKinds
               /\ kind[t0] # "iostop" \/ pc'[t0] = "flush" => expected'[t0] = NoRequest
               /\ pc[t0] \in ScanPcs /\ kind[t0] # "iostop" => pc'[t0] \in ScanPcs \/ ~Standing'
    PROVE  ScanInv'
<1>1. ASSUME NEW s \in Stoppers, s # t0
      PROVE  pc'[s] = pc[s] /\ expected'[s] = expected[s]
    BY <1>1 DEF OnlyMoves, Threads
<1>2. \A s \in Stoppers : StopperKnows(s)'
    BY <1>1 DEF ScanInv, StopperKnows, LifecycleKinds
<1>3. ASSUME NEW b \in Bits, Standing', b \in interest', ~started'[b]
      PROVE  \E s \in Stoppers : kind'[s] = "queue" /\ pc'[s] \in ScanPcs
  <2>1. PICK s \in Stoppers : kind[s] = "queue" /\ pc[s] \in ScanPcs
      BY <1>3 DEF ScanInv
  <2> QED
      BY <1>1, <1>3, <2>1
<1> QED
    BY <1>2, <1>3 DEF ScanInv

(* cancel_wait_request_for_teardown: whichever way the scan ends, no wait  *)
(* stands that it was to cancel.                                           *)
LEMMA ScanEnds ==
    ASSUME TypeOK, OwnershipInv, ScanInv, NEW s0 \in Stoppers,
           StopLoad(s0) \/ StopSlot(s0) \/ StopCas(s0)
    PROVE  /\ pc'[s0] \in ScanPcs \/ ~Standing' \/ kind[s0] = "iostop"
           /\ pc'[s0] \in ScanPcs \cup {"flush", "stop_reread"}
           /\ UNCHANGED kind
           /\ expected'[s0] = IF pc'[s0] = "flush" THEN NoRequest ELSE expected[s0]
<1> USE ThreadFacts
<1>1. /\ record \in Records /\ pc \in [Threads -> Pc] /\ s0 \in Threads
      /\ OwnerKnows(s0) /\ OwnerKnows("dispatch")
    BY DEF TypeOK, OwnershipInv, Ownership
<1>2. OnlyMoves(s0) /\ pc'["dispatch"] = pc["dispatch"]
  <2>1. OnlyMoves(s0)
      BY <1>1, StepMoves DEF Step, TeardownStep
  <2> QED
      BY <2>1 DEF OnlyMoves
<1>3. Return(s0) = "flush"
    BY DEF Return
<1>4. CASE StopLoad(s0)
  <2>1. CASE Leave(s0)
    <3>1. record' = record /\ record.state \notin {"registering", "pending", "scheduled"}
      <4>1. record' = record /\ pc[s0] = "stop"
          BY <1>4 DEF StopLoad, shared
      <4>2. ~Goto(s0, "stop_slot")
          BY <1>1, <1>3, <2>1, LeaveMoves DEF Goto
      <4> QED
          BY <1>4, <4>1, <4>2 DEF StopLoad
    <3> QED
        BY <1>1, <1>3, <2>1, <3>1, LeaveMoves DEF Standing
  <2>2. CASE ~Leave(s0)
      BY <1>1, <1>4, <2>2 DEF StopLoad, Goto, ScanPcs
  <2> QED
      BY <2>1, <2>2, Zenon
<1>5. CASE StopSlot(s0)
  <2>1. CASE Leave(s0)
    <3>1. UNCHANGED <<record, slot>> /\ pc[s0] = "stop_slot"
        BY <1>5 DEF StopSlot, shared
    <3>2. ~Goto(s0, "stop_cas")
        BY <1>1, <1>3, <2>1, LeaveMoves DEF Goto
    <3>3. \/ expected[s0] # NoRequest
          \/ observed[s0].state # "registering" /\ slot = NoRequest
        BY <1>5, <3>2 DEF StopSlot
    <3>4. expected[s0] # NoRequest => kind[s0] = "iostop"
        BY DEF ScanInv, StopperKnows
    <3>5. slot = NoRequest => ~Standing
        BY <1>1 DEF Standing, OwnershipInv, Publication, OwnerKnows, RegisterPcs
    <3>6. Standing' => Standing
        BY <1>2, <3>1 DEF Standing
    <3> QED
        BY <1>1, <1>3, <2>1, <3>3, <3>4, <3>5, <3>6, LeaveMoves
  <2>2. CASE ~Leave(s0)
      BY <1>1, <1>5, <2>2 DEF StopSlot, Goto, ScanPcs, locals
  <2> QED
      BY <2>1, <2>2, Zenon
<1>6. CASE StopCas(s0)
  <2>1. CASE Leave(s0)
      BY <1>1, <1>2, <1>3, <1>6, <2>1, LeaveMoves
         DEF StopCas, Transition, Standing, Records, Goto
  <2>2. CASE ~Leave(s0)
      BY <1>1, <1>6, <2>2 DEF StopCas, Transition, Standing, Records, Goto, ScanPcs, locals
  <2> QED
      BY <2>1, <2>2, Zenon
<1> QED
    BY <1>4, <1>5, <1>6, Zenon

(* The steps of the teardown callbacks.                                    *)
LEMMA TeardownScan ==
    ASSUME TypeOK, OwnershipInv, MaskInv, ScanInv, NEW s0 \in Stoppers, TeardownStep(s0)
    PROVE  ScanInv'
<1> USE ThreadFacts
<1>1. /\ pc \in [Threads -> Pc] /\ kind \in [Stoppers -> AllKinds \cup {"none"}]
      /\ s0 \in Threads /\ StopperKnows(s0)
    BY DEF TypeOK, ScanInv
<1>2. OnlyMoves(s0)
    BY <1>1, StepMoves DEF Step
<1>3. Standing' => Standing /\ interest' = interest
  <2>1. ~Recheck
      BY <1>1, <1>2 DEF Recheck, Own, Goto, OnlyMoves, TeardownStep, IoStopActive, StopLoad,
                        StopSlot, StopCas, StopReread, FlushWorkItem, ClearFrameQueues,
                        ReopenFrameQueues
  <2> QED
      BY <1>1, <2>1, StandingStep DEF Step
<1>4. Return(s0) = "flush"
    BY DEF Return
<1>5. ASSUME StopLoad(s0) \/ StopSlot(s0) \/ StopCas(s0) PROVE ScanInv'
  <2>1. UNCHANGED <<open, started, adaptive>>
      BY <1>5 DEF StopLoad, StopSlot, StopCas, device
  <2> QED
      BY <1>1, <1>2, <1>3, <1>5, <2>1, ScanEnds, ScanFrame DEF ScanPcs, StopperKnows
<1>6. ASSUME IoStopActive(s0) \/ StopReread(s0) PROVE ScanInv'
  <2>1. UNCHANGED <<open, started, adaptive>> /\ pc[s0] \in {"active", "stop_reread"}
      BY <1>6 DEF IoStopActive, StopReread, device
  <2>2. /\ UNCHANGED kind /\ pc'[s0] \in {"stop", "flush", "unmark", "clear_slot"}
        /\ expected'[s0] = IF pc'[s0] = "flush" THEN NoRequest ELSE expected[s0]
    <3>1. CASE IoStopActive(s0)
      <4>1. CASE Leave(s0)
          BY <1>1, <1>4, <4>1, LeaveMoves
      <4>2. CASE Goto(s0, "stop") /\ UNCHANGED locals
          BY <1>1, <4>2, GotoMoves DEF locals
      <4> QED
          BY <3>1, <4>1, <4>2, Zenon DEF IoStopActive
    <3>2. CASE StopReread(s0)
        BY <1>1, <3>2, OwnMoves DEF StopReread
    <3> QED
        BY <1>6, <3>1, <3>2, Zenon
  <2> QED
      BY <1>1, <1>2, <1>3, <2>1, <2>2, ScanFrame DEF ScanPcs, StopperKnows
<1>7. ASSUME FlushWorkItem(s0), kind[s0] \in LifecycleKinds PROVE ScanInv'
  <2>1. /\ UNCHANGED <<open, started, adaptive, kind, expected>> /\ pc[s0] = "flush"
        /\ pc' = [pc EXCEPT ![s0] = "clear"]
      BY <1>7 DEF FlushWorkItem, device, LifecycleKinds, Goto
  <2> QED
      BY <1>1, <1>2, <1>3, <1>7, <2>1, ScanFrame DEF ScanPcs, StopperKnows
<1>8. ASSUME FlushWorkItem(s0) \/ ReopenFrameQueues(s0), pc'[s0] = "idle" PROVE ScanInv'
  <2>1. /\ UNCHANGED <<started, adaptive, expected, record, interest>>
        /\ pc[s0] \in {"flush", "reopen"} /\ kind'[s0] = "none"
        /\ pc[s0] = "flush" => open' = open /\ kind[s0] \in {"queue", "iostop"}
        /\ pc[s0] = "reopen" => open' = TRUE
      BY <1>1, <1>8 DEF FlushWorkItem, ReopenFrameQueues, device, shared, Goto
  <2>2. ASSUME NEW s \in Stoppers, s # s0
        PROVE  pc'[s] = pc[s] /\ expected'[s] = expected[s] /\ kind'[s] = kind[s]
      BY <1>2, <2>2 DEF OnlyMoves
  <2>3. pc[s0] = "reopen" =>
            kind[s0] \in LifecycleKinds /\ \A s \in Stoppers : kind[s] \in LifecycleKinds => s = s0
      BY <1>1 DEF ScanInv, StopperKnows
  <2>4. expected[s0] = NoRequest
      BY <1>1, <2>1, <2>3 DEF StopperKnows, LifecycleKinds
  <2>5. \A s \in Stoppers : StopperKnows(s)'
    <3>1. StopperKnows(s0)'
        BY <1>8, <2>1, <2>4 DEF StopperKnows, LifecycleKinds, ScanPcs
    <3>2. ASSUME NEW s \in Stoppers, s # s0 PROVE StopperKnows(s)'
      <4>1. StopperKnows(s) /\ (Standing' => Standing)
          BY <1>3 DEF ScanInv
      <4>2. kind[s] \in LifecycleKinds => open' = open
          BY <2>1, <2>3, <3>2
      <4> QED
          BY <2>2, <3>2, <4>1, <4>2 DEF StopperKnows
    <3> QED
        BY <3>1, <3>2
  <2>6. /\ \A s, q \in Stoppers :
              kind'[s] \in LifecycleKinds /\ kind'[q] \in LifecycleKinds => s = q
        /\ ~open' => \E s \in Stoppers : kind'[s] \in LifecycleKinds
        /\ Standing' => adaptive'
      BY <1>3, <2>1, <2>2 DEF ScanInv, LifecycleKinds
  <2>7. ASSUME NEW b \in Bits, Standing', b \in interest', ~started'[b]
        PROVE  \E s \in Stoppers : kind'[s] = "queue" /\ pc'[s] \in ScanPcs
    <3>1. PICK s \in Stoppers : kind[s] = "queue" /\ pc[s] \in ScanPcs
        BY <1>3, <2>1, <2>7 DEF ScanInv
    <3>2. s # s0
        BY <2>1, <3>1 DEF ScanPcs
    <3> QED
        BY <2>2, <3>1, <3>2
  <2> QED
      BY <2>5, <2>6, <2>7 DEF ScanInv
<1>9. ASSUME ClearFrameQueues(s0) PROVE ScanInv'
  <2>1. /\ UNCHANGED <<open, started, kind, expected, record>> /\ pc[s0] = "clear"
        /\ pc'[s0] = "reopen"
      BY <1>1, <1>9, GotoMoves DEF ClearFrameQueues, shared, locals
  <2>2. ~Standing
      BY <1>1, <2>1 DEF StopperKnows, ScanPcs
  <2> QED
      BY <1>1, <1>2, <1>3, <2>1, <2>2, ScanFrame DEF ScanPcs, StopperKnows
<1>10. /\ FlushWorkItem(s0) => pc'[s0] = "idle" \/ kind[s0] \in LifecycleKinds
       /\ ReopenFrameQueues(s0) => pc'[s0] = "idle"
    BY <1>1 DEF FlushWorkItem, ReopenFrameQueues, Goto, LifecycleKinds
<1> QED
    BY <1>5, <1>6, <1>7, <1>8, <1>9, <1>10, Zenon DEF TeardownStep

(* The packet-queue stop, D0 exit, file cleanup and EvtIoStop callbacks    *)
(* begin: a scan is now to come for what they stopped.                     *)
LEMMA TeardownBegins ==
    ASSUME TypeOK, ScanInv, NEW s0 \in Stoppers, Teardown(s0)
    PROVE  ScanInv'
<1> USE ThreadFacts
<1>1. /\ pc \in [Threads -> Pc] /\ kind \in [Stoppers -> AllKinds \cup {"none"}]
      /\ expected \in [Threads -> Requests \cup {NoRequest}] /\ s0 \in Threads
      /\ started \in [Bits -> BOOLEAN]
    BY DEF TypeOK
<1>2. PICK k, r : \E l \in {"stop", "active"} :
          /\ BeginTeardown(s0, k, r, l)
          /\ k # "iostop" => r = NoRequest /\ l = "stop"
          /\ \/ k = "queue" /\ UNCHANGED open
             \/ k \in LifecycleKinds /\ ~open' /\ UNCHANGED started
                /\ \A q \in Stoppers : kind[q] \notin LifecycleKinds
             \/ k = "iostop" /\ UNCHANGED <<open, started>>
    BY DEF Teardown, PacketQueueStop, LifecycleTeardown, IoStop, LifecycleKinds
<1>3. /\ pc[s0] = "idle" /\ UNCHANGED <<record, interest, adaptive>>
      /\ kind' = [kind EXCEPT ![s0] = k] /\ expected' = [expected EXCEPT ![s0] = r]
      /\ \E l \in {"stop", "active"} :
            pc' = [pc EXCEPT ![s0] = l] /\ (k # "iostop" => r = NoRequest /\ l = "stop")
    BY <1>2 DEF BeginTeardown, Goto, shared
<1>4. /\ kind'[s0] = k /\ expected'[s0] = r /\ kind[s0] = "none"
      /\ pc'[s0] \in {"stop", "active"} /\ (k # "iostop" => r = NoRequest /\ pc'[s0] = "stop")
    BY <1>1, <1>3 DEF ScanInv, StopperKnows
<1>5. ASSUME NEW s \in Stoppers, s # s0
      PROVE  pc'[s] = pc[s] /\ expected'[s] = expected[s] /\ kind'[s] = kind[s]
    BY <1>1, <1>3, <1>5
<1>6. Standing' = Standing
    BY <1>1, <1>3 DEF Standing
<1>7. \A s \in Stoppers : StopperKnows(s)'
  <2>1. StopperKnows(s0)'
      BY <1>2, <1>4 DEF StopperKnows, ScanPcs, LifecycleKinds
  <2>2. ASSUME NEW s \in Stoppers, s # s0 PROVE StopperKnows(s)'
    <3>1. StopperKnows(s) /\ (kind[s] \in LifecycleKinds => ~open')
        BY <1>2 DEF ScanInv, StopperKnows
    <3> QED
        BY <1>5, <1>6, <2>2, <3>1 DEF StopperKnows
  <2> QED
      BY <2>1, <2>2
<1>8. /\ \A s, q \in Stoppers :
            kind'[s] \in LifecycleKinds /\ kind'[q] \in LifecycleKinds => s = q
      /\ ~open' => \E s \in Stoppers : kind'[s] \in LifecycleKinds
      /\ Standing' => adaptive'
    BY <1>2, <1>3, <1>4, <1>5, <1>6 DEF ScanInv, LifecycleKinds
<1>9. ASSUME NEW b \in Bits, Standing', b \in interest', ~started'[b]
      PROVE  \E s \in Stoppers : kind'[s] = "queue" /\ pc'[s] \in ScanPcs
  <2>1. CASE k = "queue"
      BY <1>4, <2>1 DEF ScanPcs
  <2>2. CASE k # "queue"
    <3>1. PICK s \in Stoppers : kind[s] = "queue" /\ pc[s] \in ScanPcs
        BY <1>2, <1>3, <1>6, <1>9, <2>2 DEF ScanInv
    <3> QED
        BY <1>4, <1>5, <3>1
  <2> QED
      BY <2>1, <2>2
<1> QED
    BY <1>7, <1>8, <1>9 DEF ScanInv

(* The recheck admits a wait only to an open instance whose owner polls    *)
(* adaptively and whose directions have all started.                       *)
LEMMA RecheckScan ==
    ASSUME TypeOK, InterestInv, ScanInv, Recheck
    PROVE  ScanInv'
<1> USE ThreadFacts
<1>1. /\ UNCHANGED <<record, interest, open, started, adaptive, kind, expected>>
      /\ pc["dispatch"] = "recheck"
    BY DEF Recheck, shared, device, Own
<1>2. OnlyMoves("dispatch")
    BY StepMoves DEF Step, Registration
<1>3. \A s \in Stoppers : pc'[s] = pc[s]
    BY <1>2 DEF OnlyMoves
<1>4. CASE open /\ adaptive /\ InterestStarted(asked[held["dispatch"]])
  <2>1. \A b \in interest : started[b]
    <3>1. InterestKnows("dispatch")
        BY DEF InterestInv
    <3> QED
        BY <1>1, <1>4, <3>1 DEF InterestKnows, InterestStarted
  <2>2. \A s \in Stoppers : kind[s] \notin LifecycleKinds
      BY <1>4 DEF ScanInv, StopperKnows
  <2>3. \A s \in Stoppers : StopperKnows(s)'
      BY <1>1, <1>3, <2>2 DEF ScanInv, StopperKnows
  <2> QED
      BY <1>1, <1>4, <2>1, <2>2, <2>3 DEF ScanInv
<1>5. CASE ~(open /\ adaptive /\ InterestStarted(asked[held["dispatch"]]))
  <2>1. pc'["dispatch"] = "clear_slot"
      BY <1>5, OwnMoves DEF Recheck
  <2>2. Standing' => Standing
      BY <1>1, <2>1 DEF Standing
  <2> QED
      BY <1>1, <1>2, <2>2, ScanFrame
<1> QED
    BY <1>4, <1>5, Zenon

(* Every step of the driver and of its environment.                        *)
LEMMA NextScan ==
    ASSUME TypeOK, OwnershipInv, MaskInv, InterestInv, ScanInv, Next
    PROVE  ScanInv'
<1> USE ThreadFacts
<1>1. ASSUME UNCHANGED <<record, interest, kind, expected, open>>,
             \A s \in Stoppers : pc'[s] = pc[s],
             pc'["dispatch"] \in {pc["dispatch"], "precheck"},
             adaptive => adaptive', \A b \in Bits : started[b] => started'[b]
      PROVE  ScanInv'
  <2>1. Standing' => Standing
      BY <1>1 DEF Standing
  <2>2. \A s \in Stoppers : StopperKnows(s)'
      BY <1>1, <2>1 DEF ScanInv, StopperKnows
  <2> QED
      BY <1>1, <2>1, <2>2 DEF ScanInv
<1>2. ASSUME NEW r \in Requests, NEW i \in Interests, Dispatch(r, i) PROVE ScanInv'
  <2>1. /\ UNCHANGED <<record, interest, kind, expected, open, adaptive, started>>
        /\ pc' = [pc EXCEPT !["dispatch"] = "precheck"]
      BY <1>2 DEF Dispatch, Own, shared, device, Goto
  <2> QED
      BY <1>1, <2>1 DEF TypeOK
<1>3. ASSUME NEW r \in Requests, CancelRequest(r) PROVE ScanInv'
  <2>1. /\ UNCHANGED <<record, interest, kind, expected, open, adaptive, started>>
        /\ pc' = pc \/ pc' = [pc EXCEPT ![r] = "active"]
      BY <1>3 DEF CancelRequest, shared, device, locals, Goto
  <2> QED
      BY <1>1, <2>1 DEF TypeOK
<1>4. ASSUME NEW b \in Directions, PacketQueueStart(b) PROVE ScanInv'
    BY <1>1, <1>4 DEF PacketQueueStart, shared, locals, TypeOK
<1>5. ASSUME WriteFrame \/ EnableAdaptivePolling PROVE ScanInv'
    BY <1>1, <1>5 DEF WriteFrame, EnableAdaptivePolling, shared, locals
<1>6. ASSUME TxEnter \/ RxEnter \/ ReadEnter PROVE ScanInv'
  <2>1. /\ UNCHANGED <<record, interest, kind, expected, open, adaptive, started>>
        /\ \E t \in {"tx", "rx", "read"} : \E l : pc' = [pc EXCEPT ![t] = l]
      BY <1>6 DEF TxEnter, RxEnter, ReadEnter, Enter, shared, device, locals, Goto
  <2> QED
      BY <1>1, <2>1 DEF TypeOK
<1>7. ASSUME NEW t \in Threads, Step(t), t \notin Stoppers, ~Recheck PROVE ScanInv'
    BY <1>7, StepMoves, DeviceKept, StandingStep, ScanFrame
<1>8. ASSUME NEW s \in Stoppers, Retire(s) PROVE ScanInv'
  <2>1. s \in Threads /\ OnlyMoves(s) /\ StopperKnows(s)
      BY <1>8, StepMoves DEF Step, ScanInv
  <2>2. /\ pc[s] \in {"unmark", "swap", "clear_slot", "free", "complete"}
        /\ UNCHANGED <<open, started, adaptive, kind>>
        /\ \/ Leave(s)
           \/ /\ UNCHANGED expected
              /\ \E l \in {"swap", "clear_slot", "free", "complete"} : Goto(s, l)
      BY <1>8, LeaveMoves, <2>1
         DEF Retire, Unmark, HandoffFromUnmark, ClearSlot, FreeTheRecord, CompleteRequest,
             device, locals
  <2>3. /\ pc'[s] \in {"flush", "swap", "clear_slot", "free", "complete"}
        /\ expected'[s] = NoRequest \/ (pc'[s] # "flush" /\ expected'[s] = expected[s])
      BY <2>1, <2>2, LeaveMoves DEF Return, Goto, TypeOK
  <2>4. Standing' => Standing /\ interest' = interest
    <3>1. ~Recheck
      <4>1. pc'["dispatch"] = pc["dispatch"] /\ pc \in [Threads -> Pc]
          BY <2>1 DEF OnlyMoves, TypeOK
      <4> QED
          BY <4>1 DEF Recheck, Own, Goto
    <3> QED
        BY <1>8, <2>1, <3>1, StandingStep DEF Step
  <2> QED
      BY <2>1, <2>2, <2>3, <2>4, ScanFrame DEF StopperKnows, ScanPcs
<1>9. ASSUME NEW t \in Threads, Step(t) PROVE ScanInv'
    BY <1>7, <1>8, <1>9, TeardownScan, RecheckScan DEF Step, Claimants
<1>10. ASSUME Environment PROVE ScanInv'
    BY <1>2, <1>3, <1>4, <1>5, <1>6, <1>10, TeardownBegins DEF Environment
<1> QED
    BY <1>9, <1>10 DEF Next
=============================================================================
