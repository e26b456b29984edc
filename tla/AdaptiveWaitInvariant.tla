------------------------ MODULE AdaptiveWaitInvariant ------------------------
(***************************************************************************)
(* The invariants behind the properties of AdaptiveWait.                   *)
(*   OwnershipInv  at most one thread may unmark, retire or republish the  *)
(*                 wait, and every request the driver holds has exactly one*)
(*                 thread that will complete it;                           *)
(*   InterestInv   a published interest is the one the request asked for;  *)
(*   ScanInv       a teardown past the slot left no wait standing          *)
(*                 behind the gates it closed;                             *)
(*   WakeupInv     a pending wait whose condition holds has a thread on the*)
(*                 way that will claim it.                                 *)
(***************************************************************************)
EXTENDS AdaptiveWait

RegisterPcs == {"publish_slot", "publish_interest", "recheck", "mark", "publish",
                "resolve_teardown"}

UnmarkPcs == {"take_slot", "ready_capture", "ready_injection", "decide",
              "stop_reread", "unmark", "swap"}

RetirePcs == {"clear_slot", "free"}

(* The steps at which a thread owns the wait record.                       *)
OwnerPcs == RegisterPcs \cup UnmarkPcs \cup RetirePcs

(* The steps of a cancellation callback that has not been resolved yet.    *)
CallbackPcs == {"active", "cancel", "cancel_cas", "cancel_swap"}

ClaimPcs == {"claim", "load", "inspect", "cas", "schedule"}

PcsOf(t) ==
    IF t = "dispatch"
    THEN {"idle", "precheck", "begin", "level_capture", "level_injection",
          "unmark", "swap", "complete"}
         \cup RegisterPcs \cup ClaimPcs \cup RetirePcs
    ELSE IF t = "worker"
    THEN {"idle", "take", "take_slot", "ready_capture", "ready_injection",
          "decide", "unmark", "swap", "complete"} \cup RetirePcs
    ELSE IF t = "tx" THEN {"idle", "tx_enqueue"} \cup ClaimPcs
    ELSE IF t = "rx" THEN {"idle", "rx_dequeue", "rx_claim", "rx_requeue"} \cup ClaimPcs
    ELSE IF t = "read" THEN {"idle", "read_dequeue", "read_requeue"} \cup ClaimPcs
    ELSE IF t \in Stoppers
    THEN {"idle", "active", "stop", "stop_slot", "stop_cas", "stop_reread",
          "unmark", "swap", "complete", "flush", "clear", "reopen"} \cup RetirePcs
    ELSE {"idle", "complete"} \cup CallbackPcs \cup RetirePcs

(* The part of TypeOK the argument uses.                                   *)
OwnershipTypes ==
    /\ record \in Records
    /\ slot \in Requests \cup {NoRequest}
    /\ handoff \in {"none", "cancel_arrived", "unmark_cancelled"}
    /\ wdf \in [Requests -> {"idle", "owned", "marked", "cancelling"}]
    /\ completions \in [Requests -> 0..2]
    /\ pc \in [Threads -> Pc]
    /\ held \in [Threads -> Requests \cup {NoRequest}]
    /\ observed \in [Threads -> Records]

ControlOK == \A t \in Threads : pc[t] \in PcsOf(t)

(* No two threads own the record, and none does while it can be claimed.   *)
ExclusiveOwner ==
    /\ \A t, u \in Threads : pc[t] \in OwnerPcs /\ pc[u] \in OwnerPcs => t = u
    /\ record.state \in {"free", "pending", "scheduled"} =>
           \A t \in Threads : pc[t] \notin OwnerPcs

(* The request is owned by the driver alone, or cancellable, or WDF is     *)
(* cancelling it and somebody still has to answer.                         *)
Cancellable(r) ==
    \/ wdf[r] = "marked"
    \/ wdf[r] = "cancelling" /\ (pc[r] \in CallbackPcs \/ handoff = "cancel_arrived")

(* What each step of a thread may rely on.                                 *)
OwnerKnows(t) ==
    /\ pc[t] \in {"precheck", "begin", "publish_slot", "publish_interest",
                  "recheck", "mark"} =>
           held[t] \in Requests /\ wdf[held[t]] = "owned"
    /\ pc[t] = "publish_slot" => slot = NoRequest
    /\ pc[t] \in {"publish_interest", "recheck", "mark"} => slot = held[t]
    /\ pc[t] \in {"recheck", "mark"} => handoff = "none"
    /\ pc[t] \in RegisterPcs \ {"publish", "resolve_teardown"} =>
           record.state \in {"registering", "teardown"}
    /\ pc[t] \in {"publish", "resolve_teardown"} =>
           /\ held[t] \in Requests /\ slot = held[t]
           /\ record.state \in {"registering", "teardown", "cancelled"}
           /\ record.state # "cancelled" =>
                  Cancellable(slot) /\ handoff # "cancel_arrived"
    /\ pc[t] = "resolve_teardown" => record.state # "registering"
    /\ pc[t] \in UnmarkPcs =>
           record.state = "unmarking" /\ slot \in Requests /\ Cancellable(slot)
    /\ pc[t] \in UnmarkPcs \ {"take_slot", "stop_reread"} => held[t] = slot
    /\ pc[t] = "swap" => wdf[slot] = "cancelling"
    /\ pc[t] \in RetirePcs \cup {"complete"} /\ held[t] # NoRequest =>
           wdf[held[t]] \in {"owned", "cancelling"}
    /\ pc[t] \in RetirePcs => \A r \in Requests : pc[r] \notin CallbackPcs
    /\ pc[t] \in RetirePcs => record.state # "free"
    /\ pc[t] = "clear_slot" =>
           IF held[t] = NoRequest THEN t = "dispatch" /\ record.state = "cancelled"
                                  ELSE slot = held[t]
    /\ pc[t] = "free" => slot = NoRequest
    /\ pc[t] = "complete" => held[t] \in Requests
    /\ held[t] # NoRequest =>
           pc[t] \in (OwnerPcs \ {"take_slot", "stop_reread"})
                        \cup {"precheck", "begin", "complete"}
    /\ pc[t] \in {"stop_slot", "stop_cas"} =>
           observed[t].state \in {"registering", "pending", "scheduled"}

Ownership == \A t \in Threads : OwnerKnows(t)

(* Two threads hold the same request only while a registration has yet to  *)
(* notice that the cancellation callback completed it.                     *)
SingleHolder ==
    /\ \A t, u \in Threads :
           t # u /\ held[t] = held[u] /\ held[t] # NoRequest =>
               /\ record.state = "cancelled"
               /\ \/ pc[t] \in {"publish", "resolve_teardown"} /\ pc[u] = "complete"
                  \/ pc[u] \in {"publish", "resolve_teardown"} /\ pc[t] = "complete"
    /\ slot # NoRequest =>
           \A t \in Threads :
               held[t] = slot =>
                   pc[t] \in OwnerPcs \/ (record.state = "cancelled" /\ pc[t] = "complete")

(* The published slot and the record agree.                                *)
Publication ==
    /\ record.state = "free" => slot = NoRequest
    /\ record.state \in {"pending", "scheduled"} =>
           slot \in Requests /\ Cancellable(slot) /\ handoff # "cancel_arrived"
    /\ record.state \in {"registering", "teardown"} =>
           pc["dispatch"] \in RegisterPcs \cup RetirePcs
    /\ record.state = "cancelled" /\ slot # NoRequest =>
           \E t \in Threads : pc[t] \in {"publish", "resolve_teardown", "clear_slot"}
    /\ record.state = "unmarking" /\ slot # NoRequest =>
           wdf[slot] \in {"owned", "marked", "cancelling"}

(* The cancellation callback and its handoff word.                         *)
CallbackKnows(r) ==
    /\ wdf[r] = "marked" =>
           /\ slot = r /\ pc[r] = "idle" /\ handoff = "none"
           /\ record.state \notin {"free", "cancelled"}
           /\ \A t \in Threads : pc[t] \notin RetirePcs
    /\ pc[r] \in CallbackPcs =>
           /\ slot = r /\ wdf[r] = "cancelling" /\ handoff # "cancel_arrived"
           /\ record.state \notin {"free", "cancelled"}
           /\ handoff = "unmark_cancelled" =>
                  record.state = "unmarking" /\ \A t \in Threads : pc[t] \notin OwnerPcs
    /\ pc[r] = "cancel_swap" => record.state = "unmarking"
    /\ pc[r] = "cancel_cas" =>
           observed[r].state \in {"registering", "teardown", "pending", "scheduled"}
    /\ pc[r] \in RetirePcs \cup {"complete"} => held[r] = r
    /\ held[r] \in {NoRequest, r}
    /\ completions[r] <= 1
    /\ wdf[r] # "idle" => completions[r] = 0

Cancellation == \A r \in Requests : CallbackKnows(r)

(* The inductive invariant of the ownership argument.                      *)
OwnershipInv ==
    /\ OwnershipTypes
    /\ ControlOK
    /\ ExclusiveOwner
    /\ Ownership
    /\ SingleHolder
    /\ Publication
    /\ Cancellation

(* What a claimant's older observation of the word is still worth: it was  *)
(* claimable, its sequence has not been overtaken by a registration that   *)
(* is not published yet, and while it is the current one the bits about to *)
(* be added are bits the current registration asked for.                   *)
ClaimantKnows(t) ==
    /\ pc[t] \in {"inspect", "cas"} =>
           /\ observed[t].state \in {"pending", "scheduled"}
           /\ observed[t].sequence <= record.sequence
           /\ observed[t].sequence = record.sequence =>
                  record.state \notin {"free", "registering", "teardown"}
    /\ pc[t] = "cas" /\ observed[t].sequence = record.sequence
       /\ record.state \in {"pending", "scheduled"} =>
           bits[t] # {} /\ bits[t] \subseteq interest

(* The inductive invariant behind ScheduledMaskIsCurrent.                  *)
MaskInv ==
    /\ \A t \in Claimants : ClaimantKnows(t)
    /\ record.state \in {"registering", "pending"} => record.satisfied = {}
    /\ ScheduledMaskIsCurrent
-----------------------------------------------------------------------------
(***************************************************************************)
(* Registration against the scans of the teardowns, and the wake-ups.      *)
(***************************************************************************)
LifecycleKinds == {"power", "owner"}

ScanPcs == {"stop", "stop_slot", "stop_cas"}

(* A wait that can be claimed, or that its registration will publish       *)
(* without another look at the state of the instance.                      *)
Standing ==
    \/ record.state \in {"pending", "scheduled"}
    \/ record.state = "registering" /\ pc["dispatch"] \in {"mark", "publish"}

(* A D0 exit or owner cleanup whose scan is over leaves no wait standing,  *)
(* and until it reopens the instance no registration passes the recheck.   *)
StopperKnows(s) ==
    /\ pc[s] = "idle" => kind[s] = "none"
    /\ pc[s] \in {"clear", "reopen"} => kind[s] \in LifecycleKinds
    /\ kind[s] # "iostop" \/ pc[s] = "flush" => expected[s] = NoRequest
    /\ kind[s] \in LifecycleKinds => ~open
    /\ kind[s] \in LifecycleKinds /\ pc[s] \notin ScanPcs => ~Standing

(* The inductive invariant behind StoppedDirectionHasNoWait and            *)
(* ClosedInstanceHasNoWait: a scan takes whatever wait it finds, so one    *)
(* that is still to come is enough for every direction that has stopped.   *)
ScanInv ==
    /\ \A s \in Stoppers : StopperKnows(s)
    /\ \A s, q \in Stoppers :
          kind[s] \in LifecycleKinds /\ kind[q] \in LifecycleKinds => s = q
    /\ ~open => \E s \in Stoppers : kind[s] \in LifecycleKinds
    /\ Standing => adaptive
    /\ \A b \in Bits :
          Standing /\ b \in interest /\ ~started[b] =>
              \E s \in Stoppers : kind[s] = "queue" /\ pc[s] \in ScanPcs

(* What the bits a thread carries and the request it expects are about:    *)
(* the input of the request that is published, or held.                    *)
InterestKnows(t) ==
    /\ pc[t] \in {"recheck", "mark", "publish", "resolve_teardown"} =>
          interest = asked[held[t]]
    /\ t = "dispatch" /\ pc[t] \in {"level_capture", "level_injection"} \cup ClaimPcs =>
          expected[t] \in Requests /\ slot \in {expected[t], NoRequest}
    /\ t \in {"tx", "rx", "read"} => expected[t] = NoRequest
    /\ pc[t] = "take_slot" => bits[t] # {} /\ bits[t] \subseteq interest
    /\ pc[t] \in {"ready_capture", "ready_injection", "decide"} =>
          bits[t] # {} /\ bits[t] \subseteq asked[held[t]]
    /\ status[t] = "success" =>
          /\ t = "worker" /\ pc[t] \in {"unmark", "clear_slot", "free", "complete"}
          /\ held[t] \in Requests
          /\ bits[t] # {} /\ bits[t] \subseteq asked[held[t]]

(* The inductive invariant behind SuccessReportsReadiness.                 *)
InterestInv ==
    /\ \A t \in Threads : InterestKnows(t)
    /\ record.state \in {"pending", "scheduled", "unmarking"} /\ slot # NoRequest =>
          interest = asked[slot]

(* Thread t carries bit b to a claim that will not give up on a wait that  *)
(* is pending.  A claim that has loaded a word that was scheduled may: it  *)
(* gives up when that word already has its bits, even if the word belongs  *)
(* to an earlier wait.                                                     *)
Carries(t, b) == Claiming(t, b) /\ (pc[t] = "inspect" => observed[t].state = "pending")

CarriesReadable ==
    pc["dispatch"] = "level_capture" \/ \E t \in Claimants : Carries(t, "readable")

(* A frame that receive will put back counts only if it fills the queue    *)
(* again: otherwise somebody else carries the bit.                         *)
CarriesWritable ==
    \/ pc["dispatch"] \in {"level_capture", "level_injection"}
    \/ pc["rx"] = "rx_claim"
    \/ pc["rx"] = "rx_requeue" /\ injection + 1 >= InjectionLimit
    \/ \E t \in Claimants : Carries(t, "writable")

(* The inductive invariant behind NoLostWakeup.                            *)
WakeupInv ==
    record.state = "pending" =>
        /\ "readable" \in interest /\ capture > 0 => CarriesReadable
        /\ open /\ "writable" \in interest /\ Writable # {} => CarriesWritable
=============================================================================
