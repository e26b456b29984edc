----------------------------- MODULE ReceivePath -----------------------------
(***************************************************************************)
(* The receive direction of the adapter: TAP writes put frames into the    *)
(* injection queue, the RX advance callback copies them into the entries   *)
(* of the packet and fragment rings that NetAdapterCx has provided, and    *)
(* rx_notification_armed decides who asks NetAdapterCx to poll again.      *)
(*                                                                         *)
(* The instance stays in D0; owners come and go, and NetAdapterCx stops    *)
(* and starts the queue.  NetAdapterCx is external: it serialises the      *)
(* callbacks of a queue, takes the entries before BeginIndex when none is  *)
(* running, polls as long as an advance makes progress and enables the     *)
(* notification when one does not.  The default I/O queue of the driver is *)
(* sequential, so there is one writer.  The claim of a WRITABLE wait after *)
(* a dequeue is in AdaptiveWait, power transitions in DatapathLifecycle.   *)
(***************************************************************************)
EXTENDS Naturals, Sequences, Functions

CONSTANTS
    Frames,         \* the frames user mode may have under way
    Stale,          \* what a fragment holds when NetAdapterCx provides it
    NoFrame,        \* no frame in the hand of the advance callback
    QueueLimit,     \* FRAME_QUEUE_LIMIT
    WriteLimit,     \* PENDING_WRITE_LIMIT
    PacketCount,    \* NumberOfElements of the packet ring
    FragmentCount,  \* NumberOfElements of the fragment ring
    MaxFaults,      \* bound on the unusable entries an advance meets
    MaxCancels      \* bound on the cancellations of the queue

ASSUME ReceiveAssumption ==
    /\ Stale \notin Frames /\ NoFrame \notin Frames \cup {Stale}
    /\ QueueLimit \in Nat \ {0} /\ WriteLimit \in Nat \ {0}
    /\ PacketCount \in Nat \ {0} /\ FragmentCount \in Nat \ {0}
    /\ MaxFaults \in Nat /\ MaxCancels \in Nat

VARIABLES
    queue,      \* injection_queue
    injectionOpen, \* its QueueState is Open
    armed,      \* rx_notification_armed
    packetRing, \* BeginIndex and EndIndex, and what NetAdapterCx has taken
    packets,    \* Ignore and FragmentIndex of the packets
    fragmentRing,
    fragments,  \* the contents of the fragments
    callback,   \* where the callback of the RX queue is
    hand,       \* the frame an advance has dequeued
    sameOwner,  \* owner_generation is still the one the advance has read
    writer,     \* where evt_io_write is
    pendingWrites,
    cleanup,    \* where evt_file_cleanup is
    polling,    \* NetAdapterCx: what it does with the queue
    dry,        \* NetAdapterCx: the last advance has made no progress
    notified,   \* NetAdapterCx: it has been asked to poll while waiting
    faults, cancelCount,
    owed        \* frames accepted and neither indicated nor given up

rings == <<packetRing, packets, fragmentRing, fragments>>
netAdapter == <<polling, dry, notified, faults, cancelCount>>
rxVars == <<queue, injectionOpen, armed, rings, callback, hand, sameOwner, writer, pendingWrites,
            cleanup, netAdapter, owed>>

Ring(n) == [taken : 0..(n - 1), begin : 0..(n - 1), end : 0..(n - 1)]

ReceiveTypeOK ==
    /\ queue \in Seq(Frames) /\ Len(queue) <= QueueLimit /\ injectionOpen \in BOOLEAN
    /\ armed \in BOOLEAN
    /\ packetRing \in Ring(PacketCount) /\ fragmentRing \in Ring(FragmentCount)
    /\ packets \in [0..(PacketCount - 1) ->
                       [ignore : BOOLEAN, fragment : 0..(FragmentCount - 1)]]
    /\ fragments \in [0..(FragmentCount - 1) -> Frames \cup {Stale}]
    /\ callback \in {"none", "advance", "fill", "check", "take", "notify"}
    /\ hand \in Frames \cup {NoFrame} /\ sameOwner \in BOOLEAN
    /\ writer \in {"idle", "admitted", "checked", "enqueued", "notify"}
    /\ pendingWrites \in 0..WriteLimit
    /\ cleanup \in {"idle", "close", "lock", "clear", "reopen", "return"}
    /\ polling \in {"polling", "waiting", "cancelled", "stopped"}
    /\ dry \in BOOLEAN /\ notified \in BOOLEAN
    /\ faults \in 0..MaxFaults /\ cancelCount \in 0..MaxCancels
    /\ owed \subseteq Frames

UnusedPacket == [ignore |-> FALSE, fragment |-> 0]

ReceiveInit ==
    /\ queue = <<>> /\ injectionOpen = TRUE /\ armed = FALSE
    /\ packetRing = [taken |-> 0, begin |-> 0, end |-> 0]
    /\ fragmentRing = [taken |-> 0, begin |-> 0, end |-> 0]
    /\ packets = [i \in 0..(PacketCount - 1) |-> UnusedPacket]
    /\ fragments = [i \in 0..(FragmentCount - 1) |-> Stale]
    /\ callback = "none" /\ hand = NoFrame /\ sameOwner = TRUE
    /\ writer = "idle" /\ pendingWrites = 0 /\ cleanup = "idle"
    /\ polling = "stopped" /\ dry = FALSE /\ notified = FALSE
    /\ faults = 0 /\ cancelCount = 0
    /\ owed = {}

(* lifecycle = INSTANCE_OPEN *)
IsOpen == cleanup \in {"idle", "return"}

(* increment_index: an index wraps at ElementIndexMask.                    *)
Increment(i, n) == IF i + 1 = n THEN 0 ELSE i + 1

(* The positions from one index up to, and without, another.               *)
Window(from, to, n) ==
    {i \in 0..(n - 1) : IF from <= to THEN from <= i /\ i < to ELSE from <= i \/ i < to}

-----------------------------------------------------------------------------
(***************************************************************************)
(* evt_io_write, under the write lifetime lock.                            *)
(***************************************************************************)
writeUnchanged == <<armed, rings, callback, hand, sameOwner, cleanup, netAdapter>>

(* A request that finds the lock free, the instance open, a valid length   *)
(* and room for one more pending write.  The others change nothing.        *)
WriteEnter ==
    /\ writer = "idle"
    /\ cleanup \notin {"clear", "reopen", "return"} /\ IsOpen
    /\ pendingWrites < WriteLimit
    /\ pendingWrites' = pendingWrites + 1
    /\ writer' = "admitted"
    /\ UNCHANGED <<queue, injectionOpen, owed, writeUnchanged>>

(* release_request saturates at zero.                                      *)
Released == IF pendingWrites = 0 THEN 0 ELSE pendingWrites - 1

(* The buffer cannot be retrieved, the frame not be allocated, or the      *)
(* queue is full or closed at the first or at the second look.             *)
WriteFails ==
    /\ writer \in {"admitted", "checked"}
    /\ pendingWrites' = Released
    /\ writer' = "idle"
    /\ UNCHANGED <<queue, injectionOpen, owed, writeUnchanged>>

HasSpace == injectionOpen /\ Len(queue) < QueueLimit

(* check_capacity, before the frame is allocated.                          *)
WriteCheck ==
    /\ writer = "admitted" /\ HasSpace
    /\ writer' = "checked"
    /\ UNCHANGED <<queue, injectionOpen, pendingWrites, owed, writeUnchanged>>

WriteEnqueue ==
    /\ writer = "checked" /\ HasSpace
    /\ \E f \in Frames \ owed :
          queue' = Append(queue, f) /\ owed' = owed \cup {f}
    /\ writer' = "enqueued"
    /\ UNCHANGED <<injectionOpen, pendingWrites, writeUnchanged>>

(* take_rx_notification, then the request is released and completed.       *)
WriteTake ==
    /\ writer = "enqueued"
    /\ armed' = FALSE
    /\ pendingWrites' = Released
    /\ writer' = IF armed THEN "notify" ELSE "idle"
    /\ UNCHANGED <<queue, injectionOpen, rings, callback, hand, sameOwner, cleanup, netAdapter,
                   owed>>

(* NetRxQueueNotifyMoreReceivedPacketsAvailable: it wakes a queue that     *)
(* waits.                                                                  *)
Notify == notified' = (notified \/ polling = "waiting")

WriteNotify ==
    /\ writer = "notify"
    /\ Notify
    /\ writer' = "idle"
    /\ UNCHANGED <<queue, injectionOpen, armed, rings, callback, hand, sameOwner, pendingWrites,
                   cleanup, polling, dry, faults, cancelCount, owed>>

-----------------------------------------------------------------------------
(***************************************************************************)
(* evt_packet_queue_advance and inject_receive_frames, under a receive     *)
(* lease.                                                                  *)
(***************************************************************************)
advanceUnchanged == <<injectionOpen, armed, writer, pendingWrites, cleanup>>

(* NetAdapterCx polls; without a lease the callback returns at once.       *)
Advance ==
    /\ polling = "polling" /\ callback = "none" /\ ~dry
    /\ packetRing.taken = packetRing.begin
    /\ IF IsOpen THEN callback' = "advance" /\ UNCHANGED dry
       ELSE dry' = TRUE /\ UNCHANGED callback
    /\ UNCHANGED <<queue, rings, hand, sameOwner, polling, notified, faults, cancelCount, owed,
                   advanceUnchanged>>

HasEntry ==
    /\ packetRing.begin # packetRing.end
    /\ fragmentRing.begin # fragmentRing.end

(* The callback returns; NetAdapterCx looks whether BeginIndex has moved.  *)
Return ==
    /\ callback' = "none" /\ sameOwner' = TRUE
    /\ dry' = (packetRing.taken = packetRing.begin)

(* The top of the loop.                                                    *)
AdvanceDequeue ==
    /\ callback = "advance"
    /\ IF HasEntry /\ queue # <<>>
       THEN /\ hand' = Head(queue) /\ queue' = Tail(queue)
            /\ callback' = "fill" /\ UNCHANGED <<dry, sameOwner>>
       ELSE Return /\ UNCHANGED <<hand, queue>>
    /\ UNCHANGED <<rings, polling, notified, faults, cancelCount, owed,
                   advanceUnchanged>>

(* The frame is copied into the fragment and the packet made to refer to   *)
(* it; both BeginIndexes advance.                                          *)
Fill ==
    /\ fragments' = [fragments EXCEPT ![fragmentRing.begin] = hand]
    /\ packets' = [packets EXCEPT ![packetRing.begin] =
                      [ignore |-> FALSE, fragment |-> fragmentRing.begin]]
    /\ packetRing' = [packetRing EXCEPT !.begin = Increment(@, PacketCount)]
    /\ fragmentRing' = [fragmentRing EXCEPT !.begin = Increment(@, FragmentCount)]

AdvanceFill ==
    /\ callback = "fill"
    /\ Fill
    /\ hand' = NoFrame
    /\ callback' = "advance"
    /\ UNCHANGED <<queue, sameOwner, netAdapter, owed, advanceUnchanged>>

(* The packet, its fragment or its address is unusable, or the frame does  *)
(* not fit: requeue_injection_frame puts the frame at the end of the queue *)
(* of its owner, or drops it.                                              *)
AdvanceFault ==
    /\ callback = "fill"
    /\ faults < MaxFaults /\ faults' = faults + 1
    /\ IF IsOpen /\ sameOwner /\ HasSpace
       THEN queue' = Append(queue, hand) /\ UNCHANGED owed
       ELSE owed' = owed \ {hand} /\ UNCHANGED queue
    /\ hand' = NoFrame
    /\ Return
    /\ UNCHANGED <<rings, polling, notified, cancelCount, advanceUnchanged>>

-----------------------------------------------------------------------------
(***************************************************************************)
(* The other callbacks of the RX queue.                                    *)
(***************************************************************************)
callbackUnchanged == <<queue, injectionOpen, hand, sameOwner, writer, pendingWrites, cleanup, owed>>

(* evt_packet_queue_start *)
Start ==
    /\ polling = "stopped"
    /\ polling' = "polling"
    /\ UNCHANGED <<armed, rings, callback, dry, notified, faults, cancelCount, callbackUnchanged>>

(* evt_packet_queue_set_notification_enabled with TRUE: after the store    *)
(* the callback looks for a frame that a writer has queued before it.      *)
EnableNotification ==
    /\ polling = "polling" /\ callback = "none" /\ dry
    /\ polling' = "waiting" /\ dry' = FALSE
    /\ armed' = TRUE
    /\ callback' = "check"
    /\ UNCHANGED <<rings, notified, faults, cancelCount, callbackUnchanged>>

(* Wrong variant: a frame queued before the store is not looked for.       *)
CheckNothing ==
    /\ callback = "check"
    /\ callback' = "none"
    /\ UNCHANGED <<armed, rings, netAdapter, callbackUnchanged>>

(* has_queued_injection_frame *)
CheckQueue ==
    /\ callback = "check"
    /\ callback' = IF queue # <<>> THEN "take" ELSE "none"
    /\ UNCHANGED <<armed, rings, netAdapter, callbackUnchanged>>

TakeNotification ==
    /\ callback = "take"
    /\ armed' = FALSE
    /\ callback' = IF armed THEN "notify" ELSE "none"
    /\ UNCHANGED <<rings, netAdapter, callbackUnchanged>>

CallbackNotify ==
    /\ callback = "notify"
    /\ Notify
    /\ callback' = "none"
    /\ UNCHANGED <<armed, rings, polling, dry, faults, cancelCount, callbackUnchanged>>

(* NetAdapterCx polls again, asked or not, and may disable the             *)
(* notification first.                                                     *)
Resume ==
    /\ polling = "waiting" /\ callback = "none"
    /\ polling' = "polling" /\ notified' = FALSE
    /\ armed' \in {armed, FALSE}
    /\ UNCHANGED <<rings, callback, dry, faults, cancelCount, callbackUnchanged>>

(* Wrong variant: the entries are returned as they are.                    *)
ReturnUnmarked ==
    /\ packetRing' = [packetRing EXCEPT !.begin = packetRing.end]
    /\ fragmentRing' = [fragmentRing EXCEPT !.begin = fragmentRing.end]
    /\ UNCHANGED <<packets, fragments>>

(* Every packet not indicated is marked, and all entries are returned.     *)
ReturnIgnored ==
    /\ packets' = [i \in 0..(PacketCount - 1) |->
                      IF i \in Window(packetRing.begin, packetRing.end, PacketCount)
                      THEN [packets[i] EXCEPT !.ignore = TRUE] ELSE packets[i]]
    /\ packetRing' = [packetRing EXCEPT !.begin = packetRing.end]
    /\ fragmentRing' = [fragmentRing EXCEPT !.begin = fragmentRing.end]
    /\ UNCHANGED fragments

(* evt_packet_queue_cancel *)
Cancel ==
    /\ polling \in {"polling", "waiting"} /\ callback = "none"
    /\ cancelCount < MaxCancels /\ cancelCount' = cancelCount + 1
    /\ ReturnIgnored
    /\ armed' = FALSE
    /\ polling' = "cancelled" /\ dry' = FALSE /\ notified' = FALSE
    /\ UNCHANGED <<callback, faults, callbackUnchanged>>

(* evt_packet_queue_stop, once NetAdapterCx has its entries back.          *)
Stop ==
    /\ polling = "cancelled"
    /\ packetRing.taken = packetRing.begin /\ fragmentRing.taken = fragmentRing.begin
    /\ armed' = FALSE
    /\ polling' = "stopped"
    /\ UNCHANGED <<rings, callback, dry, notified, faults, cancelCount, callbackUnchanged>>

-----------------------------------------------------------------------------
(***************************************************************************)
(* NetAdapterCx's side of the rings.                                       *)
(***************************************************************************)
ringsUnchanged == <<queue, injectionOpen, armed, callback, hand, sameOwner, writer, pendingWrites,
                    cleanup, netAdapter>>

HasRoom(ring, n) == Increment(ring.end, n) # ring.taken

ProvidePacket ==
    /\ polling \in {"polling", "waiting"} /\ callback = "none"
    /\ HasRoom(packetRing, PacketCount)
    /\ packets' = [packets EXCEPT ![packetRing.end] = UnusedPacket]
    /\ packetRing' = [packetRing EXCEPT !.end = Increment(@, PacketCount)]
    /\ UNCHANGED <<fragmentRing, fragments, owed, ringsUnchanged>>

ProvideFragment ==
    /\ polling \in {"polling", "waiting"} /\ callback = "none"
    /\ HasRoom(fragmentRing, FragmentCount)
    /\ fragments' = [fragments EXCEPT ![fragmentRing.end] = Stale]
    /\ fragmentRing' = [fragmentRing EXCEPT !.end = Increment(@, FragmentCount)]
    /\ UNCHANGED <<packetRing, packets, owed, ringsUnchanged>>

Returned == Window(packetRing.taken, packetRing.begin, PacketCount)

(* The returned packets that are indicated to the stack.                   *)
Indicated == {i \in Returned : ~packets[i].ignore}

(* The entries before BeginIndex are taken, and what they hold with them.  *)
TakeEntries ==
    /\ callback = "none"
    /\ packetRing.taken # packetRing.begin \/ fragmentRing.taken # fragmentRing.begin
    /\ owed' = owed \ {fragments[packets[i].fragment] : i \in Indicated}
    /\ packetRing' = [packetRing EXCEPT !.taken = packetRing.begin]
    /\ fragmentRing' = [fragmentRing EXCEPT !.taken = fragmentRing.begin]
    /\ packets' = [i \in 0..(PacketCount - 1) |->
                      IF i \in Returned THEN UnusedPacket ELSE packets[i]]
    /\ fragments' = [i \in 0..(FragmentCount - 1) |->
                        IF i \in Window(fragmentRing.taken, fragmentRing.begin, FragmentCount)
                        THEN Stale ELSE fragments[i]]
    /\ UNCHANGED ringsUnchanged

-----------------------------------------------------------------------------
(***************************************************************************)
(* evt_file_cleanup, as the receive direction sees it.                     *)
(***************************************************************************)
cleanupUnchanged == <<armed, rings, callback, hand, writer, netAdapter>>

CleanupRetire ==
    /\ cleanup = "idle"
    /\ cleanup' = "close"
    /\ sameOwner' = (callback \notin {"advance", "fill"})
    /\ UNCHANGED <<queue, injectionOpen, pendingWrites, owed, cleanupUnchanged>>

(* The owner closer; then the drain of the leases and the two locks.       *)
CleanupClose ==
    /\ cleanup = "close"
    /\ cleanup' = "lock"
    /\ UNCHANGED <<queue, injectionOpen, sameOwner, pendingWrites, owed, cleanupUnchanged>>

(* Wrong variant: it also waits for the queue, which nobody empties now.   *)
CleanupAwaitsQueue ==
    /\ cleanup = "lock"
    /\ callback \notin {"advance", "fill"} /\ writer = "idle" /\ queue = <<>>
    /\ cleanup' = "clear"
    /\ UNCHANGED <<queue, injectionOpen, sameOwner, pendingWrites, owed, cleanupUnchanged>>

CleanupLock ==
    /\ cleanup = "lock"
    /\ callback \notin {"advance", "fill"} /\ writer = "idle"
    /\ cleanup' = "clear"
    /\ UNCHANGED <<queue, injectionOpen, sameOwner, pendingWrites, owed, cleanupUnchanged>>

(* clear_frame_queues, and the reset of the counters.                      *)
CleanupClear ==
    /\ cleanup = "clear"
    /\ queue' = <<>> /\ injectionOpen' = FALSE
    /\ owed' = owed \ Range(queue)
    /\ pendingWrites' = 0
    /\ cleanup' = "reopen"
    /\ UNCHANGED <<sameOwner, cleanupUnchanged>>

(* reopen_frame_queues, INSTANCE_OPEN and the release of the closer.       *)
CleanupReopen ==
    /\ cleanup = "reopen"
    /\ injectionOpen' = TRUE
    /\ cleanup' = "return"
    /\ UNCHANGED <<queue, sameOwner, pendingWrites, owed, cleanupUnchanged>>

(* The locks are released.                                                 *)
CleanupReturn ==
    /\ cleanup = "return"
    /\ cleanup' = "idle"
    /\ UNCHANGED <<queue, injectionOpen, sameOwner, pendingWrites, owed, cleanupUnchanged>>

-----------------------------------------------------------------------------
Writing ==
    WriteFails \/ WriteCheck \/ WriteEnqueue \/ WriteTake \/ WriteNotify

Running ==
    \/ AdvanceDequeue \/ AdvanceFill \/ AdvanceFault
    \/ CheckQueue \/ TakeNotification \/ CallbackNotify

Cleaning ==
    CleanupClose \/ CleanupLock \/ CleanupClear \/ CleanupReopen \/ CleanupReturn

ReceiveNext ==
    \/ WriteEnter \/ Writing \/ Running
    \/ Start \/ Advance \/ EnableNotification \/ Resume \/ Cancel \/ Stop
    \/ ProvidePacket \/ ProvideFragment \/ TakeEntries
    \/ CleanupRetire \/ Cleaning

ReceiveSpec == ReceiveInit /\ [][ReceiveNext]_rxVars

(* The threads of the driver run.  NetAdapterCx polls, takes and provides  *)
(* entries, wakes when it is notified and restarts a queue it has stopped. *)
(* Writes and cleanups need not come, nor need NetAdapterCx poll unasked.  *)
ReceiveFairSpec ==
    /\ ReceiveSpec
    /\ WF_rxVars(Writing) /\ WF_rxVars(Running) /\ WF_rxVars(Cleaning)
    /\ WF_rxVars(Start) /\ WF_rxVars(Stop) /\ WF_rxVars(Advance)
    /\ WF_rxVars(EnableNotification)
    /\ WF_rxVars(notified /\ Resume)
    /\ SF_rxVars(ProvidePacket) /\ SF_rxVars(ProvideFragment) /\ WF_rxVars(TakeEntries)

-----------------------------------------------------------------------------
(***************************************************************************)
(* Properties.                                                             *)
(***************************************************************************)

(* NetAdapterCx never waits over a queued frame with no request to poll on *)
(* its way: the arming callback stores the flag before it looks for a      *)
(* frame, a write queues its frame before it takes the flag.               *)
NoFrameSleeps ==
    polling = "waiting" /\ queue # <<>> =>
        \/ notified
        \/ writer \in {"enqueued", "notify"}
        \/ callback \in {"check", "take", "notify"}

(* Where the accepted frames are, the queue apart.                         *)
Underway == {fragments[packets[i].fragment] : i \in Indicated}
                \cup (IF hand = NoFrame THEN {} ELSE {hand})

(* A frame that a write has accepted is in one place: in the queue, in the *)
(* hand of the advance callback, or in the fragment of one packet that     *)
(* NetAdapterCx will indicate.  No packet is indicated with what an        *)
(* earlier use has left in it, after a cancellation or an unusable entry.  *)
FrameHasOnePlace ==
    /\ IsInjective(queue)
    /\ \A i, j \in Indicated :
          fragments[packets[i].fragment] = fragments[packets[j].fragment] => i = j
    /\ Underway \cap Range(queue) = {}
    /\ \A i \in Indicated : fragments[packets[i].fragment] # hand
    /\ Underway \cup Range(queue) = owed

(* An accepted frame is indicated or given up; it does not stay behind     *)
(* when NetAdapterCx stops polling, cancels the queue or meets entries it  *)
(* cannot use.                                                             *)
FrameIsIndicated == \A f \in Frames : f \in owed ~> f \notin owed

=============================================================================
