# A TLA+ model of WinTapNetAdapterCx

Specifications of the WinTap driver, its bus driver and the two-endpoint switch, checked with
TLC on small instances. Every safety property checked there is also proved with TLAPS for every
value of the constants; liveness is only model-checked. `PROJECT.json` maps each definition to the
lines it models.

Below, `driver` is `crates/wintap-netadaptercx-driver/src/lib.rs`, `bus` is
`crates/wintap-bus-driver/src/lib.rs`, `switch` is `crates/wintap-switch/src/main.rs` and
`core` is `crates/wintap-switch-core/src/lib.rs`.

## The system

A **bus driver** enumerates virtual TAP adapters. User mode asks it to create, remove, query or
list children; the framework's child list builds and removes their PDOs.

Each child is driven by the **NetAdapterCx driver**. Its transmit callback captures frames into
a capture queue or hands them straight to a pending read. User-mode writes go into an injection
queue that the receive callback empties into the RX ring; when NetAdapterCx stops polling, it
arms a notification that the next write takes. A handle that negotiated *adaptive polling* gets
its frames by polling reads and may block in one `WAIT_FOR_CHANGE` request. D0 entry and exit,
prepare and release hardware, packet-queue stop and owner cleanup close and reopen all of this
concurrently.

The **switch** opens two TAP interfaces, negotiates one mode for both and forwards frames
between them over an I/O ring.

### Inventory

| Part | Source | Model |
| --- | --- | --- |
| Adaptive wait protocol | driver | `AdaptiveWait` |
| Admission, power, hardware and owner lifecycle | driver | `DatapathLifecycle` |
| Read path: both modes, direct delivery, work item, `pending_reads` | driver | `ReadPath` |
| Write path, receive path, receive notification | driver | `ReceivePath` |
| Packet and fragment rings | `ring.rs`, driver | `ReceivePath` (receive side); the transmit ring is a number of packets in `ReadPath` |
| Frame queue | `frame_queue.rs` | `FrameQueue`, abstractly `FrameFifo` |
| Object creation, receive filter | driver | not modelled |
| Switch runtime, buffer pool, negotiation | switch, core | `SwitchRuntime` |
| Forwarding database | core | `Forwarding` |
| Command line and discovery | switch | not modelled |
| Manager requests, child list, PDO cleanup | bus | `BusManager` |
| Identifiers and descriptors | bus | not modelled |
| WDK location, bindings, build, packaging, scripts | `crates/wintap-wdk-bootstrap`, `scripts`, `tests` | not modelled |

## Modules

**AdaptiveWait.** `record` is the packed word (sequence, satisfied mask, state), `slot` the
published request, `handoff` the word that settles a cancellation against an unmark, `wdf` the
framework's view of each request. Every atomic operation another thread can tell apart is a
step. Retry loops that depend only on the current word are one step; the claim loop, which
exchanges against an older observation, is not. Spurious failures of the weak exchange are not
modelled: they only repeat the loop. Handles are recycled once completed.

**DatapathLifecycle.** The two lease words are sets of closers and holders. A frame queue is the
set of owner generations whose frames it holds, which is what the ownership properties tell
apart. The power callbacks run one at a time, as WDF runs them; handles and datapath threads
interleave freely. Release hardware nulls the adapter, so a later prepare fails, as in the code.

**ReadPath.** One handle, from its creation to its cleanup, in D0. Three threads of the driver
(a read handler, the transmit callback, the work item), the mode change and the cleanup, each
cut where another thread can see a difference. The manual queue is a set of requests: WDF gives
them back in order, but no property depends on which read gets which frame, and captured frames
are counted. `pending_reads`, its admission limit, direct delivery under the direct-read lock,
the requeue of an undelivered frame and the scheduling of the work item are as in the code.
`ClaimedWait` stands for the claim of a wait, which queues the same work item (`AdaptiveWait`).

**ReceivePath.** A writer, the callbacks of the RX packet queue (advance, start, stop, cancel,
set-notification), NetAdapterCx, and owner cleanups, over two rings of indexes. The fragment a
packet refers to, the `Ignore` flag and what is left in an entry from its earlier use are state,
so a stale packet would be seen. `owed` is a ghost: the frames that a write has accepted and that
are neither indicated nor given up by a documented path.

**FrameQueue / FrameFifo.** The ring of `MaybeUninit` slots, and the bounded queue it promises
to be. Every operation runs under the queue's lock and is one action. The ghost variables
`allocated` and `outside` say who owns each frame.

**SwitchRuntime.** One thread, with the I/O ring and the driver as an environment that completes
operations in any order and with any result. It begins with the opening and negotiation of the
two endpoints, including the closing and reopening of both when the peer cannot do adaptive
polling. Errors at every framework call lead to shutdown and drop, as in the code.

**BusManager.** A stretch of code under `BusStateGuard` is a step; what lies between two such
stretches interleaves with the child-list callback and PDO cleanups. External assumptions: a
description is present once per GUID; a PDO goes only when missing or with the bus; the bus is
cleaned up after its PDOs. Request identifiers and interface names are abstracted away.

**Forwarding.** `Switch::forward` on (source, destination, VLAN). Frames that `parse_frame`
rejects change nothing. `seen` is a ghost: where a station last spoke.

How the driver's modules fit together: each models one shared structure in full and keeps of the
others what it depends on. `DatapathLifecycle` gives the leases and locks under which the steps of
`ReadPath` and `ReceivePath` run; those two contain the owner cleanup that meets their threads,
with its locks, drains and purge, and leave the power transitions to `DatapathLifecycle`.
`AdaptiveWait` has its own teardown threads. `FrameQueue` justifies treating a queue as a bounded
sequence or a count.

The `MC*` modules hold instances only. A definition whose comment begins "Wrong variant" is used
by no specification; it shows that a property can fail.

## Runs

| Run | Checks |
| --- | --- |
| `wait_readable` | `NoLostWakeup`, `StoppedDirectionHasNoWait`. Captures, and reads that put their frame back, race the registration of a READABLE wait and a packet-queue stop: no wakeup is lost and a stopped direction keeps no claimable wait. |
| `wait_writable` | `NoLostWakeup`, `SuccessReportsReadiness`, `ClosedInstanceHasNoWait`, `ScheduledMaskIsCurrent`, `AtMostOneCompletion`, `UnmarkTouchesLiveRequest`. Successive registrations that recycle one handle, with either interest, while the injection queue oscillates between full and not full and cancellation and owner cleanup compete. No wakeup is lost, a successful wait reports a readiness its caller asked for, a stalled claimant leaves the next registration alone, cleanup leaves no wait behind, and a request is completed once and never touched after that. |
| `wait_liveness` | `OwnershipInv`, `RecordResolves`, `CancelledWaitCompletes`, `ReadyWaitIsTaken`. D0 exit and EvtIoStop against captures, the work item and a cancellation: the record never stays in a transient state, a cancelled wait is completed and a ready wait is taken. `OwnershipInv` is the inductive invariant of the proof. |
| `lifecycle_safety` | `QuiescedScopeIsDrained`, `CaptureBelongsToOwner`. Packet callbacks, reads and mode changes against owner cleanup, power cycles and a second prepare: no callback holds a lease while a teardown clears the queues, and an open instance captures for its present owner only. |
| `lifecycle_liveness` | `PoweredDownIsQuiet`, `CleanupCompletes`, `PowerCallbackCompletes`. Owner cleanup and every PnP and power callback return although packet callbacks and writes keep coming, and leave a powered-down instance empty, closed and unadmitted. |
| `lifecycle_cleanup_race` (violated) | `AdmittedQueueIsOpen`. A cleanup that overlaps D0 entry closes the queues D0 entry has reopened and leaves with no power or hardware closer set. |
| `read_path` | `PendingReadsCoverReads`, `CleanupCompletesReads`, `CaptureServesReads`. `pending_reads` never undercounts the reads that wait, the cleanup of a legacy owner leaves no read behind, and a frame captured while a read waits gets to a read. |
| `receive_path` | `NoFrameSleeps`, `FrameHasOnePlace`, `FrameIsIndicated`. No wake-up of NetAdapterCx is lost, an accepted frame is in one place and no packet is indicated with old contents, and every accepted frame is indicated or given up. |
| `frame_queue` | `WindowIsInitialised`, `EveryFrameHasOneOwner`, `WritableMeansRoom`, `ImplementsFifo`. The ring, through every position of its head, implements a bounded first-in first-out queue, never reads a slot without a frame, and leaks or duplicates no frame. A queue below its frame limit has room for any frame, so readiness may look at the length alone. |
| `switch` | `EndpointsShareTheMode`, `BufferHasOneUser`, `NoSlotIsLost`, `ClosedMeansUnused`, `WaitBufferIsReserved`, `BlockedMeansArmed`, `StopCompletes`. Both loops, every outcome of every ring operation and a failure at every step: the endpoints share one mode, a buffer has one user and is not freed under the kernel, no slot is lost, the thread blocks only with the right waits armed, and a stop request ends the process although reads may pend for ever. |
| `bus_manager` | `OneDevicePerGuid`, `EnumerationIsComplete`, `AbsentMeansGone`, `RemoveTerminates`. Two GUIDs created, removed and re-created with failures at every framework call and a bus removal at any time: a GUID has one device that agrees with its node, a paged walk that no reclaim disturbs misses nobody, ABSENT is reported only when the device is gone, and no child stays REMOVING for ever. |
| `forwarding` | `ReachesStation`, `LearntStationIsPrivate`. Stations talk and move between three endpoints on two VLANs while the database is full: a unicast frame reaches where its station last spoke, and a learnt station's frames reach nobody else. |

## Disagreements

One run ends in a counterexample. `lifecycle_cleanup_race`: a cleanup that began while the
instance was suspended clears the frame queues (driver 2966) after D0 entry reopened them. Nobody
reopens them, and neither of the closers that the comment at 3001-3003 relies on is set.

The following were met while modelling and are part of the models as the code has them. The
passing properties are stated so that they hold with them. All are statements about the models;
none has been reproduced on a running driver.

- `pending_reads` stays too high when a queued read is cancelled: the manual queue (2847) has no
  cancellation callback. `specs/design.md:392-397` has it decremented "exactly once when the
  request is retrieved, cancelled, purged, or removed". Hence `PendingReadsCoverReads` bounds it
  from one side only.
- A read that passed its mode check (3129) before ENABLE_ADAPTIVE_POLLING may be forwarded to the
  manual queue (3338) after it; `specs/design.md:560-561` says an adaptive read "is never placed
  on the manual read queue". An adaptive owner's cleanup does not purge that queue, which is why
  `CleanupCompletesReads` speaks of a legacy owner.
- A frame captured between the dequeue of a legacy read and its forward (3367) does not serve that
  read until something else schedules the work item (`specs/design.md:210-213`). Hence
  `CaptureServesReads` starts from a read that already waits in the queue.
- A frame that could not be delivered is requeued at the tail, or dropped when the queue is full
  (`specs/design.md:218-220`), and direct delivery may overtake older captured frames.
- Owner cleanup publishes `INSTANCE_OPEN` (2983) before it restarts the manual read queue (2998);
  `specs/current-status.md:41-43` gives the other order.
- `control_open` is cleared (2976) before the owner closer is released, so the cleanups of two
  handles can overlap and share that closer (`specs/requirements.md:1223-1225`). Hence
  `DrainLasts` and `CaptureStaysWithItsOwner` assume one handle.
- A write that waits for the lifetime lock (3377) through a cleanup is enqueued for the next owner;
  no generation is compared (`specs/requirements.md:1251-1252`).
- A child is `ACTIVE` with success once its PDO is linked (bus 1342), before its interface exists
  (`specs/requirements.md:752-753`); a REMOVE whose child-list update fails reports `FAILED`
  (bus 1304) with the device still there (`specs/design.md:1105-1106`).

## Bounds

- **Wait.** Queue limits of 1 make every enqueue an empty-to-nonempty and every dequeue a
  full-to-not-full transition, the ones that claim a wait. Three registrations let a claimant
  stall across a retirement and meet another interest. The 48-bit sequence never wraps in the
  model. The runs split interests, callers and teardown kinds between them; the proofs do not.
- **Lifecycle.** One handle, one retired owner, and up to six power callbacks: prepare, D0 entry,
  D0 exit, then either a second cycle or release and a second prepare.
- **Read path.** Three reads over a limit of two, so a read is refused; a capture queue of two
  frames that fills; advances of up to two packets.
- **Receive path.** Two frames over a queue of one, so a write and a requeue meet a full queue;
  rings of four entries that wrap; one unusable entry and one cancellation at any moment; any
  number of owners.
- **Frame queue.** Limit 3, five frames of four sizes, one of them too short: the ring fills, wraps
  and is closed and reopened in every position.
- **Switch.** One slot per endpoint, two generations and one busy retry reach generation exhaustion
  and the end of the retries. Contention between two slots of one endpoint is not explored.
- **Bus.** Two GUIDs, two PDOs, one record a page; a default, an explicit and a too small MTU.
- **Forwarding.** Three endpoints, two stations, two VLANs, room for two of the four entries. This
  is the only run with symmetry.

Deadlock checking is off where the system may stop: the wait once its sequence bound is used up,
the lifecycle once its bounds are, the read path after the cleanup of its handle, and the bus once
its device is gone.

## Fairness

Nothing obliges user mode to send a request, or Windows to begin a power transition.

- `AdaptiveWait`: weak fairness for a callback that is already running. No callback is assumed to
  be called again, and D0 entry is not assumed to come.
- `DatapathLifecycle`: weak fairness for running callbacks; strong fairness for taking a wait lock,
  an assumption that `WdfWaitLockAcquire` does not starve a waiter; strong fairness for a packet
  callback finding its ring or queue empty, since a ring is finite.
- `ReadPath`: weak fairness for a callback that has begun, the work item once queued included.
- `ReceivePath`: weak fairness for the driver's threads and for NetAdapterCx, which polls until it
  arms the notification, wakes when notified and restarts a queue it stopped; strong fairness for
  its handing out of ring entries, which a stop or a cancellation can interrupt.
- `SwitchRuntime`: the thread runs, submitted writes and cancellations complete, closed handles are
  cleaned up, and a wait being drained ends. If `CancelIoEx` fails, this last point relies on the
  driver ending the wait by itself. Reads may pend for ever.
- `BusManager`: running handlers proceed, and the framework builds and removes devices it was told
  about.

## Proofs

Every theorem is for all values of the constants that satisfy the module's named assumptions:
thread names are distinct, null values are no members, limits are positive, sets that are counted
are finite. Every safety property that a passing run checks has a theorem, and so has the
refinement of `FrameFifo`. Three of the modules below hold the theorems of two specifications and
extend both, which is why the names of `ReceivePath` (`ReceiveInit`, ...), `FrameQueue`
(`QueueInit`, ...) and `Forwarding` (`FdbInit`, ...) are their own.

**The wait protocol** (`AdaptiveWaitProofs`; definitions in `AdaptiveWaitInvariant`, lemmas in
`AdaptiveWaitOwnership`, `AdaptiveWaitRegistration`, `AdaptiveWaitTeardown`). Five arguments, the
later ones resting on the earlier:

- `OwnershipInv` gives `OwnershipHolds`, `CompletesAtMostOnce`, `UnmarksOnlyLiveRequests`,
  `SlotIsLive` and `TypeCorrect`. That a wait completes at most once is not inductive: a step that
  completes a request does not show that nobody else will. `OwnershipInv` adds what each control
  point may rely on. At most one thread owns the record (`ExclusiveOwner`); it knows the state of
  its request (`OwnerKnows`); two threads hold the same request only while a registration has yet
  to notice a cancellation (`SingleHolder`); slot, record and handoff agree (`Publication`,
  `CallbackKnows`).
- `MaskInv` gives `MaskIsCurrent`: while the sequence of a stalled claimant's observation is
  current, its bits belong to the current interest.
- `InterestInv` gives `SuccessIsReady`: the published interest is what the request in the slot asked
  for, so the bits that the work item reports are bits of its own request, although handles are
  recycled.
- `ScanInv` gives `StopLeavesNoWait` and `ClosingLeavesNoWait`. A wait *stands* when it is pending,
  scheduled, or registering and past its recheck. Only the recheck makes a wait stand, and it fails
  behind a closed gate; a scan ends with no wait standing. So a standing wait of a stopped direction
  has a scan still to come.
- `WakeupInv` gives `WakeupsAreKept`. `NoLostWakeup` counts every thread on its way to a claim. Some
  of those may give up: one that has loaded a word of an earlier wait which already had its bits, and
  a receive that puts its frame back without filling the queue. The invariant counts only the ones
  that will not.

**Lifecycle and receive path** (`DatapathProofs`). `PowerDownIsQuiet` for any number of handles;
`DrainLasts` and `CaptureStaysWithItsOwner` for one handle, any datapath threads, generations and
power cycles. A closer stays set from its close to its owner's readmission, and no lease is granted
meanwhile (`WordsInv`). The direct-read lock has one holder, so a cleanup that is reopening the
queues does not overlap a power transition that clears them (`LockInv`). A power transition takes the
lifecycle before it waits for that lock, so no cleanup decides to reopen after it (`QuietInv`).
Whoever publishes OPEN has emptied the capture queue while nobody was past the lifecycle check
(`BeforeOpen`), so frames under way belong to the owner under whom they were taken (`FrameInv`).

`WakeUpIsNotLost` and `FramesHaveOnePlace` for any rings, limits and frames. `SleepInv` adds that a
wait of NetAdapterCx with the flag clear has been notified already or is about to be, and that its
callbacks run only in the polling state they belong to. `PlaceInv` adds the order of the ring
indexes, that an indicated packet refers to a returned fragment, that no two refer to the same frame,
and that rings, queue and the frame in hand share no frame and are together what is owed.

**Read path and frame queue** (`QueueProofs`). `CountCoversReads` and `CleanupLeavesNoRead` for any
finite set of reads and any limits. `ReadPlaces` says that a read is in one place; `ReadCount` that
the counter covers the reads that wait, on the queue or with the handler or the work item;
`ReadCleanupInv` what a cleanup has waited for at each of its steps.

`RingHolds`, `ReadsOnlyInitialisedSlots`, `FramesHaveOneOwner`, `WritableQueueHasRoom` and
`RingIsAQueue` for every pool, size and limit. The argument counts positions from the head: enqueue
fills position `length`, dequeue empties position 0 (`RingInv`). `BytesInv` adds that the running
byte count is the sum of the sizes of the queued frames. Appending to a sum, taking its first frame
off and bounding it are lemmas by induction on the length; the induction is derived from the
well-foundedness of the order on the natural numbers, applied to a set. `RingIsAQueue` is the
refinement: each step of the ring is a step of `FrameFifo`, or a stutter.

**The switch** (`SwitchRuntimeProofs`), for any number of slots, generations, retries and reopenings.
`RelayRunsInOneMode` from `ModeInv`, what each step of the start has settled. `WaitBuffersAreReserved`
and `BlockingIsArmed` from `WaitInv`: a wait is with the driver exactly while it is counted as
pending. `BuffersHaveOneUser`, `SlotsAreKept` and `ClosedRingIsUnused` from `PoolInv`: every read or
write in the ring or the completion queue is the operation its slot is at, is there once, and is
known to be queued. The lemma `SlotsMove` carries all posting: a slot that no entry refers to may
take a new operation. The forwarding database, for any endpoints, stations, VLANs and capacity:
`FramesReachTheirStation` and `LearntTrafficIsPrivate` from `FdbInv`, that an entry names where its
station last spoke.

**The bus** (`BusManagerProofs`), for any GUIDs, MTUs, devices and page sizes: `GuidHasOneDevice`,
`AbsentChildHasNoDevice`, `EnumerationMissesNobody`. The list of nodes is treated as a partial
function from GUIDs to nodes. `BusInv` says how descriptions, devices, nodes, the creation callback
and the manager's request fit together: a device is the callback's, its node's, or on its way out
after its description. `WalkFits` says that whoever a walk has yet to report is behind its cursor.

Only model-checked: liveness (`RecordResolves`, `CancelledWaitCompletes`, `ReadyWaitIsTaken`,
`CleanupCompletes`, `PowerCallbackCompletes`, `CaptureServesReads`, `FrameIsIndicated`,
`StopCompletes`, `RemoveTerminates`), which needs fairness and `ENABLED`, out of the prover's reach.
The type invariants other than that of `AdaptiveWait` are proved only as far as the invariants above
need them.

## Not modelled

- **Driver entry, device add, adapter and packet-queue creation.** Sequential start-up code; the
  models begin once these objects exist.
- **Receive filter.** Stored under the state lock and read by no datapath code.
- **EvtIoStop of the manual queue** (driver 3462). WDF calls it in power transitions only, and
  `ReadPath` stays in D0. `AdaptiveWait` has EvtIoStop for waits.
- **Frame contents, OIDs, MTU parsing, identifiers, descriptors, command line, choice of the I/O
  ring version.** Pure data whose outcome is a constant or a nondeterministic choice of a model.
- **One composed model of the whole driver.** Wait, reads, receive and power together are beyond
  TLC; the modules overlap at owner cleanup instead, as described above.
- **WDK bootstrap, bindings, build, packaging, scripts, tests.** Not part of the running system.
