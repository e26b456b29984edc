------------------------------ MODULE BusManager ------------------------------
(***************************************************************************)
(* The bus driver: the manager's CREATE, REMOVE, QUERY and ENUMERATE       *)
(* requests, the child-list callback that builds a child's PDO, and the    *)
(* cleanup callback of that PDO.                                           *)
(*                                                                         *)
(* The manager queue dispatches sequentially, so one handler runs at a     *)
(* time; the child-list callback and the PDO cleanups run on PnP threads   *)
(* beside it.  A stretch of code under BusStateGuard is one step, taken    *)
(* while the wait lock is free; what a handler does between two guarded    *)
(* stretches is a step of its own.  The framework's child list, the PnP    *)
(* manager and the child's own driver are external.                        *)
(***************************************************************************)
EXTENDS Naturals, Sequences

CONSTANTS
    Guids,          \* adapter GUIDs the manager names
    RequestedMtus,  \* values of requested_mtu that CREATE carries
    Pdos,           \* physical device objects the framework hands out
    Capacity,       \* records that fit the buffer of an ENUMERATE
    NoPdo,          \* the null pdo of a ChildNode
    NoGuid

ASSUME BusAssumption ==
    /\ RequestedMtus \subseteq Nat
    /\ Capacity \in Nat \ {0}
    /\ NoPdo \notin Pdos
    /\ NoGuid \notin Guids

VARIABLES
    children,   \* BusState.children, head first
    guard,      \* the callback still holds BusState.lock at the end of a step
    manager,    \* the request handler of the sequential manager queue
    reply,      \* the record a handler answered with in the last step
    walk,       \* a client reading the list page by page
    callback,   \* evt_child_list_create_device
    pdo,        \* the device objects and their ChildPdoContext
    list,       \* the framework's child list, by GUID
    bus         \* the bus device: "present", "removed" or "gone"

vars == <<children, guard, manager, reply, walk, callback, pdo, list, bus>>

DefaultMtu == 1500
MinimumMtu == 1500
MaximumMtu == 65521

ValidMtu(requested) == requested = 0 \/ requested \in MinimumMtu..MaximumMtu

EffectiveMtu(requested) == IF requested = 0 THEN DefaultMtu ELSE requested

Lifecycles == {"CREATING", "ACTIVE", "REMOVING", "FAILED"}
Statuses == {"pending", "success", "failure"}
ValidMtus == {EffectiveMtu(m) : m \in RequestedMtus} \cap MinimumMtu..MaximumMtu

NoReply == [guid |-> NoGuid, lifecycle |-> "none", status |-> "success"]
IdleManager == [pc |-> "idle", guid |-> NoGuid, mtu |-> 0, withoutPdo |-> FALSE]
IdleCallback == [pc |-> "idle", guid |-> NoGuid, mtu |-> 0, pdo |-> NoPdo]
NoWalk == [on |-> FALSE, cursor |-> 0, seen |-> {}, due |-> {}, shrunk |-> FALSE]
FreePdo == [state |-> "free", guid |-> NoGuid, mtu |-> 0, published |-> FALSE]
Unlisted == [state |-> "none", mtu |-> 0, missing |-> FALSE]

Init ==
    /\ children = <<>>
    /\ guard = FALSE
    /\ manager = IdleManager
    /\ reply = NoReply
    /\ walk = NoWalk
    /\ callback = IdleCallback
    /\ pdo = [p \in Pdos |-> FreePdo]
    /\ list = [g \in Guids |-> Unlisted]
    /\ bus = "present"

-----------------------------------------------------------------------------
(* The linked list of ChildNodes. *)

Known(g) == \E i \in DOMAIN children : children[i].guid = g

FindChild(g) == CHOOSE i \in DOMAIN children : children[i].guid = g

Node(g) == children[FindChild(g)]

Unlinked(nodes, k) ==
    [i \in 1..(Len(nodes) - 1) |-> nodes[IF i < k THEN i ELSE i + 1]]

Reclaim(g) ==
    /\ children' = Unlinked(children, FindChild(g))
    /\ walk' = [walk EXCEPT !.due = @ \ {g}, !.shrunk = @ \/ walk.on]

SetLifecycle(g, lifecycle, status) ==
    /\ children' = [children EXCEPT ![FindChild(g)].lifecycle = lifecycle,
                                    ![FindChild(g)].status = status]
    /\ walk' = walk

MarkChildFailure(g) ==
    IF Known(g)
    THEN SetLifecycle(g, "FAILED", "failure")
    ELSE UNCHANGED <<children, walk>>

-----------------------------------------------------------------------------
(* The manager's requests.  request_id only travels through the node into  *)
(* the answers and is left out; so is interface_name, which no code sets.  *)

ManagerOnly == UNCHANGED <<guard, callback, pdo, list, bus>>

Accepts == manager.pc = "idle" /\ bus # "gone" /\ ~guard

Answer(g, lifecycle, status) ==
    reply' = [guid |-> g, lifecycle |-> lifecycle, status |-> status]

\* A header without a record: BUSY, NOT_FOUND or INSUFFICIENT_RESOURCES.
Refuse == reply' = NoReply /\ UNCHANGED <<children, walk, manager>>

ManagerCreate(g, requested) ==
    /\ Accepts
    /\ ValidMtu(requested)
    /\ \/ /\ Known(g)
          /\ Refuse
       \/ /\ ~Known(g)
          /\ Refuse     \* allocate_value returned null
       \/ /\ ~Known(g)
          /\ children' = <<[guid |-> g, lifecycle |-> "CREATING",
                            status |-> "pending",
                            mtu |-> EffectiveMtu(requested),
                            pdo |-> NoPdo]>> \o children
          /\ manager' = [IdleManager EXCEPT !.pc = "add", !.guid = g,
                                            !.mtu = EffectiveMtu(requested)]
          /\ reply' = NoReply
          /\ UNCHANGED walk
    /\ ManagerOnly

\* WdfChildListAddOrUpdateChildDescriptionAsPresent fails when the GUID is
\* already described, and may fail for want of resources.
AddChild ==
    LET g == manager.guid IN
    /\ manager.pc = "add"
    /\ \/ /\ list[g].state = "none"
          /\ bus = "present"
          /\ list' = [list EXCEPT ![g] = [state |-> "new", mtu |-> manager.mtu,
                                          missing |-> FALSE]]
          /\ manager' = [manager EXCEPT !.pc = "record"]
       \/ /\ manager' = [manager EXCEPT !.pc = "mark"]
          /\ UNCHANGED list
    /\ reply' = NoReply
    /\ UNCHANGED <<children, guard, walk, callback, pdo, bus>>

Removable(g) == Known(g) /\ Node(g).lifecycle \notin {"CREATING", "REMOVING"}

ManagerRemove(g) ==
    /\ Accepts
    /\ IF Removable(g)
       THEN /\ SetLifecycle(g, "REMOVING", "pending")
            /\ manager' = [IdleManager EXCEPT !.pc = "missing", !.guid = g,
                               !.withoutPdo = (Node(g).pdo = NoPdo)]
            /\ reply' = NoReply
       ELSE Refuse
    /\ ManagerOnly

\* A description whose PDO does not exist leaves the list at once; one whose
\* PDO exists, or is being built, stays until PnP has removed the device.
AsMissing(g) ==
    list' = [list EXCEPT ![g] =
                IF list[g].state \in {"new", "noobject"}
                THEN Unlisted
                ELSE [list[g] EXCEPT !.missing = TRUE]]

AfterMissingNoReclaim == "record"

AfterMissing == IF manager.withoutPdo THEN "reclaim" ELSE "record"

UpdateMissing ==
    LET g == manager.guid IN
    /\ manager.pc = "missing"
    /\ \/ /\ list[g].state # "none"
          /\ ~list[g].missing
          /\ AsMissing(g)
          /\ manager' = [manager EXCEPT !.pc = AfterMissing]
       \/ /\ manager' = [manager EXCEPT !.pc = "mark"]
          /\ UNCHANGED list
    /\ reply' = NoReply
    /\ UNCHANGED <<children, guard, walk, callback, pdo, bus>>

ReclaimWithoutPdo ==
    LET g == manager.guid IN
    /\ manager.pc = "reclaim"
    /\ ~guard
    /\ IF Known(g) /\ Node(g).lifecycle = "REMOVING" /\ Node(g).pdo = NoPdo
       THEN Reclaim(g)
       ELSE UNCHANGED <<children, walk>>
    /\ manager' = [manager EXCEPT !.pc = "record"]
    /\ reply' = NoReply
    /\ ManagerOnly

MarkFailed ==
    /\ manager.pc = "mark"
    /\ ~guard
    /\ MarkChildFailure(manager.guid)
    /\ manager' = [manager EXCEPT !.pc = "record"]
    /\ reply' = NoReply
    /\ ManagerOnly

GoneOnceRemoving(g) == ~Known(g) \/ Node(g).lifecycle = "REMOVING"

Gone(g) == ~Known(g)

ChildRecordFor(g) ==
    IF Gone(g)
    THEN /\ Answer(g, "ABSENT", "success")
         /\ UNCHANGED <<children, walk>>
    ELSE IF Node(g).lifecycle = "CREATING" /\ Node(g).pdo # NoPdo
    THEN /\ SetLifecycle(g, "ACTIVE", "success")
         /\ Answer(g, "ACTIVE", "success")
    ELSE /\ Answer(g, Node(g).lifecycle, Node(g).status)
         /\ UNCHANGED <<children, walk>>

\* The end of CREATE and of REMOVE.
AnswerRecord ==
    /\ manager.pc = "record"
    /\ ~guard
    /\ ChildRecordFor(manager.guid)
    /\ manager' = IdleManager
    /\ ManagerOnly

ManagerQuery(g) ==
    /\ Accepts
    /\ ChildRecordFor(g)
    /\ ManagerOnly /\ UNCHANGED manager

\* The GUIDs of the records that one ENUMERATE returns.
Page(cursor) ==
    {children[i].guid : i \in {k \in DOMAIN children :
                                  cursor < k /\ k <= cursor + Capacity}}

NextCursorSkips(cursor) ==
    IF cursor + Capacity < Len(children) THEN cursor + Capacity + 1 ELSE 0

\* The cursor it hands back.
NextCursor(cursor) ==
    IF cursor + Capacity < Len(children) THEN cursor + Capacity ELSE 0

ManagerEnumerate ==
    /\ Accepts
    /\ LET begun == IF walk.on THEN walk
                    ELSE [NoWalk EXCEPT !.on = TRUE,
                             !.due = {children[i].guid : i \in DOMAIN children}]
           seen == begun.seen \cup Page(begun.cursor)
           next == NextCursor(begun.cursor)
       IN  walk' = [begun EXCEPT !.seen = seen, !.cursor = next, !.on = (next # 0)]
    /\ reply' = NoReply
    /\ ManagerOnly /\ UNCHANGED <<children, manager>>

-----------------------------------------------------------------------------
(* The child-list callback.  A failure before the device exists marks the  *)
(* node and leaves a description without an object.                        *)

StartCallback(g) ==
    /\ callback.pc = "idle"
    /\ bus = "present"
    /\ list[g].state = "new"
    /\ list' = [list EXCEPT ![g].state = "building"]
    /\ callback' = [IdleCallback EXCEPT !.pc = "create", !.guid = g,
                                        !.mtu = list[g].mtu]
    /\ reply' = NoReply
    /\ UNCHANGED <<children, guard, manager, walk, pdo, bus>>

CreatePdo(p) ==
    /\ callback.pc = "create"
    /\ pdo[p].state = "free"
    /\ pdo' = [pdo EXCEPT ![p] = [state |-> "built", guid |-> callback.guid,
                                  mtu |-> callback.mtu, published |-> FALSE]]
    /\ callback' = [callback EXCEPT !.pc = "link", !.pdo = p]
    /\ reply' = NoReply
    /\ UNCHANGED <<children, guard, manager, walk, list, bus>>

\* What the framework makes of a description after the callback returned.
Returned(g, state) ==
    list' = [list EXCEPT ![g] = IF state = "noobject" /\ list[g].missing
                                THEN Unlisted
                                ELSE [list[g] EXCEPT !.state = state]]

CallbackFails ==
    /\ callback.pc = "create"
    /\ ~guard
    /\ MarkChildFailure(callback.guid)
    /\ Returned(callback.guid, "noobject")
    /\ callback' = IdleCallback
    /\ reply' = NoReply
    /\ UNCHANGED <<guard, manager, pdo, bus>>

\* With no node left, WdfObjectDelete runs under the guard: the cleanup of the
\* PDO then waits on this very thread for the lock the thread holds.
LinkPdo ==
    LET g == callback.guid IN
    /\ callback.pc = "link"
    /\ ~guard
    /\ IF Known(g)
       THEN /\ children' = [children EXCEPT ![FindChild(g)].pdo = callback.pdo]
            /\ pdo' = [pdo EXCEPT ![callback.pdo].state = "live"]
            /\ Returned(g, "object")
            /\ callback' = IdleCallback
            /\ UNCHANGED guard
       ELSE /\ guard' = TRUE
            /\ callback' = [callback EXCEPT !.pc = "delete"]
            /\ UNCHANGED <<children, pdo, list>>
    /\ reply' = NoReply
    /\ UNCHANGED <<manager, walk, bus>>

-----------------------------------------------------------------------------
(* PnP and the child driver. *)

\* The child's device_add registers its TAP interface.
PublishInterface(p) ==
    /\ pdo[p].state = "live"
    /\ ~pdo[p].published
    /\ pdo' = [pdo EXCEPT ![p].published = TRUE]
    /\ reply' = NoReply
    /\ UNCHANGED <<children, guard, manager, walk, callback, list, bus>>

\* A PDO is removed when its description is missing or the bus goes away.
RemovePdo(p) ==
    /\ pdo[p].state = "live"
    /\ list[pdo[p].guid].missing \/ bus = "removed"
    /\ list' = [list EXCEPT ![pdo[p].guid] = Unlisted]
    /\ pdo' = [pdo EXCEPT ![p].state = "cleanup", ![p].published = FALSE]
    /\ reply' = NoReply
    /\ UNCHANGED <<children, guard, manager, walk, callback, bus>>

CleanedWithPdo(n) ==
    IF n.lifecycle \in {"CREATING", "ACTIVE"}
    THEN [n EXCEPT !.pdo = NoPdo, !.lifecycle = "FAILED", !.status = "failure"]
    ELSE n

Cleaned(n) ==
    IF n.lifecycle \in {"CREATING", "ACTIVE"}
    THEN [n EXCEPT !.pdo = NoPdo, !.lifecycle = "FAILED", !.status = "failure"]
    ELSE [n EXCEPT !.pdo = NoPdo]

PdoCleanup(p) ==
    LET g == pdo[p].guid IN
    /\ pdo[p].state = "cleanup"
    /\ ~guard
    /\ pdo' = [pdo EXCEPT ![p] = FreePdo]
    /\ IF ~Known(g)
       THEN UNCHANGED <<children, walk>>
       ELSE IF Node(g).lifecycle = "REMOVING"
       THEN Reclaim(g)
       ELSE /\ children' = [children EXCEPT ![FindChild(g)] = Cleaned(@)]
            /\ UNCHANGED walk
    /\ reply' = NoReply
    /\ UNCHANGED <<guard, manager, callback, list, bus>>

\* The bus device is removed, by surprise or in order; descriptions that have
\* no device yet are dropped with it.
RemoveBus ==
    /\ bus = "present"
    /\ bus' = "removed"
    /\ list' = [g \in Guids |-> IF list[g].state \in {"new", "noobject"}
                                THEN Unlisted ELSE list[g]]
    /\ reply' = NoReply
    /\ UNCHANGED <<children, guard, manager, walk, callback, pdo>>

\* EvtCleanupCallback of the bus device frees the nodes and BusState.  PnP
\* removes the children, and the framework empties the queue, before it.
BusDeviceCleanup ==
    /\ bus = "removed"
    /\ manager.pc = "idle"
    /\ callback.pc = "idle"
    /\ \A p \in Pdos : pdo[p].state = "free"
    /\ bus' = "gone"
    /\ children' = <<>>
    /\ walk' = NoWalk
    /\ reply' = NoReply
    /\ UNCHANGED <<guard, manager, callback, pdo, list>>

-----------------------------------------------------------------------------
ManagerRuns == AddChild \/ UpdateMissing \/ ReclaimWithoutPdo \/ MarkFailed \/ AnswerRecord

CallbackRuns == (\E p \in Pdos : CreatePdo(p)) \/ CallbackFails \/ LinkPdo

Next ==
    \/ \E g \in Guids : \/ \E m \in RequestedMtus : ManagerCreate(g, m)
                        \/ ManagerRemove(g)
                        \/ ManagerQuery(g)
                        \/ StartCallback(g)
    \/ ManagerEnumerate
    \/ ManagerRuns
    \/ CallbackRuns
    \/ \E p \in Pdos : PublishInterface(p) \/ RemovePdo(p) \/ PdoCleanup(p)
    \/ RemoveBus
    \/ BusDeviceCleanup

Spec == Init /\ [][Next]_vars

(* A handler that started runs to its end, the framework delivers the      *)
(* callbacks it owes and PnP removes a device that is reported missing.    *)
(* Nothing obliges a client to send a request or a child to start.         *)
FairSpec ==
    /\ Spec
    /\ WF_vars(ManagerRuns)
    /\ WF_vars(CallbackRuns)
    /\ \A g \in Guids : WF_vars(StartCallback(g))
    /\ \A p \in Pdos : WF_vars(RemovePdo(p)) /\ WF_vars(PdoCleanup(p))

-----------------------------------------------------------------------------
TypeOK ==
    /\ children \in Seq([guid : Guids, lifecycle : Lifecycles, status : Statuses,
                         mtu : ValidMtus, pdo : Pdos \cup {NoPdo}])
    /\ guard \in BOOLEAN
    /\ manager \in [pc : {"idle", "add", "missing", "reclaim", "mark", "record"},
                    guid : Guids \cup {NoGuid}, mtu : ValidMtus \cup {0},
                    withoutPdo : BOOLEAN]
    /\ reply \in [guid : Guids \cup {NoGuid},
                  lifecycle : Lifecycles \cup {"none", "ABSENT"}, status : Statuses]
    /\ walk \in [on : BOOLEAN, cursor : Nat, seen : SUBSET Guids,
                 due : SUBSET Guids, shrunk : BOOLEAN]
    /\ callback \in [pc : {"idle", "create", "link", "delete"},
                     guid : Guids \cup {NoGuid}, mtu : ValidMtus \cup {0},
                     pdo : Pdos \cup {NoPdo}]
    /\ pdo \in [Pdos -> [state : {"free", "built", "live", "cleanup"},
                         guid : Guids \cup {NoGuid}, mtu : ValidMtus \cup {0},
                         published : BOOLEAN]]
    /\ list \in [Guids -> [state : {"none", "new", "building", "noobject", "object"},
                           mtu : ValidMtus \cup {0}, missing : BOOLEAN]]
    /\ bus \in {"present", "removed", "gone"}

(* REQ-028: a GUID has at most one device at any time, and the device,     *)
(* its node and its MTU go together, through every create, failed remove,  *)
(* and re-create of the same GUID.  Every device has its node, also while  *)
(* evt_child_list_create_device is still to link the two: the callback     *)
(* would delete its PDO under the bus lock otherwise, and the cleanup of   *)
(* the PDO takes that lock again.                                          *)
OneDevicePerGuid ==
    /\ \A p, q \in Pdos :
          p # q /\ pdo[p].state # "free" => pdo[p].guid # pdo[q].guid
    /\ \A i \in DOMAIN children :
          LET n == children[i] IN
          n.pdo # NoPdo => pdo[n.pdo].guid = n.guid /\ pdo[n.pdo].mtu = n.mtu
    /\ \A p \in Pdos :
          pdo[p].state # "free" =>
             /\ Known(pdo[p].guid)
             /\ pdo[p].state # "built" => Node(pdo[p].guid).pdo = p

(* REQ-029: an answer that reports a child ABSENT is only given when its   *)
(* device is gone, and no callback is about to build one.                  *)
AbsentMeansGone ==
    reply.lifecycle = "ABSENT" =>
        /\ \A p \in Pdos : pdo[p].guid # reply.guid
        /\ callback.guid # reply.guid

(* ENUMERATE with cursors: a client that follows next_cursor until it is   *)
(* zero has seen every child that was there when it began and still is,    *)
(* provided no child was reclaimed between two pages.                      *)
EnumerationIsComplete ==
    ~walk.on /\ ~walk.shrunk /\ bus # "gone" => walk.due \subseteq walk.seen

(* An accepted REMOVE comes to an end: the child does not stay REMOVING.   *)
RemoveTerminates ==
    \A g \in Guids :
        (Known(g) /\ Node(g).lifecycle = "REMOVING")
            ~> ~(Known(g) /\ Node(g).lifecycle = "REMOVING")

=============================================================================
