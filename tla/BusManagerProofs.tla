--------------------------- MODULE BusManagerProofs ---------------------------
(***************************************************************************)
(* Proofs about the bus driver, for any GUIDs, MTUs, device objects and    *)
(* page sizes: a GUID has one device, which agrees with its node; a child  *)
(* reported ABSENT has none; and an enumeration misses nobody.             *)
(***************************************************************************)
EXTENDS BusManager, TLAPS

(***************************************************************************)
(* The list of nodes, seen as a partial function from GUIDs to nodes.      *)
(***************************************************************************)
ChildNode == [guid : Guids, lifecycle : Lifecycles, status : Statuses,
              mtu : ValidMtus, pdo : Pdos \cup {NoPdo}]

Has(cs, g) == \E i \in DOMAIN cs : cs[i].guid = g

At(cs, g) == cs[CHOOSE i \in DOMAIN cs : cs[i].guid = g]

Distinct(cs) ==
    /\ cs \in Seq(ChildNode)
    /\ \A i, j \in DOMAIN cs : cs[i].guid = cs[j].guid => i = j

(* c2 is cs with n as the node of g.                                       *)
Puts(cs, c2, g, n) ==
    /\ Distinct(c2) /\ Has(c2, g) /\ At(c2, g) = n
    /\ \A h \in Guids : h # g => (Has(c2, h) <=> Has(cs, h))
    /\ \A h \in Guids : h # g /\ Has(cs, h) => At(c2, h) = At(cs, h)

(* c2 is cs without the node of g.                                         *)
Drops(cs, c2, g) ==
    /\ Distinct(c2) /\ ~Has(c2, g)
    /\ \A h \in Guids : h # g => (Has(c2, h) <=> Has(cs, h))
    /\ \A h \in Guids : h # g /\ Has(cs, h) => At(c2, h) = At(cs, h)

(* find_child finds the one node of a GUID.                                *)
LEMMA FoundNode ==
    ASSUME NEW cs, Distinct(cs), NEW i \in DOMAIN cs
    PROVE  /\ Has(cs, cs[i].guid) /\ At(cs, cs[i].guid) = cs[i]
           /\ (CHOOSE j \in DOMAIN cs : cs[j].guid = cs[i].guid) = i
BY Zenon DEF Distinct, Has, At

(* find_child returns a node of the child asked for.                       *)
LEMMA HasNode ==
    ASSUME NEW cs, Distinct(cs), NEW g, Has(cs, g)
    PROVE  /\ (CHOOSE j \in DOMAIN cs : cs[j].guid = g) \in DOMAIN cs
           /\ At(cs, g) \in ChildNode /\ At(cs, g).guid = g
<1>1. PICK i \in DOMAIN cs : cs[i].guid = g
  BY Zenon DEF Has
<1>2. cs[i] \in ChildNode
  BY DEF Distinct
<1> QED BY <1>1, <1>2, FoundNode, Zenon

(* The nodes of c2 are those of cs, by an injection of their places.       *)
LEMMA SameNodes ==
    ASSUME NEW cs, Distinct(cs), NEW c2, Distinct(c2), NEW h,
           \A i \in DOMAIN cs : cs[i].guid = h => \E j \in DOMAIN c2 : c2[j] = cs[i],
           \A j \in DOMAIN c2 : c2[j].guid = h => \E i \in DOMAIN cs : cs[i].guid = h
    PROVE  /\ Has(c2, h) <=> Has(cs, h)
           /\ Has(cs, h) => At(c2, h) = At(cs, h)
<1>1. ASSUME NEW i \in DOMAIN cs, cs[i].guid = h
      PROVE  Has(c2, h) /\ At(c2, h) = At(cs, h)
  <2>1. PICK j \in DOMAIN c2 : c2[j] = cs[i]
    BY <1>1, Zenon
  <2> QED BY <1>1, <2>1, FoundNode
<1> QED BY <1>1, Zenon DEF Has

(* A new node at the head of the list leaves the others as they are.       *)
LEMMA PrependPuts ==
    ASSUME NEW cs, Distinct(cs), NEW n \in ChildNode, ~Has(cs, n.guid)
    PROVE  Puts(cs, <<n>> \o cs, n.guid, n)
<1> DEFINE c2 == <<n>> \o cs
<1>1. cs \in Seq(ChildNode) /\ DOMAIN cs = 1..Len(cs) /\ Len(cs) \in Nat
  BY DEF Distinct
<1>2. /\ c2 \in Seq(ChildNode) /\ DOMAIN c2 = 1..(Len(cs) + 1) /\ c2[1] = n
      /\ \A i \in 1..Len(cs) : c2[i + 1] = cs[i]
  BY <1>1
<1> HIDE DEF c2
<1>3. \A j \in DOMAIN c2 : j = 1 \/ \E i \in DOMAIN cs : j = i + 1 /\ c2[j] = cs[i]
  <2>1. ASSUME NEW j \in DOMAIN c2, j # 1
        PROVE  j - 1 \in DOMAIN cs /\ j = (j - 1) + 1
    BY <1>1, <1>2, <2>1
  <2> QED BY <1>1, <1>2, <2>1, Zenon
<1>4. \A i \in DOMAIN cs : cs[i].guid # n.guid
  BY Zenon DEF Has
<1>5. Distinct(c2)
  <2>1. ASSUME NEW i \in DOMAIN c2, NEW j \in DOMAIN c2, c2[i].guid = c2[j].guid
        PROVE  i = j
    BY <1>2, <1>3, <1>4, <2>1 DEF Distinct
  <2> QED BY <1>2, <2>1, Zenon DEF Distinct
<1>6. Has(c2, n.guid) /\ At(c2, n.guid) = n
  BY <1>1, <1>2, <1>5, FoundNode
<1>7. ASSUME NEW h \in Guids, h # n.guid
      PROVE  /\ Has(c2, h) <=> Has(cs, h)
             /\ Has(cs, h) => At(c2, h) = At(cs, h)
  <2>1. \A i \in DOMAIN cs : cs[i].guid = h => \E j \in DOMAIN c2 : c2[j] = cs[i]
    BY <1>1, <1>2
  <2>2. \A j \in DOMAIN c2 : c2[j].guid = h => \E i \in DOMAIN cs : cs[i].guid = h
    BY <1>2, <1>3, <1>7, Zenon
  <2> QED BY <1>5, <2>1, <2>2, SameNodes, Zenon
<1> QED BY <1>5, <1>6, <1>7, Zenon DEF Puts, c2

(* Rewriting one node of the list leaves the others as they are.           *)
LEMMA ReplacePuts ==
    ASSUME NEW cs, Distinct(cs), NEW g \in Guids, NEW k \in DOMAIN cs, cs[k].guid = g,
           NEW c2 \in Seq(ChildNode), DOMAIN c2 = DOMAIN cs, c2[k].guid = g,
           \A i \in DOMAIN cs : i # k => c2[i] = cs[i]
    PROVE  /\ Puts(cs, c2, g, c2[k])
           /\ \A i \in DOMAIN cs : c2[i].guid = cs[i].guid
<1>1. \A i \in DOMAIN cs : c2[i].guid = cs[i].guid
  BY Zenon
<1>2. Distinct(c2)
  BY <1>1, Zenon DEF Distinct
<1>3. Has(c2, g) /\ At(c2, g) = c2[k]
  BY <1>2, FoundNode
<1>4. ASSUME NEW h \in Guids, h # g
      PROVE  /\ Has(c2, h) <=> Has(cs, h)
             /\ Has(cs, h) => At(c2, h) = At(cs, h)
  <2>1. \A i \in DOMAIN cs : cs[i].guid = h => \E j \in DOMAIN c2 : c2[j] = cs[i]
    BY <1>4, Zenon
  <2>2. \A j \in DOMAIN c2 : c2[j].guid = h => \E i \in DOMAIN cs : cs[i].guid = h
    BY <1>1, Zenon
  <2> QED BY <1>2, <2>1, <2>2, SameNodes, Zenon
<1> QED BY <1>1, <1>2, <1>3, <1>4, Zenon DEF Puts

(* Writing a field of the node that find_child returned.                   *)
LEMMA UpdatePuts ==
    ASSUME NEW cs, Distinct(cs), NEW g \in Guids, NEW n \in ChildNode, n.guid = g,
           NEW k \in DOMAIN cs, cs[k].guid = g, NEW c2, c2 = [cs EXCEPT ![k] = n]
    PROVE  /\ Puts(cs, c2, g, n) /\ DOMAIN c2 = DOMAIN cs
           /\ \A i \in DOMAIN cs : c2[i].guid = cs[i].guid
<1>1. cs \in Seq(ChildNode) /\ DOMAIN cs = 1..Len(cs)
  BY DEF Distinct
<1>2. c2 \in Seq(ChildNode) /\ Len(c2) = Len(cs)
  <2>1. Len(cs) \in Nat /\ cs \in [1..Len(cs) -> ChildNode]
    BY <1>1
  <2>2. c2 \in [1..Len(cs) -> ChildNode]
    BY <2>1, Zenon
  <2> QED BY <2>1, <2>2
<1>3. DOMAIN c2 = DOMAIN cs /\ c2[k] = n /\ \A i \in DOMAIN cs : i # k => c2[i] = cs[i]
  BY <1>1, <1>2, Zenon
<1>4. c2[k].guid = g
  BY <1>3, Zenon
<1>5. Puts(cs, c2, g, c2[k]) /\ \A i \in DOMAIN cs : c2[i].guid = cs[i].guid
  <2> SUFFICES ASSUME NEW c, c = c2
               PROVE  Puts(cs, c, g, c[k]) /\ \A i \in DOMAIN cs : c[i].guid = cs[i].guid
    BY Zenon
  <2>1. /\ c \in Seq(ChildNode) /\ DOMAIN c = DOMAIN cs /\ c[k].guid = g
        /\ \A i \in DOMAIN cs : i # k => c[i] = cs[i]
    BY <1>2, <1>3, <1>4, Zenon
  <2> QED BY <2>1, ReplacePuts, Zenon
<1> QED BY <1>3, <1>5, Zenon

(* reclaim_child unlinks one node and keeps the others in their order.     *)
LEMMA RemoveDrops ==
    ASSUME NEW cs, Distinct(cs), NEW g \in Guids, NEW k \in DOMAIN cs, cs[k].guid = g,
           NEW c2, c2 = Unlinked(cs, k)
    PROVE  Drops(cs, c2, g)
<1>1. k \in DOMAIN cs /\ cs[k].guid = g
  BY Zenon
<1>2. c2 = Unlinked(cs, k)
  BY Zenon
<1>3. cs \in Seq(ChildNode) /\ DOMAIN cs = 1..Len(cs) /\ Len(cs) \in Nat /\ k \in 1..Len(cs)
  BY <1>1 DEF Distinct
<1>4. /\ c2 \in Seq(ChildNode) /\ DOMAIN c2 = 1..(Len(cs) - 1)
      /\ \A j \in DOMAIN c2 : c2[j] = IF j < k THEN cs[j] ELSE cs[j + 1]
  <2>1. c2 = [i \in 1..(Len(cs) - 1) |-> cs[IF i < k THEN i ELSE i + 1]] /\ Len(cs) - 1 \in Nat
    BY <1>2, <1>3 DEF Unlinked
  <2>2. \A i \in 1..(Len(cs) - 1) : (IF i < k THEN i ELSE i + 1) \in 1..Len(cs)
    BY <1>3
  <2>3. \A i \in 1..(Len(cs) - 1) : c2[i] \in ChildNode
    BY <1>3, <2>1, <2>2
  <2> QED BY <1>3, <2>1, <2>3
<1>5. Distinct(c2)
  <2>1. ASSUME NEW i \in DOMAIN c2, NEW j \in DOMAIN c2, c2[i].guid = c2[j].guid
        PROVE  i = j
    <3> DEFINE from(x) == IF x < k THEN x ELSE x + 1
    <3>1. \A x \in DOMAIN c2 : from(x) \in DOMAIN cs /\ c2[x] = cs[from(x)]
      BY <1>3, <1>4
    <3>2. i \in 1..(Len(cs) - 1) /\ j \in 1..(Len(cs) - 1) /\ (from(i) = from(j) => i = j)
      BY <1>3, <1>4
    <3> HIDE DEF from
    <3>3. /\ from(i) \in DOMAIN cs /\ from(j) \in DOMAIN cs
          /\ cs[from(i)].guid = cs[from(j)].guid
      BY <2>1, <3>1
    <3>4. from(i) = from(j)
      BY <3>3, Zenon DEF Distinct
    <3> QED BY <3>2, <3>4, Zenon
  <2> QED BY <1>4, <2>1, Zenon DEF Distinct
<1>6. ~Has(c2, g)
  <2>1. ASSUME NEW i \in DOMAIN c2 PROVE c2[i].guid # g
    BY <1>1, <1>3, <1>4 DEF Distinct
  <2> QED BY <2>1, Zenon DEF Has
<1>7. ASSUME NEW h \in Guids, h # g
      PROVE  /\ Has(c2, h) <=> Has(cs, h)
             /\ Has(cs, h) => At(c2, h) = At(cs, h)
  <2>1. ASSUME NEW i \in DOMAIN cs, cs[i].guid = h
        PROVE  \E j \in DOMAIN c2 : c2[j] = cs[i]
    <3>1. CASE i < k
      BY <1>3, <1>4, <3>1
    <3>2. CASE i > k
      <4>1. i - 1 \in DOMAIN c2 /\ ~(i - 1 < k) /\ (i - 1) + 1 = i
        BY <1>3, <1>4, <3>2
      <4> QED BY <1>4, <4>1, Zenon
    <3> QED BY <1>1, <1>3, <1>7, <2>1, <3>1, <3>2
  <2>2. ASSUME NEW j \in DOMAIN c2, c2[j].guid = h
        PROVE  \E i \in DOMAIN cs : cs[i].guid = h
    BY <1>3, <1>4, <2>2
  <2> QED BY <1>5, <2>1, <2>2, SameNodes
<1> QED BY <1>5, <1>6, <1>7, Zenon DEF Drops

-----------------------------------------------------------------------------
(***************************************************************************)
(* The invariant: what the framework's child list, the callback, the       *)
(* devices, the nodes and the manager's request know of each other.        *)
(***************************************************************************)

(* A description has its node; one that still waits for its device, or     *)
(* whose device is being built, has a node that CREATE has just made and   *)
(* that REMOVE refuses.                                                    *)
DescriptionFits(cs, ls) ==
    \A g \in Guids :
        /\ ls[g].state # "none" => Has(cs, g)
        /\ ls[g].state \in {"new", "building"} =>
              /\ At(cs, g).lifecycle = "CREATING" /\ At(cs, g).pdo = NoPdo
              /\ At(cs, g).mtu = ls[g].mtu
        /\ ls[g].state = "object" => At(cs, g).pdo # NoPdo

(* A device has its node; it is the callback's, its node's, or on its way  *)
(* out after its description.                                              *)
DeviceFits(cs, ls, cb, pd) ==
    \A p \in Pdos :
        /\ pd[p].state = "free" => pd[p] = FreePdo
        /\ pd[p].state # "free" => pd[p].guid \in Guids /\ Has(cs, pd[p].guid)
        /\ pd[p].state = "built" => cb.pc = "link" /\ cb.pdo = p /\ cb.guid = pd[p].guid
        /\ pd[p].state = "live" => ls[pd[p].guid].state = "object"
        /\ pd[p].state = "cleanup" => ls[pd[p].guid].state = "none"
        /\ pd[p].state \in {"live", "cleanup"} => At(cs, pd[p].guid).pdo = p

NodeFits(cs, pd) ==
    \A g \in Guids : Has(cs, g) /\ At(cs, g).pdo # NoPdo =>
        /\ pd[At(cs, g).pdo].state \in {"live", "cleanup"}
        /\ pd[At(cs, g).pdo].guid = g
        /\ pd[At(cs, g).pdo].mtu = At(cs, g).mtu

CallbackFits(ls, cb, pd) ==
    /\ cb.pc \in {"idle", "create", "link"}
    /\ cb.pc = "idle" => cb = IdleCallback
    /\ cb.pc # "idle" => /\ cb.guid \in Guids /\ ls[cb.guid].state = "building"
                         /\ cb.mtu = ls[cb.guid].mtu
    /\ cb.pc = "link" => /\ cb.pdo \in Pdos /\ pd[cb.pdo].state = "built"
                         /\ pd[cb.pdo].guid = cb.guid /\ pd[cb.pdo].mtu = cb.mtu
    /\ \A g \in Guids : ls[g].state = "building" => cb.pc # "idle" /\ cb.guid = g

ManagerFits(cs, ls, m) ==
    /\ m.pc # "idle" => m.guid \in Guids
    /\ m.pc = "add" => /\ Has(cs, m.guid) /\ ls[m.guid].state = "none"
                       /\ At(cs, m.guid).lifecycle = "CREATING" /\ At(cs, m.guid).pdo = NoPdo
                       /\ At(cs, m.guid).mtu = m.mtu
    /\ m.pc = "missing" /\ Has(cs, m.guid) =>
          /\ At(cs, m.guid).lifecycle = "REMOVING"
          /\ m.withoutPdo => At(cs, m.guid).pdo = NoPdo
    /\ m.pc = "reclaim" => /\ ls[m.guid].state = "none"
                           /\ Has(cs, m.guid) => At(cs, m.guid).pdo = NoPdo
    /\ m.pc = "mark" => ls[m.guid].state \notin {"new", "building"}

Fits(cs, ls, cb, pd, m) ==
    /\ DescriptionFits(cs, ls) /\ DeviceFits(cs, ls, cb, pd) /\ NodeFits(cs, pd)
    /\ CallbackFits(ls, cb, pd) /\ ManagerFits(cs, ls, m)

BusInv ==
    /\ TypeOK /\ Distinct(children) /\ ~guard
    /\ bus # "gone" => Fits(children, list, callback, pdo, manager)
    /\ bus = "gone" => /\ children = <<>> /\ manager.pc = "idle" /\ callback.pc = "idle"
                       /\ \A p \in Pdos : pdo[p] = FreePdo

(* An unused device has no description.                                    *)
LEMMA FreePdoIs == FreePdo.state = "free" /\ FreePdo.guid = NoGuid
BY Zenon DEF FreePdo

(* While a client reads the list and no node has left it, whoever is due   *)
(* and has not been read is behind the cursor.                             *)
WalkFits(cs, w) ==
    ~w.shrunk =>
        \A g \in w.due \ w.seen :
            w.on /\ \E i \in DOMAIN cs : i > w.cursor /\ cs[i].guid = g


-----------------------------------------------------------------------------
(* What the operations do to the list.                                     *)

(* c2 is cs with the node of g rewritten in its place.                     *)
Rewrites(cs, c2, g, lifecycle, device) ==
    /\ Has(cs, g) /\ Puts(cs, c2, g, At(c2, g))
    /\ At(c2, g).lifecycle = lifecycle /\ At(c2, g).pdo = device
    /\ At(c2, g).mtu = At(cs, g).mtu
    /\ DOMAIN c2 = DOMAIN cs /\ \A i \in DOMAIN cs : c2[i].guid = cs[i].guid

(* Known and Node are the reads of the list used here.                     *)
LEMMA KnownIsHas ==
    \A g : (Known(g) <=> Has(children, g)) /\ Node(g) = At(children, g)
BY Zenon DEF Known, Node, FindChild, Has, At

(* find_child on the list of the bus.                                      *)
LEMMA FindChildFinds ==
    ASSUME Distinct(children), NEW g, Known(g)
    PROVE  /\ FindChild(g) \in DOMAIN children /\ children[FindChild(g)] = Node(g)
           /\ Node(g) \in ChildNode /\ Node(g).guid = g
<1>1. Has(children, g)
  BY KnownIsHas, Zenon
<1> QED BY <1>1, HasNode DEF FindChild, Node, At

(* The writes of lifecycle, status or device to the node of a child.       *)
LEMMA NodeRewritten ==
    ASSUME Distinct(children), NEW g \in Guids, Known(g),
           NEW n \in ChildNode, n.guid = g, n.mtu = Node(g).mtu,
           children' = [children EXCEPT ![FindChild(g)] = n]
    PROVE  Rewrites(children, children', g, n.lifecycle, n.pdo)
<1> DEFINE k == FindChild(g)
<1>1. k \in DOMAIN children /\ children[k].guid = g
  BY FindChildFinds, Zenon
<1>2. children' = [children EXCEPT ![k] = n]
  BY Zenon
<1> HIDE DEF k
<1>3. /\ Puts(children, children', g, n) /\ DOMAIN children' = DOMAIN children
      /\ \A i \in DOMAIN children : children'[i].guid = children[i].guid
  BY <1>1, <1>2, UpdatePuts, Zenon
<1>4. At(children', g) = n
  BY <1>3, Zenon DEF Puts
<1>5. Has(children, g) /\ At(children, g) = Node(g)
  BY KnownIsHas, Zenon
<1> QED BY <1>3, <1>4, <1>5, Zenon DEF Rewrites

(* set_child_lifecycle writes one node and keeps its device.               *)
LEMMA SetLifecycleRewrites ==
    ASSUME Distinct(children), NEW g \in Guids, Known(g), NEW lifecycle \in Lifecycles,
           NEW status \in Statuses, SetLifecycle(g, lifecycle, status)
    PROVE  Rewrites(children, children', g, lifecycle, At(children, g).pdo) /\ walk' = walk
<1> DEFINE n == [Node(g) EXCEPT !.lifecycle = lifecycle, !.status = status]
           k == FindChild(g)
<1>1. k \in DOMAIN children /\ children[k] = Node(g) /\ Node(g) \in ChildNode /\ Node(g).guid = g
  BY FindChildFinds, Zenon
<1>2. n \in ChildNode /\ n.guid = g /\ n.mtu = Node(g).mtu /\ n.lifecycle = lifecycle /\ n.pdo = Node(g).pdo
  <2>1. ASSUME NEW x \in ChildNode, NEW y, y = [x EXCEPT !.lifecycle = lifecycle, !.status = status]
        PROVE  /\ y \in ChildNode /\ y.guid = x.guid /\ y.mtu = x.mtu /\ y.lifecycle = lifecycle
               /\ y.pdo = x.pdo
    BY <2>1, Zenon DEF ChildNode
  <2> QED BY <1>1, <2>1, Zenon
<1>3. children' = [children EXCEPT ![k] = [children[k] EXCEPT !.lifecycle = lifecycle, !.status = status]]
  BY Zenon DEF SetLifecycle
<1>4. children' = [children EXCEPT ![k] = n]
  BY <1>1, <1>3, Zenon
<1> HIDE DEF n
<1>5. Rewrites(children, children', g, n.lifecycle, n.pdo)
  BY <1>2, <1>4, NodeRewritten, Zenon
<1> QED BY <1>2, <1>5, KnownIsHas, Zenon DEF SetLifecycle

(* reclaim_child on the list of the bus.                                   *)
LEMMA ReclaimDrops ==
    ASSUME Distinct(children), NEW g \in Guids, Known(g), Reclaim(g)
    PROVE  Drops(children, children', g)
<1> DEFINE k == FindChild(g)
<1>1. k \in DOMAIN children /\ children[k].guid = g
  BY FindChildFinds, Zenon
<1>2. children' = Unlinked(children, k)
  BY Zenon DEF Reclaim
<1> HIDE DEF k
<1> QED BY <1>1, <1>2, RemoveDrops, Zenon


-----------------------------------------------------------------------------
(* The manager's request is not at a point where the node of g matters.    *)
Elsewhere(m, g) == m.guid # g \/ m.pc \in {"idle", "record"}

(* Rewriting a node without its device, for a child whose device is not    *)
(* about to be built.                                                      *)
LEMMA RewriteFits ==
    ASSUME NEW cs, NEW c2, NEW ls, NEW cb, NEW pd, NEW m, Fits(cs, ls, cb, pd, m),
           NEW g \in Guids, NEW lifecycle, Rewrites(cs, c2, g, lifecycle, At(cs, g).pdo),
           ls[g].state \notin {"new", "building"}
    PROVE  /\ DescriptionFits(c2, ls) /\ DeviceFits(c2, ls, cb, pd) /\ NodeFits(c2, pd)
           /\ Elsewhere(m, g) => ManagerFits(c2, ls, m)
<1>1. /\ \A h \in Guids : Has(c2, h) <=> Has(cs, h)
      /\ \A h \in Guids : h # g /\ Has(cs, h) => At(c2, h) = At(cs, h)
      /\ At(c2, g).pdo = At(cs, g).pdo /\ At(c2, g).mtu = At(cs, g).mtu
  BY Zenon DEF Rewrites, Puts
<1>2. DescriptionFits(c2, ls)
  BY <1>1, Zenon DEF Fits, DescriptionFits
<1>3. DeviceFits(c2, ls, cb, pd)
  BY <1>1 DEF Fits, DeviceFits
<1>4. NodeFits(c2, pd)
  BY <1>1 DEF Fits, NodeFits
<1>5. ASSUME Elsewhere(m, g)
      PROVE  ManagerFits(c2, ls, m)
  BY <1>1, <1>5, Zenon DEF Fits, ManagerFits, Elsewhere
<1> QED BY <1>2, <1>3, <1>4, <1>5, Zenon

(* Every device but those of g, which are released.                        *)
Releases(pd, pd2, g) ==
    \A p \in Pdos : IF pd[p].guid = g THEN pd2[p] = FreePdo ELSE pd2[p] = pd[p]

(* Reclaiming the node of a child that is no longer described, with its    *)
(* last device.                                                            *)
LEMMA DropFits ==
    ASSUME NEW cs, NEW c2, NEW ls, NEW cb, NEW pd, NEW pd2, NEW m, Fits(cs, ls, cb, pd, m),
           NEW g \in Guids, Distinct(cs), Drops(cs, c2, g), Releases(pd, pd2, g),
           ls[g].state = "none", m.pc = "add" => m.guid # g
    PROVE  /\ DescriptionFits(c2, ls) /\ DeviceFits(c2, ls, cb, pd2) /\ NodeFits(c2, pd2)
           /\ CallbackFits(ls, cb, pd2) /\ ManagerFits(c2, ls, m)
<1>1. /\ ~Has(c2, g)
      /\ \A h \in Guids : h # g => (Has(c2, h) <=> Has(cs, h))
      /\ \A h \in Guids : h # g /\ Has(cs, h) => At(c2, h) = At(cs, h)
  BY Zenon DEF Drops
<1>2. DescriptionFits(c2, ls)
  BY <1>1, Zenon DEF Fits, DescriptionFits
<1>3. DeviceFits(c2, ls, cb, pd2)
  <2>1. ASSUME NEW p \in Pdos
        PROVE  pd2[p] = FreePdo \/ (pd2[p] = pd[p] /\ pd[p].guid # g)
    BY Zenon DEF Releases
  <2>2. FreePdo.state = "free"
    BY Zenon DEF FreePdo
  <2> QED BY <1>1, <2>1, <2>2 DEF Fits, DeviceFits
<1>4. NodeFits(c2, pd2)
  <2>1. ASSUME NEW h \in Guids, Has(c2, h), At(c2, h).pdo # NoPdo
        PROVE  /\ pd2[At(c2, h).pdo].state \in {"live", "cleanup"}
               /\ pd2[At(c2, h).pdo].guid = h
               /\ pd2[At(c2, h).pdo].mtu = At(c2, h).mtu
    <3>1. h # g /\ Has(cs, h) /\ At(c2, h) = At(cs, h)
      BY <1>1, <2>1, Zenon
    <3>2. At(cs, h).pdo \in Pdos
      BY <2>1, <3>1, HasNode DEF ChildNode
    <3>3. /\ pd[At(cs, h).pdo].state \in {"live", "cleanup"}
          /\ pd[At(cs, h).pdo].guid = h
          /\ pd[At(cs, h).pdo].mtu = At(cs, h).mtu
      BY <2>1, <3>1, Zenon DEF Fits, NodeFits
    <3>4. pd2[At(cs, h).pdo] = pd[At(cs, h).pdo]
      BY <3>1, <3>2, <3>3, Zenon DEF Releases
    <3> QED BY <3>1, <3>3, <3>4, Zenon
  <2> QED BY <2>1, Zenon DEF NodeFits
<1>5. CallbackFits(ls, cb, pd2)
  BY Zenon DEF Fits, CallbackFits, Releases
<1>6. ManagerFits(c2, ls, m)
  BY <1>1, Zenon DEF Fits, ManagerFits
<1> QED BY <1>2, <1>3, <1>4, <1>5, <1>6, Zenon

(* At most one device is the device of a GUID.                             *)
LEMMA OneDevice ==
    ASSUME NEW cs, NEW ls, NEW cb, NEW pd, NEW m, Fits(cs, ls, cb, pd, m),
           \A d \in Pdos : pd[d].state \in {"free", "built", "live", "cleanup"}
    PROVE  \A p, q \in Pdos : pd[p].state # "free" /\ pd[q].guid = pd[p].guid => p = q
<1> SUFFICES ASSUME NEW p \in Pdos, pd[p].state # "free",
                    NEW q \in Pdos, pd[q].guid = pd[p].guid
             PROVE  p = q
  BY Zenon
<1>1. pd[q].state # "free"
  BY BusAssumption DEF Fits, DeviceFits, FreePdo
<1>2. \A d \in Pdos : pd[d].state = "built" => ls[pd[d].guid].state = "building"
  BY Zenon DEF Fits, DeviceFits, CallbackFits
<1> QED BY <1>1, <1>2 DEF Fits, DeviceFits


-----------------------------------------------------------------------------
(* The steps of the manager's requests.                                    *)

(* CREATE adds a CREATING node before anything describes the child.        *)
LEMMA CreateFits ==
    ASSUME NEW cs, NEW c2, NEW ls, NEW cb, NEW pd, NEW m, NEW m2, Fits(cs, ls, cb, pd, m),
           NEW g \in Guids, ~Has(cs, g), NEW n, Puts(cs, c2, g, n), n.lifecycle = "CREATING",
           n.pdo = NoPdo, m2.pc = "add", m2.guid = g, m2.mtu = n.mtu
    PROVE  Fits(c2, ls, cb, pd, m2)
<1>1. /\ Has(c2, g) /\ At(c2, g) = n
      /\ \A h \in Guids : h # g => (Has(c2, h) <=> Has(cs, h))
      /\ \A h \in Guids : h # g /\ Has(cs, h) => At(c2, h) = At(cs, h)
  BY Zenon DEF Puts
<1>2. ls[g].state = "none"
  BY Zenon DEF Fits, DescriptionFits
<1>3. DescriptionFits(c2, ls)
  BY <1>1, <1>2 DEF Fits, DescriptionFits
<1>4. DeviceFits(c2, ls, cb, pd)
  BY <1>1 DEF Fits, DeviceFits
<1>5. NodeFits(c2, pd)
  BY <1>1 DEF Fits, NodeFits
<1>6. ManagerFits(c2, ls, m2)
  BY <1>1, <1>2, Zenon DEF ManagerFits
<1> QED BY <1>3, <1>4, <1>5, <1>6, Zenon DEF Fits

(* The request goes on without a change to the nodes.                      *)
LEMMA RequestFits ==
    ASSUME NEW cs, NEW ls, NEW cb, NEW pd, NEW m, NEW m2, Fits(cs, ls, cb, pd, m),
           m2.pc \in {"idle", "record"} \/ (m2.pc = "mark" /\ m.pc \in {"add", "missing"}),
           m2.pc # "idle" => m.pc # "idle" /\ m2.guid = m.guid
    PROVE  Fits(cs, ls, cb, pd, m2)
<1>1. ManagerFits(cs, ls, m2)
  BY Zenon DEF Fits, ManagerFits, DescriptionFits
<1> QED BY <1>1, Zenon DEF Fits

(* Only the description of g changes.                                      *)
Describes(ls, ls2, g) == \A h \in Guids : h # g => ls2[h] = ls[h]

(* WdfChildListAddOrUpdateChildDescriptionAsPresent adds the description   *)
(* of the node that CREATE made.                                           *)
LEMMA AddFits ==
    ASSUME NEW cs, NEW ls, NEW ls2, NEW cb, NEW pd, NEW m, NEW m2, Fits(cs, ls, cb, pd, m),
           m.pc = "add", Describes(ls, ls2, m.guid),
           ls2[m.guid].state = "new", ls2[m.guid].mtu = m.mtu,
           m2.pc = "record", m2.guid = m.guid
    PROVE  Fits(cs, ls2, cb, pd, m2)
<1>1. /\ m.guid \in Guids /\ Has(cs, m.guid) /\ ls[m.guid].state = "none"
      /\ At(cs, m.guid).lifecycle = "CREATING" /\ At(cs, m.guid).pdo = NoPdo
      /\ At(cs, m.guid).mtu = m.mtu
  BY Zenon DEF Fits, ManagerFits
<1>2. DescriptionFits(cs, ls2)
  BY <1>1, ZenonT(30) DEF Fits, DescriptionFits, Describes
<1>3. CallbackFits(ls2, cb, pd)
  BY <1>1, Zenon DEF Fits, CallbackFits, Describes
<1>4. DeviceFits(cs, ls2, cb, pd)
  <2>1. \A p \in Pdos : pd[p].state \in {"live", "cleanup"} => pd[p].guid # m.guid /\ pd[p].guid \in Guids
    BY <1>1, BusAssumption DEF Fits, DeviceFits
  <2> QED BY <1>1, <2>1 DEF Fits, DeviceFits, Describes
<1>5. ManagerFits(cs, ls2, m2)
  BY <1>1, Zenon DEF ManagerFits
<1> QED BY <1>2, <1>3, <1>4, <1>5, Zenon DEF Fits

(* A missing description without a device goes at once; the others go when *)
(* the framework removes the device.                                       *)
LEMMA MissingFits ==
    ASSUME NEW cs, NEW ls, NEW ls2, NEW cb, NEW pd, NEW m, NEW m2, Fits(cs, ls, cb, pd, m),
           m.pc = "missing", Describes(ls, ls2, m.guid),
           ls[m.guid].state \in {"none", "new", "building", "noobject", "object"},
           ls[m.guid].state # "none",
           ls2[m.guid].state = IF ls[m.guid].state \in {"new", "noobject"} THEN "none" ELSE ls[m.guid].state,
           m2.pc = IF m.withoutPdo THEN "reclaim" ELSE "record", m2.guid = m.guid
    PROVE  Fits(cs, ls2, cb, pd, m2)
<1>1. /\ m.guid \in Guids /\ Has(cs, m.guid) /\ At(cs, m.guid).lifecycle = "REMOVING"
      /\ m.withoutPdo => At(cs, m.guid).pdo = NoPdo
  BY Zenon DEF Fits, ManagerFits, DescriptionFits
<1>2. ls[m.guid].state \in {"noobject", "object"} /\ (m.withoutPdo => ls[m.guid].state = "noobject")
  BY <1>1, Zenon DEF Fits, DescriptionFits
<1>3. DescriptionFits(cs, ls2)
  BY <1>1, <1>2, ZenonT(30) DEF Fits, DescriptionFits, Describes
<1>4. CallbackFits(ls2, cb, pd)
  BY <1>1, <1>2, Zenon DEF Fits, CallbackFits, Describes
<1>5. DeviceFits(cs, ls2, cb, pd)
  BY <1>1, <1>2 DEF Fits, DeviceFits, Describes
<1>6. ManagerFits(cs, ls2, m2)
  BY <1>1, <1>2, Zenon DEF ManagerFits
<1> QED BY <1>3, <1>4, <1>5, <1>6, Zenon DEF Fits

-----------------------------------------------------------------------------
(* The steps of the callback and of PnP.                                   *)

(* The framework calls evt_child_list_create_device for a new description. *)
LEMMA StartFits ==
    ASSUME NEW cs, NEW ls, NEW ls2, NEW cb, NEW cb2, NEW pd, NEW m, Fits(cs, ls, cb, pd, m),
           NEW g \in Guids, Describes(ls, ls2, g), cb.pc = "idle", ls[g].state = "new",
           ls2[g].state = "building", ls2[g].mtu = ls[g].mtu,
           cb2.pc = "create", cb2.guid = g, cb2.mtu = ls[g].mtu
    PROVE  Fits(cs, ls2, cb2, pd, m)
<1>1. DescriptionFits(cs, ls2)
  BY DEF Fits, DescriptionFits, Describes
<1>2. CallbackFits(ls2, cb2, pd)
  BY Zenon DEF Fits, CallbackFits, Describes
<1>3. DeviceFits(cs, ls2, cb2, pd)
  BY Zenon DEF Fits, DeviceFits, Describes
<1>4. ManagerFits(cs, ls2, m)
  <2>1. m.pc \in {"add", "reclaim", "mark"} => m.guid # g /\ m.guid \in Guids
    BY Zenon DEF Fits, ManagerFits
  <2> QED BY <2>1, Zenon DEF Fits, ManagerFits, Describes
<1> QED BY <1>1, <1>2, <1>3, <1>4, Zenon DEF Fits

(* The callback's device p is built from what the callback carries.        *)
Builds(cb, cb2, pd, pd2, p) ==
    /\ \A q \in Pdos : q # p => pd2[q] = pd[q]
    /\ cb.pc = "create" /\ pd[p].state = "free"
    /\ pd2[p].state = "built" /\ pd2[p].guid = cb.guid /\ pd2[p].mtu = cb.mtu
    /\ cb2.pc = "link" /\ cb2.guid = cb.guid /\ cb2.mtu = cb.mtu /\ cb2.pdo = p

(* The device the callback builds is the only one of its child.            *)
LEMMA BuildFits ==
    ASSUME NEW cs, NEW ls, NEW cb, NEW cb2, NEW pd, NEW pd2, NEW m, Fits(cs, ls, cb, pd, m),
           NEW p \in Pdos, Builds(cb, cb2, pd, pd2, p),
           \A h \in Guids : Has(cs, h) => At(cs, h).pdo \in Pdos \cup {NoPdo}
    PROVE  Fits(cs, ls, cb2, pd2, m)
<1> USE DEF Builds
<1>1. /\ cb.guid \in Guids /\ ls[cb.guid].state = "building" /\ Has(cs, cb.guid)
      /\ \A q \in Pdos : pd[q].state # "built"
  BY Zenon DEF Fits, CallbackFits, DescriptionFits, DeviceFits
<1>2. DeviceFits(cs, ls, cb2, pd2)
  BY <1>1 DEF Fits, DeviceFits
<1>3. CallbackFits(ls, cb2, pd2)
  BY <1>1, Zenon DEF Fits, CallbackFits
<1>4. NodeFits(cs, pd2)
  BY DEF Fits, NodeFits
<1> QED BY <1>2, <1>3, <1>4, Zenon DEF Fits


(* While the callback builds a device, the manager is at no point where    *)
(* the node of that device matters: it is CREATING, and REMOVE refuses it. *)
LEMMA BuildingIsElsewhere ==
    ASSUME NEW cs, NEW ls, NEW cb, NEW pd, NEW m, Fits(cs, ls, cb, pd, m), cb.pc # "idle",
           m.pc \in {"idle", "add", "missing", "reclaim", "mark", "record"}
    PROVE  Elsewhere(m, cb.guid) /\ cb.guid \in Guids /\ Has(cs, cb.guid)
<1>1. cb.guid \in Guids /\ ls[cb.guid].state = "building"
  BY Zenon DEF Fits, CallbackFits
<1>2. Has(cs, cb.guid) /\ At(cs, cb.guid).lifecycle = "CREATING"
  BY <1>1, Zenon DEF Fits, DescriptionFits
<1> QED BY <1>1, <1>2, Zenon DEF Fits, ManagerFits, Elsewhere

(* A callback that fails leaves the description without a device.          *)
LEMMA FailFits ==
    ASSUME NEW cs, NEW ls, NEW ls2, NEW cb, NEW pd, NEW m, Fits(cs, ls, cb, pd, m),
           m.pc \in {"idle", "add", "missing", "reclaim", "mark", "record"},
           cb.pc = "create", Describes(ls, ls2, cb.guid), ls2[cb.guid].state \in {"none", "noobject"}
    PROVE  Fits(cs, ls2, IdleCallback, pd, m)
<1>1. cb.guid \in Guids /\ Has(cs, cb.guid) /\ Elsewhere(m, cb.guid) /\ ls[cb.guid].state = "building"
  BY BuildingIsElsewhere, Zenon DEF Fits, CallbackFits
<1>2. DescriptionFits(cs, ls2)
  BY <1>1 DEF Fits, DescriptionFits, Describes
<1>3. CallbackFits(ls2, IdleCallback, pd)
  <2>1. IdleCallback.pc = "idle"
    BY Zenon DEF IdleCallback
  <2> QED BY <1>1, <2>1, Zenon DEF Fits, CallbackFits, Describes
<1>4. DeviceFits(cs, ls2, IdleCallback, pd)
  BY <1>1, Zenon DEF Fits, DeviceFits, Describes
<1>5. ManagerFits(cs, ls2, m)
  BY <1>1, Zenon DEF Fits, ManagerFits, Describes, Elsewhere
<1> QED BY <1>2, <1>3, <1>4, <1>5, Zenon DEF Fits

(* Device p moves to another state and keeps its description.              *)
Marks(pd, pd2, p, state) ==
    /\ \A q \in Pdos : q # p => pd2[q] = pd[q]
    /\ pd2[p].state = state /\ pd2[p].guid = pd[p].guid /\ pd2[p].mtu = pd[p].mtu

(* link_pdo joins the device built to the node of its child.               *)
LEMMA LinkFits ==
    ASSUME NEW cs, NEW c2, NEW ls, NEW ls2, NEW cb, NEW pd, NEW pd2, NEW m, Fits(cs, ls, cb, pd, m),
           m.pc \in {"idle", "add", "missing", "reclaim", "mark", "record"},
           cb.pc = "link", Rewrites(cs, c2, cb.guid, At(cs, cb.guid).lifecycle, cb.pdo),
           Describes(ls, ls2, cb.guid), ls2[cb.guid].state = "object",
           \A h \in Guids : Has(cs, h) => At(cs, h).pdo \in Pdos \cup {NoPdo},
           Marks(pd, pd2, cb.pdo, "live")
    PROVE  Fits(c2, ls2, IdleCallback, pd2, m)
<1> DEFINE g == cb.guid
           p == cb.pdo
<1>0. /\ \A q \in Pdos : q # p => pd2[q] = pd[q]
      /\ pd2[p].state = "live" /\ pd2[p].guid = pd[p].guid /\ pd2[p].mtu = pd[p].mtu
  BY Zenon DEF Marks
<1>parts. DescriptionFits(cs, ls) /\ DeviceFits(cs, ls, cb, pd) /\ NodeFits(cs, pd)
  BY Zenon DEF Fits
<1>1. /\ \A h \in Guids : Has(c2, h) <=> Has(cs, h)
      /\ \A h \in Guids : h # g /\ Has(cs, h) => At(c2, h) = At(cs, h)
      /\ Has(c2, g) /\ At(c2, g).pdo = p /\ At(c2, g).mtu = At(cs, g).mtu
  BY Zenon DEF Rewrites, Puts
<1>2. g \in Guids /\ Elsewhere(m, g) /\ p \in Pdos
  BY BuildingIsElsewhere, Zenon DEF Fits, CallbackFits
<1>3. /\ ls[g].state = "building" /\ pd[p].state = "built" /\ pd[p].guid = g
      /\ pd[p].mtu = At(cs, g).mtu /\ p # NoPdo
  BY <1>2, BusAssumption, Zenon DEF Fits, CallbackFits, DescriptionFits
<1>4. \A q \in Pdos : q # p /\ pd[q].state # "free" =>
          pd[q].state # "built" /\ (pd[q].state \in {"live", "cleanup"} => pd[q].guid # g)
  BY <1>3, Zenon DEF Fits, DeviceFits
<1> HIDE DEF g, p
<1>5. /\ Describes(ls, ls2, g) /\ ls2[g].state = "object" /\ pd2[p].state = "live"
      /\ pd2[p].guid = g /\ pd2[p].mtu = At(cs, g).mtu
      /\ \A q \in Pdos : q # p => pd2[q] = pd[q]
      /\ \A h \in Guids : ls[h].state = "building" => h = g
  BY <1>0, <1>3, Zenon DEF g, p, Fits, CallbackFits
<1>same. \A h \in Guids : h # g => ls2[h] = ls[h]
  BY <1>5, Zenon DEF Describes
<1>6. DescriptionFits(c2, ls2)
  <2>1. ASSUME NEW h \in Guids
        PROVE  /\ ls2[h].state # "none" => Has(c2, h)
               /\ ls2[h].state \in {"new", "building"} =>
                     /\ At(c2, h).lifecycle = "CREATING" /\ At(c2, h).pdo = NoPdo
                     /\ At(c2, h).mtu = ls2[h].mtu
               /\ ls2[h].state = "object" => At(c2, h).pdo # NoPdo
    <3>1. CASE h = g
      BY <1>1, <1>3, <1>5, <3>1, Zenon
    <3>2. CASE h # g
      BY <1>parts, <1>same, <1>1, <3>2 DEF DescriptionFits
    <3> QED BY <3>1, <3>2, Zenon
  <2> QED BY <2>1, Zenon DEF DescriptionFits
<1>7. CallbackFits(ls2, IdleCallback, pd2)
  <2>1. IdleCallback.pc = "idle"
    BY Zenon DEF IdleCallback
  <2>2. \A h \in Guids : ls2[h].state # "building"
    BY <1>2, <1>5, Zenon DEF Describes
  <2> HIDE DEF IdleCallback
  <2> QED BY <2>1, <2>2, Zenon DEF CallbackFits
<1>8. DeviceFits(c2, ls2, IdleCallback, pd2)
  <2>1. ASSUME NEW q \in Pdos
        PROVE  /\ pd2[q].state = "free" => pd2[q] = FreePdo
               /\ pd2[q].state # "free" => pd2[q].guid \in Guids /\ Has(c2, pd2[q].guid)
               /\ pd2[q].state # "built"
               /\ pd2[q].state = "live" => ls2[pd2[q].guid].state = "object"
               /\ pd2[q].state = "cleanup" => ls2[pd2[q].guid].state = "none"
               /\ pd2[q].state \in {"live", "cleanup"} => At(c2, pd2[q].guid).pdo = q
    <3>1. CASE q = p
      BY <1>1, <1>2, <1>5, <3>1, Zenon
    <3>2. CASE q # p
      <4>1. pd2[q] = pd[q]
        BY <1>5, <3>2, Zenon
      <4>2. /\ pd[q].state = "free" => pd[q] = FreePdo
            /\ pd[q].state # "free" => pd[q].guid \in Guids /\ Has(cs, pd[q].guid)
            /\ pd[q].state # "built"
            /\ pd[q].state = "live" => ls[pd[q].guid].state = "object"
            /\ pd[q].state = "cleanup" => ls[pd[q].guid].state = "none"
            /\ pd[q].state \in {"live", "cleanup"} => At(cs, pd[q].guid).pdo = q
        BY <1>parts, <1>4, <3>2, Zenon DEF DeviceFits
      <4>3. pd[q].state \in {"live", "cleanup"} => pd[q].guid # g
        BY <1>4, <3>2, Zenon
      <4> QED BY <1>1, <1>same, <4>1, <4>2, <4>3, Zenon
    <3> QED BY <3>1, <3>2, Zenon
  <2> QED BY <2>1, Zenon DEF DeviceFits
<1>9. NodeFits(c2, pd2)
  <2>1. ASSUME NEW h \in Guids, Has(c2, h), At(c2, h).pdo # NoPdo
        PROVE  /\ pd2[At(c2, h).pdo].state \in {"live", "cleanup"}
               /\ pd2[At(c2, h).pdo].guid = h
               /\ pd2[At(c2, h).pdo].mtu = At(c2, h).mtu
    <3>1. CASE h = g
      BY <1>1, <1>5, <3>1, Zenon
    <3>2. CASE h # g
      <4>1. Has(cs, h) /\ At(c2, h) = At(cs, h) /\ At(cs, h).pdo \in Pdos
        BY <1>1, <2>1, <3>2, Zenon
      <4>2. pd[At(cs, h).pdo].guid = h
        BY <1>parts, <2>1, <4>1, Zenon DEF NodeFits
      <4>3. pd2[At(cs, h).pdo] = pd[At(cs, h).pdo]
        BY <1>3, <1>5, <3>2, <4>1, <4>2, Zenon
      <4> QED BY <1>parts, <2>1, <4>1, <4>3 DEF NodeFits
    <3> QED BY <3>1, <3>2, Zenon
  <2> QED BY <2>1, Zenon DEF NodeFits
<1>10. ManagerFits(c2, ls2, m)
  BY <1>1, <1>2, <1>5, Zenon DEF Fits, ManagerFits, Describes, Elsewhere
<1> QED BY <1>6, <1>7, <1>8, <1>9, <1>10, Zenon DEF Fits

(* Publishing the interface changes no description and no node.            *)
LEMMA PublishFits ==
    ASSUME NEW cs, NEW ls, NEW cb, NEW pd, NEW pd2, NEW m, Fits(cs, ls, cb, pd, m),
           NEW p \in Pdos, \A q \in Pdos : q # p => pd2[q] = pd[q],
           \A h \in Guids : Has(cs, h) => At(cs, h).pdo \in Pdos \cup {NoPdo},
           pd[p].state = "live", pd2[p].state = "live", pd2[p].guid = pd[p].guid, pd2[p].mtu = pd[p].mtu
    PROVE  Fits(cs, ls, cb, pd2, m)
<1>1. DeviceFits(cs, ls, cb, pd2)
  BY DEF Fits, DeviceFits
<1>2. CallbackFits(ls, cb, pd2)
  BY Zenon DEF Fits, CallbackFits
<1>3. NodeFits(cs, pd2)
  BY DEF Fits, NodeFits
<1> QED BY <1>1, <1>2, <1>3, Zenon DEF Fits

(* A removed device awaits its cleanup and its description is gone.        *)
LEMMA RemoveFits ==
    ASSUME NEW cs, NEW ls, NEW ls2, NEW cb, NEW pd, NEW pd2, NEW m, Fits(cs, ls, cb, pd, m),
           NEW p \in Pdos, \A q \in Pdos : q # p => pd2[q] = pd[q],
           \A d \in Pdos : pd[d].state \in {"free", "built", "live", "cleanup"},
           \A h \in Guids : Has(cs, h) => At(cs, h).pdo \in Pdos \cup {NoPdo},
           Describes(ls, ls2, pd[p].guid), ls2[pd[p].guid].state = "none",
           pd[p].state = "live", pd2[p].state = "cleanup", pd2[p].guid = pd[p].guid, pd2[p].mtu = pd[p].mtu
    PROVE  Fits(cs, ls2, cb, pd2, m)
<1> DEFINE g == pd[p].guid
<1>1. g \in Guids /\ ls[g].state = "object" /\ \A q \in Pdos : pd[q].guid = g => q = p
  <2>1. g \in Guids /\ ls[g].state = "object"
    BY Zenon DEF Fits, DeviceFits
  <2>2. \A q \in Pdos : pd[q].guid = g => q = p
    BY OneDevice
  <2> QED BY <2>1, <2>2, Zenon
<1>2. Describes(ls, ls2, g) /\ ls2[g].state = "none" /\ pd2[p].guid = g
  BY Zenon
<1>3. DeviceFits(cs, ls2, cb, pd2)
  BY <1>1, <1>2 DEF Fits, DeviceFits, Describes
<1>4. CallbackFits(ls2, cb, pd2)
  BY <1>1, <1>2 DEF Fits, CallbackFits, Describes
<1>5. NodeFits(cs, pd2)
  <2>1. ASSUME NEW h \in Guids, Has(cs, h), At(cs, h).pdo # NoPdo
        PROVE  /\ pd2[At(cs, h).pdo].state \in {"live", "cleanup"}
               /\ pd2[At(cs, h).pdo].guid = h
               /\ pd2[At(cs, h).pdo].mtu = At(cs, h).mtu
    <3>1. /\ pd[At(cs, h).pdo].state \in {"live", "cleanup"}
          /\ pd[At(cs, h).pdo].guid = h /\ pd[At(cs, h).pdo].mtu = At(cs, h).mtu
      BY <2>1, Zenon DEF Fits, NodeFits
    <3>2. At(cs, h).pdo \in Pdos
      BY <2>1, Zenon
    <3> DEFINE d == At(cs, h).pdo
    <3>3. CASE d = p
      BY <3>1, <3>3, Zenon
    <3>4. CASE d # p
      BY <3>1, <3>2, <3>4, Zenon
    <3> QED BY <3>3, <3>4, Zenon
  <2> QED BY <2>1, Zenon DEF NodeFits
<1>6. DescriptionFits(cs, ls2)
  <2>1. DescriptionFits(cs, ls) /\ \A h \in Guids : h # g => ls2[h] = ls[h]
    BY <1>2, Zenon DEF Fits, Describes
  <2>2. ASSUME NEW h \in Guids
        PROVE  /\ ls2[h].state # "none" => Has(cs, h)
               /\ ls2[h].state \in {"new", "building"} =>
                     /\ At(cs, h).lifecycle = "CREATING" /\ At(cs, h).pdo = NoPdo
                     /\ At(cs, h).mtu = ls2[h].mtu
               /\ ls2[h].state = "object" => At(cs, h).pdo # NoPdo
    <3>1. CASE h = g
      BY <1>2, <3>1, Zenon
    <3>2. CASE h # g
      BY <2>1, <3>2 DEF DescriptionFits
    <3> QED BY <3>1, <3>2, Zenon
  <2> QED BY <2>2, Zenon DEF DescriptionFits
<1>7. ManagerFits(cs, ls2, m)
  BY <1>1, <1>2, Zenon DEF Fits, ManagerFits, Describes
<1> QED BY <1>3, <1>4, <1>5, <1>6, <1>7, Zenon DEF Fits


(* The cleanup of a device whose node stays: the node loses the device.    *)
LEMMA CleanupFits ==
    ASSUME NEW cs, NEW c2, NEW ls, NEW cb, NEW pd, NEW pd2, NEW m, Fits(cs, ls, cb, pd, m),
           NEW p \in Pdos, \A q \in Pdos : q # p => pd2[q] = pd[q], pd2[p] = FreePdo,
           \A d \in Pdos : pd[d].state \in {"free", "built", "live", "cleanup"},
           \A h \in Guids : Has(cs, h) => At(cs, h).pdo \in Pdos \cup {NoPdo},
           pd[p].state = "cleanup", At(cs, pd[p].guid).lifecycle # "REMOVING",
           NEW lifecycle, Rewrites(cs, c2, pd[p].guid, lifecycle, NoPdo)
    PROVE  Fits(c2, ls, cb, pd2, m)
<1> DEFINE g == pd[p].guid
<1>1. g \in Guids /\ ls[g].state = "none" /\ \A q \in Pdos : pd[q].guid = g => q = p
  <2>1. g \in Guids /\ ls[g].state = "none"
    BY Zenon DEF Fits, DeviceFits
  <2>2. \A q \in Pdos : pd[q].guid = g => q = p
    BY OneDevice
  <2> QED BY <2>1, <2>2, Zenon
<1>2. At(cs, g).pdo = p /\ p # NoPdo
  BY BusAssumption, Zenon DEF Fits, DeviceFits
<1>3. /\ \A h \in Guids : Has(c2, h) <=> Has(cs, h)
      /\ \A h \in Guids : h # g /\ Has(cs, h) => At(c2, h) = At(cs, h)
      /\ At(c2, g).pdo = NoPdo /\ At(c2, g).mtu = At(cs, g).mtu
      /\ Has(cs, g) /\ At(cs, g).lifecycle # "REMOVING"
  BY Zenon DEF Rewrites, Puts
<1>4. FreePdo.state = "free"
  BY Zenon DEF FreePdo
<1> HIDE DEF g, FreePdo
<1>5. DeviceFits(c2, ls, cb, pd2)
  <2>1. \A q \in Pdos : q # p => pd2[q] = pd[q] /\ pd[q].guid # g
    BY <1>1, Zenon
  <2>2. DeviceFits(cs, ls, cb, pd)
    BY Zenon DEF Fits
  <2>3. pd2[p] = FreePdo
    BY Zenon
  <2>4. ASSUME NEW q \in Pdos, q # p, pd[q].state # "free"
        PROVE  /\ pd[q].guid \in Guids /\ pd[q].guid # g
               /\ Has(c2, pd[q].guid) /\ At(c2, pd[q].guid) = At(cs, pd[q].guid)
    BY <1>3, <2>1, <2>2, <2>4, Zenon DEF DeviceFits
  <2> QED BY <1>4, <2>1, <2>2, <2>3, <2>4 DEF DeviceFits
<1>6. CallbackFits(ls, cb, pd2)
  BY Zenon DEF Fits, CallbackFits
<1>7. NodeFits(c2, pd2)
  <2>1. ASSUME NEW h \in Guids, Has(c2, h), At(c2, h).pdo # NoPdo
        PROVE  /\ pd2[At(c2, h).pdo].state \in {"live", "cleanup"}
               /\ pd2[At(c2, h).pdo].guid = h
               /\ pd2[At(c2, h).pdo].mtu = At(c2, h).mtu
    <3>1. h # g /\ Has(cs, h) /\ At(c2, h) = At(cs, h) /\ At(cs, h).pdo \in Pdos
      BY <1>3, <2>1, Zenon
    <3>2. pd[At(cs, h).pdo].guid = h
      BY <2>1, <3>1, Zenon DEF Fits, NodeFits
    <3>3. pd2[At(cs, h).pdo] = pd[At(cs, h).pdo]
      BY <3>1, <3>2, Zenon DEF g
    <3>4. /\ pd[At(cs, h).pdo].state \in {"live", "cleanup"}
          /\ pd[At(cs, h).pdo].mtu = At(cs, h).mtu
      BY <2>1, <3>1, Zenon DEF Fits, NodeFits
    <3> QED BY <3>1, <3>2, <3>3, <3>4, Zenon
  <2> QED BY <2>1, Zenon DEF NodeFits
<1>8. DescriptionFits(c2, ls)
  BY <1>1, <1>3 DEF Fits, DescriptionFits
<1>9. ManagerFits(c2, ls, m)
  <2>1. m.pc \in {"add", "missing"} => m.guid # g
    BY <1>2, <1>3, Zenon DEF Fits, ManagerFits
  <2> QED BY <1>3, <2>1, Zenon DEF Fits, ManagerFits
<1> QED BY <1>5, <1>6, <1>7, <1>8, <1>9, Zenon DEF Fits

(* Removing the bus drops the descriptions that have no device.            *)
LEMMA BusRemovedFits ==
    ASSUME NEW cs, NEW ls, NEW ls2, NEW cb, NEW pd, NEW m, Fits(cs, ls, cb, pd, m),
           \A h \in Guids : IF ls[h].state \in {"new", "noobject"} THEN ls2[h].state = "none"
                            ELSE ls2[h] = ls[h]
    PROVE  Fits(cs, ls2, cb, pd, m)
<1>1. DescriptionFits(cs, ls2)
  BY Zenon DEF Fits, DescriptionFits
<1>2. CallbackFits(ls2, cb, pd)
  BY Zenon DEF Fits, CallbackFits
<1>3. DeviceFits(cs, ls2, cb, pd)
  BY DEF Fits, DeviceFits
<1>4. ManagerFits(cs, ls2, m)
  BY Zenon DEF Fits, ManagerFits
<1> QED BY <1>1, <1>2, <1>3, <1>4, Zenon DEF Fits

-----------------------------------------------------------------------------
(* The actions.                                                            *)

Requests ==
    [pc : {"idle", "add", "missing", "reclaim", "mark", "record"},
     guid : Guids \cup {NoGuid}, mtu : ValidMtus \cup {0}, withoutPdo : BOOLEAN]

Callbacks ==
    [pc : {"idle", "create", "link", "delete"}, guid : Guids \cup {NoGuid},
     mtu : ValidMtus \cup {0}, pdo : Pdos \cup {NoPdo}]

Devices ==
    [state : {"free", "built", "live", "cleanup"}, guid : Guids \cup {NoGuid},
     mtu : ValidMtus \cup {0}, published : BOOLEAN]

Descriptions ==
    [state : {"none", "new", "building", "noobject", "object"},
     mtu : ValidMtus \cup {0}, missing : BOOLEAN]

(* What an action may assume.                                              *)
Before ==
    /\ Distinct(children) /\ ~guard /\ Fits(children, list, callback, pdo, manager)
    /\ manager \in Requests /\ callback \in Callbacks
    /\ pdo \in [Pdos -> Devices] /\ list \in [Guids -> Descriptions]

(* Nothing runs once the bus device is gone.                               *)
LEMMA PresentIsLinked ==
    ASSUME BusInv, Next
    PROVE  bus # "gone" /\ Before
<1>1. bus # "gone"
  <2> SUFFICES ASSUME bus = "gone" PROVE FALSE
    BY Zenon
  <2>1. manager.pc = "idle" /\ callback.pc = "idle" /\ \A p \in Pdos : pdo[p].state = "free"
    BY DEF BusInv, FreePdo
  <2>2. ~\E g \in Guids : (\E mm \in RequestedMtus : ManagerCreate(g, mm)) \/ ManagerRemove(g)
                          \/ ManagerQuery(g) \/ StartCallback(g)
    BY Zenon DEF ManagerCreate, ManagerRemove, ManagerQuery, StartCallback, Accepts
  <2>3. ~(ManagerEnumerate \/ ManagerRuns)
    BY <2>1, Zenon DEF ManagerEnumerate, Accepts, ManagerRuns, AddChild, UpdateMissing,
                ReclaimWithoutPdo, MarkFailed, AnswerRecord
  <2>4. ~CallbackRuns
    BY <2>1, Zenon DEF CallbackRuns, CreatePdo, CallbackFails, LinkPdo
  <2>5. ~\E p \in Pdos : PublishInterface(p) \/ RemovePdo(p) \/ PdoCleanup(p)
    BY <2>1, Zenon DEF PublishInterface, RemovePdo, PdoCleanup
  <2> QED BY <2>2, <2>3, <2>4, <2>5, Zenon DEF Next, RemoveBus, BusDeviceCleanup
<1> QED BY <1>1, Zenon DEF BusInv, TypeOK, Before, Requests, Callbacks, Devices, Descriptions


After ==
    /\ Distinct(children') /\ ~guard'
    /\ Fits(children', list', callback', pdo', manager')

(* The parts of the invariant that the handlers read.                      *)
LEMMA NodesHavePdos ==
    ASSUME Before
    PROVE  /\ \A h \in Guids : Has(children, h) => At(children, h).pdo \in Pdos \cup {NoPdo}
           /\ \A d \in Pdos : pdo[d].state \in {"free", "built", "live", "cleanup"}
           /\ manager.pc \in {"idle", "add", "missing", "reclaim", "mark", "record"}
<1>1. \A h \in Guids : Has(children, h) => At(children, h).pdo \in Pdos \cup {NoPdo}
  BY HasNode, Zenon DEF Before, ChildNode
<1> QED BY <1>1, Zenon DEF Before, Devices, Requests

(* A request that is refused, or answered at once, changes nothing.        *)
LEMMA RefuseStep ==
    ASSUME Before, UNCHANGED <<children, guard, callback, pdo, list>>,
           manager' = manager \/ (manager'.pc = "idle")
    PROVE  After
<1>1. Fits(children, list, callback, pdo, manager')
  BY RequestFits, Zenon DEF Before
<1>2. Fits(children', list', callback', pdo', manager')
  BY <1>1, Zenon
<1> QED BY <1>2, Zenon DEF Before, After

(* requested_mtu resolves to a valid MTU.                                  *)
LEMMA EffectiveMtuIsValid ==
    ASSUME NEW requested \in RequestedMtus, ValidMtu(requested)
    PROVE  EffectiveMtu(requested) \in ValidMtus
<1>1. EffectiveMtu(requested) \in MinimumMtu..MaximumMtu
  <2>1. DefaultMtu \in MinimumMtu..MaximumMtu
    BY DEF MinimumMtu, MaximumMtu, DefaultMtu
  <2> QED BY <2>1 DEF ValidMtu, EffectiveMtu
<1> QED BY <1>1, Zenon DEF ValidMtus

(* CREATE, up to its call of the child list.                               *)
LEMMA CreateStep ==
    ASSUME Before, NEW g \in Guids, NEW requested \in RequestedMtus, ManagerCreate(g, requested)
    PROVE  After
<1> DEFINE n == [guid |-> g, lifecycle |-> "CREATING", status |-> "pending",
                 mtu |-> EffectiveMtu(requested), pdo |-> NoPdo]
<1>1. CASE Refuse /\ ManagerOnly
  BY <1>1, RefuseStep, Zenon DEF Refuse, ManagerOnly
<1>2. CASE ~Known(g) /\ children' = <<n>> \o children /\ ManagerOnly
           /\ manager' = [IdleManager EXCEPT !.pc = "add", !.guid = g, !.mtu = EffectiveMtu(requested)]
  <2>1. n \in ChildNode /\ n.guid = g /\ n.lifecycle = "CREATING" /\ n.pdo = NoPdo
        /\ n.mtu = EffectiveMtu(requested)
    <3>1. EffectiveMtu(requested) \in ValidMtus
      BY EffectiveMtuIsValid, Zenon DEF ManagerCreate
    <3> QED BY <3>1, Zenon DEF ChildNode, Lifecycles, Statuses
  <2>2. manager'.pc = "add" /\ manager'.guid = g /\ manager'.mtu = EffectiveMtu(requested)
    BY <1>2, Zenon DEF IdleManager
  <2>3. ~Has(children, g) /\ Distinct(children) /\ Fits(children, list, callback, pdo, manager) /\ ~guard
    BY <1>2, KnownIsHas, Zenon DEF Before
  <2> HIDE DEF n
  <2>4. Puts(children, children', g, n)
    BY <1>2, <2>1, <2>3, PrependPuts, Zenon
  <2>5. Fits(children', list, callback, pdo, manager')
    BY <2>1, <2>2, <2>3, <2>4, CreateFits, Zenon
  <2> QED BY <1>2, <2>3, <2>4, <2>5, Zenon DEF After, ManagerOnly, Puts
<1> QED BY <1>1, <1>2, Zenon DEF ManagerCreate

(* CREATE's call of the child list, whether it succeeds or fails.          *)
LEMMA AddStep ==
    ASSUME Before, AddChild
    PROVE  After
<1>1. /\ manager.pc = "add" /\ UNCHANGED <<children, guard, callback, pdo>>
      /\ Distinct(children) /\ ~guard /\ Fits(children, list, callback, pdo, manager)
      /\ manager \in Requests /\ list \in [Guids -> Descriptions]
  BY Zenon DEF AddChild, Before
<1>2. CASE manager' = [manager EXCEPT !.pc = "mark"] /\ UNCHANGED list
  <2>1. manager'.pc = "mark" /\ manager'.guid = manager.guid
    BY <1>1, <1>2, Zenon DEF Requests
  <2>2. Fits(children, list, callback, pdo, manager')
    BY <1>1, <2>1, RequestFits, Zenon
  <2> QED BY <1>1, <1>2, <2>2, Zenon DEF After
<1>3. CASE /\ manager' = [manager EXCEPT !.pc = "record"]
           /\ list' = [list EXCEPT ![manager.guid] = [state |-> "new", mtu |-> manager.mtu, missing |-> FALSE]]
  <2>1. manager'.pc = "record" /\ manager'.guid = manager.guid
    BY <1>1, <1>3, Zenon DEF Requests
  <2>2. manager.guid \in Guids
    BY <1>1, Zenon DEF Fits, ManagerFits
  <2>3. Describes(list, list', manager.guid) /\ list'[manager.guid].state = "new"
        /\ list'[manager.guid].mtu = manager.mtu
    BY <1>1, <1>3, <2>2, Zenon DEF Describes
  <2>4. Fits(children, list', callback, pdo, manager')
    BY <1>1, <2>1, <2>3, AddFits, Zenon
  <2> QED BY <1>1, <2>4, Zenon DEF After
<1> QED BY <1>2, <1>3, Zenon DEF AddChild

(* REMOVE, up to its call of the child list.                               *)
LEMMA RemoveStep ==
    ASSUME Before, NEW g \in Guids, ManagerRemove(g)
    PROVE  After
<1>1. CASE Refuse
  BY <1>1, RefuseStep, Zenon DEF ManagerRemove, Refuse, ManagerOnly
<1>2. CASE Removable(g) /\ SetLifecycle(g, "REMOVING", "pending")
           /\ manager' = [IdleManager EXCEPT !.pc = "missing", !.guid = g,
                              !.withoutPdo = (Node(g).pdo = NoPdo)]
  <2>1. Distinct(children) /\ Fits(children, list, callback, pdo, manager) /\ ~guard
        /\ UNCHANGED <<guard, callback, pdo, list>>
    BY Zenon DEF Before, ManagerRemove, ManagerOnly
  <2>2. Has(children, g) /\ Known(g) /\ At(children, g).lifecycle # "CREATING"
    BY <1>2, KnownIsHas, Zenon DEF Removable
  <2>3. manager'.pc = "missing" /\ manager'.guid = g
        /\ (manager'.withoutPdo => At(children, g).pdo = NoPdo)
    BY <1>2, KnownIsHas, Zenon DEF IdleManager
  <2>4. Rewrites(children, children', g, "REMOVING", At(children, g).pdo)
    BY <1>2, <2>1, <2>2, SetLifecycleRewrites, Zenon DEF Lifecycles, Statuses
  <2>5. list[g].state \notin {"new", "building"}
    BY <2>1, <2>2, Zenon DEF Fits, DescriptionFits
  <2>6. DescriptionFits(children', list) /\ DeviceFits(children', list, callback, pdo)
        /\ NodeFits(children', pdo)
    BY <2>1, <2>4, <2>5, RewriteFits, Zenon
  <2>7. ManagerFits(children', list, manager')
    BY <2>3, <2>4, Zenon DEF ManagerFits, Rewrites
  <2> QED BY <2>1, <2>4, <2>6, <2>7, Zenon DEF After, Fits, Rewrites, Puts
<1> QED BY <1>1, <1>2, Zenon DEF ManagerRemove

(* REMOVE's call of the child list, whether it succeeds or fails.          *)
LEMMA MissingStep ==
    ASSUME Before, UpdateMissing
    PROVE  After
<1> DEFINE g == manager.guid
<1>1. /\ manager.pc = "missing" /\ UNCHANGED <<children, guard, callback, pdo>>
      /\ Distinct(children) /\ ~guard /\ Fits(children, list, callback, pdo, manager)
      /\ manager \in Requests /\ list \in [Guids -> Descriptions]
  BY Zenon DEF UpdateMissing, Before
<1>2. CASE manager' = [manager EXCEPT !.pc = "mark"] /\ UNCHANGED list
  <2>1. manager'.pc = "mark" /\ manager'.guid = manager.guid
    BY <1>1, <1>2, Zenon DEF Requests
  <2>2. Fits(children, list, callback, pdo, manager')
    BY <1>1, <2>1, RequestFits, Zenon
  <2> QED BY <1>1, <1>2, <2>2, Zenon DEF After
<1>3. CASE list[g].state # "none" /\ AsMissing(g) /\ manager' = [manager EXCEPT !.pc = AfterMissing]
  <2>1. manager'.pc = (IF manager.withoutPdo THEN "reclaim" ELSE "record") /\ manager'.guid = g
    BY <1>1, <1>3, Zenon DEF Requests, AfterMissing
  <2>2. g \in Guids
    BY <1>1, Zenon DEF Fits, ManagerFits
  <2>3. list[g] \in Descriptions
    BY <1>1, <2>2, Zenon
  <2>4. /\ Describes(list, list', g) /\ list[g].state \in {"none", "new", "building", "noobject", "object"}
        /\ list'[g].state = IF list[g].state \in {"new", "noobject"} THEN "none" ELSE list[g].state
    <3>1. Unlisted.state = "none" /\ [list[g] EXCEPT !.missing = TRUE].state = list[g].state
      BY <2>3, Zenon DEF Unlisted, Descriptions
    <3>2. list[g].state \in {"none", "new", "building", "noobject", "object"}
      BY <2>3, Zenon DEF Descriptions
    <3>3. Describes(list, list', g)
      BY <1>1, <1>3, Zenon DEF AsMissing, Describes
    <3>4. list'[g] = IF list[g].state \in {"new", "noobject"} THEN Unlisted
                     ELSE [list[g] EXCEPT !.missing = TRUE]
      BY <1>1, <1>3, <2>2, Zenon DEF AsMissing
    <3> QED BY <3>1, <3>2, <3>3, <3>4, Zenon
  <2>5. Fits(children, list', callback, pdo, manager')
    BY <1>1, <1>3, <2>1, <2>4, MissingFits, Zenon
  <2> QED BY <1>1, <2>5, Zenon DEF After
<1> QED BY <1>2, <1>3, Zenon DEF UpdateMissing


(* REMOVE reclaims a child that never had a device.                        *)
LEMMA ReclaimStep ==
    ASSUME Before, ReclaimWithoutPdo
    PROVE  After
<1> DEFINE g == manager.guid
<1>1. /\ manager.pc = "reclaim" /\ UNCHANGED <<guard, callback, pdo, list>>
      /\ Distinct(children) /\ ~guard /\ Fits(children, list, callback, pdo, manager)
      /\ manager \in Requests
  BY Zenon DEF ReclaimWithoutPdo, ManagerOnly, Before
<1>2. manager'.pc = "record" /\ manager'.guid = g
  BY <1>1, Zenon DEF ReclaimWithoutPdo, Requests
<1>3. CASE UNCHANGED children
  <2>1. Fits(children, list, callback, pdo, manager')
    BY <1>1, <1>2, RequestFits, Zenon
  <2> QED BY <1>1, <1>3, <2>1, Zenon DEF After
<1>4. CASE Known(g) /\ Node(g).pdo = NoPdo /\ Reclaim(g)
  <2>1. g \in Guids /\ list[g].state = "none" /\ At(children, g).pdo = NoPdo
    BY <1>1, <1>4, KnownIsHas, Zenon DEF Fits, ManagerFits
  <2>2. ASSUME NEW p \in Pdos PROVE pdo[p].guid # g
    <3>1. pdo[p].state \in {"free", "built", "live", "cleanup"}
      BY NodesHavePdos, Zenon
    <3>fits. DeviceFits(children, list, callback, pdo) /\ CallbackFits(list, callback, pdo)
      BY <1>1, Zenon DEF Fits
    <3>2. CASE pdo[p].state = "free"
      BY <2>1, <3>2, <3>fits, FreePdoIs, BusAssumption DEF DeviceFits
    <3>3. CASE pdo[p].state = "built"
      BY <2>1, <3>3, <3>fits, Zenon DEF DeviceFits, CallbackFits
    <3>4. CASE pdo[p].state \in {"live", "cleanup"}
      BY <2>1, <3>4, <3>fits, BusAssumption DEF DeviceFits
    <3> QED BY <3>1, <3>2, <3>3, <3>4, Zenon
  <2>3. Releases(pdo, pdo, g)
    BY <2>2, Zenon DEF Releases
  <2>4. Drops(children, children', g)
    BY <1>1, <1>4, <2>1, ReclaimDrops, Zenon
  <2>5. Fits(children', list, callback, pdo, manager)
    BY <1>1, <2>1, <2>3, <2>4, DropFits, Zenon DEF Fits
  <2>6. Fits(children', list, callback, pdo, manager')
    BY <1>1, <1>2, <2>5, RequestFits, Zenon
  <2> QED BY <1>1, <2>4, <2>6, Zenon DEF After, Drops
<1> QED BY <1>3, <1>4, Zenon DEF ReclaimWithoutPdo

(* mark_child_failure and the completion of a CREATE rewrite the node of a *)
(* child that is not waiting for its device.                               *)
LEMMA RewriteStep ==
    ASSUME Before, NEW g \in Guids, NEW lifecycle,
           Rewrites(children, children', g, lifecycle, At(children, g).pdo),
           list[g].state \notin {"new", "building"}, UNCHANGED <<guard, callback, pdo, list>>,
           manager'.pc \in {"idle", "record"}, manager'.pc # "idle" => manager'.guid \in Guids
    PROVE  After
<1>1. DescriptionFits(children', list) /\ DeviceFits(children', list, callback, pdo)
      /\ NodeFits(children', pdo)
  BY RewriteFits, Zenon DEF Before
<1>2. ManagerFits(children', list, manager')
  BY Zenon DEF ManagerFits
<1>3. Fits(children', list, callback, pdo, manager')
  BY <1>1, <1>2, Zenon DEF Fits, Before
<1> QED BY <1>3, Zenon DEF After, Before, Rewrites, Puts

(* CREATE or REMOVE records the failure of the child list in the node.     *)
LEMMA MarkStep ==
    ASSUME Before, MarkFailed
    PROVE  After
<1> DEFINE g == manager.guid
<1>1. /\ manager.pc = "mark" /\ UNCHANGED <<guard, callback, pdo, list>>
      /\ Distinct(children) /\ ~guard /\ Fits(children, list, callback, pdo, manager)
      /\ manager \in Requests
  BY Zenon DEF MarkFailed, ManagerOnly, Before
<1>2. manager'.pc = "record" /\ manager'.guid = g
  BY <1>1, Zenon DEF MarkFailed, Requests
<1>3. g \in Guids /\ list[g].state \notin {"new", "building"}
  BY <1>1, Zenon DEF Fits, ManagerFits
<1>4. CASE UNCHANGED children
  <2>1. Fits(children, list, callback, pdo, manager')
    BY <1>1, <1>2, RequestFits, Zenon
  <2> QED BY <1>1, <1>4, <2>1, Zenon DEF After
<1>5. CASE Known(g) /\ SetLifecycle(g, "FAILED", "failure")
  <2>1. Rewrites(children, children', g, "FAILED", At(children, g).pdo)
    BY <1>1, <1>3, <1>5, SetLifecycleRewrites, Zenon DEF Lifecycles, Statuses
  <2> QED BY <1>1, <1>2, <1>3, <2>1, RewriteStep, Zenon
<1> QED BY <1>4, <1>5, Zenon DEF MarkFailed, MarkChildFailure

(* A request answers with the record of its child.                         *)
LEMMA RecordStep ==
    ASSUME Before, NEW g \in Guids, ChildRecordFor(g), UNCHANGED <<guard, callback, pdo, list>>,
           manager'.pc = "idle"
    PROVE  After
<1>1. CASE UNCHANGED children
  BY <1>1, RefuseStep, Zenon
<1>2. CASE Known(g) /\ Node(g).pdo # NoPdo /\ SetLifecycle(g, "ACTIVE", "success")
  <2>1. Rewrites(children, children', g, "ACTIVE", At(children, g).pdo)
    BY <1>2, SetLifecycleRewrites, Zenon DEF Before, Lifecycles, Statuses
  <2>2. list[g].state \notin {"new", "building"}
    BY <1>2, KnownIsHas, Zenon DEF Before, Fits, DescriptionFits
  <2> QED BY <2>1, <2>2, RewriteStep, Zenon
<1> QED BY <1>1, <1>2, Zenon DEF ChildRecordFor, Gone

(* The framework starts the callback that creates a device.                *)
LEMMA StartStep ==
    ASSUME Before, NEW g \in Guids, StartCallback(g)
    PROVE  After
<1>1. /\ callback.pc = "idle" /\ list[g].state = "new" /\ UNCHANGED <<children, guard, manager, pdo>>
      /\ Distinct(children) /\ ~guard /\ Fits(children, list, callback, pdo, manager)
      /\ list \in [Guids -> Descriptions]
  BY Zenon DEF StartCallback, Before
<1>2. Describes(list, list', g) /\ list'[g].state = "building" /\ list'[g].mtu = list[g].mtu
  <2>1. list[g] \in Descriptions
    BY <1>1, Zenon
  <2>2. list' = [list EXCEPT ![g] = [list[g] EXCEPT !.state = "building"]]
    BY Zenon DEF StartCallback
  <2>3. [list[g] EXCEPT !.state = "building"].state = "building"
        /\ [list[g] EXCEPT !.state = "building"].mtu = list[g].mtu
    BY <2>1, Zenon DEF Descriptions
  <2> QED BY <1>1, <2>2, <2>3, Zenon DEF Describes
<1>3. callback'.pc = "create" /\ callback'.guid = g /\ callback'.mtu = list[g].mtu
  BY Zenon DEF StartCallback, IdleCallback
<1>4. Fits(children, list', callback', pdo, manager)
  BY <1>1, <1>2, <1>3, StartFits, Zenon
<1> QED BY <1>1, <1>4, Zenon DEF After

(* The callback creates the device.                                        *)
LEMMA BuildStep ==
    ASSUME Before, NEW p \in Pdos, CreatePdo(p)
    PROVE  After
<1>1. /\ callback.pc = "create" /\ pdo[p].state = "free" /\ UNCHANGED <<children, guard, manager, list>>
      /\ Distinct(children) /\ ~guard /\ Fits(children, list, callback, pdo, manager)
      /\ pdo \in [Pdos -> Devices] /\ callback \in Callbacks
  BY Zenon DEF CreatePdo, Before
<1>2. /\ \A q \in Pdos : q # p => pdo'[q] = pdo[q]
      /\ pdo'[p].state = "built" /\ pdo'[p].guid = callback.guid /\ pdo'[p].mtu = callback.mtu
  BY <1>1, Zenon DEF CreatePdo
<1>3. callback'.pc = "link" /\ callback'.guid = callback.guid /\ callback'.mtu = callback.mtu
      /\ callback'.pdo = p
  BY <1>1, Zenon DEF CreatePdo, Callbacks
<1>4. Fits(children, list, callback', pdo', manager)
  <2>1. Builds(callback, callback', pdo, pdo', p)
    BY <1>1, <1>2, <1>3, Zenon DEF Builds
  <2> QED BY <1>1, <2>1, NodesHavePdos, BuildFits, Zenon
<1> QED BY <1>1, <1>4, Zenon DEF After


(* What Returned does to the description of g.                             *)
LEMMA ReturnedDescribes ==
    ASSUME list \in [Guids -> Descriptions], NEW g \in Guids, NEW state, state \in {"noobject", "object"},
           Returned(g, state)
    PROVE  /\ Describes(list, list', g)
           /\ list'[g].state = state \/ (state = "noobject" /\ list'[g].state = "none")
           /\ list' \in [Guids -> Descriptions]
<1> DEFINE kept == [list[g] EXCEPT !.state = state]
<1>1. list[g] \in Descriptions
  BY Zenon
<1>2. kept \in Descriptions /\ kept.state = state
  BY <1>1, Zenon DEF Descriptions
<1>3. Unlisted \in Descriptions /\ Unlisted.state = "none"
  BY Zenon DEF Unlisted, Descriptions
<1>4. list' = [list EXCEPT ![g] = IF state = "noobject" /\ list[g].missing THEN Unlisted ELSE kept]
  BY Zenon DEF Returned
<1> HIDE DEF kept
<1> QED BY <1>2, <1>3, <1>4, Zenon DEF Describes

(* The callback fails before or after it created a device.                 *)
LEMMA FailStep ==
    ASSUME Before, CallbackFails
    PROVE  After
<1> DEFINE g == callback.guid
<1>1. /\ callback.pc = "create" /\ UNCHANGED <<guard, manager, pdo>> /\ callback' = IdleCallback
      /\ Distinct(children) /\ ~guard /\ Fits(children, list, callback, pdo, manager)
      /\ list \in [Guids -> Descriptions] /\ Returned(g, "noobject")
  BY Zenon DEF CallbackFails, Before
<1>2. g \in Guids /\ Has(children, g) /\ Elsewhere(manager, g) /\ Known(g)
  BY <1>1, BuildingIsElsewhere, NodesHavePdos, KnownIsHas, Zenon
<1>3. Describes(list, list', g) /\ list'[g].state \in {"none", "noobject"}
  BY <1>1, <1>2, ReturnedDescribes, Zenon
<1>4. Fits(children, list', IdleCallback, pdo, manager)
  BY <1>1, <1>3, FailFits, NodesHavePdos, Zenon
<1>5. Rewrites(children, children', g, "FAILED", At(children, g).pdo)
  BY <1>1, <1>2, SetLifecycleRewrites, Zenon DEF CallbackFails, MarkChildFailure, Lifecycles, Statuses
<1>6. /\ DescriptionFits(children', list') /\ DeviceFits(children', list', IdleCallback, pdo)
      /\ NodeFits(children', pdo) /\ ManagerFits(children', list', manager)
  BY <1>2, <1>3, <1>4, <1>5, RewriteFits, Zenon
<1>7. Fits(children', list', callback', pdo', manager')
  BY <1>1, <1>4, <1>6, Zenon DEF Fits
<1> QED BY <1>1, <1>5, <1>7, Zenon DEF After, Rewrites, Puts

(* The callback links its device to the node of the child.                 *)
LEMMA LinkStep ==
    ASSUME Before, LinkPdo
    PROVE  After
<1> DEFINE g == callback.guid
           p == callback.pdo
           n == [Node(g) EXCEPT !.pdo = p]
<1>1. /\ callback.pc = "link" /\ UNCHANGED manager /\ pdo \in [Pdos -> Devices]
      /\ Distinct(children) /\ ~guard /\ Fits(children, list, callback, pdo, manager)
      /\ list \in [Guids -> Descriptions]
  BY Zenon DEF LinkPdo, Before
<1>2. g \in Guids /\ Known(g) /\ p \in Pdos /\ pdo[p] \in Devices
  BY <1>1, BuildingIsElsewhere, NodesHavePdos, KnownIsHas DEF Fits, CallbackFits
<1>3. /\ children' = [children EXCEPT ![FindChild(g)] = [children[FindChild(g)] EXCEPT !.pdo = p]]
      /\ pdo' = [pdo EXCEPT ![p] = [pdo[p] EXCEPT !.state = "live"]]
      /\ Returned(g, "object") /\ callback' = IdleCallback /\ UNCHANGED guard
  BY <1>2, Zenon DEF LinkPdo
<1>4. /\ children[FindChild(g)] = Node(g) /\ Node(g) \in ChildNode /\ Node(g).guid = g
  BY <1>1, <1>2, FindChildFinds, Zenon
<1>5. n \in ChildNode /\ n.guid = g /\ n.mtu = Node(g).mtu /\ n.lifecycle = Node(g).lifecycle /\ n.pdo = p
  <2>1. ASSUME NEW x \in ChildNode, NEW y, y = [x EXCEPT !.pdo = p]
        PROVE  /\ y \in ChildNode /\ y.guid = x.guid /\ y.mtu = x.mtu /\ y.lifecycle = x.lifecycle
               /\ y.pdo = p
    BY <1>2, <2>1, Zenon DEF ChildNode
  <2> QED BY <1>4, <2>1, Zenon
<1>6. children' = [children EXCEPT ![FindChild(g)] = n]
  BY <1>3, <1>4, Zenon
<1>7. /\ \A q \in Pdos : q # p => pdo'[q] = pdo[q]
      /\ pdo'[p].state = "live" /\ pdo'[p].guid = pdo[p].guid /\ pdo'[p].mtu = pdo[p].mtu
  <2>1. [pdo[p] EXCEPT !.state = "live"].state = "live"
        /\ [pdo[p] EXCEPT !.state = "live"].guid = pdo[p].guid
        /\ [pdo[p] EXCEPT !.state = "live"].mtu = pdo[p].mtu
    BY <1>2, Zenon DEF Devices
  <2> QED BY <1>1, <1>2, <1>3, <2>1, Zenon
<1> HIDE DEF n
<1>8. Rewrites(children, children', g, n.lifecycle, n.pdo)
  BY <1>1, <1>2, <1>5, <1>6, NodeRewritten, Zenon
<1>9. Rewrites(children, children', g, At(children, g).lifecycle, p)
  BY <1>5, <1>8, KnownIsHas, Zenon
<1>10. Describes(list, list', g) /\ list'[g].state = "object"
  BY <1>1, <1>2, <1>3, ReturnedDescribes, Zenon
<1>11. Fits(children', list', IdleCallback, pdo', manager)
  <2>1. Marks(pdo, pdo', p, "live")
    BY <1>7, Zenon DEF Marks
  <2> QED BY <1>1, <1>9, <1>10, <2>1, LinkFits, NodesHavePdos, Zenon
<1> QED BY <1>1, <1>3, <1>9, <1>11, Zenon DEF After, Rewrites, Puts

(* The device publishes its interface.                                     *)
LEMMA PublishStep ==
    ASSUME Before, NEW p \in Pdos, PublishInterface(p)
    PROVE  After
<1>1. /\ pdo[p].state = "live" /\ UNCHANGED <<children, guard, manager, callback, list>>
      /\ Distinct(children) /\ ~guard /\ Fits(children, list, callback, pdo, manager)
      /\ pdo \in [Pdos -> Devices] /\ pdo' = [pdo EXCEPT ![p] = [pdo[p] EXCEPT !.published = TRUE]]
  BY Zenon DEF PublishInterface, Before
<1>2. /\ \A q \in Pdos : q # p => pdo'[q] = pdo[q]
      /\ pdo'[p].state = "live" /\ pdo'[p].guid = pdo[p].guid /\ pdo'[p].mtu = pdo[p].mtu
  <2>1. pdo[p] \in Devices
    BY <1>1, Zenon
  <2>2. [pdo[p] EXCEPT !.published = TRUE].state = pdo[p].state
        /\ [pdo[p] EXCEPT !.published = TRUE].guid = pdo[p].guid
        /\ [pdo[p] EXCEPT !.published = TRUE].mtu = pdo[p].mtu
    BY <2>1, Zenon DEF Devices
  <2> QED BY <1>1, <2>2, Zenon
<1>3. Fits(children, list, callback, pdo', manager)
  BY <1>1, <1>2, PublishFits, NodesHavePdos, Zenon
<1> QED BY <1>1, <1>3, Zenon DEF After

(* The framework removes a device whose description is missing.            *)
LEMMA RemovePdoStep ==
    ASSUME Before, NEW p \in Pdos, RemovePdo(p)
    PROVE  After
<1>1. /\ pdo[p].state = "live" /\ UNCHANGED <<children, guard, manager, callback>>
      /\ Distinct(children) /\ ~guard /\ Fits(children, list, callback, pdo, manager)
      /\ pdo \in [Pdos -> Devices] /\ list \in [Guids -> Descriptions]
      /\ pdo' = [pdo EXCEPT ![p] = [pdo[p] EXCEPT !.state = "cleanup", !.published = FALSE]]
      /\ list' = [list EXCEPT ![pdo[p].guid] = Unlisted]
  BY Zenon DEF RemovePdo, Before
<1>2. pdo[p].guid \in Guids
  BY <1>1, Zenon DEF Fits, DeviceFits
<1>3. /\ \A q \in Pdos : q # p => pdo'[q] = pdo[q]
      /\ pdo'[p].state = "cleanup" /\ pdo'[p].guid = pdo[p].guid /\ pdo'[p].mtu = pdo[p].mtu
  <2>1. pdo[p] \in Devices
    BY <1>1, Zenon
  <2>2. ASSUME NEW x \in Devices, NEW y, y = [x EXCEPT !.state = "cleanup", !.published = FALSE]
        PROVE  y.state = "cleanup" /\ y.guid = x.guid /\ y.mtu = x.mtu
    BY <2>2, Zenon DEF Devices
  <2> QED BY <1>1, <2>1, <2>2, Zenon
<1>4. Describes(list, list', pdo[p].guid) /\ list'[pdo[p].guid].state = "none"
  BY <1>1, <1>2, Zenon DEF Describes, Unlisted
<1>5. Fits(children, list', callback, pdo', manager)
  BY <1>1, <1>3, <1>4, RemoveFits, NodesHavePdos, Zenon
<1> QED BY <1>1, <1>5, Zenon DEF After

(* evt_pdo_cleanup unlinks the device, or reclaims the node that was being *)
(* removed.                                                                *)
LEMMA CleanupStep ==
    ASSUME Before, NEW p \in Pdos, PdoCleanup(p)
    PROVE  After
<1> DEFINE g == pdo[p].guid
<1>1. /\ pdo[p].state = "cleanup" /\ UNCHANGED <<guard, manager, callback, list>>
      /\ Distinct(children) /\ ~guard /\ Fits(children, list, callback, pdo, manager)
      /\ pdo \in [Pdos -> Devices] /\ pdo' = [pdo EXCEPT ![p] = FreePdo]
  BY Zenon DEF PdoCleanup, Before
<1>2. g \in Guids /\ Known(g) /\ list[g].state = "none" /\ At(children, g).pdo = p /\ p # NoPdo
  BY <1>1, KnownIsHas, BusAssumption, Zenon DEF Fits, DeviceFits
<1>3. \A q \in Pdos : pdo[q].guid = g => q = p
  BY <1>1, OneDevice, NodesHavePdos
<1>4. pdo'[p] = FreePdo /\ \A q \in Pdos : q # p => pdo'[q] = pdo[q]
  BY <1>1, Zenon
<1>5. CASE Node(g).lifecycle = "REMOVING"
  <2>1. Reclaim(g)
    BY <1>2, <1>5, Zenon DEF PdoCleanup
  <2>2. Drops(children, children', g)
    BY <1>1, <1>2, <2>1, ReclaimDrops, Zenon
  <2>3. Releases(pdo, pdo', g)
    BY <1>3, <1>4, Zenon DEF Releases
  <2>4. manager.pc = "add" => manager.guid # g
    BY <1>1, <1>2, Zenon DEF Fits, ManagerFits
  <2>5. Fits(children', list, callback, pdo', manager)
    BY <1>1, <1>2, <2>2, <2>3, <2>4, DropFits DEF Fits
  <2> QED BY <1>1, <2>2, <2>5, Zenon DEF After, Drops
<1>6. CASE Node(g).lifecycle # "REMOVING"
  <2> DEFINE n == Cleaned(Node(g))
  <2>1. children' = [children EXCEPT ![FindChild(g)] = Cleaned(children[FindChild(g)])]
    BY <1>2, <1>6, Zenon DEF PdoCleanup
  <2>2. children[FindChild(g)] = Node(g) /\ Node(g) \in ChildNode /\ Node(g).guid = g
    BY <1>1, <1>2, FindChildFinds, Zenon
  <2>3. children' = [children EXCEPT ![FindChild(g)] = n]
    BY <2>1, <2>2, Zenon
  <2>4. n \in ChildNode /\ n.guid = g /\ n.mtu = Node(g).mtu /\ n.pdo = NoPdo
    <3>1. ASSUME NEW x \in ChildNode, NEW y, y = Cleaned(x)
          PROVE  y \in ChildNode /\ y.guid = x.guid /\ y.mtu = x.mtu /\ y.pdo = NoPdo
      BY <3>1, Zenon DEF Cleaned, ChildNode, Lifecycles, Statuses
    <3> QED BY <2>2, <3>1, Zenon
  <2> HIDE DEF n
  <2>5. Rewrites(children, children', g, n.lifecycle, n.pdo)
    BY <1>1, <1>2, <2>3, <2>4, NodeRewritten, Zenon
  <2>6. Rewrites(children, children', g, n.lifecycle, NoPdo) /\ At(children, g).lifecycle # "REMOVING"
    BY <1>6, <2>4, <2>5, KnownIsHas, Zenon
  <2>7. Fits(children', list, callback, pdo', manager)
    BY <1>1, <1>4, <2>6, CleanupFits, NodesHavePdos, Zenon
  <2> QED BY <1>1, <2>6, <2>7, Zenon DEF After, Rewrites, Puts
<1> QED BY <1>5, <1>6, Zenon

(* The bus is removed with whatever children it has.                       *)
LEMMA RemoveBusStep ==
    ASSUME Before, RemoveBus
    PROVE  After
<1>1. /\ UNCHANGED <<children, guard, manager, callback, pdo>>
      /\ Distinct(children) /\ ~guard /\ Fits(children, list, callback, pdo, manager)
  BY Zenon DEF RemoveBus, Before
<1>2. \A h \in Guids : IF list[h].state \in {"new", "noobject"} THEN list'[h].state = "none"
                       ELSE list'[h] = list[h]
  BY Zenon DEF RemoveBus, Unlisted
<1>3. Fits(children, list', callback, pdo, manager)
  BY <1>1, <1>2, BusRemovedFits, Zenon
<1> QED BY <1>1, <1>3, Zenon DEF After


-----------------------------------------------------------------------------
(* Types.                                                                  *)

Walks == [on : BOOLEAN, cursor : Nat, seen : SUBSET Guids, due : SUBSET Guids, shrunk : BOOLEAN]

Replies == [guid : Guids \cup {NoGuid}, lifecycle : Lifecycles \cup {"none", "ABSENT"},
            status : Statuses]

(* TypeOK in terms of the sets named here.                                 *)
LEMMA TypesAre ==
    TypeOK <=> /\ children \in Seq(ChildNode) /\ guard \in BOOLEAN /\ manager \in Requests
               /\ reply \in Replies /\ walk \in Walks /\ callback \in Callbacks
               /\ pdo \in [Pdos -> Devices] /\ list \in [Guids -> Descriptions]
               /\ bus \in {"present", "removed", "gone"}
BY Zenon DEF TypeOK, ChildNode, Requests, Replies, Walks, Callbacks, Devices, Descriptions

(* The initial values are typed.                                           *)
LEMMA InitialValues ==
    /\ IdleManager \in Requests /\ IdleCallback \in Callbacks /\ FreePdo \in Devices
    /\ Unlisted \in Descriptions /\ NoWalk \in Walks /\ NoReply \in Replies
BY Zenon DEF IdleManager, Requests, IdleCallback, Callbacks, FreePdo, Devices, Unlisted, Descriptions,
       NoWalk, Walks, NoReply, Replies, Lifecycles, Statuses

(* The manager's request and the answers.                                  *)
LEMMA ManagerTypes ==
    ASSUME Before, Next
    PROVE  manager' \in Requests
<1>1. manager \in Requests /\ IdleManager \in Requests /\ manager.guid \in Guids \cup {NoGuid}
  BY InitialValues, Zenon DEF Before, Requests
<1>2. ASSUME NEW x \in Requests, NEW pc \in {"idle", "add", "missing", "reclaim", "mark", "record"},
             NEW y, y = [x EXCEPT !.pc = pc]
      PROVE  y \in Requests
  BY <1>2, Zenon DEF Requests
<1>3. ASSUME NEW g \in Guids, NEW requested \in RequestedMtus, ManagerCreate(g, requested)
      PROVE  manager' \in Requests
  <2>1. CASE UNCHANGED manager
    BY <1>1, <2>1, Zenon
  <2>2. CASE manager' = [IdleManager EXCEPT !.pc = "add", !.guid = g, !.mtu = EffectiveMtu(requested)]
    <3>1. EffectiveMtu(requested) \in ValidMtus
      BY <1>3, EffectiveMtuIsValid, Zenon DEF ManagerCreate
    <3> QED BY <2>2, <3>1, Zenon DEF IdleManager, Requests
  <2> QED BY <1>3, <2>1, <2>2, Zenon DEF ManagerCreate, Refuse
<1>4. ASSUME NEW g \in Guids, ManagerRemove(g)
      PROVE  manager' \in Requests
  <2>1. CASE UNCHANGED manager
    BY <1>1, <2>1, Zenon
  <2>2. CASE manager' = [IdleManager EXCEPT !.pc = "missing", !.guid = g,
                             !.withoutPdo = (Node(g).pdo = NoPdo)]
    BY <2>2, Zenon DEF IdleManager, Requests
  <2> QED BY <1>4, <2>1, <2>2, Zenon DEF ManagerRemove, Refuse
<1>5. CASE ManagerRuns
  <2>1. CASE AddChild
    BY <1>1, <1>2, <2>1, Zenon DEF AddChild
  <2>2. CASE UpdateMissing
    BY <1>1, <1>2, <2>2, Zenon DEF UpdateMissing, AfterMissing
  <2>3. CASE ReclaimWithoutPdo
    BY <1>1, <1>2, <2>3, Zenon DEF ReclaimWithoutPdo
  <2>4. CASE MarkFailed
    BY <1>1, <1>2, <2>4, Zenon DEF MarkFailed
  <2>5. CASE AnswerRecord
    BY <1>1, <2>5, Zenon DEF AnswerRecord
  <2> QED BY <1>5, <2>1, <2>2, <2>3, <2>4, <2>5, Zenon DEF ManagerRuns
<1>6. CASE UNCHANGED manager
  BY <1>1, <1>6, Zenon
<1>7. CASE CallbackRuns
  BY <1>6, <1>7, Zenon DEF CallbackRuns, CreatePdo, CallbackFails, LinkPdo
<1>8. ASSUME NEW p \in Pdos, PublishInterface(p) \/ RemovePdo(p) \/ PdoCleanup(p)
      PROVE  manager' \in Requests
  BY <1>6, <1>8, Zenon DEF PublishInterface, RemovePdo, PdoCleanup
<1>9. ASSUME NEW g \in Guids, ManagerQuery(g) \/ StartCallback(g)
      PROVE  manager' \in Requests
  BY <1>6, <1>9, Zenon DEF ManagerQuery, StartCallback
<1>10. CASE ManagerEnumerate \/ RemoveBus \/ BusDeviceCleanup
  BY <1>6, <1>10, Zenon DEF ManagerEnumerate, RemoveBus, BusDeviceCleanup
<1> QED BY <1>3, <1>4, <1>5, <1>7, <1>8, <1>9, <1>10, Zenon DEF Next


(* The callback, the devices and the descriptions.                         *)
LEMMA DeviceTypes ==
    ASSUME Before, Next
    PROVE  /\ callback' \in Callbacks /\ pdo' \in [Pdos -> Devices]
           /\ list' \in [Guids -> Descriptions]
<1> DEFINE Typed == /\ callback' \in Callbacks /\ pdo' \in [Pdos -> Devices]
                    /\ list' \in [Guids -> Descriptions]
<1>1. /\ callback \in Callbacks /\ pdo \in [Pdos -> Devices] /\ list \in [Guids -> Descriptions]
      /\ manager \in Requests
  BY Zenon DEF Before
<1>2. CASE UNCHANGED <<callback, pdo, list>>
  BY <1>1, <1>2, Zenon
<1>3. ASSUME NEW g \in Guids,
             (\E m \in RequestedMtus : ManagerCreate(g, m)) \/ ManagerRemove(g) \/ ManagerQuery(g)
      PROVE  Typed
  BY <1>2, <1>3, Zenon DEF ManagerCreate, ManagerRemove, ManagerQuery, ManagerOnly
<1>4. CASE ManagerEnumerate \/ ReclaimWithoutPdo \/ MarkFailed \/ AnswerRecord \/ BusDeviceCleanup
  BY <1>2, <1>4, Zenon DEF ManagerEnumerate, ReclaimWithoutPdo, MarkFailed, AnswerRecord, ManagerOnly,
                    BusDeviceCleanup
<1>5. CASE AddChild
  <2>1. UNCHANGED <<callback, pdo>>
    BY <1>5, Zenon DEF AddChild
  <2>2. CASE list' = [list EXCEPT ![manager.guid] = [state |-> "new", mtu |-> manager.mtu, missing |-> FALSE]]
    <3>1. [state |-> "new", mtu |-> manager.mtu, missing |-> FALSE] \in Descriptions
      BY <1>1, Zenon DEF Requests, Descriptions
    <3> QED BY <1>1, <2>1, <2>2, <3>1, Zenon
  <2> QED BY <1>2, <1>5, <2>1, <2>2, Zenon DEF AddChild
<1>6. CASE UpdateMissing
  <2>1. UNCHANGED <<callback, pdo>>
    BY <1>6, Zenon DEF UpdateMissing
  <2>2. CASE AsMissing(manager.guid)
    <3>1. ASSUME NEW x \in Descriptions, NEW y, y = [x EXCEPT !.missing = TRUE]
          PROVE  y \in Descriptions
      BY <3>1, Zenon DEF Descriptions
    <3>2. Unlisted \in Descriptions
      BY InitialValues, Zenon
    <3> QED BY <1>1, <2>1, <2>2, <3>1, <3>2, Zenon DEF AsMissing
  <2> QED BY <1>2, <1>6, <2>1, <2>2, Zenon DEF UpdateMissing
<1>7. ASSUME NEW g \in Guids, StartCallback(g)
      PROVE  Typed
  <2>1. list[g] \in Descriptions
    BY <1>1, Zenon
  <2>2. [list[g] EXCEPT !.state = "building"] \in Descriptions
    BY <2>1, Zenon DEF Descriptions
  <2>3. callback' \in Callbacks
    BY <1>7, <2>1, Zenon DEF StartCallback, IdleCallback, Callbacks, Descriptions
  <2> QED BY <1>1, <1>7, <2>2, <2>3, Zenon DEF StartCallback
<1>8. ASSUME NEW p \in Pdos, CreatePdo(p)
      PROVE  Typed
  <2>1. [state |-> "built", guid |-> callback.guid, mtu |-> callback.mtu, published |-> FALSE] \in Devices
    BY <1>1, Zenon DEF Callbacks, Devices
  <2>2. callback' \in Callbacks
    BY <1>1, <1>8, Zenon DEF CreatePdo, Callbacks
  <2> QED BY <1>1, <1>8, <2>1, <2>2, Zenon DEF CreatePdo
<1>9. CASE CallbackFails
  <2>1. callback.guid \in Guids
    BY <1>9, Zenon DEF CallbackFails, Before, Fits, CallbackFits
  <2>2. list' \in [Guids -> Descriptions]
    BY <1>1, <1>9, <2>1, ReturnedDescribes, Zenon DEF CallbackFails
  <2> QED BY <1>1, <1>9, <2>2, InitialValues, Zenon DEF CallbackFails
<1>10. CASE LinkPdo
  <2>1. callback.guid \in Guids /\ callback.pdo \in Pdos
    BY <1>10, Zenon DEF LinkPdo, Before, Fits, CallbackFits
  <2>2. Known(callback.guid)
    BY <1>10, <2>1, KnownIsHas, Zenon DEF LinkPdo, Before, Fits, CallbackFits, DescriptionFits
  <2>3. list' \in [Guids -> Descriptions]
    BY <1>1, <1>10, <2>1, <2>2, ReturnedDescribes, Zenon DEF LinkPdo
  <2>4. [pdo[callback.pdo] EXCEPT !.state = "live"] \in Devices
    <3>1. pdo[callback.pdo] \in Devices
      BY <1>1, <2>1, Zenon
    <3> QED BY <3>1, Zenon DEF Devices
  <2>5. pdo' = [pdo EXCEPT ![callback.pdo] = [pdo[callback.pdo] EXCEPT !.state = "live"]]
        /\ callback' = IdleCallback
    BY <1>10, <2>2, Zenon DEF LinkPdo
  <2> QED BY <1>1, <2>1, <2>3, <2>4, <2>5, InitialValues, Zenon
<1>11. ASSUME NEW p \in Pdos, PublishInterface(p) \/ RemovePdo(p) \/ PdoCleanup(p)
       PROVE  Typed
  <2>1. pdo[p] \in Devices
    BY <1>1, Zenon
  <2>2. [pdo[p] EXCEPT !.published = TRUE] \in Devices
    BY <2>1, Zenon DEF Devices
  <2>3. ASSUME NEW y, y = [pdo[p] EXCEPT !.state = "cleanup", !.published = FALSE]
        PROVE  y \in Devices
    BY <2>1, <2>3, Zenon DEF Devices
  <2>4. CASE PublishInterface(p)
    BY <1>1, <2>2, <2>4, Zenon DEF PublishInterface
  <2>5. CASE RemovePdo(p)
    <3>1. pdo' = [pdo EXCEPT ![p] = [pdo[p] EXCEPT !.state = "cleanup", !.published = FALSE]]
          /\ UNCHANGED callback /\ list' = [list EXCEPT ![pdo[p].guid] = Unlisted]
      BY <2>5, Zenon DEF RemovePdo
    <3> QED BY <1>1, <2>3, <3>1, InitialValues, Zenon
  <2>6. CASE PdoCleanup(p)
    BY <1>1, <2>6, InitialValues, Zenon DEF PdoCleanup
  <2> QED BY <1>11, <2>4, <2>5, <2>6, Zenon
<1>12. CASE RemoveBus
  BY <1>1, <1>12, InitialValues, Zenon DEF RemoveBus
<1> QED BY <1>3, <1>4, <1>5, <1>6, <1>7, <1>8, <1>9, <1>10, <1>11, <1>12, Zenon
        DEF Next, ManagerRuns, CallbackRuns


-----------------------------------------------------------------------------
(* The walk of a client.                                                   *)

SamePlaces(cs, c2) == DOMAIN c2 = DOMAIN cs /\ \A i \in DOMAIN cs : c2[i].guid = cs[i].guid

(* set_child_lifecycle moves no node and ends no walk.                     *)
LEMMA LifecycleStaysInPlace ==
    ASSUME Before, NEW g \in Guids, NEW lifecycle \in Lifecycles, NEW status \in Statuses,
           (Known(g) /\ SetLifecycle(g, lifecycle, status)) \/ UNCHANGED <<children, walk>>
    PROVE  SamePlaces(children, children') /\ walk' = walk
<1>1. CASE UNCHANGED <<children, walk>>
  BY <1>1, Zenon DEF SamePlaces
<1>2. CASE Known(g) /\ SetLifecycle(g, lifecycle, status)
  BY <1>2, SetLifecycleRewrites, Zenon DEF Before, Rewrites, SamePlaces
<1> QED BY <1>1, <1>2, Zenon

(* The ways in which a step changes the list and the walk.                 *)
LEMMA ListSteps ==
    ASSUME Before, Next
    PROVE  \/ SamePlaces(children, children') /\ walk' = walk
           \/ \E n \in ChildNode : children' = <<n>> \o children /\ walk' = walk
           \/ \E g \in Guids : Reclaim(g)
           \/ ManagerEnumerate
           \/ walk' = NoWalk
<1> DEFINE Stays == SamePlaces(children, children') /\ walk' = walk
           Done == \/ Stays
                   \/ \E n \in ChildNode : children' = <<n>> \o children /\ walk' = walk
                   \/ \E g \in Guids : Reclaim(g)
                   \/ ManagerEnumerate
                   \/ walk' = NoWalk
<1>1. CASE UNCHANGED <<children, walk>>
  BY <1>1, Zenon DEF SamePlaces
<1>2. Distinct(children) /\ Fits(children, list, callback, pdo, manager)
  BY Zenon DEF Before
<1>3. /\ {"CREATING", "ACTIVE", "REMOVING", "FAILED"} = Lifecycles
      /\ {"pending", "success", "failure"} = Statuses
  BY Zenon DEF Lifecycles, Statuses
<1>4. ASSUME NEW g \in Guids, NEW requested \in RequestedMtus, ManagerCreate(g, requested)
      PROVE  Done
  <2> DEFINE n == [guid |-> g, lifecycle |-> "CREATING", status |-> "pending",
                   mtu |-> EffectiveMtu(requested), pdo |-> NoPdo]
  <2>1. n \in ChildNode
    <3>1. EffectiveMtu(requested) \in ValidMtus
      BY <1>4, EffectiveMtuIsValid, Zenon DEF ManagerCreate
    <3> QED BY <3>1, Zenon DEF ChildNode, Lifecycles, Statuses
  <2>2. CASE children' = <<n>> \o children /\ walk' = walk
    BY <2>1, <2>2, Zenon
  <2> QED BY <1>1, <1>4, <2>2, Zenon DEF ManagerCreate, Refuse
<1>5. ASSUME NEW g \in Guids, ManagerRemove(g)
      PROVE  Done
  <2>1. (Known(g) /\ SetLifecycle(g, "REMOVING", "pending")) \/ UNCHANGED <<children, walk>>
    BY <1>5, Zenon DEF ManagerRemove, Removable, Refuse
  <2> QED BY <1>3, <2>1, LifecycleStaysInPlace, Zenon
<1>6. ASSUME NEW g \in Guids, ChildRecordFor(g)
      PROVE  Done
  <2>1. (Known(g) /\ SetLifecycle(g, "ACTIVE", "success")) \/ UNCHANGED <<children, walk>>
    BY <1>6, Zenon DEF ChildRecordFor, Gone
  <2> QED BY <1>3, <2>1, LifecycleStaysInPlace, Zenon
<1>7. ASSUME NEW g \in Guids, MarkChildFailure(g)
      PROVE  Done
  <2>1. (Known(g) /\ SetLifecycle(g, "FAILED", "failure")) \/ UNCHANGED <<children, walk>>
    BY <1>7, Zenon DEF MarkChildFailure
  <2> QED BY <1>3, <2>1, LifecycleStaysInPlace, Zenon
<1>8. manager.pc # "idle" => manager.guid \in Guids
  BY <1>2, Zenon DEF Fits, ManagerFits
<1>9. callback.pc # "idle" => callback.guid \in Guids /\ Known(callback.guid)
  BY <1>2, KnownIsHas, Zenon DEF Fits, CallbackFits, DescriptionFits
<1>10. CASE ManagerRuns
  <2>1. CASE AddChild \/ UpdateMissing
    BY <1>1, <2>1, Zenon DEF AddChild, UpdateMissing
  <2>2. CASE ReclaimWithoutPdo
    BY <1>1, <1>8, <2>2, Zenon DEF ReclaimWithoutPdo
  <2>3. CASE MarkFailed
    BY <1>7, <1>8, <2>3, Zenon DEF MarkFailed
  <2>4. CASE AnswerRecord
    BY <1>6, <1>8, <2>4, Zenon DEF AnswerRecord
  <2> QED BY <1>10, <2>1, <2>2, <2>3, <2>4, Zenon DEF ManagerRuns
<1>11. CASE CallbackRuns
  <2>1. CASE \E p \in Pdos : CreatePdo(p)
    BY <1>1, <2>1, Zenon DEF CreatePdo
  <2>2. CASE CallbackFails
    BY <1>7, <1>9, <2>2, Zenon DEF CallbackFails
  <2>3. CASE LinkPdo
    <3> DEFINE g == callback.guid
               k == FindChild(g)
    <3>1. children' = [children EXCEPT ![k] = [children[k] EXCEPT !.pdo = callback.pdo]] /\ walk' = walk
      BY <1>9, <2>3, Zenon DEF LinkPdo
    <3>2. k \in DOMAIN children /\ children[k] \in ChildNode
      BY <1>2, <1>9, <2>3, FindChildFinds, Zenon DEF LinkPdo
    <3>3. [children[k] EXCEPT !.pdo = callback.pdo].guid = children[k].guid
      BY <3>2, Zenon DEF ChildNode
    <3>4. DOMAIN children' = DOMAIN children /\ \A i \in DOMAIN children : children'[i].guid = children[i].guid
      <4> HIDE DEF k
      <4> QED BY <3>1, <3>2, <3>3, Zenon
    <3> QED BY <3>1, <3>4, Zenon DEF SamePlaces
  <2> QED BY <1>11, <2>1, <2>2, <2>3, Zenon DEF CallbackRuns
<1>12. ASSUME NEW p \in Pdos, PublishInterface(p) \/ RemovePdo(p)
       PROVE  Done
  BY <1>1, <1>12, Zenon DEF PublishInterface, RemovePdo
<1>13. ASSUME NEW p \in Pdos, PdoCleanup(p)
       PROVE  Done
  <2> DEFINE g == pdo[p].guid
             k == FindChild(g)
  <2>1. g \in Guids /\ Known(g)
    BY <1>2, <1>13, KnownIsHas, Zenon DEF PdoCleanup, Fits, DeviceFits
  <2>2. CASE Reclaim(g)
    BY <2>1, <2>2, Zenon
  <2>3. CASE children' = [children EXCEPT ![k] = Cleaned(children[k])] /\ walk' = walk
    <3>1. k \in DOMAIN children /\ children[k] \in ChildNode
      BY <1>2, <2>1, FindChildFinds, Zenon
    <3>2. Cleaned(children[k]).guid = children[k].guid
      BY <3>1, Zenon DEF Cleaned, ChildNode
    <3>3. DOMAIN children' = DOMAIN children /\ \A i \in DOMAIN children : children'[i].guid = children[i].guid
      <4> HIDE DEF k
      <4> QED BY <2>3, <3>1, <3>2, Zenon
    <3> QED BY <2>3, <3>3, Zenon DEF SamePlaces
  <2> QED BY <1>13, <2>1, <2>2, <2>3, Zenon DEF PdoCleanup
<1>14. ASSUME NEW g \in Guids, ManagerQuery(g) \/ StartCallback(g)
       PROVE  Done
  BY <1>1, <1>6, <1>14, Zenon DEF ManagerQuery, StartCallback
<1>15. CASE RemoveBus \/ BusDeviceCleanup
  BY <1>1, <1>15, Zenon DEF RemoveBus, BusDeviceCleanup
<1> QED BY <1>4, <1>5, <1>10, <1>11, <1>12, <1>13, <1>14, <1>15, Zenon DEF Next


(* One page: whoever is behind the cursor is in it or behind the next one. *)
LEMMA PageReads ==
    ASSUME Distinct(children), NEW cursor \in Nat
    PROVE  /\ NextCursor(cursor) \in Nat
           /\ Page(cursor) \subseteq Guids
           /\ \A i \in DOMAIN children : i > cursor =>
                 \/ children[i].guid \in Page(cursor)
                 \/ NextCursor(cursor) # 0 /\ i > NextCursor(cursor)
<1>1. /\ DOMAIN children = 1..Len(children) /\ Len(children) \in Nat
      /\ Capacity \in Nat /\ Capacity > 0
  BY BusAssumption DEF Distinct
<1>2. \A i \in DOMAIN children : children[i].guid \in Guids
  <2>1. \A i \in DOMAIN children : children[i] \in ChildNode
    BY DEF Distinct
  <2> QED BY <2>1, Zenon DEF ChildNode
<1>3. ASSUME NEW i \in DOMAIN children, i > cursor, i <= cursor + Capacity
      PROVE  children[i].guid \in Page(cursor)
  BY <1>3, Zenon DEF Page
<1>4. ASSUME NEW i \in DOMAIN children, i > cursor + Capacity
      PROVE  NextCursor(cursor) # 0 /\ i > NextCursor(cursor)
  BY <1>1, <1>4 DEF NextCursor
<1>5. NextCursor(cursor) \in Nat /\ \A i \in DOMAIN children : i \in Nat
  BY <1>1 DEF NextCursor
<1>6. Page(cursor) \subseteq Guids
  BY <1>2, Zenon DEF Page
<1> QED BY <1>1, <1>3, <1>4, <1>5, <1>6

(* One ENUMERATE of a client that reads the list.                          *)
LEMMA EnumerateStep ==
    ASSUME Distinct(children), walk \in Walks, WalkFits(children, walk), ManagerEnumerate
    PROVE  walk' \in Walks /\ WalkFits(children', walk')
<1> DEFINE all == {children[i].guid : i \in DOMAIN children}
           begun == IF walk.on THEN walk ELSE [NoWalk EXCEPT !.on = TRUE, !.due = all]
           seen == begun.seen \cup Page(begun.cursor)
           next == NextCursor(begun.cursor)
<1>1. walk' = [begun EXCEPT !.seen = seen, !.cursor = next, !.on = (next # 0)] /\ children' = children
  BY Zenon DEF ManagerEnumerate
<1>2. begun \in Walks /\ begun.on /\ WalkFits(children, begun)
  <2>1. CASE walk.on
    BY <2>1, Zenon
  <2>2. CASE ~walk.on
    <3> DEFINE fresh == [NoWalk EXCEPT !.on = TRUE, !.due = all]
    <3>1. all \subseteq Guids
      <4>1. \A i \in DOMAIN children : children[i] \in ChildNode
        BY DEF Distinct
      <4>2. \A n \in ChildNode : n.guid \in Guids
        BY Zenon DEF ChildNode
      <4> QED BY <4>1, <4>2, Zenon
    <3>2. \A g \in all : \E i \in DOMAIN children : children[i].guid = g
      BY Zenon
    <3>3. \A i \in DOMAIN children : i > 0
      BY DEF Distinct
    <3>4. begun = fresh
      BY <2>2, Zenon
    <3> HIDE DEF all
    <3>5. /\ fresh \in Walks /\ fresh.on /\ fresh.cursor = 0 /\ fresh.due = all /\ fresh.seen = {}
      BY <3>1, Zenon DEF NoWalk, Walks
    <3> HIDE DEF fresh
    <3>6. WalkFits(children, fresh)
      BY <3>2, <3>3, <3>5, Zenon DEF WalkFits
    <3> QED BY <3>4, <3>5, <3>6, Zenon
  <2> QED BY <2>1, <2>2, Zenon
<1> HIDE DEF begun
<1>3. begun.cursor \in Nat /\ begun.seen \subseteq Guids
  BY <1>2, Zenon DEF Walks
<1>4. /\ next \in Nat /\ Page(begun.cursor) \subseteq Guids
      /\ \A i \in DOMAIN children : i > begun.cursor =>
            children[i].guid \in Page(begun.cursor) \/ (next # 0 /\ i > next)
  BY <1>3, PageReads, Zenon
<1>5. seen \subseteq Guids /\ begun.seen \subseteq seen
  BY <1>3, <1>4, Zenon
<1>6. \A i \in DOMAIN children : i > begun.cursor =>
          children[i].guid \in seen \/ (next # 0 /\ i > next)
  BY <1>4, Zenon
<1> HIDE DEF seen, next
<1>7. /\ walk' \in Walks /\ walk'.seen = seen /\ walk'.cursor = next /\ walk'.on = (next # 0)
      /\ walk'.due = begun.due /\ walk'.shrunk = begun.shrunk
  BY <1>1, <1>2, <1>4, <1>5, Zenon DEF Walks
<1>8. WalkFits(children, walk')
  <2> SUFFICES ASSUME ~walk'.shrunk, NEW g \in walk'.due \ walk'.seen
               PROVE  walk'.on /\ \E i \in DOMAIN children : i > walk'.cursor /\ children[i].guid = g
    BY Zenon DEF WalkFits
  <2>1. PICK i \in DOMAIN children : i > begun.cursor /\ children[i].guid = g
    BY <1>2, <1>5, <1>7, Zenon DEF WalkFits
  <2> QED BY <1>6, <1>7, <2>1, Zenon
<1> QED BY <1>1, <1>7, <1>8, Zenon

(* Every step leaves whoever is due behind the cursor.                     *)
LEMMA WalkStep ==
    ASSUME Before, walk \in Walks, WalkFits(children, walk), Next
    PROVE  walk' \in Walks /\ WalkFits(children', walk')
<1>1. CASE SamePlaces(children, children') /\ walk' = walk
  BY <1>1 DEF SamePlaces, WalkFits
<1>2. ASSUME NEW n \in ChildNode, children' = <<n>> \o children, walk' = walk
      PROVE  walk' \in Walks /\ WalkFits(children', walk')
  <2>1. children \in Seq(ChildNode) /\ DOMAIN children = 1..Len(children) /\ Len(children) \in Nat
    BY DEF Before, Distinct
  <2>2. DOMAIN children' = 1..(Len(children) + 1) /\ \A i \in 1..Len(children) : children'[i + 1] = children[i]
    BY <1>2, <2>1
  <2>3. walk.cursor \in Nat
    BY Zenon DEF Walks
  <2>4. ASSUME NEW i \in DOMAIN children, i > walk.cursor
        PROVE  i + 1 \in DOMAIN children' /\ i + 1 > walk.cursor /\ children'[i + 1] = children[i]
    BY <2>1, <2>2, <2>3, <2>4
  <2>5. WalkFits(children', walk)
    <3> SUFFICES ASSUME ~walk.shrunk, NEW g \in walk.due \ walk.seen
                 PROVE  walk.on /\ \E i \in DOMAIN children' : i > walk.cursor /\ children'[i].guid = g
      BY Zenon DEF WalkFits
    <3>1. PICK i \in DOMAIN children : i > walk.cursor /\ children[i].guid = g
      BY Zenon DEF WalkFits
    <3>2. walk.on
      BY Zenon DEF WalkFits
    <3> QED BY <2>4, <3>1, <3>2, Zenon
  <2> QED BY <1>2, <2>5, Zenon
<1>3. ASSUME NEW g \in Guids, Reclaim(g)
      PROVE  walk' \in Walks /\ WalkFits(children', walk')
  <2>1. walk' = [walk EXCEPT !.due = walk.due \ {g}, !.shrunk = walk.shrunk \/ walk.on]
    BY <1>3, Zenon DEF Reclaim
  <2>2. /\ walk' \in Walks /\ walk'.due = walk.due \ {g} /\ walk'.seen = walk.seen
        /\ walk'.shrunk = (walk.shrunk \/ walk.on)
    BY <2>1, Zenon DEF Walks
  <2> QED BY <2>2, Zenon DEF WalkFits
<1>4. CASE ManagerEnumerate
  BY <1>4, EnumerateStep, Zenon DEF Before
<1>5. CASE walk' = NoWalk
  <2>1. NoWalk \in Walks /\ NoWalk.due = {}
    BY InitialValues, Zenon DEF NoWalk
  <2> QED BY <1>5, <2>1, Zenon DEF WalkFits
<1> QED BY <1>1, <1>2, <1>3, <1>4, <1>5, ListSteps, Zenon


-----------------------------------------------------------------------------
(* The answers.                                                            *)

(* Only QUERY, and the end of CREATE and REMOVE, answer with a record.     *)
LEMMA AnswerSteps ==
    ASSUME Before, Next
    PROVE  \/ reply' = NoReply
           \/ \E g \in Guids : ChildRecordFor(g) /\ UNCHANGED <<callback, pdo>>
<1>1. CASE \E g \in Guids : (\E m \in RequestedMtus : ManagerCreate(g, m)) \/ ManagerRemove(g)
  BY <1>1, Zenon DEF ManagerCreate, ManagerRemove, Refuse
<1>2. ASSUME NEW g \in Guids, ManagerQuery(g)
      PROVE  ChildRecordFor(g) /\ UNCHANGED <<callback, pdo>>
  BY <1>2, Zenon DEF ManagerQuery, ManagerOnly
<1>3. CASE (\E g \in Guids : StartCallback(g)) \/ ManagerEnumerate \/ RemoveBus \/ BusDeviceCleanup
  BY <1>3, Zenon DEF StartCallback, ManagerEnumerate, RemoveBus, BusDeviceCleanup
<1>4. CASE AddChild \/ UpdateMissing \/ ReclaimWithoutPdo \/ MarkFailed
  BY <1>4, Zenon DEF AddChild, UpdateMissing, ReclaimWithoutPdo, MarkFailed
<1>5. CASE AnswerRecord
  <2>1. manager.guid \in Guids
    BY <1>5, Zenon DEF AnswerRecord, Before, Fits, ManagerFits
  <2> QED BY <1>5, <2>1, Zenon DEF AnswerRecord, ManagerOnly
<1>6. CASE CallbackRuns
  BY <1>6, Zenon DEF CallbackRuns, CreatePdo, CallbackFails, LinkPdo
<1>7. CASE \E p \in Pdos : PublishInterface(p) \/ RemovePdo(p) \/ PdoCleanup(p)
  BY <1>7, Zenon DEF PublishInterface, RemovePdo, PdoCleanup
<1> QED BY <1>1, <1>2, <1>3, <1>4, <1>5, <1>6, <1>7, Zenon DEF Next, ManagerRuns

(* A child that has no node has no device, and no callback builds one.     *)
LEMMA NoNodeNoDevice ==
    ASSUME Before, NEW g \in Guids, ~Known(g)
    PROVE  callback.guid # g /\ \A p \in Pdos : pdo[p].guid # g
<1>1. ~Has(children, g)
  BY KnownIsHas, Zenon
<1>2. ASSUME NEW p \in Pdos PROVE pdo[p].guid # g
  <2>1. CASE pdo[p].state = "free"
    <3>1. pdo[p] = FreePdo
      BY <2>1, Zenon DEF Before, Fits, DeviceFits
    <3>2. pdo[p].guid = NoGuid
      BY <3>1, FreePdoIs, Zenon
    <3> QED BY <3>2, BusAssumption, Zenon
  <2>2. CASE pdo[p].state # "free"
    BY <1>1, <2>2, Zenon DEF Before, Fits, DeviceFits
  <2> QED BY <2>1, <2>2, Zenon
<1>3. callback.guid # g
  <2>1. CASE callback.pc = "idle"
    BY <2>1, BusAssumption DEF Before, Fits, CallbackFits, IdleCallback
  <2>2. CASE callback.pc # "idle"
    <3>1. callback.guid \in Guids /\ list[callback.guid].state = "building"
      BY <2>2, Zenon DEF Before, Fits, CallbackFits
    <3>2. Has(children, callback.guid)
      BY <3>1, Zenon DEF Before, Fits, DescriptionFits
    <3> QED BY <1>1, <3>2, Zenon
  <2> QED BY <2>1, <2>2, Zenon
<1> QED BY <1>2, <1>3, Zenon

(* A record is of the child asked for; it says ABSENT for want of a node.  *)
LEMMA AnswerIsARecord ==
    ASSUME Before, NEW g \in Guids, ChildRecordFor(g)
    PROVE  /\ reply' \in Replies /\ reply'.guid = g
           /\ reply'.lifecycle = "ABSENT" => ~Known(g)
<1>1. CASE ~Known(g)
  <2>1. reply' = [guid |-> g, lifecycle |-> "ABSENT", status |-> "success"]
    BY <1>1, Zenon DEF ChildRecordFor, Gone, Answer
  <2> QED BY <1>1, <2>1, Zenon DEF Replies, Statuses
<1>2. CASE Known(g)
  <2>1. Node(g) \in ChildNode
    <3>1. Has(children, g)
      BY <1>2, KnownIsHas, Zenon
    <3>2. At(children, g) \in ChildNode
      BY <3>1, HasNode, Zenon DEF Before
    <3> QED BY <3>2, Zenon DEF Node, FindChild, At
  <2>2. Node(g).lifecycle \in Lifecycles /\ Node(g).status \in Statuses
    BY <2>1, Zenon DEF ChildNode
  <2>3. PICK lifecycle \in Lifecycles, status \in Statuses :
            reply' = [guid |-> g, lifecycle |-> lifecycle, status |-> status]
    <3>1. "ACTIVE" \in Lifecycles /\ "success" \in Statuses
      BY Zenon DEF Lifecycles, Statuses
    <3> QED BY <1>2, <2>2, <3>1, Zenon DEF ChildRecordFor, Gone, Answer
  <2>4. "ABSENT" \notin Lifecycles
    BY Zenon DEF Lifecycles
  <2> QED BY <2>3, <2>4, Zenon DEF Replies
<1> QED BY <1>1, <1>2, Zenon

(* A record says ABSENT only for a child that has no device and gets none. *)
LEMMA AnswerStep ==
    ASSUME Before, Next
    PROVE  reply' \in Replies /\ AbsentMeansGone'
<1>1. CASE reply' = NoReply
  <2>1. NoReply.lifecycle # "ABSENT"
    BY Zenon DEF NoReply
  <2> QED BY <1>1, <2>1, InitialValues, Zenon DEF AbsentMeansGone
<1>2. ASSUME NEW g \in Guids, ChildRecordFor(g), UNCHANGED <<callback, pdo>>
      PROVE  reply' \in Replies /\ AbsentMeansGone'
  <2>1. /\ reply' \in Replies /\ reply'.guid = g
        /\ reply'.lifecycle = "ABSENT" => ~Known(g)
    BY <1>2, AnswerIsARecord, Zenon
  <2>2. ~Known(g) => callback.guid # g /\ \A p \in Pdos : pdo[p].guid # g
    BY NoNodeNoDevice, Zenon
  <2> QED BY <1>2, <2>1, <2>2, Zenon DEF AbsentMeansGone
<1> QED BY <1>1, <1>2, AnswerSteps, Zenon

-----------------------------------------------------------------------------
(* The whole bus.                                                          *)

(* Every step but the last cleanup keeps nodes, devices, descriptions and  *)
(* the two threads of control in agreement.                                *)
LEMMA AgreementStep ==
    ASSUME Before, Next, ~BusDeviceCleanup
    PROVE  After
<1>1. ASSUME NEW g \in Guids, NEW m \in RequestedMtus, ManagerCreate(g, m) PROVE After
  BY <1>1, CreateStep, Zenon
<1>2. ASSUME NEW g \in Guids, ManagerRemove(g) PROVE After
  BY <1>2, RemoveStep, Zenon
<1>3. ASSUME NEW g \in Guids, ManagerQuery(g) PROVE After
  <2>1. ChildRecordFor(g) /\ UNCHANGED <<guard, callback, pdo, list, manager>> /\ manager.pc = "idle"
    BY <1>3, Zenon DEF ManagerQuery, ManagerOnly, Accepts
  <2> QED BY <2>1, RecordStep, Zenon
<1>4. ASSUME NEW g \in Guids, StartCallback(g) PROVE After
  BY <1>4, StartStep, Zenon
<1>5. CASE ManagerEnumerate
  <2>1. UNCHANGED <<children, guard, callback, pdo, list, manager>>
    BY <1>5, Zenon DEF ManagerEnumerate, ManagerOnly
  <2> QED BY <2>1, RefuseStep, Zenon
<1>6. CASE AnswerRecord
  <2>1. ChildRecordFor(manager.guid) /\ UNCHANGED <<guard, callback, pdo, list>>
        /\ manager.pc = "record" /\ manager' = IdleManager
    BY <1>6, Zenon DEF AnswerRecord, ManagerOnly
  <2>2. manager.guid \in Guids /\ manager'.pc = "idle"
    BY <2>1, Zenon DEF Before, Fits, ManagerFits, IdleManager
  <2> QED BY <2>1, <2>2, RecordStep, Zenon
<1>7. ManagerRuns => After
  BY <1>6, AddStep, MissingStep, ReclaimStep, MarkStep, Zenon DEF ManagerRuns
<1>8. CallbackRuns => After
  BY BuildStep, FailStep, LinkStep, Zenon DEF CallbackRuns
<1>9. ASSUME NEW p \in Pdos, PublishInterface(p) \/ RemovePdo(p) \/ PdoCleanup(p) PROVE After
  BY <1>9, PublishStep, RemovePdoStep, CleanupStep, Zenon
<1> QED BY <1>1, <1>2, <1>3, <1>4, <1>5, <1>7, <1>8, <1>9, RemoveBusStep, Zenon DEF Next

(* The bus goes only when its device is cleaned up.                        *)
LEMMA BusPhase ==
    ASSUME Next, bus \in {"present", "removed", "gone"}, bus # "gone"
    PROVE  /\ bus' \in {"present", "removed", "gone"}
           /\ ~BusDeviceCleanup => bus' # "gone"
<1>1. \/ bus' = bus \/ bus' = "removed" \/ BusDeviceCleanup
  BY Zenon DEF Next, ManagerRuns, CallbackRuns, ManagerCreate, ManagerRemove, ManagerQuery,
               StartCallback, ManagerEnumerate, ManagerOnly, AddChild, UpdateMissing,
               ReclaimWithoutPdo, MarkFailed, AnswerRecord, CreatePdo, CallbackFails, LinkPdo,
               PublishInterface, RemovePdo, PdoCleanup, RemoveBus
<1> QED BY <1>1, Zenon DEF BusDeviceCleanup

(* Only LinkPdo may leave the lock taken.                                  *)
LEMMA LockPhase ==
    ASSUME Next
    PROVE  guard' = guard \/ guard' = TRUE
BY Zenon DEF Next, ManagerRuns, CallbackRuns, ManagerCreate, ManagerRemove, ManagerQuery,
             StartCallback, ManagerEnumerate, ManagerOnly, AddChild, UpdateMissing,
             ReclaimWithoutPdo, MarkFailed, AnswerRecord, CreatePdo, CallbackFails, LinkPdo,
             PublishInterface, RemovePdo, PdoCleanup, RemoveBus, BusDeviceCleanup

(* An empty bus.                                                           *)
LEMMA BusInitially ==
    Init => BusInv /\ AbsentMeansGone /\ WalkFits(children, walk)
<1> SUFFICES ASSUME Init PROVE BusInv /\ AbsentMeansGone /\ WalkFits(children, walk)
  BY Zenon
<1>1. /\ children = <<>> /\ guard = FALSE /\ manager = IdleManager /\ reply = NoReply /\ walk = NoWalk
      /\ callback = IdleCallback /\ pdo = [p \in Pdos |-> FreePdo]
      /\ list = [g \in Guids |-> Unlisted] /\ bus = "present"
  BY Zenon DEF Init
<1>2. TypeOK
  <2>1. children \in Seq(ChildNode) /\ bus \in {"present", "removed", "gone"}
    BY <1>1
  <2>2. guard \in BOOLEAN
    BY <1>1, Zenon
  <2>3. pdo \in [Pdos -> Devices] /\ list \in [Guids -> Descriptions]
    BY <1>1, InitialValues, Zenon
  <2> QED BY <1>1, <2>1, <2>2, <2>3, InitialValues, TypesAre, Zenon
<1>3. Distinct(children) /\ \A g : ~Has(children, g)
  BY <1>1 DEF Distinct, Has
<1>4. DescriptionFits(children, list) /\ CallbackFits(list, callback, pdo)
  BY <1>1, Zenon DEF DescriptionFits, CallbackFits, Unlisted, IdleCallback
<1>5. DeviceFits(children, list, callback, pdo) /\ NodeFits(children, pdo)
  BY <1>1, <1>3, Zenon DEF DeviceFits, NodeFits, FreePdo
<1>6. ManagerFits(children, list, manager)
  BY <1>1, Zenon DEF ManagerFits, IdleManager
<1>7. AbsentMeansGone /\ WalkFits(children, walk)
  BY <1>1, Zenon DEF AbsentMeansGone, NoReply, WalkFits, NoWalk
<1> QED BY <1>1, <1>2, <1>3, <1>4, <1>5, <1>6, <1>7, Zenon DEF BusInv, Fits

(* Every step, the cleanup of the bus included.                            *)
LEMMA BusStep ==
    ASSUME BusInv, WalkFits(children, walk), Next
    PROVE  BusInv' /\ AbsentMeansGone' /\ WalkFits(children, walk)'
<1>1. bus # "gone" /\ Before
  BY PresentIsLinked, Zenon
<1>2. /\ manager' \in Requests /\ callback' \in Callbacks /\ pdo' \in [Pdos -> Devices]
      /\ list' \in [Guids -> Descriptions]
  BY <1>1, ManagerTypes, DeviceTypes, Zenon
<1>3. walk \in Walks /\ bus \in {"present", "removed", "gone"}
  BY TypesAre, Zenon DEF BusInv
<1>4. walk' \in Walks /\ WalkFits(children', walk')
  BY <1>1, <1>3, WalkStep, Zenon
<1>5. reply' \in Replies /\ AbsentMeansGone'
  BY <1>1, AnswerStep, Zenon
<1>6. bus' \in {"present", "removed", "gone"} /\ (~BusDeviceCleanup => bus' # "gone")
  BY <1>1, <1>3, BusPhase, Zenon
<1>7. Distinct(children') /\ ~guard' => TypeOK'
  <2>1. Distinct(children') => children' \in Seq(ChildNode)
    BY Zenon DEF Distinct
  <2>2. guard' \in BOOLEAN
    <3>1. guard \in BOOLEAN
      BY TypesAre, Zenon DEF BusInv
    <3> QED BY <3>1, LockPhase, Zenon
  <2> QED BY <1>2, <1>4, <1>5, <1>6, <2>1, <2>2, Zenon
             DEF TypeOK, ChildNode, Requests, Replies, Walks, Callbacks, Devices, Descriptions
<1>8. CASE ~BusDeviceCleanup
  <2>1. After
    BY <1>1, <1>8, AgreementStep, Zenon
  <2> QED BY <1>4, <1>5, <1>6, <1>7, <1>8, <2>1, Zenon DEF After, BusInv
<1>9. CASE BusDeviceCleanup
  <2>1. /\ children' = <<>> /\ bus' = "gone" /\ UNCHANGED <<guard, manager, callback, pdo>>
        /\ manager.pc = "idle" /\ callback.pc = "idle" /\ \A p \in Pdos : pdo[p].state = "free"
    BY <1>9, Zenon DEF BusDeviceCleanup
  <2>2. \A p \in Pdos : pdo[p] = FreePdo
    BY <1>1, <2>1, Zenon DEF Before, Fits, DeviceFits
  <2>3. Distinct(children')
    <3>1. Distinct(<<>>)
      BY DEF Distinct
    <3> QED BY <2>1, <3>1, Zenon
  <2>4. ~guard'
    BY <1>1, <2>1, Zenon DEF Before
  <2> QED BY <1>4, <1>5, <1>7, <2>1, <2>2, <2>3, <2>4, Zenon DEF BusInv
<1> QED BY <1>8, <1>9, Zenon


(* The agreement the proofs rest on, with the reader's place in the list.  *)
BusAgrees == BusInv /\ AbsentMeansGone /\ WalkFits(children, walk)

(* The invariant from which the three theorems follow.                     *)
LEMMA BusAgreesAlways == Spec => []BusAgrees
<1>1. Init => BusAgrees
  BY BusInitially, Zenon DEF BusAgrees
<1>2. BusAgrees /\ [Next]_vars => BusAgrees'
  <2> SUFFICES ASSUME BusAgrees, [Next]_vars PROVE BusAgrees'
    BY Zenon
  <2>1. CASE Next
    BY <2>1, BusStep, Zenon DEF BusAgrees
  <2>2. CASE UNCHANGED vars
    <3>1. TypeOK' /\ AbsentMeansGone'
      <4>1. TypeOK /\ AbsentMeansGone
        BY Zenon DEF BusAgrees, BusInv
      <4>2. TypeOK'
        <5>1. /\ children' = children /\ guard' = guard /\ manager' = manager /\ reply' = reply
              /\ walk' = walk /\ callback' = callback /\ pdo' = pdo /\ list' = list /\ bus' = bus
          BY <2>2, Zenon DEF vars
        <5> QED BY <4>1, <5>1 DEF TypeOK
      <4>3. AbsentMeansGone'
        BY <2>2, <4>1, Zenon DEF vars, AbsentMeansGone
      <4> QED BY <4>2, <4>3, Zenon
    <3>2. /\ children' = children /\ guard' = guard /\ bus' = bus /\ manager' = manager
          /\ callback' = callback /\ pdo' = pdo /\ list' = list /\ walk' = walk
      BY <2>2, Zenon DEF vars
    <3> QED BY <3>1, <3>2, Zenon DEF BusAgrees, BusInv
  <2> QED BY <2>1, <2>2, Zenon
<1> QED BY <1>1, <1>2, PTL DEF Spec

(* REQ-028 of the bus driver, for any number of children and devices: a    *)
(* GUID has at most one device, every device has its node, and node and    *)
(* device agree about the MTU, whatever create, remove, callback failure   *)
(* and PDO cleanup interleave.                                             *)
THEOREM GuidHasOneDevice == Spec => []OneDevicePerGuid
<1>1. BusAgrees => OneDevicePerGuid
  <2> SUFFICES ASSUME BusInv PROVE OneDevicePerGuid
    BY Zenon DEF BusAgrees
  <2>1. CASE bus = "gone"
    <3>1. children = <<>> /\ \A p \in Pdos : pdo[p].state = "free"
      <4>1. children = <<>> /\ \A p \in Pdos : pdo[p] = FreePdo
        BY <2>1, Zenon DEF BusInv
      <4> QED BY <4>1, FreePdoIs, Zenon
    <3> QED BY <3>1 DEF OneDevicePerGuid
  <2>2. CASE bus # "gone"
    <3>1. Distinct(children) /\ Fits(children, list, callback, pdo, manager)
      BY <2>2, Zenon DEF BusInv
    <3>2. \A p \in Pdos : pdo[p].state \in {"free", "built", "live", "cleanup"}
      BY Zenon DEF BusInv, TypeOK
    <3>3. ASSUME NEW p \in Pdos, NEW q \in Pdos, p # q, pdo[p].state # "free"
          PROVE  pdo[p].guid # pdo[q].guid
      <4>1. ASSUME pdo[q].guid = pdo[p].guid PROVE p = q
        BY <3>1, <3>2, <3>3, <4>1, OneDevice
      <4> QED BY <3>3, <4>1, Zenon
    <3>4. ASSUME NEW i \in DOMAIN children, children[i].pdo # NoPdo
          PROVE  /\ pdo[children[i].pdo].guid = children[i].guid
                 /\ pdo[children[i].pdo].mtu = children[i].mtu
      <4>1. children[i].guid \in Guids
        <5>1. children[i] \in ChildNode
          BY <3>1 DEF Distinct
        <5> QED BY <5>1, Zenon DEF ChildNode
      <4>2. Has(children, children[i].guid) /\ At(children, children[i].guid) = children[i]
        BY <3>1, FoundNode, Zenon
      <4> QED BY <3>1, <3>4, <4>1, <4>2 DEF Fits, NodeFits
    <3>5. ASSUME NEW p \in Pdos, pdo[p].state # "free"
          PROVE  Known(pdo[p].guid) /\ (pdo[p].state # "built" => Node(pdo[p].guid).pdo = p)
      <4>1. /\ pdo[p].guid \in Guids /\ Has(children, pdo[p].guid)
            /\ pdo[p].state # "built" => At(children, pdo[p].guid).pdo = p
        BY <3>1, <3>2, <3>5, Zenon DEF Fits, DeviceFits
      <4>2. Known(pdo[p].guid)
        BY <4>1, KnownIsHas, Zenon
      <4> QED BY <4>1, <4>2, Zenon DEF Node, FindChild, At
    <3> QED BY <3>3, <3>4, <3>5, Zenon DEF OneDevicePerGuid
  <2> QED BY <2>1, <2>2, Zenon
<1> QED BY <1>1, BusAgreesAlways, PTL

(* REQ-029 of the bus driver, for any number of children and devices: a    *)
(* QUERY or REMOVE that reports a child ABSENT does so when its device has *)
(* been cleaned up and evt_child_list_create_device builds none for it.    *)
THEOREM AbsentChildHasNoDevice == Spec => []AbsentMeansGone
<1>1. BusAgrees => AbsentMeansGone
  BY Zenon DEF BusAgrees
<1> QED BY <1>1, BusAgreesAlways, PTL

(* ENUMERATE by pages, for any list and page size: a client that follows   *)
(* next_cursor to zero has read every child that was there when it began,  *)
(* unless a child was reclaimed in between; children created in between,   *)
(* which go to the head of the list, hide nobody.                          *)
THEOREM EnumerationMissesNobody == Spec => []EnumerationIsComplete
<1>1. BusAgrees => EnumerationIsComplete
  BY Zenon DEF BusAgrees, WalkFits, EnumerationIsComplete
<1> QED BY <1>1, BusAgreesAlways, PTL

=============================================================================
