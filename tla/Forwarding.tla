------------------------------ MODULE Forwarding ------------------------------
(***************************************************************************)
(* The forwarding database of the switch and Switch::forward.              *)
(*                                                                         *)
(* A frame is its source address, destination address and VLAN: parse_frame*)
(* yields no more, and frames it rejects are dropped before anything is    *)
(* learnt.  `seen` is not in the program: it remembers where a station     *)
(* sent from last, which is what the database is meant to know.            *)
(***************************************************************************)
EXTENDS Naturals, FiniteSets

CONSTANTS
    EndpointIds, \* the EndpointSet
    Stations,   \* unicast addresses
    Groups,     \* broadcast and multicast addresses
    Vlans,      \* VLAN identifiers, "untagged" among them
    Capacity,   \* FDB_CAPACITY
    Unknown     \* no entry

ASSUME ForwardingAssumption ==
    /\ Stations \cap Groups = {}
    /\ Unknown \notin EndpointIds
    /\ Capacity \in Nat

VARIABLES
    entries,    \* ForwardingDatabase.entries, Unknown where there is none
    seen,       \* where each key last sent from
    last        \* the last frame, its entry point and its recipients

fdbVars == <<entries, seen, last>>

Addresses == Stations \cup Groups
Keys == Addresses \X Vlans
Frames == [source : Addresses, destination : Addresses, vlan : Vlans]

Learnt(db) == {k \in Keys : db[k] # Unknown}

FdbInit ==
    /\ entries = [k \in Keys |-> Unknown]
    /\ seen = [k \in Keys |-> Unknown]
    /\ last = [to |-> Unknown, from |-> Unknown, key |-> Unknown]

Learn(db, frame, endpoint) ==
    LET key == <<frame.source, frame.vlan>> IN
    IF key \in Learnt(db) \/ Cardinality(Learnt(db)) < Capacity
    THEN [db EXCEPT ![key] = endpoint]
    ELSE db

Lookup(db, frame) == db[<<frame.destination, frame.vlan>>]

Peers(endpoint) == EndpointIds \ {endpoint}

RecipientsAlwaysPeers(db, frame, endpoint) == Peers(endpoint)

RecipientsWithoutFlood(db, frame, endpoint) ==
    IF frame.destination \in Stations
    THEN {Lookup(db, frame)} \cap Peers(endpoint)
    ELSE Peers(endpoint)

Recipients(db, frame, endpoint) ==
    IF frame.destination \in Stations /\ Lookup(db, frame) # Unknown
    THEN {Lookup(db, frame)} \ {endpoint}
    ELSE Peers(endpoint)

Forward(frame, endpoint) ==
    LET db == Learn(entries, frame, endpoint) IN
    /\ entries' = db
    /\ seen' = [seen EXCEPT ![<<frame.source, frame.vlan>>] = endpoint]
    /\ last' = [to |-> Recipients(db, frame, endpoint), from |-> endpoint,
                key |-> <<frame.destination, frame.vlan>>]

FdbNext == \E frame \in Frames, endpoint \in EndpointIds : Forward(frame, endpoint)

FdbSpec == FdbInit /\ [][FdbNext]_fdbVars

-----------------------------------------------------------------------------
FdbTypeOK ==
    /\ entries \in [Keys -> EndpointIds \cup {Unknown}]
    /\ Cardinality(Learnt(entries)) <= Capacity
    /\ seen \in [Keys -> EndpointIds \cup {Unknown}]
    /\ last.from \in EndpointIds \cup {Unknown}
    /\ last.from # Unknown => last.to \in SUBSET EndpointIds /\ last.key \in Keys

Forwarded == last.from # Unknown
Unicast == last.key[1] \in Stations

(* A unicast frame reaches the endpoint at which its destination last      *)
(* spoke on that VLAN: neither a full database nor a station that moved    *)
(* while it was full leaves a stale entry that swallows the frame.         *)
ReachesStation ==
    Forwarded /\ Unicast =>
        LET at == seen[last.key] IN at \in EndpointIds \ {last.from} => at \in last.to

(* A unicast frame for a station the database holds goes to no other       *)
(* endpoint than the one where that station last spoke on that VLAN, and   *)
(* is not sent back to that endpoint if it came from there.                *)
LearntStationIsPrivate ==
    Forwarded /\ Unicast /\ entries[last.key] # Unknown =>
        last.to \subseteq {seen[last.key]} \ {last.from}

=============================================================================
