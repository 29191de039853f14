--------------------------- MODULE SessionIDLease ---------------------------
(***************************************************************************)
(* What the allocator of session ids promises to the miner connections, in *)
(* their own terms: a connection gets an id that no other connection has,  *)
(* and it is turned away only when every id is taken.  Nothing is said of  *)
(* how the ids are searched or counted.                                    *)
(***************************************************************************)
CONSTANTS
    Client,    \* the connections
    Id,        \* the ids
    NoID,      \* a connection without an id
    Refused    \* a connection that was turned away

\* The two marks are distinct and no ids: NoIDAssumption of DownSession.

VARIABLE lease

Held == {lease[c] : c \in Client} \cap Id

LeaseInit == lease = [c \in Client |-> NoID]

Acquire(c) ==
    /\ lease[c] = NoID
    /\ \E id \in Id \ Held : lease' = [lease EXCEPT ![c] = id]

Refuse(c) ==
    /\ lease[c] = NoID
    /\ Held = Id
    /\ lease' = [lease EXCEPT ![c] = Refused]

\* The connection is gone; another one may come in its place.
Release(c) ==
    /\ lease[c] # NoID
    /\ lease' = [lease EXCEPT ![c] = NoID]

LeaseNext == \E c \in Client : Acquire(c) \/ Refuse(c) \/ Release(c)

LeaseSpec == LeaseInit /\ [][LeaseNext]_lease
=============================================================================
