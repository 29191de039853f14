---------------------------- MODULE JobIDQueueETH ----------------------------
(***************************************************************************)
(* The ring in which a DownSessionETH keeps the jobs it has sent           *)
(* (LocalJobETH.go), to find the pool's job id for the hash that a miner   *)
(* submits.  Only the loop of its session uses it, so Add and Find are one *)
(* step each.  In the program Size is EthereumJobIDQueueSize, 256.         *)
(*                                                                         *)
(* A definition whose comment starts with "Mutant" is not part of the      *)
(* model: it is a plausible bug that a property has to notice.             *)
(***************************************************************************)
EXTENDS Integers

CONSTANTS Size, PowHash, JobID, NoHash, Nil

ASSUME QueueAssumption ==
    /\ Size \in Nat \ {0}
    /\ NoHash \notin PowHash
    /\ Nil \notin JobID

VARIABLES
    Queue,    \* an array
    Pos       \* where the next job goes: behind the newest, on the oldest

queueVars == <<Queue, Pos>>

Index == 0 .. Size - 1

\* JobIDPairETH, and its zero value.
Pair == [powHash : PowHash, jobID : JobID]
ZeroPair == [powHash |-> NoHash, jobID |-> Nil]

NewJobqueueETH ==
    /\ Queue = [i \in Index |-> ZeroPair]
    /\ Pos = 0

\* Mutant: the ring turns one entry too early.
AdvancedEarly == IF Pos + 1 >= Size - 1 THEN 0 ELSE Pos + 1

Advanced == IF Pos + 1 >= Size THEN 0 ELSE Pos + 1

Add(p) ==
    /\ Queue' = [Queue EXCEPT ![Pos] = p]
    /\ Pos' = Advanced

\* Mutant: the second loop of Find comes first.
RankSwapped(i) == IF i >= Pos THEN Size - 1 - i ELSE Size + Pos - 1 - i

\* When Find looks at index i: from Pos - 1 down to 0 and then from the end of
\* the array down to Pos.
Rank(i) == IF i < Pos THEN Pos - 1 - i ELSE Pos + Size - 1 - i

\* Find stops at i.
Stops(h, i) ==
    /\ i \in Index
    /\ Queue[i].powHash = h
    /\ \A j \in Index : Rank(j) < Rank(i) => Queue[j].powHash # h

Find(h) ==
    IF \E i \in Index : Stops(h, i) THEN Queue[CHOOSE i \in Index : Stops(h, i)].jobID ELSE Nil

QueueNext == \E p \in Pair : Add(p)
QueueSpec == NewJobqueueETH /\ [][QueueNext]_queueVars

-----------------------------------------------------------------------------
\* Type invariant.
QueueTypeOK ==
    /\ Queue \in [Index -> Pair \cup {ZeroPair}]
    /\ Pos \in Index

\* The jobs in the order in which they were sent: from Pos to the end of the
\* array, then from its start to Pos.
Oldest(k) == IF Pos + k - 1 < Size THEN Pos + k - 1 ELSE Pos + k - 1 - Size

Window == INSTANCE JobWindow WITH window <- [k \in 1 .. Size |-> Queue[Oldest(k)]]

\* The ring remembers exactly the last Size jobs, whatever was sent before: a
\* share for one of them is never refused with "job not found".
RemembersRecent == Window!WindowSpec

\* The two loops of Find meet the entries from the newest to the oldest: when a
\* hash was sent several times (a job is sent again after every extra nonce),
\* the share is submitted under the id it was sent with last.  An entry that is
\* not used yet never answers a share.
FindsLatest == \A h \in PowHash \cup {NoHash} : Find(h) = Window!Lookup(h)
=============================================================================
