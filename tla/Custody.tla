------------------------------- MODULE Custody -------------------------------
(***************************************************************************)
(* What the models of jobs and shares need to know of the agent's control  *)
(* plane: which pool session serves a miner, and the events by which this  *)
(* changes.  Agent has that plane in full; here the manager's part, from a *)
(* session that gives its miners back to EventSetUpSession, is one step,   *)
(* the numbers of miners are left out, the option always_keep_downconn is  *)
(* on, and a miner is named by itself: its session id is not reused.       *)
(***************************************************************************)
EXTENDS Mailbox

CONSTANT Breakable    \* the sessions whose connection the pool may break

VARIABLES
    running,         \* the miners whose session handles events
    upSession,       \* down.upSession
    open,            \* the pool sessions, real or fake, that handle events
    downSessions     \* the miners of each pool session

custodyVars == <<running, upSession, open, downSessions>>

FakeSessions == {Fake(m) : m \in Mgr}

DownReceives(d, t) == d \in running /\ Receives(d, t)
UpReceives(p, t) == p \in open /\ Receives(p, t)

\* Every miner is about to get its first pool session.
CustodyInit ==
    /\ running = Miner
    /\ upSession = [d \in Miner |-> None]
    /\ open = PoolSession
    /\ downSessions = [p \in PoolSession |-> {}]
    /\ spawned = EmptyBag
    /\ \E f \in [Miner -> PoolSession] :
          chan = [a \in Actor |-> IF a \in Miner THEN <<EventSetUpSession(f[a])>> ELSE <<>>]

\* setUpSession, as far as both kinds of miners do the same.
SetUpSession(d) ==
    /\ DownReceives(d, "SetUpSession")
    /\ LET p == Head(chan[d]).session
       IN  /\ upSession' = [upSession EXCEPT ![d] = p]
           /\ Handles(d, To(p, EventAddDownSession(d)), {})
    /\ UNCHANGED <<running, open, downSessions>>

Joins(p, d) == downSessions' = [downSessions EXCEPT ![p] = @ \cup {d}]
Leaves(p, d) == downSessions' = [downSessions EXCEPT ![p] = @ \ {d}]

\* close of a miner's session.
DownCloses(d) ==
    /\ running' = running \ {d}
    /\ UNCHANGED <<upSession, open, downSessions>>
Broken(d) ==
    IF upSession[d] = None THEN {} ELSE {<<upSession[d], EventDownSessionBroken(d)>>}

\* What may come of the miners ds that a session gives back: the manager gives
\* each of them one of the sessions ps, with SendEvent from another goroutine.
Rehomings(ds, ps) == {{<<d, EventSetUpSession(f[d])>> : d \in ds} : f \in [ds -> ps]}

\* close of a pool session.
UpCloses(u) ==
    /\ open' = open \ {u}
    /\ UNCHANGED <<running, upSession, downSessions>>

-----------------------------------------------------------------------------
(* The steps that have nothing to do with jobs and shares.                 *)

\* The miner leaves; whatever has been sent to it stays unread.
MinerLeaves(d) ==
    /\ d \in running
    /\ DownCloses(d)
    /\ Sends(Nothing, Broken(d))

DownSessionBroken(p) ==
    /\ UpReceives(p, "DownSessionBroken")
    /\ Leaves(p, Head(chan[p]).sessionID)
    /\ Handles(p, Nothing, {})
    /\ UNCHANGED <<running, upSession, open>>

\* A pool session has become ready.  It may be gone again when the manager gets
\* the miners, and they come back.
TransferDownSessions(p) ==
    /\ p \in FakeSessions
    /\ downSessions[p] # {}
    /\ \E pending \in Rehomings(downSessions[p], open) : Sends(Nothing, pending)
    /\ downSessions' = [downSessions EXCEPT ![p] = {}]
    /\ UNCHANGED <<running, upSession, open>>

CustodyTypeOK ==
    /\ running \subseteq Miner
    /\ upSession \in [Miner -> PoolSession \cup {None}]
    /\ open \subseteq PoolSession
    /\ downSessions \in [PoolSession -> SUBSET Miner]
=============================================================================
