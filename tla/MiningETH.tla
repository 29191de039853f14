------------------------------ MODULE MiningETH ------------------------------
(***************************************************************************)
(* The jobs of the ETH miners: from the pool session or the fake session   *)
(* to the miner, which needs an extra nonce of its pool session for them   *)
(* (UpSessionETH.go, FakeUpSessionETH.go, DownSessionETH.go).              *)
(*                                                                         *)
(* A job is named by its session and its number.  ToNewFakeJob changes the *)
(* job object that close has passed on, so a job that is still on its way  *)
(* to a miner changes with it: faked is a set of objects.  Difficulties,   *)
(* heights and the format of the protocols are left out.  The pool is      *)
(* external: it gives each worker that registers an extra nonce, if it has *)
(* one left.                                                               *)
(***************************************************************************)
EXTENDS Custody

CONSTANTS
    MaxJobs,         \* bound: the number of jobs of a pool session
    PoolMayBeFull    \* whether the pool may have no extra nonce left

ASSUME MaxJobsAssumption == MaxJobs \in Nat

VARIABLES
    lastJob,          \* up.lastJob of the real sessions, or None
    fakeJob,          \* up.fakeJob of the fake sessions, or None
    faked,            \* the jobs that have been made fake ones
    owed,             \* the miners whose registration the pool has to answer
    hasExtraNonce,    \* the miners for which down.hasExtraNonce is true
    extraNonce,       \* down.extraNonce, as the session that allotted it
    work              \* what the miner was sent: jobs, each with a nonce

jobVars == <<lastJob, fakeJob, faked, owed>>
workVars == <<hasExtraNonce, extraNonce, work>>
allVars == <<mailVars, custodyVars, jobVars, workVars>>

Job == Up \X (1 .. MaxJobs)
InvalidExtraNonce == "invalid"

EventStratumJobETH(j) == [type |-> "StratumJobETH", job |-> j]
EventSetExtraNonce(n) == [type |-> "SetExtraNonce", extraNonce |-> n]
EventUpdateFakeJobETH(j) == [type |-> "UpdateFakeJobETH", job |-> j]

MiningInit ==
    /\ CustodyInit
    /\ lastJob = [u \in Up |-> None]
    /\ fakeJob = [p \in FakeSessions |-> None]
    /\ faked = {}
    /\ owed = [u \in Up |-> {}]
    /\ hasExtraNonce = {}
    /\ extraNonce = [d \in Miner |-> None]
    /\ work = [d \in Miner |-> {}]

-----------------------------------------------------------------------------
(* The pool session (UpSessionETH).                                        *)

\* addDownSession: the worker is registered with the pool.  When the write
\* fails the session is closed, as if the pool broke right after.
UpAddDownSession(u) ==
    /\ u \in Up
    /\ UpReceives(u, "AddDownSession")
    /\ LET d == Head(chan[u]).session
       IN  /\ Joins(u, d)
           /\ owed' = [owed EXCEPT ![u] = @ \cup {d}]
    /\ Handles(u, Nothing, {})
    /\ UNCHANGED <<running, upSession, open, lastJob, fakeJob, faked, workVars>>

\* handleMiningNotify: the pool has a new job, which is sent to all miners with
\* go SendEvent.
MiningNotify(u) ==
    /\ u \in Up \cap open
    /\ \E n \in 1 .. MaxJobs :
          /\ n = IF lastJob[u] = None THEN 1 ELSE lastJob[u][2] + 1
          /\ lastJob' = [lastJob EXCEPT ![u] = <<u, n>>]
          /\ Sends(Nothing, {<<d, EventStratumJobETH(<<u, n>>)>> : d \in downSessions[u]})
    /\ UNCHANGED <<fakeJob, faked, owed, custodyVars, workVars>>

\* Mutant: the job that came before the nonce is not sent again.
NonceAlone(u, n) == <<EventSetExtraNonce(n)>>

\* Mutant: the session does not test whether it has a job.
NonceAndAnyJob(u, n) == <<EventSetExtraNonce(n), EventStratumJobETH(lastJob[u])>>

\* The nonce is sent to the miner, and behind it the job that the miner could
\* not use before.
NonceAndJob(u, n) ==
    <<EventSetExtraNonce(n)>>
        \o IF lastJob[u] = None THEN <<>> ELSE <<EventStratumJobETH(lastJob[u])>>

\* Mutant: go SendEvent.
GreetsAsync(u, d, n) ==
    Sends(InTurn(d, Tail(NonceAndJob(u, n))), {<<d, EventSetExtraNonce(n)>>})

Greets(u, d, n) == Sends(InTurn(d, NonceAndJob(u, n)), {})

\* handleExMessageSetExtraNonce: the pool answers a registration.  It does
\* nothing when the miner has left.
SetExtraNonce(u) ==
    /\ u \in Up \cap open
    /\ \E d \in owed[u], n \in {u} \cup IF PoolMayBeFull THEN {InvalidExtraNonce} ELSE {} :
          /\ owed' = [owed EXCEPT ![u] = @ \ {d}]
          /\ IF d \in downSessions[u] THEN Greets(u, d, n) ELSE UNCHANGED mailVars
    /\ UNCHANGED <<lastJob, fakeJob, faked, custodyVars, workVars>>

\* close, after the pool broke the connection: the fake session gets the last
\* job and the manager the miners.
PoolBreaks(u) ==
    /\ u \in Breakable \cap open
    /\ UpCloses(u)
    /\ \E pending \in Rehomings(downSessions[u], open \ {u}), m \in Mgr :
          Sends(IF lastJob[u] = None THEN Nothing
                ELSE To(Fake(m), EventUpdateFakeJobETH(lastJob[u])), pending)
    /\ UNCHANGED <<jobVars, workVars>>

-----------------------------------------------------------------------------
(* The fake session (FakeUpSessionETH).                                    *)

FakeUpdateJob(p) ==
    /\ UpReceives(p, "UpdateFakeJobETH")
    /\ fakeJob' = [fakeJob EXCEPT ![p] = Head(chan[p]).job]
    /\ Handles(p, Nothing, {})
    /\ UNCHANGED <<lastJob, faked, owed, custodyVars, workVars>>

\* ToNewFakeJob on the session's job.
MakesFakeJob(p) == faked' = faked \cup {fakeJob[p]}

FakeAddDownSession(p) ==
    /\ p \in FakeSessions
    /\ UpReceives(p, "AddDownSession")
    /\ LET d == Head(chan[p]).session
       IN  /\ Joins(p, d)
           /\ IF fakeJob[p] = None
              THEN Handles(p, Nothing, {}) /\ UNCHANGED faked
              ELSE Handles(p, To(d, EventStratumJobETH(fakeJob[p])), {}) /\ MakesFakeJob(p)
    /\ UNCHANGED <<running, upSession, open, lastJob, fakeJob, owed, workVars>>

\* sendFakeNotify, at every tick.  Bound: the miners have handled the last one.
SendFakeNotify(p) ==
    /\ p \in FakeSessions
    /\ fakeJob[p] # None
    /\ downSessions[p] # {}
    /\ \A d \in downSessions[p] : InFlight(d, EventStratumJobETH(fakeJob[p])) = 0
    /\ MakesFakeJob(p)
    /\ Sends(Nothing, {<<d, EventStratumJobETH(fakeJob[p])>> : d \in downSessions[p]})
    /\ UNCHANGED <<lastJob, fakeJob, owed, custodyVars, workVars>>

-----------------------------------------------------------------------------
(* The miner's session (DownSessionETH).                                   *)

ForgetsNonce(d) == hasExtraNonce' = hasExtraNonce \ {d}

DownSetUpSession(d) ==
    /\ SetUpSession(d)
    /\ ForgetsNonce(d)
    /\ UNCHANGED <<extraNonce, work, jobVars>>

\* setExtraNonce.  The session is closed when the pool is full.
DownSetExtraNonce(d) ==
    /\ DownReceives(d, "SetExtraNonce")
    /\ LET n == Head(chan[d]).extraNonce
       IN  \/ /\ n = InvalidExtraNonce
              /\ DownCloses(d)
              /\ Handles(d, Nothing, Broken(d))
              /\ UNCHANGED <<hasExtraNonce, extraNonce>>
           \/ /\ n # InvalidExtraNonce
              /\ extraNonce' = [extraNonce EXCEPT ![d] = n]
              /\ hasExtraNonce' = hasExtraNonce \cup {d}
              /\ Handles(d, Nothing, {})
              /\ UNCHANGED custodyVars
    /\ UNCHANGED <<work, jobVars>>

\* sendJob.  Without an extra nonce the job is dropped.
DownSendJob(d) ==
    /\ DownReceives(d, "StratumJobETH")
    /\ IF d \in hasExtraNonce
       THEN LET j == Head(chan[d]).job
            IN  work' = [work EXCEPT ![d] = @ \cup
                            {[job |-> j, isFakeJob |-> j \in faked, extraNonce |-> extraNonce[d]]}]
       ELSE UNCHANGED work
    /\ Handles(d, Nothing, {})
    /\ UNCHANGED <<hasExtraNonce, extraNonce, jobVars, custodyVars>>

-----------------------------------------------------------------------------
Environment ==
    \/ \E d \in Miner : MinerLeaves(d) /\ UNCHANGED <<jobVars, workVars>>
    \/ \E p \in FakeSessions : TransferDownSessions(p) /\ UNCHANGED <<jobVars, workVars>>
    \/ \E u \in Up : MiningNotify(u) \/ PoolBreaks(u)

DownRuns(d) == DownSetUpSession(d) \/ DownSetExtraNonce(d) \/ DownSendJob(d)

UpRuns(p) ==
    \/ UpAddDownSession(p)
    \/ FakeAddDownSession(p)
    \/ FakeUpdateJob(p)
    \/ DownSessionBroken(p) /\ UNCHANGED <<jobVars, workVars>>

SenderRuns(m) == Deliver(m) /\ UNCHANGED <<custodyVars, jobVars, workVars>>

MiningNext ==
    \/ Environment
    \/ \E d \in Miner : DownRuns(d)
    \/ \E p \in PoolSession : UpRuns(p)
    \/ \E u \in Up : SetExtraNonce(u)
    \/ \E p \in FakeSessions : SendFakeNotify(p)
    \/ \E m \in BagToSet(spawned) : SenderRuns(m)

\* The goroutines run, the ticker ticks, and the pool answers registrations.
MiningSpec ==
    /\ MiningInit
    /\ [][MiningNext]_allVars
    /\ \A d \in Miner : WF_allVars(DownRuns(d))
    /\ \A p \in PoolSession : WF_allVars(UpRuns(p))
    /\ \A u \in Up : WF_allVars(SetExtraNonce(u))
    /\ \A p \in FakeSessions : WF_allVars(SendFakeNotify(p))
    /\ \A a \in Actor : WF_allVars(\E m \in BagToSet(spawned) : m[1] = a /\ SenderRuns(m))

-----------------------------------------------------------------------------
\* Type invariant.
MiningTypeOK ==
    /\ CustodyTypeOK
    /\ lastJob \in [Up -> Job \cup {None}]
    /\ fakeJob \in [FakeSessions -> Job \cup {None}]
    /\ faked \subseteq Job
    /\ owed \in [Up -> SUBSET Miner]
    /\ hasExtraNonce \subseteq Miner
    /\ extraNonce \in [Miner -> Up \cup {None}]
    /\ work \in [Miner -> SUBSET [job : Job, isFakeJob : BOOLEAN, extraNonce : Up]]

\* An extra nonce is never used with another session than the one that allotted
\* it: a nonce of the old session cannot arrive after the miner has moved, so
\* two miners of a pool never search the same nonces.
NonceIsCurrent == \A d \in hasExtraNonce : extraNonce[d] = upSession[d]

\* A miner of a session that has a job is sent a job of that session, in
\* whichever order the nonce and the jobs come, unless one of them goes.
ServedGetsJob ==
    \A d \in Miner, u \in Up :
       (d \in downSessions[u] /\ lastJob[u] # None)
       ~> \/ d \notin running
          \/ u \notin open
          \/ \E w \in work[d] : w.job[1] = u /\ w.extraNonce = u

\* "BTCAgent will not stop sending jobs when disconnected from the mining pool,
\* but will create some fake jobs and send them to your miners"
\* (docs/ConfigFileDetails.md:42): a miner that stays with the fake session
\* is sent a fake job.
FakeJobsArrive ==
    \A d \in Miner, p \in FakeSessions :
       (d \in downSessions[p] /\ fakeJob[p] # None)
       ~> \/ d \notin running
          \/ d \notin downSessions[p]
          \/ \E w \in work[d] : w.isFakeJob
=============================================================================
