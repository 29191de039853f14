------------------------------ MODULE MiningBTC ------------------------------
(***************************************************************************)
(* What the BTC miners are told: version masks, difficulties and jobs,     *)
(* from the pool session or the fake session (UpSessionBTC.go,             *)
(* FakeUpSessionBTC.go, StratumJobBTC.go, DownSessionBTC.go).              *)
(*                                                                         *)
(* All of it travels as lines in EventSendBytes; a line is named by its    *)
(* session and its kind.  Of a job there is only whether the agent has set *)
(* its flag clean_jobs ("cleanJob"), by which a miner drops the jobs it    *)
(* had before, or left it as the pool set it ("job").  The pool is         *)
(* external: its lines are well-formed and come at any time and in any     *)
(* order.                                                                  *)
(***************************************************************************)
EXTENDS Custody

CONSTANT
    MaxLines      \* bound: a miner's lines under way when one more is sent to all

ASSUME LineAssumption == MaxLines \in Nat

VARIABLES
    rolls,              \* the miners for which down.versionMask is not 0
    rpcSetVersionMask,  \* up.rpcSetVersionMask, or None
    rpcSetDifficulty,   \* up.rpcSetDifficulty, or None
    lastJob,            \* up.lastJob, as its flag, or None
    fakeJob,            \* up.fakeJob of the fake sessions, likewise
    host,               \* the last session that took a miner, or None
    had,                \* what that session had for the miner when it took it
    told                \* the lines of that session that the miner was sent

historyVars == <<host, had, told>>
upLineVars == <<rpcSetVersionMask, rpcSetDifficulty, lastJob>>
lineVars == <<rolls, upLineVars, fakeJob, historyVars>>
allVars == <<mailVars, custodyVars, lineVars>>

JobKind == {"job", "cleanJob"}
Kind == JobKind \cup {"mask", "difficulty", "ownDifficulty"}

EventSendBytes(p, kind) == [type |-> "SendBytes", session |-> p, kind |-> kind]
EventUpdateFakeJobBTC(job) == [type |-> "UpdateFakeJobBTC", job |-> job]

\* A miner may have sent mining.configure before it was authorized.
BTCInit ==
    /\ CustodyInit
    /\ rolls \in SUBSET Miner
    /\ rpcSetVersionMask = [u \in Up |-> None]
    /\ rpcSetDifficulty = [u \in Up |-> None]
    /\ lastJob = [u \in Up |-> None]
    /\ fakeJob = [p \in FakeSessions |-> None]
    /\ host = [d \in Miner |-> None]
    /\ had = [d \in Miner |-> {}]
    /\ told = [d \in Miner |-> {}]

\* go SendEvent of one line of p to each of the miners ds.
Lines(p, ds, kind) == {<<d, EventSendBytes(p, kind)>> : d \in ds}

LinesUnderWay(d) ==
    Cardinality({i \in DOMAIN chan[d] : chan[d][i].type = "SendBytes"})
    + Cardinality({m \in BagToSet(spawned) : m[1] = d /\ m[2].type = "SendBytes"})

\* Bound: a line does not come again, nor one too many, before they have passed,
\* and none when a miner has left.
Passed(p, kind) ==
    \A d \in Miner : /\ d \in running
                     /\ InFlight(d, EventSendBytes(p, kind)) = 0
                     /\ LinesUnderWay(d) < MaxLines

-----------------------------------------------------------------------------
(* The pool session (UpSessionBTC).                                        *)

\* Mutant: the mask is kept for those who come later, and passed on to nobody.
RollingNobody(u) == {}

\* The miners to which a new mask is passed on.
Rolling(u) == downSessions[u] \cap rolls

\* handleSetVersionMask.  It is the line of the pool that is kept and passed on,
\* whether or not serverCapVersionRolling is set: the zero mask is only written
\* into the parsed message, and up.versionMask is not read.
SetVersionMask(u) ==
    /\ u \in Up \cap open
    /\ Passed(u, "mask")
    /\ rpcSetVersionMask' = [rpcSetVersionMask EXCEPT ![u] = "mask"]
    /\ Sends(Nothing, Lines(u, Rolling(u), "mask"))
    /\ UNCHANGED <<rolls, rpcSetDifficulty, lastJob, fakeJob, historyVars, custodyVars>>

\* handleSetDifficulty: only the first difficulty is kept and passed on.
SetDifficulty(u) ==
    /\ u \in Up \cap open
    /\ rpcSetDifficulty[u] = None
    /\ Passed(u, "difficulty")
    /\ rpcSetDifficulty' = [rpcSetDifficulty EXCEPT ![u] = "difficulty"]
    /\ Sends(Nothing, Lines(u, downSessions[u], "difficulty"))
    /\ UNCHANGED <<rolls, rpcSetVersionMask, lastJob, fakeJob, historyVars, custodyVars>>

\* ToNotifyLine: the flag that is set for a miner's first job stays set.
ToNotifyLine(job, firstJob) == IF firstJob THEN "cleanJob" ELSE job

\* handleMiningNotify.
MiningNotify(u) ==
    /\ u \in Up \cap open
    /\ Passed(u, "job")
    /\ lastJob' = [lastJob EXCEPT ![u] = "job"]
    /\ Sends(Nothing, Lines(u, downSessions[u], ToNotifyLine("job", FALSE)))
    /\ UNCHANGED <<rolls, rpcSetVersionMask, rpcSetDifficulty, fakeJob, historyVars, custodyVars>>

\* handleExMessageMiningSetDiff: a difficulty for some miners by their ids, of
\* which those that have left are passed over.
MiningSetDiff(u) ==
    /\ u \in Up \cap open
    /\ Passed(u, "ownDifficulty")
    /\ \E ds \in SUBSET downSessions[u] \ {{}} : Sends(Nothing, Lines(u, ds, "ownDifficulty"))
    /\ UNCHANGED <<lineVars, custodyVars>>

\* The kinds of lines that session u has for a miner that joins.
Has(u, d) ==
    (IF d \in rolls THEN {rpcSetVersionMask[u]} ELSE {})
        \cup {rpcSetDifficulty[u]}
        \cup IF lastJob[u] = None THEN {} ELSE {"cleanJob"}

\* Mutant: sent without a test whether there is one.
LineUntested(u, kind) == <<EventSendBytes(u, kind)>>

\* What is sent of a line that may be nil.
Line(u, kind) == IF kind = None THEN <<>> ELSE <<EventSendBytes(u, kind)>>

FirstJob(u) == IF lastJob[u] = None THEN None ELSE ToNotifyLine(lastJob[u], TRUE)

\* The greeting of addDownSession: mask, difficulty and last job.
Greeting(u, d) ==
    Line(u, IF d \in rolls THEN rpcSetVersionMask[u] ELSE None)
        \o Line(u, rpcSetDifficulty[u])
        \o Line(u, FirstJob(u))

\* Mutant: go SendEvent, as for all other lines.
GreetsAsync(u, d) ==
    Handles(u, Nothing, {<<d, Greeting(u, d)[i]>> : i \in DOMAIN Greeting(u, d)})

Greets(u, d) == Handles(u, InTurn(d, Greeting(u, d)), {})

\* addDownSession.  When registerWorker fails the session is closed, as if the
\* pool broke right after.
UpAddDownSession(u) ==
    /\ u \in Up
    /\ UpReceives(u, "AddDownSession")
    /\ LET d == Head(chan[u]).session
       IN  /\ Joins(u, d)
           /\ Greets(u, d)
           /\ host' = [host EXCEPT ![d] = u]
           /\ had' = [had EXCEPT ![d] =
                         (Has(u, d) \ {None}) \cup IF d \in rolls THEN {"rolls"} ELSE {}]
           /\ told' = [told EXCEPT ![d] = {}]
    /\ lastJob' = [lastJob EXCEPT ![u] = FirstJob(u)]
    /\ UNCHANGED <<rolls, rpcSetVersionMask, rpcSetDifficulty, fakeJob,
                   running, upSession, open>>

\* close, after the pool broke the connection: the fake session gets the last
\* job and the manager the miners.  What else the session has goes with it.
PoolBreaks(u) ==
    /\ u \in Breakable \cap open
    /\ UpCloses(u)
    /\ \E pending \in Rehomings(downSessions[u], open \ {u}), m \in Mgr :
          Sends(IF lastJob[u] = None THEN Nothing
                ELSE To(Fake(m), EventUpdateFakeJobBTC(lastJob[u])), pending)
    /\ rpcSetVersionMask' = [rpcSetVersionMask EXCEPT ![u] = None]
    /\ rpcSetDifficulty' = [rpcSetDifficulty EXCEPT ![u] = None]
    /\ lastJob' = [lastJob EXCEPT ![u] = None]
    /\ UNCHANGED <<rolls, fakeJob, historyVars>>

-----------------------------------------------------------------------------
(* The fake session (FakeUpSessionBTC).                                    *)

FakeUpdateJob(p) ==
    /\ UpReceives(p, "UpdateFakeJobBTC")
    /\ fakeJob' = [fakeJob EXCEPT ![p] = Head(chan[p]).job]
    /\ Handles(p, Nothing, {})
    /\ UNCHANGED <<rolls, upLineVars, historyVars, custodyVars>>

\* ToNewFakeJob renames the job and leaves its flag alone.
FakeAddDownSession(p) ==
    /\ p \in FakeSessions
    /\ UpReceives(p, "AddDownSession")
    /\ LET d == Head(chan[p]).session
       IN  /\ Joins(p, d)
           /\ \/ /\ fakeJob[p] = None
                 /\ Handles(p, Nothing, {})
                 /\ UNCHANGED fakeJob
              \/ /\ fakeJob[p] # None
                 /\ fakeJob' = [fakeJob EXCEPT ![p] = ToNotifyLine(@, TRUE)]
                 /\ Handles(p, To(d, EventSendBytes(p, fakeJob'[p])), {})
           /\ host' = [host EXCEPT ![d] = p]
           /\ had' = [had EXCEPT ![d] = {}]
           /\ told' = [told EXCEPT ![d] = {}]
    /\ UNCHANGED <<rolls, upLineVars, running, upSession, open>>

\* Mutant: a single miner is taken for none.
HasMinersOffByOne(p) == Cardinality(downSessions[p]) > 1

HasMiners(p) == downSessions[p] # {}

\* sendFakeNotify, at a tick.
SendFakeNotify(p) ==
    /\ p \in FakeSessions
    /\ fakeJob[p] # None
    /\ HasMiners(p)
    /\ Passed(p, fakeJob[p])
    /\ Sends(Nothing, Lines(p, downSessions[p], ToNotifyLine(fakeJob[p], FALSE)))
    /\ UNCHANGED <<lineVars, custodyVars>>

-----------------------------------------------------------------------------
(* The miner's session (DownSessionBTC).                                   *)

\* mining.configure of a miner that has been authorized: it is answered with the
\* mask it asked for, and its pool session is not told.
ParseConfigureRequest(d) ==
    /\ d \in running \ rolls
    /\ rolls' = rolls \cup {d}
    /\ UNCHANGED <<mailVars, custodyVars, upLineVars, fakeJob, historyVars>>

\* sendBytes.
DownSendBytes(d) ==
    /\ DownReceives(d, "SendBytes")
    /\ LET e == Head(chan[d])
       IN  told' = IF e.session = host[d] THEN [told EXCEPT ![d] = @ \cup {e.kind}] ELSE told
    /\ Handles(d, Nothing, {})
    /\ UNCHANGED <<rolls, upLineVars, fakeJob, host, had, custodyVars>>

-----------------------------------------------------------------------------
Environment ==
    \/ \E d \in Miner : MinerLeaves(d) /\ UNCHANGED lineVars
    \/ \E d \in Miner : ParseConfigureRequest(d)
    \/ \E p \in FakeSessions : TransferDownSessions(p) /\ UNCHANGED lineVars
    \/ \E u \in Up :
          \/ SetVersionMask(u)
          \/ SetDifficulty(u)
          \/ MiningNotify(u)
          \/ MiningSetDiff(u)
          \/ PoolBreaks(u)

DownRuns(d) ==
    \/ SetUpSession(d) /\ UNCHANGED lineVars
    \/ DownSendBytes(d)

UpRuns(p) ==
    \/ UpAddDownSession(p)
    \/ FakeAddDownSession(p)
    \/ FakeUpdateJob(p)
    \/ DownSessionBroken(p) /\ UNCHANGED lineVars

SenderRuns(m) == Deliver(m) /\ UNCHANGED <<custodyVars, lineVars>>

BTCNext ==
    \/ Environment
    \/ \E d \in Miner : DownRuns(d)
    \/ \E p \in PoolSession : UpRuns(p)
    \/ \E p \in FakeSessions : SendFakeNotify(p)
    \/ \E m \in BagToSet(spawned) : SenderRuns(m)

\* The goroutines run, the one that has a mask to send too, whatever others have,
\* and the ticker ticks.  Of pools and miners nothing is assumed.
BTCSpec ==
    /\ BTCInit
    /\ [][BTCNext]_allVars
    /\ \A d \in Miner : WF_allVars(DownRuns(d))
    /\ \A p \in PoolSession : WF_allVars(UpRuns(p))
    /\ \A a \in Actor : WF_allVars(\E m \in BagToSet(spawned) : m[1] = a /\ SenderRuns(m))
    /\ \A p \in FakeSessions : WF_allVars(SendFakeNotify(p))
    /\ \A d \in Miner, u \in Up : WF_allVars(SenderRuns(<<d, EventSendBytes(u, "mask")>>))

-----------------------------------------------------------------------------
\* Type invariant.
BTCTypeOK ==
    /\ CustodyTypeOK
    /\ rolls \subseteq Miner
    /\ rpcSetVersionMask \in [Up -> {"mask", None}]
    /\ rpcSetDifficulty \in [Up -> {"difficulty", None}]
    /\ lastJob \in [Up -> JobKind \cup {None}]
    /\ fakeJob \in [FakeSessions -> JobKind \cup {None}]
    /\ host \in [Miner -> PoolSession \cup {None}]
    /\ had \in [Miner -> SUBSET (Kind \cup {"rolls"})]
    /\ told \in [Miner -> SUBSET Kind]

\* A miner that joins a session is told all that the session has for it, its
\* mask, its difficulty and its job as a clean one, before anything that the
\* session sends with go SendEvent.  So it does not work for its new pool at a
\* difficulty that this pool has not set, it drops the jobs of the old one, and
\* the difficulty meant for it alone is not undone by the one for all.
GreetedInOrder ==
    \A d \in Miner :
       host[d] \in Up /\ told[d] \cap (JobKind \cup {"ownDifficulty"}) # {}
       => had[d] \ {"rolls"} \subseteq told[d]

\* "这里响应的是虚假的版本掩码。在连接服务器后将通过 mining.set_version_mask
\* 更新为真实的版本掩码" (DownSessionBTC.go:383-384: the mask in the answer is
\* not the true one, which follows by mining.set_version_mask): a miner that had
\* asked for version rolling when its session took it is told the mask of the
\* pool, if the pool has sent one, be it before or after.
MaskIsUpdated ==
    \A d \in Miner, u \in Up :
       (host[d] = u /\ "rolls" \in had[d] /\ rpcSetVersionMask[u] # None)
       ~> \/ d \notin running
          \/ u \notin open
          \/ host[d] = u /\ "mask" \in told[d]

\* "BTCAgent will not stop sending jobs when disconnected from the mining pool,
\* but will create some fake jobs and send them to your miners"
\* (docs/ConfigFileDetails.md:42): a miner that stays with the fake session is
\* sent a fake job, be the job or the miner there first.
FakeJobsReach ==
    \A d \in Miner, p \in FakeSessions :
       (d \in downSessions[p] /\ fakeJob[p] # None)
       ~> \/ d \notin running
          \/ d \notin downSessions[p]
          \/ host[d] = p /\ told[d] \cap JobKind # {}
=============================================================================
