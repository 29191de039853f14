-------------------------------- MODULE Agent --------------------------------
(***************************************************************************)
(* The agent: SessionManager, UpSessionManagers, real and fake pool        *)
(* sessions and miner sessions, composed over their channels.              *)
(*                                                                         *)
(* Every step is a step of one goroutine: the handler of one event, one    *)
(* SendEvent that a goroutine was started for, or something the miners,    *)
(* the pool or the operator do.                                            *)
(***************************************************************************)
EXTENDS DownSession, SessionManager, Functions

poolVars == <<upVars, mapVars, fakeLoop, mgrVars, smVars>>
vars == <<mailVars, idVars, downVars, poolVars>>

Init ==
    /\ MailInit
    /\ IDInit
    /\ DownInit
    /\ UpInit
    /\ MapInit
    /\ FakeInit
    /\ MgrInit
    /\ SMInit

-----------------------------------------------------------------------------
(* The environment: what nobody can count on.                              *)

\* The accept loop runs only while the listener is open.
MinerActs(d) ==
    /\ MinerStep(d)
    /\ downStat[d] = "none" => smStat = "listening"
    /\ UNCHANGED poolVars

PoolActs(u) ==
    /\ PoolBreaks(u)
    /\ UNCHANGED <<idVars, downVars, fakeLoop, mgrVars, smVars>>

ConnectRefused(m) ==
    /\ \E s \in Slot : ConnectFails(m, s)
    /\ UNCHANGED <<idVars, downVars, smVars>>

OperatorActs == SMStop /\ UNCHANGED <<idVars, downVars>>

Environment ==
    \/ \E d \in Miner : MinerActs(d)
    \/ \E u \in Up : PoolActs(u)
    \/ \E m \in Mgr : ConnectRefused(m)
    \/ OperatorActs

-----------------------------------------------------------------------------
(* The agent's own goroutines.                                             *)

DownRuns(d) == DownHandles(d) /\ UNCHANGED poolVars

UpRuns(u) ==
    /\ UpHandles(u, sessionID)
    /\ UNCHANGED <<idVars, downVars, fakeLoop, mgrVars, smVars>>

FakeRuns(m) ==
    /\ FakeHandles(m, sessionID)
    /\ UNCHANGED <<idVars, downVars, mgrVars, smVars>>

MgrRuns(m) == MgrHandles(m) /\ UNCHANGED <<idVars, downVars, smVars>>

SMRuns == (SMStarts \/ SMHandles(subAccount)) /\ UNCHANGED <<idVars, downVars>>

Connects(m) ==
    /\ \E s \in Slot, u \in Up : ConnectSucceeds(m, s, u)
    /\ UNCHANGED <<idVars, downVars, smVars>>

SenderRuns(m) == Deliver(m) /\ UNCHANGED <<idVars, downVars, poolVars>>

Agents ==
    \/ \E d \in Miner : DownRuns(d)
    \/ \E u \in Up : UpRuns(u)
    \/ \E m \in Mgr : FakeRuns(m) \/ MgrRuns(m) \/ Connects(m)
    \/ SMRuns
    \/ \E m \in BagToSet(spawned) : SenderRuns(m)

Next == Environment \/ Agents

Spec == Init /\ [][Next]_vars

\* Go runs every goroutine that can run, and a pool that may not refuse is
\* connected to in the end.  Nothing is assumed of the miners, of pools that
\* break or refuse, and of the operator.  Among the goroutines that wait to
\* send to one part, some one makes progress.
Fairness ==
    /\ \A d \in Miner : WF_vars(DownRuns(d))
    /\ \A u \in Up : WF_vars(UpRuns(u))
    /\ \A m \in Mgr : WF_vars(FakeRuns(m)) /\ WF_vars(MgrRuns(m)) /\ WF_vars(Connects(m))
    /\ WF_vars(SMRuns)
    /\ \A a \in Actor :
          WF_vars(\E m \in BagToSet(spawned) : m[1] = a /\ SenderRuns(m))

FairSpec == Spec /\ Fairness

-----------------------------------------------------------------------------
\* Type invariant: every part's variables and what is in the channels.
TypeOK ==
    /\ MailTypeOK
    /\ IDTypeOK
    /\ DownTypeOK
    /\ UpTypeOK
    /\ FakeTypeOK
    /\ MgrTypeOK
    /\ SMTypeOK

-----------------------------------------------------------------------------
(* Where the miners are.                                                   *)

Running(p) == IF p \in Up THEN UpLoop(p) ELSE p[2] \in fakeLoop

\* e, on its way to a, decides what becomes of d.
Carries(a, e, d) ==
    \/ e.type = "AddDownSession" /\ e.session = d
    \/ a = d /\ e.type \in {"SetUpSession", "PoolNotReady", "Exit"}

\* The sessions that serve d, the places of the events that will pass it on,
\* and the goroutines that still have to send such an event.
Holders(d) == {p \in PoolSession : Running(p) /\ d \in Served(p)}
Places(d) == UNION {{<<a, i>> : i \in {j \in DOMAIN chan[a] : Carries(a, chan[a][j], d)}}
                       : a \in Actor}
Senders(d) == UNION {{<<m, k>> : k \in 1 .. spawned[m]}
                       : m \in {n \in BagToSet(spawned) : Carries(n[1], n[2], d)}}

\* The number of hands a miner is in.  An event in the channel of a part that
\* has stopped is counted too: that hand will never open.
Hands(d) == Cardinality(Holders(d)) + Cardinality(Places(d)) + Cardinality(Senders(d))

\* A miner that is authorized is always in exactly one hand, however managers,
\* real and fake sessions pass it around, break and stop: no handler forgets a
\* miner, and none gives it to two sessions, which would make the pool count it
\* twice and send the miner the jobs of both.  (Ids must not be reused here.)
CustodyConserved == \A d \in Miner : RunLoop(d) => Hands(d) = 1

\* When ids are reused, a late DownSessionBroken of the last owner can drop a
\* miner; even then it is never in two hands.
NeverInTwoHands == \A d \in Miner : RunLoop(d) => Hands(d) <= 1

-----------------------------------------------------------------------------
(* What the managers know.                                                 *)

SessionsOf(m, s) == {u \in Up : UpLoop(u) /\ upMgr[u] = m /\ upSlot[u] = s}

\* The goroutines, events and sessions that will keep slot s going.
Keepers(m, s) ==
    connecting[m][s]
    + Cardinality(SessionsOf(m, s))
    + InFlight(m, EventUpSessionBroken(s))
    + InFlight(m, EventUpSessionInitFailed(s))

\* No slot ever has two pool sessions or two goroutines that will make one,
\* and none is left without, except for those that failed before the manager
\* was connected for the first time: upSessionBroken and upSessionInitFailed
\* start exactly one connect for every session or attempt that ended.
SlotsConserved ==
    /\ \A m \in Mgr, s \in Slot : Keepers(m, s) <= 1
    /\ \A m \in mgrLoop :
          Cardinality({s \in Slot : Keepers(m, s) = 1}) + initFailureCounter[m] = SlotNum

\* The miners that the manager counts for u and that u has not reported gone:
\* those it serves, those that are about to join it, those whose SetUpSession
\* waits (for ever, if the miner has closed), and those it still has to report.
Counted(u) ==
    Cardinality(DOMAIN downSessions[u])
    + disconnected[u]
    + Cardinality({d \in Miner : InFlight(u, EventAddDownSession(d)) > 0})
    + Cardinality({d \in Miner : InFlight(d, EventSetUpSession(u)) > 0})

\* The numbers in the UpdateMinerNum events that m has not handled.
CountersSent(m) ==
    LET events == Range(chan[m]) \cup {x[2] : x \in BagToSet(spawned)}
    IN  {e.counter : e \in {f \in events : f.type = "UpdateMinerNum"}}

\* What they add up to for slot s: a member for each miner that each reports.
Reported(m, s) ==
    Cardinality(UNION {{n} \X (1 .. InFlight(m, EventUpdateMinerNum(s, n))) \X (1 .. n)
                          : n \in CountersSent(m)})

\* minerNum decides which slot gets the next miner and, in MultiUserMode,
\* when the sub-account's pool sessions are given up.  As long as no pool
\* session breaks it is exact: no miner that joins or leaves in between is
\* counted twice or dropped.
MinersAccounted ==
    \A m \in mgrLoop, s \in Slot :
       /\ \A u \in SessionsOf(m, s) : minerNum[m][s] = Counted(u) + Reported(m, s)
       /\ SessionsOf(m, s) = {} => minerNum[m][s] = Reported(m, s)

\* SessionManager's map and the managers agree: a manager in the map handles
\* events and has not been told to exit, and a manager that is not in the map
\* has been told so exactly once, so that no sub-account is served by one that
\* is stopped or holds on to one that nobody can reach.
RegistryConsistent ==
    /\ \A a \in Account : upSessionManagers[a] # None =>
          LET m == upSessionManagers[a]
          IN  /\ mgrAccount[m] = a
              /\ smStat # "exited" => m \in mgrLoop /\ InFlight(m, EventExit) = 0
    /\ \A m \in mgrLoop :
          \/ upSessionManagers[mgrAccount[m]] = m
          \/ InFlight(m, EventExit) = 1

-----------------------------------------------------------------------------
(* The ids, seen from the miners' side.                                    *)

\* What a connection holds, in the terms of SessionIDLease.
HeldBy(d) ==
    IF Live(d) THEN sessionID[d]
    ELSE IF downStat[d] = "refused" THEN Refused ELSE NoID

\* The whole agent keeps the promise of SessionIDLease: two sessions that are
\* not closed never have the same id, and a miner is turned away only when
\* every id belongs to such a session.
Lease == INSTANCE SessionIDLease WITH
             Client <- Miner,
             Id <- SessionIds,
             lease <- [d \in Miner |-> HeldBy(d)]
LeaseSpec == Lease!LeaseSpec

\* No id is lost and none is granted behind the allocator's back: the bits that
\* are set are the ids of the sessions that are not closed.
BitsAreLive == sessionIDs = {sessionID[d] : d \in {c \in Miner : Live(c)}}

-----------------------------------------------------------------------------
(* Liveness.                                                               *)

ServedBy(P, d) == \E p \in P : Running(p) /\ d \in Served(p)

\* A miner that is authorized is served by some session or disconnected.  The
\* comment at UpSessionManager.go:111 gives the reason: a miner must not think
\* that the agent's connection is active when nothing comes through it.
ServedOrClosed == \A d \in Miner : RunLoop(d) ~> ServedBy(PoolSession, d) \/ ~RunLoop(d)

\* A miner that has left is closed, and no session goes on serving it.
LeaverIsForgotten ==
    \A d \in Miner : Queued(d, EventConnBroken) > 0
                        ~> ~Live(d) /\ ~ServedBy(PoolSession, d)

\* "When the BTCAgent reconnects to the mining pool, the fake job will be
\* replaced by the real job" (docs/ConfigFileDetails.md:42): a miner that is
\* with a fake session when a session was lost and another one is there does
\* not stay with the fake session.
FakeJobIsReplaced ==
    \A d \in Miner :
       (/\ ServedBy({Fake(m) : m \in Mgr}, d)
        /\ \E u, v \in Up : upStat[u] = "disconnected" /\ UpLoop(v))
       ~> ServedBy(Up, d) \/ ~RunLoop(d)
=============================================================================
