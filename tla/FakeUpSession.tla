---------------------------- MODULE FakeUpSession ----------------------------
(***************************************************************************)
(* The fake pool session of a manager (FakeUpSessionBTC.go and its twin    *)
(* FakeUpSessionETH.go): it keeps the miners while no pool session is      *)
(* ready.  The fake jobs it sends them are left out.                       *)
(***************************************************************************)
EXTENDS UpSession

VARIABLE fakeLoop    \* the managers whose fake session handles events

FakeInit == fakeLoop = {}

FakeReceives(m, t) == m \in fakeLoop /\ Receives(Fake(m), t)

FakeAddDownSession(m, sid) ==
    /\ FakeReceives(m, "AddDownSession")
    /\ LET d == Head(chan[Fake(m)]).session
       IN  downSessions' = [downSessions EXCEPT ![Fake(m)] = Put(@, sid[d], d)]
    /\ Handles(Fake(m), Nothing, {})
    /\ UNCHANGED <<fakeLoop, disconnected, upVars>>

FakeDownSessionBroken(m) ==
    /\ FakeReceives(m, "DownSessionBroken")
    /\ downSessions' = [downSessions EXCEPT ![Fake(m)] =
                           Delete(@, Head(chan[Fake(m)]).sessionID)]
    /\ Counts(Fake(m))
    /\ Handles(Fake(m), Nothing, Timer(Fake(m)))
    /\ UNCHANGED <<fakeLoop, upVars>>

FakeSendUpdateMinerNum(m) ==
    /\ FakeReceives(m, "SendUpdateMinerNum")
    /\ disconnected' = [disconnected EXCEPT ![Fake(m)] = 0]
    /\ Handles(Fake(m), Nothing,
               {<<m, EventUpdateFakeMinerNum(disconnected[Fake(m)])>>})
    /\ UNCHANGED <<fakeLoop, downSessions, upVars>>

\* Mutant: the miners that were given away stay in the map.
FakeMapKept(m) == UNCHANGED downSessions

FakeMapCleared(m) == downSessions' = [downSessions EXCEPT ![Fake(m)] = NoMiners]

\* Mutant: the map is emptied before it is read.
ReturnsNothing(m) == {}

Returns(m) == {<<m, EventAddDownSession(d)>> : d \in Served(Fake(m))}

\* Every miner goes back to the manager; the manager's number of fake miners
\* is told apart from that.
FakeTransferDownSessions(m) ==
    /\ FakeReceives(m, "TransferDownSessions")
    /\ FakeMapCleared(m)
    /\ Handles(Fake(m), Nothing,
               Returns(m) \cup
                   {<<m, EventUpdateFakeMinerNum(Cardinality(Served(Fake(m))))>>})
    /\ UNCHANGED <<fakeLoop, disconnected, upVars>>

FakeExit(m) ==
    /\ FakeReceives(m, "Exit")
    /\ fakeLoop' = fakeLoop \ {m}
    /\ Handles(Fake(m), Nothing, {<<d, EventExit>> : d \in Served(Fake(m))})
    /\ UNCHANGED <<mapVars, upVars>>

\* The steps of the fake session's own loop.
FakeHandles(m, sid) ==
    \/ FakeAddDownSession(m, sid)
    \/ FakeDownSessionBroken(m)
    \/ FakeSendUpdateMinerNum(m)
    \/ FakeTransferDownSessions(m)
    \/ FakeExit(m)

FakeTypeOK == fakeLoop \subseteq Mgr
=============================================================================
