-------------------------- MODULE UpSessionManager --------------------------
(***************************************************************************)
(* The manager of one sub-account's pool sessions (UpSessionManager.go):   *)
(* it keeps the slots connected, gives every miner a pool session and asks *)
(* to be stopped when it has no use.  Logging (printMinerNum) is left out. *)
(*                                                                         *)
(* connect(slot) runs in a goroutine of its own.  It tries the pools of    *)
(* the configuration in turn, each with a new UpSession; here it succeeds  *)
(* with some session or fails with all pools, in one step.  Sleeping five  *)
(* seconds before a retry is part of its duration.                         *)
(***************************************************************************)
EXTENDS FakeUpSession

CONSTANTS
    MultiUserMode,    \* the option of the configuration
    PoolMayRefuse     \* whether connecting to every pool may fail

VARIABLES
    mgrLoop,             \* the managers that handle events
    mgrAccount,          \* manager.subAccount; None before the manager exists
    ready,               \* manager.upSessions[slot].ready
    slotSession,         \* manager.upSessions[slot].upSession
    minerNum,            \* manager.upSessions[slot].minerNum
    fakeMinerNum,        \* manager.fakeUpSession.minerNum
    initSuccess,         \* manager.initSuccess
    initFailureCounter,  \* manager.initFailureCounter
    connecting           \* the number of connect goroutines of each slot

slotVars == <<ready, slotSession, minerNum>>
connVars == <<initSuccess, initFailureCounter, connecting>>
mgrVars == <<mgrLoop, mgrAccount, slotVars, fakeMinerNum, connVars>>

MgrInit ==
    /\ mgrLoop = {}
    /\ mgrAccount = [m \in Mgr |-> None]
    /\ ready = [m \in Mgr |-> [s \in Slot |-> FALSE]]
    /\ slotSession = [m \in Mgr |-> [s \in Slot |-> None]]
    /\ minerNum = [m \in Mgr |-> [s \in Slot |-> 0]]
    /\ fakeMinerNum = [m \in Mgr |-> 0]
    /\ initSuccess = {}
    /\ initFailureCounter = [m \in Mgr |-> 0]
    /\ connecting = [m \in Mgr |-> [s \in Slot |-> 0]]

MgrReceives(m, t) == m \in mgrLoop /\ Receives(m, t)

\* NewUpSessionManager and Run up to its event loop.
MgrStarts(m, a) ==
    /\ mgrAccount[m] = None
    /\ mgrAccount' = [mgrAccount EXCEPT ![m] = a]
    /\ mgrLoop' = mgrLoop \cup {m}
    /\ fakeLoop' = fakeLoop \cup {m}
    /\ connecting' = [connecting EXCEPT ![m] = [s \in Slot |-> 1]]

-----------------------------------------------------------------------------
(* connect                                                                 *)

ConnectEnds(m, s) == connecting' = [connecting EXCEPT ![m][s] = @ - 1]
ConnectStarts(m, s) == connecting' = [connecting EXCEPT ![m][s] = @ + 1]

\* A pool authorizes the new session: its loop is started, the manager will
\* hear of it.
ConnectSucceeds(m, s, u) ==
    /\ connecting[m][s] > 0
    /\ upStat[u] = "none"
    /\ ConnectEnds(m, s)
    /\ upStat' = [upStat EXCEPT ![u] = "authorized"]
    /\ upMgr' = [upMgr EXCEPT ![u] = m]
    /\ upSlot' = [upSlot EXCEPT ![u] = s]
    /\ Sends(Nothing, {<<m, EventUpSessionReady(s, u)>>})
    /\ UNCHANGED <<mgrLoop, mgrAccount, slotVars, fakeMinerNum, initSuccess,
                   initFailureCounter, mapVars, fakeLoop>>

ConnectFails(m, s) ==
    /\ PoolMayRefuse
    /\ connecting[m][s] > 0
    /\ ConnectEnds(m, s)
    /\ Sends(Nothing, {<<m, EventUpSessionInitFailed(s)>>})
    /\ UNCHANGED <<mgrLoop, mgrAccount, slotVars, fakeMinerNum, initSuccess,
                   initFailureCounter, mapVars, upVars, fakeLoop>>

-----------------------------------------------------------------------------
(* Giving a miner a pool session.                                          *)

ReadySlots(m) == {s \in Slot : ready[m][s]}

Assigns(m, s) == minerNum' = [minerNum EXCEPT ![m][s] = @ + 1]

\* The first of the ready slots with the fewest miners.
Fewest(m, s) ==
    /\ s \in ReadySlots(m)
    /\ \A t \in ReadySlots(m) :
          \/ minerNum[m][s] < minerNum[m][t]
          \/ minerNum[m][s] = minerNum[m][t] /\ s <= t

MgrAddDownSession(m) ==
    /\ MgrReceives(m, "AddDownSession")
    /\ LET d == Head(chan[m]).session
       IN  \/ \E s \in Slot :
                 /\ Fewest(m, s)
                 /\ Assigns(m, s)
                 /\ Handles(m, To(d, EventSetUpSession(slotSession[m][s])), {})
                 /\ UNCHANGED fakeMinerNum
           \/ /\ ReadySlots(m) = {}
              /\ AlwaysKeepDownconn
              /\ fakeMinerNum' = [fakeMinerNum EXCEPT ![m] = @ + 1]
              /\ Handles(m, To(d, EventSetUpSession(Fake(m))), {})
              /\ UNCHANGED minerNum
           \/ /\ ReadySlots(m) = {}
              /\ ~AlwaysKeepDownconn
              /\ Handles(m, To(d, EventPoolNotReady), {})
              /\ UNCHANGED <<minerNum, fakeMinerNum>>
    /\ UNCHANGED <<mgrLoop, mgrAccount, ready, slotSession, connVars>>

-----------------------------------------------------------------------------
(* The slots.                                                              *)

\* The miners of the fake session are asked back.
MgrUpSessionReady(m) ==
    /\ MgrReceives(m, "UpSessionReady")
    /\ LET e == Head(chan[m])
       IN  /\ ready' = [ready EXCEPT ![m][e.slot] = TRUE]
           /\ slotSession' = [slotSession EXCEPT ![m][e.slot] = e.session]
    /\ initSuccess' = initSuccess \cup {m}
    /\ Handles(m, To(Fake(m), EventTransferDownSessions), {})
    /\ UNCHANGED <<mgrLoop, mgrAccount, minerNum, fakeMinerNum,
                   initFailureCounter, connecting>>

\* A manager that was connected before goes on trying.  One that never was
\* gives the slot up, and asks to be stopped when all slots are given up.
MgrUpSessionInitFailed(m) ==
    /\ MgrReceives(m, "UpSessionInitFailed")
    /\ \/ /\ m \in initSuccess
          /\ ConnectStarts(m, Head(chan[m]).slot)
          /\ Handles(m, Nothing, {})
          /\ UNCHANGED initFailureCounter
       \/ /\ m \notin initSuccess
          /\ initFailureCounter' = [initFailureCounter EXCEPT ![m] = @ + 1]
          /\ Handles(m, IF initFailureCounter[m] + 1 >= SlotNum
                        THEN To(SM, EventStopUpSessionManager(mgrAccount[m]))
                        ELSE Nothing, {})
          /\ UNCHANGED connecting
    /\ UNCHANGED <<mgrLoop, mgrAccount, slotVars, fakeMinerNum, initSuccess>>

\* Mutant: one goroutine too many.
ReconnectsTwice(m, s) == connecting' = [connecting EXCEPT ![m][s] = @ + 2]

Reconnects(m, s) == ConnectStarts(m, s)

MgrUpSessionBroken(m) ==
    /\ MgrReceives(m, "UpSessionBroken")
    /\ LET s == Head(chan[m]).slot
       IN  /\ ready' = [ready EXCEPT ![m][s] = FALSE]
           /\ minerNum' = [minerNum EXCEPT ![m][s] = 0]
           /\ Reconnects(m, s)
    /\ Handles(m, Nothing, {})
    /\ UNCHANGED <<mgrLoop, mgrAccount, slotSession, fakeMinerNum, initSuccess,
                   initFailureCounter>>

-----------------------------------------------------------------------------
(* The numbers of miners.                                                  *)

SlotSum(f) == LET Sum[n \in 0 .. SlotNum] == IF n = 0 THEN 0 ELSE Sum[n - 1] + f[n]
              IN  Sum[SlotNum]

\* The miners of the slots are added up; those of the fake session are not.
MgrUpdateMinerNum(m) ==
    /\ MgrReceives(m, "UpdateMinerNum")
    /\ LET e == Head(chan[m])
           left == [minerNum[m] EXCEPT ![e.slot] = @ - e.counter]
       IN  /\ minerNum' = [minerNum EXCEPT ![m] = left]
           /\ Handles(m, IF MultiUserMode /\ SlotSum(left) < 1
                         THEN To(SM, EventStopUpSessionManager(mgrAccount[m]))
                         ELSE Nothing, {})
    /\ UNCHANGED <<mgrLoop, mgrAccount, ready, slotSession, fakeMinerNum, connVars>>

MgrUpdateFakeMinerNum(m) ==
    /\ MgrReceives(m, "UpdateFakeMinerNum")
    /\ fakeMinerNum' = [fakeMinerNum EXCEPT ![m] = @ - Head(chan[m]).counter]
    /\ Handles(m, Nothing, {})
    /\ UNCHANGED <<mgrLoop, mgrAccount, slotVars, connVars>>

-----------------------------------------------------------------------------
\* The fake session and the pool sessions of the ready slots.
ExitReceivers(m) == {Fake(m)} \cup {slotSession[m][s] : s \in ReadySlots(m)}

MgrExit(m) ==
    /\ MgrReceives(m, "Exit")
    /\ mgrLoop' = mgrLoop \ {m}
    /\ Handles(m, [p \in ExitReceivers(m) |-> <<EventExit>>], {})
    /\ UNCHANGED <<mgrAccount, slotVars, fakeMinerNum, connVars>>

\* The steps of the manager's own loop.
MgrHandles(m) ==
    /\ \/ MgrAddDownSession(m)
       \/ MgrUpSessionReady(m)
       \/ MgrUpSessionInitFailed(m)
       \/ MgrUpSessionBroken(m)
       \/ MgrUpdateMinerNum(m)
       \/ MgrUpdateFakeMinerNum(m)
       \/ MgrExit(m)
    /\ UNCHANGED <<upVars, mapVars, fakeLoop>>

MgrTypeOK ==
    /\ mgrLoop \subseteq Mgr
    /\ mgrAccount \in [Mgr -> Account \cup {None}]
    /\ ready \in [Mgr -> [Slot -> BOOLEAN]]
    /\ slotSession \in [Mgr -> [Slot -> Up \cup {None}]]
    /\ minerNum \in [Mgr -> [Slot -> Int]]
    /\ fakeMinerNum \in [Mgr -> Int]
    /\ initSuccess \subseteq Mgr
    /\ initFailureCounter \in [Mgr -> Nat]
    /\ connecting \in [Mgr -> [Slot -> Nat]]
=============================================================================
