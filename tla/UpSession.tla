------------------------------ MODULE UpSession ------------------------------
(***************************************************************************)
(* The life of one session with the pool (UpSessionBTC.go and its twin     *)
(* UpSessionETH.go) and the miners it serves.  A session of this model has *)
(* been authorized by the pool: the attempt that leads there is the connect *)
(* goroutine of UpSessionManager.                                          *)
(*                                                                         *)
(* What goes through the session (jobs, difficulties, shares) is left out. *)
(* A write to the pool may fail when the pool may break the connection.    *)
(***************************************************************************)
EXTENDS Mailbox

CONSTANTS
    AlwaysKeepDownconn,    \* the option of the configuration
    Breakable              \* the sessions whose connection the pool may break

VARIABLES
    upStat,          \* up.stat; "none" before the session exists
    upMgr,           \* up.manager
    upSlot,          \* up.slot
    downSessions,    \* up.downSessions of real and fake sessions: id -> miner
    disconnected     \* up.disconnectedMinerCounter of real and fake sessions

\* downSessions and disconnected are shared with FakeUpSession, whose fields
\* have the same names and meaning.
upVars == <<upStat, upMgr, upSlot>>
mapVars == <<downSessions, disconnected>>

NoMiners == <<>>

\* up.eventLoopRunning: Run's loop.
UpLoop(u) == upStat[u] = "authorized"

UpInit ==
    /\ upStat = [u \in Up |-> "none"]
    /\ upMgr = [u \in Up |-> None]
    /\ upSlot = [u \in Up |-> 0]

MapInit ==
    /\ downSessions = [p \in PoolSession |-> NoMiners]
    /\ disconnected = [p \in PoolSession |-> 0]

-----------------------------------------------------------------------------
(* The map of miners, as real and fake sessions use it.                    *)

Served(p) == {downSessions[p][id] : id \in DOMAIN downSessions[p]}

\* downSessions[id] = d: what id stood for before is replaced.
Put(f, id, d) == [i \in DOMAIN f \cup {id} |-> IF i = id THEN d ELSE f[i]]

\* delete(downSessions, id)
Delete(f, id) == [i \in DOMAIN f \ {id} |-> f[i]]

\* downSessionBroken counts the miner; the first one starts the timer of one
\* second that ends in sendUpdateMinerNum.
Counts(p) == disconnected' = [disconnected EXCEPT ![p] = @ + 1]
Timer(p) == IF disconnected[p] = 0 THEN {<<p, EventSendUpdateMinerNum>>} ELSE {}

-----------------------------------------------------------------------------
(* close and what leads to it.                                             *)

\* The sends of close for the miners of ds: back to the manager for another
\* pool session, or out.
UpClosePending(u, ds) ==
    IF AlwaysKeepDownconn
    THEN {<<upMgr[u], EventAddDownSession(d)>> : d \in ds}
    ELSE {<<d, EventExit>> : d \in ds}

\* UpSessionBroken is sent at once, and only by a session that is Authorized.
UpCloseSends(u) == To(upMgr[u], EventUpSessionBroken(upSlot[u]))

UpCloses(u) ==
    /\ upStat' = [upStat EXCEPT ![u] = "disconnected"]
    /\ UNCHANGED <<upMgr, upSlot>>

\* The reader fails, or times out: connBroken(), the reader's last act.
PoolBreaks(u) ==
    /\ u \in Breakable
    /\ UpLoop(u)
    /\ Queued(u, EventConnBroken) = 0
    /\ Sends(To(u, EventConnBroken), {})
    /\ UNCHANGED <<upVars, mapVars>>

UpConnBroken(u) ==
    /\ UpLoop(u)
    /\ Receives(u, "ConnBroken")
    /\ UpCloses(u)
    /\ Handles(u, UpCloseSends(u), UpClosePending(u, Served(u)))
    /\ UNCHANGED mapVars

\* stat is StatExit when close looks at it: the manager is not told.
UpExit(u) ==
    /\ UpLoop(u)
    /\ Receives(u, "Exit")
    /\ UpCloses(u)
    /\ Handles(u, Nothing, UpClosePending(u, Served(u)))
    /\ UNCHANGED mapVars

-----------------------------------------------------------------------------
(* The handlers of the miners' events.  sid gives the session id of a miner *)
(* (DownSession is not part of this module).                               *)

\* addDownSession.  The miner is in the map when registerWorker fails and
\* closes the session, so it shares the fate of the others.
UpAddDownSession(u, sid) ==
    /\ UpLoop(u)
    /\ Receives(u, "AddDownSession")
    /\ LET d == Head(chan[u]).session
           f == Put(downSessions[u], sid[d], d)
       IN  /\ downSessions' = [downSessions EXCEPT ![u] = f]
           /\ \/ /\ Handles(u, Nothing, {})
                 /\ UNCHANGED upVars
              \/ /\ u \in Breakable
                 /\ UpCloses(u)
                 /\ Handles(u, UpCloseSends(u),
                            UpClosePending(u, {f[i] : i \in DOMAIN f}))
    /\ UNCHANGED disconnected

\* downSessionBroken.  unregisterWorker may fail and close the session; the
\* miner is counted all the same.
UpDownSessionBroken(u) ==
    /\ UpLoop(u)
    /\ Receives(u, "DownSessionBroken")
    /\ LET f == Delete(downSessions[u], Head(chan[u]).sessionID)
       IN  /\ downSessions' = [downSessions EXCEPT ![u] = f]
           /\ \/ /\ Handles(u, Nothing, Timer(u))
                 /\ UNCHANGED upVars
              \/ /\ u \in Breakable
                 /\ UpCloses(u)
                 /\ Handles(u, UpCloseSends(u),
                            Timer(u) \cup UpClosePending(u, {f[i] : i \in DOMAIN f}))
    /\ Counts(u)

\* Mutant: the counter is not reset once it is reported.
UpReportsNoReset(u) == UNCHANGED disconnected

UpReports(u) == disconnected' = [disconnected EXCEPT ![u] = 0]

UpSendUpdateMinerNum(u) ==
    /\ UpLoop(u)
    /\ Receives(u, "SendUpdateMinerNum")
    /\ UpReports(u)
    /\ Handles(u, Nothing, {<<upMgr[u], EventUpdateMinerNum(upSlot[u], disconnected[u])>>})
    /\ UNCHANGED <<upVars, downSessions>>

\* The steps of the session's own loop.
UpHandles(u, sid) ==
    \/ UpConnBroken(u)
    \/ UpExit(u)
    \/ UpAddDownSession(u, sid)
    \/ UpDownSessionBroken(u)
    \/ UpSendUpdateMinerNum(u)

UpTypeOK ==
    /\ upStat \in [Up -> {"none", "authorized", "disconnected"}]
    /\ upMgr \in [Up -> Mgr \cup {None}]
    /\ upSlot \in [Up -> Slot \cup {0}]
    /\ DOMAIN downSessions = PoolSession
    /\ \A p \in PoolSession : DOMAIN downSessions[p] \subseteq Nat /\ Served(p) \subseteq Miner
    /\ disconnected \in [PoolSession -> Nat]
=============================================================================
