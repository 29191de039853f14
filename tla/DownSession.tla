----------------------------- MODULE DownSession -----------------------------
(***************************************************************************)
(* The session of one miner connection (DownSessionBTC.go; the handlers of *)
(* DownSessionETH.go that are modelled here do the same), from the accept  *)
(* to close, as far as it decides which pool session serves the miner.     *)
(*                                                                         *)
(* The session ids come from SessionIDManager.  The requests a miner makes *)
(* before it is authorized are one step each: they are handled by the loop *)
(* of Init, and no other part knows the session yet.                       *)
(***************************************************************************)
EXTENDS Mailbox, SessionIDManager

CONSTANTS
    NoID,           \* a miner that has no id yet
    Refused,        \* a miner that was turned away for want of an id
    MayLoginAgain   \* whether miners may send eth_submitLogin once more

ASSUME NoIDAssumption ==
    /\ NoID \notin SessionIds
    /\ Refused \notin SessionIds
    /\ NoID # Refused

VARIABLES
    downStat,      \* down.stat; "none" before the accept
    sessionID,     \* down.sessionID; it keeps its value after close
    subAccount,    \* down.subAccountName
    upSession      \* down.upSession

DownStat == {"none", "refused", "connected", "authorized", "stranded", "disconnected"}

downVars == <<downStat, sessionID, subAccount, upSession>>

\* The session's loop runs: Init's before "authorized", Run's after.  A session
\* that is stranded has neither loop, but its connection is open.
InitLoop(d) == downStat[d] = "connected"
RunLoop(d) == downStat[d] = "authorized"
Stranded(d) == downStat[d] = "stranded"
Live(d) == InitLoop(d) \/ RunLoop(d) \/ Stranded(d)

DownInit ==
    /\ downStat = [d \in Miner |-> "none"]
    /\ sessionID = [d \in Miner |-> NoID]
    /\ subAccount = [d \in Miner |-> None]
    /\ upSession = [d \in Miner |-> None]

-----------------------------------------------------------------------------
(* RunDownSession and Init.                                                *)

\* A miner connects and gets its id.
RunDownSession(d) ==
    /\ downStat[d] = "none"
    /\ \E id \in SessionIds :
          /\ AllocSessionID(id)
          /\ sessionID' = [sessionID EXCEPT ![d] = id]
    /\ downStat' = [downStat EXCEPT ![d] = "connected"]
    /\ UNCHANGED <<subAccount, upSession, mailVars>>

\* There is no id left: the connection is closed at once.
RunDownSessionRefused(d) ==
    /\ downStat[d] = "none"
    /\ AllocSessionIDFull
    /\ downStat' = [downStat EXCEPT ![d] = "refused"]
    /\ UNCHANGED <<sessionID, subAccount, upSession, mailVars>>

\* mining.authorize succeeds: Init returns, RunDownSession starts Run and goes
\* on to its SendEvent to the SessionManager.
Authorize(d) ==
    /\ InitLoop(d)
    /\ \E a \in Account : subAccount' = [subAccount EXCEPT ![d] = a]
    /\ downStat' = [downStat EXCEPT ![d] = "authorized"]
    /\ Sends(Nothing, {<<SM, EventAddDownSession(d)>>})
    /\ UNCHANGED <<sessionID, upSession, idVars>>

-----------------------------------------------------------------------------
(* close and what leads to it.                                             *)

\* Mutant: the id is not released.
CloseLeaks(d) ==
    /\ downStat' = [downStat EXCEPT ![d] = "disconnected"]
    /\ UNCHANGED <<sessionID, subAccount, upSession, idVars>>

\* down.close(): the loop ends, the connection and the id are released.
Close(d) ==
    /\ downStat' = [downStat EXCEPT ![d] = "disconnected"]
    /\ FreeSessionID(sessionID[d])
    /\ UNCHANGED <<sessionID, subAccount, upSession>>

\* Mutant: the pool session is not told.
BrokenUntold(d) == {}

\* The first statement of close, when stat is not StatExit.
Broken(d) ==
    IF upSession[d] = None THEN {}
    ELSE {<<upSession[d], EventDownSessionBroken(sessionID[d])>>}

\* The miner goes away, or fails to authorize, before Init returns.
InitConnBroken(d) ==
    /\ InitLoop(d)
    /\ Close(d)
    /\ UNCHANGED mailVars

\* DownSessionETH only: eth_submitLogin is accepted in every state, and its
\* success ends whichever loop handles it, to let Init return.  This time it is
\* Run that returns.
LoginAgain(d) ==
    /\ MayLoginAgain
    /\ RunLoop(d)
    /\ \E a \in Account : subAccount' = [subAccount EXCEPT ![d] = a]
    /\ downStat' = [downStat EXCEPT ![d] = "stranded"]
    /\ UNCHANGED <<sessionID, upSession, idVars, mailVars>>

\* The reader of the connection fails: connBroken(), the reader's last act.
MinerLeaves(d) ==
    /\ RunLoop(d) \/ Stranded(d)
    /\ Queued(d, EventConnBroken) = 0
    /\ Sends(To(d, EventConnBroken), {})
    /\ UNCHANGED <<downVars, idVars>>

ConnBroken(d) ==
    /\ RunLoop(d)
    /\ Receives(d, "ConnBroken")
    /\ Close(d)
    /\ Handles(d, Nothing, Broken(d))

\* exit() and poolNotReady(): stat is StatExit when close looks at it, so the
\* pool session that serves the miner, if there is one, is not told.
Exit(d) ==
    /\ RunLoop(d)
    /\ Receives(d, "Exit") \/ Receives(d, "PoolNotReady")
    /\ Close(d)
    /\ Handles(d, Nothing, {})

-----------------------------------------------------------------------------
\* Mutant: the miner announces itself without waiting for the channel.
SetUpSessionTwice(d) ==
    /\ RunLoop(d)
    /\ Receives(d, "SetUpSession")
    /\ LET up == Head(chan[d]).session
       IN  /\ upSession' = [upSession EXCEPT ![d] = up]
           /\ Handles(d, To(up, EventAddDownSession(d)), {<<up, EventAddDownSession(d)>>})
    /\ UNCHANGED <<downStat, sessionID, subAccount, idVars>>

\* The miner hands itself to the pool session it was given.
SetUpSession(d) ==
    /\ RunLoop(d)
    /\ Receives(d, "SetUpSession")
    /\ LET up == Head(chan[d]).session
       IN  /\ upSession' = [upSession EXCEPT ![d] = up]
           /\ Handles(d, To(up, EventAddDownSession(d)), {})
    /\ UNCHANGED <<downStat, sessionID, subAccount, idVars>>

\* The steps of the session's own loop.
DownHandles(d) == ConnBroken(d) \/ Exit(d) \/ SetUpSession(d)

\* The miner's doing.
MinerStep(d) ==
    \/ RunDownSession(d)
    \/ RunDownSessionRefused(d)
    \/ Authorize(d)
    \/ InitConnBroken(d)
    \/ LoginAgain(d)
    \/ MinerLeaves(d)

DownTypeOK ==
    /\ downStat \in [Miner -> DownStat]
    /\ sessionID \in [Miner -> SessionIds \cup {NoID}]
    /\ subAccount \in [Miner -> Account \cup {None}]
    /\ upSession \in [Miner -> PoolSession \cup {None}]
=============================================================================
