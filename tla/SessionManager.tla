--------------------------- MODULE SessionManager ---------------------------
(***************************************************************************)
(* The root of the agent (SessionManager.go): it accepts the miners and    *)
(* keeps one UpSessionManager for each sub-account that has miners.        *)
(*                                                                         *)
(* After Stop the process may end at any moment (Run returns to main), so  *)
(* what the other parts do then is only a may, never a must.               *)
(***************************************************************************)
EXTENDS UpSessionManager

CONSTANT MayStop    \* whether the operator may stop the agent

VARIABLES
    smStat,               \* starting, listening, stopping (the listener is
                          \* closed) or exited (the event loop has returned)
    upSessionManagers     \* the manager of each sub-account, or None

smVars == <<smStat, upSessionManagers>>

SMInit ==
    /\ smStat = "starting"
    /\ upSessionManagers = [a \in Account |-> None]

SMLoop == smStat # "exited"
SMReceives(t) == SMLoop /\ Receives(SM, t)

CreateUpSessionManager(m, a) ==
    /\ MgrStarts(m, a)
    /\ upSessionManagers' = [upSessionManagers EXCEPT ![a] = m]

\* What MgrStarts leaves alone.
StartsQuietly ==
    UNCHANGED <<slotVars, fakeMinerNum, initSuccess, initFailureCounter, upVars, mapVars>>

\* Run up to the accept loop.  A single user's manager is created at once.
SMStarts ==
    /\ smStat = "starting"
    /\ smStat' = "listening"
    /\ IF MultiUserMode
       THEN UNCHANGED <<upSessionManagers, mgrVars, upVars, mapVars, fakeLoop>>
       ELSE /\ \E m \in Mgr, a \in Account : CreateUpSessionManager(m, a)
            /\ StartsQuietly
    /\ UNCHANGED mailVars

\* The miner's sub-account gets its manager when it is the first one.
SMAddDownSession(account) ==
    /\ SMReceives("AddDownSession")
    /\ LET e == Head(chan[SM])
           a == account[e.session]
       IN  \/ /\ upSessionManagers[a] # None
              /\ Handles(SM, To(upSessionManagers[a], e), {})
              /\ UNCHANGED <<upSessionManagers, mgrVars, fakeLoop, upVars, mapVars>>
           \/ /\ upSessionManagers[a] = None
              /\ \E m \in Mgr :
                    /\ CreateUpSessionManager(m, a)
                    /\ Handles(SM, To(m, e), {})
              /\ StartsQuietly
    /\ UNCHANGED smStat

\* Mutant: the manager is told to exit but keeps its place.
Keeps(a) == UNCHANGED upSessionManagers

Forgets(a) == upSessionManagers' = [upSessionManagers EXCEPT ![a] = None]

\* Nothing happens when the sub-account has no manager (any more).  It is the
\* sub-account that is named, whichever manager asked.
SMStopUpSessionManager ==
    /\ SMReceives("StopUpSessionManager")
    /\ LET a == Head(chan[SM]).subAccount
       IN  \/ /\ upSessionManagers[a] # None
              /\ Forgets(a)
              /\ Handles(SM, To(upSessionManagers[a], EventExit), {})
           \/ /\ upSessionManagers[a] = None
              /\ Handles(SM, Nothing, {})
              /\ UNCHANGED upSessionManagers
    /\ UNCHANGED <<smStat, mgrVars, fakeLoop, upVars, mapVars>>

\* Stop, from the signal handler of main: the listener is closed and the
\* event loop is told.
SMStop ==
    /\ MayStop
    /\ smStat = "listening"
    /\ smStat' = "stopping"
    /\ Sends(To(SM, EventExit), {})
    /\ UNCHANGED <<upSessionManagers, mgrVars, fakeLoop, upVars, mapVars>>

SMExit ==
    /\ SMReceives("Exit")
    /\ smStat' = "exited"
    /\ LET children == {upSessionManagers[a] : a \in Account} \ {None}
       IN  Handles(SM, [m \in children |-> <<EventExit>>], {})
    /\ UNCHANGED <<upSessionManagers, mgrVars, fakeLoop, upVars, mapVars>>

\* The steps of the event loop; account gives the sub-account of a miner.
SMHandles(account) ==
    \/ SMAddDownSession(account)
    \/ SMStopUpSessionManager
    \/ SMExit

SMTypeOK ==
    /\ smStat \in {"starting", "listening", "stopping", "exited"}
    /\ upSessionManagers \in [Account -> Mgr \cup {None}]
=============================================================================
