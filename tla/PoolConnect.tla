----------------------------- MODULE PoolConnect -----------------------------
(***************************************************************************)
(* How a slot of an UpSessionManager gets a pool session: connect of       *)
(* UpSessionManager.go, and connect, tryConnect, testConnection and the    *)
(* handshake of UpSessionBTC.go and UpSessionETH.go, which differ only in  *)
(* mining.configure.                                                       *)
(*                                                                         *)
(* A session dials its pool through all proxies at once and takes the      *)
(* first connection on which the pool answers; the others turn up later.   *)
(* What a session leaves behind when it is given up (dials in progress,    *)
(* events in a channel of its own) concerns nobody any more and is not     *)
(* kept.                                                                   *)
(*                                                                         *)
(* A definition whose comment starts with "Mutant" is not part of the      *)
(* model: it is a plausible bug that a property has to notice.             *)
(***************************************************************************)
EXTENDS Integers, Sequences, SequencesExt

CONSTANTS
    Proxy,          \* the proxies that may be configured
    Direct,         \* the direct connection, in the race with the proxies
    DirectAfter,    \* the direct connection after the race
    PoolNum,        \* the number of pools in the configuration
    NoConn          \* Go's nil, for a connection

ASSUME ConnectAssumption ==
    /\ PoolNum \in Nat \ {0}
    /\ Direct # DirectAfter
    /\ {Direct, DirectAfter} \cap Proxy = {}
    /\ NoConn \notin Proxy \cup {Direct, DirectAfter}

VARIABLES
    options,    \* the configuration, and the proxies that hang
    pool,       \* the index of the pool that is tried
    phase,      \* where the goroutine of the slot is
    stage,      \* where the tryConnect of each route is
    conn,       \* the connection each tryConnect made
    upChan,     \* up.eventChannel
    up,         \* the session
    readLoop,   \* is handleResponse running?
    due,        \* the requests that the pool has not answered
    granted     \* history: what it had granted when it answered mining.authorize

tryVars == <<stage, conn>>
requestVars == <<due, granted>>
sessionVars == <<up, readLoop, requestVars>>
vars == <<options, pool, phase, tryVars, upChan, sessionVars>>

Route == Proxy \cup {Direct, DirectAfter}
Pool == 1 .. PoolNum

\* useProxy and the like have no field: Init empties Proxy when it is off.  A
\* SOCKS proxy that takes the connection and says nothing hangs: the dialer's
\* timeout is that of the connection to the proxy.
Options == {o \in [Proxy : SUBSET Proxy, hung : SUBSET Proxy,
                   DirectConnectWithProxy : BOOLEAN, DirectConnectAfterProxy : BOOLEAN] :
               o.hung \subseteq o.Proxy}

\* The routes that are dialled at once.
Racing == options.Proxy \cup (IF options.DirectConnectWithProxy THEN {Direct} ELSE {})

-----------------------------------------------------------------------------
(* Events and requests.                                                    *)

EventUpSessionConnection(r, ok) == [type |-> "UpSessionConnection", route |-> r, ok |-> ok]
EventRecvJSONRPCETH(id, ok) == [type |-> "RecvJSONRPC", id |-> id, ok |-> ok]
EventUpConnBroken == [type |-> "ConnBroken"]

\* The answers to mining.configure and to the second agent.get_capabilities are
\* ignored, and so left out.
Requests == {"caps", "sub", "auth"}

NextIs(t) == upChan # <<>> /\ Head(upChan).type = t

-----------------------------------------------------------------------------
(* A new session, and the end of one.                                      *)

NewUpSession == [stat |-> "disconnected", serverConn |-> NoConn, caps |-> FALSE, sessionID |-> FALSE]

\* The routes with which connect begins.
FirstRoutes == IF Racing = {} THEN {DirectAfter} ELSE Racing

Starting == [r \in Route |-> IF r \in FirstRoutes THEN "dialling" ELSE "idle"]

Init ==
    /\ options \in Options
    /\ pool = 1
    /\ phase = IF Racing = {} THEN "direct" ELSE "connect"
    /\ stage = Starting
    /\ conn = [r \in Route |-> "none"]
    /\ upChan = <<>>
    /\ up = NewUpSession
    /\ readLoop = FALSE
    /\ due = {}
    /\ granted = {}

TriesNextPool ==
    /\ pool' = pool + 1
    /\ phase' = IF Racing = {} THEN "direct" ELSE "connect"
    /\ stage' = Starting
    /\ conn' = [r \in Route |-> "none"]
    /\ upChan' = <<>>
    /\ up' = NewUpSession
    /\ readLoop' = FALSE
    /\ due' = {}
    /\ granted' = {}

\* Mutant: the last pool is never tried.
LastPoolEarly == pool + 1 >= PoolNum

\* Mutant: one pool more than there are.
LastPoolPast == pool > PoolNum

LastPool == pool = PoolNum

\* Init of up returns without success, leaving these connections and events.
GivesUp(conns, events) ==
    \/ ~LastPool /\ TriesNextPool
    \/ /\ LastPool
       /\ phase' = "failed"
       /\ conn' = conns
       /\ upChan' = events
       /\ up' = [up EXCEPT !.stat = "disconnected"]
       /\ UNCHANGED <<pool, stage, readLoop, requestVars>>

Closed(r) == [conn EXCEPT ![r] = "closed"]

\* close in the handshake ends Init, and later the session: the manager hears of
\* it, with EventUpSessionBroken, if the session is still "authorized".
UpClose ==
    IF phase = "ready"
    THEN /\ phase' = IF up.stat = "authorized" THEN "closed" ELSE "lost"
         /\ conn' = Closed(up.serverConn)
         /\ upChan' = Tail(upChan)
         /\ up' = [up EXCEPT !.stat = "disconnected"]
         /\ UNCHANGED <<pool, stage, readLoop, requestVars>>
    ELSE GivesUp(Closed(up.serverConn), Tail(upChan))

-----------------------------------------------------------------------------
(* tryConnect and testConnection, a goroutine for each route.              *)

TryEnds(r, ok, c) ==
    /\ stage' = [stage EXCEPT ![r] = "sent"]
    /\ conn' = [conn EXCEPT ![r] = c]
    /\ upChan' = Append(upChan, EventUpSessionConnection(r, ok))
    /\ UNCHANGED <<options, pool, phase, sessionVars>>

\* No dialer for this proxy URL, or Dial fails or times out.
DialFails(r) == stage[r] = "dialling" /\ r \notin options.hung /\ TryEnds(r, FALSE, "none")

DialSucceeds(r) ==
    /\ stage[r] = "dialling"
    /\ r \notin options.hung
    /\ stage' = [stage EXCEPT ![r] = "testing"]
    /\ conn' = [conn EXCEPT ![r] = "open"]
    /\ UNCHANGED <<options, pool, phase, upChan, sessionVars>>

\* The pool answers conn_test, or writing or reading fails, or the time is up.
TestSucceeds(r) == stage[r] = "testing" /\ TryEnds(r, TRUE, "open")
TestFails(r) == stage[r] = "testing" /\ TryEnds(r, FALSE, "open")
TestTimesOut(r) == stage[r] = "testing" /\ TryEnds(r, FALSE, "closed")

TryConnect(r) ==
    \/ DialFails(r)
    \/ DialSucceeds(r)
    \/ TestSucceeds(r)
    \/ TestFails(r)
    \/ TestTimesOut(r)

-----------------------------------------------------------------------------
(* connect: the first connection, or every failure.                        *)

Heard(r) == [stage EXCEPT ![r] = "heard"]

\* upSessionConnection with a connection; Init goes on to the handshake.
TakesConnection ==
    /\ phase \in {"connect", "direct"}
    /\ NextIs("UpSessionConnection")
    /\ Head(upChan).ok
    /\ stage' = Heard(Head(upChan).route)
    /\ up' = [up EXCEPT !.serverConn = Head(upChan).route, !.stat = "connected"]
    /\ phase' = "request"
    /\ readLoop' = TRUE
    /\ upChan' = Tail(upChan)
    /\ UNCHANGED <<options, pool, conn, requestVars>>

\* Mutant: a connection on which the pool did not answer is left open.
AfterErrorKept(r) == conn

\* upSessionConnection with an error: e.Conn may be there all the same.
AfterError(r) == IF conn[r] = "none" THEN conn ELSE Closed(r)

\* Mutant: the loop over the results ends one event early.
RaceIsLostEarly(r) == \E s \in Racing : \A q \in Racing \ {r, s} : stage[q] = "heard"

\* The failure of r is the last of the race.
RaceIsLost(r) == \A q \in Racing \ {r} : stage[q] = "heard"

HearsFailure ==
    /\ phase \in {"connect", "direct"}
    /\ NextIs("UpSessionConnection")
    /\ ~Head(upChan).ok
    /\ LET r == Head(upChan).route
       IN  \/ /\ phase = "connect" /\ ~RaceIsLost(r)
              /\ stage' = Heard(r)
              /\ conn' = AfterError(r)
              /\ upChan' = Tail(upChan)
              /\ UNCHANGED <<pool, phase, sessionVars>>
           \/ /\ phase = "connect" /\ RaceIsLost(r) /\ options.DirectConnectAfterProxy
              /\ phase' = "direct"
              /\ stage' = [Heard(r) EXCEPT ![DirectAfter] = "dialling"]
              /\ conn' = AfterError(r)
              /\ upChan' = Tail(upChan)
              /\ UNCHANGED <<pool, sessionVars>>
           \/ /\ phase = "direct" \/ (RaceIsLost(r) /\ ~options.DirectConnectAfterProxy)
              /\ GivesUp(AfterError(r), Tail(upChan))
    /\ UNCHANGED options

-----------------------------------------------------------------------------
(* The handshake.                                                          *)

SendInitRequest ==
    /\ phase = "request"
    /\ phase' = "handshake"
    /\ due' = Requests
    /\ UNCHANGED <<options, pool, tryVars, upChan, up, readLoop, granted>>

\* One of the writes of sendInitRequest fails.
SendInitRequestFails ==
    /\ phase = "request"
    /\ GivesUp(Closed(up.serverConn), upChan)
    /\ UNCHANGED options

\* The pool answers each request once, in any order, with what was asked for or
\* with an error or something else.  Its other lines are left out: they renew the
\* read deadline, and their handlers change nothing that is kept here.
PoolAnswers ==
    /\ readLoop
    /\ \E q \in due, ok \in BOOLEAN :
          /\ upChan' = Append(upChan, EventRecvJSONRPCETH(q, ok))
          /\ due' = due \ {q}
          /\ granted' = IF ok /\ "auth" \in due' THEN granted \cup {q} ELSE granted
    /\ UNCHANGED <<options, pool, phase, tryVars, up, readLoop>>

\* Mutant: handleResponse ends without telling the event loop.
ReaderBreaksSilently ==
    /\ readLoop
    /\ readLoop' = FALSE
    /\ UNCHANGED <<options, pool, phase, tryVars, upChan, up, requestVars>>

\* Reading fails, or the read deadline passes: connBroken.
ReaderBreaks ==
    /\ readLoop
    /\ readLoop' = FALSE
    /\ upChan' = Append(upChan, EventUpConnBroken)
    /\ UNCHANGED <<options, pool, phase, tryVars, up, requestVars>>

HandleResponse == PoolAnswers \/ ReaderBreaks

-----------------------------------------------------------------------------
(* handleEvent, called by Init and then by Run.                            *)

Looping == phase \in {"handshake", "ready"}

\* Mutant: the result of mining.subscribe is not examined.
SubIsGoodUnchecked(e) == TRUE

SubIsGood(e) == e.ok

\* It makes the session "subscribed", even one that is authorized.
HandleSubScribeResponse ==
    /\ Looping
    /\ NextIs("RecvJSONRPC") /\ Head(upChan).id = "sub"
    /\ \/ /\ SubIsGood(Head(upChan))
          /\ up' = [up EXCEPT !.sessionID = Head(upChan).ok, !.stat = "subscribed"]
          /\ upChan' = Tail(upChan)
          /\ UNCHANGED <<pool, phase, tryVars, readLoop, requestVars>>
       \/ ~SubIsGood(Head(upChan)) /\ UpClose
    /\ UNCHANGED options

\* Init returns, and connect starts Run and sends EventUpSessionReady.
HandleAuthorizeResponse ==
    /\ Looping
    /\ NextIs("RecvJSONRPC") /\ Head(upChan).id = "auth"
    /\ \/ /\ Head(upChan).ok
          /\ up' = [up EXCEPT !.stat = "authorized"]
          /\ phase' = "ready"
          /\ upChan' = Tail(upChan)
          /\ UNCHANGED <<pool, tryVars, readLoop, requestVars>>
       \/ ~Head(upChan).ok /\ UpClose
    /\ UNCHANGED options

\* An answer without a list of capabilities is only logged.
HandleGetCapsResponse ==
    /\ Looping
    /\ NextIs("RecvJSONRPC") /\ Head(upChan).id = "caps"
    /\ up' = [up EXCEPT !.caps = Head(upChan).ok]
    /\ upChan' = Tail(upChan)
    /\ UNCHANGED <<options, pool, phase, tryVars, readLoop, requestVars>>

\* Mutant: a connection that is not needed any more is only logged.
OutdatedKept(r) == conn

Outdated(r) == IF conn[r] = "none" THEN conn ELSE Closed(r)

\* A connection that lost the race.
OutdatedUpSessionConnection ==
    /\ Looping
    /\ NextIs("UpSessionConnection")
    /\ conn' = Outdated(Head(upChan).route)
    /\ stage' = Heard(Head(upChan).route)
    /\ upChan' = Tail(upChan)
    /\ UNCHANGED <<options, pool, phase, sessionVars>>

ConnBroken ==
    /\ Looping
    /\ NextIs("ConnBroken")
    /\ UpClose
    /\ UNCHANGED options

HandleEvent ==
    \/ HandleSubScribeResponse
    \/ HandleAuthorizeResponse
    \/ HandleGetCapsResponse
    \/ OutdatedUpSessionConnection
    \/ ConnBroken

SlotRuns ==
    \/ TakesConnection
    \/ HearsFailure
    \/ SendInitRequest
    \/ SendInitRequestFails
    \/ HandleEvent

-----------------------------------------------------------------------------
Next ==
    \/ \E r \in Route : TryConnect(r)
    \/ SlotRuns
    \/ HandleResponse

Spec == Init /\ [][Next]_vars

\* The goroutine of the slot runs; dials and tests end by their timeouts, except
\* through a proxy that hangs; until the pool has authorized the session, the
\* read deadline is short and nothing renews it but a line from the pool.
Fairness ==
    /\ \A r \in Route : WF_vars(TryConnect(r))
    /\ WF_vars(SlotRuns)
    /\ WF_vars(phase \in {"request", "handshake"} /\ HandleResponse)

FairSpec == Spec /\ Fairness

-----------------------------------------------------------------------------
\* Type invariant.
ConnectTypeOK ==
    /\ options \in Options
    /\ pool \in Pool
    /\ phase \in {"connect", "direct", "request", "handshake", "ready", "closed", "lost", "failed"}
    /\ stage \in [Route -> {"idle", "dialling", "testing", "sent", "heard"}]
    /\ conn \in [Route -> {"none", "open", "closed"}]
    /\ \A i \in DOMAIN upChan :
          upChan[i] \in [type : {"UpSessionConnection"}, route : Route, ok : BOOLEAN]
                        \cup [type : {"RecvJSONRPC"}, id : Requests, ok : BOOLEAN]
                        \cup {EventUpConnBroken}
    /\ up \in [stat : {"disconnected", "connected", "subscribed", "authorized"},
               serverConn : Route \cup {NoConn}, caps : BOOLEAN, sessionID : BOOLEAN]
    /\ readLoop \in BOOLEAN
    /\ due \subseteq Requests
    /\ granted \subseteq Requests \ {"auth"}

-----------------------------------------------------------------------------
InChannel(r) == \E i \in DOMAIN upChan :
                   upChan[i].type = "UpSessionConnection" /\ upChan[i].route = r

\* A connection is never open without an owner: the goroutine that tests it,
\* the event that brings it, or a session that will close it; and a session
\* that lives has the one it took.
ConnOwned ==
    /\ \A r \in Route :
          conn[r] = "open" =>
             \/ stage[r] = "testing"
             \/ InChannel(r)
             \/ up.serverConn = r /\ up.stat # "disconnected"
    /\ up.stat # "disconnected" => conn[up.serverConn] = "open"

\* r was tried and gave no connection to use.
IsLost(r) == stage[r] = "heard" /\ conn[r] # "open"

\* "If BTCAgent cannot connect to the mining pool through any proxy, it will try
\* to connect to the mining pool directly" (docs/ConfigFileDetails.md:53): the
\* direct connection is a last resort, tried only when the whole race is lost.
DirectIsLastResort == stage[DirectAfter] # "idle" => \A r \in Racing : IsLost(r)

\* The routes that end an attempt when all of them fail.
AllRoutes ==
    Racing \cup IF Racing = {} \/ options.DirectConnectAfterProxy THEN {DirectAfter} ELSE {}

\* Whatever is configured, the direct connection waits for the race to be lost,
\* and a pool is given up without a handshake only when all routes have failed;
\* the event in hand is the last of them.
RoutesInOrder ==
    /\ DirectIsLastResort
    /\ [][/\ DirectIsLastResort'
          /\ (pool' # pool \/ phase' = "failed") /\ up.serverConn = NoConn =>
                \A r \in AllRoutes :
                   IsLost(r) \/ (upChan # <<>> /\ Head(upChan) = EventUpSessionConnection(r, FALSE))]_vars

\* The answer to q is still to come, or to be handled.
Awaits(q) ==
    \/ q \in due
    \/ \E i \in DOMAIN upChan : upChan[i].type = "RecvJSONRPC" /\ upChan[i].id = q

\* handleAuthorizeResponse makes the session ready and looks at no other answer.
\* Even so, a session that is given to miners is connected and has not been
\* refused its session id; it knows what the pool granted before it authorized
\* the session, whatever else the channel held; and when the session id was part
\* of that, the session does not end without the manager's being told.
ReadyIsComplete ==
    /\ phase = "ready" =>
          /\ conn[up.serverConn] = "open"
          /\ up.sessionID \/ Awaits("sub")
          /\ "caps" \in granted => up.caps
          /\ "sub" \in granted => up.sessionID /\ up.stat = "authorized"
    /\ phase = "lost" => "sub" \notin granted

Attempt == INSTANCE SlotAttempt WITH
              outcome <- IF phase \in {"ready", "closed", "lost"} THEN "UpSessionReady"
                         ELSE IF phase = "failed" THEN "UpSessionInitFailed"
                         ELSE "none"

\* The pools are tried in their order, and the manager hears exactly once.
PoolsInOrder == Attempt!AttemptSpec

\* Unless a proxy hangs, the manager does hear: no answer that fails to come,
\* and no order in which connections fail, keeps a slot waiting for ever.
AttemptEnds == options.hung = {} ~> phase \in {"ready", "closed", "lost", "failed"}

\* The connections that lose the race are closed as long as the session lives;
\* the event loop of Run goes on where that of Init stopped.
LosersAreClosed ==
    \A r \in Route :
       conn[r] = "open" /\ up.serverConn \notin {NoConn, r}
          ~> conn[r] # "open" \/ phase \in {"closed", "lost", "failed"}
=============================================================================
