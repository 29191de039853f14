----------------------------- MODULE Backpressure -----------------------------
(***************************************************************************)
(* The channels with their capacity: SendEvent blocks the loop that calls  *)
(* it until there is room, and a blocked loop reads nothing.  Which        *)
(* handlers call SendEvent and which go SendEvent decides whether the      *)
(* loops can come to wait for one another.                                 *)
(*                                                                         *)
(* One manager with its fake session (AlwaysKeepDownconn), in single-user  *)
(* mode and not stopped.  A handler is a sequence of sends, done one at a  *)
(* time.  Every pool session here is started once, with a slot of its own, *)
(* and stays authorized until it closes: its pool answers mining.subscribe *)
(* before mining.authorize.  Shares, their answers, what the pool says of  *)
(* difficulty and version mask later on and the numbers of miners are left *)
(* out: all of these travel with go SendEvent and take up room, as the     *)
(* jobs here do, and a share that the pool session cannot write ends it as *)
(* ConnBroken does.  A write to a socket takes no time, and may fail: for  *)
(* the miner's, which has no deadline, the first is an assumption.         *)
(***************************************************************************)
EXTENDS Custody, SequencesExt

CONSTANTS
    Cap,        \* the capacity of a channel (Config.go: 64 and 512)
    Greeting    \* how many messages a pool session has for a new miner

ASSUME CapAssumption == Cap \in Nat \ {0} /\ Greeting \in Nat /\ Mgr # {}
ASSUME BreakAssumption == Breakable \subseteq Up

VARIABLES
    todo,       \* the sends that are left of the handler that each loop is in
    reading,    \* the read loops that run: handleRequest and handleResponse
    ready,      \* the manager's ready slots, named by their sessions
    fakeJob     \* does the fake session have a job?

loopVars == <<todo, reading, ready, fakeJob>>
backVars == <<mailVars, custodyVars, loopVars>>

TheMgr == CHOOSE m \in Mgr : TRUE
TheFake == Fake(TheMgr)

\* In single-user mode nobody sends to SessionManager but new miners.
Loops == Actor \ {SM}

EventReady(u) == [type |-> "UpSessionReady", session |-> u]
EventBroken(u) == [type |-> "UpSessionBroken", session |-> u]
EventUpdateFakeJob == [type |-> "UpdateFakeJob"]
EventSendFakeNotify == [type |-> "SendFakeNotify"]
EventRecvJSONRPC == [type |-> "RecvJSONRPC"]
EventRecvExMessage(d) == [type |-> "RecvExMessage", session |-> d]
EventSendBytes == [type |-> "SendBytes"]

Events ==
    {EventUpdateFakeJob, EventSendFakeNotify, EventRecvJSONRPC, EventSendBytes,
     EventConnBroken, EventTransferDownSessions}
        \cup [type : {"UpSessionReady", "UpSessionBroken"}, session : Up]
        \cup [type : {"AddDownSession", "RecvExMessage"}, session : Miner]
        \cup [type : {"SetUpSession"}, session : PoolSession]
        \cup [type : {"DownSessionBroken"}, sessionID : Miner]

-----------------------------------------------------------------------------
(* Sending.                                                                *)

\* Mutant: one event more than the channel holds.
RoomForMore(a) == Len(chan[a]) <= Cap

Room(a) == Len(chan[a]) < Cap

\* x.SendEvent(e) and go x.SendEvent(e).
SendEvent(a, e) == [to |-> a, event |-> e, async |-> FALSE]
GoSendEvent(a, e) == [to |-> a, event |-> e, async |-> TRUE]

\* The same send for each of ds, in the order of the map.
ToEach(ds, Send(_)) == LET s == SetToSeq(ds) IN [i \in DOMAIN s |-> Send(s[i])]

\* a's loop is free and its next event is of type t.
Gets(a, t) == todo[a] = <<>> /\ Receives(a, t)

\* a's handler takes the event and has these sends to do.
Then(a, sends) ==
    /\ chan' = [chan EXCEPT ![a] = Tail(@)]
    /\ todo' = [todo EXCEPT ![a] = sends]
    /\ UNCHANGED spawned

\* The next send of the handler that a is in.
Continues(a) ==
    /\ todo[a] # <<>>
    /\ LET s == Head(todo[a])
       IN  \/ /\ s.async
              /\ Spawns({<<s.to, s.event>>})
              /\ UNCHANGED chan
           \/ /\ ~s.async /\ Room(s.to)
              /\ chan' = [chan EXCEPT ![s.to] = Append(@, s.event)]
              /\ UNCHANGED spawned
    /\ todo' = [todo EXCEPT ![a] = Tail(@)]
    /\ UNCHANGED <<custodyVars, reading, ready, fakeJob>>

\* A goroutine that has one send left to do.
SenderRuns(m) ==
    /\ Room(m[1])
    /\ Deliver(m)
    /\ UNCHANGED <<custodyVars, loopVars>>

-----------------------------------------------------------------------------
(* The manager.                                                            *)

MgrAddDownSession(m) ==
    /\ Gets(m, "AddDownSession")
    /\ \E p \in IF ready = {} THEN {Fake(m)} ELSE ready :
          Then(m, <<SendEvent(Head(chan[m]).session, EventSetUpSession(p))>>)
    /\ UNCHANGED ready

MgrUpSessionReady(m) ==
    /\ Gets(m, "UpSessionReady")
    /\ ready' = ready \cup {Head(chan[m]).session}
    /\ Then(m, <<SendEvent(Fake(m), EventTransferDownSessions)>>)

MgrUpSessionBroken(m) ==
    /\ Gets(m, "UpSessionBroken")
    /\ ready' = ready \ {Head(chan[m]).session}
    /\ Then(m, <<>>)

MgrUpdateFakeJob(m) ==
    /\ Gets(m, "UpdateFakeJob")
    /\ Then(m, <<SendEvent(Fake(m), EventUpdateFakeJob)>>)
    /\ UNCHANGED ready

MgrRuns(m) ==
    /\ \/ MgrAddDownSession(m)
       \/ MgrUpSessionReady(m)
       \/ MgrUpSessionBroken(m)
       \/ MgrUpdateFakeJob(m)
    /\ UNCHANGED <<custodyVars, reading, fakeJob>>

-----------------------------------------------------------------------------
(* The pool sessions, real and fake.                                       *)

\* The greetings: mask, difficulty and job of a pool session, the job of a
\* fake one.
Greets(p, d) ==
    IF p \in Up THEN [i \in 1 .. Greeting |-> SendEvent(d, EventSendBytes)]
    ELSE IF fakeJob THEN <<SendEvent(d, EventSendBytes)>> ELSE <<>>

UpAddDownSession(p) ==
    /\ Gets(p, "AddDownSession")
    /\ Joins(p, Head(chan[p]).session)
    /\ Then(p, Greets(p, Head(chan[p]).session))
    /\ UNCHANGED <<open, fakeJob>>

\* Mutant: the miners are given back from the session's own loop.
GivesBackInTurn(d) == SendEvent(TheMgr, EventAddDownSession(d))

GivesBack(d) == GoSendEvent(TheMgr, EventAddDownSession(d))

\* close of a session that has the miners ds.
Closes(u, ds) ==
    <<SendEvent(TheMgr, EventBroken(u)), SendEvent(TheMgr, EventUpdateFakeJob)>> \o ToEach(ds, GivesBack)

\* registerWorker fails and closes the session, which gives the new miner back
\* with the others; addDownSession goes on and greets it.
UpRegisterFails(u) ==
    /\ u \in Breakable
    /\ Gets(u, "AddDownSession")
    /\ LET d == Head(chan[u]).session
       IN  /\ Joins(u, d)
           /\ Then(u, Closes(u, downSessions[u] \cup {d}) \o Greets(u, d))
    /\ open' = open \ {u}
    /\ UNCHANGED fakeJob

UpDownSessionBroken(p) ==
    /\ Gets(p, "DownSessionBroken")
    /\ Leaves(p, Head(chan[p]).sessionID)
    /\ Then(p, <<>>)
    /\ UNCHANGED <<open, fakeJob>>

\* unregisterWorker fails.
UpUnregisterFails(u) ==
    /\ u \in Breakable
    /\ Gets(u, "DownSessionBroken")
    /\ LET id == Head(chan[u]).sessionID
       IN  Leaves(u, id) /\ Then(u, Closes(u, downSessions[u] \ {id}))
    /\ open' = open \ {u}
    /\ UNCHANGED fakeJob

\* handleMiningNotify and sendFakeNotify.
SendsJob(p) ==
    /\ IF p \in Up THEN Gets(p, "RecvJSONRPC") ELSE Gets(p, "SendFakeNotify")
    /\ Then(p, IF p \in Up \/ fakeJob THEN ToEach(downSessions[p], LAMBDA d : GoSendEvent(d, EventSendBytes)) ELSE <<>>)
    /\ UNCHANGED <<open, downSessions, fakeJob>>

\* handleExMessageSetExtraNonce: the nonce for one miner and, once there is one,
\* the job.
UpSetExtraNonce(u) ==
    /\ Gets(u, "RecvExMessage")
    /\ LET d == Head(chan[u]).session
       IN  \/ d \notin downSessions[u] /\ Then(u, <<>>)
           \/ /\ d \in downSessions[u]
              /\ \E n \in 1 .. 2 : Then(u, [i \in 1 .. n |-> SendEvent(d, EventSendBytes)])
    /\ UNCHANGED <<open, downSessions, fakeJob>>

UpConnBroken(u) ==
    /\ Gets(u, "ConnBroken")
    /\ open' = open \ {u}
    /\ Then(u, Closes(u, downSessions[u]))
    /\ UNCHANGED <<downSessions, fakeJob>>

TransfersDownSessions(p) ==
    /\ Gets(p, "TransferDownSessions")
    /\ downSessions' = [downSessions EXCEPT ![p] = {}]
    /\ Then(p, ToEach(downSessions[p], GivesBack))
    /\ UNCHANGED <<open, fakeJob>>

FakeUpdateJob(p) ==
    /\ Gets(p, "UpdateFakeJob")
    /\ fakeJob' = TRUE
    /\ Then(p, <<>>)
    /\ UNCHANGED <<open, downSessions>>

UpRuns(p) ==
    /\ p \in open
    /\ \/ UpAddDownSession(p)
       \/ UpRegisterFails(p)
       \/ UpDownSessionBroken(p)
       \/ UpUnregisterFails(p)
       \/ SendsJob(p)
       \/ UpSetExtraNonce(p)
       \/ UpConnBroken(p)
       \/ TransfersDownSessions(p)
       \/ FakeUpdateJob(p)
    /\ UNCHANGED <<running, upSession, reading, ready>>

-----------------------------------------------------------------------------
(* The miner's session.                                                    *)

DownSetUpSession(d) ==
    /\ Gets(d, "SetUpSession")
    /\ upSession' = [upSession EXCEPT ![d] = Head(chan[d]).session]
    /\ Then(d, <<SendEvent(Head(chan[d]).session, EventAddDownSession(d))>>)
    /\ UNCHANGED running

\* sendBytes writes to the miner.
Writes(d) ==
    /\ Gets(d, "SendBytes")
    /\ Then(d, <<>>)
    /\ UNCHANGED <<running, upSession>>

\* Mutant: close waits for the pool session to take the message.
SaysGoodbyeInTurn(p, d) == SendEvent(p, EventDownSessionBroken(d))

SaysGoodbye(p, d) == GoSendEvent(p, EventDownSessionBroken(d))

DownConnBroken(d) ==
    /\ Gets(d, "ConnBroken")
    /\ running' = running \ {d}
    /\ Then(d, IF upSession[d] = None THEN <<>> ELSE <<SaysGoodbye(upSession[d], d)>>)
    /\ UNCHANGED upSession

DownRuns(d) ==
    /\ d \in running
    /\ \/ DownSetUpSession(d)
       \/ Writes(d)
       \/ DownConnBroken(d)
    /\ UNCHANGED <<open, downSessions, reading, ready, fakeJob>>

-----------------------------------------------------------------------------
(* The read loops and the ticker wait for room, too, but nobody waits for  *)
(* them.  Bound: one event of theirs is under way at a time.               *)

Under(a, ts) ==
    \/ \E i \in DOMAIN chan[a] : chan[a][i].type \in ts
    \/ \E m \in BagToSet(spawned) : m[1] = a /\ m[2].type \in ts

Reads(a, e) ==
    /\ Room(a)
    /\ chan' = [chan EXCEPT ![a] = Append(@, e)]
    /\ UNCHANGED <<spawned, custodyVars, todo, ready, fakeJob>>

\* A line or a binary message of the pool.
PoolSends(u, e) ==
    /\ u \in reading \cap open
    /\ \A d \in downSessions[u] : ~Under(d, {"SendBytes"})
    /\ ~Under(u, {"RecvJSONRPC", "RecvExMessage"})
    /\ Reads(u, e)
    /\ UNCHANGED reading

PoolNotifies(u) == PoolSends(u, EventRecvJSONRPC)

\* For a miner that is registered; it may leave before the message is read.
PoolSetsExtraNonce(u) == \E d \in downSessions[u] : PoolSends(u, EventRecvExMessage(d))

\* connBroken of a miner, or of a pool session that may break.
Breaks(a) ==
    /\ a \in reading
    /\ a \in Miner \cup Breakable
    /\ Reads(a, EventConnBroken)
    /\ reading' = reading \ {a}

Ticks(p) ==
    /\ \A d \in downSessions[p] : ~Under(d, {"SendBytes"})
    /\ ~Under(p, {"SendFakeNotify"})
    /\ Reads(p, EventSendFakeNotify)
    /\ UNCHANGED reading

Environment ==
    \/ \E u \in Up : PoolNotifies(u) \/ PoolSetsExtraNonce(u)
    \/ \E a \in Miner \cup Up : Breaks(a)
    \/ Ticks(TheFake)

-----------------------------------------------------------------------------
\* The miners are on their way to the manager, and so are the sessions that
\* connect has started.
BackInit ==
    /\ running = Miner
    /\ upSession = [d \in Miner |-> None]
    /\ open = Up \cup {TheFake}
    /\ downSessions = [p \in PoolSession |-> {}]
    /\ chan = [a \in Actor |-> <<>>]
    /\ spawned = SetToBag({<<TheMgr, EventAddDownSession(d)>> : d \in Miner}
                             \cup {<<TheMgr, EventReady(u)>> : u \in Up})
    /\ todo = [a \in Actor |-> <<>>]
    /\ reading = Miner \cup Up
    /\ ready = {}
    /\ fakeJob = FALSE

BackNext ==
    \/ Environment
    \/ MgrRuns(TheMgr)
    \/ \E p \in PoolSession : UpRuns(p)
    \/ \E d \in Miner : DownRuns(d)
    \/ \E a \in Loops : Continues(a)
    \/ \E m \in BagToSet(spawned) : SenderRuns(m)

\* Every loop runs.  Go gives the room in a channel to the goroutine that has
\* waited for it longest, so a loop that is ready to send again and again does.
BackSpec ==
    /\ BackInit
    /\ [][BackNext]_backVars
    /\ WF_backVars(MgrRuns(TheMgr))
    /\ \A p \in PoolSession : WF_backVars(UpRuns(p))
    /\ \A d \in Miner : WF_backVars(DownRuns(d))
    /\ \A a \in Loops : SF_backVars(Continues(a))

-----------------------------------------------------------------------------
\* Type invariant.
BackTypeOK ==
    /\ CustodyTypeOK
    /\ \A a \in Actor :
          /\ Len(chan[a]) <= Cap
          /\ \A i \in DOMAIN chan[a] : chan[a][i] \in Events
          /\ todo[a] \in Seq([to : Actor, event : Events, async : BOOLEAN])
    /\ \A m \in BagToSet(spawned) : m[1] \in Actor /\ m[2] \in Events
    /\ reading \subseteq Miner \cup Up
    /\ ready \subseteq Up
    /\ fakeJob \in BOOLEAN

\* a's loop waits for b's to read.
WaitsFor(a, b) ==
    /\ todo[a] # <<>>
    /\ ~Head(todo[a]).async
    /\ Head(todo[a]).to = b
    /\ ~Room(b)

\* The loops never wait for one another in a circle.  What keeps them from it
\* is that goodbyes and miners that are given back are sent with go SendEvent,
\* and that a miner that waits for a pool session is in nobody else's hands, so
\* that only a session that has closed while it took the miner on can still have
\* a greeting for it; such a session has told the manager of its end before it
\* gave the miner back, and no miner is sent to it any more.
NoCircularWait ==
    \A S \in (SUBSET Loops) \ {{}} : \E a \in S : \A b \in S : ~WaitsFor(a, b)

Stopped(a) == a \in (Miner \ running) \cup (PoolSession \ open) /\ todo[a] = <<>>

\* A loop waits for one that has ended and left its channel full: for ever, and
\* every loop that waits for it, too.
SomeWaitsForStopped == \E a, b \in Loops : WaitsFor(a, b) /\ Stopped(b)

\* However full the channels are and whoever leaves or breaks, every handler
\* comes to its end, as long as no loop that has ended leaves a channel full to
\* the brim that somebody sends to.
HandlersEnd == \A a \in Loops : todo[a] # <<>> ~> todo[a] = <<>> \/ SomeWaitsForStopped
=============================================================================
