------------------------------- MODULE Mailbox -------------------------------
(***************************************************************************)
(* How the parts of the agent talk (src/Event.go, the SendEvent methods).  *)
(*                                                                         *)
(* Every part is a goroutine that reads events from its own channel in a   *)
(* loop.  x.SendEvent(e) appends e to x's channel; go x.SendEvent(e) only  *)
(* starts a goroutine that will, so two such events overtake each other    *)
(* freely.  A timer that sends an event, and a goroutine that has just one *)
(* SendEvent left to do, are such goroutines too.                          *)
(*                                                                         *)
(* The channels are unbounded here.  In the program they hold 64 events or *)
(* more (Config.go), far above the number of events in flight here.        *)
(***************************************************************************)
EXTENDS Integers, Sequences, FiniteSets, Bags, TLC

CONSTANTS
    Miner,      \* the DownSession objects, one for each miner connection
    Up,         \* the UpSession objects, one for each pool session
    Mgr,        \* the UpSessionManager objects
    Account,    \* the sub-accounts; one of them when MultiUserMode is off
    SlotNum,    \* the number of pool connections of a sub-account
    SM,         \* the SessionManager
    None        \* Go's nil

ASSUME SlotAssumption == SlotNum \in Nat \ {0}

VARIABLES
    chan,       \* the eventChannel of every part
    spawned     \* the goroutines that still have to send: a bag of <<to, event>>

mailVars == <<chan, spawned>>

\* The indices of manager.upSessions (from 0 in Go).
Slot == 1 .. SlotNum

\* Each manager owns one fake pool session for as long as it lives.
Fake(m) == <<"fake", m>>
PoolSession == Up \cup {Fake(m) : m \in Mgr}
Actor == {SM} \cup Miner \cup Mgr \cup PoolSession

\* The parts are different objects, and none of them is nil.
ASSUME ActorAssumption ==
    /\ SM \notin Miner \cup Mgr \cup Up
    /\ Miner \cap Mgr = {} /\ Miner \cap Up = {} /\ Mgr \cap Up = {}
    /\ \A m \in Mgr : Fake(m) \notin {SM} \cup Miner \cup Mgr \cup Up
    /\ None \notin Actor \cup Account
-----------------------------------------------------------------------------
(* src/Event.go: the events that move miners, sessions and managers.       *)

EventExit == [type |-> "Exit"]
EventPoolNotReady == [type |-> "PoolNotReady"]
EventConnBroken == [type |-> "ConnBroken"]
EventTransferDownSessions == [type |-> "TransferDownSessions"]
EventSendUpdateMinerNum == [type |-> "SendUpdateMinerNum"]
EventUpSessionReady(s, u) == [type |-> "UpSessionReady", slot |-> s, session |-> u]
EventUpSessionInitFailed(s) == [type |-> "UpSessionInitFailed", slot |-> s]
EventUpSessionBroken(s) == [type |-> "UpSessionBroken", slot |-> s]
EventSetUpSession(p) == [type |-> "SetUpSession", session |-> p]
EventAddDownSession(d) == [type |-> "AddDownSession", session |-> d]
EventDownSessionBroken(id) == [type |-> "DownSessionBroken", sessionID |-> id]
EventUpdateMinerNum(s, n) == [type |-> "UpdateMinerNum", slot |-> s, counter |-> n]
EventUpdateFakeMinerNum(n) == [type |-> "UpdateFakeMinerNum", counter |-> n]
EventStopUpSessionManager(a) == [type |-> "StopUpSessionManager", subAccount |-> a]

Event ==
    {EventExit, EventPoolNotReady, EventConnBroken, EventTransferDownSessions,
     EventSendUpdateMinerNum}
        \cup [type : {"UpSessionReady"}, slot : Slot, session : Up]
        \cup [type : {"UpSessionInitFailed", "UpSessionBroken"}, slot : Slot]
        \cup [type : {"SetUpSession"}, session : PoolSession]
        \cup [type : {"AddDownSession"}, session : Miner]
        \cup [type : {"DownSessionBroken"}, sessionID : Nat]
        \cup [type : {"UpdateMinerNum"}, slot : Slot, counter : Nat]
        \cup [type : {"UpdateFakeMinerNum"}, counter : Nat]
        \cup [type : {"StopUpSessionManager"}, subAccount : Account]

-----------------------------------------------------------------------------
MailInit ==
    /\ chan = [a \in Actor |-> <<>>]
    /\ spawned = EmptyBag

\* The next event of a is of type t.
Receives(a, t) == chan[a] # <<>> /\ Head(chan[a]).type = t

\* What a handler sends: a function from receivers to sequences of events.
Nothing == <<>>
To(a, e) == [x \in {a} |-> <<e>>]
InTurn(a, es) == [x \in {a} |-> es]

Appended(ch, sends) ==
    [a \in Actor |-> IF a \in DOMAIN sends THEN ch[a] \o sends[a] ELSE ch[a]]

Spawns(pending) == spawned' = spawned (+) SetToBag(pending)

\* The handler of one event of a: the event is taken off the channel, sends are
\* the SendEvent calls and pending the go SendEvent calls on the way.
Handles(a, sends, pending) ==
    /\ chan' = Appended([chan EXCEPT ![a] = Tail(@)], sends)
    /\ Spawns(pending)

\* Something other than an event makes a part send.
Sends(sends, pending) ==
    /\ chan' = Appended(chan, sends)
    /\ Spawns(pending)

\* A goroutine gets to its SendEvent.
Deliver(m) ==
    /\ BagIn(m, spawned)
    /\ chan' = [chan EXCEPT ![m[1]] = Append(@, m[2])]
    /\ spawned' = spawned (-) SetToBag({m})

MailTypeOK ==
    /\ DOMAIN chan = Actor
    /\ \A a \in Actor : chan[a] \in Seq(Event)
    /\ IsABag(spawned)
    /\ \A m \in BagToSet(spawned) : m[1] \in Actor /\ m[2] \in Event

-----------------------------------------------------------------------------
\* How many times e waits in a's channel.
Queued(a, e) == Cardinality({i \in DOMAIN chan[a] : chan[a][i] = e})

\* How many goroutines still have to send e to a.
Pending(a, e) == IF BagIn(<<a, e>>, spawned) THEN spawned[<<a, e>>] ELSE 0

\* How many times e is on its way to a, sent or about to be.
InFlight(a, e) == Queued(a, e) + Pending(a, e)
=============================================================================
