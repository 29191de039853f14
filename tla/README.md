# A TLA+ development of BTCAgent

BTCAgent is a proxy between mining machines and a mining pool. It accepts the
Stratum connections of many miners, gives each of them one of a few long
connections to the pool, and multiplexes their jobs and shares over these. This
directory holds TLA+ models of the agent in `../src`, the TLC configurations
that check them on small instances, and proofs for the parts that are proved
for every instance.

Contents: 1 the system, 2 the modules, 3 how code becomes actions, 4 the runs,
5 findings, 6 fairness, 7 proofs, 8 what is not modelled, 9 plan.

## 1. The system

### 1.1 Components

| component | state | operations |
|---|---|---|
| `SessionIDManager` | a bit per id, `count`, the next place to search, a lock | `AllocSessionID`, `FreeSessionID`, `IsFull` |
| `SessionManager` | the map sub-account → manager, the listener, an event channel | `Run`, `Stop`, `RunDownSession` (one goroutine per accepted miner), events AddDownSession, StopUpSessionManager, Exit |
| `UpSessionManager`, one per sub-account | per slot: `ready`, `upSession`, `minerNum`; the fake session and its `minerNum`; `initSuccess`, `initFailureCounter` | `connect` (one goroutine per slot and attempt), events AddDownSession, UpSessionReady, UpSessionInitFailed, UpSessionBroken, UpdateMinerNum, UpdateFakeMinerNum, UpdateFakeJob, Exit |
| `UpSessionBTC/ETH`, one per pool connection | `stat`, the map id → miner, `disconnectedMinerCounter`, `submitIndex`, `submitIDs`, `lastJob` | events AddDownSession, DownSessionBroken, SendUpdateMinerNum, SubmitShare, RecvJSONRPC, RecvExMessage, ConnBroken, Exit |
| `FakeUpSessionBTC/ETH`, one per manager | the map of miners, the counter, `fakeJob`, a ticker | events AddDownSession, DownSessionBroken, TransferDownSessions, SendUpdateMinerNum, UpdateFakeJob, SendFakeNotify, SubmitShare, Exit |
| `DownSessionBTC/ETH`, one per miner | `stat`, `sessionID`, sub-account, `upSession`; ETH: `extraNonce`, `hasExtraNonce`, `jobDiff`, `jobIDQueue` | requests of the miner; events SetUpSession, SendBytes, StratumJob, SetExtraNonce, SetDifficulty, SubmitResponse, ConnBroken, PoolNotReady, Exit |
| `JobIDQueueETH` | a ring of the last jobs and the place of the next | `Add`, `Find` |
| a slot's attempt (`connect`, `tryConnect`, `testConnection`, `Init`) | the pool that is tried, a goroutine per route, the session before it is authorized | dial through every proxy at once, keep the first connection that answers, handshake |
| `StratumJobBTC/ETH`, `ExMessage`, `JSONRPC`, `Utils`, `Config`, `Proxy`, session factories | none of their own, except jobs that become fake ones | conversions, dialling |

### 1.2 How they interact

Each session and each manager is a goroutine that reads its own channel in a
loop. All of them talk by events only, in two ways which the design leans on
everywhere:

* `x.SendEvent(e)` appends to x's channel before the caller goes on, so two
  events of one caller stay in order;
* `go x.SendEvent(e)` starts a goroutine that will, so that the sender never
  blocks, and any two such events may be swapped.

A miner travels as follows. `RunDownSession` takes an id, runs `Init` until the
miner is authorized, and sends it to the `SessionManager`, which finds or makes
the manager of its sub-account and passes it on. The manager counts it for the
least loaded ready slot and sends it SetUpSession; the miner then announces
itself to that pool session with AddDownSession. A pool session that closes
gives each miner of its map back to the manager. Without a ready slot, and with
`always_keep_downconn` on, a miner goes to the fake session, from which it is
called back when a pool session becomes ready. A miner that leaves tells the
session it believes to be its own.

### 1.3 What is hard, and what makes it correct

* *Custody.* A miner is in a message more often than in a map, and each hand it
  is in may stop, break or be told to give it up. It must be in one hand at a
  time, and in the end with a session or disconnected.
* *Slots.* connect, ready and broken are told by three goroutines in any order:
  a slot must never have two sessions or be left without.
* *Ids.* An id is taken in one goroutine and given back in another; messages
  about its last owner are still on their way when it is granted again.
* *Counts.* `minerNum` is raised by the manager and lowered in batches, a second
  later, by the session.
* *Shares.* They carry no id that the pool would return: agent and pool number
  them alike, on 16 bits, while the miners move between sessions.
* *Nonces.* An ETH miner can use a job only with an extra nonce of the same
  pool session, which it gets after a round trip.
* *Stopping.* A signal may come at any point of all this.
* *Connecting.* Every route to a pool is dialled at once. The first connection
  wins, but the others arrive too, in whatever loop reads the channel then, and
  dials, tests and handshakes have timeouts of their own.
* *Blocking.* Channels are bounded and SendEvent blocks its caller's loop:
  managers, pool sessions and miners all send to one another.
* *Protocols.* An ETH miner speaks one of three protocols, which differ in how
  difficulties and jobs reach it, and its jobs become fake ones under the hands
  of the loop that is sending them.

`PROJECT.json` lists the hazards line by line with the properties that cover
them, and says which ones none covers yet.

## 2. The modules

| module | models | variables |
|---|---|---|
| `Mailbox` | channels, SendEvent, go SendEvent, the events | `chan`, `spawned` |
| `SessionIDManager` | `SessionIDManager.go` with the width of its counter | `sessionIDs`, `count`, `allocIDx` |
| `SessionIDLease` | abstract: what a connection is promised about ids | `lease` |
| `DownSession` | a miner's session from accept to close | `downStat`, `sessionID`, `subAccount`, `upSession` |
| `UpSession` | an authorized pool session and its miners | `upStat`, `downSessions`, `disconnected`, ... |
| `FakeUpSession` | the fake session and its miners | `fakeLoop` |
| `UpSessionManager` | one sub-account's slots, choice of sessions, counts | `ready`, `slotSession`, `minerNum`, ... |
| `SessionManager` | the registry of managers, start and stop | `smStat`, `upSessionManagers` |
| `Agent` | the composition of all of the above, and its properties | |
| `MCAgent` | symmetry for TLC | |
| `SlotAttempt` | abstract: what connect promises to its manager | `pool`, `outcome` |
| `PoolConnect` | connect over pools, proxies and direct connections; the handshake | `pool`, `phase`, `stage`, `conn`, `up`, ... |
| `Custody` | what shares and jobs need to know of the control plane | `running`, `upSession`, `open`, `downSessions` |
| `Shares` | BTC shares and their answers, on top of Custody | `sent`, `answers`, `submitIndex`, `submitIDs`, ... |
| `MiningETH` | ETH jobs and extra nonces, on top of Custody | `lastJob`, `fakeJob`, `hasExtraNonce`, `work`, ... |
| `MiningBTC` | BTC version masks, difficulties and jobs, on top of Custody | `rolls`, `rpcSetVersionMask`, `lastJob`, `told`, ... |
| `Backpressure` | channels with their capacity and handlers that block, on top of Custody | `todo`, `ready`, ... |
| `EthMiner` | one ETH miner: protocols, difficulty, eth_getWork, fake shares | `protocol`, `jobDiff`, `ethGetWorkID`, `work`, ... |
| `JobWindow` | abstract: the last Size jobs that were sent | `window` |
| `JobIDQueueETH` | the ring of `LocalJobETH.go` | `Queue`, `Pos` |
| `MailboxProofs` | lemmas about channels and `go SendEvent` | |
| `AgentProofs` | proofs: the allocator, ids, types and custody; slots and the registry | |
| `MinersProofs` | proofs: the managers' books (`minerNum`) | |
| `ConnectionProofs` | proofs: the ring of job ids and the ETH miner that uses it; connecting; channels with their capacity | |
| `CustodyProofs` | lemmas: who serves a miner | |
| `SharesProofs` | proofs: shares, their answers and indices | |
| `MiningETHProofs`, `MiningBTCProofs` | proofs: ETH jobs and nonces; BTC masks, difficulties and jobs | |

`DownSession`, `UpSession`, `FakeUpSession`, `UpSessionManager` and
`SessionManager` each have the variables of their part and one action per
handler; `Agent` adds to each what the step leaves alone and joins them. The two
kinds of miners and of pools (BTC and ETH) do the same in the control plane;
where they differ (a second `eth_submitLogin`), a constant turns the ETH
behaviour on.

Definitions that a comment calls *Mutant* are used by no specification. Each is
the named definition next to it with a plausible mistake, and each property of
each run is known to fail for one of them.

## 3. How code becomes actions

* One action is the handler of one event, with all its SendEvent calls, or one
  SendEvent of a started goroutine. Handlers run to completion in one loop and
  share nothing with others except the allocator (under its lock) and the ETH
  job objects, so nothing can be observed in between.
* `spawned` is a bag of sends that some goroutine still has to do: every
  `go x.SendEvent`, the timers (a second's sleep, then one SendEvent), and
  goroutines of which a single SendEvent is left (the tail of `RunDownSession`
  and of `connect`). They can be delivered in any order.
* A handler's two sends to the same receiver stay in order; sends to different
  receivers are done in one step. No receiver can tell.
* Channels are unbounded, except in `Backpressure`. In the program they have
  room for 64 events or more, which no other instance comes near.
* In `Backpressure` a handler is a list of sends, done one at a time, each as
  soon as there is room. It has one place per channel instead of 64 to 512:
  every way in which a channel can be full comes up at once.
* A write that fails closes the session in the middle of a handler. The
  connection's reader fails then too: the models let the connection break right
  after the handler instead. Where sends do not block the outcome is the same: a
  miner that is being added is in the map when close gives the map back. In
  `Backpressure` it is not, since a session that closes in the middle of
  addDownSession goes on and greets the miner it has just given back: there the
  registerWorker and the unregisterWorker that fail are steps of their own
  (`UpRegisterFails`, `UpUnregisterFails`).
* ConnBroken is posted once: the reader of a connection stops after it.
* The requests of a miner before it is authorized are one step each: nobody
  else knows the session then.
* In `Agent`, `connect` tries all pools of the list and either succeeds with a
  fresh session or reports InitFailed, in one step. `PoolConnect` has the steps
  and implements `SlotAttempt`, which promises just that: one report, after the
  last pool or with a session. A pool session is of one kind in it: BTC's has
  one request more (mining.configure), whose answer is ignored. The pool answers
  each request once, in any order, with what was asked for or with something
  else (an error, no session id, no list of capabilities). Phase `lost` is a
  session that ends without the manager's being told.
* `PoolConnect` has one variable for the connection of each route and one for
  how far its goroutine is. When an attempt moves on to the next pool, all that
  the session of the last one leaves behind, dials included, is forgotten:
  nobody reads its channel any more.
* `EthMiner` is one session with an environment that may send it anything in
  any order, as long as nothing but requests comes before the first
  SetUpSession. Its histories (`assigned`, `told`, `work`, `answers`, `share`)
  record what the miner was sent and what was passed on.
* After `Stop` the process ends at an unknown moment; the models just go on, so
  safety holds up to any such moment.
* `Miner`, `Up` and `Mgr` are pools of objects that are used once: their sizes
  are the bounds on the numbers of connections, pool sessions and managers in a
  behaviour. As they run out, the system does stop in the end, which is why the
  configurations of these models do not check for deadlock. That nobody waits
  for ever is stated as properties: `NoCircularWait`, `HandlersEnd`,
  `AttemptEnds`. `eth_miner` ends when the miner leaves, `pool_connect` when the
  attempt has failed or the session has ended.
* `Custody` makes one step of the way from a session that gives its miners back
  to SetUpSession: the manager's choice is any session that is open when the
  miners are given back, and it may have closed when SetUpSession arrives. This
  allows every order of the longer way, and a few more. Miners are named by
  themselves, since ids are not reused there.

## 4. The runs

| run | question | instance |
|---|---|---|
| `agent_custody` | are miners, slots and the registry conserved while everything breaks? | 1 miner, 2 pool sessions that break and may refuse, 2 managers, stop |
| `agent_reuse` | does the allocator stay right, and is the promise about ids kept when ids are reused? | 3 miners on 2 ids, second logins |
| `agent_live` | is everybody served or closed, and forgotten after leaving; is `minerNum` exact? | 2 miners, 1 slot, a pool that holds, fair |
| `orphan`, `stuck_on_fake`, `eth_fake` | see section 5 | smallest instance with the behaviour |
| `shares` | does each share get its own answer, once? | 1 miner, 2 pool sessions and the fake one, 2 shares, 1-bit indices |
| `mining_eth` | right nonce, and a job for everybody served? | 1 miner, 2 pool sessions and the fake one, 2 jobs each, a pool that may be full |
| `mining_btc` | is a miner greeted before it is told anything else, and told its pool's version mask; do fake jobs reach it? | 1 miner, a pool session that breaks and the fake one, 3 lines under way |
| `eth_miner` | the right difficulty, one answer per eth_getWork, no real share kept back, the right job for a share? | a ring of 3 jobs, 2 hashes and ids (one of them fake), 2 difficulties, 2 eth_getWork |
| `pool_connect` | is every route tried and no connection lost, and does the manager hear once? | 3 pools, a proxy, both direct connections, every configuration |
| `backpressure` | can the loops block one another? | 1 miner, 2 pool sessions of which one breaks, the fake one, 1 place per channel |

### What they show

* `agent_custody`. `CustodyConserved`: an authorized miner is always in exactly
  one hand, a map of a running session or an event under way. `SlotsConserved`:
  a slot has exactly one of session, connect goroutine, event about its end,
  unless it failed before the manager was first connected, and those are
  counted. `RegistryConsistent`: managers in the registry are alive and not told
  to exit, and those outside it are told so by one event on its way. One miner is
  enough for custody, as hands are counted per miner; two pool sessions let one
  break while the miner is on its way to the other; two managers let one wind
  up while its successor starts.
* `agent_reuse`. `CountIsPopulation`: `count` is the number of set bits, however
  the goroutines that take and free ids interleave; `ScanTerminates`: the search
  under the lock always finds a clear bit when it starts; `FreshestIsLast`: the
  id granted last is the last to be granted again, which is all that protects
  an id's new owner from late messages about the old one. (The proofs have the
  first three for any caller and any argument, ids freed twice included.)
  `LeaseSpec`: the agent implements `SessionIDLease`;
  `BitsAreLive`: set bits are exactly the ids of sessions that are not closed;
  `NeverInTwoHands`: with reuse a late DownSessionBroken may hit a new owner,
  so exactly one hand is too much to ask; at most one is not. Two ids for three
  miners make every message about an id able to come late.
* `agent_live`. `ServedOrClosed` and `LeaverIsForgotten` under fairness.
  `MinersAccounted` says that `minerNum` is, at every moment, the miners the
  session has in its map, those on their way and those it has yet to report.
  Two miners are needed: one is counted while the other is being reported.
  It does not hold when a pool session breaks (the late report of the old
  session is then charged to the slot's new one) or when ids are reused (two
  owners are one entry of the map); both are in the list of hazards.
* `shares`. `IndicesAgree`: each answer that is still to come finds the share
  it is for, though nothing but equal counting connects them and the counters
  wrap (two values instead of 65536, so they do after two shares).
  `AnsweredOnce`: never two answers, never one for a share not submitted.
  `ShareIsAnswered`: a share is answered unless the session or the miner goes.
  The bound `Room` keeps the pool from being `IndexWidth` shares behind, in
  which case a share would be overwritten (65536 in the program). One of the two pool
  sessions answers shares and may break, the other does not and may not. One
  miner suffices: shares of others differ only in the name they carry.
* `mining_eth`. `NonceIsCurrent`: a nonce is never used with another session's
  job channel than the one that allotted it, which rests on `SendEvent` without
  `go`, on the reset in setUpSession and on ids being looked up late.
  `ServedGetsJob`: whichever comes first, registration, nonce or job, the miner
  of a session that has a job is sent one of its jobs with the nonce of that
  session. A stale job of the old session may come on top of it, which is listed
  as a hazard.
* `mining_btc`. `GreetedInOrder`: addDownSession sends mask, difficulty and job
  with `SendEvent`, everything later goes by `go SendEvent`. So whatever the
  pool says in the meantime, the greeting comes first and is complete, and its
  job is a clean one. Lines of an old session may still come late, and two
  later lines may swap: this is in the list of hazards. `MaskIsUpdated`: the
  miner was answered with the mask it asked for and is told the true one later,
  by the greeting or by a new line of the pool. It is stated for a miner that
  asked before the session took it: of a later mining.configure the session
  does not hear. `FakeJobsReach`: a BTC miner that stays with the fake session
  is sent a fake job, as ETH miners are not (`eth_fake`). What a miner is told
  by other sessions than the one that took it last does not count, so one pool
  session, which breaks, and the fake one have every case.
* `eth_miner`. `DifficultyInForce`: setDifficulty has two ways, one for the
  protocol that announces difficulties and one for those that put them into the
  job, and only one of them stores the value it is compared with. Whatever the
  miner is sent after a difficulty is of that difficulty all the same, if it
  keeps its protocol: a miner that logs in by `eth_submitLogin` after it has
  subscribed as EthereumStratum gets jobs of target 0 until the next difficulty
  comes. `OneJobPerGetWork`: an eth_getWork is answered once, though the next
  job and a second request may cross. `RealSharesReachPool`: `ToNewFakeJob`
  writes the flag and the id of a job while `sendJob` reads them, so a hash may
  be stored with an id that does not belong to it; whatever is torn, a share is
  only kept from the pool if its job is fake. `FindsLatest` and
  `RemembersRecent`: the ring is the window of the last jobs, and `Find` answers
  with the id that was sent last, though equal hashes come again and again.
* `pool_connect`. `ConnOwned`: a connection that is open belongs to the goroutine
  that tests it, to an event on its way, or to the session; `LosersAreClosed`:
  those that lose the race are closed, in the loop of Init or of Run, as long as
  the session lives. `RoutesInOrder`: for every
  setting of the two options and with or without proxies, a pool is given up
  only when all its routes have failed, and the direct connection after the
  proxies is not tried before. `ReadyIsComplete` says what a session that is
  given to miners may be relied on for, though handleAuthorizeResponse looks at
  no other answer and the answers come in any order, good or bad: it is
  connected; its session id has not been refused; it knows all that the pool had
  granted when it answered mining.authorize (the history `granted`), whatever
  its channel held in between; and if the session id was part of that, it stays
  authorized, so that its end is reported. The rest is not promised: a session
  without its session id or without the pool's capabilities does become ready,
  and one whose pool answers mining.subscribe last turns "subscribed" again and
  may end `lost`, with a slot that stays ready at the manager.
  `PoolsInOrder` is the refinement of `SlotAttempt`; `AttemptEnds` its liveness:
  no lost answer keeps a slot waiting, unless a SOCKS proxy takes the connection
  and stays silent, as its dialer has no deadline for the handshake
  (`Proxy.go:80`). A proxy and a direct connection are two racers, which is what
  winning, losing and coming late need; three pools have a first, a middle and
  a last one. Three racers are out of reach.
* `backpressure`. `NoCircularWait`: no set of loops has each of them waiting for
  room in the channel of another. `HandlersEnd`: every handler comes to its end,
  however full the channels are, who leaves and what breaks. Both rest on which
  sends are `go SendEvent` (a session that gives its miners back, a miner that
  says goodbye): each of the two, made to wait, is a mutant that fails. The one
  exception is in the statement: a loop that has ended leaves its channel, and
  when that is full, who sends to it waits for ever. One miner and two pool
  sessions, one breaking, make it travel through every pair of loops. The
  session that breaks does so by itself or in the middle of addDownSession or
  downSessionBroken, and then finishes that handler: it waits for the manager,
  and for the miner it greets, after it has closed. SET_EXTRA_NONCE, whose nonce
  and job are sent with SendEvent, comes for miners that are registered, or have
  left since. The greeting has one message: one is enough to wait for a full
  channel, and with two the run no longer fits its time; the proof is for any
  number. Shares, what the pool says of difficulty and version mask after the
  greeting, and the numbers of miners are left out: they are sent with go
  SendEvent, as the jobs are that stand for them. Left out, too, is a session
  that is no longer authorized when it closes (see `pool_connect`): it does not
  tell the manager of its end, on which the argument of section 7 rests.

Bounds: `MaxSessionId`, `Width` (ids); sizes of `Miner`, `Up`, `Mgr`, `Account`,
`SlotNum`; `MaxShares`, `IndexWidth`; `MaxJobs`; `MaxGetWork`, `Size`,
`Difficulty`; `MaxLines` (a pool of `MiningBTC` speaks when the miner is there
and has fewer lines under way, none of them the same); `PoolNum`, `Proxy`;
`Cap`, `Greeting`; a ticker does not tick again while a fake job of its last
tick is under way, nor, in `Backpressure`, a pool while its last job is.
`Breakable`, `PoolMayRefuse`, `MayStop`, `MayLoginAgain`, `PoolMayBeFull` turn
environment behaviour on per run; `AlwaysKeepDownconn` and `MultiUserMode` are options of the configuration.
The environment is chosen per run: with everything on at once the state space
is out of reach.

## 5. Findings

Each is a run in which TLC finds the property violated, under fairness.

* `orphan` (`ServedOrClosed`): the manager gives a miner a pool session that
  closes before the miner announces itself. AddDownSession lands in a channel
  nobody reads; the miner stays connected and never hears of anything.
* `stuck_on_fake` (`FakeJobIsReplaced`): a miner that is on its way to the fake
  session when that is asked to give its miners back stays there.
* `eth_fake` (`FakeJobsArrive`): an ETH miner loses its extra nonce in
  setUpSession and gets no other one from the fake session, so it drops all
  fake jobs: `always_keep_downconn` has no effect on ETH miners.

Four more things the code does are in the list of hazards without a run:

* a second `eth_submitLogin` ends the loop of `Run`, so when that miner leaves
  nobody closes its session (`DownSessionETH.go:146`);
* for a pool that cannot take rolled versions from the agent, the session writes
  a zero mask into a copy of the message that nobody reads, and sends the miners
  the pool's line as it came (`UpSessionBTC.go:374`);
* a manager that exits while a slot is connecting leaves the session that comes
  of it open (`UpSessionManager.go:192`);
* the late report of a session that broke is charged to the slot's new one
  (`UpSessionManager.go:161`).

## 6. Fairness

Weak fairness for each goroutine that has an event to handle or a connect to
finish: Go runs every goroutine that is able to run. Of the goroutines that wait
to send to one receiver some one proceeds; a given one is not promised its turn
while others keep coming. The pool is fair where a run is about its answers
(`PoolAnswers`, `SetExtraNonce`), connects succeed in the end where
`PoolMayRefuse` is FALSE, and the ticker of fake jobs ticks. Nothing is assumed
of miners, of connections that break, of refusals, or of the operator.

In `PoolConnect`, each tryConnect ends, as dial and test have timeouts, except
through a proxy in `hung`; the reader of a session that is not authorized ends
or answers, since getIODeadLine gives it the short deadline until then. Nothing
is assumed of a session that is ready. In `Backpressure`, a loop that wants to
send and finds room again and again does send (strong fairness): Go gives the
room to the goroutine that has waited longest. The reader of a socket, a pool's
jobs and the ticker have no fairness there. That a write to a miner returns is
an assumption: the code sets no deadline for it. In `MiningBTC`, the goroutine
that has a version mask to send does run, whatever others have to send: each
waits in turn for the channel.

## 7. Proofs

Each proof module EXTENDS the module it is about and is checked by tlapm.

* `MailboxProofs`: the lemmas the agent's proofs need of channels and of
  `go SendEvent`. A message is a pair of receiver and event, a kind of message a
  set K of such pairs. `Free` says that no message of kind K is on its way and
  `AtMostOne` that at most one is, in whatever channel or goroutine. Each step of
  the agent `Passes(in, out)`: it takes the messages in `in` and sends those in
  `out`, and that is all an invariant about messages has to know of a step.
* `AgentProofs`, for every number of miners, managers, slots and pool sessions,
  with ids that are reused and with everything breaking.
  *The allocator*, for every `MaxSessionId` and every `Width` it fits in:
  `IDTypeOK /\ CountIsPopulation` is inductive as it stands, because both the
  grant and the release test the bit before they touch count. A full bit set
  has `MaxSessionId + 1` elements, so below that some bit is clear
  (`SearchEnds`). `FreedIdsRest` follows from where the search starts. The
  cardinality facts come from the library's `FiniteSetTheorems`.
  *Ids*: the invariant `LeaseInv` joins the allocator's invariant with
  `BitsAreLive` and with the fact that live ids differ. Neither is inductive
  alone: that a release clears one id only needs live ids to differ, and that a
  granted id differs from live ones needs the bits to be the live ids. A lemma
  sorts all steps of the agent into four kinds (grant, close, a change of
  status, none of these), so only three need an argument. From it follow
  `LiveIdsAreExclusive`, `NoIdLeaks` and, with the refinement mapping `HeldBy`,
  `AgentImplementsLease`.
  *Types* (`AgentTyped`): the invariant `TypeInv` adds to the types what they
  rest on. Only a miner with an id and a sub-account (`Known`) is passed on; each
  map has a miner under its own id; only closed miners are reported to be
  broken.
  *Custody*: for each miner c, the messages that will pass it on are its
  `Carriers`. The invariant `Custody(c)` says that there is at most one of them,
  at most one session that serves c, and not both, and that there is neither
  before c is authorized. `NeverInTwoHands` follows (`NeverTwoHands`). A
  miner that nobody has any more is `Lost`. Every step either keeps c from
  being lost or is the one exception, `Evicts`: the session handles an event
  about another owner of c's id. This is `OnlyEvictionLoses`, an action property
  with no hypothesis. If no two miners have the same id an eviction is about c
  itself, which has closed then: `CustodyWithoutReuse` has `CustodyConserved`
  from `[]IdsDiffer`. `EveryMinerHasOneHand` has it without that hypothesis, for
  as many miners as there are ids, as in `agent_custody`: the ring hands the ids
  out one after the other, so the first round has no id twice (`RingInv`).
  *Slots* (`SlotsAreConserved`): `SlotOK(m, s)` is about one slot: one session, or
  one attempt, or one message that says how it ended. It is not inductive alone.
  A message about the end of a slot is only sent by that slot's own session or
  attempt, which needs `OwnerInv` (whose the sessions are; a session is told to
  exit only when its manager has exited, so nobody is left to hear of its end).
  `CountOK` relates the slots that are given up to `initFailureCounter`: the
  counter is exact because a slot is given up in no other step.
  *The registry* (`MapAndManagersAgree`): `Enlisted` and `Dismissed` are the two
  halves of the property. They need `ToldOnce` (a manager is told to exit at most
  once, and not before it is started), as SessionManager takes a manager off the
  map in the step in which it tells it to exit; and `NotYet` (nothing happens
  before SessionManager has started).
* `MinersProofs` has `MinersAccounted` (`ManagersCountTheirMiners`), with the
  two hypotheses without which it is false: no session may break
  (`Breakable = {}`), and there are finitely many miners, no more than ids. The
  property adds up a session's miners, those on their way to it and those it has
  yet to report, and the same for a slot's reports, so a step has to be
  followed through both sums. `BooksInv` says where each miner stands.
  `Tidy`: no message says anything untrue (a DownSessionBroken is about a miner
  that has closed and was that session's). `Standing`: the sessions of a running
  manager run. `Fate(d)`: the session that d has been given, as long as it has
  not heard that d left, has d in its map or has d's AddDownSession before it
  (`Expected`), and has it in front of d's DownSessionBroken (`Ordered`), which
  the code owes to sending AddDownSession from the miner's own loop. `Ledger`:
  for each slot of a manager that runs or has not started, minerNum less what
  the reports on their way will take off (`Due`) is the `Load` of the slot's
  session, and nothing if the slot has none. `Settles` is the step from one
  such ledger to the next, with a lemma for each kind of step: one that moves
  no miner, a miner joins, leaves, is given a session, a session hears of a
  departure, reports, is connected. What else they need of the agent (types,
  custody, slots, ids) is `Surroundings`, the invariants of `AgentProofs`.
  `Reported` is written as the cardinality of a set with a member for each miner
  of each report, not as a sum, so that no induction is needed.
* `ConnectionProofs` is about the two ends of the agent, an ETH miner's session
  and the connecting of a pool session, and about the channels in between.
  *The ring*, of any size and for any hashes and ids: `QueueTyped`;
  `RingImplementsWindow`, with the mapping that reads the ring from `Pos` on (two
  lemmas about numbers modulo Size carry it); `FindIsLookup`: the two loops of
  `Find`, given as a rank by which places are visited, stop at the place that
  was written last.
  *The miner's session*, for any difficulties and number of requests:
  `MinerUsesQueue`: a session uses its ring as the ring's specification says, so
  the theorems about the ring hold in it
  (`MinerRemembersRecent`, `MinerFindsLatest`). `MinerInv` has a part for each
  property: `DifficultyInv` says where each protocol keeps its difficulty (in
  `jobDiff`, or nowhere but in what was told), which rests on `LoginInv`, since
  `eth_submitLogin` cannot be undone; `GetWorkInv` that the request the next
  job answers has no answer yet; `FakeInv` that the ring never has the hash of
  a fake job with the id of a real one, however the flag and the id of a
  job are torn between two goroutines.
  *Connecting*, for any number of pools and proxies, every option and any
  proxies that hang. `ConnectInv` has three parts beside the types. `RouteInv`:
  each event of a dial is in the channel once, and until it is heard its
  connection is open and nobody else's. `RaceInv`: which routes were dialled in
  which phase. `HandshakeInv`: no request is answered twice; what was granted
  before mining.authorize is known, or in the channel in front of the answer to
  mining.authorize (`Learns`), so it is known when the session becomes ready; a
  session whose id is refused closes at once (`NotRefused`); and only a late
  answer to mining.subscribe takes "authorized" back (`StaysAuthorized`). `ConnectionsOwned`, `ReadySessions`, `RoutesTakenInOrder` and the
  refinement `PoolsTriedInOrder` follow.
  *Channels with their capacity*, for any capacity, any miners and sessions, any
  length of the greeting and any sessions that break. A handler that blocks in
  the middle has sends left to do (`todo`), so a miner may be in a third place
  beside the messages and the maps: `OneHand(d)` says that d is in one message
  that passes it on (`Passing`), or in one send that is left and will be such a
  message (`Intended`), or in the map of one open session (`HeldBy`), and in one
  of them only. `GreetsOwn`: an open session that still has messages to send to
  d has d in its map. `Letters` and `Plans` say which messages and which sends there
  are, each with its loop. From these `LoopsNeverWaitInACircle`: a miner waits
  for room only while it joins a session, and then it is in its own hand, so
  neither the manager nor a session can be waiting for that miner
  (`ServedMinerReads`). What is left is a hierarchy: all sends to the manager
  that block are those of a real session, the fake session waits for miners
  only, and the manager for miners and the fake session. That `close` of a
  session and of a miner use go SendEvent is what keeps `Plans` this short.
  `BackTyped` comes from the same invariant. The exception to `GreetsOwn` is a
  session that closed in addDownSession and still greets d (`Late`): d may be
  joining the next session by then, and wait for it. `CircleInv` is about these.
  Such a session has put its UpSessionBroken into the manager's channel before
  the goroutine that gives d back was started (`TellsFirst`), so by the time the
  manager sends d on it has dropped the session, and sends it no miner any more
  (`Gone`). `NoCircle`: among the sessions that still greet a miner bound for
  another there is always one that leads to none of the others: a session to
  which the manager sends a miner is not gone, so what it may still have to greet
  has not been sent anywhere yet.
* `CustodyProofs`, what the models on top of `Custody` may count on, for any
  number of miners and sessions. `CustodyOf(d)`: at most one message is on its
  way that moves d (a SetUpSession to it, or the AddDownSession it causes); no
  open session serves d while there is one; and only `upSession[d]`, the session
  d was last told to use, ever serves it or is being joined by it. A lemma for
  each way in which a step touches this: not at all, d is told to move, d
  joins, d is given back.
* `SharesProofs`, for any number of miners, sessions and shares and any number
  of values of `submitIndex`. `InOnePlace` is about one share: it is in one
  message at most (submitted, or answered), or in one entry of one session's
  `submitIDs`, or answered, or not submitted yet, and these exclude each other.
  Every handler takes it from one place and puts it in one, or drops it when the
  miner has moved on: `SharesAnsweredOnce`. `InAgreement` is about one pool
  session: the next index is the pool's count modulo `IndexWidth`; no two shares
  that the pool has yet to answer have one index, each is under it in
  `submitIDs`, and an entry whose answer is on its way waits for nothing else
  (`Awaited`). It is kept only while no index is used a second time, which is
  the bound `Room`: but the bound is a guard of the miner's submit, and what
  counts is the moment at which the session takes the share. `HasRoom` connects
  the two: for n shares on their way to a session its next n indices are unused.
  From it `IndicesAlwaysAgree`.
* `MiningETHProofs`, for any number of miners, sessions and jobs.
  `NonceIsCurrent` takes custody and the order of a channel together. The
  session that sends a nonce serves the miner at that moment, so by `CustodyOf`
  nothing that moves the miner is in its channel, and what comes later is behind
  the nonce: in the channel no nonce is ever behind a SetUpSession, and each is
  one of `upSession[d]` (`NoncesInLine`). That the nonce is sent with SendEvent
  is essential (`NoncesAreSent`): with go SendEvent it may be overtaken, which is
  the mutant of the run. `MiningTyped` says among others that the nonce of every
  job a miner is sent is a real session's, which needs that `hasExtraNonce` is
  only set together with a nonce (`NoncesAreKnown`).
* `MiningBTCProofs`, for any number of miners, sessions and pools that break.
  `GreetedInOrder` is about what a miner has been sent so far, so the invariant
  has to say what is still in its channel: each part of the greeting that the
  miner has not been sent is in the channel, in front of every job or difficulty
  of the same session (`Greeted`, `Welcomed`). A broadcast by `go SendEvent` only
  appends behind, and what is taken from the front was in front. At the moment a
  session greets a miner nothing of that session is on its way to it: a real
  session takes a miner only once while it is open, because the session a miner
  is passed to is never one that has it or that closed it (`Settled`, on
  top of `CustodyOf`).

Assumptions are those stated with the constants: `MaxSessionId` fits in `Width`,
ids are distinct from the marks for "none", Size, the capacity of a channel and
the numbers of slots and of pools are positive, there is a manager, the parts of
the agent (SessionManager, miners, managers, real and fake sessions) and nil are
different from each other. The theorems with hypotheses of their own are
`EveryMinerHasOneHand` and `ManagersCountTheirMiners`, with finitely many miners,
no more than there are ids, and for the second `Breakable = {}`.
`CustodyWithoutReuse` has the hypothesis `[]IdsDiffer`.

Only model-checked: all liveness, as fairness and ENABLED are beyond the prover
(`ServedOrClosed`, `LeaverIsForgotten`, `ShareIsAnswered`, `ServedGetsJob`,
`MaskIsUpdated`, `FakeJobsReach`, `LosersAreClosed`, `AttemptEnds`,
`HandlersEnd`).

## 8. Not modelled

* Logging, flags, the HTTP debug server, the file descriptor limit, printing of
  miner counts, reading the configuration file.
* Encodings: JSON lines, ex-messages, RLP headers, hexadecimal (`JSONRPC.go`,
  `ExMessage.go`, `ETHBlock.go`, `Utils.go`), and the tables of codes. They are
  functions without state, and no property here is about their text.
* The protocols inside a dialer, TLS, the URLs of proxies.
* What is in BTC jobs, masks and difficulties, beyond the flag clean_jobs: they
  are passed on as bytes. A fake coinbase that
  grows is in the list of hazards.
* Requests of miners that are refused, and client.reconnect.
* A miner that does not read its socket: the write blocks its loop without a
  deadline, and what that does to others is what `HandlersEnd` leaves out.
* Full channels together with stopping, in multi-user mode: SessionManager and
  a manager that both send to the other while their channels are full.

## 9. Plan

Done, in this order: ids, control plane, job ring, shares, ETH mining,
connecting, the ETH miner, bounded channels, BTC's masks, difficulties and
jobs. To do:

1. A mining.configure that comes after registration, as a property: `MiningBTC`
   has the step.
2. Ids reused while answers are outstanding.
3. `Backpressure` with SessionManager, stop, multi-user mode, and a session that
   is "subscribed" when it closes.
4. The manager stopped while miners are served, because a late UpdateMinerNum is
   charged to a new session.
