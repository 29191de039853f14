-------------------------------- MODULE Shares --------------------------------
(***************************************************************************)
(* The shares of the miners and the answers to them, carried by the agent  *)
(* (parseMiningSubmit of DownSessionBTC.go, handleSubmitShare and          *)
(* handleExMessageSubmitResponse of UpSessionBTC.go, FakeUpSessionBTC.go;  *)
(* the ETH sessions do the same).                                          *)
(*                                                                         *)
(* A share is named by the JSON-RPC id of its request; what it proves is   *)
(* left out, except that its job may be a fake one.  A miner may submit at *)
(* any time and for any job.  The option disconnect_when_lost_asicboost is *)
(* off.  The pool is external: it numbers the shares in the order in which *)
(* they arrive, as the agent does, and answers them in any order.          *)
(***************************************************************************)
EXTENDS Custody, FiniteSetsExt

CONSTANTS
    AnsweringUp,    \* the sessions whose pool answers shares and that have
                    \* submit_response_from_server on
    IndexWidth,     \* the number of values of submitIndex: 2^16 in the program
    MaxShares       \* bound: the number of shares of all miners

ASSUME ShareAssumption ==
    /\ AnsweringUp \subseteq Up
    /\ IndexWidth \in Nat \ {0}
    /\ MaxShares \in Nat

VARIABLES
    sent,           \* the pool session to which each share of a miner went
    answers,        \* the ids of the answers written to each miner: a bag
    submitIndex,    \* up.submitIndex
    submitIDs,      \* up.submitIDs: index -> the id and session of a share
    atPool,         \* the shares that the pool has not answered: [place, id]
    poolCount       \* the number of shares that have arrived at the pool

upShareVars == <<submitIndex, submitIDs, atPool, poolCount>>
shareVars == <<sent, answers, upShareVars>>

ShareID == Miner \X (1 .. MaxShares)
Index(n) == n % IndexWidth

EventSubmitShare(id, isFakeJob) == [type |-> "SubmitShare", id |-> id, isFakeJob |-> isFakeJob]
EventSubmitResponse(id) == [type |-> "SubmitResponse", id |-> id]
EventRecvExMessage(i) == [type |-> "RecvExMessage", index |-> i]

\* A pool session may have carried any number of shares before.
SharesInit ==
    /\ CustodyInit
    /\ sent = [d \in Miner |-> <<>>]
    /\ answers = [d \in Miner |-> EmptyBag]
    /\ submitIndex \in [Up -> 0 .. IndexWidth - 1]
    /\ submitIDs = [u \in Up |-> <<>>]
    /\ atPool = [u \in Up |-> {}]
    /\ poolCount = submitIndex

-----------------------------------------------------------------------------
(* The miner's side (DownSessionBTC).                                      *)

\* mining.submit.  The share is sent with go SendEvent; there is no answer yet,
\* but an error at once when the miner has no pool session.
Submit(d) ==
    /\ d \in running
    /\ Len(sent[d]) < MaxShares
    /\ MapThenSumSet(LAMBDA e : Len(sent[e]), Miner) < MaxShares
    /\ sent' = [sent EXCEPT ![d] = Append(@, upSession[d])]
    /\ LET id == <<d, Len(sent[d]) + 1>>
       IN  \/ /\ upSession[d] = None
              /\ answers' = [answers EXCEPT ![d] = @ (+) SetToBag({id})]
              /\ UNCHANGED mailVars
           \/ /\ upSession[d] # None
              /\ \E isFakeJob \in BOOLEAN :
                    Sends(Nothing, {<<upSession[d], EventSubmitShare(id, isFakeJob)>>})
              /\ UNCHANGED answers
    /\ UNCHANGED upShareVars

SubmitResponse(d) ==
    /\ DownReceives(d, "SubmitResponse")
    /\ answers' = [answers EXCEPT ![d] = @ (+) SetToBag({Head(chan[d]).id})]
    /\ Handles(d, Nothing, {})
    /\ UNCHANGED <<sent, upShareVars>>

-----------------------------------------------------------------------------
(* The pool session's side (UpSessionBTC).                                 *)

\* sendSubmitResponse: the miner gets the answer if it is still here.
Response(p, id) == IF id[1] \in downSessions[p] THEN {<<id[1], EventSubmitResponse(id)>>} ELSE {}

\* Mutant: the share is answered at once, and then by the pool too.
AnswersNowAlways(u, e) == TRUE

\* Mutant: a real share is left to the pool, even if the pool does not answer.
AnswersNowFakes(u, e) == e.isFakeJob

\* The shares that the session answers by itself.
AnswersNow(u, e) == e.isFakeJob \/ u \notin AnsweringUp

\* Mutant: a wider integer.
AdvancedIndexWider(u) == submitIndex[u] + 1

\* Mutant: submitIndex++ is missing.
AdvancedIndexStays(u) == submitIndex[u]

\* submitIndex++ on a uint16.
AdvancedIndex(u) == Index(submitIndex[u] + 1)

\* submitIDs[submitIndex] = the share.
Remembers(u, e) ==
    /\ submitIDs' = [submitIDs EXCEPT
           ![u] = [i \in DOMAIN @ \cup {submitIndex[u]} |-> IF i = submitIndex[u] THEN e.id ELSE @[i]]]
    /\ submitIndex' = [submitIndex EXCEPT ![u] = AdvancedIndex(u)]

\* The share reaches the pool, which counts it.
Arrives(u, e) ==
    /\ poolCount' = [poolCount EXCEPT ![u] = @ + 1]
    /\ atPool' = [atPool EXCEPT ![u] =
                     IF u \in AnsweringUp THEN @ \cup {[place |-> poolCount[u], id |-> e.id]} ELSE @]

\* handleSubmitShare.  When the write fails the share is remembered or answered
\* all the same, and the session is closed: as if the pool broke right after.
UpSubmitShare(u) ==
    /\ u \in Up
    /\ UpReceives(u, "SubmitShare")
    /\ LET e == Head(chan[u])
       IN  /\ Handles(u, Nothing, IF AnswersNow(u, e) THEN Response(u, e.id) ELSE {})
           /\ IF e.isFakeJob THEN UNCHANGED <<atPool, poolCount>> ELSE Arrives(u, e)
           /\ IF e.isFakeJob \/ u \notin AnsweringUp
              THEN UNCHANGED <<submitIDs, submitIndex>> ELSE Remembers(u, e)
    /\ UNCHANGED <<sent, answers, custodyVars>>

\* handleExMessageSubmitResponse.  Whether the pool accepts is left out.
UpSubmitResponse(u) ==
    /\ UpReceives(u, "RecvExMessage")
    /\ LET i == Head(chan[u]).index
       IN  IF i \in DOMAIN submitIDs[u]
           THEN /\ submitIDs' = [submitIDs EXCEPT ![u] = [j \in DOMAIN @ \ {i} |-> @[j]]]
                /\ Handles(u, Nothing, Response(u, submitIDs[u][i]))
           ELSE /\ Handles(u, Nothing, {})
                /\ UNCHANGED submitIDs
    /\ UNCHANGED <<sent, answers, submitIndex, atPool, poolCount, custodyVars>>

\* The fake session accepts every share.
FakeSubmitShare(p) ==
    /\ p \in FakeSessions
    /\ UpReceives(p, "SubmitShare")
    /\ Handles(p, Nothing, Response(p, Head(chan[p]).id))
    /\ UNCHANGED <<shareVars, custodyVars>>

\* addDownSession of every kind of session; the jobs are left out.
AddDownSession(p) ==
    /\ UpReceives(p, "AddDownSession")
    /\ Joins(p, Head(chan[p]).session)
    /\ Handles(p, Nothing, {})
    /\ UNCHANGED <<running, upSession, open, shareVars>>

-----------------------------------------------------------------------------
(* The pool.                                                               *)

\* An answer; the reader of the connection passes it on.
PoolAnswers(u) ==
    /\ u \in open
    /\ \E s \in atPool[u] :
          /\ atPool' = [atPool EXCEPT ![u] = @ \ {s}]
          /\ Sends(To(u, EventRecvExMessage(Index(s.place))), {})
    /\ UNCHANGED <<sent, answers, submitIndex, submitIDs, poolCount, custodyVars>>

\* The session notices that its connection is broken, and closes.
PoolBreaks(u) ==
    /\ u \in Breakable \cap open
    /\ UpCloses(u)
    /\ \E pending \in Rehomings(downSessions[u], open \ {u}) : Sends(Nothing, pending)
    /\ UNCHANGED shareVars

-----------------------------------------------------------------------------
UnderWay(a, e) == (\E i \in DOMAIN chan[a] : chan[a][i] = e) \/ BagIn(<<a, e>>, spawned)

\* The shares that are on their way to u.
InTransit(u) == {id \in ShareID : \E isFakeJob \in BOOLEAN : UnderWay(u, EventSubmitShare(id, isFakeJob))}

\* Bound: a share that the pool has not answered is not overwritten.  In the
\* program 65536 shares of one pool session have to pass it for that.
Room(p) ==
    p \in Up => LET n == Cardinality(InTransit(p))
                IN  /\ n < IndexWidth
                    /\ \A k \in 0 .. n : Index(submitIndex[p] + k) \notin DOMAIN submitIDs[p]

Environment ==
    \/ \E d \in Miner : (Submit(d) /\ Room(upSession[d]) /\ UNCHANGED custodyVars)
    \/ \E d \in Miner : MinerLeaves(d) /\ UNCHANGED shareVars
    \/ \E p \in FakeSessions : TransferDownSessions(p) /\ UNCHANGED shareVars
    \/ \E u \in Up : PoolBreaks(u)

DownRuns(d) ==
    \/ SetUpSession(d) /\ UNCHANGED shareVars
    \/ SubmitResponse(d) /\ UNCHANGED custodyVars

UpRuns(p) ==
    \/ AddDownSession(p)
    \/ DownSessionBroken(p) /\ UNCHANGED shareVars
    \/ UpSubmitShare(p)
    \/ UpSubmitResponse(p)
    \/ FakeSubmitShare(p)

SenderRuns(m) == Deliver(m) /\ UNCHANGED <<custodyVars, shareVars>>

SharesNext ==
    \/ Environment
    \/ \E d \in Miner : DownRuns(d)
    \/ \E p \in PoolSession : UpRuns(p)
    \/ \E u \in Up : PoolAnswers(u)
    \/ \E m \in BagToSet(spawned) : SenderRuns(m)

allVars == <<mailVars, custodyVars, shareVars>>

\* The goroutines run, and the pool answers what it gets.
SharesSpec ==
    /\ SharesInit
    /\ [][SharesNext]_allVars
    /\ \A d \in Miner : WF_allVars(DownRuns(d))
    /\ \A p \in PoolSession : WF_allVars(UpRuns(p))
    /\ \A u \in Up : WF_allVars(PoolAnswers(u))
    /\ \A a \in Actor : WF_allVars(\E m \in BagToSet(spawned) : m[1] = a /\ SenderRuns(m))

-----------------------------------------------------------------------------
\* Type invariant.
SharesTypeOK ==
    /\ CustodyTypeOK
    /\ sent \in [Miner -> Seq(PoolSession \cup {None})]
    /\ DOMAIN answers = Miner
    /\ \A d \in Miner : IsABag(answers[d]) /\ BagToSet(answers[d]) \subseteq ShareID
    /\ submitIndex \in [Up -> 0 .. IndexWidth - 1]
    /\ DOMAIN submitIDs = Up
    /\ \A u \in Up :
          /\ DOMAIN submitIDs[u] \subseteq 0 .. IndexWidth - 1
          /\ \A i \in DOMAIN submitIDs[u] : submitIDs[u][i] \in ShareID
    /\ atPool \in [Up -> SUBSET [place : Nat, id : ShareID]]
    /\ poolCount \in [Up -> Nat]

\* The answers that d has got or is about to get.
AnswersOf(d, id) ==
    (IF BagIn(id, answers[d]) THEN answers[d][id] ELSE 0) + InFlight(d, EventSubmitResponse(id))

\* No share is answered twice, and none that was not submitted: whatever session
\* answers, by itself or for the pool, before or after the miner has moved.
AnsweredOnce ==
    \A d \in Miner, id \in ShareID :
       AnswersOf(d, id) <= IF id[1] = d /\ id[2] <= Len(sent[d]) THEN 1 ELSE 0

\* The agent and the pool number the shares alike, with indices that wrap: every
\* answer that is still to come finds the share it is meant for.
IndicesAgree ==
    \A u \in Up \cap open :
       /\ \A s \in atPool[u] :
             /\ Index(s.place) \in DOMAIN submitIDs[u]
             /\ submitIDs[u][Index(s.place)] = s.id
       /\ \A i \in DOMAIN chan[u] :
             chan[u][i].type = "RecvExMessage" => chan[u][i].index \in DOMAIN submitIDs[u]

\* A share that went to a pool session is answered, unless the session or the
\* miner goes: it cannot arrive before the session knows the miner, and neither
\* moving nor other miners' shares make the session lose it.
ShareIsAnswered ==
    \A d \in Miner, n \in 1 .. MaxShares, u \in Up :
       (n <= Len(sent[d]) /\ sent[d][n] = u)
       ~> (AnswersOf(d, <<d, n>>) > 0 \/ d \notin running \/ u \notin open)
=============================================================================
