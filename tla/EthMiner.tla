------------------------------- MODULE EthMiner -------------------------------
(***************************************************************************)
(* One miner of a DownSessionETH: what it asks for, what it is sent and    *)
(* which shares are passed on (DownSessionETH.go, StratumJobETH.go).       *)
(*                                                                         *)
(* The session meets its events in any order: pool sessions and the miner  *)
(* are not modelled here but for the rule that nothing but requests comes  *)
(* before the first EventSetUpSession.  A write to the miner that fails    *)
(* closes the session as ConnBroken does.  A request that is refused       *)
(* leaves no trace but its answer and has no action.                       *)
(*                                                                         *)
(* The fake session turns a job into a fake one while the miner's session  *)
(* may be reading it (ToNewFakeJob, without a lock): sendJob may see the   *)
(* hash of the real job and the id of the fake one.                        *)
(*                                                                         *)
(* The flag that tells the miner to drop its older jobs is left out.       *)
(***************************************************************************)
EXTENDS JobIDQueueETH, Sequences

CONSTANTS
    FakeHash,     \* the hashes with the prefix of fake job ids
    FakeJobID,    \* the ids that ToNewFakeJob makes
    Difficulty,
    MaxGetWork,   \* bound: how often the miner sends eth_getWork
    Unset

ASSUME MinerAssumption ==
    /\ FakeHash \subseteq PowHash
    /\ FakeJobID \subseteq JobID
    /\ Difficulty \subseteq Nat \ {0}
    /\ MaxGetWork \in Nat
    /\ Unset \notin Difficulty

VARIABLES
    loop,            \* which call of handleEvent runs: Init's, Run's or none
    stat,
    protocol,
    hasUpSession,    \* is there a pool session?
    jobDiff,
    extraNonce,      \* Unset while hasExtraNonce is false
    ethGetWorkID,    \* 0 when the next job answers no request
    assigned,        \* history: the last EventSetDifficulty and the protocol then
    told,            \* history: the last mining.set_difficulty
    work,            \* history: the difficulty of the last job, Unset before the
                     \* first one since the difficulty was assigned
    answers,         \* history: the jobs that answered each eth_getWork
    share            \* history: the last share that was passed on

loginVars == <<loop, stat, protocol>>
downVars == <<hasUpSession, jobDiff, extraNonce, ethGetWorkID>>
diffVars == <<assigned, told>>
sentVars == <<work, answers, share>>
minerVars == <<queueVars, loginVars, downVars, diffVars, sentVars>>

Protocols == {"LegacyStratum", "ETHProxy", "EthereumStratum"}
ValidExtraNonce == "valid"
EthereumInvalidExtraNonce == "invalid"
NoShare == [jobID |-> Nil, isFakeJob |-> FALSE]
NoDifficulty == [diff |-> Unset, protocol |-> "LegacyStratum"]

\* What sendJob may read off a job: a fake one has the hash of its id.
Readable ==
    {p \in Pair : p.powHash \in FakeHash => p.jobID \in FakeJobID}

NewDownSessionETH ==
    /\ NewJobqueueETH
    /\ loop = "Init"
    /\ stat = "connected"
    /\ protocol = "LegacyStratum"
    /\ hasUpSession = FALSE
    /\ jobDiff = 0
    /\ extraNonce = Unset
    /\ ethGetWorkID = 0
    /\ assigned = NoDifficulty
    /\ told = Unset
    /\ work = Unset
    /\ answers = <<>>
    /\ share = NoShare

Running == loop \in {"Init", "Run"}

-----------------------------------------------------------------------------
(* stratumHandleRequest.                                                   *)

\* mining.subscribe: the miner names its protocol.
Subscribe ==
    /\ Running
    /\ stat = "connected"
    /\ protocol' \in {"LegacyStratum", "EthereumStratum"}
    /\ stat' = "subscribed"
    /\ UNCHANGED <<queueVars, loop, downVars, diffVars, sentVars>>

\* A login ends the loop it is handled in: Init's is followed by Run's, Run's
\* by none.
LoopAfterLogin == IF loop = "Init" THEN "Run" ELSE "ended"

\* mining.authorize with a name that is accepted.
Authorize ==
    /\ Running
    /\ stat = "subscribed"
    /\ stat' = "authorized"
    /\ loop' = LoopAfterLogin
    /\ UNCHANGED <<queueVars, protocol, downVars, diffVars, sentVars>>

\* eth_submitLogin, in any state.  A name that is refused leaves the session
\* subscribed, although it may have been authorized.
SubmitLogin ==
    /\ Running
    /\ protocol' = "ETHProxy"
    /\ \/ stat' = "authorized" /\ loop' = LoopAfterLogin
       \/ stat' = "subscribed" /\ UNCHANGED loop
    /\ UNCHANGED <<queueVars, downVars, diffVars, sentVars>>

\* eth_getWork: the next job is the answer.
ParseEthGetWork ==
    /\ Running
    /\ Len(answers) < MaxGetWork
    /\ answers' = Append(answers, 0)
    /\ ethGetWorkID' = Len(answers')
    /\ UNCHANGED <<queueVars, loginVars, hasUpSession, jobDiff, extraNonce, diffVars, work, share>>

\* Mutant: fake shares are told by the session and not by their job.
IsFakeForNow(h) == extraNonce = Unset

IsFakeJobIDETH(h) == h \in FakeHash

\* mining.submit and eth_submitWork, for a job that is remembered and with a
\* nonce that can be read.
ParseMiningSubmit ==
    /\ Running
    /\ stat = "authorized"
    /\ hasUpSession
    /\ \E h \in PowHash :
          /\ Find(h) # Nil
          /\ share' = [jobID |-> Find(h), isFakeJob |-> IsFakeJobIDETH(h)]
    /\ UNCHANGED <<queueVars, loginVars, downVars, diffVars, work, answers>>

-----------------------------------------------------------------------------
(* Events of the manager and of the pool session.                          *)

HandleSetUpSession ==
    /\ loop = "Run"
    /\ hasUpSession' = TRUE
    /\ extraNonce' = Unset
    /\ UNCHANGED <<queueVars, loginVars, jobDiff, ethGetWorkID, diffVars, sentVars>>

\* Mutant: the difficulty is announced to every miner that has another one.
AnnouncesToAll(n) == jobDiff # n

\* Who is sent mining.set_difficulty; the difficulty is not stored then.
Announces(n) == protocol = "EthereumStratum" /\ jobDiff # n

SetDifficulty ==
    /\ loop = "Run" /\ hasUpSession
    /\ \E n \in Difficulty :
          /\ assigned' = [diff |-> n, protocol |-> protocol]
          /\ IF Announces(n)
             THEN told' = n /\ UNCHANGED jobDiff
             ELSE jobDiff' = n /\ UNCHANGED told
    /\ work' = Unset
    /\ UNCHANGED <<queueVars, loginVars, hasUpSession, extraNonce, ethGetWorkID, answers, share>>

DownClose ==
    /\ loop' = "ended"
    /\ stat' = "disconnected"
    /\ UNCHANGED <<queueVars, protocol, downVars, diffVars, sentVars>>

\* Mutant: the value that stands for "none left" is taken for a nonce.
IsInvalidNever(n) == FALSE

IsInvalid(n) == n = EthereumInvalidExtraNonce

SetExtraNonce ==
    /\ loop = "Run" /\ hasUpSession
    /\ \E n \in {ValidExtraNonce, EthereumInvalidExtraNonce} :
          \/ IsInvalid(n) /\ DownClose
          \/ /\ ~IsInvalid(n)
             /\ extraNonce' = n
             /\ UNCHANGED <<queueVars, loginVars, hasUpSession, jobDiff, ethGetWorkID, diffVars,
                            sentVars>>

\* Mutant: the request is answered by every job that follows.
GetWorkIDStays == ethGetWorkID

GetWorkIDAfterJob == IF protocol = "ETHProxy" THEN 0 ELSE ethGetWorkID

\* ETHProxy jobs are answers, with id 0 when nobody asked.
AnswersAfterJob ==
    IF protocol = "ETHProxy" /\ ethGetWorkID # 0
    THEN [answers EXCEPT ![ethGetWorkID] = @ + 1] ELSE answers

\* sendJob, with an extra nonce.  Each protocol but EthereumStratum gets the
\* difficulty with the job.
SendJob ==
    /\ loop = "Run" /\ hasUpSession
    /\ extraNonce # Unset
    /\ \E p \in Readable : Add(p)
    /\ work' = IF protocol = "EthereumStratum" THEN told ELSE jobDiff
    /\ answers' = AnswersAfterJob
    /\ ethGetWorkID' = GetWorkIDAfterJob
    /\ UNCHANGED <<loginVars, hasUpSession, jobDiff, extraNonce, diffVars, share>>

\* exit, poolNotReady, connBroken.
Departs == Running /\ DownClose

-----------------------------------------------------------------------------
MinerNext ==
    \/ Subscribe
    \/ Authorize
    \/ SubmitLogin
    \/ ParseEthGetWork
    \/ ParseMiningSubmit
    \/ HandleSetUpSession
    \/ SetDifficulty
    \/ SetExtraNonce
    \/ SendJob
    \/ Departs

MinerSpec == NewDownSessionETH /\ [][MinerNext]_minerVars

-----------------------------------------------------------------------------
\* Type invariant.
MinerTypeOK ==
    /\ QueueTypeOK
    /\ loop \in {"Init", "Run", "ended"}
    /\ stat \in {"connected", "subscribed", "authorized", "disconnected"}
    /\ protocol \in Protocols
    /\ hasUpSession \in BOOLEAN
    /\ jobDiff \in Difficulty \cup {0}
    /\ extraNonce \in {Unset, ValidExtraNonce}
    /\ ethGetWorkID \in 0 .. Len(answers)
    /\ assigned \in [diff : Difficulty \cup {Unset}, protocol : Protocols]
    /\ told \in Difficulty \cup {Unset}
    /\ work \in Difficulty \cup {0, Unset}
    /\ answers \in Seq(Nat)
    /\ share \in [jobID : JobID \cup {Nil}, isFakeJob : BOOLEAN]

\* Whatever a miner is sent since its difficulty was assigned is work of that
\* difficulty, with each of the three protocols, although one of them does not
\* store what it was assigned and the others do not announce it.  (A miner that
\* logs in again with another protocol is sent the wrong one, see README.)
DifficultyInForce ==
    assigned.diff # Unset /\ assigned.protocol = protocol =>
       /\ work \in {Unset, assigned.diff}
       /\ protocol = "EthereumStratum" => told = assigned.diff

\* An eth_getWork is answered by one job at most: the miner takes a second
\* answer with the same id for a protocol error.
OneJobPerGetWork == \A i \in DOMAIN answers : answers[i] <= 1

\* A share that is marked as fake is accepted without asking the pool.  It is
\* always the share of a fake job, even when the job is made fake while it is
\* sent and when the miner has moved to another session since.
RealSharesReachPool == share.isFakeJob => share.jobID \in FakeJobID
=============================================================================
