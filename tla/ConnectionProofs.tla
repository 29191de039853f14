--------------------------- MODULE ConnectionProofs ---------------------------
(***************************************************************************)
(* Proofs about the three parts that are modelled by themselves.           *)
(*                                                                         *)
(* One ETH miner's session, and the ring of job ids that it uses: for a    *)
(* ring of any size and any hashes, ids, difficulties and number of        *)
(* eth_getWork, what the miner is sent is of its difficulty, an            *)
(* eth_getWork is answered once, and no real share is kept from the pool.  *)
(*                                                                         *)
(* The way a slot gets its pool session: for any number of pools and       *)
(* proxies, every setting of the options, and any proxies that hang.       *)
(*                                                                         *)
(* The channels with their capacity: for any capacity, any number of       *)
(* miners and pool sessions, any length of the greeting, and any sessions  *)
(* that break at any time, the loops never wait for one another in a       *)
(* circle.                                                                 *)
(***************************************************************************)
EXTENDS EthMiner, PoolConnect, Backpressure, MailboxProofs, SequenceTheorems

-----------------------------------------------------------------------------
(* The ring, with any caller.                                              *)

LEMMA QueueStepTyped == QueueTypeOK /\ [QueueNext]_queueVars => QueueTypeOK'
<1> SUFFICES ASSUME QueueTypeOK, [QueueNext]_queueVars PROVE QueueTypeOK'
    OBVIOUS
<1> USE QueueAssumption
<1>1. ASSUME NEW p \in Pair, Add(p) PROVE QueueTypeOK'
    BY <1>1 DEF QueueTypeOK, Add, Advanced, Index
<1>2. CASE UNCHANGED queueVars
    BY <1>2 DEF QueueTypeOK, queueVars
<1> QED
    BY <1>1, <1>2 DEF QueueNext

\* The ring and its cursor stay in range: Add never writes outside the array.
THEOREM QueueTyped == QueueSpec => []QueueTypeOK
<1>1. NewJobqueueETH => QueueTypeOK
    BY QueueAssumption DEF NewJobqueueETH, QueueTypeOK, Index
<1> QED
    BY <1>1, QueueStepTyped, PTL DEF QueueSpec

-----------------------------------------------------------------------------
(* The ring read from the oldest entry to the newest.                      *)

\* Oldest numbers the indices of the array from 1 to Size, and Find looks at
\* them in the opposite order.
LEMMA Numbering ==
    ASSUME Pos \in Index
    PROVE  /\ \A k \in 1 .. Size : Oldest(k) \in Index /\ Rank(Oldest(k)) = Size - k
           /\ \A i \in Index : \E k \in 1 .. Size : Oldest(k) = i
<1> USE QueueAssumption DEF Index
<1>1. ASSUME NEW k \in 1 .. Size
      PROVE  Oldest(k) \in Index /\ Rank(Oldest(k)) = Size - k
    <2>1. CASE Pos + k - 1 < Size
        BY <2>1 DEF Oldest, Rank
    <2>2. CASE Pos + k - 1 >= Size
        BY <2>2 DEF Oldest, Rank
    <2> QED
        BY <2>1, <2>2
<1>2. ASSUME NEW i \in Index
      PROVE  \E k \in 1 .. Size : Oldest(k) = i
    <2>1. CASE i >= Pos
        <3>1. i - Pos + 1 \in 1 .. Size /\ Oldest(i - Pos + 1) = i
            BY <2>1 DEF Oldest
        <3> QED
            BY <3>1
    <2>2. CASE i < Pos
        <3>1. i - Pos + 1 + Size \in 1 .. Size /\ Oldest(i - Pos + 1 + Size) = i
            BY <2>2 DEF Oldest
        <3> QED
            BY <3>1
    <2> QED
        BY <2>1, <2>2
<1> QED
    BY <1>1, <1>2

\* Add forgets the oldest entry and becomes the newest one: seen from the oldest
\* entry on, every other one moves up by one place.
LEMMA AddShifts ==
    ASSUME QueueTypeOK, NEW p \in Pair, Add(p)
    PROVE  \A k \in 1 .. Size :
              Queue'[Oldest(k)'] = IF k < Size THEN Queue[Oldest(k + 1)] ELSE p
<1> USE QueueAssumption DEF Index
<1>1. Pos \in Index /\ Pos' = (IF Pos + 1 >= Size THEN 0 ELSE Pos + 1)
    BY DEF QueueTypeOK, Add, Advanced
<1>2. \A i \in Index : Queue'[i] = IF i = Pos THEN p ELSE Queue[i]
    BY DEF QueueTypeOK, Add
<1>3. ASSUME NEW k \in 1 .. Size, k < Size
      PROVE  Oldest(k)' = Oldest(k + 1) /\ Oldest(k + 1) \in Index /\ Oldest(k + 1) # Pos
    BY <1>1, <1>3 DEF Oldest
<1>4. Oldest(Size)' = Pos
    BY <1>1 DEF Oldest
<1> QED
    BY <1>1, <1>2, <1>3, <1>4

-----------------------------------------------------------------------------
\* The ring implements JobWindow: it remembers the last Size jobs and no other.
THEOREM RingImplementsWindow == QueueSpec => RemembersRecent
<1> USE QueueAssumption
<1> DEFINE window == [k \in 1 .. Size |-> Queue[Oldest(k)]]
<1>1. NewJobqueueETH => Window!WindowInit
    <2> SUFFICES ASSUME NewJobqueueETH PROVE Window!WindowInit
        OBVIOUS
    <2>1. Pos \in Index
        BY DEF NewJobqueueETH, Index
    <2>2. \A k \in 1 .. Size : Queue[Oldest(k)] = ZeroPair
        BY <2>1, Numbering DEF NewJobqueueETH
    <2> QED
        BY <2>2 DEF Window!WindowInit, Window!Age, Window!NoJob, ZeroPair
<1>2. QueueTypeOK /\ [QueueNext]_queueVars => [\E j \in Window!Jobs : Window!Remember(j)]_window
    <2> SUFFICES ASSUME QueueTypeOK, [QueueNext]_queueVars
                 PROVE  [\E j \in Window!Jobs : Window!Remember(j)]_window
        OBVIOUS
    <2>1. ASSUME NEW p \in Pair, Add(p) PROVE p \in Window!Jobs /\ Window!Remember(p)
        <3>1. \A k \in 1 .. Size :
                 window'[k] = IF k < Size THEN window[k + 1] ELSE p
            BY <2>1, AddShifts
        <3>2. window' = [k \in 1 .. Size |-> IF k < Size THEN window[k + 1] ELSE p]
            BY <3>1
        <3> QED
            BY <3>2 DEF Window!Remember, Window!Age, Window!Jobs, Pair
    <2>2. CASE UNCHANGED queueVars
        BY <2>2 DEF queueVars, Oldest
    <2> QED
        BY <2>1, <2>2 DEF QueueNext
<1> QED
    BY <1>1, <1>2, QueueTyped, PTL DEF QueueSpec, RemembersRecent, Window!WindowSpec

\* Find, which goes through the array in two loops, gives what a search of the
\* sent jobs from the latest to the earliest gives.
THEOREM FindIsLookup == QueueSpec => []FindsLatest
<1> USE QueueAssumption
<1>1. QueueTypeOK => FindsLatest
    <2> SUFFICES ASSUME QueueTypeOK, NEW h \in PowHash \cup {NoHash}
                 PROVE  Find(h) = Window!Lookup(h)
        BY DEF FindsLatest
    <2> DEFINE window == [k \in 1 .. Size |-> Queue[Oldest(k)]]
    <2>1. /\ \A k \in 1 .. Size : Oldest(k) \in Index /\ Rank(Oldest(k)) = Size - k
          /\ \A i \in Index : \E k \in 1 .. Size : Oldest(k) = i
        BY Numbering DEF QueueTypeOK
    <2>2. \A k, l \in 1 .. Size : Rank(Oldest(l)) < Rank(Oldest(k)) <=> l > k
        BY <2>1
    <2>3. \A k \in 1 .. Size : Stops(h, Oldest(k)) <=> Window!Latest(h, k)
        BY <2>1, <2>2 DEF Stops, Window!Latest, Window!Age
    <2>4. \A k, l \in 1 .. Size : Window!Latest(h, k) /\ Window!Latest(h, l) => k = l
        BY DEF Window!Latest, Window!Age
    <2>5. CASE \E k \in 1 .. Size : Window!Latest(h, k)
        <3>1. PICK k \in 1 .. Size : Window!Latest(h, k)
            BY <2>5
        <3>2. Stops(h, Oldest(k)) /\ Oldest(k) \in Index
            BY <3>1, <2>1, <2>3
        <3>3. \A i \in Index : Stops(h, i) => i = Oldest(k)
            BY <3>1, <2>1, <2>3, <2>4
        <3>4. (CHOOSE i \in Index : Stops(h, i)) = Oldest(k)
            BY <3>2, <3>3
        <3>5. (CHOOSE l \in 1 .. Size : Window!Latest(h, l)) = k
            BY <3>1, <2>4
        <3>6. Find(h) = Queue[Oldest(k)].jobID
            BY <3>2, <3>4 DEF Find
        <3>7. Window!Lookup(h) = window[k].jobID
            BY <3>1, <3>5 DEF Window!Lookup, Window!Age
        <3> QED
            BY <3>6, <3>7
    <2>6. CASE ~ \E k \in 1 .. Size : Window!Latest(h, k)
        <3>1. ~ \E i \in Index : Stops(h, i)
            BY <2>6, <2>1, <2>3
        <3> QED
            BY <2>6, <3>1 DEF Find, Window!Lookup, Window!Age
    <2> QED
        BY <2>5, <2>6
<1> QED
    BY <1>1, QueueTyped, PTL

-----------------------------------------------------------------------------
(* The miner.                                                              *)

\* What a login finds: nothing has been assigned before the first one, and a
\* miner that may still subscribe has not logged in.
LoginInv ==
    /\ stat = "connected" => loop \in {"Init", "ended"}
    /\ loop = "Init" => jobDiff = 0 /\ assigned.diff = Unset

\* The difficulty of each protocol: the one that is sent mining.set_difficulty
\* leaves jobDiff at 0, which no difficulty is, so it is told every one; the
\* others have theirs in jobDiff.  eth_submitLogin cannot be undone.
DifficultyInv ==
    /\ protocol = "EthereumStratum" => jobDiff = 0
    /\ assigned.diff # Unset /\ assigned.protocol = "ETHProxy" => protocol = "ETHProxy"
    /\ assigned.diff # Unset /\ assigned.protocol = protocol =>
          /\ protocol = "EthereumStratum" => told = assigned.diff
          /\ protocol # "EthereumStratum" => jobDiff = assigned.diff
          /\ work \in {Unset, assigned.diff}

\* The request that the next job answers has not been answered.
GetWorkInv ==
    /\ OneJobPerGetWork
    /\ ethGetWorkID # 0 => answers[ethGetWorkID] = 0

\* A hash of a fake job is remembered with an id of a fake job.
FakeInv ==
    /\ \A i \in Index : Queue[i].powHash \in FakeHash => Queue[i].jobID \in FakeJobID
    /\ RealSharesReachPool

\* Inductive.
MinerInv == MinerTypeOK /\ LoginInv /\ DifficultyInv /\ GetWorkInv /\ FakeInv

-----------------------------------------------------------------------------
(* The ring of a miner.                                                    *)

\* A session uses its ring as the ring's own specification says.
LEMMA MinerUsesQueue ==
    ASSUME [MinerNext]_minerVars
    PROVE  [QueueNext]_queueVars
<1>1. CASE SendJob
    BY <1>1 DEF SendJob, Readable, QueueNext
<1>2. CASE ~SendJob
    BY <1>2 DEF MinerNext, minerVars, Subscribe, Authorize, SubmitLogin, ParseEthGetWork,
                ParseMiningSubmit, HandleSetUpSession, SetDifficulty, SetExtraNonce, Departs, DownClose
<1> QED
    BY <1>1, <1>2

\* So all that is proved of the ring holds in the session.
LEMMA MinerImplementsQueue == MinerSpec => QueueSpec
<1>1. NewDownSessionETH => NewJobqueueETH
    BY DEF NewDownSessionETH
<1> QED
    BY <1>1, MinerUsesQueue, PTL DEF MinerSpec, QueueSpec

\* In a session too the ring is the window of the last Size jobs: a share for one
\* of them is never refused with "job not found".
THEOREM MinerRemembersRecent == MinerSpec => RemembersRecent
<1> QED
    BY MinerImplementsQueue, RingImplementsWindow, PTL

\* And a share is submitted under the id with which its hash was sent last.
THEOREM MinerFindsLatest == MinerSpec => []FindsLatest
<1> QED
    BY MinerImplementsQueue, FindIsLookup, PTL

\* What Find returns is the id of an entry with that hash.
LEMMA FoundIsThere ==
    ASSUME NEW h, Find(h) # Nil
    PROVE  \E i \in Index : Queue[i].powHash = h /\ Queue[i].jobID = Find(h)
<1>1. \E i \in Index : Stops(h, i)
    BY DEF Find
<1>2. PICK i \in Index : Stops(h, i) /\ i = CHOOSE j \in Index : Stops(h, j)
    BY <1>1
<1>3. Find(h) = Queue[i].jobID
    BY <1>1, <1>2 DEF Find
<1> QED
    BY <1>2, <1>3 DEF Stops

-----------------------------------------------------------------------------
(* The invariant.                                                          *)

LEMMA InitMinerInv == NewDownSessionETH => MinerInv
<1> SUFFICES ASSUME NewDownSessionETH PROVE MinerInv
    OBVIOUS
<1> USE QueueAssumption, MinerAssumption
<1>1. QueueTypeOK
    BY DEF NewDownSessionETH, NewJobqueueETH, QueueTypeOK, Index
<1>2. answers \in Seq(Nat) /\ Len(answers) = 0 /\ DOMAIN answers = {}
    BY DEF NewDownSessionETH
<1>3. MinerTypeOK
    <2>1. hasUpSession \in BOOLEAN /\ share \in [jobID : JobID \cup {Nil}, isFakeJob : BOOLEAN]
        BY DEF NewDownSessionETH, NoShare
    <2>2. assigned \in [diff : Difficulty \cup {Unset}, protocol : Protocols]
        BY DEF NewDownSessionETH, NoDifficulty, Protocols
    <2>3. ethGetWorkID \in 0 .. Len(answers)
        BY <1>2 DEF NewDownSessionETH
    <2> QED
        BY <1>1, <1>2, <2>1, <2>2, <2>3 DEF NewDownSessionETH, MinerTypeOK, Protocols
<1>4. LoginInv /\ DifficultyInv
    BY DEF NewDownSessionETH, LoginInv, DifficultyInv, NoDifficulty
<1>5. GetWorkInv
    BY <1>2 DEF NewDownSessionETH, GetWorkInv, OneJobPerGetWork
<1>6. FakeInv
    BY DEF NewDownSessionETH, NewJobqueueETH, FakeInv, RealSharesReachPool, NoShare, ZeroPair
<1> QED
    BY <1>3, <1>4, <1>5, <1>6 DEF MinerInv

\* The ring's part of the type invariant, and that every other variable is what
\* it may be.
LEMMA NextMinerTypeOK == MinerTypeOK /\ [MinerNext]_minerVars => MinerTypeOK'
<1> SUFFICES ASSUME MinerTypeOK, [MinerNext]_minerVars PROVE MinerTypeOK'
    OBVIOUS
<1>1. QueueTypeOK'
    BY MinerUsesQueue, QueueStepTyped DEF MinerTypeOK
<1>2. CASE Subscribe
    BY <1>1, <1>2 DEF Subscribe, MinerTypeOK, Protocols, downVars, diffVars, sentVars
<1>3. CASE Authorize
    BY <1>1, <1>3 DEF Authorize, LoopAfterLogin, MinerTypeOK, downVars, diffVars, sentVars
<1>4. CASE SubmitLogin
    BY <1>1, <1>4 DEF SubmitLogin, LoopAfterLogin, MinerTypeOK, Protocols, downVars, diffVars,
                      sentVars
<1>5. CASE ParseEthGetWork
    <2>1. answers' \in Seq(Nat) /\ ethGetWorkID' \in 0 .. Len(answers')
        BY <1>5 DEF ParseEthGetWork, MinerTypeOK
    <2> QED
        BY <1>1, <1>5, <2>1 DEF ParseEthGetWork, MinerTypeOK, loginVars, diffVars
<1>6. CASE ParseMiningSubmit
    <2>1. PICK h \in PowHash :
             /\ Find(h) # Nil
             /\ share' = [jobID |-> Find(h), isFakeJob |-> IsFakeJobIDETH(h)]
        BY <1>6 DEF ParseMiningSubmit
    <2>2. Find(h) \in JobID \cup {Nil}
        BY <2>1, FoundIsThere DEF MinerTypeOK, QueueTypeOK, Pair, ZeroPair
    <2>3. share' \in [jobID : JobID \cup {Nil}, isFakeJob : BOOLEAN]
        BY <2>1, <2>2 DEF IsFakeJobIDETH
    <2> QED
        BY <1>1, <1>6, <2>3 DEF ParseMiningSubmit, MinerTypeOK, loginVars, downVars, diffVars
<1>7. CASE HandleSetUpSession
    BY <1>1, <1>7 DEF HandleSetUpSession, MinerTypeOK, loginVars, diffVars, sentVars
<1>8. CASE SetDifficulty
    <2>1. PICK n \in Difficulty :
             /\ assigned' = [diff |-> n, protocol |-> protocol]
             /\ \/ told' = n /\ UNCHANGED jobDiff
                \/ jobDiff' = n /\ UNCHANGED told
        BY <1>8 DEF SetDifficulty
    <2> QED
        BY <1>1, <1>8, <2>1 DEF SetDifficulty, MinerTypeOK, loginVars
<1>9. CASE SetExtraNonce
    BY <1>1, <1>9 DEF SetExtraNonce, IsInvalid, DownClose, MinerTypeOK, ValidExtraNonce,
                      EthereumInvalidExtraNonce, loginVars, downVars, diffVars, sentVars
<1>10. CASE SendJob
    <2>1. answers' \in Seq(Nat) /\ Len(answers') = Len(answers)
        BY <1>10 DEF SendJob, AnswersAfterJob, MinerTypeOK
    <2>2. ethGetWorkID' \in 0 .. Len(answers')
        BY <1>10, <2>1 DEF SendJob, GetWorkIDAfterJob, MinerTypeOK
    <2>3. work' \in Difficulty \cup {0, Unset}
        BY <1>10 DEF SendJob, MinerTypeOK
    <2> QED
        BY <1>1, <1>10, <2>1, <2>2, <2>3 DEF SendJob, MinerTypeOK, loginVars, diffVars
<1>11. CASE Departs
    BY <1>1, <1>11 DEF Departs, DownClose, MinerTypeOK, downVars, diffVars, sentVars
<1>12. CASE UNCHANGED minerVars
    BY <1>1, <1>12 DEF MinerTypeOK, minerVars, loginVars, downVars, diffVars, sentVars
<1> QED
    BY <1>2, <1>3, <1>4, <1>5, <1>6, <1>7, <1>8, <1>9, <1>10, <1>11, <1>12 DEF MinerNext

\* The logins and the difficulties.  Every event of the pool session comes after
\* a login (loop = "Run"), when nobody can subscribe any more; so the protocol
\* under which a difficulty is assigned is given up for ETHProxy at most.
LEMMA NextDifficultyInv ==
    MinerTypeOK /\ LoginInv /\ DifficultyInv /\ [MinerNext]_minerVars => LoginInv' /\ DifficultyInv'
<1> SUFFICES ASSUME MinerTypeOK, LoginInv, DifficultyInv, [MinerNext]_minerVars
             PROVE  LoginInv' /\ DifficultyInv'
    OBVIOUS
<1> USE MinerAssumption DEF LoginInv, DifficultyInv
<1>1. CASE Subscribe
    BY <1>1 DEF Subscribe, Running, downVars, diffVars, sentVars
<1>2. CASE Authorize
    BY <1>2 DEF Authorize, LoopAfterLogin, downVars, diffVars, sentVars
<1>3. CASE SubmitLogin
    BY <1>3 DEF SubmitLogin, LoopAfterLogin, downVars, diffVars, sentVars
<1>4. CASE SetDifficulty
    <2>1. PICK n \in Difficulty :
             /\ assigned' = [diff |-> n, protocol |-> protocol]
             /\ IF Announces(n) THEN told' = n /\ UNCHANGED jobDiff
                                ELSE jobDiff' = n /\ UNCHANGED told
        BY <1>4 DEF SetDifficulty
    <2>2. n # 0 /\ n # Unset
        OBVIOUS
    <2>3. assigned'.diff = n /\ assigned'.protocol = protocol
        BY <2>1
    <2>4. /\ UNCHANGED <<loop, stat, protocol>>
          /\ work' = Unset /\ loop = "Run" /\ stat # "connected"
        BY <1>4 DEF SetDifficulty, loginVars
    <2>5. IF protocol = "EthereumStratum" THEN told' = n /\ jobDiff' = 0 ELSE jobDiff' = n
        BY <2>1, <2>2 DEF Announces
    <2> QED
        BY <2>3, <2>4, <2>5
<1>5. CASE SendJob
    BY <1>5 DEF SendJob, loginVars, diffVars
<1>6. CASE SetExtraNonce \/ Departs
    BY <1>6 DEF SetExtraNonce, Departs, DownClose, loginVars, downVars, diffVars, sentVars
<1>7. CASE ParseEthGetWork \/ ParseMiningSubmit \/ HandleSetUpSession \/ UNCHANGED minerVars
    BY <1>7 DEF ParseEthGetWork, ParseMiningSubmit, HandleSetUpSession, minerVars, loginVars,
                downVars, diffVars, sentVars
<1> QED
    BY <1>1, <1>2, <1>3, <1>4, <1>5, <1>6, <1>7 DEF MinerNext

\* eth_getWork and the jobs that answer it.
LEMMA NextGetWorkInv ==
    MinerTypeOK /\ GetWorkInv /\ [MinerNext]_minerVars => GetWorkInv'
<1> SUFFICES ASSUME MinerTypeOK, GetWorkInv, [MinerNext]_minerVars
             PROVE  GetWorkInv'
    OBVIOUS
<1> USE DEF GetWorkInv, OneJobPerGetWork
<1>1. answers \in Seq(Nat) /\ ethGetWorkID \in 0 .. Len(answers)
    BY DEF MinerTypeOK
<1>2. CASE ParseEthGetWork
    <2>1. answers' = Append(answers, 0) /\ ethGetWorkID' = Len(answers) + 1
        BY <1>1, <1>2 DEF ParseEthGetWork
    <2> QED
        BY <1>1, <2>1
<1>3. CASE SendJob
    <2>1. CASE protocol = "ETHProxy" /\ ethGetWorkID # 0
        <3>1. /\ answers' = [answers EXCEPT ![ethGetWorkID] = answers[ethGetWorkID] + 1]
              /\ ethGetWorkID' = 0
            BY <1>3, <2>1 DEF SendJob, AnswersAfterJob, GetWorkIDAfterJob
        <3>2. answers[ethGetWorkID] = 0 /\ ethGetWorkID \in DOMAIN answers
            BY <1>1, <2>1
        <3> QED
            BY <1>1, <3>1, <3>2
    <2>2. CASE ~(protocol = "ETHProxy" /\ ethGetWorkID # 0)
        BY <1>3, <2>2 DEF SendJob, AnswersAfterJob, GetWorkIDAfterJob
    <2> QED
        BY <2>1, <2>2
<1>4. CASE ~ParseEthGetWork /\ ~SendJob
    <2>1. UNCHANGED <<answers, ethGetWorkID>>
        BY <1>4 DEF MinerNext, minerVars, Subscribe, Authorize, SubmitLogin, ParseMiningSubmit,
                    HandleSetUpSession, SetDifficulty, SetExtraNonce, Departs, DownClose, downVars, sentVars
    <2> QED
        BY <2>1
<1> QED
    BY <1>2, <1>3, <1>4

\* A torn job has the hash of a real job and the id of a fake one at worst.
LEMMA NextFakeInv ==
    MinerTypeOK /\ FakeInv /\ [MinerNext]_minerVars => FakeInv'
<1> SUFFICES ASSUME MinerTypeOK, FakeInv, [MinerNext]_minerVars
             PROVE  FakeInv'
    OBVIOUS
<1> USE DEF FakeInv, RealSharesReachPool
<1>1. CASE SendJob
    <2>1. PICK p \in Readable : Add(p)
        BY <1>1 DEF SendJob
    <2>2. \A i \in Index : Queue'[i] = IF i = Pos THEN p ELSE Queue[i]
        BY <2>1 DEF Add, MinerTypeOK, QueueTypeOK
    <2>3. p.powHash \in FakeHash => p.jobID \in FakeJobID
        BY DEF Readable
    <2>4. share' = share
        BY <1>1 DEF SendJob
    <2> QED
        BY <2>2, <2>3, <2>4
<1>2. CASE ParseMiningSubmit
    <2>1. PICK h \in PowHash :
             /\ Find(h) # Nil
             /\ share' = [jobID |-> Find(h), isFakeJob |-> IsFakeJobIDETH(h)]
        BY <1>2 DEF ParseMiningSubmit
    <2>2. h \in FakeHash => Find(h) \in FakeJobID
        BY <2>1, FoundIsThere
    <2>3. share'.isFakeJob => share'.jobID \in FakeJobID
        BY <2>1, <2>2 DEF IsFakeJobIDETH
    <2>4. UNCHANGED queueVars
        BY <1>2 DEF ParseMiningSubmit
    <2> QED
        BY <2>3, <2>4 DEF queueVars
<1>3. CASE ~SendJob /\ ~ParseMiningSubmit
    <2>1. UNCHANGED <<Queue, share>>
        BY <1>3 DEF MinerNext, minerVars, Subscribe, Authorize, SubmitLogin, ParseEthGetWork,
                    HandleSetUpSession, SetDifficulty, SetExtraNonce, Departs, DownClose, queueVars, sentVars
    <2> QED
        BY <2>1
<1> QED
    BY <1>1, <1>2, <1>3

LEMMA MinerInvariant == MinerSpec => []MinerInv
<1>1. MinerInv /\ [MinerNext]_minerVars => MinerInv'
    BY NextMinerTypeOK, NextDifficultyInv, NextGetWorkInv, NextFakeInv DEF MinerInv
<1> QED
    BY InitMinerInv, <1>1, PTL DEF MinerSpec

-----------------------------------------------------------------------------
\* The session's variables stay in range, whatever a miner and a pool send.
THEOREM MinerTyped == MinerSpec => []MinerTypeOK
<1>1. MinerInv => MinerTypeOK
    BY DEF MinerInv
<1> QED
    BY <1>1, MinerInvariant, PTL

\* setDifficulty and sendJob agree: whatever the miner is sent since a difficulty
\* was assigned to it is of that difficulty, as long as it keeps its protocol.
THEOREM MinerHasDifficulty == MinerSpec => []DifficultyInForce
<1>1. MinerInv => DifficultyInForce
    BY DEF MinerInv, DifficultyInv, DifficultyInForce
<1> QED
    BY <1>1, MinerInvariant, PTL

\* An eth_getWork is answered once, though the next job and a second request may
\* cross.
THEOREM GetWorkAnsweredOnce == MinerSpec => []OneJobPerGetWork
<1>1. MinerInv => OneJobPerGetWork
    BY DEF MinerInv, GetWorkInv
<1> QED
    BY <1>1, MinerInvariant, PTL

\* The race between ToNewFakeJob and sendJob keeps no real share from the pool.
THEOREM NoRealShareIsKept == MinerSpec => []RealSharesReachPool
<1>1. MinerInv => RealSharesReachPool
    BY DEF MinerInv, FakeInv
<1> QED
    BY <1>1, MinerInvariant, PTL

-----------------------------------------------------------------------------
(* Connecting: what the channel holds, and the invariant.                  *)

IsConnection(e) == e.type = "UpSessionConnection"
IsAnswer(e) == e.type = "RecvJSONRPC"

Message ==
    [type : {"UpSessionConnection"}, route : Route, ok : BOOLEAN]
        \cup [type : {"RecvJSONRPC"}, id : Requests, ok : BOOLEAN]
        \cup {EventUpConnBroken}

\* The type invariant, with the channel as a sequence.
TypeInv ==
    /\ options \in Options
    /\ pool \in Pool
    /\ phase \in {"connect", "direct", "request", "handshake", "ready", "closed", "lost", "failed"}
    /\ stage \in [Route -> {"idle", "dialling", "testing", "sent", "heard"}]
    /\ conn \in [Route -> {"none", "open", "closed"}]
    /\ upChan \in Seq(Message)
    /\ up \in [stat : {"disconnected", "connected", "subscribed", "authorized"},
               serverConn : Route \cup {NoConn}, caps : BOOLEAN, sessionID : BOOLEAN]
    /\ readLoop \in BOOLEAN
    /\ due \subseteq Requests
    /\ granted \subseteq Requests \ {"auth"}

\* No two events of one route are in the channel.
HeardOnce ==
    \A i, j \in DOMAIN upChan :
       IsConnection(upChan[i]) /\ IsConnection(upChan[j]) /\ upChan[i].route = upChan[j].route => i = j

\* The connection that a tryConnect has.
StageInv ==
    \A r \in Route : /\ stage[r] \in {"idle", "dialling"} => conn[r] = "none"
                     /\ stage[r] = "testing" => conn[r] = "open"

\* An event of a tryConnect is on its way exactly once, and only between its
\* sending and the handler that hears it.
TryInv ==
    /\ \A r \in Route : InChannel(r) => stage[r] = "sent"
    /\ HeardOnce
    /\ \A i \in DOMAIN upChan :
          IsConnection(upChan[i]) /\ upChan[i].ok => conn[upChan[i].route] = "open"
    /\ StageInv

\* What each phase has of a session.
SessionInv ==
    /\ phase \in {"connect", "direct"} => up = NewUpSession
    /\ phase \in {"request", "handshake", "ready"} =>
          up.stat # "disconnected" /\ up.serverConn \in Route /\ stage[up.serverConn] = "heard"
    /\ phase \in {"closed", "lost", "failed"} => up.stat = "disconnected"

\* That the connection which is taken is the session's until it closes follows
\* from the three together.
RouteInv == TryInv /\ ConnOwned /\ SessionInv

\* Nobody but the race and the direct connection after it is dialled; the latter
\* is the phase "direct".
DialledInv ==
    /\ DirectIsLastResort
    /\ \A r \in Route : stage[r] # "idle" => r \in Racing \cup {DirectAfter}
    /\ phase = "connect" => Racing # {} /\ stage[DirectAfter] = "idle"
    /\ phase = "direct" => stage[DirectAfter] # "idle"

ReadingInv == up.serverConn = NoConn => ~readLoop

\* When all routes have failed nothing is left to happen.
LostInv ==
    phase = "failed" /\ up.serverConn = NoConn =>
       \A r \in Route : stage[r] \in {"idle", "sent", "heard"}

RaceInv == DialledInv /\ ReadingInv /\ LostInv

\* No request is answered twice.
AnsweredOnce ==
    /\ \A i \in DOMAIN upChan : IsAnswer(upChan[i]) => upChan[i].id \notin due
    /\ \A i, j \in DOMAIN upChan :
          IsAnswer(upChan[i]) /\ IsAnswer(upChan[j]) /\ upChan[i].id = upChan[j].id => i = j

\* A good answer to q is on its way, and mining.authorize is not answered before it.
IsComing(q) ==
    \E i \in DOMAIN upChan :
       /\ upChan[i] = EventRecvJSONRPCETH(q, TRUE)
       /\ \A j \in DOMAIN upChan : IsAnswer(upChan[j]) /\ upChan[j].id = "auth" => i < j

\* What a good answer to q leaves in the session.
Knows(q) == (q = "caps" => up.caps = TRUE) /\ (q = "sub" => up.sessionID = TRUE)

\* What has been granted is known, or will be before the session is ready.
Learns(q) ==
    \/ ~Awaits(q) /\ Knows(q)
    \/ phase = "handshake" /\ IsComing(q)

GrantsKept == \A q \in granted : Learns(q)

\* A session that has been refused its session id is closed.
NotRefused == up.sessionID = TRUE \/ Awaits("sub")

StaysAuthorized == phase = "ready" /\ "sub" \in granted => up.stat = "authorized"

AnswerInv == AnsweredOnce /\ GrantsKept /\ NotRefused /\ StaysAuthorized

NoAnswer == due = {} /\ granted = {} /\ \A i \in DOMAIN upChan : ~IsAnswer(upChan[i])

HandshakeInv ==
    /\ phase \in {"connect", "direct", "request"} => NoAnswer
    /\ phase \in {"handshake", "ready"} => AnswerInv
    /\ phase \in {"ready", "lost"} => "auth" \notin due
    /\ phase = "lost" => "sub" \notin granted

\* Inductive.
ConnectInv == TypeInv /\ RouteInv /\ RaceInv /\ HandshakeInv
-----------------------------------------------------------------------------
(* The steps, by what they do to the channel and the connections.          *)

\* An attempt at a pool that has just begun.
Fresh ==
    /\ options \in Options
    /\ pool \in Pool
    /\ phase = IF Racing = {} THEN "direct" ELSE "connect"
    /\ stage = Starting
    /\ conn = [r \in Route |-> "none"]
    /\ upChan = <<>>
    /\ up = NewUpSession
    /\ readLoop = FALSE
    /\ due = {}
    /\ granted = {}

\* A tryConnect ends, with a connection on which the pool answered or without.
Tried(r, ok, c) ==
    /\ stage[r] \in {"dialling", "testing"}
    /\ ok => c = "open" /\ conn[r] = "open"
    /\ c = "open" => stage[r] = "testing"
    /\ c \in {"none", "open", "closed"}
    /\ TryEnds(r, ok, c)

\* What the handler of a failure does unless the pool is given up.
HearsOn(r) ==
    /\ \/ phase = "connect" /\ ~RaceIsLost(r) /\ stage' = Heard(r) /\ UNCHANGED phase
       \/ /\ phase = "connect" /\ RaceIsLost(r) /\ phase' = "direct"
          /\ stage' = [Heard(r) EXCEPT ![DirectAfter] = "dialling"]
    /\ conn' = AfterError(r)
    /\ upChan' = Tail(upChan)
    /\ UNCHANGED <<options, pool, sessionVars>>

\* The failure of the last route of the last pool.
Fails(r) ==
    /\ phase = "direct" \/ (phase = "connect" /\ RaceIsLost(r) /\ ~options.DirectConnectAfterProxy)
    /\ pool = PoolNum
    /\ phase' = "failed"
    /\ conn' = AfterError(r)
    /\ upChan' = Tail(upChan)
    /\ up' = [up EXCEPT !.stat = "disconnected"]
    /\ UNCHANGED <<options, pool, stage, readLoop, requestVars>>

\* The session that has taken a connection closes it, and no other pool is tried.
Shuts(events) ==
    /\ phase \in {"request", "handshake", "ready"}
    /\ phase' = IF phase # "ready" THEN "failed" ELSE IF up.stat = "authorized" THEN "closed" ELSE "lost"
    /\ phase # "ready" => pool = PoolNum
    /\ conn' = Closed(up.serverConn)
    /\ upChan' = events
    /\ up' = [up EXCEPT !.stat = "disconnected"]
    /\ UNCHANGED <<options, pool, stage, readLoop, requestVars>>

\* An answer of the pool that makes no trouble.
Answered(id) ==
    /\ Looping
    /\ NextIs("RecvJSONRPC") /\ Head(upChan).id = id
    /\ up' = CASE id = "sub"  -> [up EXCEPT !.sessionID = TRUE, !.stat = "subscribed"]
               [] id = "auth" -> [up EXCEPT !.stat = "authorized"]
               [] OTHER       -> [up EXCEPT !.caps = Head(upChan).ok]
    /\ id # "caps" => Head(upChan).ok = TRUE
    /\ phase' = IF id = "auth" THEN "ready" ELSE phase
    /\ upChan' = Tail(upChan)
    /\ UNCHANGED <<options, pool, tryVars, readLoop, requestVars>>

\* All that there is.
StepKind ==
    \/ \E r \in Route : DialSucceeds(r)
    \/ \E r \in Route, ok \in BOOLEAN, c \in {"none", "open", "closed"} : Tried(r, ok, c)
    \/ TakesConnection
    \/ NextIs("UpSessionConnection") /\ ~Head(upChan).ok
          /\ (HearsOn(Head(upChan).route) \/ Fails(Head(upChan).route))
    \/ TriesNextPool /\ pool # PoolNum /\ phase \notin {"ready", "closed", "lost", "failed"}
          /\ UNCHANGED options
    \/ Shuts(upChan)
    \/ upChan # <<>> /\ Head(upChan).type # "UpSessionConnection" /\ Shuts(Tail(upChan))
    \/ SendInitRequest
    \/ PoolAnswers
    \/ ReaderBreaks
    \/ \E id \in Requests : Answered(id)
    \/ OutdatedUpSessionConnection
    \/ UNCHANGED vars

LEMMA UpCloseKind ==
    ASSUME UpClose, Looping, UNCHANGED options
    PROVE  \/ Shuts(Tail(upChan))
           \/ TriesNextPool /\ pool # PoolNum /\ phase \notin {"ready", "closed", "lost", "failed"}
<1>1. CASE phase = "ready"
    BY <1>1 DEF UpClose, Shuts
<1>2. CASE phase # "ready"
    BY <1>2 DEF UpClose, Shuts, GivesUp, LastPool, Looping
<1> QED
    BY <1>1, <1>2

LEMMA StepKinds ==
    ASSUME ConnectInv, [Next]_vars
    PROVE  StepKind
<1> USE DEF StepKind
<1>1. ASSUME NEW r \in Route, TryConnect(r) PROVE StepKind
    <2>1. stage[r] = "testing" => conn[r] = "open"
        BY DEF ConnectInv, RouteInv, TryInv, StageInv
    <2>2. CASE DialFails(r)
        <3>1. Tried(r, FALSE, "none")
            BY <2>2 DEF DialFails, Tried
        <3> QED
            BY <3>1
    <2>3. CASE DialSucceeds(r)
        BY <2>3
    <2>4. CASE TestSucceeds(r)
        <3>1. Tried(r, TRUE, "open")
            BY <2>1, <2>4 DEF TestSucceeds, Tried
        <3> QED
            BY <3>1
    <2>5. CASE TestFails(r)
        <3>1. Tried(r, FALSE, "open")
            BY <2>5 DEF TestFails, Tried
        <3> QED
            BY <3>1
    <2>6. CASE TestTimesOut(r)
        <3>1. Tried(r, FALSE, "closed")
            BY <2>6 DEF TestTimesOut, Tried
        <3> QED
            BY <3>1
    <2> QED
        BY <1>1, <2>2, <2>3, <2>4, <2>5, <2>6 DEF TryConnect
<1>2. CASE HearsFailure
    <2> DEFINE r == Head(upChan).route
    <2>1. phase \in {"connect", "direct"} /\ NextIs("UpSessionConnection") /\ ~Head(upChan).ok
        BY <1>2 DEF HearsFailure
    <2>2. \/ HearsOn(r)
          \/ /\ phase = "direct" \/ (RaceIsLost(r) /\ ~options.DirectConnectAfterProxy)
             /\ GivesUp(AfterError(r), Tail(upChan))
             /\ UNCHANGED options
        BY <1>2 DEF HearsFailure, HearsOn
    <2>3. GivesUp(AfterError(r), Tail(upChan)) <=>
             \/ pool # PoolNum /\ TriesNextPool
             \/ /\ pool = PoolNum /\ phase' = "failed" /\ conn' = AfterError(r) /\ upChan' = Tail(upChan)
                /\ up' = [up EXCEPT !.stat = "disconnected"]
                /\ UNCHANGED <<pool, stage, readLoop, requestVars>>
        BY DEF GivesUp, LastPool
    <2> QED
        BY <2>1, <2>2, <2>3 DEF Fails
<1>3. CASE SendInitRequestFails
    BY <1>3 DEF SendInitRequestFails, GivesUp, LastPool, Shuts
<1>4. CASE HandleSubScribeResponse
    <2>1. CASE UpClose
        BY <1>4, <2>1, UpCloseKind DEF HandleSubScribeResponse, NextIs
    <2>2. CASE ~UpClose
        <3>1. Head(upChan) \in Message
            BY <1>4 DEF HandleSubScribeResponse, NextIs, ConnectInv, TypeInv
        <3>2. Head(upChan).ok = TRUE
            BY <1>4, <2>2, <3>1 DEF HandleSubScribeResponse, SubIsGood, NextIs, Message, EventUpConnBroken
        <3>3. Answered("sub")
            BY <1>4, <2>2, <3>2 DEF HandleSubScribeResponse, Answered, tryVars
        <3> QED
            BY <3>3 DEF Requests
    <2> QED
        BY <2>1, <2>2
<1>5. CASE HandleAuthorizeResponse
    <2>1. CASE UpClose
        BY <1>5, <2>1, UpCloseKind DEF HandleAuthorizeResponse, NextIs
    <2>2. CASE ~UpClose
        <3>1. Head(upChan) \in Message
            BY <1>5 DEF HandleAuthorizeResponse, NextIs, ConnectInv, TypeInv
        <3>2. Head(upChan).ok = TRUE
            BY <1>5, <2>2, <3>1 DEF HandleAuthorizeResponse, NextIs, Message, EventUpConnBroken
        <3>3. Answered("auth")
            BY <1>5, <2>2, <3>2 DEF HandleAuthorizeResponse, Answered, tryVars
        <3> QED
            BY <3>3 DEF Requests
    <2> QED
        BY <2>1, <2>2
<1>6. CASE HandleGetCapsResponse
    BY <1>6 DEF HandleGetCapsResponse, Answered, tryVars, Requests
<1>8. CASE ConnBroken
    BY <1>8, UpCloseKind DEF ConnBroken, NextIs
<1>9. CASE HandleResponse
    BY <1>9 DEF HandleResponse
<1> QED
    BY <1>1, <1>2, <1>3, <1>4, <1>5, <1>6, <1>8, <1>9 DEF Next, SlotRuns, HandleEvent

-----------------------------------------------------------------------------
(* An attempt begins.                                                      *)

LEMMA FreshInv == Fresh => ConnectInv
<1> SUFFICES ASSUME Fresh PROVE ConnectInv
    OBVIOUS
<1> USE ConnectAssumption
<1>1. /\ DOMAIN upChan = {} /\ upChan \in Seq(Message)
      /\ \A r \in Route : ~InChannel(r)
    BY DEF Fresh, InChannel
<1>3. \A r \in Route : /\ stage[r] = IF r \in FirstRoutes THEN "dialling" ELSE "idle"
                       /\ conn[r] = "none"
    BY DEF Fresh, Starting
<1>4. Racing \subseteq Route /\ DirectAfter \in Route /\ DirectAfter \notin Racing
    BY DEF Fresh, Options, Racing, Route
<1>5. TypeInv
    <2>1. up \in [stat : {"disconnected", "connected", "subscribed", "authorized"},
                  serverConn : Route \cup {NoConn}, caps : BOOLEAN, sessionID : BOOLEAN]
        BY DEF Fresh, NewUpSession
    <2>2. readLoop \in BOOLEAN
        BY DEF Fresh
    <2>3. conn \in [Route -> {"none", "open", "closed"}]
        BY DEF Fresh
    <2>4. stage \in [Route -> {"idle", "dialling", "testing", "sent", "heard"}]
        BY DEF Fresh, Starting
    <2> QED
        BY <1>1, <2>1, <2>2, <2>3, <2>4 DEF Fresh, TypeInv
<1>6. RouteInv
    BY <1>1, <1>3 DEF Fresh, RouteInv, TryInv, StageInv, SessionInv, HeardOnce, ConnOwned, NewUpSession
<1>7. RaceInv
    BY <1>3, <1>4 DEF Fresh, RaceInv, DialledInv, ReadingInv, LostInv, DirectIsLastResort, FirstRoutes
<1>8. HandshakeInv
    BY <1>1 DEF Fresh, HandshakeInv, NoAnswer
<1> QED
    BY <1>5, <1>6, <1>7, <1>8 DEF ConnectInv

LEMMA InitConnectInv == Init => ConnectInv
<1>1. Init => Fresh
    BY ConnectAssumption DEF Init, Fresh, Pool
<1> QED
    BY <1>1, FreshInv

LEMMA NextPoolIsFresh ==
    ASSUME ConnectInv, TriesNextPool, pool # PoolNum, UNCHANGED options
    PROVE  ConnectInv'
<1>1. Fresh'
    <2>1. options \in Options /\ pool \in Pool
        BY DEF ConnectInv, TypeInv
    <2>2. pool + 1 \in Pool
        BY <2>1, ConnectAssumption DEF Pool
    <2>3. Racing' = Racing /\ Starting' = Starting
        BY DEF Racing, Starting, FirstRoutes
    <2> QED
        BY <2>1, <2>2, <2>3 DEF TriesNextPool, Fresh
<1> QED
    BY <1>1, FreshInv, PTL

-----------------------------------------------------------------------------
(* The invariant, step by step.                                            *)

LEMMA Typed == TypeInv => ConnectTypeOK
<1> SUFFICES ASSUME TypeInv PROVE ConnectTypeOK
    OBVIOUS
<1>1. \A i \in DOMAIN upChan : upChan[i] \in Message
    BY DEF TypeInv
<1> QED
    BY <1>1 DEF TypeInv, ConnectTypeOK, Message

\* What the channel's head is, and what the channel is without it.
LEMMA HeadFacts ==
    ASSUME TypeInv, upChan # <<>>
    PROVE  /\ Head(upChan) \in Message /\ Head(upChan) = upChan[1] /\ 1 \in DOMAIN upChan
           /\ Tail(upChan) \in Seq(Message)
           /\ DOMAIN Tail(upChan) = 1 .. Len(upChan) - 1
           /\ \A i \in 1 .. Len(upChan) - 1 : Tail(upChan)[i] = upChan[i + 1] /\ i + 1 \in DOMAIN upChan
<1> QED
    BY HeadTailProperties DEF TypeInv

LEMMA NextTypeInv ==
    ASSUME ConnectInv, StepKind
    PROVE  TypeInv'
<1> USE DEF TypeInv
<1>1. TypeInv
    BY DEF ConnectInv
<1>2. upChan # <<>> => Tail(upChan) \in Seq(Message) /\ Head(upChan) \in Message
    BY <1>1, HeadFacts
<1>3. \A r : /\ Closed(r) \in [Route -> {"none", "open", "closed"}]
             /\ AfterError(r) \in [Route -> {"none", "open", "closed"}]
             /\ Outdated(r) \in [Route -> {"none", "open", "closed"}]
             /\ Heard(r) \in [Route -> {"idle", "dialling", "testing", "sent", "heard"}]
    BY <1>1 DEF Closed, AfterError, Outdated, Heard
<1>4. ASSUME NEW r \in Route, DialSucceeds(r) PROVE TypeInv'
    BY <1>1, <1>4 DEF DialSucceeds, sessionVars, requestVars
<1>5. ASSUME NEW r \in Route, NEW ok \in BOOLEAN, NEW c \in {"none", "open", "closed"}, Tried(r, ok, c)
      PROVE  TypeInv'
    <2>1. EventUpSessionConnection(r, ok) \in Message
        BY DEF EventUpSessionConnection, Message
    <2> QED
        BY <1>1, <1>5, <2>1 DEF Tried, TryEnds, sessionVars, requestVars
<1>6. CASE TakesConnection
    <2>1. Head(upChan).route \in Route
        BY <1>2, <1>6 DEF TakesConnection, NextIs, Message, EventUpConnBroken
    <2> QED
        BY <1>1, <1>2, <1>3, <1>6, <2>1 DEF TakesConnection, NextIs, requestVars
<1>7. ASSUME NEW r, upChan # <<>>, HearsOn(r) \/ Fails(r) PROVE TypeInv'
    <2>1. [Heard(r) EXCEPT ![DirectAfter] = "dialling"]
             \in [Route -> {"idle", "dialling", "testing", "sent", "heard"}]
        BY <1>3
    <2>2. [up EXCEPT !.stat = "disconnected"]
             \in [stat : {"disconnected", "connected", "subscribed", "authorized"},
                  serverConn : Route \cup {NoConn}, caps : BOOLEAN, sessionID : BOOLEAN]
        BY <1>1
    <2>3. CASE HearsOn(r)
        BY <1>1, <1>2, <1>3, <1>7, <2>1, <2>3 DEF HearsOn, sessionVars, requestVars
    <2>4. CASE Fails(r)
        BY <1>1, <1>2, <1>3, <1>7, <2>2, <2>4 DEF Fails, requestVars
    <2> QED
        BY <1>7, <2>3, <2>4
<1>8. CASE TriesNextPool /\ pool # PoolNum /\ UNCHANGED options
    BY <1>8, NextPoolIsFresh DEF ConnectInv
<1>9. ASSUME NEW events \in Seq(Message), Shuts(events) PROVE TypeInv'
    BY <1>1, <1>3, <1>9 DEF Shuts, requestVars
<1>10. CASE SendInitRequest
    <2>1. UNCHANGED <<options, pool, stage, conn, upChan, up, readLoop, granted>> /\ phase' = "handshake"
        BY <1>10 DEF SendInitRequest, tryVars
    <2>2. due' \subseteq Requests
        BY <1>10 DEF SendInitRequest
    <2> QED
        BY <1>1, <2>1, <2>2
<1>11. CASE PoolAnswers
    <2>1. PICK q \in due, ok \in BOOLEAN :
             /\ upChan' = Append(upChan, EventRecvJSONRPCETH(q, ok))
             /\ due' = due \ {q}
             /\ granted' = IF ok /\ "auth" \in due' THEN granted \cup {q} ELSE granted
        BY <1>11 DEF PoolAnswers
    <2>2. EventRecvJSONRPCETH(q, ok) \in Message
        BY <1>1 DEF EventRecvJSONRPCETH, Message
    <2>3. due \subseteq Requests /\ granted \subseteq Requests \ {"auth"} /\ upChan \in Seq(Message)
        BY <1>1
    <2>4. due' \subseteq Requests /\ granted' \subseteq Requests \ {"auth"}
        BY <2>1, <2>3
    <2>5. upChan' \in Seq(Message)
        BY <2>1, <2>2, <2>3
    <2>6. UNCHANGED <<options, pool, phase, stage, conn, up, readLoop>>
        BY <1>11 DEF PoolAnswers, tryVars
    <2> QED
        BY <1>1, <2>4, <2>5, <2>6
<1>12. CASE ReaderBreaks
    <2>1. upChan' \in Seq(Message)
        <3>1. upChan' = Append(upChan, EventUpConnBroken) /\ EventUpConnBroken \in Message
            BY <1>12 DEF ReaderBreaks, Message
        <3> QED
            BY <1>1, <3>1
    <2>3. readLoop' \in BOOLEAN
        BY <1>12 DEF ReaderBreaks
    <2>2. UNCHANGED <<options, pool, phase, stage, conn, up, due, granted>>
        BY <1>12 DEF ReaderBreaks, tryVars, requestVars
    <2> QED
        BY <1>1, <2>1, <2>2, <2>3
<1>13. ASSUME NEW id \in Requests, Answered(id) PROVE TypeInv'
    <2>1. up' \in [stat : {"disconnected", "connected", "subscribed", "authorized"},
                   serverConn : Route \cup {NoConn}, caps : BOOLEAN, sessionID : BOOLEAN]
        <3>1. Head(upChan) \in Message /\ Head(upChan).type = "RecvJSONRPC"
            BY <1>2, <1>13 DEF Answered, NextIs
        <3>2. Head(upChan).ok \in BOOLEAN
            BY <3>1 DEF Message, EventUpConnBroken
        <3> QED
            BY <1>1, <1>13, <3>2 DEF Answered
    <2>2. UNCHANGED <<options, pool, stage, conn, readLoop, due, granted>>
        BY <1>13 DEF Answered, tryVars, requestVars
    <2>3. upChan' \in Seq(Message)
        BY <1>2, <1>13 DEF Answered, NextIs
    <2>4. phase' \in {"handshake", "ready"}
        BY <1>13 DEF Answered, Looping
    <2> QED
        BY <1>1, <2>1, <2>2, <2>3, <2>4
<1>14. CASE OutdatedUpSessionConnection
    BY <1>1, <1>2, <1>3, <1>14 DEF OutdatedUpSessionConnection, NextIs, sessionVars, requestVars
<1>15. CASE UNCHANGED vars
    BY <1>1, <1>15 DEF vars, tryVars, sessionVars, requestVars
<1> QED
    BY <1>1, <1>2, <1>4, <1>5, <1>6, <1>7, <1>8, <1>9, <1>10, <1>11, <1>12, <1>13, <1>14, <1>15
    DEF StepKind, NextIs

\* The events of connections when one event is taken off the channel.
LEMMA TailChannel ==
    ASSUME TypeInv, HeardOnce, upChan # <<>>, upChan' = Tail(upChan)
    PROVE  /\ HeardOnce'
           /\ \A q : InChannel(q)' <=> InChannel(q) /\ ~(IsConnection(Head(upChan)) /\ Head(upChan).route = q)
           /\ \A i \in DOMAIN upChan' : \E j \in DOMAIN upChan : upChan'[i] = upChan[j]
<1>1. /\ Head(upChan) = upChan[1] /\ 1 \in DOMAIN upChan /\ DOMAIN upChan = 1 .. Len(upChan)
      /\ DOMAIN upChan' = 1 .. Len(upChan) - 1 /\ Len(upChan) \in Nat
      /\ \A i \in DOMAIN upChan' : upChan'[i] = upChan[i + 1] /\ i + 1 \in DOMAIN upChan
    BY HeadFacts DEF TypeInv
<1>2. HeardOnce'
    BY <1>1 DEF HeardOnce, IsConnection
<1>3. ASSUME NEW q, InChannel(q)'
      PROVE  InChannel(q) /\ ~(IsConnection(Head(upChan)) /\ Head(upChan).route = q)
    <2>1. PICK i \in DOMAIN upChan' : upChan'[i].type = "UpSessionConnection" /\ upChan'[i].route = q
        BY <1>3 DEF InChannel
    <2>2. upChan'[i] = upChan[i + 1] /\ i + 1 \in DOMAIN upChan /\ i + 1 # 1
        BY <1>1
    <2> QED
        BY <1>1, <2>1, <2>2 DEF InChannel, HeardOnce, IsConnection
<1>4. ASSUME NEW q, InChannel(q), ~(IsConnection(Head(upChan)) /\ Head(upChan).route = q)
      PROVE  InChannel(q)'
    <2>1. PICK i \in DOMAIN upChan : upChan[i].type = "UpSessionConnection" /\ upChan[i].route = q
        BY <1>4 DEF InChannel
    <2>2. i # 1
        BY <1>1, <1>4, <2>1 DEF IsConnection
    <2>3. i - 1 \in DOMAIN upChan' /\ upChan'[i - 1] = upChan[i]
        BY <1>1, <2>2
    <2> QED
        BY <2>1, <2>3 DEF InChannel
<1> QED
    BY <1>1, <1>2, <1>3, <1>4

\* And when one is added.
LEMMA AppendChannel ==
    ASSUME TypeInv, HeardOnce, NEW e \in Message, upChan' = Append(upChan, e),
           IsConnection(e) => ~InChannel(e.route)
    PROVE  /\ HeardOnce'
           /\ \A q : InChannel(q)' <=> InChannel(q) \/ (IsConnection(e) /\ e.route = q)
           /\ \A i \in DOMAIN upChan' : upChan'[i] = e \/ \E j \in DOMAIN upChan : upChan'[i] = upChan[j]
<1>1. /\ DOMAIN upChan = 1 .. Len(upChan) /\ Len(upChan) \in Nat
      /\ DOMAIN upChan' = 1 .. Len(upChan) + 1
      /\ upChan'[Len(upChan) + 1] = e
      /\ \A i \in DOMAIN upChan : upChan'[i] = upChan[i]
    BY AppendProperties DEF TypeInv
<1>2. \A i \in DOMAIN upChan' : i \in DOMAIN upChan \/ i = Len(upChan) + 1
    BY <1>1
<1>3. HeardOnce'
    BY <1>1, <1>2 DEF HeardOnce, IsConnection, InChannel
<1>4. ASSUME NEW q
      PROVE  InChannel(q)' <=> InChannel(q) \/ (IsConnection(e) /\ e.route = q)
    BY <1>1, <1>2 DEF InChannel, IsConnection
<1> QED
    BY <1>1, <1>2, <1>3, <1>4

\* The event at the head, if it is of a tryConnect.
LEMMA HeadConnection ==
    ASSUME TypeInv, TryInv, NextIs("UpSessionConnection")
    PROVE  LET r == Head(upChan).route
           IN  /\ upChan # <<>> /\ r \in Route /\ InChannel(r) /\ stage[r] = "sent"
               /\ Head(upChan).ok => conn[r] = "open"
               /\ Head(upChan) \in Message /\ IsConnection(Head(upChan))
<1>1. /\ upChan # <<>> /\ Head(upChan) \in Message /\ Head(upChan) = upChan[1] /\ 1 \in DOMAIN upChan
      /\ Head(upChan).type = "UpSessionConnection"
    BY HeadFacts DEF NextIs
<1>2. Head(upChan).route \in Route
    BY <1>1 DEF Message, EventUpConnBroken
<1>3. InChannel(Head(upChan).route)
    BY <1>1 DEF InChannel
<1> QED
    BY <1>1, <1>2, <1>3 DEF TryInv, IsConnection

\* Nothing is sent, and only what concerns the route x changes.
LEMMA TryInvKept ==
    ASSUME TypeInv, TryInv, HeardOnce', NEW STATE x,
           \A q : InChannel(q)' => InChannel(q) /\ q # x,
           \A i \in DOMAIN upChan' :
              IsConnection(upChan'[i]) => \E j \in DOMAIN upChan : upChan'[i] = upChan[j],
           \A q \in Route : q # x =>
              /\ conn'[q] = conn[q]
              /\ stage'[q] = stage[q] \/ (stage[q] = "idle" /\ stage'[q] = "dialling"),
           x \in Route => stage'[x] \in {"sent", "heard"}
    PROVE  TryInv'
<1>events. \A i \in DOMAIN upChan : IsConnection(upChan[i]) /\ upChan[i].ok => conn[upChan[i].route] = "open"
    BY DEF TryInv
<1>stages. StageInv
    BY DEF TryInv
<1>1. \A q \in Route : InChannel(q)' => stage'[q] = "sent"
    BY DEF TryInv
<1>2. ASSUME NEW i \in DOMAIN upChan', IsConnection(upChan'[i]), upChan'[i].ok
      PROVE  conn'[upChan'[i].route] = "open"
    <2>1. PICK j \in DOMAIN upChan : upChan'[i] = upChan[j]
        BY <1>2
    <2>2. conn[upChan[j].route] = "open"
        BY <1>2, <1>events, <2>1
    <2>3. upChan[j].route \in Route
        <3>1. upChan[j] \in Message
            BY DEF TypeInv
        <3> QED
            BY <1>2, <2>1, <3>1 DEF IsConnection, Message, EventUpConnBroken
    <2>4. upChan[j].route # x
        <3>1. PICK q \in Route : q = upChan[j].route
            BY <2>3
        <3>2. InChannel(q)'
            BY <1>2, <2>1, <3>1 DEF InChannel, IsConnection
        <3> QED
            BY <3>1, <3>2
    <2> QED
        BY <2>1, <2>2, <2>3, <2>4
<1>3. ASSUME NEW q \in Route
      PROVE  /\ stage'[q] \in {"idle", "dialling"} => conn'[q] = "none"
             /\ stage'[q] = "testing" => conn'[q] = "open"
    <2>1. CASE q = x
        BY <2>1
    <2>2. CASE q # x
        <3>1. /\ conn'[q] = conn[q]
              /\ stage'[q] = stage[q] \/ (stage[q] = "idle" /\ stage'[q] = "dialling")
            BY <2>2
        <3> QED
            BY <1>stages, <3>1 DEF StageInv
    <2> QED
        BY <2>1, <2>2
<1> QED
    BY <1>1, <1>2, <1>3 DEF TryInv, StageInv

\* The steps that leave the routes alone, and add no event of a connection.
Elsewhere ==
    /\ UNCHANGED <<stage, conn>>
    /\ HeardOnce'
    /\ \A q : InChannel(q)' <=> InChannel(q)
    /\ \A i \in DOMAIN upChan' : IsConnection(upChan'[i]) => \E j \in DOMAIN upChan : upChan'[i] = upChan[j]

LEMMA ElsewhereSteps ==
    ASSUME ConnectInv,
           \/ SendInitRequest \/ PoolAnswers \/ ReaderBreaks
           \/ \E id \in Requests : Answered(id)
           \/ UNCHANGED vars
    PROVE  Elsewhere
<1>1. TypeInv /\ HeardOnce
    BY DEF ConnectInv, RouteInv, TryInv
<1>2. UNCHANGED <<stage, conn>>
    BY DEF SendInitRequest, PoolAnswers, ReaderBreaks, Answered, vars, tryVars
<1>3. CASE upChan' = upChan
    BY <1>1, <1>2, <1>3 DEF Elsewhere, HeardOnce, InChannel
<1>4. ASSUME NEW e \in Message, ~IsConnection(e), upChan' = Append(upChan, e)
      PROVE  Elsewhere
    <2>1. /\ HeardOnce'
          /\ \A q : InChannel(q)' <=> InChannel(q)
          /\ \A i \in DOMAIN upChan' : upChan'[i] = e \/ \E j \in DOMAIN upChan : upChan'[i] = upChan[j]
        BY <1>1, <1>4, AppendChannel
    <2> QED
        BY <1>2, <1>4, <2>1 DEF Elsewhere
<1>5. CASE PoolAnswers
    <2>1. PICK q \in due, ok \in BOOLEAN : upChan' = Append(upChan, EventRecvJSONRPCETH(q, ok))
        BY <1>5 DEF PoolAnswers
    <2>2. q \in Requests
        BY <1>1 DEF TypeInv
    <2>3. EventRecvJSONRPCETH(q, ok) \in Message /\ ~IsConnection(EventRecvJSONRPCETH(q, ok))
        BY <2>2 DEF EventRecvJSONRPCETH, Message, IsConnection
    <2> QED
        BY <1>4, <2>1, <2>3
<1>6. CASE ReaderBreaks
    <2>1. upChan' = Append(upChan, EventUpConnBroken)
        BY <1>6 DEF ReaderBreaks
    <2>2. EventUpConnBroken \in Message /\ ~IsConnection(EventUpConnBroken)
        BY DEF EventUpConnBroken, Message, IsConnection
    <2> QED
        BY <1>4, <2>1, <2>2
<1>7. ASSUME NEW id \in Requests, Answered(id) PROVE Elsewhere
    <2>1. upChan # <<>> /\ upChan' = Tail(upChan) /\ ~IsConnection(Head(upChan))
        BY <1>7 DEF Answered, NextIs, IsConnection
    <2>2. /\ HeardOnce'
          /\ \A q : InChannel(q)' <=> InChannel(q)
          /\ \A i \in DOMAIN upChan' : \E j \in DOMAIN upChan : upChan'[i] = upChan[j]
        BY <1>1, <2>1, TailChannel
    <2> QED
        BY <1>2, <2>2 DEF Elsewhere
<1> QED
    BY <1>3, <1>5, <1>6, <1>7 DEF SendInitRequest, vars

\* The step that takes a connection's event off the channel.
LEMMA HeadTaken ==
    ASSUME TypeInv, TryInv, NextIs("UpSessionConnection"), upChan' = Tail(upChan)
    PROVE  /\ HeardOnce'
           /\ \A q : InChannel(q)' <=> InChannel(q) /\ q # Head(upChan).route
           /\ \A i \in DOMAIN upChan' : \E j \in DOMAIN upChan : upChan'[i] = upChan[j]
<1> QED
    BY TailChannel, HeadConnection DEF TryInv

\* The session closes its connection; what it hears last is no connection.
LEMMA ShutsChannel ==
    ASSUME TypeInv, HeardOnce,
           Shuts(upChan) \/ (upChan # <<>> /\ Head(upChan).type # "UpSessionConnection" /\ Shuts(Tail(upChan)))
    PROVE  /\ HeardOnce'
           /\ \A q : InChannel(q)' <=> InChannel(q)
           /\ \A i \in DOMAIN upChan' : \E j \in DOMAIN upChan : upChan'[i] = upChan[j]
<1>1. CASE Shuts(upChan)
    <2>1. upChan' = upChan
        BY <1>1 DEF Shuts
    <2> QED
        BY <2>1 DEF HeardOnce, InChannel
<1>2. CASE upChan # <<>> /\ Head(upChan).type # "UpSessionConnection" /\ Shuts(Tail(upChan))
    <2>1. upChan # <<>> /\ upChan' = Tail(upChan) /\ ~IsConnection(Head(upChan))
        BY <1>2 DEF Shuts, IsConnection
    <2> QED
        BY <2>1, TailChannel
<1> QED
    BY <1>1, <1>2

LEMMA NextTryInv ==
    ASSUME ConnectInv, StepKind
    PROVE  TryInv'
<1>1. TypeInv /\ TryInv /\ HeardOnce /\ SessionInv /\ StageInv
    BY DEF ConnectInv, RouteInv, TryInv
<1>2. DOMAIN stage = Route /\ DOMAIN conn = Route
    BY <1>1 DEF TypeInv
<1>3. ASSUME Elsewhere PROVE TryInv'
    BY <1>1, <1>3 DEF Elsewhere, TryInv, StageInv
<1>4. ASSUME NEW r \in Route, DialSucceeds(r) PROVE TryInv'
    <2>1. /\ stage[r] = "dialling" /\ stage' = [stage EXCEPT ![r] = "testing"]
          /\ conn' = [conn EXCEPT ![r] = "open"] /\ upChan' = upChan
        BY <1>4 DEF DialSucceeds
    <2>2. ~InChannel(r)
        BY <1>1, <2>1 DEF TryInv
    <2>3. HeardOnce' /\ \A q : InChannel(q)' <=> InChannel(q)
        BY <1>1, <2>1 DEF HeardOnce, InChannel
    <2>4. \A q \in Route : InChannel(q)' => stage'[q] = "sent"
        BY <1>1, <1>2, <2>1, <2>2, <2>3 DEF TryInv
    <2>5. StageInv'
        BY <1>1, <1>2, <2>1 DEF StageInv
    <2>6. \A i \in DOMAIN upChan' : IsConnection(upChan'[i]) /\ upChan'[i].ok => conn'[upChan'[i].route] = "open"
        BY <1>1, <1>2, <2>1 DEF TryInv
    <2> QED
        BY <2>3, <2>4, <2>5, <2>6 DEF TryInv
<1>5. ASSUME NEW r \in Route, NEW ok \in BOOLEAN, NEW c \in {"none", "open", "closed"}, Tried(r, ok, c)
      PROVE  TryInv'
    <2> DEFINE e == EventUpSessionConnection(r, ok)
    <2>1. e \in Message /\ IsConnection(e) /\ e.route = r /\ e.ok = ok
        BY DEF EventUpSessionConnection, Message, IsConnection
    <2>2. /\ stage[r] \in {"dialling", "testing"} /\ stage' = [stage EXCEPT ![r] = "sent"]
          /\ conn' = [conn EXCEPT ![r] = c] /\ (ok => c = "open")
          /\ upChan' = Append(upChan, e)
        BY <1>5 DEF Tried, TryEnds
    <2>3. ~InChannel(r)
        BY <1>1, <2>2 DEF TryInv
    <2>4. /\ HeardOnce'
          /\ \A q : InChannel(q)' <=> InChannel(q) \/ r = q
          /\ \A i \in DOMAIN upChan' : upChan'[i] = e \/ \E j \in DOMAIN upChan : upChan'[i] = upChan[j]
        BY <1>1, <2>1, <2>2, <2>3, AppendChannel
    <2>5. ASSUME NEW i \in DOMAIN upChan', IsConnection(upChan'[i]), upChan'[i].ok
          PROVE  conn'[upChan'[i].route] = "open"
        <3>1. CASE upChan'[i] = e
            BY <1>2, <2>1, <2>2, <2>5, <3>1
        <3>2. CASE \E j \in DOMAIN upChan : upChan'[i] = upChan[j]
            <4>1. PICK j \in DOMAIN upChan : upChan'[i] = upChan[j]
                BY <3>2
            <4>2. conn[upChan[j].route] = "open"
                BY <1>1, <2>5, <4>1 DEF TryInv
            <4>3. upChan[j].route # r
                BY <2>3, <2>5, <4>1 DEF InChannel, IsConnection
            <4> QED
                BY <1>2, <2>2, <4>1, <4>2, <4>3
        <3> QED
            BY <2>4, <3>1, <3>2
    <2>6. \A q \in Route : InChannel(q)' => stage'[q] = "sent"
        BY <1>1, <1>2, <2>2, <2>4 DEF TryInv
    <2>7. StageInv'
        BY <1>1, <1>2, <2>2 DEF StageInv
    <2> QED
        BY <2>4, <2>5, <2>6, <2>7 DEF TryInv

<1>6. ASSUME NextIs("UpSessionConnection"), upChan' = Tail(upChan),
             LET r == Head(upChan).route
             IN  /\ conn' = conn \/ conn' = Closed(r)
                 /\ \/ UNCHANGED stage
                    \/ stage' = Heard(r)
                    \/ stage[DirectAfter] = "idle" /\ stage' = [Heard(r) EXCEPT ![DirectAfter] = "dialling"]
      PROVE  TryInv'
    <2> DEFINE r == Head(upChan).route
    <2>1. r \in Route /\ stage[r] = "sent"
        BY <1>1, <1>6, HeadConnection
    <2>2. /\ HeardOnce'
          /\ \A q : InChannel(q)' => InChannel(q) /\ q # r
          /\ \A i \in DOMAIN upChan' : \E j \in DOMAIN upChan : upChan'[i] = upChan[j]
        BY <1>1, <1>6, HeadTaken
    <2>3. \A q \in Route : q # r =>
             /\ conn'[q] = conn[q]
             /\ stage'[q] = stage[q] \/ (stage[q] = "idle" /\ stage'[q] = "dialling")
        BY <1>2, <1>6 DEF Closed, Heard
    <2>4. stage'[r] \in {"sent", "heard"}
        BY <1>2, <1>6, <2>1 DEF Heard
    <2> HIDE DEF r
    <2> QED
        BY <1>1, <2>2, <2>3, <2>4, TryInvKept
<1>7. CASE TakesConnection
    BY <1>6, <1>7 DEF TakesConnection
<1>8. ASSUME NextIs("UpSessionConnection"), HearsOn(Head(upChan).route) \/ Fails(Head(upChan).route)
      PROVE  TryInv'
    <2>1. phase = "connect" => stage[DirectAfter] = "idle"
        BY DEF ConnectInv, RaceInv, DialledInv
    <2> QED
        BY <1>6, <1>8, <2>1 DEF HearsOn, Fails, AfterError
<1>9. CASE OutdatedUpSessionConnection
    BY <1>6, <1>9 DEF OutdatedUpSessionConnection, Outdated
<1>10. CASE TriesNextPool /\ pool # PoolNum /\ UNCHANGED options
    BY <1>10, NextPoolIsFresh DEF ConnectInv, RouteInv
<1>11. CASE Shuts(upChan) \/ (upChan # <<>> /\ Head(upChan).type # "UpSessionConnection" /\ Shuts(Tail(upChan)))
    <2>1. /\ HeardOnce'
          /\ \A q : InChannel(q)' <=> InChannel(q)
          /\ \A i \in DOMAIN upChan' : \E j \in DOMAIN upChan : upChan'[i] = upChan[j]
        BY <1>1, <1>11, ShutsChannel
    <2>2. /\ up.serverConn \in Route /\ stage[up.serverConn] = "heard"
          /\ conn' = Closed(up.serverConn) /\ stage' = stage
        BY <1>1, <1>11 DEF Shuts, SessionInv
    <2>3. \A q : InChannel(q)' => InChannel(q) /\ q # up.serverConn
        BY <1>1, <2>1, <2>2 DEF TryInv
    <2>4. \A q \in Route : q # up.serverConn => conn'[q] = conn[q] /\ stage'[q] = stage[q]
        BY <2>2 DEF Closed
    <2> QED
        BY <1>1, <2>1, <2>2, <2>3, <2>4, TryInvKept
<1> QED
    BY <1>3, <1>4, <1>5, <1>7, <1>8, <1>9, <1>10, <1>11, ElsewhereSteps DEF StepKind

LEMMA NextSessionInv ==
    ASSUME ConnectInv, StepKind
    PROVE  SessionInv'
<1>1. TypeInv /\ TryInv /\ SessionInv
    BY DEF ConnectInv, RouteInv
<1>2. /\ DOMAIN stage = Route
      /\ up \in [stat : {"disconnected", "connected", "subscribed", "authorized"},
                 serverConn : Route \cup {NoConn}, caps : BOOLEAN, sessionID : BOOLEAN]
    BY <1>1 DEF TypeInv
<1>3. ASSUME UNCHANGED <<phase, up>>, \A q \in Route : stage[q] = "heard" => stage'[q] = "heard"
      PROVE  SessionInv'
    BY <1>1, <1>3 DEF SessionInv, NewUpSession
<1>4. ASSUME NEW r \in Route, DialSucceeds(r) PROVE SessionInv'
    BY <1>2, <1>3, <1>4 DEF DialSucceeds, sessionVars, requestVars
<1>5. ASSUME NEW r \in Route, NEW ok, NEW c, Tried(r, ok, c) PROVE SessionInv'
    BY <1>2, <1>3, <1>5 DEF Tried, TryEnds, sessionVars, requestVars
<1>6. CASE TakesConnection
    <2>1. Head(upChan).route \in Route
        BY <1>1, <1>6, HeadConnection DEF TakesConnection
    <2> QED
        BY <1>2, <1>6, <2>1 DEF TakesConnection, SessionInv, Heard
<1>7. ASSUME NextIs("UpSessionConnection"), HearsOn(Head(upChan).route) PROVE SessionInv'
    BY <1>1, <1>7 DEF HearsOn, sessionVars, requestVars, SessionInv, NewUpSession
<1>8. ASSUME NEW r, Fails(r) PROVE SessionInv'
    BY <1>2, <1>8 DEF Fails, SessionInv
<1>9. CASE TriesNextPool /\ pool # PoolNum /\ UNCHANGED options
    BY <1>9, NextPoolIsFresh DEF ConnectInv, RouteInv
<1>10. ASSUME NEW events, Shuts(events) PROVE SessionInv'
    BY <1>2, <1>10 DEF Shuts, SessionInv
<1>11. CASE SendInitRequest
    BY <1>1, <1>11 DEF SendInitRequest, SessionInv, tryVars
<1>12. CASE PoolAnswers \/ ReaderBreaks \/ UNCHANGED vars
    BY <1>3, <1>12 DEF PoolAnswers, ReaderBreaks, vars, tryVars, sessionVars, requestVars
<1>13. ASSUME NEW id \in Requests, Answered(id) PROVE SessionInv'
    BY <1>1, <1>2, <1>13 DEF Answered, SessionInv, Looping, tryVars
<1>14. CASE OutdatedUpSessionConnection
    BY <1>2, <1>3, <1>14 DEF OutdatedUpSessionConnection, Heard, sessionVars, requestVars
<1> QED
    BY <1>4, <1>5, <1>6, <1>7, <1>8, <1>9, <1>10, <1>11, <1>12, <1>13, <1>14 DEF StepKind

LEMMA NextConnOwned ==
    ASSUME ConnectInv, StepKind
    PROVE  ConnOwned'
<1>1. TypeInv /\ TryInv /\ SessionInv /\ ConnOwned
    BY DEF ConnectInv, RouteInv
<1>2. /\ DOMAIN stage = Route /\ DOMAIN conn = Route
      /\ up \in [stat : {"disconnected", "connected", "subscribed", "authorized"},
                 serverConn : Route \cup {NoConn}, caps : BOOLEAN, sessionID : BOOLEAN]
    BY <1>1 DEF TypeInv
\* A handler that hears the route r and does not go on with its connection.
<1>3. ASSUME NextIs("UpSessionConnection"), upChan' = Tail(upChan), up' = up,
             LET r == Head(upChan).route
             IN  /\ conn' = AfterError(r)
                 /\ \A q \in Route : q # r /\ stage[q] = "testing" => stage'[q] = "testing"
                 /\ up.stat # "disconnected" => up.serverConn # r
      PROVE  ConnOwned'
    <2> DEFINE r == Head(upChan).route
    <2>1. r \in Route /\ stage[r] = "sent"
        BY <1>1, <1>3, HeadConnection
    <2>2. \A q : InChannel(q)' <=> InChannel(q) /\ q # r
        BY <1>1, <1>3, HeadTaken
    <2>3. conn'[r] # "open" /\ \A q \in Route : q # r => conn'[q] = conn[q]
        BY <1>2, <1>3, <2>1 DEF AfterError, Closed
    <2>4. up.stat # "disconnected" => up.serverConn \in Route
        BY <1>1, <1>2 DEF SessionInv, TypeInv, NewUpSession
    <2> HIDE DEF r
    <2>5. up.stat # "disconnected" => up.serverConn # r
        BY <1>3 DEF r
    <2>6. \A q \in Route : q # r /\ stage[q] = "testing" => stage'[q] = "testing"
        BY <1>3 DEF r
    <2> QED
        BY <1>1, <1>3, <2>2, <2>3, <2>4, <2>5, <2>6 DEF ConnOwned
<1>4. ASSUME Elsewhere, up'.serverConn = up.serverConn,
             up'.stat = "disconnected" <=> up.stat = "disconnected"
      PROVE  ConnOwned'
    BY <1>1, <1>4 DEF Elsewhere, ConnOwned
<1>5. ASSUME NEW r \in Route, DialSucceeds(r) PROVE ConnOwned'
    <2>1. /\ stage[r] = "dialling" /\ stage' = [stage EXCEPT ![r] = "testing"]
          /\ conn' = [conn EXCEPT ![r] = "open"] /\ upChan' = upChan /\ up' = up
        BY <1>5 DEF DialSucceeds, sessionVars, requestVars
    <2>2. \A q : InChannel(q)' <=> InChannel(q)
        BY <2>1 DEF InChannel
    <2> QED
        BY <1>1, <1>2, <2>1, <2>2 DEF ConnOwned
<1>6. ASSUME NEW r \in Route, NEW ok \in BOOLEAN, NEW c \in {"none", "open", "closed"}, Tried(r, ok, c)
      PROVE  ConnOwned'
    <2> DEFINE e == EventUpSessionConnection(r, ok)
    <2>1. e \in Message /\ IsConnection(e) /\ e.route = r
        BY DEF EventUpSessionConnection, Message, IsConnection
    <2>2. /\ stage[r] \in {"dialling", "testing"} /\ stage' = [stage EXCEPT ![r] = "sent"]
          /\ conn' = [conn EXCEPT ![r] = c] /\ upChan' = Append(upChan, e) /\ up' = up
        BY <1>6 DEF Tried, TryEnds, sessionVars, requestVars
    <2>3. ~InChannel(r) /\ HeardOnce
        BY <1>1, <2>2 DEF TryInv
    <2>4. \A q : InChannel(q)' <=> InChannel(q) \/ r = q
        BY <1>1, <2>1, <2>2, <2>3, AppendChannel
    <2>5. up.stat # "disconnected" => up.serverConn # r
        BY <1>1, <2>2 DEF SessionInv, TypeInv, NewUpSession
    <2> HIDE DEF e
    <2> QED
        BY <1>1, <1>2, <2>2, <2>4, <2>5 DEF ConnOwned

<1>7. CASE TakesConnection
    <2> DEFINE r == Head(upChan).route
    <2>1. r \in Route /\ stage[r] = "sent" /\ conn[r] = "open"
        BY <1>1, <1>7, HeadConnection DEF TakesConnection
    <2>2. \A q : InChannel(q)' <=> InChannel(q) /\ q # r
        BY <1>1, <1>7, HeadTaken DEF TakesConnection
    <2>3. up'.serverConn = r /\ up'.stat = "connected" /\ conn' = conn /\ stage' = [stage EXCEPT ![r] = "heard"]
        BY <1>2, <1>7 DEF TakesConnection, Heard
    <2>4. up.stat = "disconnected"
        BY <1>1, <1>7 DEF TakesConnection, SessionInv, NewUpSession
    <2> HIDE DEF r
    <2> QED
        BY <1>1, <1>2, <2>1, <2>2, <2>3, <2>4 DEF ConnOwned
<1>8. ASSUME NextIs("UpSessionConnection"), HearsOn(Head(upChan).route) PROVE ConnOwned'
    <2>1. up.stat = "disconnected"
        BY <1>1, <1>8 DEF HearsOn, SessionInv, NewUpSession
    <2>2. stage[DirectAfter] = "testing" => phase # "connect"
        BY DEF ConnectInv, RaceInv, DialledInv
    <2>3. \A q \in Route : q # Head(upChan).route /\ stage[q] = "testing" => stage'[q] = "testing"
        BY <1>2, <1>8, <2>2 DEF HearsOn, Heard
    <2>4. /\ upChan' = Tail(upChan) /\ up' = up /\ conn' = AfterError(Head(upChan).route)
        BY <1>8 DEF HearsOn, sessionVars, requestVars
    <2> QED
        BY <1>3, <1>8, <2>1, <2>3, <2>4
<1>9. ASSUME NextIs("UpSessionConnection"), Fails(Head(upChan).route) PROVE ConnOwned'
    <2>1. up.stat = "disconnected"
        BY <1>1, <1>9 DEF Fails, SessionInv, NewUpSession
    <2>2. up' = up
        BY <1>2, <1>9, <2>1 DEF Fails
    <2>3. upChan' = Tail(upChan) /\ stage' = stage /\ conn' = AfterError(Head(upChan).route)
        BY <1>9 DEF Fails
    <2> QED
        BY <1>3, <1>9, <2>1, <2>2, <2>3
<1>10. CASE TriesNextPool /\ pool # PoolNum /\ UNCHANGED options
    BY <1>10, NextPoolIsFresh DEF ConnectInv, RouteInv
<1>11. CASE Shuts(upChan) \/ (upChan # <<>> /\ Head(upChan).type # "UpSessionConnection" /\ Shuts(Tail(upChan)))
    <2>1. \A q : InChannel(q)' <=> InChannel(q)
        BY <1>1, <1>11, ShutsChannel DEF TryInv
    <2>2. /\ conn' = Closed(up.serverConn) /\ stage' = stage /\ up'.stat = "disconnected"
        BY <1>2, <1>11 DEF Shuts
    <2> QED
        BY <1>1, <1>2, <2>1, <2>2 DEF ConnOwned, Closed
<1>12. ASSUME NEW id \in Requests, Answered(id) PROVE ConnOwned'
    <2>1. up'.serverConn = up.serverConn /\ up.stat # "disconnected" /\ up'.stat # "disconnected"
        BY <1>1, <1>2, <1>12 DEF Answered, Looping, SessionInv
    <2>2. Elsewhere
        BY <1>12, ElsewhereSteps
    <2> QED
        BY <1>4, <2>1, <2>2
<1>13. CASE SendInitRequest \/ PoolAnswers \/ ReaderBreaks \/ UNCHANGED vars
    <2>1. up' = up
        BY <1>13 DEF SendInitRequest, PoolAnswers, ReaderBreaks, vars, sessionVars, requestVars
    <2>2. Elsewhere
        BY <1>13, ElsewhereSteps
    <2> QED
        BY <1>4, <2>1, <2>2
<1>14. CASE OutdatedUpSessionConnection
    <2>1. stage[Head(upChan).route] = "sent"
        BY <1>1, <1>14, HeadConnection DEF OutdatedUpSessionConnection
    <2>2. up.serverConn # Head(upChan).route
        BY <1>1, <1>14, <2>1 DEF OutdatedUpSessionConnection, Looping, SessionInv
    <2>3. \A q \in Route : q # Head(upChan).route /\ stage[q] = "testing" => stage'[q] = "testing"
        BY <1>2, <1>14 DEF OutdatedUpSessionConnection, Heard
    <2>4. /\ NextIs("UpSessionConnection") /\ upChan' = Tail(upChan) /\ up' = up
          /\ conn' = AfterError(Head(upChan).route)
        BY <1>14 DEF OutdatedUpSessionConnection, Outdated, AfterError, sessionVars, requestVars
    <2> QED
        BY <1>3, <2>2, <2>3, <2>4
<1> QED
    BY <1>5, <1>6, <1>7, <1>8, <1>9, <1>10, <1>11, <1>12, <1>13, <1>14 DEF StepKind

\* The event of r is heard while some route has not been heard: the others of
\* the race have been, if the direct connection after the race has been dialled.
LEMMA LastRoute ==
    ASSUME TypeInv, TryInv, DialledInv, NextIs("UpSessionConnection"), stage[DirectAfter] # "idle"
    PROVE  Head(upChan).route = DirectAfter /\ \A q \in Racing : IsLost(q)
<1>1. stage[Head(upChan).route] = "sent" /\ Head(upChan).route \in Route
    BY HeadConnection
<1>2. \A q \in Racing : IsLost(q)
    BY DEF DialledInv, DirectIsLastResort
<1> QED
    BY <1>1, <1>2 DEF DialledInv, IsLost

LEMMA NextDialledInv ==
    ASSUME ConnectInv, StepKind
    PROVE  DialledInv'
<1>1. TypeInv /\ TryInv /\ SessionInv /\ ConnOwned /\ DialledInv
    BY DEF ConnectInv, RouteInv, RaceInv
<1>2. /\ DOMAIN stage = Route /\ DOMAIN conn = Route /\ DirectAfter \in Route
      /\ Racing \subseteq Route /\ DirectAfter \notin Racing
    BY <1>1, ConnectAssumption DEF TypeInv, Route, Racing, Options
<1>3. ASSUME UNCHANGED options,
             \A q \in Route : /\ stage'[q] = "idle" <=> stage[q] = "idle"
                              /\ IsLost(q) => IsLost(q)',
             phase' \in {"connect", "direct"} => phase' = phase
      PROVE  DialledInv'
    <2>1. Racing' = Racing
        BY <1>3 DEF Racing
    <2>2. DirectIsLastResort'
        BY <1>1, <1>2, <1>3, <2>1 DEF DialledInv, DirectIsLastResort
    <2> QED
        BY <1>1, <1>2, <1>3, <2>1, <2>2 DEF DialledInv
<1>4. ASSUME NEW r \in Route, DialSucceeds(r) PROVE DialledInv'
    BY <1>2, <1>3, <1>4 DEF DialSucceeds, IsLost
<1>5. ASSUME NEW r \in Route, NEW ok, NEW c, Tried(r, ok, c) PROVE DialledInv'
    BY <1>2, <1>3, <1>5 DEF Tried, TryEnds, IsLost
<1>6. ASSUME NextIs("UpSessionConnection"), UNCHANGED options,
             LET r == Head(upChan).route
             IN  /\ conn' = conn \/ conn' = Closed(r)
                 /\ stage' = stage \/ stage' = Heard(r),
             phase' \in {"connect", "direct"} => phase' = phase
      PROVE  DialledInv'
    <2> DEFINE r == Head(upChan).route
    <2>1. stage[r] = "sent" /\ r \in Route
        BY <1>1, <1>6, HeadConnection
    <2>2. conn' = conn \/ conn' = Closed(r)
        BY <1>6
    <2>3. stage' = stage \/ stage' = Heard(r)
        BY <1>6
    <2> HIDE DEF r
    <2>4. \A q \in Route : stage'[q] = "idle" <=> stage[q] = "idle"
        BY <1>2, <2>1, <2>3 DEF Heard
    <2>5. \A q \in Route : IsLost(q) => IsLost(q)'
        BY <1>2, <2>1, <2>2, <2>3 DEF Heard, Closed, IsLost
    <2> QED
        BY <1>3, <1>6, <2>4, <2>5
<1>7. CASE TakesConnection
    BY <1>6, <1>7 DEF TakesConnection
<1>8. ASSUME NextIs("UpSessionConnection"), HearsOn(Head(upChan).route) PROVE DialledInv'
    <2> DEFINE r == Head(upChan).route
    <2>1. stage[r] = "sent" /\ r \in Route
        BY <1>1, <1>8, HeadConnection
    <2>2. phase = "connect" /\ stage[DirectAfter] = "idle" /\ r # DirectAfter
        BY <1>1, <1>8, <2>1 DEF HearsOn, DialledInv
    <2>3. CASE stage' = Heard(r) /\ UNCHANGED phase
        BY <1>6, <1>8, <2>3 DEF HearsOn, AfterError
    <2>4. CASE RaceIsLost(r) /\ phase' = "direct" /\ stage' = [Heard(r) EXCEPT ![DirectAfter] = "dialling"]
        <3>1. up.stat = "disconnected"
            BY <1>1, <2>2 DEF SessionInv, NewUpSession
        <3>2. \A q \in Racing \ {r} : stage[q] = "heard" /\ conn[q] # "open"
            BY <1>1, <1>2, <2>4, <3>1 DEF RaceIsLost, ConnOwned, TryInv
        <3>3. conn'[r] # "open" /\ \A q \in Route : q # r => conn'[q] = conn[q]
            BY <1>2, <1>8, <2>1 DEF HearsOn, AfterError, Closed
        <3>4. \A q \in Route : stage'[q] = IF q = DirectAfter THEN "dialling"
                                           ELSE IF q = r THEN "heard" ELSE stage[q]
            BY <1>2, <2>1, <2>4 DEF Heard
        <3>5. Racing' = Racing
            BY <1>8 DEF HearsOn, Racing
        <3> HIDE DEF r
        <3>6. DirectIsLastResort'
            BY <1>2, <3>2, <3>3, <3>4, <3>5 DEF DirectIsLastResort, IsLost
        <3> QED
            BY <1>1, <1>2, <2>1, <2>2, <2>4, <3>4, <3>5, <3>6 DEF DialledInv
    <2> QED
        BY <1>8, <2>3, <2>4 DEF HearsOn
<1>9. ASSUME NextIs("UpSessionConnection"), Fails(Head(upChan).route) PROVE DialledInv'
    BY <1>6, <1>9 DEF Fails, AfterError
<1>10. CASE TriesNextPool /\ pool # PoolNum /\ UNCHANGED options
    BY <1>10, NextPoolIsFresh DEF ConnectInv, RaceInv
<1>11. ASSUME NEW events, Shuts(events) PROVE DialledInv'
    <2>1. \A q \in Route : conn'[q] = conn[q] \/ conn'[q] = "closed"
        BY <1>2, <1>11 DEF Shuts, Closed
    <2>2. stage' = stage /\ options' = options /\ phase' \notin {"connect", "direct"}
        BY <1>11 DEF Shuts
    <2> QED
        BY <1>3, <2>1, <2>2 DEF IsLost
<1>12. CASE SendInitRequest \/ PoolAnswers \/ ReaderBreaks \/ UNCHANGED vars
    BY <1>3, <1>12 DEF SendInitRequest, PoolAnswers, ReaderBreaks, vars, tryVars, IsLost
<1>13. ASSUME NEW id, Answered(id) PROVE DialledInv'
    BY <1>3, <1>13 DEF Answered, tryVars, IsLost
<1>14. CASE OutdatedUpSessionConnection
    BY <1>6, <1>14 DEF OutdatedUpSessionConnection, Outdated
<1> QED
    BY <1>4, <1>5, <1>7, <1>8, <1>9, <1>10, <1>11, <1>12, <1>13, <1>14 DEF StepKind

LEMMA NextReadingInv ==
    ASSUME ConnectInv, StepKind
    PROVE  ReadingInv'
<1>1. ReadingInv /\ TypeInv /\ TryInv
    BY DEF ConnectInv, RouteInv, RaceInv
<1>2. up \in [stat : {"disconnected", "connected", "subscribed", "authorized"},
              serverConn : Route \cup {NoConn}, caps : BOOLEAN, sessionID : BOOLEAN]
    BY <1>1 DEF TypeInv
<1>3. ASSUME up'.serverConn = up.serverConn, readLoop' = readLoop PROVE ReadingInv'
    BY <1>1, <1>3 DEF ReadingInv
<1>4. ASSUME up' = up, readLoop' = readLoop PROVE ReadingInv'
    BY <1>3, <1>4
<1>5. ASSUME NEW r, DialSucceeds(r) PROVE ReadingInv'
    BY <1>4, <1>5 DEF DialSucceeds, sessionVars, requestVars
<1>6. ASSUME NEW r, NEW ok, NEW c, Tried(r, ok, c) PROVE ReadingInv'
    BY <1>4, <1>6 DEF Tried, TryEnds, sessionVars, requestVars
<1>7. CASE TakesConnection
    <2>1. Head(upChan).route \in Route
        BY <1>1, <1>7, HeadConnection DEF TakesConnection
    <2>2. up'.serverConn # NoConn
        BY <1>2, <1>7, <2>1, ConnectAssumption DEF TakesConnection, Route
    <2> QED
        BY <2>2 DEF ReadingInv
<1>8. ASSUME NEW r, HearsOn(r) PROVE ReadingInv'
    BY <1>4, <1>8 DEF HearsOn, sessionVars, requestVars
<1>9. ASSUME NEW r, Fails(r) PROVE ReadingInv'
    BY <1>2, <1>3, <1>9 DEF Fails
<1>10. CASE TriesNextPool /\ pool # PoolNum /\ UNCHANGED options
    BY <1>10, NextPoolIsFresh DEF ConnectInv, RaceInv
<1>11. ASSUME NEW events, Shuts(events) PROVE ReadingInv'
    BY <1>2, <1>3, <1>11 DEF Shuts
<1>12. CASE SendInitRequest \/ PoolAnswers \/ UNCHANGED vars
    BY <1>4, <1>12 DEF SendInitRequest, PoolAnswers, vars, sessionVars, requestVars
<1>13. CASE ReaderBreaks
    <2>1. ~readLoop'
        BY <1>13 DEF ReaderBreaks
    <2> QED
        BY <2>1 DEF ReadingInv
<1>14. ASSUME NEW id, Answered(id) PROVE ReadingInv'
    <2>1. up'.serverConn = up.serverConn
        BY <1>2, <1>14 DEF Answered
    <2>2. readLoop' = readLoop
        BY <1>14 DEF Answered
    <2> QED
        BY <1>3, <2>1, <2>2
<1>15. CASE OutdatedUpSessionConnection
    BY <1>4, <1>15 DEF OutdatedUpSessionConnection, sessionVars, requestVars
<1> QED
    BY <1>5, <1>6, <1>7, <1>8, <1>9, <1>10, <1>11, <1>12, <1>13, <1>14, <1>15 DEF StepKind

LEMMA NextLostInv ==
    ASSUME ConnectInv, StepKind
    PROVE  LostInv'
<1>1. TypeInv /\ TryInv /\ SessionInv /\ DialledInv /\ LostInv
    BY DEF ConnectInv, RouteInv, RaceInv
<1>2. /\ DOMAIN stage = Route
      /\ up \in [stat : {"disconnected", "connected", "subscribed", "authorized"},
                 serverConn : Route \cup {NoConn}, caps : BOOLEAN, sessionID : BOOLEAN]
    BY <1>1 DEF TypeInv
<1>3. ASSUME phase' = phase, up' = up,
             \A q \in Route : stage'[q] = stage[q] \/ stage'[q] \in {"sent", "heard"}
      PROVE  LostInv'
    BY <1>1, <1>3 DEF LostInv
<1>4. ASSUME phase' # "failed" PROVE LostInv'
    BY <1>4 DEF LostInv
<1>5. ASSUME NEW r \in Route, DialSucceeds(r) PROVE LostInv'
    <2>1. stage[r] = "dialling" /\ phase' = phase /\ up' = up
        BY <1>5 DEF DialSucceeds, sessionVars, requestVars
    <2> QED
        BY <1>1, <2>1 DEF LostInv
<1>6. ASSUME NEW r \in Route, NEW ok, NEW c, Tried(r, ok, c) PROVE LostInv'
    BY <1>2, <1>3, <1>6 DEF Tried, TryEnds, sessionVars, requestVars
<1>7. CASE TakesConnection
    BY <1>4, <1>7 DEF TakesConnection
<1>8. ASSUME NEW r, HearsOn(r) PROVE LostInv'
    BY <1>4, <1>8 DEF HearsOn
<1>9. ASSUME NextIs("UpSessionConnection"), Fails(Head(upChan).route) PROVE LostInv'
    <2> DEFINE r == Head(upChan).route
    <2>1. stage[r] = "sent" /\ r \in Route
        BY <1>1, <1>9, HeadConnection
    <2>2. \A q \in Racing \ {r} : stage[q] = "heard"
        <3>1. CASE phase = "direct"
            BY <1>1, <1>9, <3>1, LastRoute DEF DialledInv, IsLost
        <3>2. CASE phase = "connect" /\ RaceIsLost(r)
            BY <3>2 DEF RaceIsLost
        <3> QED
            BY <1>9, <3>1, <3>2 DEF Fails
    <2>3. stage[DirectAfter] = "idle" \/ DirectAfter = r
        BY <1>1, <1>9, LastRoute
    <2>4. stage' = stage
        BY <1>9 DEF Fails
    <2> HIDE DEF r
    <2>5. \A q \in Route : stage[q] \in {"idle", "sent", "heard"}
        BY <1>1, <2>1, <2>2, <2>3 DEF DialledInv
    <2> QED
        BY <2>4, <2>5 DEF LostInv
<1>10. CASE TriesNextPool /\ pool # PoolNum /\ UNCHANGED options
    BY <1>10, NextPoolIsFresh DEF ConnectInv, RaceInv
<1>11. ASSUME NEW events, Shuts(events) PROVE LostInv'
    <2>1. up'.serverConn = up.serverConn /\ up.serverConn \in Route
        BY <1>1, <1>2, <1>11 DEF Shuts, SessionInv
    <2> QED
        BY <2>1, ConnectAssumption DEF LostInv, Route
<1>12. CASE SendInitRequest
    BY <1>4, <1>12 DEF SendInitRequest
<1>13. CASE PoolAnswers \/ ReaderBreaks \/ UNCHANGED vars
    BY <1>3, <1>13 DEF PoolAnswers, ReaderBreaks, vars, tryVars, sessionVars, requestVars
<1>14. ASSUME NEW id, Answered(id) PROVE LostInv'
    BY <1>4, <1>14 DEF Answered, Looping
<1>15. CASE OutdatedUpSessionConnection
    BY <1>2, <1>3, <1>15 DEF OutdatedUpSessionConnection, Heard, sessionVars, requestVars
<1> QED
    BY <1>5, <1>6, <1>7, <1>8, <1>9, <1>10, <1>11, <1>12, <1>13, <1>14, <1>15 DEF StepKind

-----------------------------------------------------------------------------
(* The handshake.                                                          *)

\* One event less, or one more, in the channel; q's answer among the events.
IsAnswerTo(e, q) == IsAnswer(e) /\ e.id = q

LEMMA AwaitsIs ==
    ASSUME NEW q
    PROVE  Awaits(q) <=> q \in due \/ \E i \in DOMAIN upChan : IsAnswerTo(upChan[i], q)
<1> QED
    BY DEF Awaits, IsAnswerTo, IsAnswer

\* The channel without its head.
LEMMA AnswersTaken ==
    ASSUME TypeInv, AnsweredOnce, upChan # <<>>, upChan' = Tail(upChan), due' = due
    PROVE  /\ AnsweredOnce'
           /\ \A q : ~Awaits(q) => ~Awaits(q)'
           /\ \A q : Awaits(q) /\ ~IsAnswerTo(Head(upChan), q) => Awaits(q)'
           /\ \A q : IsAnswerTo(Head(upChan), q) => ~Awaits(q)'
           /\ \A q : IsComing(q) /\ ~IsAnswerTo(Head(upChan), q) => IsComing(q)'
<1>1. /\ Head(upChan) = upChan[1] /\ 1 \in DOMAIN upChan /\ DOMAIN upChan = 1 .. Len(upChan)
      /\ DOMAIN upChan' = 1 .. Len(upChan) - 1 /\ Len(upChan) \in Nat
      /\ \A i \in DOMAIN upChan' : upChan'[i] = upChan[i + 1] /\ i + 1 \in DOMAIN upChan
    BY HeadFacts DEF TypeInv
<1>2. \A i \in DOMAIN upChan : i # 1 => i - 1 \in DOMAIN upChan' /\ upChan'[i - 1] = upChan[i]
    BY <1>1
<1>3. AnsweredOnce'
    <2>1. \A i \in DOMAIN upChan' : IsAnswer(upChan'[i]) => upChan'[i].id \notin due'
        BY <1>1 DEF AnsweredOnce
    <2>2. ASSUME NEW i \in DOMAIN upChan', NEW j \in DOMAIN upChan',
                 IsAnswer(upChan'[i]), IsAnswer(upChan'[j]), upChan'[i].id = upChan'[j].id
          PROVE  i = j
        <3>1. /\ i + 1 \in DOMAIN upChan /\ upChan'[i] = upChan[i + 1]
              /\ j + 1 \in DOMAIN upChan /\ upChan'[j] = upChan[j + 1]
            BY <1>1
        <3>2. i + 1 = j + 1
            BY <2>2, <3>1 DEF AnsweredOnce
        <3> QED
            BY <1>1, <3>2
    <2> QED
        BY <2>1, <2>2, Zenon DEF AnsweredOnce, IsAnswer
<1>4. ASSUME NEW q, ~Awaits(q) PROVE ~Awaits(q)'
    <2>1. q \notin due /\ \A i \in DOMAIN upChan : ~IsAnswerTo(upChan[i], q)
        BY <1>4, AwaitsIs
    <2>2. \A i \in DOMAIN upChan' : ~IsAnswerTo(upChan'[i], q)
        BY <1>1, <2>1
    <2> QED
        BY <2>1, <2>2 DEF Awaits, IsAnswerTo, IsAnswer
<1>5. ASSUME NEW q, Awaits(q), ~IsAnswerTo(Head(upChan), q) PROVE Awaits(q)'
    <2>1. CASE q \in due
        BY <2>1 DEF Awaits
    <2>2. CASE \E i \in DOMAIN upChan : IsAnswerTo(upChan[i], q)
        <3>1. PICK i \in DOMAIN upChan : IsAnswerTo(upChan[i], q)
            BY <2>2
        <3>2. i # 1
            BY <1>1, <1>5, <3>1
        <3>3. i - 1 \in DOMAIN upChan' /\ upChan'[i - 1] = upChan[i]
            BY <1>2, <3>2
        <3> QED
            BY <3>1, <3>3 DEF Awaits, IsAnswerTo, IsAnswer
    <2> QED
        BY <1>5, <2>1, <2>2, AwaitsIs
<1>6. ASSUME NEW q, IsAnswerTo(Head(upChan), q) PROVE ~Awaits(q)'
    <2>1. q \notin due /\ IsAnswer(upChan[1]) /\ upChan[1].id = q
        BY <1>1, <1>6 DEF AnsweredOnce, IsAnswerTo
    <2>2. \A i \in DOMAIN upChan' : ~IsAnswerTo(upChan'[i], q)
        <3>1. SUFFICES ASSUME NEW i \in DOMAIN upChan', IsAnswerTo(upChan'[i], q) PROVE FALSE
            OBVIOUS
        <3>2. i + 1 \in DOMAIN upChan /\ IsAnswer(upChan[i + 1]) /\ upChan[i + 1].id = q
            BY <1>1, <3>1 DEF IsAnswerTo
        <3>3. i + 1 = 1
            BY <1>1, <2>1, <3>2 DEF AnsweredOnce
        <3> QED
            BY <1>1, <3>3
    <2> QED
        BY <2>1, <2>2 DEF Awaits, IsAnswerTo, IsAnswer
<1>7. ASSUME NEW q, IsComing(q), ~IsAnswerTo(Head(upChan), q) PROVE IsComing(q)'
    <2>1. PICK i \in DOMAIN upChan :
             /\ upChan[i] = EventRecvJSONRPCETH(q, TRUE)
             /\ \A j \in DOMAIN upChan : IsAnswer(upChan[j]) /\ upChan[j].id = "auth" => i < j
        BY <1>7 DEF IsComing
    <2>2. i # 1
        BY <1>1, <1>7, <2>1 DEF IsAnswerTo, IsAnswer, EventRecvJSONRPCETH
    <2>3. i - 1 \in DOMAIN upChan' /\ upChan'[i - 1] = EventRecvJSONRPCETH(q, TRUE)
        BY <1>2, <2>1, <2>2
    <2>4. ASSUME NEW j \in DOMAIN upChan', IsAnswer(upChan'[j]), upChan'[j].id = "auth" PROVE i - 1 < j
        <3>1. upChan'[j] = upChan[j + 1] /\ j + 1 \in DOMAIN upChan
            BY <1>1
        <3>2. i < j + 1
            BY <2>1, <2>4, <3>1
        <3> QED
            BY <1>1, <3>1, <3>2
    <2> QED
        BY <2>3, <2>4 DEF IsComing, IsAnswer
<1> QED
    BY <1>3, <1>4, <1>5, <1>6, <1>7

\* The channel with one event more, an answer that was due or no answer.
LEMMA AnswersAdded ==
    ASSUME TypeInv, AnsweredOnce, NEW e \in Message, upChan' = Append(upChan, e),
           \/ IsAnswer(e) /\ e.id \in due /\ due' = due \ {e.id}
           \/ ~IsAnswer(e) /\ due' = due
    PROVE  /\ AnsweredOnce'
           /\ \A q : Awaits(q)' <=> Awaits(q)
           /\ \A q : IsComing(q) => IsComing(q)'
           /\ \A q : e = EventRecvJSONRPCETH(q, TRUE) /\ "auth" \in due' => IsComing(q)'
<1>1. /\ DOMAIN upChan = 1 .. Len(upChan) /\ Len(upChan) \in Nat
      /\ DOMAIN upChan' = 1 .. Len(upChan) + 1 /\ upChan'[Len(upChan) + 1] = e
      /\ \A i \in DOMAIN upChan : upChan'[i] = upChan[i] /\ i \in DOMAIN upChan'
    BY AppendProperties DEF TypeInv
<1>2. \A i \in DOMAIN upChan' : i \in DOMAIN upChan \/ i = Len(upChan) + 1
    BY <1>1
<1>3. AnsweredOnce'
    <2>1. ASSUME NEW i \in DOMAIN upChan', IsAnswer(upChan'[i]) PROVE upChan'[i].id \notin due'
        BY <1>1, <1>2, <2>1 DEF AnsweredOnce
    <2>2. ASSUME NEW i \in DOMAIN upChan', NEW j \in DOMAIN upChan',
                 IsAnswer(upChan'[i]), IsAnswer(upChan'[j]), upChan'[i].id = upChan'[j].id
          PROVE  i = j
        <3>1. CASE i \in DOMAIN upChan /\ j \in DOMAIN upChan
            BY <1>1, <2>2, <3>1 DEF AnsweredOnce
        <3>2. CASE i \in DOMAIN upChan /\ j = Len(upChan) + 1
            <4>1. upChan'[i] = upChan[i] /\ upChan'[j] = e
                BY <1>1, <3>2
            <4> QED
                BY <2>2, <3>2, <4>1 DEF AnsweredOnce
        <3>3. CASE j \in DOMAIN upChan /\ i = Len(upChan) + 1
            <4>1. upChan'[j] = upChan[j] /\ upChan'[i] = e
                BY <1>1, <3>3
            <4> QED
                BY <2>2, <3>3, <4>1 DEF AnsweredOnce
        <3> QED
            BY <1>2, <3>1, <3>2, <3>3
    <2> QED
        BY <2>1, <2>2, Zenon DEF AnsweredOnce, IsAnswer
<1>4. ASSUME NEW q PROVE Awaits(q)' <=> Awaits(q)
    <2>1. (\E i \in DOMAIN upChan' : IsAnswerTo(upChan'[i], q))
             <=> IsAnswerTo(e, q) \/ \E i \in DOMAIN upChan : IsAnswerTo(upChan[i], q)
        BY <1>1, <1>2
    <2>2. Awaits(q)' <=> q \in due' \/ \E i \in DOMAIN upChan' : IsAnswerTo(upChan'[i], q)
        BY DEF Awaits, IsAnswerTo, IsAnswer
    <2>3. q \in due' \/ IsAnswerTo(e, q) <=> q \in due
        BY DEF IsAnswerTo
    <2> QED
        BY <2>1, <2>2, <2>3, AwaitsIs
<1>5. ASSUME NEW q, IsComing(q) PROVE IsComing(q)'
    <2>1. PICK i \in DOMAIN upChan :
             /\ upChan[i] = EventRecvJSONRPCETH(q, TRUE)
             /\ \A j \in DOMAIN upChan : IsAnswer(upChan[j]) /\ upChan[j].id = "auth" => i < j
        BY <1>5 DEF IsComing
    <2>2. ASSUME NEW j \in DOMAIN upChan', IsAnswer(upChan'[j]), upChan'[j].id = "auth" PROVE i < j
        BY <1>1, <1>2, <2>1, <2>2
    <2> QED
        BY <1>1, <2>1, <2>2 DEF IsComing, IsAnswer
<1>6. ASSUME NEW q, e = EventRecvJSONRPCETH(q, TRUE), "auth" \in due' PROVE IsComing(q)'
    <2>1. \A j \in DOMAIN upChan' : ~(IsAnswer(upChan'[j]) /\ upChan'[j].id = "auth")
        BY <1>3, <1>6 DEF AnsweredOnce, IsAnswer
    <2>2. Len(upChan) + 1 \in DOMAIN upChan' /\ upChan'[Len(upChan) + 1] = EventRecvJSONRPCETH(q, TRUE)
        BY <1>1, <1>6
    <2>3. \E i \in DOMAIN upChan' :
             /\ upChan'[i] = EventRecvJSONRPCETH(q, TRUE)
             /\ \A j \in DOMAIN upChan' : IsAnswer(upChan'[j]) /\ upChan'[j].id = "auth" => i < j
        BY <2>1, <2>2, Zenon
    <2> QED
        BY <2>3, Zenon DEF IsComing, IsAnswer
<1> QED
    BY <1>3, <1>4, <1>5, <1>6

\* What is not an answer comes and goes.
LEMMA NoAnswerKept ==
    ASSUME TypeInv, UNCHANGED requestVars,
           \/ upChan' = upChan
           \/ upChan # <<>> /\ ~IsAnswer(Head(upChan)) /\ upChan' = Tail(upChan)
           \/ \E e \in Message : ~IsAnswer(e) /\ upChan' = Append(upChan, e)
    PROVE  NoAnswer => NoAnswer'
<1>1. UNCHANGED <<due, granted>>
    BY DEF requestVars
<1>2. CASE upChan' = upChan
    BY <1>1, <1>2 DEF NoAnswer, IsAnswer
<1>3. CASE upChan # <<>> /\ ~IsAnswer(Head(upChan)) /\ upChan' = Tail(upChan)
    BY <1>1, <1>3, HeadFacts DEF NoAnswer
<1>4. CASE \E e \in Message : ~IsAnswer(e) /\ upChan' = Append(upChan, e)
    BY <1>1, <1>4, AppendProperties DEF NoAnswer, TypeInv
<1> QED
    BY <1>2, <1>3, <1>4

LEMMA AnswerInvKept ==
    ASSUME TypeInv, AnswerInv, UNCHANGED <<phase, up, requestVars>>,
           \/ upChan' = upChan
           \/ upChan # <<>> /\ ~IsAnswer(Head(upChan)) /\ upChan' = Tail(upChan)
           \/ \E e \in Message : ~IsAnswer(e) /\ upChan' = Append(upChan, e)
    PROVE  AnswerInv'
<1>1. UNCHANGED <<due, granted>> /\ AnsweredOnce
    BY DEF requestVars, AnswerInv
<1>2. /\ AnsweredOnce'
      /\ \A q : Awaits(q)' <=> Awaits(q)
      /\ \A q : IsComing(q) => IsComing(q)'
    <2>1. CASE upChan' = upChan
        BY <1>1, <2>1 DEF AnsweredOnce, Awaits, IsComing, IsAnswer
    <2>2. CASE upChan # <<>> /\ ~IsAnswer(Head(upChan)) /\ upChan' = Tail(upChan)
        <3>1. \A q : ~IsAnswerTo(Head(upChan), q)
            BY <2>2 DEF IsAnswerTo
        <3> QED
            BY <1>1, <2>2, <3>1, AnswersTaken
    <2>3. CASE \E e \in Message : ~IsAnswer(e) /\ upChan' = Append(upChan, e)
        BY <1>1, <2>3, AnswersAdded
    <2> QED
        BY <2>1, <2>2, <2>3
<1>3. \A q : Knows(q) => Knows(q)'
    BY DEF Knows
<1>4. GrantsKept'
    <2>1. \A q : Learns(q) => Learns(q)'
        BY <1>2, <1>3 DEF Learns
    <2> QED
        BY <1>1, <2>1 DEF AnswerInv, GrantsKept
<1>5. NotRefused' /\ StaysAuthorized'
    BY <1>1, <1>2 DEF AnswerInv, NotRefused, StaysAuthorized
<1> QED
    BY <1>2, <1>4, <1>5 DEF AnswerInv

LEMMA PoolAnswersStep ==
    ASSUME TypeInv, HandshakeInv, PoolAnswers
    PROVE  HandshakeInv'
<1>1. PICK q \in due, ok \in BOOLEAN :
         /\ upChan' = Append(upChan, EventRecvJSONRPCETH(q, ok))
         /\ due' = due \ {q}
         /\ granted' = IF ok /\ "auth" \in due' THEN granted \cup {q} ELSE granted
    BY DEF PoolAnswers
<1>2. phase' = phase /\ up' = up
    BY DEF PoolAnswers
<1>3. phase \notin {"connect", "direct", "request"}
    BY <1>1 DEF HandshakeInv, NoAnswer
<1>4. CASE phase \in {"handshake", "ready"}
    <2> DEFINE e == EventRecvJSONRPCETH(q, ok)
    <2>1. e \in Message /\ IsAnswer(e) /\ e.id = q
        BY DEF TypeInv, EventRecvJSONRPCETH, Message, IsAnswer
    <2>2. upChan' = Append(upChan, e)
        BY <1>1
    <2>3. AnswerInv /\ AnsweredOnce
        BY <1>4 DEF HandshakeInv, AnswerInv
    <2>e. ok = TRUE => e = EventRecvJSONRPCETH(q, TRUE)
        OBVIOUS
    <2> HIDE DEF e
    <2>4. /\ AnsweredOnce'
          /\ \A r : Awaits(r)' <=> Awaits(r)
          /\ \A r : IsComing(r) => IsComing(r)'
          /\ \A r : e = EventRecvJSONRPCETH(r, TRUE) /\ "auth" \in due' => IsComing(r)'
        BY <1>1, <2>1, <2>2, <2>3, AnswersAdded
    <2>5. \A r : Learns(r) => Learns(r)'
        BY <1>2, <2>4 DEF Learns, Knows
    <2>6. phase = "ready" => "auth" \notin due /\ granted' = granted
        BY <1>1 DEF HandshakeInv
    <2>7. GrantsKept'
        <3>1. SUFFICES ASSUME NEW r \in granted' PROVE Learns(r)'
            BY DEF GrantsKept
        <3>2. CASE r \in granted
            BY <2>3, <2>5, <3>2 DEF AnswerInv, GrantsKept
        <3>3. CASE r \notin granted
            <4>1. r = q /\ ok = TRUE /\ "auth" \in due'
                BY <1>1, <3>1, <3>3
            <4>2. IsComing(r)'
                BY <2>4, <2>e, <4>1
            <4>3. phase = "handshake"
                BY <1>4, <2>6, <3>1, <3>3
            <4> QED
                BY <1>2, <4>2, <4>3 DEF Learns
        <3> QED
            BY <3>2, <3>3
    <2>8. NotRefused'
        BY <1>2, <2>3, <2>4 DEF AnswerInv, NotRefused
    <2>9. StaysAuthorized'
        BY <1>2, <2>3, <2>6 DEF AnswerInv, StaysAuthorized
    <2>10. phase' = "ready" => "auth" \notin due'
        BY <1>1, <1>2, <2>6
    <2> QED
        BY <1>2, <1>4, <2>4, <2>7, <2>8, <2>9, <2>10 DEF AnswerInv, HandshakeInv
<1>5. CASE phase \notin {"handshake", "ready"}
    <2>1. phase = "lost" => "auth" \notin due' /\ granted' = granted
        BY <1>1 DEF HandshakeInv
    <2> QED
        BY <1>2, <1>3, <1>5, <2>1 DEF HandshakeInv
<1> QED
    BY <1>4, <1>5

LEMMA AnsweredStep ==
    ASSUME TypeInv, HandshakeInv, NEW id \in Requests, Answered(id)
    PROVE  HandshakeInv'
<1>1. /\ upChan # <<>> /\ IsAnswer(Head(upChan)) /\ Head(upChan).id = id
      /\ upChan' = Tail(upChan) /\ phase \in {"handshake", "ready"}
      /\ UNCHANGED <<due, granted>>
    BY DEF Answered, NextIs, IsAnswer, Looping, requestVars
<1>2. AnswerInv /\ AnsweredOnce
    BY <1>1 DEF HandshakeInv, AnswerInv
<1>3. /\ AnsweredOnce'
      /\ \A q : ~Awaits(q) => ~Awaits(q)'
      /\ \A q : Awaits(q) /\ ~IsAnswerTo(Head(upChan), q) => Awaits(q)'
      /\ \A q : IsAnswerTo(Head(upChan), q) => ~Awaits(q)'
      /\ \A q : IsComing(q) /\ ~IsAnswerTo(Head(upChan), q) => IsComing(q)'
    BY <1>1, <1>2, AnswersTaken
<1>4. \A q : IsAnswerTo(Head(upChan), q) <=> q = id
    BY <1>1 DEF IsAnswerTo
<1>5. /\ up \in [stat : {"disconnected", "connected", "subscribed", "authorized"},
                 serverConn : Route \cup {NoConn}, caps : BOOLEAN, sessionID : BOOLEAN]
      /\ granted \subseteq Requests \ {"auth"}
    BY DEF TypeInv
<1>6. /\ phase' = IF id = "auth" THEN "ready" ELSE phase
      /\ id = "auth" => up' = [up EXCEPT !.stat = "authorized"]
      /\ id = "sub" => up' = [up EXCEPT !.sessionID = TRUE, !.stat = "subscribed"]
      /\ id = "caps" => up' = [up EXCEPT !.caps = Head(upChan).ok]
    BY DEF Answered
<1>7. id = "auth" \/ id = "sub" \/ id = "caps"
    BY DEF Requests
\* The head is the answer that was granted, and the first of its kind.
<1>8. Awaits(id)
    <2>1. IsAnswerTo(upChan[1], id) /\ 1 \in DOMAIN upChan
        BY <1>1, HeadFacts DEF IsAnswerTo
    <2> QED
        BY <2>1, AwaitsIs
<1>9. ASSUME NEW q, IsComing(q) PROVE id # "auth" /\ (q = id => Head(upChan).ok = TRUE)
    <2>1. PICK i \in DOMAIN upChan :
             /\ upChan[i] = EventRecvJSONRPCETH(q, TRUE)
             /\ \A j \in DOMAIN upChan : IsAnswer(upChan[j]) /\ upChan[j].id = "auth" => i < j
        BY <1>9 DEF IsComing
    <2>2. Head(upChan) = upChan[1] /\ 1 \in DOMAIN upChan /\ i >= 1
        BY <1>1, HeadFacts DEF TypeInv
    <2>3. id # "auth"
        BY <1>1, <2>1, <2>2
    <2>4. ASSUME q = id PROVE Head(upChan).ok = TRUE
        <3>1. IsAnswer(upChan[i]) /\ upChan[i].id = id /\ upChan[i].ok = TRUE
            BY <2>1, <2>4 DEF IsAnswer, EventRecvJSONRPCETH
        <3>2. i = 1
            BY <1>1, <1>2, <2>2, <3>1 DEF AnsweredOnce
        <3> QED
            BY <2>2, <3>1, <3>2
    <2> QED
        BY <2>3, <2>4
<1>10. ASSUME NEW q \in granted PROVE Learns(q)'
    <2>1. Learns(q)
        BY <1>2 DEF AnswerInv, GrantsKept
    <2>2. CASE ~Awaits(q) /\ Knows(q)
        <3>1. q # id /\ ~Awaits(q)'
            BY <1>3, <1>8, <2>2
        <3>2. Knows(q)'
            BY <1>5, <1>6, <1>7, <2>2, <3>1 DEF Knows
        <3> QED
            BY <3>1, <3>2 DEF Learns
    <2>3. CASE phase = "handshake" /\ IsComing(q)
        <3>1. id # "auth" /\ (q = id => Head(upChan).ok = TRUE)
            BY <1>9, <2>3
        <3>2. CASE q = id
            <4>1. ~Awaits(q)'
                BY <1>3, <1>4, <3>2
            <4>2. Knows(q)'
                BY <1>5, <1>6, <1>7, <3>1, <3>2 DEF Knows
            <4> QED
                BY <4>1, <4>2 DEF Learns
        <3>3. CASE q # id
            <4>1. IsComing(q)' /\ phase' = "handshake"
                BY <1>3, <1>4, <1>6, <2>3, <3>1, <3>3
            <4> QED
                BY <4>1 DEF Learns
        <3> QED
            BY <3>2, <3>3
    <2> QED
        BY <2>1, <2>2, <2>3 DEF Learns
<1>11. GrantsKept'
    BY <1>1, <1>10 DEF GrantsKept
<1>12. NotRefused'
    <2>1. CASE id = "sub"
        BY <1>5, <1>6, <2>1 DEF NotRefused
    <2>2. CASE id # "sub"
        <3>1. up'.sessionID = up.sessionID
            BY <1>5, <1>6, <1>7, <2>2
        <3>2. Awaits("sub") => Awaits("sub")'
            BY <1>3, <1>4, <2>2
        <3> QED
            BY <1>2, <3>1, <3>2 DEF AnswerInv, NotRefused
    <2> QED
        BY <2>1, <2>2
<1>13. StaysAuthorized'
    <2>1. SUFFICES ASSUME phase' = "ready", "sub" \in granted PROVE up'.stat = "authorized"
        BY <1>1 DEF StaysAuthorized
    <2>2. CASE id = "auth"
        BY <1>5, <1>6, <2>2
    <2>3. CASE id # "auth"
        <3>1. phase = "ready"
            BY <1>6, <2>1, <2>3
        <3>2. Learns("sub") /\ up.stat = "authorized"
            BY <1>2, <2>1, <3>1 DEF AnswerInv, GrantsKept, StaysAuthorized
        <3>3. id # "sub"
            BY <1>8, <3>1, <3>2 DEF Learns
        <3> QED
            BY <1>5, <1>6, <1>7, <2>3, <3>2, <3>3
    <2> QED
        BY <2>2, <2>3
<1>14. phase' = "ready" => "auth" \notin due'
    <2>1. id = "auth" => "auth" \notin due
        BY <1>1, <1>2, HeadFacts DEF AnsweredOnce
    <2> QED
        BY <1>1, <1>6, <2>1 DEF HandshakeInv
<1>15. phase' \in {"handshake", "ready"}
    BY <1>1, <1>6
<1> QED
    BY <1>3, <1>11, <1>12, <1>13, <1>14, <1>15 DEF AnswerInv, HandshakeInv

\* The session that ends, and the pool that is given up.
LEMMA ShutsStep ==
    ASSUME TypeInv, HandshakeInv, NEW events, Shuts(events)
    PROVE  HandshakeInv'
<1>1. /\ phase' = IF phase # "ready" THEN "failed" ELSE IF up.stat = "authorized" THEN "closed" ELSE "lost"
      /\ UNCHANGED <<due, granted>>
    BY DEF Shuts, requestVars
<1>2. phase' = "lost" => phase = "ready" /\ up.stat # "authorized"
    BY <1>1
<1>3. phase' = "lost" => "auth" \notin due' /\ "sub" \notin granted'
    BY <1>1, <1>2 DEF HandshakeInv, AnswerInv, StaysAuthorized
<1> QED
    BY <1>1, <1>3 DEF HandshakeInv

LEMMA NextHandshakeInv ==
    ASSUME ConnectInv, StepKind
    PROVE  HandshakeInv'
<1>1. TypeInv /\ HandshakeInv
    BY DEF ConnectInv
<1>2. ASSUME UNCHANGED <<phase, up, requestVars>>,
             \/ upChan' = upChan
             \/ upChan # <<>> /\ ~IsAnswer(Head(upChan)) /\ upChan' = Tail(upChan)
             \/ \E e \in Message : ~IsAnswer(e) /\ upChan' = Append(upChan, e)
      PROVE  HandshakeInv'
    <2>1. (NoAnswer => NoAnswer') /\ (AnswerInv => AnswerInv')
        BY <1>1, <1>2, NoAnswerKept, AnswerInvKept
    <2>2. UNCHANGED <<phase, due, granted>>
        BY <1>2 DEF requestVars
    <2> QED
        BY <1>1, <2>1, <2>2 DEF HandshakeInv
<1>3. ASSUME NEW r, DialSucceeds(r) PROVE HandshakeInv'
    BY <1>2, <1>3 DEF DialSucceeds, sessionVars
<1>4. ASSUME NEW r \in Route, NEW ok \in BOOLEAN, NEW c, Tried(r, ok, c) PROVE HandshakeInv'
    <2>1. EventUpSessionConnection(r, ok) \in Message /\ ~IsAnswer(EventUpSessionConnection(r, ok))
        BY DEF EventUpSessionConnection, Message, IsAnswer
    <2> QED
        BY <1>2, <1>4, <2>1 DEF Tried, TryEnds, sessionVars
<1>5. ASSUME NextIs("UpSessionConnection"), upChan' = Tail(upChan), UNCHANGED requestVars,
             phase \in {"connect", "direct"}, phase' \in {"connect", "direct", "request"}
      PROVE  HandshakeInv'
    <2>1. upChan # <<>> /\ ~IsAnswer(Head(upChan))
        BY <1>5 DEF NextIs, IsAnswer
    <2>2. NoAnswer'
        BY <1>1, <1>5, <2>1, NoAnswerKept DEF HandshakeInv
    <2> QED
        BY <1>5, <2>2 DEF HandshakeInv
<1>6. CASE TakesConnection
    BY <1>5, <1>6 DEF TakesConnection
<1>7. ASSUME NextIs("UpSessionConnection"), HearsOn(Head(upChan).route) PROVE HandshakeInv'
    BY <1>5, <1>7 DEF HearsOn, sessionVars
<1>8. ASSUME NEW r, Fails(r) PROVE HandshakeInv'
    BY <1>8 DEF Fails, HandshakeInv
<1>9. CASE TriesNextPool /\ pool # PoolNum /\ UNCHANGED options
    BY <1>9, NextPoolIsFresh DEF ConnectInv
<1>10. ASSUME NEW events, Shuts(events) PROVE HandshakeInv'
    BY <1>1, <1>10, ShutsStep
<1>11. CASE SendInitRequest
    <2>1. phase' = "handshake" /\ upChan' = upChan /\ up' = up /\ NoAnswer /\ due' = Requests /\ granted' = granted
        BY <1>1, <1>11 DEF SendInitRequest, HandshakeInv
    <2>2. AnsweredOnce' /\ GrantsKept' /\ StaysAuthorized'
        BY <2>1 DEF AnsweredOnce, GrantsKept, StaysAuthorized, NoAnswer, IsAnswer
    <2>3. NotRefused'
        BY <2>1 DEF NotRefused, Awaits, Requests
    <2> QED
        BY <2>1, <2>2, <2>3 DEF HandshakeInv, AnswerInv
<1>12. CASE PoolAnswers
    BY <1>1, <1>12, PoolAnswersStep
<1>13. CASE ReaderBreaks
    <2>1. EventUpConnBroken \in Message /\ ~IsAnswer(EventUpConnBroken)
        BY DEF EventUpConnBroken, Message, IsAnswer
    <2>2. UNCHANGED <<phase, up, requestVars>> /\ upChan' = Append(upChan, EventUpConnBroken)
        BY <1>13 DEF ReaderBreaks
    <2> QED
        BY <1>2, <2>1, <2>2
<1>14. ASSUME NEW id \in Requests, Answered(id) PROVE HandshakeInv'
    BY <1>1, <1>14, AnsweredStep
<1>15. CASE OutdatedUpSessionConnection
    <2>1. /\ upChan # <<>> /\ ~IsAnswer(Head(upChan)) /\ upChan' = Tail(upChan)
          /\ UNCHANGED <<phase, up, requestVars>>
        BY <1>15 DEF OutdatedUpSessionConnection, NextIs, IsAnswer, sessionVars
    <2> QED
        BY <1>2, <2>1
<1>16. CASE UNCHANGED vars
    BY <1>2, <1>16 DEF vars, sessionVars
<1> QED
    BY <1>3, <1>4, <1>6, <1>7, <1>8, <1>9, <1>10, <1>11, <1>12, <1>13, <1>14, <1>15, <1>16
    DEF StepKind

-----------------------------------------------------------------------------
(* The theorems.                                                           *)

LEMMA NextConnectInv ==
    ASSUME ConnectInv, [Next]_vars
    PROVE  ConnectInv'
<1>1. StepKind
    BY StepKinds
<1>2. TypeInv'
    BY <1>1, NextTypeInv
<1>3. RouteInv'
    BY <1>1, NextTryInv, NextConnOwned, NextSessionInv DEF RouteInv
<1>4. RaceInv'
    BY <1>1, NextDialledInv, NextReadingInv, NextLostInv DEF RaceInv
<1>5. HandshakeInv'
    BY <1>1, NextHandshakeInv
<1> QED
    BY <1>2, <1>3, <1>4, <1>5 DEF ConnectInv

\* The invariant that the following theorems rest on.
THEOREM ConnectInvariant == Spec => []ConnectInv
<1>1. Init => ConnectInv
    BY InitConnectInv
<1>2. ConnectInv /\ [Next]_vars => ConnectInv'
    BY NextConnectInv
<1> QED
    BY <1>1, <1>2, PTL DEF Spec

\* Whatever is configured and whatever fails, the variables have their types.
THEOREM ConnectTyped == Spec => []ConnectTypeOK
<1>1. ConnectInv => ConnectTypeOK
    BY Typed DEF ConnectInv
<1> QED
    BY <1>1, ConnectInvariant, PTL

\* No connection to a pool is ever open that nobody will close, in any order of
\* the dials, tests, failures, answers and timeouts of tryConnect, connect and
\* handleEvent; and a session that lives has the connection it took.
THEOREM ConnectionsOwned == Spec => []ConnOwned
<1>1. ConnectInv => ConnOwned
    BY DEF ConnectInv, RouteInv
<1> QED
    BY <1>1, ConnectInvariant, PTL

\* In whatever order the pool answers the requests, and whatever its answers are:
\* the session that connect reports to the manager with EventUpSessionReady has
\* not been refused its session id and knows what the pool granted before it
\* authorized the session, although handleAuthorizeResponse looks at its own
\* answer only; and if the session id was granted by then, close tells the manager.
THEOREM ReadySessions == Spec => []ReadyIsComplete
<1>1. ASSUME ConnectInv PROVE ReadyIsComplete
    <2>1. TypeInv /\ ConnOwned /\ SessionInv /\ HandshakeInv
        BY <1>1 DEF ConnectInv, RouteInv
    <2>2. ASSUME phase = "ready"
          PROVE  /\ conn[up.serverConn] = "open"
                 /\ up.sessionID = TRUE \/ Awaits("sub")
                 /\ "caps" \in granted => up.caps = TRUE
                 /\ "sub" \in granted => up.sessionID = TRUE /\ up.stat = "authorized"
        <3>1. AnswerInv
            BY <2>1, <2>2 DEF HandshakeInv
        <3>2. conn[up.serverConn] = "open"
            BY <2>1, <2>2 DEF ConnOwned, SessionInv
        <3>3. \A q \in granted : Knows(q)
            BY <2>2, <3>1 DEF AnswerInv, GrantsKept, Learns
        <3> QED
            BY <2>2, <3>1, <3>2, <3>3 DEF AnswerInv, Knows, NotRefused, StaysAuthorized
    <2>3. phase = "lost" => "sub" \notin granted
        BY <2>1 DEF HandshakeInv
    <2> QED
        BY <2>2, <2>3, Zenon DEF ReadyIsComplete
<1> QED
    BY <1>1, ConnectInvariant, PTL

\* The failure in hand is the last of the attempt at this pool.
LosesLast ==
    /\ NextIs("UpSessionConnection") /\ ~Head(upChan).ok
    /\ \/ phase = "direct"
       \/ phase = "connect" /\ RaceIsLost(Head(upChan).route) /\ ~options.DirectConnectAfterProxy

LEMMA GivesUpWhenLost ==
    ASSUME ConnectInv, [Next]_vars, vars' # vars,
           pool' # pool \/ phase' = "failed", up.serverConn = NoConn
    PROVE  LosesLast
<1>1. TypeInv /\ SessionInv /\ ReadingInv /\ LostInv
    BY DEF ConnectInv, RouteInv, RaceInv
<1>2. phase \notin {"request", "handshake", "ready"}
    BY <1>1, ConnectAssumption DEF SessionInv, Route
<1>3. ~readLoop
    BY <1>1 DEF ReadingInv
<1>4. ASSUME NEW r \in Route, TryConnect(r) PROVE FALSE
    <2>1. stage[r] \in {"dialling", "testing"} /\ pool' = pool /\ phase' = phase
        BY <1>4 DEF TryConnect, DialFails, DialSucceeds, TestSucceeds, TestFails, TestTimesOut, TryEnds
    <2> QED
        BY <1>1, <2>1 DEF LostInv
<1>5. ~TakesConnection
    BY DEF TakesConnection
<1>6. CASE HearsFailure
    <2>1. NextIs("UpSessionConnection") /\ ~Head(upChan).ok
        BY <1>6 DEF HearsFailure
    <2>2. \/ phase = "direct"
          \/ phase = "connect" /\ RaceIsLost(Head(upChan).route) /\ ~options.DirectConnectAfterProxy
        BY <1>6 DEF HearsFailure
    <2> QED
        BY <2>1, <2>2 DEF LosesLast
<1>7. ~SendInitRequest /\ ~SendInitRequestFails
    BY <1>2 DEF SendInitRequest, SendInitRequestFails
<1>8. ~HandleEvent
    BY <1>2 DEF HandleEvent, HandleSubScribeResponse, HandleAuthorizeResponse, HandleGetCapsResponse,
                OutdatedUpSessionConnection, ConnBroken, Looping
<1>9. ~HandleResponse
    BY <1>3 DEF HandleResponse, PoolAnswers, ReaderBreaks
<1> QED
    BY <1>4, <1>5, <1>6, <1>7, <1>8, <1>9 DEF Next, SlotRuns

LEMMA LostRoutes ==
    ASSUME ConnectInv, LosesLast
    PROVE  \A r \in AllRoutes : IsLost(r) \/ (upChan # <<>> /\ Head(upChan) = EventUpSessionConnection(r, FALSE))
<1> DEFINE h == Head(upChan).route
<1>1. TypeInv /\ TryInv /\ SessionInv /\ ConnOwned /\ DialledInv
    BY DEF ConnectInv, RouteInv, RaceInv
<1>2. NextIs("UpSessionConnection") /\ ~Head(upChan).ok
    BY DEF LosesLast
<1>3. upChan # <<>> /\ h \in Route
    BY <1>1, <1>2, HeadConnection
<1>4. Head(upChan) = EventUpSessionConnection(h, FALSE)
    <2>1. Head(upChan) \in [type : {"UpSessionConnection"}, route : Route, ok : BOOLEAN]
        BY <1>1, <1>2, HeadConnection DEF Message, NextIs, EventUpConnBroken
    <2>2. Head(upChan).ok = FALSE
        BY <1>2, <2>1
    <2> QED
        BY <2>1, <2>2 DEF EventUpSessionConnection
<1>5. Racing \subseteq Route
    BY <1>1 DEF TypeInv, Route, Racing, Options
<1>6. CASE phase = "direct"
    <2>1. h = DirectAfter /\ \A q \in Racing : IsLost(q)
        BY <1>1, <1>2, <1>6, LastRoute DEF DialledInv
    <2>2. AllRoutes \subseteq Racing \cup {DirectAfter}
        BY DEF AllRoutes
    <2> HIDE DEF h
    <2> QED
        BY <1>3, <1>4, <2>1, <2>2
<1>7. CASE phase = "connect" /\ RaceIsLost(h) /\ ~options.DirectConnectAfterProxy
    <2>1. AllRoutes = Racing
        BY <1>1, <1>7 DEF AllRoutes, DialledInv
    <2>2. up.stat = "disconnected"
        BY <1>1, <1>7 DEF SessionInv, NewUpSession
    <2>3. \A q \in Racing \ {h} : IsLost(q)
        BY <1>1, <1>5, <1>7, <2>2 DEF RaceIsLost, ConnOwned, TryInv, IsLost
    <2> HIDE DEF h
    <2> QED
        BY <1>3, <1>4, <2>1, <2>3
<1> QED
    BY <1>6, <1>7 DEF LosesLast

\* The direct connection is dialled only when the whole race is lost, and a pool
\* is given up before the handshake only when every route that is configured has
\* failed, in whatever order the failures are heard.
THEOREM RoutesTakenInOrder == Spec => RoutesInOrder
<1>1. ConnectInv => DirectIsLastResort
    BY DEF ConnectInv, RaceInv, DialledInv
<1>2. ConnectInv /\ ConnectInv' /\ [Next]_vars =>
         [/\ DirectIsLastResort'
          /\ (pool' # pool \/ phase' = "failed") /\ up.serverConn = NoConn =>
                \A r \in AllRoutes :
                   IsLost(r) \/ (upChan # <<>> /\ Head(upChan) = EventUpSessionConnection(r, FALSE))]_vars
    <2>1. ConnectInv' => DirectIsLastResort'
        BY <1>1, PTL
    <2> QED
        BY <2>1, GivesUpWhenLost, LostRoutes
<1> QED
    BY <1>1, <1>2, ConnectInvariant, PTL DEF Spec, RoutesInOrder

\* connect implements SlotAttempt: the pools are tried in the order of the
\* configuration, none is skipped, and the manager is told once, of the session
\* that is ready or, after the last pool only, that there is none.
THEOREM PoolsTriedInOrder == Spec => PoolsInOrder
<1>1. Init => Attempt!AttemptInit
    BY DEF Init, Attempt!AttemptInit
<1>2. ConnectInv /\ [Next]_vars =>
         [Attempt!NextPool \/ Attempt!Ready \/ Attempt!Failed]_<<pool,
             IF phase \in {"ready", "closed", "lost"} THEN "UpSessionReady"
             ELSE IF phase = "failed" THEN "UpSessionInitFailed" ELSE "none">>
    <2> SUFFICES ASSUME ConnectInv, [Next]_vars
                 PROVE  [Attempt!NextPool \/ Attempt!Ready \/ Attempt!Failed]_<<pool,
                            IF phase \in {"ready", "closed", "lost"} THEN "UpSessionReady"
                            ELSE IF phase = "failed" THEN "UpSessionInitFailed" ELSE "none">>
        OBVIOUS
    <2>1. StepKind /\ pool \in Pool /\ PoolNum \in Nat
        BY StepKinds, ConnectAssumption DEF ConnectInv, TypeInv
    <2>2. CASE UNCHANGED <<pool, phase>>
        BY <2>2
    <2>3. ASSUME NEW r \in Route, DialSucceeds(r) PROVE UNCHANGED <<pool, phase>>
        BY <2>3 DEF DialSucceeds
    <2>4. ASSUME NEW r \in Route, NEW ok, NEW c, Tried(r, ok, c) PROVE UNCHANGED <<pool, phase>>
        BY <2>4 DEF Tried, TryEnds
    <2>5. CASE TakesConnection
        BY <2>5 DEF TakesConnection
    <2>6. ASSUME NEW r, HearsOn(r)
          PROVE  pool' = pool /\ phase = "connect" /\ phase' \in {"connect", "direct"}
        BY <2>6 DEF HearsOn
    <2>7. ASSUME NEW r, Fails(r) PROVE Attempt!Failed
        BY <2>7 DEF Fails, Attempt!Failed
    <2>8. CASE TriesNextPool /\ pool # PoolNum /\ phase \notin {"ready", "closed", "lost", "failed"}
        BY <2>1, <2>8 DEF TriesNextPool, Attempt!NextPool, Pool
    <2>9. ASSUME NEW events, Shuts(events)
          PROVE  Attempt!Failed \/ (pool' = pool /\ phase = "ready" /\ phase' \in {"closed", "lost"})
        BY <2>9 DEF Shuts, Attempt!Failed
    <2>10. CASE SendInitRequest
        BY <2>10 DEF SendInitRequest
    <2>11. CASE PoolAnswers \/ ReaderBreaks \/ OutdatedUpSessionConnection \/ UNCHANGED vars
        BY <2>2, <2>11 DEF PoolAnswers, ReaderBreaks, OutdatedUpSessionConnection, vars
    <2>12. ASSUME NEW id, Answered(id) PROVE Attempt!Ready \/ UNCHANGED <<pool, phase>>
        BY <2>12 DEF Answered, Looping, Attempt!Ready
    <2>13. CASE Attempt!NextPool \/ Attempt!Ready \/ Attempt!Failed
        BY <2>13
    <2> QED
        BY <2>1, <2>2, <2>3, <2>4, <2>5, <2>6, <2>7, <2>8, <2>9, <2>10, <2>11, <2>12, <2>13 DEF StepKind
<1> QED
    BY <1>1, <1>2, ConnectInvariant, PTL DEF Spec, PoolsInOrder, Attempt!AttemptSpec

-----------------------------------------------------------------------------
(* Channels with their capacity: messages, and sends that are left.        *)

\* The messages that may be in the channels or with a goroutine.
Letters ==
    {<<TheMgr, EventAddDownSession(d)>> : d \in Miner}
    \cup {<<TheMgr, EventReady(u)>> : u \in Up}
    \cup {<<TheMgr, EventBroken(u)>> : u \in Up}
    \cup {<<TheMgr, EventUpdateFakeJob>>}
    \cup {<<TheFake, e>> : e \in {EventTransferDownSessions, EventUpdateFakeJob, EventSendFakeNotify}}
    \cup {<<d, e>> : d \in Miner, e \in {EventSendBytes, EventConnBroken}}
    \cup {<<d, EventSetUpSession(p)>> : p \in PoolSession, d \in Miner}
    \cup {<<u, e>> : u \in Up, e \in {EventRecvJSONRPC, EventConnBroken}}
    \cup {<<u, EventRecvExMessage(d)>> : u \in Up, d \in Miner}
    \cup {<<p, EventAddDownSession(d)>> : p \in PoolSession, d \in Miner}
    \cup {<<p, EventDownSessionBroken(d)>> : p \in PoolSession, d \in Miner}

\* The sends that a handler may have to do, each with the loop that does it.
Plans ==
    {<<TheMgr, SendEvent(d, EventSetUpSession(p))>> : p \in PoolSession, d \in Miner}
    \cup {<<TheMgr, SendEvent(TheFake, e)>> : e \in {EventTransferDownSessions, EventUpdateFakeJob}}
    \cup {<<p, SendEvent(d, EventSendBytes)>> : p \in PoolSession, d \in Miner}
    \cup {<<p, GoSendEvent(d, EventSendBytes)>> : p \in PoolSession, d \in Miner}
    \cup {<<p, GivesBack(d)>> : p \in PoolSession, d \in Miner}
    \cup {<<u, SendEvent(TheMgr, EventBroken(u))>> : u \in Up}
    \cup {<<u, SendEvent(TheMgr, EventUpdateFakeJob)>> : u \in Up}
    \cup {<<d, SendEvent(p, EventAddDownSession(d))>> : p \in PoolSession, d \in Miner}
    \cup {<<d, SaysGoodbye(p, d)>> : p \in PoolSession, d \in Miner}

IsPlan(t) ==
    /\ IsChan(t)
    /\ \A a \in Actor : \A i \in DOMAIN t[a] : <<a, t[a][i]>> \in Plans

\* The messages that pass d on, and the sends that will be one.
Passing(d) ==
    {<<TheMgr, EventAddDownSession(d)>>}
    \cup {<<d, EventSetUpSession(p)>> : p \in PoolSession}
    \cup {<<p, EventAddDownSession(d)>> : p \in PoolSession}
Intended(d) == {m \in Plans : <<m[2].to, m[2].event>> \in Passing(d)}

HeldBy(p, d) == p \in open /\ d \in downSessions[p]

\* d is in one hand at most: a message, a send that is left to do, or a session.
OneHand(d) ==
    /\ AtMostOne(chan, spawned, Passing(d))
    /\ WaitsOnce(todo, Intended(d))
    /\ Waits(todo, Intended(d)) => Free(chan, spawned, Passing(d))
    /\ \A p, q \in PoolSession : HeldBy(p, d) /\ HeldBy(q, d) => p = q
    /\ \A p \in PoolSession :
          HeldBy(p, d) => Free(chan, spawned, Passing(d)) /\ ~Waits(todo, Intended(d))

\* A session that still has something to send to a miner itself has it in its
\* map, or has closed.
Writer(p, d) == HeldBy(p, d) \/ p \in Up \ open
GreetsOwn ==
    \A p \in PoolSession, d \in Miner : \A i \in DOMAIN todo[p] :
       todo[p][i] = SendEvent(d, EventSendBytes) => Writer(p, d)

WithinCap == \A a \in Actor : Len(chan[a]) <= Cap

LoopTypes ==
    /\ CustodyTypeOK
    /\ \A p \in PoolSession : IsFiniteSet(downSessions[p])
    /\ reading \subseteq Miner \cup Up
    /\ ready \subseteq Up
    /\ fakeJob \in BOOLEAN

BackInv ==
    /\ LoopTypes
    /\ Mail(chan, spawned, Letters)
    /\ WithinCap
    /\ IsPlan(todo)
    /\ \A d \in Miner : OneHand(d)
    /\ GreetsOwn

-----------------------------------------------------------------------------
(* The parts, and what the messages say.                                   *)

LEMMA Parts ==
    /\ TheMgr \in Mgr /\ TheMgr \in Actor /\ TheFake \in PoolSession /\ TheFake \in Actor
    /\ TheFake \notin Up /\ TheFake \notin Miner /\ TheFake # TheMgr
    /\ TheMgr \notin Miner /\ TheMgr \notin PoolSession
    /\ Miner \cap PoolSession = {} /\ Up \subseteq PoolSession
    /\ Miner \subseteq Actor /\ PoolSession \subseteq Actor
    /\ None \notin PoolSession
<1>1. TheMgr \in Mgr
    BY CapAssumption DEF TheMgr
<1>2. TheFake \in {Fake(m) : m \in Mgr}
    BY <1>1 DEF TheFake
<1> HIDE DEF TheMgr, TheFake
<1> QED
    BY <1>1, <1>2, ActorAssumption DEF PoolSession, Actor

LEMMA LetterIs ==
    ASSUME NEW a, NEW e, <<a, e>> \in Letters
    PROVE  /\ a \in Actor /\ e \in Events
           /\ e.type = "AddDownSession" =>
                 a \in PoolSession \cup {TheMgr} /\ \E d \in Miner : e = EventAddDownSession(d)
           /\ e.type = "SetUpSession" => a \in Miner /\ \E p \in PoolSession : e = EventSetUpSession(p)
           /\ e.type = "UpSessionReady" => a = TheMgr /\ \E u \in Up : e = EventReady(u)
           /\ e.type = "DownSessionBroken" => a \in PoolSession /\ \E d \in Miner : e = EventDownSessionBroken(d)
           /\ e.type = "RecvExMessage" => a \in Up /\ \E d \in Miner : e = EventRecvExMessage(d)
           /\ e.type \in {"TransferDownSessions", "SendFakeNotify"} => a = TheFake
           /\ e.type = "UpdateFakeJob" => a \in {TheFake, TheMgr}
<1> USE DEF EventAddDownSession, EventSetUpSession, EventReady, EventBroken, EventUpdateFakeJob,
            EventTransferDownSessions, EventSendFakeNotify, EventSendBytes, EventConnBroken,
            EventRecvJSONRPC, EventRecvExMessage, EventDownSessionBroken, Events
<1>1. CASE a = TheMgr /\ \E d \in Miner : e = EventAddDownSession(d)
    BY <1>1, Parts
<1>2. CASE a = TheMgr /\ \E u \in Up : e = EventReady(u)
    BY <1>2, Parts
<1>3. CASE a = TheMgr /\ \E u \in Up : e = EventBroken(u)
    BY <1>3, Parts
<1>4. CASE a = TheMgr /\ e = EventUpdateFakeJob
    BY <1>4, Parts
<1>5. CASE a = TheFake /\ e \in {EventTransferDownSessions, EventUpdateFakeJob, EventSendFakeNotify}
    BY <1>5, Parts
<1>6. CASE a \in Miner /\ e \in {EventSendBytes, EventConnBroken}
    BY <1>6, Parts
<1>7. CASE a \in Miner /\ \E p \in PoolSession : e = EventSetUpSession(p)
    BY <1>7, Parts
<1>8. CASE a \in Up /\ e \in {EventRecvJSONRPC, EventConnBroken}
    BY <1>8, Parts
<1>9. CASE a \in PoolSession /\ \E d \in Miner : e = EventAddDownSession(d)
    BY <1>9, Parts
<1>11. CASE a \in Up /\ \E d \in Miner : e = EventRecvExMessage(d)
    BY <1>11, Parts
<1>10. CASE a \in PoolSession /\ \E d \in Miner : e = EventDownSessionBroken(d)
    BY <1>10, Parts
<1> HIDE DEF EventAddDownSession, EventSetUpSession, EventReady, EventBroken, EventUpdateFakeJob,
            EventTransferDownSessions, EventSendFakeNotify, EventSendBytes, EventConnBroken,
            EventRecvJSONRPC, EventRecvExMessage, EventDownSessionBroken, Events
<1> QED
    BY <1>1, <1>2, <1>3, <1>4, <1>5, <1>6, <1>7, <1>8, <1>9, <1>10, <1>11 DEF Letters

\* Which sends wait for a place in a channel, and which can be a message.
LEMMA PlanIs ==
    ASSUME NEW a, NEW s, <<a, s>> \in Plans
    PROVE  /\ a \in Actor /\ s \in [to : Actor, event : Events, async : BOOLEAN]
           /\ <<s.to, s.event>> \in Letters
           /\ ~s.async =>
                 \/ a = TheMgr /\ s.to \in Miner /\ \E p \in PoolSession : s.event = EventSetUpSession(p)
                 \/ a = TheMgr /\ s.to = TheFake
                 \/ a \in PoolSession /\ s.to \in Miner /\ s = SendEvent(s.to, EventSendBytes)
                 \/ a \in Up /\ s.to = TheMgr
                 \/ a \in Miner /\ s.to \in PoolSession /\ s.event = EventAddDownSession(a)
<1> USE DEF SendEvent, GoSendEvent, GivesBack, SaysGoodbye
<1>1. CASE a = TheMgr /\ \E p \in PoolSession, d \in Miner : s = SendEvent(d, EventSetUpSession(p))
    <2>1. PICK p \in PoolSession, d \in Miner : s = SendEvent(d, EventSetUpSession(p))
        BY <1>1
    <2>2. <<d, EventSetUpSession(p)>> \in Letters
        BY DEF Letters
    <2> QED
        BY <1>1, <2>1, <2>2, LetterIs, Parts
<1>2. CASE a = TheMgr /\ \E e \in {EventTransferDownSessions, EventUpdateFakeJob} : s = SendEvent(TheFake, e)
    <2>1. PICK e \in {EventTransferDownSessions, EventUpdateFakeJob} : s = SendEvent(TheFake, e)
        BY <1>2
    <2>2. <<TheFake, e>> \in Letters
        BY DEF Letters
    <2> QED
        BY <1>2, <2>1, <2>2, LetterIs, Parts
<1>3. CASE a \in PoolSession /\ \E d \in Miner : s \in {SendEvent(d, EventSendBytes), GoSendEvent(d, EventSendBytes)}
    <2>1. PICK d \in Miner : s \in {SendEvent(d, EventSendBytes), GoSendEvent(d, EventSendBytes)}
        BY <1>3
    <2>2. <<d, EventSendBytes>> \in Letters
        BY DEF Letters
    <2>3. EventSendBytes \in Events /\ d \in Actor
        BY <2>2, LetterIs
    <2>4. CASE s = SendEvent(d, EventSendBytes)
        <3>1. s.to = d /\ s.event = EventSendBytes /\ s \in [to : Actor, event : Events, async : BOOLEAN]
            BY <2>3, <2>4
        <3> QED
            BY <1>3, <2>2, <2>4, <3>1, Parts
    <2>5. CASE s = GoSendEvent(d, EventSendBytes)
        BY <1>3, <2>2, <2>3, <2>5, Parts
    <2> QED
        BY <2>1, <2>4, <2>5
<1>4. CASE a \in PoolSession /\ \E d \in Miner : s = GivesBack(d)
    <2>1. PICK d \in Miner : s = GivesBack(d)
        BY <1>4
    <2>2. <<TheMgr, EventAddDownSession(d)>> \in Letters
        BY DEF Letters
    <2> QED
        BY <1>4, <2>1, <2>2, LetterIs, Parts
<1>5. CASE a \in Up /\ s \in {SendEvent(TheMgr, EventBroken(a)), SendEvent(TheMgr, EventUpdateFakeJob)}
    <2>1. <<TheMgr, EventBroken(a)>> \in Letters /\ <<TheMgr, EventUpdateFakeJob>> \in Letters
        BY <1>5 DEF Letters
    <2>2. EventBroken(a) \in Events /\ EventUpdateFakeJob \in Events
        BY <2>1, LetterIs
    <2>3. CASE s = SendEvent(TheMgr, EventBroken(a))
        BY <1>5, <2>1, <2>2, <2>3, Parts
    <2>4. CASE s = SendEvent(TheMgr, EventUpdateFakeJob)
        BY <1>5, <2>1, <2>2, <2>4, Parts
    <2> QED
        BY <1>5, <2>3, <2>4
<1>6. CASE a \in Miner /\ \E p \in PoolSession : s = SendEvent(p, EventAddDownSession(a))
    <2>1. PICK p \in PoolSession : s = SendEvent(p, EventAddDownSession(a))
        BY <1>6
    <2>2. <<p, EventAddDownSession(a)>> \in Letters
        BY <1>6 DEF Letters
    <2> QED
        BY <1>6, <2>1, <2>2, LetterIs, Parts
<1>7. CASE a \in Miner /\ \E p \in PoolSession : s = SaysGoodbye(p, a)
    <2>1. PICK p \in PoolSession : s = SaysGoodbye(p, a)
        BY <1>7
    <2>2. <<p, EventDownSessionBroken(a)>> \in Letters
        BY <1>7 DEF Letters
    <2> QED
        BY <1>7, <2>1, <2>2, LetterIs, Parts
<1> HIDE DEF SendEvent, GoSendEvent, GivesBack, SaysGoodbye
<1> QED
    BY <1>1, <1>2, <1>3, <1>4, <1>5, <1>6, <1>7 DEF Plans

-----------------------------------------------------------------------------
(* What a send and a handler's beginning do to the messages of one kind.   *)

\* One send of a loop, by itself or by a goroutine.
Posted(a, e) ==
    \/ Spawns({<<a, e>>}) /\ UNCHANGED chan
    \/ chan' = [chan EXCEPT ![a] = Append(@, e)] /\ UNCHANGED spawned

LEMMA AppendedTo ==
    ASSUME NEW STATE a, a \in Actor, NEW STATE e, IsChan(chan)
    PROVE  [chan EXCEPT ![a] = Append(@, e)] = Appended(chan, To(a, e))
<1>1. PICK S : chan[a] \in Seq(S)
    BY DEF IsChan, IsSequence
<1>2. Append(chan[a], e) = chan[a] \o <<e>>
    BY <1>1
<1>3. DOMAIN chan = Actor
    BY DEF IsChan
<1> QED
    BY <1>2, <1>3 DEF Appended, To

LEMMA PostedEffect ==
    ASSUME NEW STATE a, a \in Actor, NEW STATE e, NEW K, IsChan(chan), IsABag(spawned),
           AtMostOne(chan, spawned, K), Posted(a, e)
    PROVE  /\ <<a, e>> \notin K =>
                 AtMostOne(chan', spawned', K) /\ (Free(chan', spawned', K) <=> Free(chan, spawned, K))
           /\ <<a, e>> \in K /\ Free(chan, spawned, K) => AtMostOne(chan', spawned', K)
<1> DEFINE P == {<<a, e>>}
           sends == To(a, e)
<1>0. WaitsOnce(chan, K) /\ PendsOnce(spawned, K)
    BY DEF AtMostOne
<1>1. CASE Spawns(P) /\ UNCHANGED chan
    <2>1. spawned' = spawned (+) SetToBag(P) /\ chan' = chan
        BY <1>1 DEF Spawns
    <2>2. ASSUME <<a, e>> \notin K
          PROVE  /\ Pends(spawned (+) SetToBag(P), K) <=> Pends(spawned, K)
                 /\ PendsOnce(spawned (+) SetToBag(P), K)
        BY <1>0, <2>2, SpawnOther
    <2>3. ASSUME <<a, e>> \in K, Free(chan, spawned, K)
          PROVE  PendsOnce(spawned (+) SetToBag(P), K)
        BY <2>3, SpawnIt DEF Free
    <2> QED
        BY <2>1, <2>2, <2>3 DEF AtMostOne, Free
<1>2. CASE chan' = [chan EXCEPT ![a] = Append(@, e)] /\ UNCHANGED spawned
    <2>1. spawned' = spawned /\ chan' = Appended(chan, sends)
        BY <1>2, AppendedTo
    <2>2. OneEach(sends) /\ Posts(sends) = {<<a, e>>}
        BY ToPosts
    <2> HIDE DEF sends
    <2>3. ASSUME <<a, e>> \notin K
          PROVE  (Waits(Appended(chan, sends), K) <=> Waits(chan, K)) /\ WaitsOnce(Appended(chan, sends), K)
        BY <1>0, <2>2, <2>3, PostOther
    <2>4. ASSUME <<a, e>> \in K, Free(chan, spawned, K)
          PROVE  WaitsOnce(Appended(chan, sends), K)
        <3>1. <<a, e>> \in Posts(sends) /\ Posts(sends) \cap K = {<<a, e>>} /\ ~Waits(chan, K)
            BY <2>2, <2>4 DEF Free
        <3> DEFINE m == <<a, e>>
        <3>2. m \in Posts(sends) /\ Posts(sends) \cap K = {m}
            BY <3>1
        <3> HIDE DEF m
        <3> QED
            BY <2>2, <3>1, <3>2, PostIt
    <2> QED
        BY <2>1, <2>3, <2>4 DEF AtMostOne, Free
<1> QED
    BY <1>1, <1>2 DEF Posted

LEMMA PostedMail ==
    ASSUME NEW STATE G, NEW STATE a, a \in Actor, NEW STATE e, Mail(chan, spawned, G),
           <<a, e>> \in G, Posted(a, e)
    PROVE  Mail(chan', spawned', G)
<1>1. IsChan(chan) /\ IsABag(spawned)
    BY DEF Mail
<1>2. CASE Spawns({<<a, e>>}) /\ UNCHANGED chan
    <2>1. IsABag(spawned') /\ DOMAIN spawned' = DOMAIN spawned \cup {<<a, e>>} /\ chan' = chan
        BY <1>1, <1>2, SpawnedBag DEF Spawns
    <2> QED
        BY <2>1 DEF Mail, IsChan
<1>3. CASE chan' = [chan EXCEPT ![a] = Append(@, e)] /\ UNCHANGED spawned
    <2>1. PICK S : chan[a] \in Seq(S)
        BY <1>1 DEF IsChan, IsSequence
    <2>2. /\ Append(chan[a], e) \in Seq(S \cup {e})
          /\ DOMAIN Append(chan[a], e) = DOMAIN chan[a] \cup {Len(chan[a]) + 1}
          /\ Append(chan[a], e)[Len(chan[a]) + 1] = e
          /\ \A i \in DOMAIN chan[a] : Append(chan[a], e)[i] = chan[a][i]
        BY <2>1
    <2>3. /\ DOMAIN chan' = Actor /\ chan'[a] = Append(chan[a], e)
          /\ \A x \in Actor \ {a} : chan'[x] = chan[x]
        BY <1>1, <1>3 DEF IsChan
    <2>4. IsChan(chan')
        BY <1>1, <2>2, <2>3 DEF IsChan, IsSequence
    <2>5. \A i \in DOMAIN chan'[a] : <<a, chan'[a][i]>> \in G
        <3>1. \A i \in DOMAIN chan[a] : <<a, chan[a][i]>> \in G
            BY DEF Mail
        <3>2. DOMAIN chan'[a] = DOMAIN chan[a] \cup {Len(chan[a]) + 1}
            BY <2>2, <2>3
        <3> QED
            BY <2>2, <2>3, <3>1, <3>2
    <2>6. \A x \in Actor \ {a} : \A i \in DOMAIN chan'[x] : <<x, chan'[x][i]>> \in G
        BY <2>3 DEF Mail
    <2>7. \A x \in Actor : \A i \in DOMAIN chan'[x] : <<x, chan'[x][i]>> \in G
        BY <2>5, <2>6
    <2> QED
        BY <1>3, <2>4, <2>7 DEF Mail
<1> QED
    BY <1>2, <1>3 DEF Posted

\* The loop of a begins to do the sends s.
LEMMA Begun ==
    ASSUME NEW STATE t, IsChan(t), NEW STATE a, a \in Actor, t[a] = <<>>, NEW STATE s, IsSequence(s)
    PROVE  /\ IsChan([t EXCEPT ![a] = s])
           /\ [t EXCEPT ![a] = s][a] = s
           /\ \A x \in Actor \ {a} : [t EXCEPT ![a] = s][x] = t[x]
           /\ DOMAIN t[a] = {}
<1>1. DOMAIN t[a] = {}
    OBVIOUS
<1> QED
    BY <1>1 DEF IsChan

LEMMA BeginOther ==
    ASSUME NEW STATE t, IsChan(t), NEW STATE a, a \in Actor, t[a] = <<>>, NEW STATE s, IsSequence(s),
           NEW L, \A i \in DOMAIN s : <<a, s[i]>> \notin L
    PROVE  /\ Waits([t EXCEPT ![a] = s], L) <=> Waits(t, L)
           /\ WaitsOnce(t, L) => WaitsOnce([t EXCEPT ![a] = s], L)
<1> DEFINE n == [t EXCEPT ![a] = s]
<1>1. n[a] = s /\ (\A x \in Actor \ {a} : n[x] = t[x]) /\ DOMAIN t[a] = {}
    BY DEF IsChan
<1> HIDE DEF n
<1>2. Waits(n, L) <=> Waits(t, L)
    BY <1>1 DEF Waits
<1>3. WaitsOnce(t, L) => WaitsOnce(n, L)
    BY <1>1 DEF WaitsOnce
<1> QED
    BY <1>2, <1>3 DEF n

LEMMA BeginOne ==
    ASSUME NEW STATE t, IsChan(t), NEW STATE a, a \in Actor, t[a] = <<>>, NEW STATE s, IsSequence(s),
           NEW L, ~Waits(t, L),
           \A i, j \in DOMAIN s : <<a, s[i]>> \in L /\ <<a, s[j]>> \in L => i = j
    PROVE  WaitsOnce([t EXCEPT ![a] = s], L)
<1> DEFINE n == [t EXCEPT ![a] = s]
<1>1. n[a] = s /\ (\A x \in Actor \ {a} : n[x] = t[x])
    BY DEF IsChan
<1> HIDE DEF n
<1>2. \A x \in Actor : \A i \in DOMAIN n[x] : <<x, n[x][i]>> \in L => x = a
    BY <1>1 DEF Waits
<1>3. WaitsOnce(n, L)
    BY <1>1, <1>2 DEF WaitsOnce
<1> QED
    BY <1>3 DEF n

-----------------------------------------------------------------------------
(* The parts of the invariant, one step at a time.                         *)

\* Nothing but d's hand is about d.
LEMMA HandKept ==
    ASSUME NEW d, OneHand(d), AtMostOne(chan', spawned', Passing(d)),
           Free(chan', spawned', Passing(d)) <=> Free(chan, spawned, Passing(d)),
           WaitsOnce(todo', Intended(d)),
           Waits(todo', Intended(d)) => Waits(todo, Intended(d)),
           \A p \in PoolSession : HeldBy(p, d)' => HeldBy(p, d)
    PROVE  OneHand(d)'
BY DEF OneHand

LEMMA AppendWithinCap ==
    ASSUME NEW STATE a, a \in Actor, NEW STATE e, IsChan(chan), WithinCap, Room(a),
           chan' = [chan EXCEPT ![a] = Append(@, e)]
    PROVE  WithinCap'
<1>1. PICK S : chan[a] \in Seq(S)
    BY DEF IsChan, IsSequence
<1>2. Len(Append(chan[a], e)) = Len(chan[a]) + 1 /\ Len(chan[a]) \in Nat
    BY <1>1
<1>3. chan'[a] = Append(chan[a], e) /\ \A x \in Actor \ {a} : chan'[x] = chan[x]
    BY DEF IsChan
<1>4. Len(chan'[a]) <= Cap
    BY <1>2, <1>3, CapAssumption DEF Room
<1> QED
    BY <1>3, <1>4 DEF WithinCap

LEMMA ThenParts ==
    ASSUME NEW STATE a, a \in Actor, NEW STATE s, Mail(chan, spawned, Letters), WithinCap, IsPlan(todo),
           todo[a] = <<>>, chan[a] # <<>>, IsSequence(s), \A i \in DOMAIN s : <<a, s[i]>> \in Plans,
           Then(a, s)
    PROVE  /\ Mail(chan', spawned', Letters) /\ WithinCap' /\ IsPlan(todo')
           /\ <<a, Head(chan[a])>> \in Letters
           /\ todo'[a] = s /\ \A x \in Actor \ {a} : todo'[x] = todo[x]
<1>0. chan' = Taken(chan, a) /\ spawned' = spawned /\ todo' = [todo EXCEPT ![a] = s]
    BY DEF Then, Taken
<1>1. IsChan(chan) /\ IsABag(spawned) /\ IsChan(todo)
    BY DEF Mail, IsPlan
<1>2. /\ IsChan(chan')
      /\ \A x \in Actor \ {a} : chan'[x] = chan[x]
      /\ 1 \in DOMAIN chan[a] /\ Head(chan[a]) = chan[a][1]
      /\ \A i \in DOMAIN chan'[a] : i + 1 \in DOMAIN chan[a] /\ chan'[a][i] = chan[a][i + 1]
    BY <1>0, <1>1, TakenChannel
<1>3. Mail(chan', spawned', Letters) /\ <<a, Head(chan[a])>> \in Letters
    <2>1. \A x \in Actor : \A i \in DOMAIN chan'[x] : <<x, chan'[x][i]>> \in Letters
        BY <1>2 DEF Mail
    <2> QED
        BY <1>0, <1>2, <2>1 DEF Mail
<1>4. WithinCap'
    <2>1. PICK S : chan[a] \in Seq(S)
        BY <1>1 DEF IsChan, IsSequence
    <2>2. Len(Tail(chan[a])) <= Len(chan[a]) /\ Len(chan[a]) \in Nat /\ Len(Tail(chan[a])) \in Nat
        BY <2>1
    <2>3. chan'[a] = Tail(chan[a])
        BY <1>0, <1>1 DEF Taken, IsChan
    <2>4. Len(chan'[a]) <= Cap
        BY <2>2, <2>3, CapAssumption DEF WithinCap
    <2> QED
        BY <1>2, <2>4 DEF WithinCap
<1>5. todo'[a] = s /\ (\A x \in Actor \ {a} : todo'[x] = todo[x]) /\ IsChan(todo')
    <2>1. IsChan([todo EXCEPT ![a] = s])
        BY <1>1, Begun
    <2> QED
        BY <1>0, <1>1, <2>1 DEF IsChan
<1>6. IsPlan(todo')
    BY <1>5 DEF IsPlan
<1> QED
    BY <1>3, <1>4, <1>5, <1>6

LEMMA ThenMessages ==
    ASSUME NEW STATE a, a \in Actor, NEW STATE s, Mail(chan, spawned, Letters), chan[a] # <<>>, Then(a, s),
           NEW d, AtMostOne(chan, spawned, Passing(d))
    PROVE  /\ <<a, Head(chan[a])>> \notin Passing(d) =>
                 /\ AtMostOne(chan', spawned', Passing(d))
                 /\ Free(chan', spawned', Passing(d)) <=> Free(chan, spawned, Passing(d))
           /\ <<a, Head(chan[a])>> \in Passing(d) =>
                 Free(chan', spawned', Passing(d)) /\ ~Free(chan, spawned, Passing(d))
<1> DEFINE K == Passing(d)
<1>1. chan' = Taken(chan, a) /\ spawned' = spawned
    BY DEF Then, Taken
<1>2. IsChan(chan) /\ AtMostOne(chan, spawned, K)
    BY DEF Mail
<1> HIDE DEF K
<1>3. /\ <<a, Head(chan[a])>> \notin K =>
            /\ AtMostOne(Taken(chan, a), spawned, K)
            /\ Free(Taken(chan, a), spawned, K) <=> Free(chan, spawned, K)
      /\ <<a, Head(chan[a])>> \in K => Free(Taken(chan, a), spawned, K) /\ ~Free(chan, spawned, K)
    BY <1>2, TakeEffect
<1> QED
    BY <1>1, <1>3 DEF K

\* A handler that neither gets nor sends anything that passes d on.
LEMMA ThenOther ==
    ASSUME NEW STATE a, a \in Actor, NEW STATE s, Mail(chan, spawned, Letters), IsPlan(todo),
           todo[a] = <<>>, chan[a] # <<>>, IsSequence(s), Then(a, s),
           NEW d, OneHand(d), <<a, Head(chan[a])>> \notin Passing(d),
           \A i \in DOMAIN s : <<a, s[i]>> \notin Intended(d),
           \A p \in PoolSession : HeldBy(p, d)' => HeldBy(p, d)
    PROVE  OneHand(d)'
<1>1. AtMostOne(chan, spawned, Passing(d)) /\ WaitsOnce(todo, Intended(d))
    BY DEF OneHand
<1>2. AtMostOne(chan', spawned', Passing(d)) /\ (Free(chan', spawned', Passing(d)) <=> Free(chan, spawned, Passing(d)))
    BY <1>1, ThenMessages
<1>3. WaitsOnce(todo', Intended(d)) /\ (Waits(todo', Intended(d)) <=> Waits(todo, Intended(d)))
    <2> DEFINE L == Intended(d)
    <2>1. IsChan(todo) /\ todo' = [todo EXCEPT ![a] = s] /\ \A i \in DOMAIN s : <<a, s[i]>> \notin L
        BY DEF IsPlan, Then
    <2> HIDE DEF L
    <2>2. /\ Waits([todo EXCEPT ![a] = s], L) <=> Waits(todo, L)
          /\ WaitsOnce(todo, L) => WaitsOnce([todo EXCEPT ![a] = s], L)
        BY <2>1, BeginOther
    <2> QED
        BY <1>1, <2>1, <2>2 DEF L
<1> QED
    BY <1>2, <1>3, HandKept

\* A handler that gets d and has one thing to do with it, or that loses d from
\* its map.
LEMMA ThenPasses ==
    ASSUME NEW STATE a, a \in Actor, NEW STATE s, Mail(chan, spawned, Letters), IsPlan(todo),
           todo[a] = <<>>, chan[a] # <<>>, IsSequence(s), Then(a, s),
           NEW d, OneHand(d),
           <<a, Head(chan[a])>> \in Passing(d) \/ \E p \in PoolSession : HeldBy(p, d),
           \A i, j \in DOMAIN s : <<a, s[i]>> \in Intended(d) /\ <<a, s[j]>> \in Intended(d) => i = j,
           \A p \in PoolSession : ~HeldBy(p, d)'
    PROVE  OneHand(d)'
<1>1. AtMostOne(chan, spawned, Passing(d))
    BY DEF OneHand
<1>2. /\ <<a, Head(chan[a])>> \notin Passing(d) =>
            /\ AtMostOne(chan', spawned', Passing(d))
            /\ Free(chan', spawned', Passing(d)) <=> Free(chan, spawned, Passing(d))
      /\ <<a, Head(chan[a])>> \in Passing(d) =>
            Free(chan', spawned', Passing(d)) /\ ~Free(chan, spawned, Passing(d))
    BY <1>1, ThenMessages
<1>3. Free(chan', spawned', Passing(d)) /\ ~Waits(todo, Intended(d))
    BY <1>2 DEF OneHand
<1>4. AtMostOne(chan', spawned', Passing(d))
    BY <1>3, FreeIsAtMostOne
<1>5. WaitsOnce(todo', Intended(d))
    <2> DEFINE L == Intended(d)
    <2>1. /\ IsChan(todo) /\ todo' = [todo EXCEPT ![a] = s] /\ ~Waits(todo, L)
          /\ \A i, j \in DOMAIN s : <<a, s[i]>> \in L /\ <<a, s[j]>> \in L => i = j
        BY <1>3 DEF IsPlan, Then
    <2> HIDE DEF L
    <2>2. WaitsOnce([todo EXCEPT ![a] = s], L)
        BY <2>1, BeginOne
    <2> QED
        BY <2>1, <2>2 DEF L
<1> QED
    BY <1>3, <1>4, <1>5 DEF OneHand

-----------------------------------------------------------------------------
(* Sends.                                                                  *)

LEMMA HeadIsPlan ==
    ASSUME NEW STATE a, a \in Actor, IsPlan(todo), todo[a] # <<>>
    PROVE  /\ IsChan(todo)
           /\ 1 \in DOMAIN todo[a] /\ Head(todo[a]) = todo[a][1]
           /\ <<a, Head(todo[a])>> \in Plans
<1>1. IsChan(todo)
    BY DEF IsPlan
<1>2. 1 \in DOMAIN todo[a] /\ Head(todo[a]) = todo[a][1]
    BY <1>1, TakenChannel
<1> QED
    BY <1>1, <1>2 DEF IsPlan

LEMMA ContinuesStep ==
    ASSUME BackInv, NEW a \in Actor, Continues(a)
    PROVE  BackInv'
<1> DEFINE s == Head(todo[a])
<1>1. /\ LoopTypes /\ Mail(chan, spawned, Letters) /\ WithinCap /\ IsPlan(todo) /\ GreetsOwn
      /\ \A d \in Miner : OneHand(d)
    BY DEF BackInv
<1>2. /\ todo[a] # <<>> /\ todo' = Taken(todo, a)
      /\ \/ Spawns({<<s.to, s.event>>}) /\ UNCHANGED chan
         \/ Room(s.to) /\ chan' = [chan EXCEPT ![s.to] = Append(@, s.event)] /\ UNCHANGED spawned
      /\ UNCHANGED <<custodyVars, reading, ready, fakeJob>>
    BY DEF Continues, Taken
<1>3. IsChan(todo) /\ <<a, s>> \in Plans
    BY <1>1, <1>2, HeadIsPlan
<1> HIDE DEF s
<1>4. s.to \in Actor /\ <<s.to, s.event>> \in Letters
    BY <1>3, PlanIs
<1>5. Posted(s.to, s.event)
    BY <1>2 DEF Posted
<1>6. IsChan(chan) /\ IsABag(spawned)
    BY <1>1 DEF Mail
<1>7. Mail(chan', spawned', Letters)
    BY <1>1, <1>4, <1>5, PostedMail
<1>8. WithinCap'
    <2>1. CASE UNCHANGED chan
        BY <1>1, <2>1 DEF WithinCap
    <2>2. CASE Room(s.to) /\ chan' = [chan EXCEPT ![s.to] = Append(@, s.event)]
        BY <1>1, <1>4, <1>6, <2>2, AppendWithinCap
    <2> QED
        BY <1>2, <2>1, <2>2
<1>9. /\ IsChan(todo')
      /\ \A x \in Actor \ {a} : todo'[x] = todo[x]
      /\ \A i \in DOMAIN todo'[a] : i + 1 \in DOMAIN todo[a] /\ todo'[a][i] = todo[a][i + 1]
    BY <1>2, <1>3, TakenChannel
<1>10. IsPlan(todo')
    BY <1>1, <1>9 DEF IsPlan
<1>11. UNCHANGED <<running, upSession, open, downSessions, reading, ready, fakeJob>>
    BY <1>2 DEF custodyVars
<1>12. \A d : \A p : HeldBy(p, d)' <=> HeldBy(p, d)
    BY <1>11 DEF HeldBy
<1>13. ASSUME NEW d \in Miner PROVE OneHand(d)'
    <2> DEFINE K == Passing(d)
               L == Intended(d)
    <2>0. OneHand(d)
        BY <1>1
    <2>1. AtMostOne(chan, spawned, K) /\ WaitsOnce(todo, L)
        BY <2>0 DEF OneHand
    <2>2. <<a, s>> \in L <=> <<s.to, s.event>> \in K
        BY <1>3 DEF Intended
    <2>3. /\ <<s.to, s.event>> \notin K =>
                AtMostOne(chan', spawned', K) /\ (Free(chan', spawned', K) <=> Free(chan, spawned, K))
          /\ <<s.to, s.event>> \in K /\ Free(chan, spawned, K) => AtMostOne(chan', spawned', K)
        <3> HIDE DEF K
        <3> QED
            BY <1>4, <1>5, <1>6, <2>1, PostedEffect
    <2>4. CASE <<a, s>> \in L
        <3> HIDE DEF L
        <3>1. ~Waits(todo', L) /\ Waits(todo, L)
            BY <1>2, <1>3, <2>1, <2>4, TakeIt DEF s
        <3>2. WaitsOnce(todo', L)
            BY <3>1 DEF WaitsOnce, Waits
        <3>3. Free(chan, spawned, K) /\ \A p \in PoolSession : ~HeldBy(p, d)
            BY <2>0, <3>1 DEF OneHand, L
        <3> QED
            BY <1>12, <2>2, <2>3, <2>4, <3>1, <3>2, <3>3 DEF OneHand, L
    <2>5. CASE <<a, s>> \notin L
        <3> HIDE DEF L
        <3>1. (Waits(todo', L) <=> Waits(todo, L)) /\ WaitsOnce(todo', L)
            BY <1>2, <1>3, <2>1, <2>5, TakeOther DEF s
        <3> QED
            BY <1>12, <2>0, <2>2, <2>3, <2>5, <3>1, HandKept DEF L
    <2> QED
        BY <2>4, <2>5
<1>14. GreetsOwn'
    <2>1. ASSUME NEW p \in PoolSession, NEW d \in Miner, NEW i \in DOMAIN todo'[p],
                 todo'[p][i] = SendEvent(d, EventSendBytes)
          PROVE  Writer(p, d)
        <3>1. \E j \in DOMAIN todo[p] : todo[p][j] = todo'[p][i]
            BY <1>9, Parts
        <3> QED
            BY <1>1, <2>1, <3>1 DEF GreetsOwn
    <2> QED
        BY <1>11, <1>12, <2>1 DEF GreetsOwn, Writer
<1>15. LoopTypes'
    BY <1>1, <1>11 DEF LoopTypes, CustodyTypeOK
<1> QED
    BY <1>7, <1>8, <1>10, <1>13, <1>14, <1>15 DEF BackInv

\* A message that passes nobody on, from a goroutine or a reader.
LEMMA SenderRunsStep ==
    ASSUME BackInv, NEW m \in BagToSet(spawned), SenderRuns(m)
    PROVE  BackInv'
<1>1. /\ LoopTypes /\ Mail(chan, spawned, Letters) /\ WithinCap /\ IsPlan(todo) /\ GreetsOwn
      /\ \A d \in Miner : OneHand(d)
    BY DEF BackInv
<1>2. IsChan(chan) /\ IsABag(spawned)
    BY <1>1 DEF Mail
<1>3. m \in Letters
    BY <1>1 DEF Mail, BagToSet
<1>4. PICK a, e : m = <<a, e>>
    BY <1>3 DEF Letters
<1>5. a \in Actor
    BY <1>3, <1>4, LetterIs
<1>6. Deliver(<<a, e>>) /\ Room(a) /\ UNCHANGED <<custodyVars, loopVars>>
    BY <1>4 DEF SenderRuns
<1>7. Mail(chan', spawned', Letters)
    BY <1>1, <1>5, <1>6, DeliverMail
<1>8. WithinCap'
    BY <1>1, <1>2, <1>5, <1>6, AppendWithinCap DEF Deliver
<1>9. UNCHANGED <<running, upSession, open, downSessions, todo, reading, ready, fakeJob>>
    BY <1>6 DEF custodyVars, loopVars
<1>10. \A d : \A p : HeldBy(p, d)' <=> HeldBy(p, d)
    BY <1>9 DEF HeldBy
<1>11. ASSUME NEW d \in Miner PROVE OneHand(d)'
    <2> DEFINE K == Passing(d)
    <2>1. OneHand(d) /\ AtMostOne(chan, spawned, K) /\ WaitsOnce(todo, Intended(d))
        BY <1>1 DEF OneHand
    <2>2. AtMostOne(chan', spawned', K) /\ (Free(chan', spawned', K) <=> Free(chan, spawned, K))
        <3> HIDE DEF K
        <3> QED
            BY <1>2, <1>5, <1>6, <2>1, DeliverKeeps
    <2> QED
        BY <1>9, <1>10, <2>1, <2>2, HandKept
<1>12. LoopTypes' /\ IsPlan(todo') /\ GreetsOwn'
    BY <1>1, <1>9, <1>10 DEF LoopTypes, CustodyTypeOK, IsPlan, GreetsOwn, Writer
<1> QED
    BY <1>7, <1>8, <1>11, <1>12 DEF BackInv

LEMMA ReadsStep ==
    ASSUME BackInv, NEW STATE a, a \in Actor, NEW STATE e, <<a, e>> \in Letters,
           \A d \in Miner : <<a, e>> \notin Passing(d),
           Reads(a, e), reading' \subseteq reading
    PROVE  BackInv'
<1>1. /\ LoopTypes /\ Mail(chan, spawned, Letters) /\ WithinCap /\ IsPlan(todo) /\ GreetsOwn
      /\ \A d \in Miner : OneHand(d)
    BY DEF BackInv
<1>2. IsChan(chan) /\ IsABag(spawned)
    BY <1>1 DEF Mail
<1>3. Room(a) /\ chan' = [chan EXCEPT ![a] = Append(@, e)] /\ UNCHANGED <<spawned, custodyVars, todo, ready, fakeJob>>
    BY DEF Reads
<1>4. Posted(a, e)
    BY <1>3 DEF Posted
<1>5. Mail(chan', spawned', Letters)
    BY <1>1, <1>4, PostedMail
<1>6. WithinCap'
    BY <1>1, <1>2, <1>3, AppendWithinCap
<1>7. UNCHANGED <<running, upSession, open, downSessions, todo, ready, fakeJob>>
    BY <1>3 DEF custodyVars
<1>8. \A d : \A p : HeldBy(p, d)' <=> HeldBy(p, d)
    BY <1>7 DEF HeldBy
<1>9. ASSUME NEW d \in Miner PROVE OneHand(d)'
    <2> DEFINE K == Passing(d)
    <2>1. OneHand(d) /\ AtMostOne(chan, spawned, K) /\ WaitsOnce(todo, Intended(d)) /\ <<a, e>> \notin K
        BY <1>1 DEF OneHand
    <2>2. AtMostOne(chan', spawned', K) /\ (Free(chan', spawned', K) <=> Free(chan, spawned, K))
        <3> HIDE DEF K
        <3> QED
            BY <1>2, <1>4, <2>1, PostedEffect
    <2> QED
        BY <1>7, <1>8, <2>1, <2>2, HandKept
<1>10. LoopTypes' /\ IsPlan(todo') /\ GreetsOwn'
    BY <1>1, <1>7, <1>8 DEF LoopTypes, CustodyTypeOK, IsPlan, GreetsOwn, Writer
<1> QED
    BY <1>5, <1>6, <1>9, <1>10 DEF BackInv

\* What a message of one type is, and that it passes nobody on.
LEMMA PassingIs ==
    ASSUME NEW d, NEW a, NEW e
    PROVE  <<a, e>> \in Passing(d) <=>
              \/ a \in PoolSession \cup {TheMgr} /\ e = EventAddDownSession(d)
              \/ a = d /\ \E p \in PoolSession : e = EventSetUpSession(p)
BY DEF Passing

LEMMA EnvironmentStep ==
    ASSUME BackInv, Environment
    PROVE  BackInv'
<1> USE DEF EventAddDownSession, EventSetUpSession, EventConnBroken, EventRecvJSONRPC, EventRecvExMessage,
            EventSendFakeNotify
<1>1. ASSUME NEW u \in Up, PoolNotifies(u) PROVE BackInv'
    <2> DEFINE e == EventRecvJSONRPC
    <2>1. u \in Actor /\ <<u, e>> \in Letters
        BY Parts DEF Letters
    <2>2. \A d \in Miner : <<u, e>> \notin Passing(d)
        BY PassingIs
    <2>3. Reads(u, e) /\ reading' \subseteq reading
        BY <1>1 DEF PoolNotifies, PoolSends
    <2> HIDE DEF e
    <2> QED
        BY <2>1, <2>2, <2>3, ReadsStep
<1>2. ASSUME NEW a \in Miner \cup Up, Breaks(a) PROVE BackInv'
    <2> DEFINE e == EventConnBroken
    <2>1. a \in Actor /\ <<a, e>> \in Letters
        BY Parts DEF Letters
    <2>2. \A d \in Miner : <<a, e>> \notin Passing(d)
        BY PassingIs
    <2>3. Reads(a, e) /\ reading' \subseteq reading
        BY <1>2 DEF Breaks
    <2> HIDE DEF e
    <2> QED
        BY <2>1, <2>2, <2>3, ReadsStep
<1>4. ASSUME NEW u \in Up, PoolSetsExtraNonce(u) PROVE BackInv'
    <2>0. PICK d \in downSessions[u] : PoolSends(u, EventRecvExMessage(d))
        BY <1>4 DEF PoolSetsExtraNonce
    <2> DEFINE e == EventRecvExMessage(d)
    <2>1. d \in Miner
        BY Parts DEF BackInv, LoopTypes, CustodyTypeOK
    <2>2. u \in Actor /\ <<u, e>> \in Letters
        BY <2>1, Parts DEF Letters
    <2>3. \A c \in Miner : <<u, e>> \notin Passing(c)
        BY PassingIs
    <2>4. Reads(u, e) /\ reading' \subseteq reading
        BY <2>0 DEF PoolSends
    <2> HIDE DEF e
    <2> QED
        BY <2>2, <2>3, <2>4, ReadsStep
<1>3. ASSUME Ticks(TheFake) PROVE BackInv'
    <2> DEFINE e == EventSendFakeNotify
               p == TheFake
    <2>1. p \in Actor /\ <<p, e>> \in Letters
        BY Parts DEF Letters
    <2>2. \A d \in Miner : <<p, e>> \notin Passing(d)
        BY PassingIs
    <2>3. Reads(p, e) /\ reading' \subseteq reading
        BY <1>3 DEF Ticks
    <2> HIDE DEF e, p
    <2> QED
        BY <2>1, <2>2, <2>3, ReadsStep
<1> QED
    BY <1>1, <1>2, <1>3, <1>4 DEF Environment

-----------------------------------------------------------------------------
(* The sequences of sends.                                                 *)

LEMMA SetToSeqIs ==
    ASSUME NEW S, IsFiniteSet(S)
    PROVE  /\ IsSequence(SetToSeq(S))
           /\ \A i \in DOMAIN SetToSeq(S) : SetToSeq(S)[i] \in S
           /\ \A i, j \in DOMAIN SetToSeq(S) : SetToSeq(S)[i] = SetToSeq(S)[j] => i = j
           /\ \A x \in S : \E i \in DOMAIN SetToSeq(S) : SetToSeq(S)[i] = x
<1> DEFINE n == Cardinality(S)
<1>1. n \in Nat /\ ExistsBijection(1 .. n, S)
    BY FS_CardinalityType
<1>2. \E f \in [1 .. n -> S] : IsInjective(f)
    BY <1>1 DEF ExistsBijection, Bijection, Injection
<1>3. SetToSeq(S) \in [1 .. n -> S] /\ IsInjective(SetToSeq(S))
    BY <1>2 DEF SetToSeq
<1>4. SetToSeq(S) \in Seq(S)
    BY <1>1, <1>3
<1>5. SetToSeq(S) \in Surjection(1 .. n, S)
    <2>1. SetToSeq(S) \in Injection(1 .. n, S)
        BY <1>3 DEF Injection
    <2>2. Cardinality(1 .. n) = Cardinality(S)
        BY <1>1, FS_Interval
    <2> QED
        BY <2>1, <2>2, FS_Injection
<1>6. \A x \in S : \E i \in DOMAIN SetToSeq(S) : SetToSeq(S)[i] = x
    BY <1>3, <1>5 DEF Surjection
<1> QED
    BY <1>3, <1>4, <1>6 DEF IsSequence, IsInjective

LEMMA GivesBackAll ==
    ASSUME NEW S, IsFiniteSet(S)
    PROVE  /\ IsSequence(ToEach(S, GivesBack))
           /\ \A i \in DOMAIN ToEach(S, GivesBack) : \E d \in S : ToEach(S, GivesBack)[i] = GivesBack(d)
           /\ \A i, j \in DOMAIN ToEach(S, GivesBack) : \A d :
                 ToEach(S, GivesBack)[i] = GivesBack(d) /\ ToEach(S, GivesBack)[j] = GivesBack(d) => i = j
           /\ \A d \in S : \E i \in DOMAIN ToEach(S, GivesBack) : ToEach(S, GivesBack)[i] = GivesBack(d)
<1> DEFINE s == SetToSeq(S)
           t == ToEach(S, GivesBack)
<1>1. /\ IsSequence(s) /\ \A i \in DOMAIN s : s[i] \in S
      /\ \A i, j \in DOMAIN s : s[i] = s[j] => i = j
      /\ \A d \in S : \E i \in DOMAIN s : s[i] = d
    BY SetToSeqIs
<1>2. t = [i \in DOMAIN s |-> GivesBack(s[i])]
    BY DEF ToEach
<1> HIDE DEF s, t
<1>3. PICK T : s \in Seq(T)
    BY <1>1 DEF IsSequence
<1>4. DOMAIN s = 1 .. Len(s) /\ Len(s) \in Nat
    BY <1>3
<1>5. t \in Seq({GivesBack(d) : d \in S})
    BY <1>1, <1>2, <1>4
<1>6. \A c, d : GivesBack(c) = GivesBack(d) => c = d
    BY DEF GivesBack, GoSendEvent, EventAddDownSession
<1>7. DOMAIN t = DOMAIN s /\ \A i \in DOMAIN s : t[i] = GivesBack(s[i])
    BY <1>2
<1>8. IsSequence(t)
    BY <1>5 DEF IsSequence
<1>9. ASSUME NEW i \in DOMAIN t, NEW j \in DOMAIN t, NEW d, t[i] = GivesBack(d), t[j] = GivesBack(d)
      PROVE  i = j
    BY <1>1, <1>6, <1>7, <1>9
<1>10. \A i \in DOMAIN t : \E d \in S : t[i] = GivesBack(d)
    BY <1>1, <1>7
<1>11. \A d \in S : \E i \in DOMAIN t : t[i] = GivesBack(d)
    BY <1>1, <1>7
<1> QED
    BY <1>8, <1>9, <1>10, <1>11 DEF t

LEMMA JobForAll ==
    ASSUME NEW S, IsFiniteSet(S)
    PROVE  LET t == ToEach(S, LAMBDA d : GoSendEvent(d, EventSendBytes))
           IN  IsSequence(t) /\ \A i \in DOMAIN t : \E d \in S : t[i] = GoSendEvent(d, EventSendBytes)
<1> DEFINE s == SetToSeq(S)
           t == ToEach(S, LAMBDA d : GoSendEvent(d, EventSendBytes))
<1>1. IsSequence(s) /\ \A i \in DOMAIN s : s[i] \in S
    BY SetToSeqIs
<1>2. t = [i \in DOMAIN s |-> GoSendEvent(s[i], EventSendBytes)]
    BY DEF ToEach
<1> HIDE DEF s
<1>3. PICK T : s \in Seq(T)
    BY <1>1 DEF IsSequence
<1>4. DOMAIN s = 1 .. Len(s) /\ Len(s) \in Nat
    BY <1>3
<1>5. t \in Seq({GoSendEvent(d, EventSendBytes) : d \in S})
    <2> HIDE DEF t
    <2> QED
        BY <1>1, <1>2, <1>4
<1>6. \A i \in DOMAIN t : \E d \in S : t[i] = GoSendEvent(d, EventSendBytes)
    <2> HIDE DEF t
    <2> QED
        BY <1>1, <1>2
<1> QED
    BY <1>5, <1>6 DEF IsSequence

LEMMA JoinedSequences ==
    ASSUME NEW s, NEW t, IsSequence(s), IsSequence(t)
    PROVE  /\ IsSequence(s \o t)
           /\ \A i \in DOMAIN s : i \in DOMAIN (s \o t) /\ (s \o t)[i] = s[i]
           /\ \A j \in DOMAIN t : \E i \in DOMAIN (s \o t) : (s \o t)[i] = t[j]
           /\ \A i \in DOMAIN (s \o t) :
                 \/ i \in DOMAIN s /\ (s \o t)[i] = s[i]
                 \/ i - Len(s) \in DOMAIN t /\ (s \o t)[i] = t[i - Len(s)]
           /\ DOMAIN (s \o t) \subseteq Nat /\ Len(s) \in Nat
<1>1. PICK S : s \in Seq(S)
    BY DEF IsSequence
<1>2. PICK T : t \in Seq(T)
    BY DEF IsSequence
<1> DEFINE U == S \cup T
           r == s \o t
<1>3. s \in Seq(U) /\ t \in Seq(U)
    BY <1>1, <1>2
<1>4. /\ r \in Seq(U) /\ Len(s) \in Nat /\ Len(t) \in Nat
      /\ DOMAIN s = 1 .. Len(s) /\ DOMAIN t = 1 .. Len(t)
      /\ DOMAIN r = 1 .. Len(s) + Len(t)
      /\ \A i \in 1 .. Len(s) : r[i] = s[i]
      /\ \A i \in 1 .. Len(s) + Len(t) : i > Len(s) => r[i] = t[i - Len(s)]
    <2> HIDE DEF U
    <2> QED
        BY <1>3, Joined
<1> HIDE DEF r
<1>5. \A j \in DOMAIN t : \E i \in DOMAIN r : r[i] = t[j]
    <2> TAKE j \in DOMAIN t
    <2>1. j + Len(s) \in DOMAIN r /\ j + Len(s) > Len(s) /\ (j + Len(s)) - Len(s) = j
        BY <1>4
    <2>2. r[j + Len(s)] = t[j]
        BY <1>4, <2>1
    <2> QED
        BY <2>1, <2>2
<1>6. ASSUME NEW i \in DOMAIN r
      PROVE  (i \in DOMAIN s /\ r[i] = s[i]) \/ (i - Len(s) \in DOMAIN t /\ r[i] = t[i - Len(s)])
    <2>1. CASE i <= Len(s)
        BY <1>4, <1>6, <2>1
    <2>2. CASE i > Len(s)
        BY <1>4, <1>6, <2>2
    <2> QED
        BY <1>4, <1>6, <2>1, <2>2
<1>7. IsSequence(r)
    BY <1>4 DEF IsSequence
<1> QED
    BY <1>4, <1>5, <1>6, <1>7 DEF r

LEMMA OneSend ==
    ASSUME NEW x
    PROVE  IsSequence(<<x>>) /\ DOMAIN <<x>> = {1} /\ <<x>>[1] = x
<1>1. IsSequence(<<x>>)
    <2>1. <<x>> \in Seq({x})
        OBVIOUS
    <2> QED
        BY <2>1 DEF IsSequence
<1>2. DOMAIN <<x>> = 1 .. 1 /\ <<x>>[1] = x
    OBVIOUS
<1> QED
    BY <1>1, <1>2

LEMMA GreetingsAre ==
    ASSUME NEW p \in PoolSession, NEW d \in Miner
    PROVE  /\ IsSequence(Greets(p, d))
           /\ \A i \in DOMAIN Greets(p, d) : Greets(p, d)[i] = SendEvent(d, EventSendBytes)
<1> DEFINE x == SendEvent(d, EventSendBytes)
           t == [i \in 1 .. Greeting |-> x]
<1>1. t \in Seq({x}) /\ \A i \in DOMAIN t : t[i] = x
    BY CapAssumption
<1>2. CASE p \in Up
    BY <1>1, <1>2 DEF Greets, IsSequence
<1>3. CASE p \notin Up /\ fakeJob
    BY <1>3, OneSend DEF Greets
<1>4. CASE p \notin Up /\ ~fakeJob
    BY <1>4, EmptyIsSequence DEF Greets
<1> QED
    BY <1>2, <1>3, <1>4

LEMMA IntendedIs ==
    ASSUME NEW d, NEW a, NEW s, <<a, s>> \in Plans
    PROVE  <<a, s>> \in Intended(d) <=> <<s.to, s.event>> \in Passing(d)
BY DEF Intended

-----------------------------------------------------------------------------
(* The handlers.                                                           *)

LEMMA HandlerStep ==
    ASSUME BackInv, NEW a, a \in Actor, NEW STATE s, todo[a] = <<>>, chan[a] # <<>>,
           IsSequence(s), \A i \in DOMAIN s : <<a, s[i]>> \in Plans, Then(a, s),
           LoopTypes', \A d \in Miner : OneHand(d)',
           \A p \in PoolSession \ {a}, d \in Miner : HeldBy(p, d) => HeldBy(p, d)', open' \subseteq open,
           a \in PoolSession =>
              \A i \in DOMAIN s, d \in Miner : s[i] = SendEvent(d, EventSendBytes) => Writer(a, d)'
    PROVE  BackInv'
<1>1. Mail(chan, spawned, Letters) /\ WithinCap /\ IsPlan(todo) /\ GreetsOwn
    BY DEF BackInv
<1>2. /\ Mail(chan', spawned', Letters) /\ WithinCap' /\ IsPlan(todo')
      /\ todo'[a] = s /\ \A x \in Actor \ {a} : todo'[x] = todo[x]
    BY <1>1, ThenParts
<1>3. GreetsOwn'
    <2>1. ASSUME NEW p \in PoolSession, NEW d \in Miner, NEW i \in DOMAIN todo'[p],
                 todo'[p][i] = SendEvent(d, EventSendBytes)
          PROVE  Writer(p, d)'
        <3>1. CASE p = a
            <4>1. a \in PoolSession /\ i \in DOMAIN s /\ s[i] = SendEvent(d, EventSendBytes)
                BY <1>2, <2>1, <3>1
            <4>2. Writer(a, d)'
                BY <4>1
            <4> QED
                BY <3>1, <4>2
        <3>2. CASE p # a
            <4>1. todo'[p] = todo[p]
                BY <1>2, <3>2, Parts
            <4>2. Writer(p, d)
                BY <1>1, <2>1, <4>1 DEF GreetsOwn
            <4>3. p \in PoolSession \ {a}
                BY <3>2
            <4> QED
                BY <4>2, <4>3 DEF Writer
        <3> QED
            BY <3>1, <3>2
    <2> QED
        BY <2>1 DEF GreetsOwn
<1> QED
    BY <1>2, <1>3 DEF BackInv

\* A miner that is passed on by the message a loop gets is in no other hand.
LEMMA HeadNotHeld ==
    ASSUME NEW STATE a, a \in Actor, IsChan(chan), chan[a] # <<>>, NEW d, OneHand(d),
           <<a, Head(chan[a])>> \in Passing(d)
    PROVE  ~Waits(todo, Intended(d)) /\ \A p \in PoolSession : ~HeldBy(p, d)
<1>1. 1 \in DOMAIN chan[a] /\ Head(chan[a]) = chan[a][1]
    BY TakenChannel
<1>2. Waits(chan, Passing(d))
    BY <1>1 DEF Waits
<1> QED
    BY <1>2 DEF OneHand, Free

\* What a loop that is free gets is a letter.
LEMMA Received ==
    ASSUME BackInv, NEW STATE a, a \in Actor, NEW t, Gets(a, t)
    PROVE  /\ todo[a] = <<>> /\ chan[a] # <<>> /\ Head(chan[a]).type = t
           /\ <<a, Head(chan[a])>> \in Letters
           /\ LoopTypes /\ IsChan(chan) /\ Mail(chan, spawned, Letters) /\ IsPlan(todo)
           /\ \A d \in Miner : OneHand(d)
<1>1. todo[a] = <<>> /\ chan[a] # <<>> /\ Head(chan[a]).type = t
    BY DEF Gets, Receives
<1>2. IsChan(chan) /\ Mail(chan, spawned, Letters)
    BY DEF BackInv, Mail
<1>3. 1 \in DOMAIN chan[a] /\ Head(chan[a]) = chan[a][1]
    BY <1>1, <1>2, TakenChannel
<1>4. <<a, Head(chan[a])>> \in Letters
    BY <1>2, <1>3 DEF Mail
<1> QED
    BY <1>1, <1>2, <1>4 DEF BackInv

\* The handlers that pass nobody on and keep every miner where it is.
LEMMA QuietHandler ==
    ASSUME BackInv, NEW a, a \in Actor, NEW t, Gets(a, t), t \notin {"AddDownSession", "SetUpSession"},
           NEW STATE s, IsSequence(s), Then(a, s),
           \A i \in DOMAIN s : <<a, s[i]>> \in Plans /\ s[i].event.type \notin {"AddDownSession", "SetUpSession"},
           a \in PoolSession => \A i \in DOMAIN s, d \in Miner : s[i] # SendEvent(d, EventSendBytes),
           LoopTypes', UNCHANGED <<open, downSessions>>
    PROVE  BackInv'
<1>1. /\ todo[a] = <<>> /\ chan[a] # <<>> /\ Head(chan[a]).type = t
      /\ IsChan(chan) /\ Mail(chan, spawned, Letters) /\ IsPlan(todo)
      /\ \A d \in Miner : OneHand(d)
    BY Received
<1>2. \A d : \A p : HeldBy(p, d)' <=> HeldBy(p, d)
    BY DEF HeldBy
<1>3. ASSUME NEW d \in Miner PROVE OneHand(d)'
    <2>1. <<a, Head(chan[a])>> \notin Passing(d)
        BY <1>1, PassingIs DEF EventAddDownSession, EventSetUpSession
    <2>2. ASSUME NEW i \in DOMAIN s PROVE <<a, s[i]>> \notin Intended(d)
        <3> DEFINE x == s[i]
        <3>1. <<a, x>> \in Plans /\ x.event.type \notin {"AddDownSession", "SetUpSession"}
            OBVIOUS
        <3> HIDE DEF x
        <3>2. <<x.to, x.event>> \notin Passing(d)
            BY <3>1, PassingIs DEF EventAddDownSession, EventSetUpSession
        <3>3. <<a, x>> \notin Intended(d)
            BY <3>1, <3>2, IntendedIs
        <3> QED
            BY <3>3 DEF x
    <2> QED
        BY <1>1, <1>2, <2>1, <2>2, ThenOther
<1> QED
    BY <1>1, <1>2, <1>3, HandlerStep

-----------------------------------------------------------------------------
(* The manager.                                                            *)

LEMMA MgrRunsStep ==
    ASSUME BackInv, MgrRuns(TheMgr)
    PROVE  BackInv'
<1> DEFINE m == TheMgr
           h == Head(chan[m])
<1>0. m \in Actor /\ m \notin PoolSession /\ TheFake = Fake(m) /\ TheFake \in PoolSession
    BY Parts DEF TheFake
<1>1. UNCHANGED <<running, upSession, open, downSessions, reading, fakeJob>>
    BY DEF MgrRuns, custodyVars
<1>2. \A d : \A p : HeldBy(p, d)' <=> HeldBy(p, d)
    BY <1>1 DEF HeldBy
<1>3. LoopTypes
    BY DEF BackInv
<1>4. ready' \subseteq Up => LoopTypes'
    BY <1>1, <1>3 DEF LoopTypes, CustodyTypeOK
<1> HIDE DEF m
<1>5. ASSUME MgrAddDownSession(m) PROVE BackInv'
    <2>1. PICK p \in IF ready = {} THEN {Fake(m)} ELSE ready :
             Then(m, <<SendEvent(h.session, EventSetUpSession(p))>>)
        BY <1>5 DEF MgrAddDownSession
    <2>2. p \in PoolSession
        BY <1>0, <1>3, Parts DEF LoopTypes
    <2>3. /\ todo[m] = <<>> /\ chan[m] # <<>> /\ h.type = "AddDownSession" /\ <<m, h>> \in Letters
          /\ IsChan(chan) /\ Mail(chan, spawned, Letters) /\ IsPlan(todo) /\ \A d \in Miner : OneHand(d)
        BY <1>0, <1>5, Received DEF MgrAddDownSession
    <2> HIDE DEF h
    <2>4. PICK d \in Miner : h = EventAddDownSession(d)
        BY <2>3, LetterIs
    <2> DEFINE x == SendEvent(d, EventSetUpSession(p))
               s == <<x>>
    <2>5. Then(m, s)
        BY <2>1, <2>4 DEF EventAddDownSession
    <2>6. <<m, x>> \in Plans /\ x.to = d /\ x.event = EventSetUpSession(p)
        <3>1. x.to = d /\ x.event = EventSetUpSession(p)
            BY DEF SendEvent
        <3>2. <<m, x>> \in Plans
            BY <2>2 DEF m, Plans
        <3> QED
            BY <3>1, <3>2
    <2> HIDE DEF x
    <2>7. IsSequence(s) /\ DOMAIN s = {1} /\ s[1] = x
        BY OneSend
    <2> HIDE DEF s
    <2>8. OneHand(d)'
        <3>1. <<m, h>> \in Passing(d)
            BY <2>4, PassingIs DEF m
        <3>2. \A q \in PoolSession : ~HeldBy(q, d)
            BY <1>0, <2>3, <3>1, HeadNotHeld DEF h
        <3> QED
            BY <1>0, <1>2, <2>3, <2>5, <2>7, <3>1, <3>2, ThenPasses DEF h
    <2>9. ASSUME NEW c \in Miner, c # d PROVE OneHand(c)'
        <3>1. <<m, h>> \notin Passing(c)
            BY <2>4, <2>9, PassingIs DEF EventAddDownSession, EventSetUpSession
        <3>2. <<x.to, x.event>> \notin Passing(c)
            BY <2>6, <2>9, PassingIs DEF EventAddDownSession, EventSetUpSession
        <3>3. \A i \in DOMAIN s : <<m, s[i]>> \notin Intended(c)
            BY <2>6, <2>7, <3>2, IntendedIs
        <3> QED
            BY <1>0, <1>2, <2>3, <2>5, <2>7, <3>1, <3>3, ThenOther DEF h
    <2>10. LoopTypes'
        BY <1>3, <1>4, <1>5 DEF MgrAddDownSession, LoopTypes
    <2> QED
        BY <1>0, <1>1, <1>2, <2>3, <2>5, <2>6, <2>7, <2>8, <2>9, <2>10, HandlerStep
<1>6. ASSUME MgrUpSessionReady(m) PROVE BackInv'
    <2> DEFINE x == SendEvent(TheFake, EventTransferDownSessions)
               s == <<x>>
    <2>1. Gets(m, "UpSessionReady") /\ ready' = ready \cup {h.session} /\ Then(m, s)
        BY <1>0, <1>6 DEF MgrUpSessionReady
    <2>2. h.type = "UpSessionReady" /\ <<m, h>> \in Letters
        BY <1>0, <2>1, Received
    <2> HIDE DEF h
    <2>3. \E u \in Up : h = EventReady(u)
        BY <2>2, LetterIs
    <2>4. LoopTypes'
        BY <1>3, <1>4, <2>1, <2>3 DEF EventReady, LoopTypes
    <2>5. <<m, x>> \in Plans /\ x.event.type \notin {"AddDownSession", "SetUpSession"}
        BY DEF m, Plans, SendEvent, EventTransferDownSessions
    <2> HIDE DEF x
    <2>6. IsSequence(s) /\ \A i \in DOMAIN s : s[i] = x
        BY OneSend
    <2> HIDE DEF s
    <2> DEFINE t == "UpSessionReady"
    <2>7. Gets(m, t) /\ t \notin {"AddDownSession", "SetUpSession"}
        BY <2>1
    <2> HIDE DEF t
    <2> QED
        BY <1>0, <1>1, <2>1, <2>4, <2>5, <2>6, <2>7, QuietHandler
<1>7. ASSUME MgrUpSessionBroken(m) PROVE BackInv'
    <2> DEFINE s == <<>>
               t == "UpSessionBroken"
    <2>1. Gets(m, t) /\ t \notin {"AddDownSession", "SetUpSession"} /\ ready' \subseteq ready /\ Then(m, s)
        BY <1>7 DEF MgrUpSessionBroken
    <2>2. IsSequence(s) /\ DOMAIN s = {}
        BY EmptyIsSequence
    <2>3. LoopTypes'
        BY <1>3, <1>4, <2>1 DEF LoopTypes
    <2> HIDE DEF s, t
    <2> QED
        BY <1>0, <1>1, <2>1, <2>2, <2>3, QuietHandler
<1>8. ASSUME MgrUpdateFakeJob(m) PROVE BackInv'
    <2> DEFINE x == SendEvent(TheFake, EventUpdateFakeJob)
               s == <<x>>
               t == "UpdateFakeJob"
    <2>1. Gets(m, t) /\ t \notin {"AddDownSession", "SetUpSession"} /\ ready' = ready /\ Then(m, s)
        BY <1>0, <1>8 DEF MgrUpdateFakeJob
    <2>2. <<m, x>> \in Plans /\ x.event.type \notin {"AddDownSession", "SetUpSession"}
        BY DEF m, Plans, SendEvent, EventUpdateFakeJob
    <2> HIDE DEF x
    <2>3. IsSequence(s) /\ \A i \in DOMAIN s : s[i] = x
        BY OneSend
    <2>4. LoopTypes'
        BY <1>3, <1>4, <2>1 DEF LoopTypes
    <2> HIDE DEF s, t
    <2> QED
        BY <1>0, <1>1, <2>1, <2>2, <2>3, <2>4, QuietHandler
<1> QED
    BY <1>5, <1>6, <1>7, <1>8 DEF MgrRuns, m

-----------------------------------------------------------------------------
(* The pool sessions.                                                      *)

LEMMA TypesKept ==
    ASSUME LoopTypes, UNCHANGED <<running, upSession, reading, ready>>, open' \subseteq open,
           NEW p \in PoolSession, NEW STATE S, S \subseteq Miner, IsFiniteSet(S),
           downSessions' = [downSessions EXCEPT ![p] = S], fakeJob' \in BOOLEAN
    PROVE  LoopTypes'
<1>1. downSessions \in [PoolSession -> SUBSET Miner] /\ \A q \in PoolSession : IsFiniteSet(downSessions[q])
    BY DEF LoopTypes, CustodyTypeOK
<1>2. downSessions' \in [PoolSession -> SUBSET Miner] /\ \A q \in PoolSession : IsFiniteSet(downSessions'[q])
    BY <1>1
<1>3. open' \subseteq PoolSession /\ running' \subseteq Miner /\ upSession' \in [Miner -> PoolSession \cup {None}]
    BY DEF LoopTypes, CustodyTypeOK
<1>4. CustodyTypeOK'
    BY <1>2, <1>3 DEF CustodyTypeOK
<1>5. reading' \subseteq Miner \cup Up /\ ready' \subseteq Up
    BY DEF LoopTypes
<1> QED
    BY <1>2, <1>4, <1>5 DEF LoopTypes

\* A session takes a miner on.
LEMMA ThenHolds ==
    ASSUME NEW p \in PoolSession, p \in open, open' = open, NEW STATE s, Mail(chan, spawned, Letters),
           IsPlan(todo), todo[p] = <<>>, chan[p] # <<>>, IsSequence(s), Then(p, s),
           NEW d \in Miner, OneHand(d), <<p, Head(chan[p])>> \in Passing(d),
           \A i \in DOMAIN s : <<p, s[i]>> \notin Intended(d),
           \A q \in PoolSession : HeldBy(q, d)' => q = p \/ HeldBy(q, d)
    PROVE  OneHand(d)'
<1>1. p \in Actor /\ IsChan(chan)
    BY Parts DEF Mail
<1>2. ~Waits(todo, Intended(d)) /\ \A q \in PoolSession : ~HeldBy(q, d)
    BY <1>1, HeadNotHeld
<1>3. Free(chan', spawned', Passing(d))
    <2>1. AtMostOne(chan, spawned, Passing(d))
        BY DEF OneHand
    <2> QED
        BY <1>1, <2>1, ThenMessages
<1>4. AtMostOne(chan', spawned', Passing(d))
    BY <1>3, FreeIsAtMostOne
<1>5. ~Waits(todo', Intended(d))
    <2> DEFINE L == Intended(d)
    <2>1. IsChan(todo) /\ todo' = [todo EXCEPT ![p] = s] /\ \A i \in DOMAIN s : <<p, s[i]>> \notin L
        BY DEF IsPlan, Then
    <2> HIDE DEF L
    <2>2. Waits([todo EXCEPT ![p] = s], L) <=> Waits(todo, L)
        BY <1>1, <2>1, BeginOther
    <2> QED
        BY <1>2, <2>1, <2>2 DEF L
<1>6. WaitsOnce(todo', Intended(d))
    BY <1>5 DEF WaitsOnce, Waits
<1>7. \A q, r \in PoolSession : HeldBy(q, d)' /\ HeldBy(r, d)' => q = r
    BY <1>2
<1> QED
    BY <1>3, <1>4, <1>5, <1>6, <1>7 DEF OneHand

\* A session gives its miners back and has none any more.
LEMMA ThenGivesBack ==
    ASSUME NEW p \in PoolSession, p \in open, NEW STATE s, Mail(chan, spawned, Letters), IsPlan(todo),
           todo[p] = <<>>, chan[p] # <<>>, IsSequence(s), Then(p, s),
           \A i \in DOMAIN s : <<p, s[i]>> \in Plans,
           \A i \in DOMAIN s :
              \/ \E c \in downSessions[p] : s[i] = GivesBack(c)
              \/ s[i].event.type \notin {"AddDownSession", "SetUpSession"},
           \A i, j \in DOMAIN s : \A c : s[i] = GivesBack(c) /\ s[j] = GivesBack(c) => i = j,
           NEW d \in Miner, OneHand(d), <<p, Head(chan[p])>> \notin Passing(d),
           \A q \in PoolSession : HeldBy(q, d)' <=> HeldBy(q, d) /\ q # p
    PROVE  OneHand(d)'
<1>1. p \in Actor
    BY Parts
<1>2. ASSUME NEW i \in DOMAIN s, <<p, s[i]>> \in Intended(d)
      PROVE  d \in downSessions[p] /\ s[i] = GivesBack(d)
    <2> DEFINE x == s[i]
    <2>1. <<p, x>> \in Plans /\ <<p, x>> \in Intended(d)
        BY <1>2
    <2>2. (\E c \in downSessions[p] : x = GivesBack(c)) \/ x.event.type \notin {"AddDownSession", "SetUpSession"}
        OBVIOUS
    <2> HIDE DEF x
    <2>3. <<x.to, x.event>> \in Passing(d)
        BY <2>1, IntendedIs
    <2>4. x.event.type \in {"AddDownSession", "SetUpSession"}
        BY <2>3, PassingIs DEF EventAddDownSession, EventSetUpSession
    <2>5. PICK c \in downSessions[p] : x = GivesBack(c)
        BY <2>2, <2>4
    <2>6. x.event = EventAddDownSession(c)
        BY <2>5 DEF GivesBack, GoSendEvent
    <2>7. c = d
        BY <2>3, <2>6, PassingIs DEF EventAddDownSession, EventSetUpSession
    <2> QED
        BY <2>5, <2>7 DEF x
<1>3. CASE d \in downSessions[p]
    <2>1. HeldBy(p, d)
        BY <1>3 DEF HeldBy
    <2>2. \A q \in PoolSession : HeldBy(q, d) => q = p
        BY <2>1 DEF OneHand
    <2>3. \A q \in PoolSession : ~HeldBy(q, d)'
        BY <2>2
    <2>4. ASSUME NEW i \in DOMAIN s, NEW j \in DOMAIN s, <<p, s[i]>> \in Intended(d), <<p, s[j]>> \in Intended(d)
          PROVE  i = j
        <3>1. s[i] = GivesBack(d) /\ s[j] = GivesBack(d)
            BY <1>2, <2>4
        <3> QED
            BY <3>1
    <2>5. \E q \in PoolSession : HeldBy(q, d)
        BY <2>1
    <2> QED
        BY <1>1, <2>3, <2>4, <2>5, ThenPasses
<1>4. CASE d \notin downSessions[p]
    <2>1. \A i \in DOMAIN s : <<p, s[i]>> \notin Intended(d)
        BY <1>2, <1>4
    <2>2. \A q \in PoolSession : HeldBy(q, d)' => HeldBy(q, d)
        OBVIOUS
    <2> QED
        BY <1>1, <2>1, <2>2, ThenOther
<1> QED
    BY <1>3, <1>4

LEMMA BrokenIs ==
    ASSUME NEW a, NEW e, <<a, e>> \in Letters, e.type = "ConnBroken"
    PROVE  a \in Miner \cup Up
BY DEF Letters, EventAddDownSession, EventSetUpSession, EventReady, EventBroken, EventUpdateFakeJob,
       EventTransferDownSessions, EventSendFakeNotify, EventSendBytes, EventConnBroken,
       EventRecvJSONRPC, EventRecvExMessage, EventDownSessionBroken

LEMMA UpAddDownSessionStep ==
    ASSUME BackInv, NEW p \in PoolSession, p \in open, UpAddDownSession(p),
           UNCHANGED <<running, upSession, reading, ready>>
    PROVE  BackInv'
<1> DEFINE h == Head(chan[p])
<1>1. Gets(p, "AddDownSession") /\ UNCHANGED <<open, fakeJob>>
    BY DEF UpAddDownSession
<1>2. /\ todo[p] = <<>> /\ chan[p] # <<>> /\ h.type = "AddDownSession" /\ <<p, h>> \in Letters
      /\ IsChan(chan) /\ Mail(chan, spawned, Letters) /\ IsPlan(todo) /\ \A d \in Miner : OneHand(d)
      /\ LoopTypes /\ p \in Actor /\ p # TheMgr /\ p \notin Miner
    BY <1>1, Received, Parts
<1> HIDE DEF h
<1>3. PICK d \in Miner : h = EventAddDownSession(d)
    BY <1>2, LetterIs
<1> DEFINE s == Greets(p, d)
<1>4. Joins(p, d) /\ Then(p, s)
    BY <1>3 DEF UpAddDownSession, h, EventAddDownSession
<1>5. IsSequence(s) /\ \A i \in DOMAIN s : s[i] = SendEvent(d, EventSendBytes)
    BY GreetingsAre
<1> HIDE DEF s
<1> DEFINE x == SendEvent(d, EventSendBytes)
<1>6. <<p, x>> \in Plans
    BY DEF Plans
<1>7. \A c : <<p, x>> \notin Intended(c)
    <2>1. <<x.to, x.event>> = <<d, EventSendBytes>>
        BY DEF SendEvent
    <2>2. \A c : <<d, EventSendBytes>> \notin Passing(c)
        BY PassingIs DEF EventSendBytes, EventAddDownSession, EventSetUpSession
    <2> HIDE DEF x
    <2> QED
        BY <1>6, <2>1, <2>2, IntendedIs
<1>8. /\ \A i \in DOMAIN s : <<p, s[i]>> \in Plans
      /\ \A c : \A i \in DOMAIN s : <<p, s[i]>> \notin Intended(c)
    BY <1>5, <1>6, <1>7
<1>9. downSessions \in [PoolSession -> SUBSET Miner] /\ \A q \in PoolSession : IsFiniteSet(downSessions[q])
    BY <1>2 DEF LoopTypes, CustodyTypeOK
<1>10. /\ downSessions'[p] = downSessions[p] \cup {d}
       /\ \A q \in PoolSession \ {p} : downSessions'[q] = downSessions[q]
       /\ open' = open
    BY <1>1, <1>4, <1>9 DEF Joins
<1>11. HeldBy(p, d)'
    BY <1>10 DEF HeldBy
<1>12. \A c : \A q \in PoolSession : HeldBy(q, c) => HeldBy(q, c)'
    BY <1>10 DEF HeldBy
<1>13. \A c : \A q \in PoolSession : HeldBy(q, c)' => HeldBy(q, c) \/ (q = p /\ c = d)
    BY <1>10 DEF HeldBy
<1>14. OneHand(d)'
    <2>1. <<p, Head(chan[p])>> \in Passing(d)
        BY <1>3, PassingIs DEF h
    <2> QED
        BY <1>2, <1>4, <1>5, <1>8, <1>10, <1>13, <2>1, ThenHolds
<1>15. ASSUME NEW c \in Miner, c # d PROVE OneHand(c)'
    <2>1. <<p, Head(chan[p])>> \notin Passing(c)
        BY <1>2, <1>3, <1>15, PassingIs DEF h, EventAddDownSession, EventSetUpSession
    <2>2. \A q \in PoolSession : HeldBy(q, c)' => HeldBy(q, c)
        BY <1>13, <1>15
    <2> QED
        BY <1>2, <1>4, <1>5, <1>8, <2>1, <2>2, ThenOther
<1>16. LoopTypes'
    <2> DEFINE S == downSessions[p] \cup {d}
    <2>1. S \subseteq Miner /\ IsFiniteSet(S)
        BY <1>9, FS_AddElement
    <2>2. downSessions' = [downSessions EXCEPT ![p] = S] /\ fakeJob' \in BOOLEAN /\ open' \subseteq open
        BY <1>1, <1>2, <1>4 DEF Joins, LoopTypes
    <2> HIDE DEF S
    <2> QED
        BY <1>2, <2>1, <2>2, TypesKept
<1>17. ASSUME NEW i \in DOMAIN s, NEW c \in Miner, s[i] = SendEvent(c, EventSendBytes)
       PROVE  Writer(p, c)'
    <2>1. c = d
        BY <1>5, <1>17 DEF SendEvent
    <2> QED
        BY <1>11, <2>1 DEF Writer
<1>18. \A q \in PoolSession \ {p}, c \in Miner : HeldBy(q, c) => HeldBy(q, c)'
    BY <1>12
<1>19. open' \subseteq open /\ \A c \in Miner : OneHand(c)'
    BY <1>10, <1>14, <1>15
<1> QED
    BY <1>2, <1>4, <1>5, <1>8, <1>16, <1>17, <1>18, <1>19, HandlerStep

LEMMA UpDownSessionBrokenStep ==
    ASSUME BackInv, NEW p \in PoolSession, p \in open, UpDownSessionBroken(p),
           UNCHANGED <<running, upSession, reading, ready>>
    PROVE  BackInv'
<1> DEFINE h == Head(chan[p])
           s == <<>>
           id == h.sessionID
<1>1. Gets(p, "DownSessionBroken") /\ Leaves(p, id) /\ Then(p, s) /\ UNCHANGED <<open, fakeJob>>
    BY DEF UpDownSessionBroken
<1>2. /\ todo[p] = <<>> /\ chan[p] # <<>> /\ h.type = "DownSessionBroken"
      /\ IsChan(chan) /\ Mail(chan, spawned, Letters) /\ IsPlan(todo) /\ \A d \in Miner : OneHand(d)
      /\ LoopTypes /\ p \in Actor
    BY <1>1, Received, Parts
<1>3. IsSequence(s) /\ DOMAIN s = {}
    BY EmptyIsSequence
<1> HIDE DEF s, id
<1>4. downSessions \in [PoolSession -> SUBSET Miner] /\ \A q \in PoolSession : IsFiniteSet(downSessions[q])
    BY <1>2 DEF LoopTypes, CustodyTypeOK
<1>5. /\ downSessions'[p] = downSessions[p] \ {id}
      /\ \A q \in PoolSession \ {p} : downSessions'[q] = downSessions[q]
      /\ open' = open
    BY <1>1, <1>4 DEF Leaves
<1>6. \A c : \A q \in PoolSession : HeldBy(q, c)' => HeldBy(q, c)
    BY <1>5 DEF HeldBy
<1>7. \A q \in PoolSession \ {p}, c \in Miner : HeldBy(q, c) => HeldBy(q, c)'
    BY <1>5 DEF HeldBy
<1>8. ASSUME NEW d \in Miner PROVE OneHand(d)'
    <2>1. <<p, h>> \notin Passing(d)
        BY <1>2, PassingIs DEF EventAddDownSession, EventSetUpSession
    <2> QED
        BY <1>1, <1>2, <1>3, <1>6, <2>1, ThenOther
<1>9. LoopTypes'
    <2> DEFINE S == downSessions[p] \ {id}
    <2>1. S \subseteq Miner /\ IsFiniteSet(S)
        BY <1>4, FS_RemoveElement
    <2>2. downSessions' = [downSessions EXCEPT ![p] = S] /\ fakeJob' \in BOOLEAN /\ open' \subseteq open
        BY <1>1, <1>2 DEF Leaves, LoopTypes
    <2> HIDE DEF S
    <2> QED
        BY <1>2, <2>1, <2>2, TypesKept
<1> QED
    BY <1>1, <1>2, <1>3, <1>7, <1>8, <1>9, HandlerStep

LEMMA SendsJobStep ==
    ASSUME BackInv, NEW p \in PoolSession, p \in open, SendsJob(p),
           UNCHANGED <<running, upSession, reading, ready>>
    PROVE  BackInv'
<1> DEFINE t == ToEach(downSessions[p], LAMBDA d : GoSendEvent(d, EventSendBytes))
           s == IF p \in Up \/ fakeJob THEN t ELSE <<>>
           e == IF p \in Up THEN "RecvJSONRPC" ELSE "SendFakeNotify"
<1>1. Gets(p, e) /\ Then(p, s) /\ UNCHANGED <<open, downSessions, fakeJob>>
    BY DEF SendsJob
<1>2. e \notin {"AddDownSession", "SetUpSession"}
    OBVIOUS
<1>3. LoopTypes /\ p \in Actor
    BY Parts DEF BackInv
<1>4. downSessions[p] \subseteq Miner /\ IsFiniteSet(downSessions[p])
    BY <1>3 DEF LoopTypes, CustodyTypeOK
<1>5. IsSequence(t) /\ \A i \in DOMAIN t : \E d \in downSessions[p] : t[i] = GoSendEvent(d, EventSendBytes)
    BY <1>4, JobForAll
<1> HIDE DEF t
<1>6. IsSequence(s) /\ \A i \in DOMAIN s : \E d \in Miner : s[i] = GoSendEvent(d, EventSendBytes)
    BY <1>4, <1>5, EmptyIsSequence
<1> HIDE DEF s, e
<1>7. ASSUME NEW d \in Miner, NEW x, x = GoSendEvent(d, EventSendBytes)
      PROVE  /\ <<p, x>> \in Plans /\ x.event.type \notin {"AddDownSession", "SetUpSession"}
             /\ \A c : x # SendEvent(c, EventSendBytes)
    <2>1. <<p, x>> \in Plans
        BY <1>7 DEF Plans
    <2>2. x.event.type \notin {"AddDownSession", "SetUpSession"}
        BY <1>7 DEF GoSendEvent, EventSendBytes
    <2>3. x.async = TRUE
        BY <1>7 DEF GoSendEvent
    <2>4. \A c : SendEvent(c, EventSendBytes).async = FALSE
        BY DEF SendEvent
    <2>5. \A c : x # SendEvent(c, EventSendBytes)
        BY <2>3, <2>4
    <2> QED
        BY <2>1, <2>2, <2>5
<1>8. /\ \A i \in DOMAIN s : <<p, s[i]>> \in Plans /\ s[i].event.type \notin {"AddDownSession", "SetUpSession"}
      /\ p \in PoolSession => \A i \in DOMAIN s, d \in Miner : s[i] # SendEvent(d, EventSendBytes)
    BY <1>6, <1>7
<1>9. LoopTypes'
    BY <1>1, <1>3 DEF LoopTypes, CustodyTypeOK
<1> QED
    BY <1>1, <1>2, <1>3, <1>6, <1>8, <1>9, QuietHandler

LEMMA GivesBackIs ==
    ASSUME NEW p \in PoolSession, NEW d
    PROVE  /\ GivesBack(d).event = EventAddDownSession(d)
           /\ GivesBack(d).event.type = "AddDownSession"
           /\ d \in Miner => <<p, GivesBack(d)>> \in Plans
           /\ \A c, e : GivesBack(d) # SendEvent(c, e)
<1>1. GivesBack(d).event = EventAddDownSession(d) /\ GivesBack(d).async = TRUE
    BY DEF GivesBack, GoSendEvent
<1>2. EventAddDownSession(d).type = "AddDownSession"
    BY DEF EventAddDownSession
<1>3. \A c, e : SendEvent(c, e).async = FALSE
    BY DEF SendEvent
<1>4. d \in Miner => <<p, GivesBack(d)>> \in Plans
    BY DEF Plans
<1>5. \A c, e : GivesBack(d) # SendEvent(c, e)
    BY <1>1, <1>3
<1> QED
    BY <1>1, <1>2, <1>4, <1>5

\* The sends of a handler that closes: the manager is told, each of S is given
\* back once, and then some of G may still be greeted.
Closing(u, S, G, s) ==
    /\ IsSequence(s)
    /\ 1 \in DOMAIN s /\ s[1] = SendEvent(TheMgr, EventBroken(u))
    /\ \A i \in DOMAIN s :
          \/ s[i] \in {SendEvent(TheMgr, EventBroken(u)), SendEvent(TheMgr, EventUpdateFakeJob)}
          \/ \E d \in S : s[i] = GivesBack(d)
          \/ \E d \in G : s[i] = SendEvent(d, EventSendBytes)
    /\ \A i, j \in DOMAIN s : \A d : s[i] = GivesBack(d) /\ s[j] = GivesBack(d) => i = j
    /\ \A d \in S : \E i \in DOMAIN s : s[i] = GivesBack(d)

LEMMA ToManager ==
    ASSUME NEW u \in Up
    PROVE  LET x == SendEvent(TheMgr, EventBroken(u))
               y == SendEvent(TheMgr, EventUpdateFakeJob)
           IN  /\ <<u, x>> \in Plans /\ <<u, y>> \in Plans
               /\ x.event.type \notin {"AddDownSession", "SetUpSession"}
               /\ y.event.type \notin {"AddDownSession", "SetUpSession"}
               /\ x # y /\ \A d : GivesBack(d) \notin {x, y}
               /\ \A d \in Miner : SendEvent(d, EventSendBytes) \notin {x, y}
<1> DEFINE x == SendEvent(TheMgr, EventBroken(u))
           y == SendEvent(TheMgr, EventUpdateFakeJob)
<1>1. <<u, x>> \in Plans /\ <<u, y>> \in Plans
    BY DEF Plans
<1>2. x.event = EventBroken(u) /\ y.event = EventUpdateFakeJob
    BY DEF SendEvent
<1>3. \A d : GivesBack(d) \notin {x, y}
    BY Parts, GivesBackIs
<1>4. \A d \in Miner : SendEvent(d, EventSendBytes) \notin {x, y}
    BY Parts DEF SendEvent
<1> HIDE DEF x, y
<1> QED
    BY <1>1, <1>2, <1>3, <1>4 DEF EventBroken, EventUpdateFakeJob, x, y

LEMMA ClosesIs ==
    ASSUME NEW u \in Up, NEW S, IsFiniteSet(S)
    PROVE  Closing(u, S, {}, Closes(u, S))
<1> DEFINE x == SendEvent(TheMgr, EventBroken(u))
           y == SendEvent(TheMgr, EventUpdateFakeJob)
           p == <<x, y>>
           t == ToEach(S, GivesBack)
           s == p \o t
<1>1. /\ IsSequence(t) /\ \A i \in DOMAIN t : \E d \in S : t[i] = GivesBack(d)
      /\ \A i, j \in DOMAIN t : \A d : t[i] = GivesBack(d) /\ t[j] = GivesBack(d) => i = j
      /\ \A d \in S : \E i \in DOMAIN t : t[i] = GivesBack(d)
    BY GivesBackAll
<1>2. \A d : GivesBack(d) \notin {x, y}
    BY ToManager
<1> HIDE DEF x, y, t
<1>3. IsSequence(p) /\ DOMAIN p = {1, 2} /\ p[1] = x /\ p[2] = y
    <2>1. p \in Seq({x, y}) /\ DOMAIN p = 1 .. 2 /\ p[1] = x /\ p[2] = y
        OBVIOUS
    <2>2. IsSequence(p)
        BY <2>1 DEF IsSequence
    <2> QED
        BY <2>1, <2>2
<1> HIDE DEF p
<1>4. /\ IsSequence(s)
      /\ \A i \in DOMAIN p : i \in DOMAIN s /\ s[i] = p[i]
      /\ \A j \in DOMAIN t : \E i \in DOMAIN s : s[i] = t[j]
      /\ \A i \in DOMAIN s : \/ i \in DOMAIN p /\ s[i] = p[i]
                             \/ i - Len(p) \in DOMAIN t /\ s[i] = t[i - Len(p)]
      /\ DOMAIN s \subseteq Nat /\ Len(p) \in Nat
    <2>1. IsSequence(p) /\ IsSequence(t)
        BY <1>1, <1>3
    <2> QED
        BY ONLY <2>1, JoinedSequences
<1> HIDE DEF s
<1>5. 1 \in DOMAIN s /\ s[1] = x
    BY <1>3, <1>4
<1>6. ASSUME NEW i \in DOMAIN s PROVE s[i] \in {x, y} \/ \E d \in S : s[i] = GivesBack(d)
    BY <1>1, <1>3, <1>4
<1>7. ASSUME NEW i \in DOMAIN s, NEW j \in DOMAIN s, NEW d, s[i] = GivesBack(d), s[j] = GivesBack(d)
      PROVE  i = j
    <2>1. s[i] \notin {x, y} /\ s[j] \notin {x, y}
        BY <1>2, <1>7
    <2>2. /\ i - Len(p) \in DOMAIN t /\ t[i - Len(p)] = GivesBack(d)
          /\ j - Len(p) \in DOMAIN t /\ t[j - Len(p)] = GivesBack(d)
        BY <1>3, <1>4, <1>7, <2>1
    <2>3. i - Len(p) = j - Len(p)
        BY <1>1, <2>2
    <2>4. i \in Nat /\ j \in Nat /\ Len(p) \in Nat
        BY <1>4
    <2> QED
        BY <2>3, <2>4
<1>8. ASSUME NEW d \in S PROVE \E i \in DOMAIN s : s[i] = GivesBack(d)
    BY <1>1, <1>4
<1>9. s = Closes(u, S)
    BY DEF Closes, s, p, t, x, y
<1> QED
    BY <1>4, <1>5, <1>6, <1>7, <1>8, <1>9 DEF Closing, x, y

LEMMA ClosesAndGreets ==
    ASSUME NEW u \in Up, NEW S, NEW s, Closing(u, S, {}, s), NEW d \in Miner
    PROVE  Closing(u, S, {d}, s \o Greets(u, d))
<1> DEFINE t == Greets(u, d)
           r == s \o t
           x == SendEvent(TheMgr, EventBroken(u))
           y == SendEvent(TheMgr, EventUpdateFakeJob)
<1>1. IsSequence(t) /\ \A i \in DOMAIN t : t[i] = SendEvent(d, EventSendBytes)
    BY GreetingsAre, Parts
<1> HIDE DEF t
<1>2. /\ IsSequence(s) /\ 1 \in DOMAIN s /\ s[1] = x
      /\ \A i \in DOMAIN s : s[i] \in {x, y} \/ \E c \in S : s[i] = GivesBack(c)
      /\ \A i, j \in DOMAIN s : \A c : s[i] = GivesBack(c) /\ s[j] = GivesBack(c) => i = j
      /\ \A c \in S : \E i \in DOMAIN s : s[i] = GivesBack(c)
    BY DEF Closing
<1>3. /\ IsSequence(r)
      /\ \A i \in DOMAIN s : i \in DOMAIN r /\ r[i] = s[i]
      /\ \A i \in DOMAIN r : \/ i \in DOMAIN s /\ r[i] = s[i]
                             \/ i - Len(s) \in DOMAIN t /\ r[i] = t[i - Len(s)]
    BY <1>1, <1>2, JoinedSequences
<1> HIDE DEF r, x, y
<1>4. \A c : GivesBack(c) # SendEvent(d, EventSendBytes)
    BY GivesBackIs, Parts
<1>5. ASSUME NEW i \in DOMAIN r
      PROVE  (i \in DOMAIN s /\ r[i] = s[i]) \/ r[i] = SendEvent(d, EventSendBytes)
    BY <1>1, <1>3
<1>6. ASSUME NEW i \in DOMAIN r
      PROVE  \/ r[i] \in {x, y}
             \/ \E c \in S : r[i] = GivesBack(c)
             \/ \E c \in {d} : r[i] = SendEvent(c, EventSendBytes)
    BY <1>2, <1>5
<1>7. ASSUME NEW i \in DOMAIN r, NEW j \in DOMAIN r, NEW c, r[i] = GivesBack(c), r[j] = GivesBack(c)
      PROVE  i = j
    <2>1. i \in DOMAIN s /\ s[i] = GivesBack(c) /\ j \in DOMAIN s /\ s[j] = GivesBack(c)
        BY <1>4, <1>5, <1>7
    <2> QED
        BY <1>2, <2>1
<1>8. ASSUME NEW c \in S PROVE \E i \in DOMAIN r : r[i] = GivesBack(c)
    BY <1>2, <1>3
<1>9. 1 \in DOMAIN r /\ r[1] = x
    BY <1>2, <1>3
<1> QED
    BY <1>3, <1>6, <1>7, <1>8, <1>9 DEF Closing, r, t, x, y

LEMMA ClosingPlans ==
    ASSUME NEW u \in Up, NEW S, S \subseteq Miner, NEW G, G \subseteq Miner, NEW s, Closing(u, S, G, s)
    PROVE  /\ IsSequence(s) /\ \A i \in DOMAIN s : <<u, s[i]>> \in Plans
           /\ \A d : \A i \in DOMAIN s : <<u, s[i]>> \in Intended(d) => d \in S /\ s[i] = GivesBack(d)
           /\ \A d : \A i, j \in DOMAIN s : s[i] = GivesBack(d) /\ s[j] = GivesBack(d) => i = j
<1> DEFINE x == SendEvent(TheMgr, EventBroken(u))
           y == SendEvent(TheMgr, EventUpdateFakeJob)
<1>0. u \in PoolSession
    BY Parts
<1>1. /\ <<u, x>> \in Plans /\ <<u, y>> \in Plans
      /\ x.event.type \notin {"AddDownSession", "SetUpSession"}
      /\ y.event.type \notin {"AddDownSession", "SetUpSession"}
    BY ToManager
<1>2. \A i \in DOMAIN s : \/ s[i] \in {x, y}
                          \/ \E d \in S : s[i] = GivesBack(d)
                          \/ \E d \in G : s[i] = SendEvent(d, EventSendBytes)
    BY DEF Closing
<1> HIDE DEF x, y
<1>3. ASSUME NEW c \in Miner
      PROVE  <<u, SendEvent(c, EventSendBytes)>> \in Plans
    BY <1>0 DEF Plans
<1>4. ASSUME NEW c \in Miner
      PROVE  <<u, GivesBack(c)>> \in Plans /\ GivesBack(c).event = EventAddDownSession(c)
    BY <1>0, GivesBackIs
<1>5. \A i \in DOMAIN s : <<u, s[i]>> \in Plans
    BY <1>1, <1>2, <1>3, <1>4
<1>6. ASSUME NEW d, NEW i \in DOMAIN s, <<u, s[i]>> \in Intended(d)
      PROVE  d \in S /\ s[i] = GivesBack(d)
    <2> DEFINE z == s[i]
    <2>1. <<u, z>> \in Plans /\ <<u, z>> \in Intended(d)
        BY <1>5, <1>6
    <2>2. \/ z \in {x, y}
          \/ \E c \in S : z = GivesBack(c)
          \/ \E c \in G : z = SendEvent(c, EventSendBytes)
        BY <1>2
    <2> HIDE DEF z
    <2>3. <<z.to, z.event>> \in Passing(d)
        BY <2>1, IntendedIs
    <2>4. z.event.type \in {"AddDownSession", "SetUpSession"}
        BY <2>3, PassingIs DEF EventAddDownSession, EventSetUpSession
    <2>5. \A c : SendEvent(c, EventSendBytes).event.type = "SendBytes"
        BY DEF SendEvent, EventSendBytes
    <2>6. PICK c \in S : z = GivesBack(c)
        BY <1>1, <2>2, <2>4, <2>5
    <2>7. z.event = EventAddDownSession(c)
        BY <1>4, <2>6
    <2>8. c = d
        BY <2>3, <2>7, PassingIs DEF EventAddDownSession, EventSetUpSession
    <2> QED
        BY <2>6, <2>8 DEF z
<1> QED
    BY <1>5, <1>6 DEF Closing

\* A session that closes gives every miner back that it has, or gets.
LEMMA ClosesStep ==
    ASSUME BackInv, NEW u \in Up, u \in open, todo[u] = <<>>, chan[u] # <<>>,
           NEW STATE S, S \subseteq Miner, NEW STATE G, G \subseteq Miner,
           NEW STATE s, Closing(u, S, G, s), Then(u, s), open' = open \ {u}, LoopTypes',
           \A q \in PoolSession \ {u} : downSessions'[q] = downSessions[q],
           \A d \in S : d \in downSessions[u] \/ <<u, Head(chan[u])>> \in Passing(d)
    PROVE  BackInv'
<1>1. /\ Mail(chan, spawned, Letters) /\ IsChan(chan) /\ IsPlan(todo) /\ \A d \in Miner : OneHand(d)
      /\ u \in Actor /\ u \in PoolSession
    BY Parts DEF BackInv, Mail
<1>2. /\ IsSequence(s) /\ \A i \in DOMAIN s : <<u, s[i]>> \in Plans
      /\ \A d : \A i \in DOMAIN s : <<u, s[i]>> \in Intended(d) => d \in S /\ s[i] = GivesBack(d)
      /\ \A d : \A i, j \in DOMAIN s : s[i] = GivesBack(d) /\ s[j] = GivesBack(d) => i = j
    <2>1. u \in Up /\ S \subseteq Miner /\ G \subseteq Miner /\ Closing(u, S, G, s)
        OBVIOUS
    <2> QED
        BY ONLY <2>1, ClosingPlans
<1>3. \A d : \A q \in PoolSession : HeldBy(q, d)' <=> HeldBy(q, d) /\ q # u
    BY DEF HeldBy
<1>4. ASSUME NEW d \in Miner PROVE OneHand(d)'
    <2>0. OneHand(d) /\ \A q \in PoolSession : HeldBy(q, d)' => HeldBy(q, d) /\ q # u
        BY <1>1, <1>3
    <2>1. CASE <<u, Head(chan[u])>> \in Passing(d) \/ HeldBy(u, d)
        <3>1. \A q \in PoolSession : HeldBy(q, d) => q = u
            <4>1. CASE <<u, Head(chan[u])>> \in Passing(d)
                BY <1>1, <2>0, <4>1, HeadNotHeld
            <4>2. CASE HeldBy(u, d)
                BY <1>1, <2>0, <4>2 DEF OneHand
            <4> QED
                BY <2>1, <4>1, <4>2
        <3>2. \A q \in PoolSession : ~HeldBy(q, d)'
            BY <2>0, <3>1
        <3>3. ASSUME NEW i \in DOMAIN s, NEW j \in DOMAIN s, <<u, s[i]>> \in Intended(d), <<u, s[j]>> \in Intended(d)
              PROVE  i = j
            BY <1>2, <3>3
        <3>4. <<u, Head(chan[u])>> \in Passing(d) \/ \E q \in PoolSession : HeldBy(q, d)
            BY <1>1, <2>1
        <3> QED
            BY <1>1, <1>2, <2>0, <3>2, <3>3, <3>4, ThenPasses
    <2>2. CASE <<u, Head(chan[u])>> \notin Passing(d) /\ ~HeldBy(u, d)
        <3>1. d \notin S
            BY <2>2 DEF HeldBy
        <3>2. \A i \in DOMAIN s : <<u, s[i]>> \notin Intended(d)
            BY <1>2, <3>1
        <3> QED
            BY <1>1, <1>2, <2>0, <2>2, <3>2, ThenOther
    <2> QED
        BY <2>1, <2>2
<1>5. \A q \in PoolSession \ {u}, d \in Miner : HeldBy(q, d) => HeldBy(q, d)'
    BY <1>3
<1>6. u \in PoolSession =>
         \A i \in DOMAIN s, d \in Miner : s[i] = SendEvent(d, EventSendBytes) => Writer(u, d)'
    BY DEF Writer
<1>7. open' \subseteq open /\ \A d \in Miner : OneHand(d)'
    BY <1>4
<1> QED
    BY <1>1, <1>2, <1>5, <1>6, <1>7, HandlerStep

LEMMA UpConnBrokenStep ==
    ASSUME BackInv, NEW p \in PoolSession, p \in open, UpConnBroken(p),
           UNCHANGED <<running, upSession, reading, ready>>
    PROVE  BackInv'
<1> DEFINE S == downSessions[p]
           s == Closes(p, S)
           G == {}
<1>1. Gets(p, "ConnBroken") /\ open' = open \ {p} /\ Then(p, s) /\ UNCHANGED <<downSessions, fakeJob>>
    BY DEF UpConnBroken
<1>2. /\ todo[p] = <<>> /\ chan[p] # <<>> /\ Head(chan[p]).type = "ConnBroken"
      /\ <<p, Head(chan[p])>> \in Letters /\ LoopTypes
    BY <1>1, Received, Parts
<1>3. p \in Up
    BY <1>2, BrokenIs, Parts
<1>4. S \subseteq Miner /\ IsFiniteSet(S) /\ G \subseteq Miner
    BY <1>2 DEF LoopTypes, CustodyTypeOK
<1>5. LoopTypes'
    <2>1. open' \subseteq open
        BY <1>1
    <2> QED
        BY <1>1, <1>2, <2>1 DEF LoopTypes, CustodyTypeOK
<1>6. Closing(p, S, G, s)
    BY <1>3, <1>4, ClosesIs
<1>7. \A q \in PoolSession \ {p} : downSessions'[q] = downSessions[q]
    BY <1>1
<1>8. \A d \in S : d \in downSessions[p] \/ <<p, Head(chan[p])>> \in Passing(d)
    OBVIOUS
<1> HIDE DEF S, s, G
<1> QED
    BY <1>1, <1>2, <1>3, <1>4, <1>5, <1>6, <1>7, <1>8, ClosesStep

LEMMA UpRegisterFailsStep ==
    ASSUME BackInv, NEW p \in PoolSession, p \in open, UpRegisterFails(p),
           UNCHANGED <<running, upSession, reading, ready>>
    PROVE  BackInv'
<1> DEFINE h == Head(chan[p])
<1>1. Gets(p, "AddDownSession") /\ open' = open \ {p} /\ UNCHANGED fakeJob /\ p \in Up
    BY BreakAssumption DEF UpRegisterFails
<1>2. /\ todo[p] = <<>> /\ chan[p] # <<>> /\ h.type = "AddDownSession" /\ <<p, h>> \in Letters /\ LoopTypes
    BY <1>1, Received, Parts
<1> HIDE DEF h
<1>3. PICK d \in Miner : h = EventAddDownSession(d)
    BY <1>2, LetterIs
<1> DEFINE S == downSessions[p] \cup {d}
           s == Closes(p, S) \o Greets(p, d)
           G == {d}
<1>4. downSessions' = [downSessions EXCEPT ![p] = S] /\ Then(p, s)
    <2>1. h.session = d
        BY <1>3 DEF EventAddDownSession
    <2> QED
        BY <2>1 DEF UpRegisterFails, Joins, h
<1>5. downSessions \in [PoolSession -> SUBSET Miner] /\ \A q \in PoolSession : IsFiniteSet(downSessions[q])
    BY <1>2 DEF LoopTypes, CustodyTypeOK
<1>6. S \subseteq Miner /\ IsFiniteSet(S) /\ G \subseteq Miner
    BY <1>5, FS_AddElement
<1>7. Closing(p, S, G, s)
    <2> HIDE DEF S
    <2> QED
        BY <1>1, <1>6, ClosesIs, ClosesAndGreets
<1>8. \A q \in PoolSession \ {p} : downSessions'[q] = downSessions[q]
    BY <1>4, <1>5
<1>9. \A c \in S : c \in downSessions[p] \/ <<p, Head(chan[p])>> \in Passing(c)
    BY <1>3, PassingIs DEF h
<1> HIDE DEF S, s, G
<1>10. LoopTypes'
    <2>1. open' \subseteq open /\ fakeJob' \in BOOLEAN
        BY <1>1, <1>2 DEF LoopTypes
    <2> QED
        BY <1>2, <1>4, <1>6, <2>1, TypesKept
<1> QED
    BY <1>1, <1>2, <1>4, <1>6, <1>7, <1>8, <1>9, <1>10, ClosesStep

LEMMA UpUnregisterFailsStep ==
    ASSUME BackInv, NEW p \in PoolSession, p \in open, UpUnregisterFails(p),
           UNCHANGED <<running, upSession, reading, ready>>
    PROVE  BackInv'
<1> DEFINE S == downSessions[p] \ {Head(chan[p]).sessionID}
           s == Closes(p, S)
           G == {}
<1>1. /\ Gets(p, "DownSessionBroken") /\ open' = open \ {p} /\ UNCHANGED fakeJob /\ p \in Up
      /\ downSessions' = [downSessions EXCEPT ![p] = S] /\ Then(p, s)
    BY BreakAssumption DEF UpUnregisterFails, Leaves
<1>2. todo[p] = <<>> /\ chan[p] # <<>> /\ LoopTypes
    BY <1>1, Received, Parts
<1>3. downSessions \in [PoolSession -> SUBSET Miner] /\ \A q \in PoolSession : IsFiniteSet(downSessions[q])
    BY <1>2 DEF LoopTypes, CustodyTypeOK
<1>4. S \subseteq Miner /\ IsFiniteSet(S) /\ G \subseteq Miner
    BY <1>3, FS_RemoveElement
<1>5. Closing(p, S, G, s)
    BY <1>1, <1>4, ClosesIs
<1>6. \A q \in PoolSession \ {p} : downSessions'[q] = downSessions[q]
    BY <1>1, <1>3
<1>7. \A d \in S : d \in downSessions[p] \/ <<p, Head(chan[p])>> \in Passing(d)
    OBVIOUS
<1> HIDE DEF S, s, G
<1>8. LoopTypes'
    <2>1. open' \subseteq open /\ fakeJob' \in BOOLEAN
        BY <1>1, <1>2 DEF LoopTypes
    <2> QED
        BY <1>1, <1>2, <1>4, <2>1, TypesKept
<1> QED
    BY <1>1, <1>2, <1>4, <1>5, <1>6, <1>7, <1>8, ClosesStep

LEMMA UpSetExtraNonceStep ==
    ASSUME BackInv, NEW p \in PoolSession, p \in open, UpSetExtraNonce(p),
           UNCHANGED <<running, upSession, reading, ready>>
    PROVE  BackInv'
<1> DEFINE h == Head(chan[p])
<1>1. Gets(p, "RecvExMessage") /\ UNCHANGED <<open, downSessions, fakeJob>>
    BY DEF UpSetExtraNonce
<1>2. /\ todo[p] = <<>> /\ chan[p] # <<>> /\ h.type = "RecvExMessage" /\ <<p, h>> \in Letters
      /\ IsChan(chan) /\ Mail(chan, spawned, Letters) /\ IsPlan(todo) /\ \A d \in Miner : OneHand(d)
      /\ LoopTypes /\ p \in Actor
    BY <1>1, Received, Parts
<1> HIDE DEF h
<1>3. PICK d \in Miner : h = EventRecvExMessage(d)
    BY <1>2, LetterIs
<1> DEFINE x == SendEvent(d, EventSendBytes)
<1>4. PICK s : /\ Then(p, s) /\ IsSequence(s)
               /\ \A i \in DOMAIN s : s[i] = x /\ d \in downSessions[p]
    <2>0. h.session = d
        BY <1>3 DEF EventRecvExMessage
    <2>1. CASE d \notin downSessions[p] /\ Then(p, <<>>)
        BY <2>1, EmptyIsSequence
    <2>2. ASSUME d \in downSessions[p], NEW n \in 1 .. 2, Then(p, [i \in 1 .. n |-> x])
          PROVE  \E s : Then(p, s) /\ IsSequence(s) /\ \A i \in DOMAIN s : s[i] = x /\ d \in downSessions[p]
        <3> DEFINE s == [i \in 1 .. n |-> x]
        <3>1. s \in Seq({x}) /\ DOMAIN s = 1 .. n /\ \A i \in DOMAIN s : s[i] = x
            OBVIOUS
        <3>2. IsSequence(s)
            BY <3>1 DEF IsSequence
        <3>3. Then(p, s)
            BY <2>2
        <3> HIDE DEF s, x
        <3> QED
            BY <2>2, <3>1, <3>2, <3>3
    <2> QED
        BY <2>0, <2>1, <2>2 DEF UpSetExtraNonce, h
<1>5. <<p, x>> \in Plans
    BY DEF Plans
<1>6. x.event.type \notin {"AddDownSession", "SetUpSession"}
    BY DEF SendEvent, EventSendBytes
<1>7. \A c : x = SendEvent(c, EventSendBytes) => c = d
    BY DEF SendEvent
<1> HIDE DEF x
<1>8. \A c : <<p, x>> \notin Intended(c)
    <2>1. \A c : <<x.to, x.event>> \notin Passing(c)
        BY <1>6, PassingIs DEF EventAddDownSession, EventSetUpSession
    <2> QED
        BY <1>5, <2>1, IntendedIs
<1>9. \A c : \A q : HeldBy(q, c)' <=> HeldBy(q, c)
    BY <1>1 DEF HeldBy
<1>10. ASSUME NEW c \in Miner PROVE OneHand(c)'
    <2>1. <<p, Head(chan[p])>> \notin Passing(c)
        BY <1>2, PassingIs DEF h, EventAddDownSession, EventSetUpSession
    <2>2. \A i \in DOMAIN s : <<p, s[i]>> \notin Intended(c)
        BY <1>4, <1>8
    <2>3. \A q \in PoolSession : HeldBy(q, c)' => HeldBy(q, c)
        BY <1>9
    <2> QED
        BY <1>2, <1>4, <1>10, <2>1, <2>2, <2>3, ThenOther
<1>11. LoopTypes'
    BY <1>1, <1>2 DEF LoopTypes, CustodyTypeOK
<1>12. ASSUME NEW i \in DOMAIN s, NEW c \in Miner, s[i] = SendEvent(c, EventSendBytes)
       PROVE  Writer(p, c)'
    <2>1. c = d /\ d \in downSessions[p]
        BY <1>4, <1>7, <1>12
    <2>2. HeldBy(p, c)
        BY <2>1 DEF HeldBy
    <2> QED
        BY <1>9, <2>2 DEF Writer
<1>13. /\ open' \subseteq open /\ \A c \in Miner : OneHand(c)'
       /\ \A q \in PoolSession \ {p}, c \in Miner : HeldBy(q, c) => HeldBy(q, c)'
       /\ \A i \in DOMAIN s : <<p, s[i]>> \in Plans
    BY <1>1, <1>4, <1>5, <1>9, <1>10
<1> QED
    BY <1>2, <1>4, <1>11, <1>12, <1>13, HandlerStep

LEMMA TransfersDownSessionsStep ==
    ASSUME BackInv, NEW p \in PoolSession, p \in open, TransfersDownSessions(p),
           UNCHANGED <<running, upSession, reading, ready>>
    PROVE  BackInv'
<1> DEFINE h == Head(chan[p])
           s == ToEach(downSessions[p], GivesBack)
           none == {}
<1>1. /\ Gets(p, "TransferDownSessions") /\ downSessions' = [downSessions EXCEPT ![p] = none]
      /\ Then(p, s) /\ UNCHANGED <<open, fakeJob>>
    BY DEF TransfersDownSessions
<1>2. /\ todo[p] = <<>> /\ chan[p] # <<>> /\ h.type = "TransferDownSessions"
      /\ IsChan(chan) /\ Mail(chan, spawned, Letters) /\ IsPlan(todo) /\ \A d \in Miner : OneHand(d)
      /\ LoopTypes /\ p \in Actor
    BY <1>1, Received, Parts
<1>3. downSessions \in [PoolSession -> SUBSET Miner] /\ downSessions[p] \subseteq Miner /\ IsFiniteSet(downSessions[p])
    BY <1>2 DEF LoopTypes, CustodyTypeOK
<1>4. /\ IsSequence(s) /\ \A i \in DOMAIN s : \E d \in downSessions[p] : s[i] = GivesBack(d)
      /\ \A i, j \in DOMAIN s : \A d : s[i] = GivesBack(d) /\ s[j] = GivesBack(d) => i = j
    BY <1>3, GivesBackAll
<1>5. none \subseteq Miner /\ IsFiniteSet(none) /\ \A d : d \notin none
    BY FS_EmptySet
<1> HIDE DEF s, none
<1>6. \A d : /\ d \in Miner => <<p, GivesBack(d)>> \in Plans
             /\ \A c : GivesBack(d) # SendEvent(c, EventSendBytes)
    BY GivesBackIs
<1>7. \A i \in DOMAIN s : <<p, s[i]>> \in Plans
    BY <1>3, <1>4, <1>6
<1>8. downSessions'[p] = none /\ \A q \in PoolSession \ {p} : downSessions'[q] = downSessions[q]
    BY <1>1, <1>3
<1>9. \A d : \A q \in PoolSession : HeldBy(q, d)' <=> HeldBy(q, d) /\ q # p
    BY <1>1, <1>5, <1>8 DEF HeldBy
<1>10. ASSUME NEW d \in Miner PROVE OneHand(d)'
    <2>1. <<p, Head(chan[p])>> \notin Passing(d)
        BY <1>2, PassingIs DEF EventAddDownSession, EventSetUpSession, h
    <2>2. \A q \in PoolSession : HeldBy(q, d)' <=> HeldBy(q, d) /\ q # p
        BY <1>9
    <2>3. \A i \in DOMAIN s : \/ \E c \in downSessions[p] : s[i] = GivesBack(c)
                              \/ s[i].event.type \notin {"AddDownSession", "SetUpSession"}
        BY <1>4
    <2> QED
        BY <1>1, <1>2, <1>4, <1>7, <2>1, <2>2, <2>3, ThenGivesBack
<1>11. LoopTypes'
    <2>1. fakeJob' \in BOOLEAN /\ open' \subseteq open
        BY <1>1, <1>2 DEF LoopTypes
    <2> QED
        BY <1>1, <1>2, <1>5, <2>1, TypesKept
<1>12. \A q \in PoolSession \ {p}, d \in Miner : HeldBy(q, d) => HeldBy(q, d)'
    BY <1>9
<1>13. \A i \in DOMAIN s, d \in Miner : s[i] # SendEvent(d, EventSendBytes)
    BY <1>4, <1>6
<1>14. open' \subseteq open /\ \A d \in Miner : OneHand(d)'
    BY <1>1, <1>10
<1> QED
    BY <1>1, <1>2, <1>4, <1>7, <1>11, <1>12, <1>13, <1>14, HandlerStep

LEMMA UpRunsStep ==
    ASSUME BackInv, NEW p \in PoolSession, UpRuns(p)
    PROVE  BackInv'
<1>1. p \in open /\ UNCHANGED <<running, upSession, reading, ready>>
    BY DEF UpRuns
<1>2. ASSUME FakeUpdateJob(p) PROVE BackInv'
    <2> DEFINE s == <<>>
               t == "UpdateFakeJob"
    <2>1. /\ Gets(p, t) /\ t \notin {"AddDownSession", "SetUpSession"} /\ Then(p, s)
          /\ UNCHANGED <<open, downSessions>> /\ fakeJob' = TRUE
        BY <1>2 DEF FakeUpdateJob
    <2>2. IsSequence(s) /\ DOMAIN s = {}
        BY EmptyIsSequence
    <2>3. LoopTypes /\ p \in Actor
        BY Parts DEF BackInv
    <2>4. fakeJob' \in BOOLEAN
        BY <2>1
    <2>5. LoopTypes'
        BY <1>1, <2>1, <2>3, <2>4 DEF LoopTypes, CustodyTypeOK
    <2> HIDE DEF s, t
    <2> QED
        BY <2>1, <2>2, <2>3, <2>5, QuietHandler
<1>3. ASSUME UpAddDownSession(p) PROVE BackInv'
    BY <1>1, <1>3, UpAddDownSessionStep
<1>4. ASSUME UpDownSessionBroken(p) PROVE BackInv'
    BY <1>1, <1>4, UpDownSessionBrokenStep
<1>5. ASSUME SendsJob(p) PROVE BackInv'
    BY <1>1, <1>5, SendsJobStep
<1>6. ASSUME UpConnBroken(p) PROVE BackInv'
    BY <1>1, <1>6, UpConnBrokenStep
<1>8. ASSUME UpRegisterFails(p) PROVE BackInv'
    BY <1>1, <1>8, UpRegisterFailsStep
<1>9. ASSUME UpUnregisterFails(p) PROVE BackInv'
    BY <1>1, <1>9, UpUnregisterFailsStep
<1>10. ASSUME UpSetExtraNonce(p) PROVE BackInv'
    BY <1>1, <1>10, UpSetExtraNonceStep
<1>7. ASSUME TransfersDownSessions(p) PROVE BackInv'
    BY <1>1, <1>7, TransfersDownSessionsStep
<1> QED
    BY <1>2, <1>3, <1>4, <1>5, <1>6, <1>7, <1>8, <1>9, <1>10 DEF UpRuns

-----------------------------------------------------------------------------
(* The miners' sessions.                                                   *)

LEMMA DownSetUpSessionStep ==
    ASSUME BackInv, NEW d \in Miner, DownSetUpSession(d),
           UNCHANGED <<open, downSessions, reading, ready, fakeJob>>
    PROVE  BackInv'
<1> DEFINE h == Head(chan[d])
<1>1. Gets(d, "SetUpSession") /\ UNCHANGED running
    BY DEF DownSetUpSession
<1>2. /\ todo[d] = <<>> /\ chan[d] # <<>> /\ h.type = "SetUpSession" /\ <<d, h>> \in Letters
      /\ IsChan(chan) /\ Mail(chan, spawned, Letters) /\ IsPlan(todo) /\ \A c \in Miner : OneHand(c)
      /\ LoopTypes /\ d \in Actor /\ d \notin PoolSession
    BY <1>1, Received, Parts
<1> HIDE DEF h
<1>3. PICK p \in PoolSession : h = EventSetUpSession(p)
    BY <1>2, LetterIs
<1> DEFINE x == SendEvent(p, EventAddDownSession(d))
           s == <<x>>
<1>4. Then(d, s) /\ upSession' = [upSession EXCEPT ![d] = p]
    <2>1. h.session = p
        BY <1>3 DEF EventSetUpSession
    <2> QED
        BY <2>1 DEF DownSetUpSession, h
<1>5. <<d, x>> \in Plans /\ x.to = p /\ x.event = EventAddDownSession(d)
    <2>1. x.to = p /\ x.event = EventAddDownSession(d)
        BY DEF SendEvent
    <2>2. <<d, x>> \in Plans
        BY DEF Plans
    <2> QED
        BY <2>1, <2>2
<1> HIDE DEF x
<1>6. IsSequence(s) /\ DOMAIN s = {1} /\ s[1] = x
    BY OneSend
<1> HIDE DEF s
<1>7. \A c : \A q : HeldBy(q, c)' <=> HeldBy(q, c)
    BY DEF HeldBy
<1>8. OneHand(d)'
    <2>1. <<d, Head(chan[d])>> \in Passing(d)
        BY <1>3, PassingIs DEF h
    <2>2. \A q \in PoolSession : ~HeldBy(q, d)'
        BY <1>2, <1>7, <2>1, HeadNotHeld
    <2> QED
        BY <1>2, <1>4, <1>6, <2>1, <2>2, ThenPasses
<1>9. ASSUME NEW c \in Miner, c # d PROVE OneHand(c)'
    <2>1. <<d, Head(chan[d])>> \notin Passing(c)
        BY <1>2, <1>9, PassingIs DEF h, EventAddDownSession, EventSetUpSession
    <2>2. <<x.to, x.event>> \notin Passing(c)
        BY <1>5, <1>9, PassingIs DEF EventAddDownSession, EventSetUpSession
    <2>3. \A i \in DOMAIN s : <<d, s[i]>> \notin Intended(c)
        BY <1>5, <1>6, <2>2, IntendedIs
    <2> QED
        BY <1>2, <1>4, <1>6, <1>7, <2>1, <2>3, ThenOther
<1>10. LoopTypes'
    <2>1. upSession' \in [Miner -> PoolSession \cup {None}]
        BY <1>2, <1>4 DEF LoopTypes, CustodyTypeOK
    <2> QED
        BY <1>1, <1>2, <2>1 DEF LoopTypes, CustodyTypeOK
<1>11. \A c \in Miner : OneHand(c)'
    BY <1>8, <1>9
<1> QED
    BY <1>2, <1>4, <1>5, <1>6, <1>7, <1>10, <1>11, HandlerStep

LEMMA DownRunsStep ==
    ASSUME BackInv, NEW d \in Miner, DownRuns(d)
    PROVE  BackInv'
<1>1. UNCHANGED <<open, downSessions, reading, ready, fakeJob>>
    BY DEF DownRuns
<1>2. LoopTypes /\ d \in Actor /\ d \notin PoolSession
    BY Parts DEF BackInv
<1>3. ASSUME DownSetUpSession(d) PROVE BackInv'
    BY <1>1, <1>3, DownSetUpSessionStep
<1>4. ASSUME Writes(d) PROVE BackInv'
    <2> DEFINE s == <<>>
               t == "SendBytes"
    <2>1. /\ Gets(d, t) /\ t \notin {"AddDownSession", "SetUpSession"} /\ Then(d, s)
          /\ UNCHANGED <<running, upSession>>
        BY <1>4 DEF Writes
    <2>2. IsSequence(s) /\ DOMAIN s = {}
        BY EmptyIsSequence
    <2>3. LoopTypes'
        BY <1>1, <1>2, <2>1 DEF LoopTypes, CustodyTypeOK
    <2> HIDE DEF s, t
    <2> QED
        BY <1>1, <1>2, <2>1, <2>2, <2>3, QuietHandler
<1>5. ASSUME DownConnBroken(d) PROVE BackInv'
    <2> DEFINE x == SaysGoodbye(upSession[d], d)
               s == IF upSession[d] = None THEN <<>> ELSE <<x>>
               t == "ConnBroken"
    <2>1. /\ Gets(d, t) /\ t \notin {"AddDownSession", "SetUpSession"} /\ Then(d, s)
          /\ running' = running \ {d} /\ UNCHANGED upSession
        BY <1>5 DEF DownConnBroken
    <2>2. upSession[d] # None => <<d, x>> \in Plans
        <3>1. upSession[d] # None => upSession[d] \in PoolSession
            BY <1>2 DEF LoopTypes, CustodyTypeOK
        <3> QED
            BY <3>1 DEF Plans
    <2>3. x.event.type \notin {"AddDownSession", "SetUpSession"}
        BY DEF SaysGoodbye, GoSendEvent, EventDownSessionBroken
    <2> HIDE DEF x
    <2>4. IsSequence(s) /\ \A i \in DOMAIN s : upSession[d] # None /\ s[i] = x
        BY OneSend, EmptyIsSequence
    <2>5. LoopTypes'
        BY <1>1, <1>2, <2>1 DEF LoopTypes, CustodyTypeOK
    <2> HIDE DEF s, t
    <2> QED
        BY <1>1, <1>2, <2>1, <2>2, <2>3, <2>4, <2>5, QuietHandler
<1> QED
    BY <1>3, <1>4, <1>5 DEF DownRuns

-----------------------------------------------------------------------------
(* The invariant.                                                          *)

LEMMA BackInitially == BackInit => BackInv
<1> SUFFICES ASSUME BackInit PROVE BackInv
    OBVIOUS
<1> DEFINE P == {<<TheMgr, EventAddDownSession(d)>> : d \in Miner} \cup {<<TheMgr, EventReady(u)>> : u \in Up}
<1>1. /\ chan = [a \in Actor |-> <<>>] /\ spawned = SetToBag(P) /\ todo = [a \in Actor |-> <<>>]
      /\ open = Up \cup {TheFake} /\ downSessions = [p \in PoolSession |-> {}]
    BY DEF BackInit
<1>2. DOMAIN spawned = P /\ \A m \in P : spawned[m] = 1
    BY <1>1 DEF SetToBag
<1>3. P \subseteq Letters
    BY DEF Letters
<1>4. IsChan(chan) /\ IsChan(todo) /\ \A a \in Actor : chan[a] = <<>> /\ todo[a] = <<>> /\ DOMAIN chan[a] = {} /\ DOMAIN todo[a] = {} /\ Len(chan[a]) = 0
    BY <1>1, EmptyIsSequence DEF IsChan
<1>5. Mail(chan, spawned, Letters)
    <2>1. IsABag(spawned)
        BY <1>1 DEF IsABag, SetToBag
    <2> QED
        BY <1>2, <1>3, <1>4, <2>1 DEF Mail
<1>6. WithinCap
    BY <1>4, CapAssumption DEF WithinCap
<1>7. IsPlan(todo)
    BY <1>4 DEF IsPlan
<1>8. GreetsOwn
    BY <1>4, Parts DEF GreetsOwn
<1>9. ASSUME NEW d \in Miner PROVE OneHand(d)
    <2>1. \A p \in PoolSession : ~HeldBy(p, d)
        BY <1>1 DEF HeldBy
    <2>2. ~Waits(chan, Passing(d)) /\ WaitsOnce(chan, Passing(d))
          /\ ~Waits(todo, Intended(d)) /\ WaitsOnce(todo, Intended(d))
        BY <1>4 DEF Waits, WaitsOnce
    <2>3. \A m \in P : m \in Passing(d) => m = <<TheMgr, EventAddDownSession(d)>>
        BY PassingIs, Parts DEF EventAddDownSession, EventSetUpSession, EventReady
    <2>4. PendsOnce(spawned, Passing(d))
        BY <1>2, <2>3 DEF PendsOnce
    <2>5. AtMostOne(chan, spawned, Passing(d))
        BY <2>2, <2>4 DEF AtMostOne
    <2> QED
        BY <2>1, <2>2, <2>5 DEF OneHand
<1>10. LoopTypes
    <2>1. open \subseteq PoolSession /\ downSessions \in [PoolSession -> SUBSET Miner]
        BY <1>1, Parts
    <2>2. \A p \in PoolSession : IsFiniteSet(downSessions[p])
        BY <1>1, FS_EmptySet
    <2>3. CustodyTypeOK
        BY <2>1 DEF BackInit, CustodyTypeOK
    <2> QED
        BY <2>2, <2>3 DEF BackInit, LoopTypes
<1> QED
    BY <1>5, <1>6, <1>7, <1>8, <1>9, <1>10 DEF BackInv

LEMMA BackStutters ==
    ASSUME BackInv, UNCHANGED backVars
    PROVE  BackInv'
<1>1. UNCHANGED <<chan, spawned, running, upSession, open, downSessions, todo, reading, ready, fakeJob>>
    BY DEF backVars, mailVars, custodyVars, loopVars
<1>2. LoopTypes' /\ Mail(chan', spawned', Letters) /\ WithinCap' /\ IsPlan(todo')
    BY <1>1 DEF BackInv, LoopTypes, CustodyTypeOK, Mail, WithinCap, IsPlan
<1>3. \A d : \A p : HeldBy(p, d)' <=> HeldBy(p, d)
    BY <1>1 DEF HeldBy
<1>4. ASSUME NEW d \in Miner PROVE OneHand(d)'
    <2>1. OneHand(d)
        BY DEF BackInv
    <2> QED
        BY <1>1, <1>3, <2>1 DEF OneHand
<1>5. GreetsOwn'
    BY <1>1, <1>3 DEF BackInv, GreetsOwn, Writer
<1> QED
    BY <1>2, <1>4, <1>5 DEF BackInv

\* The messages, the sends and the sessions pass each miner from hand to hand,
\* and no channel ever holds more than its capacity.
THEOREM BackInvariant == BackSpec => []BackInv
<1>1. BackInit => BackInv
    BY BackInitially
<1>2. BackInv /\ [BackNext]_backVars => BackInv'
    <2> SUFFICES ASSUME BackInv, [BackNext]_backVars PROVE BackInv'
        OBVIOUS
    <2>1. CASE Environment
        BY <2>1, EnvironmentStep
    <2>2. CASE MgrRuns(TheMgr)
        BY <2>2, MgrRunsStep
    <2>3. ASSUME NEW p \in PoolSession, UpRuns(p) PROVE BackInv'
        BY <2>3, UpRunsStep
    <2>4. ASSUME NEW d \in Miner, DownRuns(d) PROVE BackInv'
        BY <2>4, DownRunsStep
    <2>5. ASSUME NEW a \in Loops, Continues(a) PROVE BackInv'
        BY <2>5, ContinuesStep DEF Loops
    <2>6. ASSUME NEW m \in BagToSet(spawned), SenderRuns(m) PROVE BackInv'
        BY <2>6, SenderRunsStep
    <2>7. CASE UNCHANGED backVars
        BY <2>7, BackStutters
    <2> QED
        BY <2>1, <2>2, <2>3, <2>4, <2>5, <2>6, <2>7 DEF BackNext
<1> QED
    BY <1>1, <1>2, PTL DEF BackSpec

-----------------------------------------------------------------------------
(* What follows from it.                                                   *)

\* Everything in a channel, with a goroutine or left to send is an event of
\* this plane, and no channel ever holds more than its capacity.
THEOREM BackTyped == BackSpec => []BackTypeOK
<1>1. BackInv => BackTypeOK
    <2> SUFFICES ASSUME BackInv PROVE BackTypeOK
        OBVIOUS
    <2>1. LoopTypes /\ Mail(chan, spawned, Letters) /\ WithinCap /\ IsPlan(todo)
        BY DEF BackInv
    <2>2. ASSUME NEW a \in Actor
          PROVE  /\ Len(chan[a]) <= Cap
                 /\ \A i \in DOMAIN chan[a] : chan[a][i] \in Events
                 /\ todo[a] \in Seq([to : Actor, event : Events, async : BOOLEAN])
        <3> DEFINE T == [to : Actor, event : Events, async : BOOLEAN]
        <3>1. \A i \in DOMAIN chan[a] : chan[a][i] \in Events
            BY <2>1, LetterIs DEF Mail
        <3>2. \A i \in DOMAIN todo[a] : todo[a][i] \in T
            BY <2>1, PlanIs DEF IsPlan
        <3>3. IsSequence(todo[a])
            BY <2>1 DEF IsPlan, IsChan
        <3> HIDE DEF T
        <3>4. todo[a] \in Seq(T)
            BY <3>2, <3>3, SequenceOf
        <3> QED
            BY <2>1, <3>1, <3>4 DEF T, WithinCap
    <2>3. ASSUME NEW m \in BagToSet(spawned) PROVE m[1] \in Actor /\ m[2] \in Events
        <3>1. m \in Letters
            BY <2>1 DEF Mail, BagToSet
        <3>2. PICK a, e : m = <<a, e>>
            BY <3>1 DEF Letters
        <3> QED
            BY <3>1, <3>2, LetterIs
    <2> QED
        BY <2>1, <2>2, <2>3 DEF BackTypeOK, LoopTypes
<1> QED
    BY <1>1, BackInvariant, PTL

-----------------------------------------------------------------------------
(* Circles.                                                                *)

\* The sends that are left and will be messages of kind K.
PlannedIn(K) == {m \in Plans : <<m[2].to, m[2].event>> \in K}

\* No message of kind K is on its way, and no send of one is left.
Nowhere(K) == Free(chan, spawned, K) /\ ~Waits(todo, PlannedIn(K))

\* d is on its way from the manager to p.
Between(d, p) == {<<d, EventSetUpSession(p)>>, <<p, EventAddDownSession(d)>>}
Bound(d, p) == ~Nowhere(Between(d, p))

\* p has closed and has still to greet d.
Late(p, d) ==
    /\ p \in Up /\ p \notin open
    /\ \E i \in DOMAIN todo[p] : todo[p][i] = SendEvent(d, EventSendBytes)

\* The manager has been told of u.
ReadyLetter(u) == {<<TheMgr, EventReady(u)>>}
Started(u) == Nowhere(ReadyLetter(u))

\* No miner is sent to p any more.
Gone(p) == Started(p) /\ p \notin ready

\* p's loop is about to tell the manager of its end, and then to give d back.
Leaving(p, d) ==
    /\ 1 \in DOMAIN todo[p] /\ todo[p][1] = SendEvent(TheMgr, EventBroken(p))
    /\ \E i \in DOMAIN todo[p] : todo[p][i] = GivesBack(d)

\* The manager reads of p's end before it gets d.
Behind(p, d) ==
    /\ \E i \in DOMAIN chan[TheMgr] : chan[TheMgr][i] = EventBroken(p)
    /\ \A j \in DOMAIN chan[TheMgr] : chan[TheMgr][j] = EventAddDownSession(d) =>
          \E i \in DOMAIN chan[TheMgr] : i < j /\ chan[TheMgr][i] = EventBroken(p)

ReadyOnce == \A u \in Up : AtMostOne(chan, spawned, ReadyLetter(u))

\* A session that the manager has not been told of has no miners to take on.
StartsFirst ==
    \A u \in Up : ~Started(u) => u \notin ready /\ \A d \in Miner : ~Bound(d, u) /\ ~Late(u, d)

\* A session that has closed tells the manager so before it gives a miner back.
TellsFirst ==
    \A p \in Up, d \in Miner : Late(p, d) =>
       Gone(p) \/ ((\A q \in PoolSession : ~Bound(d, q)) /\ (Leaving(p, d) \/ Behind(p, d)))

\* p has still to greet a miner that is on its way to q.
LeadsTo(p, q) == \E d \in Miner : Late(p, d) /\ Bound(d, q)
NoCircle == \A S \in SUBSET Up : S # {} => \E p \in S : \A q \in S : ~LeadsTo(p, q)

CircleInv ==
    /\ ReadyOnce
    /\ StartsFirst
    /\ TellsFirst
    /\ NoCircle

-----------------------------------------------------------------------------
(* What is nowhere stays so, unless a handler sends it.                    *)

LEMMA PlannedIs ==
    ASSUME NEW a, NEW s, <<a, s>> \in Plans, NEW K
    PROVE  <<a, s>> \in PlannedIn(K) <=> <<s.to, s.event>> \in K
BY DEF PlannedIn

LEMMA NoReadyPlan ==
    ASSUME NEW a, NEW s, <<a, s>> \in Plans, NEW u
    PROVE  <<s.to, s.event>> \notin ReadyLetter(u)
<1>1. s.event.type # "UpSessionReady"
    BY DEF Plans, SendEvent, GoSendEvent, GivesBack, SaysGoodbye, EventSetUpSession, EventTransferDownSessions,
           EventUpdateFakeJob, EventSendBytes, EventAddDownSession, EventBroken, EventDownSessionBroken
<1> QED
    BY <1>1 DEF ReadyLetter, EventReady

LEMMA NowhereContinues ==
    ASSUME Mail(chan, spawned, Letters), IsPlan(todo), NEW a \in Actor, Continues(a), NEW K, Nowhere(K)
    PROVE  Nowhere(K)'
<1> DEFINE s == Head(todo[a])
           L == PlannedIn(K)
<1>1. /\ todo[a] # <<>> /\ todo' = Taken(todo, a)
      /\ \/ Spawns({<<s.to, s.event>>}) /\ UNCHANGED chan
         \/ chan' = [chan EXCEPT ![s.to] = Append(@, s.event)] /\ UNCHANGED spawned
    BY DEF Continues, Taken
<1>2. 1 \in DOMAIN todo[a] /\ s = todo[a][1] /\ <<a, s>> \in Plans /\ IsChan(todo)
    BY <1>1, HeadIsPlan
<1>3. Free(chan, spawned, K) /\ ~Waits(todo, L) /\ IsChan(chan) /\ IsABag(spawned)
    BY DEF Nowhere, Mail
<1>4. <<a, s>> \notin L
    <2> HIDE DEF L, s
    <2> QED
        BY <1>2, <1>3 DEF Waits
<1>5. <<s.to, s.event>> \notin K /\ s.to \in Actor
    <2> HIDE DEF s
    <2> QED
        BY <1>2, <1>4, PlannedIs, PlanIs
<1>6. Free(chan', spawned', K)
    <2>1. Posted(s.to, s.event)
        BY <1>1 DEF Posted
    <2>2. AtMostOne(chan, spawned, K)
        BY <1>3, FreeIsAtMostOne
    <2> HIDE DEF s
    <2> QED
        BY <1>3, <1>5, <2>1, <2>2, PostedEffect
<1>7. ~Waits(todo', L)
    <2> HIDE DEF L
    <2>1. Waits(Taken(todo, a), L) <=> Waits(todo, L)
        BY <1>1, <1>2, <1>3, <1>4, TakeOther DEF s
    <2> QED
        BY <1>1, <1>3, <2>1
<1> QED
    BY <1>6, <1>7 DEF Nowhere

LEMMA NowhereDelivers ==
    ASSUME Mail(chan, spawned, Letters), NEW a \in Actor, NEW e, Deliver(<<a, e>>), UNCHANGED todo,
           NEW K, Nowhere(K)
    PROVE  Nowhere(K)'
<1>1. Free(chan, spawned, K) /\ ~Waits(todo, PlannedIn(K)) /\ IsChan(chan) /\ IsABag(spawned)
    BY DEF Nowhere, Mail
<1>2. AtMostOne(chan, spawned, K)
    BY <1>1, FreeIsAtMostOne
<1>3. Free(chan', spawned', K)
    BY <1>1, <1>2, DeliverKeeps
<1> QED
    BY <1>1, <1>3 DEF Nowhere

LEMMA NowhereReads ==
    ASSUME Mail(chan, spawned, Letters), NEW a \in Actor, NEW e, Posted(a, e), UNCHANGED todo,
           NEW K, <<a, e>> \notin K, Nowhere(K)
    PROVE  Nowhere(K)'
<1>1. Free(chan, spawned, K) /\ ~Waits(todo, PlannedIn(K)) /\ IsChan(chan) /\ IsABag(spawned)
    BY DEF Nowhere, Mail
<1>2. AtMostOne(chan, spawned, K)
    BY <1>1, FreeIsAtMostOne
<1>3. Free(chan', spawned', K)
    BY <1>1, <1>2, PostedEffect
<1> QED
    BY <1>1, <1>3 DEF Nowhere

LEMMA NowhereThen ==
    ASSUME Mail(chan, spawned, Letters), IsPlan(todo), NEW a, a \in Actor, NEW STATE s, todo[a] = <<>>, chan[a] # <<>>,
           IsSequence(s), Then(a, s), NEW K, \A i \in DOMAIN s : <<a, s[i]>> \notin PlannedIn(K), Nowhere(K)
    PROVE  Nowhere(K)'
<1> DEFINE L == PlannedIn(K)
<1>1. Free(chan, spawned, K) /\ ~Waits(todo, L) /\ IsChan(chan) /\ IsChan(todo)
    BY DEF Nowhere, Mail, IsPlan
<1>2. chan' = Taken(chan, a) /\ spawned' = spawned /\ todo' = [todo EXCEPT ![a] = s]
    BY DEF Then, Taken
<1>3. AtMostOne(chan, spawned, K)
    BY <1>1, FreeIsAtMostOne
<1>4. Free(Taken(chan, a), spawned, K)
    BY <1>1, <1>3, TakeEffect
<1>5. Waits([todo EXCEPT ![a] = s], L) <=> Waits(todo, L)
    <2>1. \A i \in DOMAIN s : <<a, s[i]>> \notin L
        OBVIOUS
    <2> HIDE DEF L
    <2> QED
        BY <1>1, <2>1, BeginOther
<1> QED
    BY <1>1, <1>2, <1>4, <1>5 DEF Nowhere

\* What a loop gets was somewhere.
LEMMA HeadIsSomewhere ==
    ASSUME Mail(chan, spawned, Letters), NEW STATE a, a \in Actor, chan[a] # <<>>, NEW K, <<a, Head(chan[a])>> \in K
    PROVE  ~Nowhere(K)
<1>1. 1 \in DOMAIN chan[a] /\ Head(chan[a]) = chan[a][1]
    BY TakenChannel DEF Mail
<1> QED
    BY <1>1 DEF Nowhere, Free, Waits

-----------------------------------------------------------------------------
(* What keeps the order of the sessions.                                   *)

\* A step that sends no miner to anybody new.
LEMMA CirclesKept ==
    ASSUME CircleInv, ReadyOnce',
           \A u \in Up : ~Started(u)' => ~Started(u) /\ u \notin ready',
           \A p \in Up : Gone(p) => Gone(p)',
           \A d \in Miner, q \in PoolSession : Bound(d, q)' => Bound(d, q),
           \A p \in Up, d \in Miner : Late(p, d)' /\ ~Late(p, d) =>
              Started(p)' /\ Leaving(p, d)' /\ \A q \in PoolSession : ~Bound(d, q)',
           \A p \in Up, d \in Miner : Late(p, d) /\ Late(p, d)' /\ (Leaving(p, d) \/ Behind(p, d)) =>
              Gone(p)' \/ Leaving(p, d)' \/ Behind(p, d)'
    PROVE  CircleInv'
<1>1. StartsFirst /\ TellsFirst /\ NoCircle
    BY DEF CircleInv
<1>2. StartsFirst'
    <2> SUFFICES ASSUME NEW u \in Up, ~Started(u)'
                 PROVE  u \notin ready' /\ \A d \in Miner : ~Bound(d, u)' /\ ~Late(u, d)'
        BY DEF StartsFirst
    <2>1. ~Started(u) /\ u \notin ready'
        OBVIOUS
    <2>2. \A d \in Miner : ~Bound(d, u) /\ ~Late(u, d)
        BY <1>1, <2>1 DEF StartsFirst
    <2>3. u \in PoolSession
        BY Parts
    <2>4. ASSUME NEW d \in Miner PROVE ~Bound(d, u)' /\ ~Late(u, d)'
        BY <2>2, <2>3
    <2> QED
        BY <2>1, <2>4
<1>3. TellsFirst'
    <2> SUFFICES ASSUME NEW p \in Up, NEW d \in Miner, Late(p, d)'
                 PROVE  \/ Gone(p)'
                        \/ (\A q \in PoolSession : ~Bound(d, q)') /\ (Leaving(p, d)' \/ Behind(p, d)')
        BY DEF TellsFirst
    <2>1. CASE ~Late(p, d)
        BY <2>1
    <2>2. CASE Late(p, d) /\ Gone(p)
        BY <2>2
    <2>3. CASE Late(p, d) /\ ~Gone(p)
        <3>1. (\A q \in PoolSession : ~Bound(d, q)) /\ (Leaving(p, d) \/ Behind(p, d))
            BY <1>1, <2>3 DEF TellsFirst
        <3> QED
            BY <2>3, <3>1
    <2> QED
        BY <2>1, <2>2, <2>3
<1>4. NoCircle'
    <2>1. ASSUME NEW p \in Up, NEW q \in Up, LeadsTo(p, q)' PROVE LeadsTo(p, q)
        <3>1. PICK d \in Miner : Late(p, d)' /\ Bound(d, q)'
            BY <2>1 DEF LeadsTo
        <3>2. q \in PoolSession
            BY Parts
        <3>3. Late(p, d) /\ Bound(d, q)
            BY <3>1, <3>2
        <3> QED
            BY <3>3 DEF LeadsTo
    <2>2. ASSUME NEW S \in SUBSET Up, S # {} PROVE \E p \in S : \A q \in S : ~LeadsTo(p, q)'
        <3>1. PICK p \in S : \A q \in S : ~LeadsTo(p, q)
            BY <1>1, <2>2 DEF NoCircle
        <3>2. \A q \in S : ~LeadsTo(p, q)'
            BY <2>1, <3>1
        <3> QED
            BY <3>2
    <2> QED
        BY <2>2 DEF NoCircle
<1> QED
    BY <1>2, <1>3, <1>4 DEF CircleInv

\* The manager's channel gets more: what it reads first stays so.
LEMMA BehindAppended ==
    ASSUME NEW p, NEW d, IsChan(chan), Behind(p, d), NEW STATE a, a \in Actor, NEW STATE e,
           chan' = [chan EXCEPT ![a] = Append(@, e)]
    PROVE  Behind(p, d)'
<1> DEFINE c == chan[TheMgr]
           t == chan'[TheMgr]
<1>0. TheMgr \in Actor
    BY Parts
<1>1. CASE a # TheMgr
    <2>1. t = c
        BY <1>0, <1>1 DEF IsChan
    <2> QED
        BY <2>1 DEF Behind
<1>2. CASE a = TheMgr
    <2>1. IsAppended(chan, To(a, e), Appended(chan, To(a, e))) /\ chan' = Appended(chan, To(a, e))
        <3>1. OneEach(To(a, e))
            BY ToPosts
        <3>2. chan' = Appended(chan, To(a, e))
            BY AppendedTo
        <3> QED
            BY <3>1, <3>2, AppendedChannel
    <2>2. TheMgr \in DOMAIN To(a, e)
        BY <1>2 DEF To
    <2>3. /\ Len(c) \in Nat /\ DOMAIN c = 1 .. Len(c) /\ DOMAIN t = 1 .. Len(c) + 1
          /\ \A i \in DOMAIN c : t[i] = c[i]
        BY <2>1, <2>2 DEF IsAppended
    <2>4. PICK k \in DOMAIN c : c[k] = EventBroken(p)
        BY DEF Behind
    <2>5. k \in DOMAIN t /\ t[k] = EventBroken(p)
        BY <2>3, <2>4
    <2>6. ASSUME NEW j \in DOMAIN t, t[j] = EventAddDownSession(d)
          PROVE  \E i \in DOMAIN t : i < j /\ t[i] = EventBroken(p)
        <3>1. CASE j \in DOMAIN c
            <4>1. PICK i \in DOMAIN c : i < j /\ c[i] = EventBroken(p)
                BY <2>3, <2>6, <3>1 DEF Behind
            <4>2. i \in DOMAIN t /\ t[i] = EventBroken(p)
                BY <2>3, <4>1
            <4> QED
                BY <4>1, <4>2
        <3>2. CASE j \notin DOMAIN c
            <4>1. k < j
                BY <2>3, <2>4, <3>2
            <4> QED
                BY <2>5, <4>1
        <3> QED
            BY <3>1, <3>2
    <2> QED
        BY <2>5, <2>6 DEF Behind
<1> QED
    BY <1>1, <1>2

\* Nobody is behind a session whose end is what the manager reads next, but for
\* that one.
LEMMA BehindTaken ==
    ASSUME NEW p, NEW d, IsChan(chan), Behind(p, d), chan[TheMgr] # <<>>,
           chan' = Taken(chan, TheMgr), Head(chan[TheMgr]) # EventBroken(p)
    PROVE  Behind(p, d)'
<1> DEFINE c == chan[TheMgr]
           t == chan'[TheMgr]
<1>1. TheMgr \in Actor
    BY Parts
<1>2. /\ 1 \in DOMAIN c /\ Head(c) = c[1]
      /\ \A i \in DOMAIN t : i \in Nat \ {0} /\ i + 1 \in DOMAIN c /\ t[i] = c[i + 1]
      /\ \A i \in DOMAIN c : i = 1 \/ (i - 1 \in DOMAIN t /\ t[i - 1] = c[i])
      /\ DOMAIN c \subseteq Nat
    BY <1>1, TakenChannel, IndicesAreNumbers DEF IsChan
<1>3. PICK k \in DOMAIN c : c[k] = EventBroken(p)
    BY DEF Behind
<1>4. k - 1 \in DOMAIN t /\ t[k - 1] = EventBroken(p)
    BY <1>2, <1>3
<1>5. ASSUME NEW j \in DOMAIN t, t[j] = EventAddDownSession(d)
      PROVE  \E i \in DOMAIN t : i < j /\ t[i] = EventBroken(p)
    <2>1. j + 1 \in DOMAIN c /\ c[j + 1] = EventAddDownSession(d) /\ j \in Nat
        BY <1>2, <1>5
    <2>2. PICK i \in DOMAIN c : i < j + 1 /\ c[i] = EventBroken(p)
        BY <2>1 DEF Behind
    <2>3. i - 1 \in DOMAIN t /\ t[i - 1] = EventBroken(p) /\ i \in Nat
        BY <1>2, <2>2
    <2>4. i - 1 < j
        BY <2>1, <2>2, <2>3
    <2> QED
        BY <2>3, <2>4
<1> QED
    BY <1>4, <1>5 DEF Behind

\* What the manager reads next is not behind anything.
LEMMA HeadIsNotBehind ==
    ASSUME NEW p, NEW d, IsChan(chan), chan[TheMgr] # <<>>, Head(chan[TheMgr]) = EventAddDownSession(d)
    PROVE  ~Behind(p, d)
<1>1. TheMgr \in Actor
    BY Parts
<1>2. 1 \in DOMAIN chan[TheMgr] /\ Head(chan[TheMgr]) = chan[TheMgr][1]
    BY <1>1, TakenChannel
<1>3. \A i \in DOMAIN chan[TheMgr] : i \in Nat \ {0}
    <2>1. IsSequence(chan[TheMgr])
        BY <1>1 DEF IsChan
    <2> QED
        BY <2>1 DEF IsSequence
<1> QED
    BY <1>2, <1>3 DEF Behind

\* A step that starts no session and ends none.
LEMMA GoneKept ==
    ASSUME ready' = ready, \A u \in Up : Started(u) => Started(u)'
    PROVE  \A p \in Up : Gone(p) => Gone(p)'
BY DEF Gone

-----------------------------------------------------------------------------
(* Sends and the order of the sessions.                                    *)

\* A session that has a miner to give back tells the manager of its end.
LEMMA BehindBegins ==
    ASSUME NEW p, NEW d, IsChan(chan), Free(chan, spawned, Passing(d)),
           chan' = [chan EXCEPT ![TheMgr] = Append(@, EventBroken(p))]
    PROVE  Behind(p, d)'
<1> DEFINE c == chan[TheMgr]
           t == chan'[TheMgr]
           e == EventBroken(p)
<1>0. TheMgr \in Actor
    BY Parts
<1>1. IsAppended(chan, To(TheMgr, e), Appended(chan, To(TheMgr, e))) /\ chan' = Appended(chan, To(TheMgr, e))
    <2> HIDE DEF e
    <2>1. OneEach(To(TheMgr, e))
        BY <1>0, ToPosts
    <2>2. chan' = Appended(chan, To(TheMgr, e))
        BY <1>0, AppendedTo DEF e
    <2> QED
        BY <2>1, <2>2, AppendedChannel
<1>2. TheMgr \in DOMAIN To(TheMgr, e) /\ To(TheMgr, e)[TheMgr] = <<e>>
    BY DEF To
<1>3. /\ Len(c) \in Nat /\ DOMAIN c = 1 .. Len(c) /\ DOMAIN t = 1 .. Len(c) + 1
      /\ \A i \in DOMAIN c : t[i] = c[i]
      /\ t[Len(c) + 1] = e
    <2> HIDE DEF e
    <2>1. Head(To(TheMgr, e)[TheMgr]) = e
        BY <1>2
    <2> QED
        BY <1>1, <1>2, <2>1 DEF IsAppended
<1>4. Len(c) + 1 \in DOMAIN t
    BY <1>3
<1>5. ASSUME NEW j \in DOMAIN t, t[j] = EventAddDownSession(d) PROVE FALSE
    <2>1. CASE j \in DOMAIN c
        <3>1. c[j] = EventAddDownSession(d)
            BY <1>3, <1>5, <2>1
        <3> QED
            BY <1>0, <2>1, <3>1 DEF Free, Waits, Passing
    <2>2. CASE j \notin DOMAIN c
        <3>1. j = Len(c) + 1
            BY <1>3, <1>5, <2>2
        <3> QED
            BY <1>3, <1>5, <3>1 DEF EventBroken, EventAddDownSession
    <2> QED
        BY <2>1, <2>2
<1> QED
    BY <1>3, <1>4, <1>5 DEF Behind

LEMMA LeavingHasHand ==
    ASSUME BackInv, NEW p \in Up, NEW d \in Miner, Leaving(p, d)
    PROVE  Free(chan, spawned, Passing(d))
<1>1. PICK i \in DOMAIN todo[p] : todo[p][i] = GivesBack(d)
    BY DEF Leaving
<1>2. p \in PoolSession /\ p \in Actor
    BY Parts
<1>3. <<p, GivesBack(d)>> \in Plans /\ GivesBack(d).event = EventAddDownSession(d) /\ GivesBack(d).to = TheMgr
    BY <1>2, GivesBackIs DEF GivesBack, GoSendEvent
<1>4. <<p, GivesBack(d)>> \in Intended(d)
    BY <1>3, IntendedIs, PassingIs
<1>5. Waits(todo, Intended(d))
    BY <1>1, <1>2, <1>4 DEF Waits
<1> QED
    BY <1>5 DEF BackInv, OneHand

LEMMA ContinuesCircles ==
    ASSUME BackInv, CircleInv, NEW a \in Actor, Continues(a)
    PROVE  CircleInv'
<1> DEFINE s == Head(todo[a])
<1>1. Mail(chan, spawned, Letters) /\ IsPlan(todo)
    BY DEF BackInv
<1>2. /\ todo[a] # <<>> /\ todo' = Taken(todo, a)
      /\ \/ s.async /\ Spawns({<<s.to, s.event>>}) /\ UNCHANGED chan
         \/ ~s.async /\ chan' = [chan EXCEPT ![s.to] = Append(@, s.event)] /\ UNCHANGED spawned
      /\ UNCHANGED <<custodyVars, reading, ready, fakeJob>>
    BY DEF Continues, Taken
<1>3. IsChan(todo) /\ <<a, s>> \in Plans /\ s = todo[a][1]
    BY <1>1, <1>2, HeadIsPlan
<1>4. \A K : Nowhere(K) => Nowhere(K)'
    BY <1>1, NowhereContinues
<1> HIDE DEF s
<1>5. s.to \in Actor /\ <<s.to, s.event>> \in Letters
    BY <1>3, PlanIs
<1>6. IsChan(chan) /\ IsABag(spawned)
    BY <1>1 DEF Mail
<1>7. /\ \A x \in Actor \ {a} : todo'[x] = todo[x]
      /\ \A i \in DOMAIN todo'[a] : i + 1 \in DOMAIN todo[a] /\ todo'[a][i] = todo[a][i + 1]
    BY <1>2, <1>3, TakenChannel
<1>8. ready' = ready /\ open' = open
    BY <1>2 DEF custodyVars
<1>9. ReadyOnce'
    <2> SUFFICES ASSUME NEW u \in Up PROVE AtMostOne(chan', spawned', ReadyLetter(u))
        BY DEF ReadyOnce
    <2> DEFINE K == ReadyLetter(u)
    <2>1. <<s.to, s.event>> \notin K /\ AtMostOne(chan, spawned, K)
        BY <1>3, NoReadyPlan DEF CircleInv, ReadyOnce
    <2>2. Posted(s.to, s.event)
        BY <1>2 DEF Posted
    <2> HIDE DEF K
    <2>3. AtMostOne(chan', spawned', K)
        BY <1>5, <1>6, <2>1, <2>2, PostedEffect
    <2> QED
        BY <2>3 DEF K
<1>10. \A u \in Up : Started(u) => Started(u)'
    BY <1>4 DEF Started
<1>11. \A u \in Up : ~Started(u)' => ~Started(u) /\ u \notin ready'
    BY <1>8, <1>10 DEF CircleInv, StartsFirst
<1>12. \A p \in Up : Gone(p) => Gone(p)'
    BY <1>8, <1>10, GoneKept
<1>13. \A d \in Miner, q \in PoolSession : Bound(d, q)' => Bound(d, q)
    BY <1>4 DEF Bound
<1>14. ASSUME NEW p \in Up, NEW d \in Miner, Late(p, d)' PROVE Late(p, d)
    <2>1. PICK i \in DOMAIN todo'[p] : todo'[p][i] = SendEvent(d, EventSendBytes)
        BY <1>14 DEF Late
    <2>2. \E j \in DOMAIN todo[p] : todo[p][j] = SendEvent(d, EventSendBytes)
        BY <1>7, <2>1, Parts
    <2> QED
        BY <1>8, <1>14, <2>2 DEF Late
<1>15. ASSUME NEW p \in Up, NEW d \in Miner, Leaving(p, d) \/ Behind(p, d)
       PROVE  Leaving(p, d)' \/ Behind(p, d)'
    <2>1. CASE Leaving(p, d) /\ a = p
        <3>1. s = SendEvent(TheMgr, EventBroken(p))
            BY <1>3, <2>1 DEF Leaving
        <3>2. ~s.async /\ s.to = TheMgr /\ s.event = EventBroken(p)
            BY <3>1 DEF SendEvent
        <3>3. chan' = [chan EXCEPT ![TheMgr] = Append(@, EventBroken(p))]
            BY <1>2, <3>2
        <3>4. Free(chan, spawned, Passing(d))
            BY <2>1, LeavingHasHand
        <3> QED
            BY <1>6, <3>3, <3>4, BehindBegins
    <2>2. CASE Leaving(p, d) /\ a # p
        BY <1>7, <2>2, Parts DEF Leaving
    <2>3. CASE Behind(p, d)
        <3>1. CASE UNCHANGED chan
            BY <2>3, <3>1 DEF Behind
        <3>2. CASE chan' = [chan EXCEPT ![s.to] = Append(@, s.event)]
            BY <1>5, <1>6, <2>3, <3>2, BehindAppended
        <3> QED
            BY <1>2, <3>1, <3>2
    <2> QED
        BY <1>15, <2>1, <2>2, <2>3
<1> QED
    BY <1>9, <1>11, <1>12, <1>13, <1>14, <1>15, CirclesKept

LEMMA SenderRunsCircles ==
    ASSUME BackInv, CircleInv, NEW m \in BagToSet(spawned), SenderRuns(m)
    PROVE  CircleInv'
<1>1. Mail(chan, spawned, Letters)
    BY DEF BackInv
<1>2. IsChan(chan) /\ IsABag(spawned)
    BY <1>1 DEF Mail
<1>3. m \in Letters
    BY <1>1 DEF Mail, BagToSet
<1>4. PICK a, e : m = <<a, e>>
    BY <1>3 DEF Letters
<1>5. a \in Actor
    BY <1>3, <1>4, LetterIs
<1>6. Deliver(<<a, e>>) /\ UNCHANGED <<custodyVars, loopVars>>
    BY <1>4 DEF SenderRuns
<1>7. UNCHANGED <<open, todo, ready>>
    BY <1>6 DEF custodyVars, loopVars
<1>8. \A K : Nowhere(K) => Nowhere(K)'
    BY <1>1, <1>5, <1>6, <1>7, NowhereDelivers
<1>9. ReadyOnce'
    <2> SUFFICES ASSUME NEW u \in Up PROVE AtMostOne(chan', spawned', ReadyLetter(u))
        BY DEF ReadyOnce
    <2> DEFINE K == ReadyLetter(u)
    <2>1. AtMostOne(chan, spawned, K)
        BY DEF CircleInv, ReadyOnce
    <2> HIDE DEF K
    <2>2. AtMostOne(chan', spawned', K)
        BY <1>2, <1>5, <1>6, <2>1, DeliverKeeps
    <2> QED
        BY <2>2 DEF K
<1>10. \A u \in Up : Started(u) => Started(u)'
    BY <1>8 DEF Started
<1>11. \A u \in Up : ~Started(u)' => ~Started(u) /\ u \notin ready'
    BY <1>7, <1>10 DEF CircleInv, StartsFirst
<1>12. \A p \in Up : Gone(p) => Gone(p)'
    BY <1>7, <1>10, GoneKept
<1>13. \A d \in Miner, q \in PoolSession : Bound(d, q)' => Bound(d, q)
    BY <1>8 DEF Bound
<1>14. \A p \in Up, d \in Miner : Late(p, d)' => Late(p, d)
    BY <1>7 DEF Late
<1>15. ASSUME NEW p \in Up, NEW d \in Miner, Leaving(p, d) \/ Behind(p, d)
       PROVE  Leaving(p, d)' \/ Behind(p, d)'
    <2>1. CASE Leaving(p, d)
        BY <1>7, <2>1 DEF Leaving
    <2>2. CASE Behind(p, d)
        <3>1. chan' = [chan EXCEPT ![a] = Append(@, e)]
            BY <1>6 DEF Deliver
        <3> QED
            BY <1>2, <1>5, <2>2, <3>1, BehindAppended
    <2> QED
        BY <1>15, <2>1, <2>2
<1> QED
    BY <1>9, <1>11, <1>12, <1>13, <1>14, <1>15, CirclesKept

LEMMA ReadsCircles ==
    ASSUME BackInv, CircleInv, NEW a, a \in Actor, NEW e, Reads(a, e),
           e.type \notin {"AddDownSession", "SetUpSession", "UpSessionReady"}
    PROVE  CircleInv'
<1>1. Mail(chan, spawned, Letters)
    BY DEF BackInv
<1>2. IsChan(chan) /\ IsABag(spawned)
    BY <1>1 DEF Mail
<1>3. /\ chan' = [chan EXCEPT ![a] = Append(@, e)]
      /\ UNCHANGED <<spawned, custodyVars, todo, ready, fakeJob>>
    BY DEF Reads
<1>4. UNCHANGED <<open, todo, ready>> /\ Posted(a, e)
    BY <1>3 DEF custodyVars, Posted
<1>5. \A d, q : <<a, e>> \notin Between(d, q)
    BY DEF Between, EventAddDownSession, EventSetUpSession
<1>6. \A u : <<a, e>> \notin ReadyLetter(u)
    BY DEF ReadyLetter, EventReady
<1>7. \A d, q : Nowhere(Between(d, q)) => Nowhere(Between(d, q))'
    <2> SUFFICES ASSUME NEW d, NEW q, Nowhere(Between(d, q)) PROVE Nowhere(Between(d, q))'
        OBVIOUS
    <2> DEFINE K == Between(d, q)
    <2>1. <<a, e>> \notin K /\ Nowhere(K)
        BY <1>5
    <2> HIDE DEF K
    <2>2. Nowhere(K)'
        BY <1>1, <1>4, <2>1, NowhereReads
    <2> QED
        BY <2>2 DEF K
<1>9. ASSUME NEW u \in Up
      PROVE  AtMostOne(chan', spawned', ReadyLetter(u)) /\ (Started(u) => Started(u)')
    <2> DEFINE K == ReadyLetter(u)
    <2>1. <<a, e>> \notin K /\ AtMostOne(chan, spawned, K)
        BY <1>6 DEF CircleInv, ReadyOnce
    <2>2. Started(u) <=> Nowhere(K)
        BY DEF Started
    <2>3. Started(u)' <=> Nowhere(K)'
        BY DEF Started
    <2> HIDE DEF K
    <2>4. AtMostOne(chan', spawned', K)
        BY <1>2, <1>4, <2>1, PostedEffect
    <2>5. Nowhere(K) => Nowhere(K)'
        BY <1>1, <1>4, <2>1, NowhereReads
    <2> QED
        BY <2>2, <2>3, <2>4, <2>5 DEF K
<1>10. ReadyOnce' /\ \A u \in Up : Started(u) => Started(u)'
    BY <1>9 DEF ReadyOnce
<1>11. \A u \in Up : ~Started(u)' => ~Started(u) /\ u \notin ready'
    BY <1>4, <1>10 DEF CircleInv, StartsFirst
<1>12. \A p \in Up : Gone(p) => Gone(p)'
    BY <1>4, <1>10, GoneKept
<1>13. \A d \in Miner, q \in PoolSession : Bound(d, q)' => Bound(d, q)
    BY <1>7 DEF Bound
<1>14. \A p \in Up, d \in Miner : Late(p, d)' => Late(p, d)
    BY <1>4 DEF Late
<1>15. ASSUME NEW p \in Up, NEW d \in Miner, Leaving(p, d) \/ Behind(p, d)
       PROVE  Leaving(p, d)' \/ Behind(p, d)'
    <2>1. CASE Leaving(p, d)
        BY <1>4, <2>1 DEF Leaving
    <2>2. CASE Behind(p, d)
        BY <1>2, <1>3, <2>2, BehindAppended
    <2> QED
        BY <1>15, <2>1, <2>2
<1> QED
    BY <1>10, <1>11, <1>12, <1>13, <1>14, <1>15, CirclesKept

LEMMA EnvironmentCircles ==
    ASSUME BackInv, CircleInv, Environment
    PROVE  CircleInv'
<1> USE DEF EventConnBroken, EventRecvJSONRPC, EventRecvExMessage, EventSendFakeNotify
<1>1. ASSUME NEW u \in Up, PoolNotifies(u) PROVE CircleInv'
    <2>1. u \in Actor /\ Reads(u, EventRecvJSONRPC)
        BY <1>1, Parts DEF PoolNotifies, PoolSends
    <2> QED
        BY <2>1, ReadsCircles
<1>2. ASSUME NEW u \in Up, PoolSetsExtraNonce(u) PROVE CircleInv'
    <2>1. PICK d \in downSessions[u] : PoolSends(u, EventRecvExMessage(d))
        BY <1>2 DEF PoolSetsExtraNonce
    <2>2. u \in Actor /\ Reads(u, EventRecvExMessage(d))
        BY <2>1, Parts DEF PoolSends
    <2>3. d \in Miner
        BY Parts DEF BackInv, LoopTypes, CustodyTypeOK
    <2> DEFINE e == EventRecvExMessage(d)
    <2>4. e.type \notin {"AddDownSession", "SetUpSession", "UpSessionReady"}
        OBVIOUS
    <2>5. PICK f : f = e
        OBVIOUS
    <2>6. Reads(u, f) /\ f.type \notin {"AddDownSession", "SetUpSession", "UpSessionReady"}
        BY <2>2, <2>4, <2>5
    <2> QED
        BY <2>2, <2>6, ReadsCircles
<1>3. ASSUME NEW a \in Miner \cup Up, Breaks(a) PROVE CircleInv'
    <2>1. a \in Actor /\ Reads(a, EventConnBroken)
        BY <1>3, Parts DEF Breaks
    <2> QED
        BY <2>1, ReadsCircles
<1>4. ASSUME Ticks(TheFake) PROVE CircleInv'
    <2>1. TheFake \in Actor /\ Reads(TheFake, EventSendFakeNotify)
        BY <1>4, Parts DEF Ticks
    <2> QED
        BY <2>1, ReadsCircles
<1> QED
    BY <1>1, <1>2, <1>3, <1>4 DEF Environment

-----------------------------------------------------------------------------
(* Handlers and the order of the sessions.                                 *)

\* What any handler leaves as it was.
LEMMA HandlerFacts ==
    ASSUME BackInv, BackInv', CircleInv, NEW a, a \in Actor, NEW STATE s, todo[a] = <<>>, chan[a] # <<>>,
           Then(a, s)
    PROVE  /\ IsSequence(s) /\ \A i \in DOMAIN s : <<a, s[i]>> \in Plans
           /\ ReadyOnce'
           /\ \A u \in Up : Started(u) => Started(u)'
           /\ \A u \in Up : a = TheMgr /\ Head(chan[a]) = EventReady(u) => ~Started(u) /\ Started(u)'
           /\ \A p \in Up, d \in Miner : Leaving(p, d) => Leaving(p, d)'
           /\ \A p \in Up, d \in Miner :
                 Behind(p, d) /\ ~(a = TheMgr /\ Head(chan[a]) = EventBroken(p)) => Behind(p, d)'
           /\ \A x \in Actor \ {a} : todo'[x] = todo[x]
           /\ todo'[a] = s
<1>1. Mail(chan, spawned, Letters) /\ WithinCap /\ IsPlan(todo)
    BY DEF BackInv
<1>2. IsChan(chan) /\ IsABag(spawned)
    BY <1>1 DEF Mail
<1>3. chan' = Taken(chan, a) /\ spawned' = spawned
    BY DEF Then, Taken
<1>4. IsPlan(todo') /\ todo'[a] = s /\ \A x \in Actor \ {a} : todo'[x] = todo[x]
    <2>1. todo' = [todo EXCEPT ![a] = s] /\ DOMAIN todo = Actor
        BY <1>1 DEF Then, IsPlan, IsChan
    <2> QED
        BY <2>1 DEF BackInv
<1>9. IsSequence(s) /\ \A i \in DOMAIN s : <<a, s[i]>> \in Plans
    BY <1>4 DEF IsPlan, IsChan
<1>5. ASSUME NEW u \in Up
      PROVE  /\ AtMostOne(chan', spawned', ReadyLetter(u))
             /\ Started(u) => Started(u)'
             /\ a = TheMgr /\ Head(chan[a]) = EventReady(u) => ~Started(u) /\ Started(u)'
    <2> DEFINE K == ReadyLetter(u)
               L == PlannedIn(K)
    <2>1. AtMostOne(chan, spawned, K)
        BY DEF CircleInv, ReadyOnce
    <2>2. a = TheMgr /\ Head(chan[a]) = EventReady(u) => <<a, Head(chan[a])>> \in K
        BY DEF ReadyLetter
    <2>3. ~Waits(todo', L)
        <3> SUFFICES ASSUME Waits(todo', L) PROVE FALSE
            OBVIOUS
        <3>0. PICK x \in Actor : \E i \in DOMAIN todo'[x] : <<x, todo'[x][i]>> \in L
            BY DEF Waits
        <3>1. PICK i \in DOMAIN todo'[x] : <<x, todo'[x][i]>> \in L
            BY <3>0
        <3>2. <<x, todo'[x][i]>> \in Plans
            BY <1>4, <3>1 DEF IsPlan
        <3>3. PICK y : y = todo'[x][i]
            OBVIOUS
        <3>4. <<x, y>> \in Plans /\ <<x, y>> \in L
            BY <3>1, <3>2, <3>3
        <3>5. <<y.to, y.event>> \notin K
            BY <3>4, NoReadyPlan
        <3> QED
            BY <3>4, <3>5, PlannedIs
    <2>4. Started(u) <=> Nowhere(K)
        BY DEF Started
    <2>5. Started(u)' <=> Free(chan', spawned', K)
        BY <2>3 DEF Started, Nowhere
    <2> HIDE DEF K, L
    <2>6. /\ <<a, Head(chan[a])>> \notin K =>
                 /\ AtMostOne(chan', spawned', K)
                 /\ Free(chan', spawned', K) <=> Free(chan, spawned, K)
          /\ <<a, Head(chan[a])>> \in K => Free(chan', spawned', K) /\ ~Free(chan, spawned, K)
        BY <1>2, <1>3, <2>1, TakeEffect
    <2>7. AtMostOne(chan', spawned', K)
        <3>1. CASE <<a, Head(chan[a])>> \notin K
            BY <2>6, <3>1
        <3>2. CASE <<a, Head(chan[a])>> \in K
            <4>1. Free(chan', spawned', K)
                BY <2>6, <3>2
            <4> QED
                BY <4>1, FreeIsAtMostOne
        <3> QED
            BY <3>1, <3>2
    <2>8. Started(u) => Started(u)'
        BY <2>4, <2>5, <2>6 DEF Nowhere
    <2>9. a = TheMgr /\ Head(chan[a]) = EventReady(u) => ~Started(u) /\ Started(u)'
        BY <2>2, <2>4, <2>5, <2>6 DEF Nowhere
    <2> QED
        BY <2>7, <2>8, <2>9 DEF K
<1>6. ASSUME NEW p \in Up, NEW d \in Miner, Leaving(p, d) PROVE Leaving(p, d)'
    <2>1. p \in Actor
        BY Parts
    <2>2. p # a
        BY <1>6 DEF Leaving
    <2>3. todo'[p] = todo[p]
        BY <1>4, <2>1, <2>2
    <2> QED
        BY <1>6, <2>3 DEF Leaving
<1>7. ASSUME NEW p \in Up, NEW d \in Miner, Behind(p, d), ~(a = TheMgr /\ Head(chan[a]) = EventBroken(p))
      PROVE  Behind(p, d)'
    <2>1. CASE a = TheMgr
        <3>1. chan[TheMgr] # <<>> /\ chan' = Taken(chan, TheMgr) /\ Head(chan[TheMgr]) # EventBroken(p)
            BY <1>3, <1>7, <2>1
        <3> QED
            BY <1>2, <1>7, <3>1, BehindTaken
    <2>2. CASE a # TheMgr
        <3>1. chan'[TheMgr] = chan[TheMgr]
            BY <1>2, <1>3, <2>2, TakenChannel, Parts
        <3> QED
            BY <1>7, <3>1 DEF Behind
    <2> QED
        BY <2>1, <2>2
<1>8. ReadyOnce'
    BY <1>5 DEF ReadyOnce
<1> QED
    BY <1>4, <1>5, <1>6, <1>7, <1>8, <1>9

LEMMA ThenBound ==
    ASSUME BackInv, NEW a, a \in Actor, NEW STATE s, todo[a] = <<>>, chan[a] # <<>>, IsSequence(s), Then(a, s),
           NEW d, NEW q, \A i \in DOMAIN s : <<a, s[i]>> \notin PlannedIn(Between(d, q))
    PROVE  Bound(d, q)' => Bound(d, q)
<1> DEFINE K == Between(d, q)
<1>1. Mail(chan, spawned, Letters) /\ IsPlan(todo) /\ \A i \in DOMAIN s : <<a, s[i]>> \notin PlannedIn(K)
    BY DEF BackInv
<1>2. Nowhere(K) => Nowhere(K)'
    <2> HIDE DEF K
    <2> QED
        BY <1>1, NowhereThen
<1> QED
    BY <1>2 DEF Bound

\* The handlers that send nobody to anybody new and leave the manager's slots as
\* they are; a session that closes has nobody to greet.
LEMMA CalmCircles ==
    ASSUME BackInv, BackInv', CircleInv, NEW a, a \in Actor, NEW STATE s, todo[a] = <<>>, chan[a] # <<>>,
           Then(a, s),
           \A d \in Miner, q \in PoolSession : Bound(d, q)' => Bound(d, q),
           a = TheMgr => Head(chan[a]).type # "UpSessionBroken",
           ready' = ready, open \ {a} \subseteq open',
           a \in Up => a \in open' \/ \A i \in DOMAIN s, d \in Miner : s[i] # SendEvent(d, EventSendBytes)
    PROVE  CircleInv'
<1>1. /\ ReadyOnce'
      /\ \A u \in Up : Started(u) => Started(u)'
      /\ \A p \in Up, d \in Miner : Leaving(p, d) => Leaving(p, d)'
      /\ \A p \in Up, d \in Miner :
            Behind(p, d) /\ ~(a = TheMgr /\ Head(chan[a]) = EventBroken(p)) => Behind(p, d)'
      /\ \A x \in Actor \ {a} : todo'[x] = todo[x]
      /\ todo'[a] = s
    BY HandlerFacts
<1>3. ASSUME NEW p \in Up, NEW d \in Miner, Late(p, d)' PROVE Late(p, d)
    <2>1. PICK i \in DOMAIN todo'[p] : todo'[p][i] = SendEvent(d, EventSendBytes)
        BY <1>3 DEF Late
    <2>2. p \notin open'
        BY <1>3 DEF Late
    <2>3. p # a
        BY <1>1, <2>1, <2>2
    <2>4. todo'[p] = todo[p] /\ p \notin open
        BY <1>1, <2>2, <2>3, Parts
    <2> QED
        BY <2>1, <2>4 DEF Late
<1>4. ASSUME NEW p \in Up, NEW d \in Miner, Behind(p, d) PROVE Behind(p, d)'
    <2>1. ~(a = TheMgr /\ Head(chan[a]) = EventBroken(p))
        BY DEF EventBroken
    <2> QED
        BY <1>1, <1>4, <2>1
<1>5. \A u \in Up : ~Started(u)' => ~Started(u) /\ u \notin ready'
    BY <1>1 DEF CircleInv, StartsFirst
<1>6. \A p \in Up : Gone(p) => Gone(p)'
    BY <1>1, GoneKept
<1> QED
    BY <1>1, <1>3, <1>4, <1>5, <1>6, CirclesKept

-----------------------------------------------------------------------------
(* The pool sessions and the order of the sessions.                        *)

LEMMA NotBetween ==
    ASSUME NEW a, NEW s, <<a, s>> \in Plans, NEW d \in Miner, NEW q \in PoolSession,
           a \in PoolSession \/ s.event.type \notin {"AddDownSession", "SetUpSession"}
    PROVE  <<a, s>> \notin PlannedIn(Between(d, q))
<1>1. s.event.type \notin {"AddDownSession", "SetUpSession"} \/ s.to = TheMgr
    BY Parts DEF Plans, SendEvent, GoSendEvent, GivesBack, SaysGoodbye, EventUpdateFakeJob, EventSendBytes,
                 EventBroken, EventDownSessionBroken
<1>2. <<s.to, s.event>> \notin Between(d, q)
    BY <1>1, Parts DEF Between, EventAddDownSession, EventSetUpSession
<1> QED
    BY <1>2, PlannedIs

\* A handler of which no send passes a miner on but to the manager.
LEMMA QuietBound ==
    ASSUME BackInv, BackInv', CircleInv, NEW a, a \in Actor, NEW STATE s, todo[a] = <<>>, chan[a] # <<>>,
           Then(a, s),
           a \in PoolSession \/ \A i \in DOMAIN s : s[i].event.type \notin {"AddDownSession", "SetUpSession"}
    PROVE  \A d \in Miner, q \in PoolSession : Bound(d, q)' => Bound(d, q)
<1> SUFFICES ASSUME NEW d \in Miner, NEW q \in PoolSession PROVE Bound(d, q)' => Bound(d, q)
    OBVIOUS
<1>1. IsSequence(s) /\ \A i \in DOMAIN s : <<a, s[i]>> \in Plans
    BY HandlerFacts
<1>2. ASSUME NEW i \in DOMAIN s PROVE <<a, s[i]>> \notin PlannedIn(Between(d, q))
    <2>1. PICK x : x = s[i]
        OBVIOUS
    <2>2. /\ <<a, x>> \in Plans
          /\ a \in PoolSession \/ x.event.type \notin {"AddDownSession", "SetUpSession"}
        BY <1>1, <2>1
    <2>3. <<a, x>> \notin PlannedIn(Between(d, q))
        BY <2>2, NotBetween
    <2> QED
        BY <2>1, <2>3
<1> QED
    BY <1>1, <1>2, ThenBound

LEMMA QuietCircles ==
    ASSUME BackInv, BackInv', CircleInv, NEW a, a \in Actor, NEW STATE s, todo[a] = <<>>, chan[a] # <<>>,
           Then(a, s),
           a \in PoolSession \/ \A i \in DOMAIN s : s[i].event.type \notin {"AddDownSession", "SetUpSession"},
           a = TheMgr => Head(chan[a]).type # "UpSessionBroken",
           ready' = ready, open \ {a} \subseteq open',
           a \in Up => a \in open' \/ \A i \in DOMAIN s, d \in Miner : s[i] # SendEvent(d, EventSendBytes)
    PROVE  CircleInv'
<1>1. \A d \in Miner, q \in PoolSession : Bound(d, q)' => Bound(d, q)
    BY QuietBound
<1> QED
    BY <1>1, CalmCircles

\* A session that closes and has nobody to greet.
LEMMA ClosesCircles ==
    ASSUME BackInv, BackInv', CircleInv, NEW u \in Up, todo[u] = <<>>, chan[u] # <<>>,
           NEW STATE S, S \subseteq Miner, IsFiniteSet(S),
           Then(u, Closes(u, S)), open' = open \ {u}, ready' = ready
    PROVE  CircleInv'
<1> DEFINE s == Closes(u, S)
<1>1. Closing(u, S, {}, s)
    BY ClosesIs
<1>2. Then(u, s) /\ u \in Actor /\ u \in PoolSession /\ u # TheMgr
    BY Parts
<1> HIDE DEF s
<1>3. ASSUME NEW i \in DOMAIN s, NEW d \in Miner PROVE s[i] # SendEvent(d, EventSendBytes)
    <2>1. \/ s[i] \in {SendEvent(TheMgr, EventBroken(u)), SendEvent(TheMgr, EventUpdateFakeJob)}
          \/ \E c \in S : s[i] = GivesBack(c)
        BY <1>1 DEF Closing
    <2>2. \A c : GivesBack(c) # SendEvent(d, EventSendBytes)
        BY <1>2, GivesBackIs
    <2>3. SendEvent(d, EventSendBytes) \notin {SendEvent(TheMgr, EventBroken(u)), SendEvent(TheMgr, EventUpdateFakeJob)}
        BY ToManager
    <2> QED
        BY <2>1, <2>2, <2>3
<1> QED
    BY <1>2, <1>3, QuietCircles

\* A session that closes while it takes a miner on gives that miner back, too.
LEMMA UpRegisterFailsCircles ==
    ASSUME BackInv, BackInv', CircleInv, NEW p \in PoolSession, UpRegisterFails(p), ready' = ready
    PROVE  CircleInv'
<1> DEFINE h == Head(chan[p])
<1>1. Gets(p, "AddDownSession") /\ open' = open \ {p} /\ p \in Up /\ p \in Actor /\ p # TheMgr
    BY BreakAssumption, Parts DEF UpRegisterFails
<1>2. /\ todo[p] = <<>> /\ chan[p] # <<>> /\ h.type = "AddDownSession" /\ <<p, h>> \in Letters /\ LoopTypes
      /\ Mail(chan, spawned, Letters)
    BY <1>1, Received
<1> HIDE DEF h
<1>3. PICK d \in Miner : h = EventAddDownSession(d)
    BY <1>2, LetterIs
<1> DEFINE S == downSessions[p] \cup {d}
           s == Closes(p, S) \o Greets(p, d)
<1>4. Then(p, s)
    <2>1. h.session = d
        BY <1>3 DEF EventAddDownSession
    <2> QED
        BY <2>1 DEF UpRegisterFails, h
<1>5. IsFiniteSet(S)
    BY <1>2, FS_AddElement DEF LoopTypes
<1>6. Closing(p, S, {d}, s)
    <2> HIDE DEF S
    <2> QED
        BY <1>1, <1>5, ClosesIs, ClosesAndGreets
<1>7. d \in S
    OBVIOUS
<1> HIDE DEF S, s
<1>8. /\ IsSequence(s) /\ \A i \in DOMAIN s : <<p, s[i]>> \in Plans
      /\ ReadyOnce'
      /\ \A u \in Up : Started(u) => Started(u)'
      /\ \A q \in Up, c \in Miner : Leaving(q, c) => Leaving(q, c)'
      /\ \A q \in Up, c \in Miner :
            Behind(q, c) /\ ~(p = TheMgr /\ Head(chan[p]) = EventBroken(q)) => Behind(q, c)'
      /\ \A x \in Actor \ {p} : todo'[x] = todo[x]
      /\ todo'[p] = s
    BY <1>1, <1>2, <1>4, HandlerFacts DEF h
<1>9. Leaving(p, d)'
    BY <1>6, <1>7, <1>8 DEF Leaving, Closing
<1>10. Started(p)'
    <2> DEFINE K == Between(d, p)
    <2>1. <<p, Head(chan[p])>> \in K
        BY <1>3 DEF Between, h
    <2> HIDE DEF K
    <2>2. ~Nowhere(K)
        BY <1>1, <1>2, <2>1, HeadIsSomewhere
    <2>3. Bound(d, p)
        BY <2>2 DEF Bound, K
    <2>4. Started(p)
        BY <1>1, <2>3 DEF CircleInv, StartsFirst
    <2> QED
        BY <1>1, <1>8, <2>4
<1>11. ASSUME NEW q \in PoolSession PROVE ~Bound(d, q)'
    <2> DEFINE K == Passing(d)
               L == Intended(d)
    <2>1. PICK i \in DOMAIN s : s[i] = GivesBack(d)
        BY <1>6, <1>7 DEF Closing
    <2>2. <<p, GivesBack(d)>> \in Plans /\ GivesBack(d).event = EventAddDownSession(d) /\ GivesBack(d).to = TheMgr
        BY GivesBackIs DEF GivesBack, GoSendEvent
    <2>3. <<p, GivesBack(d)>> \in L
        BY <2>2, IntendedIs, PassingIs
    <2>4. i \in DOMAIN todo'[p] /\ <<p, todo'[p][i]>> \in L /\ todo'[p][i] = GivesBack(d)
        BY <1>8, <2>1, <2>3
    <2>5. Between(d, q) \subseteq K
        BY DEF Between, Passing
    <2>6. OneHand(d)'
        BY DEF BackInv
    <2>7. IsPlan(todo')
        BY DEF BackInv
    <2> HIDE DEF K, L
    <2>8. Free(chan', spawned', K) /\ WaitsOnce(todo', L)
        <3>1. Waits(todo', L)
            BY <1>1, <2>4 DEF Waits
        <3> QED
            BY <2>6, <3>1 DEF OneHand, K, L
    <2>9. Free(chan', spawned', Between(d, q))
        BY <2>5, <2>8 DEF Free, Waits, Pends
    <2>10. ASSUME Waits(todo', PlannedIn(Between(d, q))) PROVE FALSE
        <3>1. PICK x \in Actor : \E j \in DOMAIN todo'[x] : <<x, todo'[x][j]>> \in PlannedIn(Between(d, q))
            BY <2>10 DEF Waits
        <3>2. PICK j \in DOMAIN todo'[x] : <<x, todo'[x][j]>> \in PlannedIn(Between(d, q))
            BY <3>1
        <3>3. PICK y : y = todo'[x][j]
            OBVIOUS
        <3>4. <<x, y>> \in Plans /\ <<y.to, y.event>> \in Between(d, q)
            BY <3>2, <3>3 DEF PlannedIn
        <3>5. <<x, y>> \in L
            BY <2>5, <3>4, IntendedIs DEF L, K
        <3>6. x = p /\ j = i
            BY <1>1, <2>4, <2>8, <3>2, <3>3, <3>5 DEF WaitsOnce
        <3>7. y = GivesBack(d)
            BY <2>4, <3>3, <3>6
        <3>8. <<TheMgr, EventAddDownSession(d)>> \in Between(d, q)
            BY <2>2, <3>4, <3>7
        <3> QED
            BY <3>8, Parts DEF Between
    <2> QED
        BY <2>9, <2>10 DEF Bound, Nowhere
<1>12. ASSUME NEW c \in Miner, NEW q \in PoolSession PROVE Bound(c, q)' => Bound(c, q)
    <2>1. ASSUME NEW i \in DOMAIN s PROVE <<p, s[i]>> \notin PlannedIn(Between(c, q))
        <3>1. PICK x : x = s[i]
            OBVIOUS
        <3>2. <<p, x>> \in Plans
            BY <1>8, <3>1
        <3>3. <<p, x>> \notin PlannedIn(Between(c, q))
            BY <3>2, NotBetween
        <3> QED
            BY <3>1, <3>3
    <2> QED
        BY <1>1, <1>2, <1>4, <1>8, <2>1, ThenBound
<1>13. ASSUME NEW q \in Up, NEW c \in Miner, Late(q, c)', ~Late(q, c)
       PROVE  Started(q)' /\ Leaving(q, c)' /\ \A r \in PoolSession : ~Bound(c, r)'
    <2>1. PICK i \in DOMAIN todo'[q] : todo'[q][i] = SendEvent(c, EventSendBytes)
        BY <1>13 DEF Late
    <2>2. q \notin open'
        BY <1>13 DEF Late
    <2>3. q = p
        <3>1. ASSUME q # p PROVE FALSE
            <4>1. todo'[q] = todo[q] /\ q \notin open
                BY <1>1, <1>8, <2>2, <3>1, Parts
            <4> QED
                BY <1>13, <2>1, <4>1 DEF Late
        <3> QED
            BY <3>1
    <2>4. s[i] = SendEvent(c, EventSendBytes) /\ i \in DOMAIN s
        BY <1>8, <2>1, <2>3
    <2>5. \/ s[i] \in {SendEvent(TheMgr, EventBroken(p)), SendEvent(TheMgr, EventUpdateFakeJob)}
          \/ \E b \in S : s[i] = GivesBack(b)
          \/ s[i] = SendEvent(d, EventSendBytes)
        BY <1>6, <2>4 DEF Closing
    <2>6. /\ \A b : GivesBack(b) # SendEvent(c, EventSendBytes)
          /\ SendEvent(c, EventSendBytes) \notin {SendEvent(TheMgr, EventBroken(p)), SendEvent(TheMgr, EventUpdateFakeJob)}
        BY <1>1, GivesBackIs, ToManager
    <2>7. SendEvent(c, EventSendBytes) = SendEvent(d, EventSendBytes)
        BY <2>4, <2>5, <2>6
    <2>8. c = d
        BY <2>7 DEF SendEvent
    <2> QED
        BY <1>9, <1>10, <1>11, <2>3, <2>8
<1>14. \A u \in Up : ~Started(u)' => ~Started(u) /\ u \notin ready'
    BY <1>8 DEF CircleInv, StartsFirst
<1>15. \A q \in Up : Gone(q) => Gone(q)'
    BY <1>8, GoneKept
<1>16. \A q \in Up, c \in Miner : Leaving(q, c) \/ Behind(q, c) => Leaving(q, c)' \/ Behind(q, c)'
    BY <1>1, <1>8
<1> QED
    BY <1>8, <1>12, <1>13, <1>14, <1>15, <1>16, CirclesKept

LEMMA UpRunsCircles ==
    ASSUME BackInv, BackInv', CircleInv, NEW p \in PoolSession, UpRuns(p)
    PROVE  CircleInv'
<1>1. p \in open /\ ready' = ready /\ p \in Actor /\ p # TheMgr
    BY Parts DEF UpRuns
<1>2. ASSUME NEW STATE s, NEW t, Gets(p, t), Then(p, s), open' = open PROVE CircleInv'
    <2>1. todo[p] = <<>> /\ chan[p] # <<>>
        BY <1>2 DEF Gets, Receives
    <2> QED
        BY <1>1, <1>2, <2>1, QuietCircles
<1>3. CASE UpAddDownSession(p)
    BY <1>2, <1>3 DEF UpAddDownSession
<1>4. CASE UpDownSessionBroken(p)
    BY <1>2, <1>4 DEF UpDownSessionBroken
<1>5. CASE SendsJob(p)
    BY <1>2, <1>5 DEF SendsJob
<1>6. CASE TransfersDownSessions(p)
    BY <1>2, <1>6 DEF TransfersDownSessions
<1>7. CASE FakeUpdateJob(p)
    BY <1>2, <1>7 DEF FakeUpdateJob
<1>8. CASE UpSetExtraNonce(p)
    <2> DEFINE d == Head(chan[p]).session
    <2>1. Gets(p, "RecvExMessage") /\ open' = open
        BY <1>8 DEF UpSetExtraNonce
    <2>2. CASE Then(p, <<>>)
        BY <1>2, <2>1, <2>2
    <2>3. ASSUME NEW n \in 1 .. 2, Then(p, [i \in 1 .. n |-> SendEvent(d, EventSendBytes)]) PROVE CircleInv'
        BY <1>2, <2>1, <2>3
    <2> QED
        BY <1>8, <2>2, <2>3 DEF UpSetExtraNonce
<1>9. LoopTypes
    BY DEF BackInv
<1>10. downSessions[p] \subseteq Miner /\ IsFiniteSet(downSessions[p])
    BY <1>9 DEF LoopTypes, CustodyTypeOK
<1>11. CASE UpConnBroken(p)
    <2>1. Gets(p, "ConnBroken") /\ Then(p, Closes(p, downSessions[p])) /\ open' = open \ {p}
        BY <1>11 DEF UpConnBroken
    <2>2. todo[p] = <<>> /\ chan[p] # <<>> /\ Head(chan[p]).type = "ConnBroken" /\ <<p, Head(chan[p])>> \in Letters
        BY <1>1, <2>1, Received
    <2>3. p \in Up
        BY <2>2, BrokenIs, Parts
    <2> QED
        BY <1>1, <1>10, <2>1, <2>2, <2>3, ClosesCircles
<1>12. CASE UpUnregisterFails(p)
    <2> DEFINE id == Head(chan[p]).sessionID
               S == downSessions[p] \ {id}
    <2>1. Gets(p, "DownSessionBroken") /\ Then(p, Closes(p, S)) /\ open' = open \ {p} /\ p \in Up
        BY <1>12, BreakAssumption DEF UpUnregisterFails
    <2>2. todo[p] = <<>> /\ chan[p] # <<>>
        BY <2>1 DEF Gets, Receives
    <2>3. S \subseteq Miner /\ IsFiniteSet(S)
        BY <1>10, FS_Subset
    <2> HIDE DEF S
    <2> QED
        BY <1>1, <2>1, <2>2, <2>3, ClosesCircles
<1>13. CASE UpRegisterFails(p)
    BY <1>1, <1>13, UpRegisterFailsCircles
<1> QED
    BY <1>3, <1>4, <1>5, <1>6, <1>7, <1>8, <1>11, <1>12, <1>13 DEF UpRuns

-----------------------------------------------------------------------------
(* The manager, the miners and the order of the sessions.                  *)

\* The session that the manager sends a miner to is not one of those whose
\* miners are on their way to others.
LEMMA MgrAddDownSessionCircles ==
    ASSUME BackInv, BackInv', CircleInv, MgrAddDownSession(TheMgr), UNCHANGED open
    PROVE  CircleInv'
<1> DEFINE m == TheMgr
           h == Head(chan[m])
<1>0. m \in Actor /\ m \notin PoolSession /\ TheFake = Fake(m) /\ TheFake \in PoolSession /\ TheFake \notin Up
    BY Parts DEF TheFake
<1>1. Gets(m, "AddDownSession") /\ ready' = ready
    BY DEF MgrAddDownSession
<1>2. /\ todo[m] = <<>> /\ chan[m] # <<>> /\ h.type = "AddDownSession" /\ <<m, h>> \in Letters /\ LoopTypes
      /\ IsChan(chan) /\ Mail(chan, spawned, Letters)
    BY <1>0, <1>1, Received
<1>3. PICK q0 \in IF ready = {} THEN {Fake(m)} ELSE ready : Then(m, <<SendEvent(h.session, EventSetUpSession(q0))>>)
    BY DEF MgrAddDownSession
<1>4. q0 \in PoolSession /\ (q0 \in Up => q0 \in ready)
    BY <1>0, <1>2, Parts DEF LoopTypes
<1> HIDE DEF h
<1>5. PICK d \in Miner : h = EventAddDownSession(d)
    BY <1>2, LetterIs
<1> DEFINE x == SendEvent(d, EventSetUpSession(q0))
           s == <<x>>
<1>6. Then(m, s) /\ x.to = d /\ x.event = EventSetUpSession(q0)
    BY <1>3, <1>5 DEF EventAddDownSession, SendEvent
<1> HIDE DEF x
<1>7. IsSequence(s) /\ DOMAIN s = {1} /\ s[1] = x
    BY OneSend
<1> HIDE DEF s
<1>8. /\ \A i \in DOMAIN s : <<m, s[i]>> \in Plans
      /\ ReadyOnce'
      /\ \A u \in Up : Started(u) => Started(u)'
      /\ \A p \in Up, c \in Miner : Leaving(p, c) => Leaving(p, c)'
      /\ \A p \in Up, c \in Miner :
            Behind(p, c) /\ ~(m = TheMgr /\ Head(chan[m]) = EventBroken(p)) => Behind(p, c)'
      /\ \A y \in Actor \ {m} : todo'[y] = todo[y]
    BY <1>0, <1>2, <1>6, HandlerFacts
<1>9. ASSUME NEW c \in Miner, NEW q \in PoolSession, Bound(c, q)', ~(c = d /\ q = q0) PROVE Bound(c, q)
    <2>1. <<d, EventSetUpSession(q0)>> \notin Between(c, q)
        BY <1>9 DEF Between, EventSetUpSession, EventAddDownSession
    <2>2. <<m, x>> \in Plans
        BY <1>7, <1>8
    <2>3. <<m, x>> \notin PlannedIn(Between(c, q))
        BY <1>6, <2>1, <2>2, PlannedIs
    <2>4. \A i \in DOMAIN s : <<m, s[i]>> \notin PlannedIn(Between(c, q))
        BY <1>7, <2>3
    <2> QED
        BY <1>0, <1>2, <1>6, <1>7, <1>9, <2>4, ThenBound
<1>10. ASSUME NEW p \in Up PROVE ~Leaving(p, d) /\ ~Behind(p, d)
    <2>1. ~Behind(p, d)
        BY <1>2, <1>5, HeadIsNotBehind DEF h
    <2>2. ASSUME Leaving(p, d) PROVE FALSE
        <3>1. Free(chan, spawned, Passing(d))
            BY <2>2, LeavingHasHand
        <3>2. 1 \in DOMAIN chan[m] /\ chan[m][1] = h
            BY <1>0, <1>2, TakenChannel DEF h
        <3>3. <<m, h>> \in Passing(d)
            BY <1>5 DEF Passing
        <3> QED
            BY <1>0, <3>1, <3>2, <3>3 DEF Free, Waits
    <2> QED
        BY <2>1, <2>2
<1>11. ASSUME NEW p \in Up, NEW c \in Miner, Late(p, c)' PROVE Late(p, c)
    <2>1. p \in Actor /\ p # m
        BY Parts
    <2>2. todo'[p] = todo[p]
        BY <1>8, <2>1
    <2> QED
        BY <1>11, <2>2 DEF Late
<1>12. \A p \in Up : Gone(p) => Gone(p)'
    BY <1>1, <1>8, GoneKept
<1>13. \A p \in Up, c \in Miner : Leaving(p, c) \/ Behind(p, c) => Leaving(p, c)' \/ Behind(p, c)'
    <2>1. \A p : Head(chan[m]) # EventBroken(p)
        BY <1>5 DEF h, EventBroken, EventAddDownSession
    <2> QED
        BY <1>8, <2>1
<1>14. \A p \in Up, c \in Miner : Late(p, c) =>
          Gone(p) \/ ((\A q \in PoolSession : ~Bound(c, q)) /\ (Leaving(p, c) \/ Behind(p, c)))
    BY DEF CircleInv, TellsFirst
<1>15. TellsFirst'
    <2> SUFFICES ASSUME NEW p \in Up, NEW c \in Miner, Late(p, c)', ~Gone(p)'
                 PROVE  (\A q \in PoolSession : ~Bound(c, q)') /\ (Leaving(p, c)' \/ Behind(p, c)')
        BY DEF TellsFirst
    <2>1. (\A q \in PoolSession : ~Bound(c, q)) /\ (Leaving(p, c) \/ Behind(p, c))
        BY <1>11, <1>12, <1>14
    <2>2. c # d
        BY <1>10, <2>1
    <2>3. \A q \in PoolSession : ~Bound(c, q)'
        BY <1>9, <2>1, <2>2
    <2> QED
        BY <1>13, <2>1, <2>3
<1>16. StartsFirst'
    <2> SUFFICES ASSUME NEW u \in Up, ~Started(u)'
                 PROVE  u \notin ready' /\ \A c \in Miner : ~Bound(c, u)' /\ ~Late(u, c)'
        BY DEF StartsFirst
    <2>1. u \notin ready /\ \A c \in Miner : ~Bound(c, u) /\ ~Late(u, c)
        BY <1>8 DEF CircleInv, StartsFirst
    <2>2. u # q0 /\ u \in PoolSession
        BY <1>4, <2>1, Parts
    <2>3. ASSUME NEW c \in Miner PROVE ~Bound(c, u)' /\ ~Late(u, c)'
        BY <1>9, <1>11, <2>1, <2>2
    <2> QED
        BY <1>1, <2>1, <2>3
<1>17. ASSUME NEW p \in Up, NEW q \in Up, LeadsTo(p, q)' PROVE p # q0 /\ (LeadsTo(p, q) \/ q = q0)
    <2>1. PICK c \in Miner : Late(p, c)' /\ Bound(c, q)'
        BY <1>17 DEF LeadsTo
    <2>2. q \in PoolSession
        BY Parts
    <2>3. Late(p, c)
        BY <1>11, <2>1
    <2>4. LeadsTo(p, q) \/ q = q0
        BY <1>9, <2>1, <2>2, <2>3 DEF LeadsTo
    <2>5. ASSUME p = q0 PROVE FALSE
        <3>1. ~Gone(p)
            BY <1>4, <2>5 DEF Gone
        <3>2. (\A r \in PoolSession : ~Bound(c, r)) /\ (Leaving(p, c) \/ Behind(p, c))
            BY <1>14, <2>3, <3>1
        <3>3. c # d
            BY <1>10, <3>2
        <3> QED
            BY <1>9, <2>1, <2>2, <3>2, <3>3
    <2> QED
        BY <2>4, <2>5
<1>18. NoCircle'
    <2>1. ASSUME NEW S \in SUBSET Up, S # {} PROVE \E p \in S : \A q \in S : ~LeadsTo(p, q)'
        <3>1. CASE q0 \in S
            <4>1. \A q \in S : ~LeadsTo(q0, q)'
                BY <1>17, <3>1
            <4> QED
                BY <3>1, <4>1
        <3>2. CASE q0 \notin S
            <4>1. PICK p \in S : \A q \in S : ~LeadsTo(p, q)
                BY <2>1 DEF CircleInv, NoCircle
            <4>2. \A q \in S : ~LeadsTo(p, q)'
                BY <1>17, <3>2, <4>1
            <4> QED
                BY <4>2
        <3> QED
            BY <3>1, <3>2
    <2> QED
        BY <2>1 DEF NoCircle
<1> QED
    BY <1>8, <1>15, <1>16, <1>18 DEF CircleInv

LEMMA OneQuietSend ==
    ASSUME NEW x, x.event.type \notin {"AddDownSession", "SetUpSession"}
    PROVE  \A i \in DOMAIN <<x>> : <<x>>[i].event.type \notin {"AddDownSession", "SetUpSession"}
<1>1. DOMAIN <<x>> = {1} /\ <<x>>[1] = x
    BY OneSend
<1> QED
    BY <1>1

\* The manager hears of a session for the first time.
LEMMA MgrUpSessionReadyCircles ==
    ASSUME BackInv, BackInv', CircleInv, MgrUpSessionReady(TheMgr), UNCHANGED open
    PROVE  CircleInv'
<1> DEFINE m == TheMgr
           x == SendEvent(Fake(TheMgr), EventTransferDownSessions)
           s == <<x>>
<1>0. m \in Actor
    BY Parts
<1>1. Gets(m, "UpSessionReady") /\ ready' = ready \cup {Head(chan[m]).session} /\ Then(m, s)
    BY DEF MgrUpSessionReady
<1>2. /\ todo[m] = <<>> /\ chan[m] # <<>> /\ Head(chan[m]).type = "UpSessionReady" /\ <<m, Head(chan[m])>> \in Letters
    BY <1>0, <1>1, Received
<1>3. PICK u \in Up : Head(chan[m]) = EventReady(u)
    BY <1>2, LetterIs
<1>4. ready' = ready \cup {u}
    BY <1>1, <1>3 DEF EventReady
<1>5. \A i \in DOMAIN s : s[i].event.type \notin {"AddDownSession", "SetUpSession"}
    <2>1. x.event.type \notin {"AddDownSession", "SetUpSession"}
        BY DEF SendEvent, EventTransferDownSessions
    <2> HIDE DEF x
    <2> QED
        BY <2>1, OneQuietSend
<1> HIDE DEF s
<1>6. /\ ReadyOnce'
      /\ \A w \in Up : Started(w) => Started(w)'
      /\ \A w \in Up : m = TheMgr /\ Head(chan[m]) = EventReady(w) => ~Started(w) /\ Started(w)'
      /\ \A p \in Up, d \in Miner : Leaving(p, d) => Leaving(p, d)'
      /\ \A p \in Up, d \in Miner :
            Behind(p, d) /\ ~(m = TheMgr /\ Head(chan[m]) = EventBroken(p)) => Behind(p, d)'
      /\ \A y \in Actor \ {m} : todo'[y] = todo[y]
    BY <1>0, <1>1, <1>2, HandlerFacts
<1>7. ~Started(u) /\ Started(u)'
    BY <1>3, <1>6
<1>8. \A d \in Miner, q \in PoolSession : Bound(d, q)' => Bound(d, q)
    BY <1>0, <1>1, <1>2, <1>5, QuietBound
<1>9. ASSUME NEW p \in Up, NEW c \in Miner, Late(p, c)' PROVE Late(p, c)
    <2>1. p \in Actor /\ p # m
        BY Parts
    <2>2. todo'[p] = todo[p]
        BY <1>6, <2>1
    <2> QED
        BY <1>9, <2>2 DEF Late
<1>10. ASSUME NEW w \in Up, ~Started(w)' PROVE ~Started(w) /\ w \notin ready'
    <2>1. ~Started(w) /\ w # u
        BY <1>6, <1>7, <1>10
    <2>2. w \notin ready
        BY <2>1 DEF CircleInv, StartsFirst
    <2> QED
        BY <1>4, <2>1, <2>2
<1>11. ASSUME NEW p \in Up, Gone(p) PROVE Gone(p)'
    <2>1. Started(p) /\ p \notin ready
        BY <1>11 DEF Gone
    <2>2. p # u
        BY <1>7, <2>1
    <2>3. Started(p)' /\ p \notin ready'
        BY <1>4, <1>6, <2>1, <2>2
    <2> QED
        BY <2>3 DEF Gone
<1>12. \A p \in Up, c \in Miner : Leaving(p, c) \/ Behind(p, c) => Leaving(p, c)' \/ Behind(p, c)'
    <2>1. \A p : Head(chan[m]) # EventBroken(p)
        BY <1>3 DEF EventBroken, EventReady
    <2> QED
        BY <1>6, <2>1
<1> QED
    BY <1>6, <1>8, <1>9, <1>10, <1>11, <1>12, CirclesKept

\* The manager hears of a session's end.
LEMMA MgrUpSessionBrokenCircles ==
    ASSUME BackInv, BackInv', CircleInv, MgrUpSessionBroken(TheMgr), UNCHANGED open
    PROVE  CircleInv'
<1> DEFINE m == TheMgr
           s == <<>>
<1>0. m \in Actor
    BY Parts
<1>1. Gets(m, "UpSessionBroken") /\ ready' = ready \ {Head(chan[m]).session} /\ Then(m, s)
    BY DEF MgrUpSessionBroken
<1>2. todo[m] = <<>> /\ chan[m] # <<>>
    BY <1>1 DEF Gets, Receives
<1>3. \A i \in DOMAIN s : s[i].event.type \notin {"AddDownSession", "SetUpSession"}
    OBVIOUS
<1> HIDE DEF s
<1>6. /\ ReadyOnce'
      /\ \A w \in Up : Started(w) => Started(w)'
      /\ \A p \in Up, d \in Miner : Leaving(p, d) => Leaving(p, d)'
      /\ \A p \in Up, d \in Miner :
            Behind(p, d) /\ ~(m = TheMgr /\ Head(chan[m]) = EventBroken(p)) => Behind(p, d)'
      /\ \A y \in Actor \ {m} : todo'[y] = todo[y]
    BY <1>0, <1>1, <1>2, HandlerFacts
<1>8. \A d \in Miner, q \in PoolSession : Bound(d, q)' => Bound(d, q)
    BY <1>0, <1>1, <1>2, <1>3, QuietBound
<1>9. ASSUME NEW p \in Up, NEW c \in Miner, Late(p, c)' PROVE Late(p, c)
    <2>1. p \in Actor /\ p # m
        BY Parts
    <2>2. todo'[p] = todo[p]
        BY <1>6, <2>1
    <2> QED
        BY <1>9, <2>2 DEF Late
<1>10. \A w \in Up : ~Started(w)' => ~Started(w) /\ w \notin ready'
    BY <1>1, <1>6 DEF CircleInv, StartsFirst
<1>11. \A p \in Up : Gone(p) => Gone(p)'
    BY <1>1, <1>6 DEF Gone
<1>12. ASSUME NEW p \in Up, NEW c \in Miner, Late(p, c), Leaving(p, c) \/ Behind(p, c)
       PROVE  Gone(p)' \/ Leaving(p, c)' \/ Behind(p, c)'
    <2>1. CASE Head(chan[m]) = EventBroken(p)
        <3>1. Started(p)
            BY <1>12 DEF CircleInv, StartsFirst
        <3>2. Started(p)' /\ p \notin ready'
            BY <1>1, <1>6, <2>1, <3>1 DEF EventBroken
        <3> QED
            BY <3>2 DEF Gone
    <2>2. CASE Head(chan[m]) # EventBroken(p)
        BY <1>6, <1>12, <2>2
    <2> QED
        BY <2>1, <2>2
<1> QED
    BY <1>6, <1>8, <1>9, <1>10, <1>11, <1>12, CirclesKept

LEMMA MgrRunsCircles ==
    ASSUME BackInv, BackInv', CircleInv, MgrRuns(TheMgr)
    PROVE  CircleInv'
<1>1. UNCHANGED open
    BY DEF MgrRuns, custodyVars
<1>2. CASE MgrAddDownSession(TheMgr)
    BY <1>1, <1>2, MgrAddDownSessionCircles
<1>3. CASE MgrUpSessionReady(TheMgr)
    BY <1>1, <1>3, MgrUpSessionReadyCircles
<1>4. CASE MgrUpSessionBroken(TheMgr)
    BY <1>1, <1>4, MgrUpSessionBrokenCircles
<1>5. CASE MgrUpdateFakeJob(TheMgr)
    <2> DEFINE x == SendEvent(Fake(TheMgr), EventUpdateFakeJob)
               s == <<x>>
    <2>1. Gets(TheMgr, "UpdateFakeJob") /\ Then(TheMgr, s) /\ ready' = ready
        BY <1>5 DEF MgrUpdateFakeJob
    <2>2. todo[TheMgr] = <<>> /\ chan[TheMgr] # <<>> /\ Head(chan[TheMgr]).type = "UpdateFakeJob"
        BY <2>1 DEF Gets, Receives
    <2>3. \A i \in DOMAIN s : s[i].event.type \notin {"AddDownSession", "SetUpSession"}
        <3>1. x.event.type \notin {"AddDownSession", "SetUpSession"}
            BY DEF SendEvent, EventUpdateFakeJob
        <3> HIDE DEF x
        <3> QED
            BY <3>1, OneQuietSend
    <2>4. TheMgr \in Actor /\ TheMgr \notin Up
        BY Parts
    <2> HIDE DEF s
    <2> QED
        BY <1>1, <2>1, <2>2, <2>3, <2>4, QuietCircles
<1> QED
    BY <1>2, <1>3, <1>4, <1>5 DEF MgrRuns

LEMMA DownRunsCircles ==
    ASSUME BackInv, BackInv', CircleInv, NEW d \in Miner, DownRuns(d)
    PROVE  CircleInv'
<1>1. UNCHANGED <<open, ready>> /\ d \in Actor /\ d # TheMgr /\ d \notin Up
    BY Parts DEF DownRuns
<1>2. CASE DownSetUpSession(d)
    <2> DEFINE h == Head(chan[d])
    <2>1. Gets(d, "SetUpSession")
        BY <1>2 DEF DownSetUpSession
    <2>2. /\ todo[d] = <<>> /\ chan[d] # <<>> /\ h.type = "SetUpSession" /\ <<d, h>> \in Letters
          /\ Mail(chan, spawned, Letters)
        BY <1>1, <2>1, Received
    <2> HIDE DEF h
    <2>3. PICK p \in PoolSession : h = EventSetUpSession(p)
        BY <2>2, LetterIs
    <2> DEFINE x == SendEvent(p, EventAddDownSession(d))
               s == <<x>>
    <2>4. Then(d, s) /\ x.to = p /\ x.event = EventAddDownSession(d)
        <3>1. h.session = p
            BY <2>3 DEF EventSetUpSession
        <3> QED
            BY <1>2, <3>1 DEF DownSetUpSession, h, SendEvent
    <2> HIDE DEF x
    <2>5. IsSequence(s) /\ DOMAIN s = {1} /\ s[1] = x
        BY OneSend
    <2> HIDE DEF s
    <2>6. \A i \in DOMAIN s : <<d, s[i]>> \in Plans
        BY <1>1, <2>2, <2>4, HandlerFacts DEF h
    <2>7. Bound(d, p)
        <3> DEFINE K == Between(d, p)
        <3>1. <<d, Head(chan[d])>> \in K
            BY <2>3 DEF Between, h
        <3> HIDE DEF K
        <3>2. ~Nowhere(K)
            BY <1>1, <2>2, <3>1, HeadIsSomewhere
        <3> QED
            BY <3>2 DEF Bound, K
    <2>8. ASSUME NEW c \in Miner, NEW q \in PoolSession, Bound(c, q)' PROVE Bound(c, q)
        <3>1. CASE c = d /\ q = p
            BY <2>7, <3>1
        <3>2. CASE ~(c = d /\ q = p)
            <4>1. <<p, EventAddDownSession(d)>> \notin Between(c, q)
                BY <3>2, Parts DEF Between, EventSetUpSession, EventAddDownSession
            <4>2. <<d, x>> \in Plans
                BY <2>5, <2>6
            <4>3. <<d, x>> \notin PlannedIn(Between(c, q))
                BY <2>4, <4>1, <4>2, PlannedIs
            <4>4. \A i \in DOMAIN s : <<d, s[i]>> \notin PlannedIn(Between(c, q))
                BY <2>5, <4>3
            <4> QED
                BY <1>1, <2>2, <2>4, <2>5, <2>8, <4>4, ThenBound
        <3> QED
            BY <3>1, <3>2
    <2> QED
        BY <1>1, <2>2, <2>4, <2>8, CalmCircles
<1>3. ASSUME NEW STATE s, NEW t, Gets(d, t), Then(d, s),
             \A i \in DOMAIN s : s[i].event.type \notin {"AddDownSession", "SetUpSession"}
      PROVE  CircleInv'
    <2>1. todo[d] = <<>> /\ chan[d] # <<>>
        BY <1>3 DEF Gets, Receives
    <2> QED
        BY <1>1, <1>3, <2>1, QuietCircles
<1>4. CASE Writes(d)
    <2> DEFINE s == <<>>
    <2>1. Gets(d, "SendBytes") /\ Then(d, s) /\ DOMAIN s = {}
        BY <1>4 DEF Writes
    <2> HIDE DEF s
    <2> QED
        BY <1>3, <2>1
<1>5. CASE DownConnBroken(d)
    <2> DEFINE x == SaysGoodbye(upSession[d], d)
               s == IF upSession[d] = None THEN <<>> ELSE <<x>>
    <2>1. Gets(d, "ConnBroken") /\ Then(d, s)
        BY <1>5 DEF DownConnBroken
    <2>2. x.event.type \notin {"AddDownSession", "SetUpSession"}
        BY DEF SaysGoodbye, GoSendEvent, EventDownSessionBroken
    <2> HIDE DEF x
    <2>3. \A i \in DOMAIN s : s[i] = x
        BY OneSend
    <2> HIDE DEF s
    <2> QED
        BY <1>3, <2>1, <2>2, <2>3
<1> QED
    BY <1>2, <1>4, <1>5 DEF DownRuns

LEMMA CirclesInitially == BackInit => CircleInv
<1> SUFFICES ASSUME BackInit PROVE CircleInv
    OBVIOUS
<1> DEFINE P == {<<TheMgr, EventAddDownSession(d)>> : d \in Miner} \cup {<<TheMgr, EventReady(u)>> : u \in Up}
<1>1. /\ chan = [a \in Actor |-> <<>>] /\ spawned = SetToBag(P) /\ todo = [a \in Actor |-> <<>>]
      /\ open = Up \cup {TheFake} /\ ready = {}
    BY DEF BackInit
<1>2. DOMAIN spawned = P /\ \A m \in P : spawned[m] = 1
    BY <1>1 DEF SetToBag
<1>3. \A a \in Actor : DOMAIN chan[a] = {} /\ DOMAIN todo[a] = {}
    BY <1>1
<1>4. \A K : ~Waits(chan, K) /\ WaitsOnce(chan, K) /\ ~Waits(todo, PlannedIn(K))
    BY <1>3 DEF Waits, WaitsOnce
<1>5. ReadyOnce
    <2> SUFFICES ASSUME NEW u \in Up PROVE AtMostOne(chan, spawned, ReadyLetter(u))
        BY DEF ReadyOnce
    <2>1. PendsOnce(spawned, ReadyLetter(u))
        BY <1>2 DEF PendsOnce, ReadyLetter
    <2> QED
        BY <1>4, <2>1 DEF AtMostOne
<1>6. \A p \in Up, d \in Miner : ~Late(p, d)
    BY <1>1 DEF Late
<1>7. ASSUME NEW d \in Miner, NEW q \in PoolSession PROVE ~Bound(d, q)
    <2>1. \A m \in P : m \notin Between(d, q)
        BY Parts DEF Between, EventSetUpSession, EventAddDownSession, EventReady
    <2>2. ~Pends(spawned, Between(d, q))
        BY <1>2, <2>1 DEF Pends
    <2> QED
        BY <1>4, <2>2 DEF Bound, Nowhere, Free
<1>8. StartsFirst
    <2>1. \A u \in Up : u \in PoolSession /\ u \notin ready
        BY <1>1, Parts
    <2> QED
        BY <1>6, <1>7, <2>1 DEF StartsFirst
<1>9. TellsFirst
    BY <1>6 DEF TellsFirst
<1>10. NoCircle
    BY <1>6 DEF NoCircle, LeadsTo
<1> QED
    BY <1>5, <1>8, <1>9, <1>10 DEF CircleInv

LEMMA CirclesStutter ==
    ASSUME CircleInv, UNCHANGED backVars
    PROVE  CircleInv'
<1>1. UNCHANGED <<chan, spawned, open, todo, ready>>
    BY DEF backVars, mailVars, custodyVars, loopVars
<1>2. \A K : Nowhere(K)' <=> Nowhere(K)
    BY <1>1 DEF Nowhere
<1>3. ReadyOnce'
    BY <1>1 DEF CircleInv, ReadyOnce
<1>4. \A u \in Up : Started(u)' <=> Started(u)
    BY <1>2 DEF Started
<1>5. \A u \in Up : ~Started(u)' => ~Started(u) /\ u \notin ready'
    BY <1>1, <1>4 DEF CircleInv, StartsFirst
<1>6. \A p \in Up : Gone(p) => Gone(p)'
    BY <1>1, <1>4, GoneKept
<1>7. \A d \in Miner, q \in PoolSession : Bound(d, q)' => Bound(d, q)
    BY <1>2 DEF Bound
<1>8. \A p \in Up, d \in Miner : Late(p, d)' => Late(p, d)
    BY <1>1 DEF Late
<1>9. \A p \in Up, d \in Miner : (Leaving(p, d) => Leaving(p, d)') /\ (Behind(p, d) => Behind(p, d)')
    BY <1>1 DEF Leaving, Behind
<1> QED
    BY <1>3, <1>5, <1>6, <1>7, <1>8, <1>9, CirclesKept

\* No session that has closed has still to greet a miner on its way to another
\* such session that has still to greet one, and so on in a circle.
THEOREM CircleInvariant == BackSpec => []CircleInv
<1>1. BackInit => BackInv /\ CircleInv
    BY BackInitially, CirclesInitially
<1>2. BackInv /\ BackInv' /\ CircleInv /\ [BackNext]_backVars => CircleInv'
    <2> SUFFICES ASSUME BackInv, BackInv', CircleInv, [BackNext]_backVars PROVE CircleInv'
        OBVIOUS
    <2>1. CASE Environment
        BY <2>1, EnvironmentCircles
    <2>2. CASE MgrRuns(TheMgr)
        BY <2>2, MgrRunsCircles
    <2>3. ASSUME NEW p \in PoolSession, UpRuns(p) PROVE CircleInv'
        BY <2>3, UpRunsCircles
    <2>4. ASSUME NEW d \in Miner, DownRuns(d) PROVE CircleInv'
        BY <2>4, DownRunsCircles
    <2>5. ASSUME NEW a \in Loops, Continues(a) PROVE CircleInv'
        BY <2>5, ContinuesCircles DEF Loops
    <2>6. ASSUME NEW m \in BagToSet(spawned), SenderRuns(m) PROVE CircleInv'
        BY <2>6, SenderRunsCircles
    <2>7. CASE UNCHANGED backVars
        BY <2>7, CirclesStutter
    <2> QED
        BY <2>1, <2>2, <2>3, <2>4, <2>5, <2>6, <2>7 DEF BackNext
<1> QED
    BY <1>1, <1>2, BackInvariant, PTL DEF BackSpec

-----------------------------------------------------------------------------
(* Who waits for whom.                                                     *)

\* The sends that wait for a place in a channel.
LEMMA SyncPlanIs ==
    ASSUME NEW a, NEW s, <<a, s>> \in Plans, ~s.async
    PROVE  \/ a = TheMgr /\ s.to \in Miner /\ \E p \in PoolSession : s.event = EventSetUpSession(p)
           \/ a = TheMgr /\ s.to = TheFake
           \/ a \in PoolSession /\ s.to \in Miner /\ s = SendEvent(s.to, EventSendBytes)
           \/ a \in Up /\ s.to = TheMgr
           \/ a \in Miner /\ s.to \in PoolSession /\ s.event = EventAddDownSession(a)
<1>1. ~s.async =>
         \/ a = TheMgr /\ s.to \in Miner /\ \E p \in PoolSession : s.event = EventSetUpSession(p)
         \/ a = TheMgr /\ s.to = TheFake
         \/ a \in PoolSession /\ s.to \in Miner /\ s = SendEvent(s.to, EventSendBytes)
         \/ a \in Up /\ s.to = TheMgr
         \/ a \in Miner /\ s.to \in PoolSession /\ s.event = EventAddDownSession(a)
    BY PlanIs
<1> QED
    BY <1>1

\* Who can wait for whom.
LEMMA WaitKinds ==
    ASSUME BackInv, NEW a \in Loops, NEW b, WaitsFor(a, b)
    PROVE  /\ \/ a = TheMgr /\ b \in Miner /\ Waits(todo, {m \in Intended(b) : m[1] = a})
              \/ a = TheMgr /\ b = TheFake
              \/ a \in PoolSession /\ b \in Miner /\ (HeldBy(a, b) \/ Late(a, b))
              \/ a \in Up /\ b = TheMgr
              \/ a \in Miner /\ b \in PoolSession /\ Waits(todo, {m \in Intended(a) : m[1] = a}) /\ Bound(a, b)
<1> DEFINE s == Head(todo[a])
<1>1. a \in Actor /\ IsPlan(todo) /\ todo[a] # <<>> /\ ~s.async /\ s.to = b
    BY DEF Loops, BackInv, WaitsFor
<1>2. 1 \in DOMAIN todo[a] /\ s = todo[a][1] /\ <<a, s>> \in Plans
    BY <1>1, HeadIsPlan
<1> HIDE DEF s
<1>3. \A d : <<a, s>> \in Intended(d) => Waits(todo, {m \in Intended(d) : m[1] = a})
    BY <1>1, <1>2 DEF Waits
<1>4. \/ a = TheMgr /\ b \in Miner /\ \E p \in PoolSession : s.event = EventSetUpSession(p)
      \/ a = TheMgr /\ b = TheFake
      \/ a \in PoolSession /\ b \in Miner /\ s = SendEvent(b, EventSendBytes)
      \/ a \in Up /\ b = TheMgr
      \/ a \in Miner /\ b \in PoolSession /\ s.event = EventAddDownSession(a)
    <2>0. ~s.async
        BY <1>1
    <2>1. \/ a = TheMgr /\ s.to \in Miner /\ \E p \in PoolSession : s.event = EventSetUpSession(p)
          \/ a = TheMgr /\ s.to = TheFake
          \/ a \in PoolSession /\ s.to \in Miner /\ s = SendEvent(s.to, EventSendBytes)
          \/ a \in Up /\ s.to = TheMgr
          \/ a \in Miner /\ s.to \in PoolSession /\ s.event = EventAddDownSession(a)
        BY <1>2, <2>0, SyncPlanIs
    <2> QED
        BY <1>1, <2>1, Parts
<1>5. CASE a = TheMgr /\ b \in Miner /\ \E p \in PoolSession : s.event = EventSetUpSession(p)
    <2>1. <<s.to, s.event>> \in Passing(b)
        BY <1>1, <1>5, PassingIs
    <2> QED
        BY <1>2, <1>3, <1>5, <2>1, IntendedIs
<1>6. CASE a \in PoolSession /\ b \in Miner /\ s = SendEvent(b, EventSendBytes)
    <2>1. GreetsOwn
        BY DEF BackInv
    <2>2. todo[a][1] = SendEvent(b, EventSendBytes)
        BY <1>2, <1>6
    <2>3. Writer(a, b)
        BY <1>2, <1>6, <2>1, <2>2 DEF GreetsOwn
    <2>4. HeldBy(a, b) \/ Late(a, b)
        BY <1>2, <2>2, <2>3 DEF Writer, Late
    <2> QED
        BY <1>6, <2>4
<1>7. CASE a \in Miner /\ b \in PoolSession /\ s.event = EventAddDownSession(a)
    <2>1. <<s.to, s.event>> \in Passing(a)
        BY <1>1, <1>7, PassingIs
    <2>2. <<a, s>> \in PlannedIn(Between(a, b))
        BY <1>1, <1>2, <1>7 DEF PlannedIn, Between
    <2>3. Bound(a, b)
        BY <1>1, <1>2, <2>2 DEF Bound, Nowhere, Waits
    <2>4. Waits(todo, {m \in Intended(a) : m[1] = a})
        BY <1>2, <1>3, <1>7, <2>1, IntendedIs
    <2> QED
        BY <1>7, <2>3, <2>4
<1> QED
    BY <1>4, <1>5, <1>6, <1>7

\* A miner that somebody waits for waits for nobody, unless it is greeted by a
\* session that has closed: it would be in two hands.
LEMMA ServedMinerReads ==
    ASSUME BackInv, NEW a \in Loops, NEW d \in Miner, WaitsFor(a, d), NEW b, WaitsFor(d, b)
    PROVE  a \in Up /\ Late(a, d)
<1>1. OneHand(d)
    BY DEF BackInv
<1>2. d \in Loops /\ d # TheMgr /\ d \notin PoolSession
    BY Parts, ActorAssumption DEF Loops
<1>3. Waits(todo, {m \in Intended(d) : m[1] = d})
    BY <1>2, WaitKinds, Parts
<1>4. Waits(todo, Intended(d))
    BY <1>3 DEF Waits
<1>5. ASSUME a = TheMgr, Waits(todo, {m \in Intended(d) : m[1] = a}) PROVE FALSE
    <2>1. PICK i \in DOMAIN todo[a] : a \in Actor /\ <<a, todo[a][i]>> \in Intended(d)
        BY <1>5 DEF Waits
    <2>2. PICK j \in DOMAIN todo[d] : d \in Actor /\ <<d, todo[d][j]>> \in Intended(d)
        BY <1>3 DEF Waits
    <2>3. a = d
        BY <1>1, <2>1, <2>2 DEF OneHand, WaitsOnce
    <2> QED
        BY <1>2, <1>5, <2>3
<1>6. ASSUME a \in PoolSession, HeldBy(a, d) PROVE FALSE
    BY <1>1, <1>4, <1>6 DEF OneHand
<1>7. a \in PoolSession /\ Late(a, d)
    BY <1>5, <1>6, WaitKinds, Parts
<1> QED
    BY <1>7 DEF Late

\* The loops never wait for one another in a circle.
THEOREM LoopsNeverWaitInACircle == BackSpec => []NoCircularWait
<1>1. BackInv /\ CircleInv => NoCircularWait
    <2> SUFFICES ASSUME BackInv, CircleInv, NEW S \in SUBSET Loops, S # {},
                        \A a \in S : \E b \in S : WaitsFor(a, b)
                 PROVE  FALSE
        BY DEF NoCircularWait
    <2>1. \A a \in S : \A b : WaitsFor(a, b) =>
             \/ a = TheMgr /\ b \in Miner \cup {TheFake}
             \/ a \in PoolSession /\ b \in Miner
             \/ a \in Up /\ b = TheMgr
             \/ a \in Miner /\ b \in PoolSession /\ Bound(a, b)
        BY WaitKinds
    <2>2. ASSUME NEW a \in S, NEW d \in S, d \in Miner, WaitsFor(a, d)
          PROVE  a \in Up /\ Late(a, d)
        <3>1. PICK b \in S : WaitsFor(d, b)
            OBVIOUS
        <3> QED
            BY <2>2, <3>1, ServedMinerReads
    <2>3. \A p \in S : p \in PoolSession => p \in Up
        <3> SUFFICES ASSUME NEW p \in S, p \in PoolSession, p \notin Up PROVE FALSE
            OBVIOUS
        <3>1. PICK d \in S : WaitsFor(p, d)
            OBVIOUS
        <3>2. d \in Miner
            BY <2>1, <3>1, Parts
        <3> QED
            BY <2>2, <3>1, <3>2
    <2>4. TheMgr \notin S
        <3> SUFFICES ASSUME TheMgr \in S PROVE FALSE
            OBVIOUS
        <3> DEFINE a == TheMgr
        <3>1. PICK b \in S : WaitsFor(a, b)
            OBVIOUS
        <3>2. /\ a \in S /\ a \notin PoolSession /\ a \notin Miner /\ a \notin Up
              /\ TheFake \in PoolSession /\ TheFake \notin Up
            BY Parts
        <3> HIDE DEF a
        <3>3. b \in Miner \/ b = TheFake
            BY <2>1, <3>1, <3>2
        <3> QED
            BY <2>2, <2>3, <3>1, <3>2, <3>3
    <2>5. ASSUME NEW d \in S, d \in Miner PROVE \E q \in S \cap Up : Bound(d, q)
        <3>1. PICK q \in S : WaitsFor(d, q)
            OBVIOUS
        <3>2. q \in PoolSession /\ Bound(d, q)
            BY <2>1, <2>4, <2>5, <3>1, Parts
        <3> QED
            BY <2>3, <3>2
    <2>6. ASSUME NEW p \in S \cap Up PROVE \E q \in S \cap Up : LeadsTo(p, q)
        <3>1. PICK d \in S : WaitsFor(p, d)
            OBVIOUS
        <3>2. d \in Miner
            BY <2>1, <2>4, <3>1, Parts
        <3>3. PICK q \in S \cap Up : Bound(d, q)
            BY <2>5, <3>2
        <3>4. Late(p, d)
            BY <2>2, <3>1, <3>2
        <3> QED
            BY <3>2, <3>3, <3>4 DEF LeadsTo
    <2>7. S \cap Up # {}
        <3>1. PICK a \in S : TRUE
            OBVIOUS
        <3>2. PICK b \in S : WaitsFor(a, b)
            OBVIOUS
        <3>3. a \in Miner \/ a \in Up
            BY <2>1, <2>3, <2>4, <3>2, Parts
        <3> QED
            BY <2>5, <3>3
    <2> DEFINE T == S \cap Up
    <2>8. T \in SUBSET Up /\ T # {}
        BY <2>7
    <2>9. \A p \in T : \E q \in T : LeadsTo(p, q)
        BY <2>6
    <2> HIDE DEF T
    <2> QED
        BY <2>8, <2>9 DEF CircleInv, NoCircle
<1> QED
    BY <1>1, BackInvariant, CircleInvariant, PTL
=============================================================================
