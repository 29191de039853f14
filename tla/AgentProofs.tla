------------------------------ MODULE AgentProofs ------------------------------
(***************************************************************************)
(* The control plane, for any number of miners, managers, sub-accounts,    *)
(* slots and pool sessions and with every option: it keeps the promise of  *)
(* SessionIDLease, its variables keep their types, and a miner is never in *)
(* two hands.  With as many ids as miners it is always in exactly one.  No *)
(* slot is lost or has two sessions, and SessionManager's map and the      *)
(* managers agree.                                                         *)
(***************************************************************************)
EXTENDS Agent, MailboxProofs

-----------------------------------------------------------------------------
(* The allocator of session ids, for any number of ids and any width of    *)
(* the integers that leaves room for the count.                            *)

\* The ids are a finite set with MaxSessionId + 1 members (the bitset that
\* NewSessionIDManager makes).
LEMMA SessionIdsFinite ==
    /\ IsFiniteSet(SessionIds)
    /\ Cardinality(SessionIds) = MaxSessionId + 1
<1>1. 0 \in Int /\ MaxSessionId \in Int /\ 0 <= MaxSessionId
    BY IdAssumption
<1> QED
    BY <1>1, FS_Interval DEF SessionIds

\* Any set of bits is finite and has at most one bit for each id.
LEMMA BitsBounded ==
    ASSUME NEW S, S \subseteq SessionIds
    PROVE  /\ IsFiniteSet(S)
           /\ Cardinality(S) \in 0 .. MaxSessionId + 1
           /\ Cardinality(S) = MaxSessionId + 1 => S = SessionIds
<1>1. /\ IsFiniteSet(S)
      /\ Cardinality(S) <= Cardinality(SessionIds)
      /\ Cardinality(S) = Cardinality(SessionIds) => S = SessionIds
    BY SessionIdsFinite, FS_Subset
<1>2. Cardinality(S) \in Nat
    BY <1>1, FS_CardinalityType
<1> QED
    BY <1>1, <1>2, SessionIdsFinite, IdAssumption

\* What the inductive steps need of a state: it is typed and count is right.
IDInv == IDTypeOK /\ CountIsPopulation

\* A grant keeps the count right: below the limit count++ cannot wrap.
LEMMA AllocKeepsIDInv ==
    ASSUME NEW id \in SessionIds, IDInv, AllocSessionID(id)
    PROVE  IDInv'
<1> USE IdAssumption DEF IDInv
<1>1. sessionIDs \subseteq SessionIds /\ id \notin sessionIDs /\ count <= MaxSessionId
    BY DEF IDTypeOK, AllocSessionID, IsFull, Word
<1>2. IsFiniteSet(sessionIDs) /\ Cardinality(sessionIDs) \in 0 .. MaxSessionId + 1
    BY <1>1, BitsBounded
<1>3. Cardinality(sessionIDs') = count + 1
    BY <1>1, <1>2, FS_AddElement DEF AllocSessionID, CountIsPopulation
<1>4. count' = count + 1
    BY <1>1 DEF AllocSessionID, Inc, IDTypeOK, Word
<1>5. IDTypeOK'
    <2>1. sessionIDs' \subseteq SessionIds
        BY <1>1 DEF AllocSessionID
    <2>2. count' \in Word
        BY <1>1, <1>4 DEF IDTypeOK, Word
    <2>3. allocIDx' \in SessionIds
        BY DEF AllocSessionID, NextIdx, Inc, SessionIds
    <2> QED
        BY <2>1, <2>2, <2>3 DEF IDTypeOK
<1> QED
    BY <1>3, <1>4, <1>5 DEF CountIsPopulation

\* So does a release: the bit that was tested is counted, count-- cannot wrap.
LEMMA FreeKeepsIDInv ==
    ASSUME NEW id, IDInv, FreeSessionID(id)
    PROVE  IDInv'
<1> USE IdAssumption DEF IDInv
<1>1. CASE id \notin sessionIDs
    BY <1>1 DEF FreeSessionID, idVars, IDTypeOK, CountIsPopulation
<1>2. CASE id \in sessionIDs
    <2>1. IsFiniteSet(sessionIDs) /\ Cardinality(sessionIDs) \in 0 .. MaxSessionId + 1
        BY BitsBounded DEF IDTypeOK
    <2>2. Cardinality(sessionIDs') = Cardinality(sessionIDs) - 1
        BY <1>2, <2>1, FS_RemoveElement DEF FreeSessionID
    <2>3. sessionIDs' \subseteq SessionIds /\ IsFiniteSet(sessionIDs')
        BY <1>2, BitsBounded DEF FreeSessionID, IDTypeOK
    <2>4. Cardinality(sessionIDs') \in Nat
        BY <2>3, FS_CardinalityType
    <2>5. count' = count - 1 /\ count - 1 \in Nat
        BY <1>2, <2>1, <2>2, <2>4 DEF FreeSessionID, Dec, CountIsPopulation
    <2> QED
        BY <1>2, <2>2, <2>3, <2>5 DEF FreeSessionID, IDTypeOK, CountIsPopulation, Word
<1> QED
    BY <1>1, <1>2

LEMMA InitIDInv == IDInit => IDInv
<1> QED
    BY IdAssumption, FS_EmptySet
    DEF IDInit, IDInv, IDTypeOK, CountIsPopulation, Word, SessionIds

LEMMA NextIDInv == IDInv /\ [IDNext]_idVars => IDInv'
<1> SUFFICES ASSUME IDInv, [IDNext]_idVars PROVE IDInv'
    OBVIOUS
<1>1. ASSUME NEW id \in SessionIds, AllocSessionID(id) PROVE IDInv'
    BY <1>1, AllocKeepsIDInv
<1>2. CASE AllocSessionIDFull
    BY <1>2 DEF AllocSessionIDFull, idVars, IDInv, IDTypeOK, CountIsPopulation
<1>3. ASSUME NEW id \in Word, FreeSessionID(id) PROVE IDInv'
    BY <1>3, FreeKeepsIDInv
<1>4. CASE UNCHANGED idVars
    BY <1>4 DEF idVars, IDInv, IDTypeOK, CountIsPopulation
<1> QED
    BY <1>1, <1>2, <1>3, <1>4 DEF IDNext

\* The allocator's data stay well typed and count is the population of the
\* bitset, under any sequence of calls with any arguments.
THEOREM AllocatorInvariant == IDSpec => [](IDTypeOK /\ CountIsPopulation)
<1> QED
    BY InitIDInv, NextIDInv, PTL DEF IDSpec, IDInv

LEMMA IDInvScan == IDInv => ScanTerminates
<1> SUFFICES ASSUME IDInv, ~IsFull PROVE SessionIds \ sessionIDs # {}
    BY DEF ScanTerminates
<1>1. sessionIDs \subseteq SessionIds /\ Cardinality(sessionIDs) <= MaxSessionId
    BY IdAssumption DEF IDInv, IDTypeOK, CountIsPopulation, IsFull, Word
<1>2. sessionIDs # SessionIds
    BY <1>1, SessionIdsFinite, IdAssumption
<1> QED
    BY <1>1, <1>2

\* The search loop of AllocSessionID, which runs with the lock held, always
\* finds a clear bit.
THEOREM SearchEnds == IDSpec => []ScanTerminates
<1>1. IDSpec => []IDInv
    BY InitIDInv, NextIDInv, PTL DEF IDSpec
<1> QED
    BY <1>1, IDInvScan, PTL

\* A step of the allocator grants the id just behind the cursor, the one that
\* was granted last, only when every other id is taken.
LEMMA GrantIsFreshestLast ==
    ASSUME IDTypeOK, NEW id \in SessionIds, AllocSessionID(id), NextIdx(id) = allocIDx
    PROVE  SessionIds \ {id} \subseteq sessionIDs
<1>1. SUFFICES ASSUME NEW i \in SessionIds, i # id PROVE i \in Passed(id)
    BY DEF AllocSessionID
<1>2. CASE id < MaxSessionId
    <2>1. allocIDx = id + 1
        BY <1>2, IdAssumption DEF NextIdx, Inc, SessionIds
    <2> QED
        BY <1>1, <2>1 DEF Passed, SessionIds
<1>3. CASE id = MaxSessionId
    <2>1. allocIDx = 0
        BY <1>3, IdAssumption DEF NextIdx, Inc, SessionIds
    <2> QED
        BY <1>1, <1>3, <2>1, IdAssumption DEF Passed, SessionIds
<1> QED
    BY <1>2, <1>3, IdAssumption DEF SessionIds

\* A freed id comes back as late as the number of ids allows.
THEOREM FreedIdsRest == IDSpec => FreshestIsLast
<1> DEFINE Granted == \A id \in sessionIDs' \ sessionIDs :
                          NextIdx(id) = allocIDx => SessionIds \ {id} \subseteq sessionIDs
<1>1. IDInv /\ [IDNext]_idVars => [Granted]_idVars
    <2> SUFFICES ASSUME IDInv, IDNext,
                        NEW id \in sessionIDs' \ sessionIDs, NextIdx(id) = allocIDx
                 PROVE  SessionIds \ {id} \subseteq sessionIDs
        OBVIOUS
    <2>1. PICK k \in SessionIds : AllocSessionID(k)
        BY DEF IDNext, AllocSessionIDFull, FreeSessionID, idVars
    <2>2. k = id
        BY <2>1 DEF AllocSessionID
    <2> QED
        BY <2>1, <2>2, GrantIsFreshestLast DEF IDInv
<1>2. IDSpec => []IDInv
    BY InitIDInv, NextIDInv, PTL DEF IDSpec
<1> QED
    BY <1>1, <1>2, PTL DEF IDSpec, FreshestIsLast

-----------------------------------------------------------------------------
(* The session ids.  Only the handlers of DownSession touch them; what has *)
(* to be shown is that each of its ways out of a session gives back        *)
(* exactly the id that was taken on the way in.                            *)

\* No two sessions that are not closed have the same id.
LiveIdsDiffer ==
    \A c, d \in Miner : c # d /\ Live(c) /\ Live(d) => sessionID[c] # sessionID[d]

\* Inductive: the allocator's invariant, and the bits are the live ids.
LeaseInv ==
    /\ IDInv
    /\ downStat \in [Miner -> DownStat]
    /\ sessionID \in [Miner -> SessionIds \cup {NoID}]
    /\ \A d \in Miner : Live(d) => sessionID[d] \in SessionIds
    /\ LiveIdsDiffer
    /\ BitsAreLive

leaseVars == <<sessionIDs, count, allocIDx, downStat, sessionID>>

LEMMA InitLeaseInv == Init => LeaseInv
<1> SUFFICES ASSUME Init PROVE LeaseInv
    OBVIOUS
<1>1. IDInv
    BY InitIDInv DEF Init
<1>2. downStat = [d \in Miner |-> "none"] /\ sessionID = [d \in Miner |-> NoID] /\ sessionIDs = {}
    BY DEF Init, DownInit, IDInit
<1>3. \A d \in Miner : ~Live(d)
    BY <1>2 DEF Live, InitLoop, RunLoop, Stranded
<1> QED
    BY <1>1, <1>2, <1>3 DEF LeaseInv, DownStat, LiveIdsDiffer, BitsAreLive

\* RunDownSession takes an id that no live session has.
LEMMA GrantKeepsLeaseInv ==
    ASSUME LeaseInv, NEW d \in Miner, RunDownSession(d)
    PROVE  LeaseInv' /\ (\E id \in SessionIds \ sessionIDs : sessionID' = [sessionID EXCEPT ![d] = id])
<1>1. PICK id \in SessionIds : /\ AllocSessionID(id)
                               /\ sessionID' = [sessionID EXCEPT ![d] = id]
    BY DEF RunDownSession
<1>2. IDInv'
    BY <1>1, AllocKeepsIDInv DEF LeaseInv, DownStat
<1>3. downStat[d] = "none" /\ downStat' = [downStat EXCEPT ![d] = "connected"]
    BY DEF RunDownSession
<1>4. id \notin sessionIDs /\ sessionIDs' = sessionIDs \cup {id}
    BY <1>1 DEF AllocSessionID
<1>5. ~Live(d) /\ Live(d)' /\ \A c \in Miner \ {d} : Live(c)' <=> Live(c)
    BY <1>3 DEF LeaseInv, DownStat, Live, InitLoop, RunLoop, Stranded
<1>6. sessionID'[d] = id /\ \A c \in Miner \ {d} : sessionID'[c] = sessionID[c]
    BY <1>1 DEF LeaseInv, DownStat
<1>7. \A c \in Miner : Live(c) => sessionID[c] # id
    BY <1>4 DEF LeaseInv, DownStat, BitsAreLive
<1>8. LiveIdsDiffer'
    BY <1>5, <1>6, <1>7 DEF LeaseInv, DownStat, LiveIdsDiffer
<1>9. BitsAreLive'
    BY <1>4, <1>5, <1>6 DEF LeaseInv, DownStat, BitsAreLive
<1>10. /\ downStat' \in [Miner -> DownStat]
       /\ sessionID' \in [Miner -> SessionIds \cup {NoID}]
    BY <1>1, <1>3 DEF LeaseInv, DownStat
<1>11. \A c \in Miner : Live(c)' => sessionID'[c] \in SessionIds
    BY <1>5, <1>6 DEF LeaseInv, DownStat
<1> QED
    BY <1>1, <1>2, <1>4, <1>8, <1>9, <1>10, <1>11 DEF LeaseInv, DownStat

\* close, however it comes about, gives the session's id back.
LEMMA CloseKeepsLeaseInv ==
    ASSUME LeaseInv, NEW d \in Miner, Live(d), Close(d)
    PROVE  LeaseInv'
<1>1. IDInv'
    BY FreeKeepsIDInv DEF LeaseInv, DownStat, Close
<1>2. downStat' = [downStat EXCEPT ![d] = "disconnected"] /\ sessionID' = sessionID
    BY DEF Close
<1>3. sessionID[d] \in sessionIDs /\ sessionIDs' = sessionIDs \ {sessionID[d]}
    BY DEF Close, FreeSessionID, LeaseInv, DownStat, BitsAreLive
<1>4. ~Live(d)' /\ \A c \in Miner \ {d} : Live(c)' <=> Live(c)
    BY <1>2 DEF LeaseInv, DownStat, Live, InitLoop, RunLoop, Stranded
<1>5. LiveIdsDiffer'
    BY <1>2, <1>4 DEF LeaseInv, DownStat, LiveIdsDiffer
<1>6. BitsAreLive'
    BY <1>2, <1>3, <1>4 DEF LeaseInv, DownStat, BitsAreLive, LiveIdsDiffer
<1>7. downStat' \in [Miner -> DownStat]
    BY <1>2 DEF LeaseInv, DownStat
<1>8. \A c \in Miner : Live(c)' => sessionID'[c] \in SessionIds
    BY <1>2, <1>4 DEF LeaseInv, DownStat
<1> QED
    BY <1>1, <1>2, <1>5, <1>6, <1>7, <1>8 DEF LeaseInv, DownStat

\* A change of downStat that makes no session live or dead changes nothing.
LEMMA StatKeepsLeaseInv ==
    ASSUME LeaseInv, UNCHANGED idVars, UNCHANGED sessionID,
           downStat' \in [Miner -> DownStat],
           \A d \in Miner : Live(d)' <=> Live(d)
    PROVE  LeaseInv'
<1>1. IDInv' /\ sessionIDs' = sessionIDs
    BY DEF LeaseInv, DownStat, IDInv, IDTypeOK, CountIsPopulation, idVars
<1>2. LiveIdsDiffer'
    BY DEF LeaseInv, DownStat, LiveIdsDiffer
<1>3. BitsAreLive'
    BY <1>1 DEF LeaseInv, DownStat, BitsAreLive
<1> QED
    BY <1>1, <1>2, <1>3 DEF LeaseInv, DownStat

\* The kinds of step there are for the ids.
LEMMA StepKinds ==
    ASSUME [Next]_vars
    PROVE  \/ \E d \in Miner : RunDownSession(d)
           \/ \E d \in Miner : RunDownSessionRefused(d)
           \/ \E d \in Miner : Authorize(d) \/ LoginAgain(d)
           \/ \E d \in Miner : Live(d) /\ Close(d)
           \/ UNCHANGED leaseVars
<1>1. ASSUME NEW d \in Miner, MinerActs(d)
      PROVE  \/ RunDownSession(d)
             \/ RunDownSessionRefused(d)
             \/ Authorize(d) \/ LoginAgain(d)
             \/ Live(d) /\ Close(d)
             \/ UNCHANGED leaseVars
    BY <1>1 DEF MinerActs, MinerStep, InitConnBroken, LoginAgain, MinerLeaves, Live, leaseVars, idVars, downVars
<1>2. ASSUME NEW d \in Miner, DownRuns(d)
      PROVE  (Live(d) /\ Close(d)) \/ UNCHANGED leaseVars
    BY <1>2 DEF DownRuns, DownHandles, ConnBroken, Exit, SetUpSession, Live, leaseVars, idVars
<1>3. ASSUME UNCHANGED <<idVars, downVars>> PROVE UNCHANGED leaseVars
    BY <1>3 DEF leaseVars, idVars, downVars
<1>4. CASE Environment
    BY <1>1, <1>3, <1>4 DEF Environment, PoolActs, ConnectRefused, OperatorActs
<1>5. CASE Agents
    BY <1>2, <1>3, <1>5 DEF Agents, UpRuns, FakeRuns, MgrRuns, SMRuns, Connects, SenderRuns
<1>6. CASE UNCHANGED vars
    BY <1>3, <1>6 DEF vars
<1> QED
    BY <1>4, <1>5, <1>6 DEF Next

LEMMA NextLeaseInv == LeaseInv /\ [Next]_vars => LeaseInv'
<1> SUFFICES ASSUME LeaseInv, [Next]_vars PROVE LeaseInv'
    OBVIOUS
<1>1. ASSUME NEW d \in Miner, RunDownSession(d) PROVE LeaseInv'
    BY <1>1, GrantKeepsLeaseInv
<1>2. ASSUME NEW d \in Miner, RunDownSessionRefused(d) PROVE LeaseInv'
    <2>1. downStat[d] = "none" /\ downStat' = [downStat EXCEPT ![d] = "refused"]
        BY <1>2 DEF RunDownSessionRefused
    <2>2. UNCHANGED idVars /\ UNCHANGED sessionID
        BY <1>2 DEF RunDownSessionRefused, AllocSessionIDFull
    <2>3. \A c \in Miner : Live(c)' <=> Live(c)
        BY <2>1 DEF LeaseInv, DownStat, Live, InitLoop, RunLoop, Stranded
    <2> QED
        BY <2>1, <2>2, <2>3, StatKeepsLeaseInv DEF LeaseInv, DownStat
<1>3. ASSUME NEW d \in Miner, Authorize(d) \/ LoginAgain(d) PROVE LeaseInv'
    <2>1. /\ downStat[d] \in {"connected", "authorized"}
             /\ \E st \in {"authorized", "stranded"} : downStat' = [downStat EXCEPT ![d] = st]
        BY <1>3 DEF Authorize, LoginAgain, InitLoop, RunLoop
    <2>2. UNCHANGED idVars /\ UNCHANGED sessionID
        BY <1>3 DEF Authorize, LoginAgain
    <2>3. \A c \in Miner : Live(c)' <=> Live(c)
        BY <2>1 DEF LeaseInv, DownStat, Live, InitLoop, RunLoop, Stranded
    <2> QED
        BY <2>1, <2>2, <2>3, StatKeepsLeaseInv DEF LeaseInv, DownStat
<1>4. ASSUME NEW d \in Miner, Live(d), Close(d) PROVE LeaseInv'
    BY <1>4, CloseKeepsLeaseInv
<1>5. CASE UNCHANGED leaseVars
    <2>1. \A c \in Miner : Live(c)' <=> Live(c)
        BY <1>5 DEF leaseVars, Live, InitLoop, RunLoop, Stranded
    <2> QED
        BY <1>5, <2>1, StatKeepsLeaseInv DEF leaseVars, idVars, LeaseInv, DownStat
<1> QED
    BY <1>1, <1>2, <1>3, <1>4, <1>5, StepKinds

LEMMA LeaseInvariant == Spec => []LeaseInv
<1> QED
    BY InitLeaseInv, NextLeaseInv, PTL DEF Spec

\* In the whole agent two sessions that are not closed never share an id.
THEOREM LiveIdsAreExclusive == Spec => []LiveIdsDiffer
<1>1. LeaseInv => LiveIdsDiffer
    BY DEF LeaseInv, DownStat
<1> QED
    BY <1>1, LeaseInvariant, PTL

\* In the whole agent no id leaks: the allocator's bits are the live ids.
THEOREM NoIdLeaks == Spec => []BitsAreLive
<1>1. LeaseInv => BitsAreLive
    BY DEF LeaseInv, DownStat
<1> QED
    BY <1>1, LeaseInvariant, PTL

-----------------------------------------------------------------------------
(* The refinement.                                                         *)

LEMMA HeldAreLive ==
    ASSUME LeaseInv
    PROVE  Lease!Held = sessionIDs
<1>1. \A d \in Miner : HeldBy(d) \in SessionIds => Live(d)
    BY NoIDAssumption DEF HeldBy
<1>2. \A d \in Miner : Live(d) => HeldBy(d) = sessionID[d] /\ HeldBy(d) \in SessionIds
    BY DEF HeldBy, LeaseInv, DownStat
<1>3. Lease!Held = {HeldBy(d) : d \in Miner} \cap SessionIds
    BY DEF Lease!Held
<1> QED
    BY <1>1, <1>2, <1>3 DEF LeaseInv, DownStat, BitsAreLive

LEMMA FullMeansAllHeld ==
    ASSUME LeaseInv, IsFull
    PROVE  sessionIDs = SessionIds
<1>1. sessionIDs \subseteq SessionIds /\ Cardinality(sessionIDs) = count /\ count > MaxSessionId
    BY DEF LeaseInv, DownStat, IDInv, IDTypeOK, CountIsPopulation, IsFull
<1> QED
    BY <1>1, BitsBounded, IdAssumption

\* The agent implements SessionIDLease: a grant is exclusive, an id comes back
\* when its session closes and only then, and a miner is refused only when
\* every id is held by a session that is not closed.
THEOREM AgentImplementsLease == Spec => LeaseSpec
<1> DEFINE held == [d \in Miner |-> HeldBy(d)]
<1>1. Init => Lease!LeaseInit
    BY DEF Init, DownInit, Lease!LeaseInit, HeldBy, Live, InitLoop, RunLoop, Stranded
<1>2. LeaseInv /\ [Next]_vars => [Lease!LeaseNext]_held
    <2> SUFFICES ASSUME LeaseInv, [Next]_vars PROVE [Lease!LeaseNext]_held
        OBVIOUS
    <2>1. ASSUME NEW d \in Miner, RunDownSession(d) PROVE Lease!Acquire(d)
        <3>1. PICK id \in SessionIds \ sessionIDs : sessionID' = [sessionID EXCEPT ![d] = id]
            BY <2>1, GrantKeepsLeaseInv
        <3>2. downStat[d] = "none" /\ downStat' = [downStat EXCEPT ![d] = "connected"]
            BY <2>1 DEF RunDownSession
        <3>3. HeldBy(d) = NoID
            BY <3>2 DEF HeldBy, Live, InitLoop, RunLoop, Stranded
        <3>4. \A c \in Miner : HeldBy(c)' = IF c = d THEN id ELSE HeldBy(c)
            BY <3>1, <3>2 DEF LeaseInv, DownStat, HeldBy, Live, InitLoop, RunLoop, Stranded
        <3>5. held' = [held EXCEPT ![d] = id]
            BY <3>4
        <3>6. id \in SessionIds \ Lease!Held
            BY <3>1, HeldAreLive
        <3> QED
            BY <3>3, <3>5, <3>6 DEF Lease!Acquire
    <2>2. ASSUME NEW d \in Miner, RunDownSessionRefused(d) PROVE Lease!Refuse(d)
        <3>1. downStat[d] = "none" /\ downStat' = [downStat EXCEPT ![d] = "refused"] /\ sessionID' = sessionID
            BY <2>2 DEF RunDownSessionRefused
        <3>2. HeldBy(d) = NoID
            BY <3>1 DEF HeldBy, Live, InitLoop, RunLoop, Stranded
        <3>3. \A c \in Miner : HeldBy(c)' = IF c = d THEN Refused ELSE HeldBy(c)
            BY <3>1 DEF LeaseInv, DownStat, HeldBy, Live, InitLoop, RunLoop, Stranded
        <3>4. held' = [held EXCEPT ![d] = Refused]
            BY <3>3
        <3>5. Lease!Held = SessionIds
            BY <2>2, HeldAreLive, FullMeansAllHeld DEF RunDownSessionRefused, AllocSessionIDFull
        <3> QED
            BY <3>2, <3>4, <3>5 DEF Lease!Refuse
    <2>3. ASSUME NEW d \in Miner, Authorize(d) \/ LoginAgain(d) PROVE UNCHANGED held
        <3>1. /\ downStat[d] \in {"connected", "authorized"}
             /\ \E st \in {"authorized", "stranded"} : downStat' = [downStat EXCEPT ![d] = st]
             /\ sessionID' = sessionID
            BY <2>3 DEF Authorize, LoginAgain, InitLoop, RunLoop
        <3>2. \A c \in Miner : HeldBy(c)' = HeldBy(c)
            BY <3>1 DEF LeaseInv, DownStat, HeldBy, Live, InitLoop, RunLoop, Stranded
        <3> QED
            BY <3>2
    <2>4. ASSUME NEW d \in Miner, Live(d), Close(d) PROVE Lease!Release(d)
        <3>1. downStat' = [downStat EXCEPT ![d] = "disconnected"] /\ sessionID' = sessionID
            BY <2>4 DEF Close
        <3>2. HeldBy(d) # NoID
            BY <2>4, NoIDAssumption DEF HeldBy, LeaseInv, DownStat
        <3>3. \A c \in Miner : HeldBy(c)' = IF c = d THEN NoID ELSE HeldBy(c)
            BY <3>1 DEF LeaseInv, DownStat, HeldBy, Live, InitLoop, RunLoop, Stranded
        <3>4. held' = [held EXCEPT ![d] = NoID]
            BY <3>3
        <3> QED
            BY <3>2, <3>4 DEF Lease!Release
    <2>5. ASSUME UNCHANGED leaseVars PROVE UNCHANGED held
        <3>1. \A c \in Miner : HeldBy(c)' = HeldBy(c)
            BY <2>5 DEF leaseVars, HeldBy, Live, InitLoop, RunLoop, Stranded
        <3> QED
            BY <3>1
    <2> QED
        BY <2>1, <2>2, <2>3, <2>4, <2>5, StepKinds DEF Lease!LeaseNext
<1> QED
    BY <1>1, <1>2, LeaseInvariant, PTL DEF Spec, LeaseSpec, Lease!LeaseSpec

-----------------------------------------------------------------------------
(* Events.                                                                 *)

LEMMA EventKinds ==
    ASSUME NEW e \in Event
    PROVE  /\ e.type = "UpSessionReady" => e.slot \in Slot /\ e.session \in Up
           /\ e.type = "UpSessionInitFailed" => e.slot \in Slot
           /\ e.type = "UpSessionBroken" => e.slot \in Slot
           /\ e.type = "SetUpSession" => e.session \in PoolSession
           /\ e.type = "AddDownSession" => e.session \in Miner /\ e = EventAddDownSession(e.session)
           /\ e.type = "DownSessionBroken" =>
                 e.sessionID \in Nat /\ e = EventDownSessionBroken(e.sessionID)
           /\ e.type = "UpdateMinerNum" => e.slot \in Slot /\ e.counter \in Nat
           /\ e.type = "UpdateFakeMinerNum" => e.counter \in Nat
           /\ e.type = "StopUpSessionManager" => e.subAccount \in Account
           /\ e.type = "Exit" => e = EventExit
BY DEF Event, EventExit, EventPoolNotReady, EventConnBroken, EventTransferDownSessions,
       EventSendUpdateMinerNum, EventAddDownSession, EventDownSessionBroken

LEMMA PlainEvents ==
    /\ EventExit \in Event /\ EventExit.type = "Exit"
    /\ EventPoolNotReady \in Event /\ EventPoolNotReady.type = "PoolNotReady"
    /\ EventConnBroken \in Event /\ EventConnBroken.type = "ConnBroken"
    /\ EventTransferDownSessions \in Event
    /\ EventTransferDownSessions.type = "TransferDownSessions"
    /\ EventSendUpdateMinerNum \in Event
    /\ EventSendUpdateMinerNum.type = "SendUpdateMinerNum"
BY DEF Event, EventExit, EventPoolNotReady, EventConnBroken, EventTransferDownSessions,
       EventSendUpdateMinerNum

LEMMA SlotEvents ==
    ASSUME NEW s \in Slot
    PROVE  /\ EventUpSessionInitFailed(s) \in Event
           /\ EventUpSessionInitFailed(s).type = "UpSessionInitFailed"
           /\ EventUpSessionBroken(s) \in Event
           /\ EventUpSessionBroken(s).type = "UpSessionBroken"
           /\ \A u \in Up : /\ EventUpSessionReady(s, u) \in Event
                            /\ EventUpSessionReady(s, u).type = "UpSessionReady"
           /\ \A n \in Nat : /\ EventUpdateMinerNum(s, n) \in Event
                             /\ EventUpdateMinerNum(s, n).type = "UpdateMinerNum"
BY DEF Event, EventUpSessionInitFailed, EventUpSessionBroken, EventUpSessionReady, EventUpdateMinerNum

LEMMA SessionEvents ==
    /\ \A p \in PoolSession : /\ EventSetUpSession(p) \in Event
                              /\ EventSetUpSession(p).type = "SetUpSession"
    /\ \A d \in Miner : /\ EventAddDownSession(d) \in Event
                        /\ EventAddDownSession(d).type = "AddDownSession"
                        /\ EventAddDownSession(d).session = d
    /\ \A id \in Nat : /\ EventDownSessionBroken(id) \in Event
                       /\ EventDownSessionBroken(id).type = "DownSessionBroken"
                       /\ EventDownSessionBroken(id).sessionID = id
    /\ \A n \in Nat : /\ EventUpdateFakeMinerNum(n) \in Event
                      /\ EventUpdateFakeMinerNum(n).type = "UpdateFakeMinerNum"
    /\ \A a \in Account : /\ EventStopUpSessionManager(a) \in Event
                          /\ EventStopUpSessionManager(a).type = "StopUpSessionManager"
BY DEF Event, EventSetUpSession, EventAddDownSession, EventDownSessionBroken,
       EventUpdateFakeMinerNum, EventStopUpSessionManager

-----------------------------------------------------------------------------
(* What handlers send.                                                     *)

LEMMA ExitPosts ==
    ASSUME NEW STATE S, S \subseteq Actor
    PROVE  /\ OneEach([p \in S |-> <<EventExit>>])
           /\ Posts([p \in S |-> <<EventExit>>]) = {<<p, EventExit>> : p \in S}
<1> DEFINE sends == [p \in S |-> <<EventExit>>]
<1>1. DOMAIN sends = S /\ \A p \in S : sends[p] = <<EventExit>> /\ Head(sends[p]) = EventExit
    OBVIOUS
<1> HIDE DEF sends
<1>2. OneEach(sends)
    BY <1>1, PlainEvents DEF OneEach
<1>3. Posts(sends) = {<<p, EventExit>> : p \in S}
    BY <1>1 DEF Posts
<1> QED
    BY <1>2, <1>3 DEF sends

-----------------------------------------------------------------------------
(* The type invariant, strengthened until it is inductive.                 *)

\* What the parts know of a miner once it is announced: an id and an account.
Known == {d \in Miner : sessionID[d] \in SessionIds /\ subAccount[d] \in Account}

\* Those of them that are closed.
Closed == {d \in Known : downStat[d] = "disconnected"}

\* Only known miners are passed on, and only closed ones are told to be broken.
Messages == {m \in Actor \X Event :
                /\ m[2].type = "AddDownSession" => m[2].session \in Known
                /\ m[2].type = "DownSessionBroken" =>
                      \E d \in Closed : sessionID[d] = m[2].sessionID}

MailInv == Mail(chan, spawned, Messages)

DownInv ==
    /\ subAccount \in [Miner -> Account \cup {None}]
    /\ upSession \in [Miner -> PoolSession \cup {None}]
    /\ \A d \in Miner : RunLoop(d) => subAccount[d] \in Account
    /\ \A d \in Miner : downStat[d] = "none" => sessionID[d] = NoID
UpInv ==
    /\ upStat \in [Up -> {"none", "authorized", "disconnected"}]
    /\ upMgr \in [Up -> Mgr \cup {None}]
    /\ upSlot \in [Up -> Slot \cup {0}]
    /\ \A u \in Up : UpLoop(u) => upMgr[u] \in Mgr /\ upSlot[u] \in Slot

\* Every miner of a map stands under its own id.
ByOwnId(f) == \A id \in DOMAIN f : sessionID[f[id]] = id

MapInv ==
    /\ DOMAIN downSessions = PoolSession
    /\ \A p \in PoolSession : /\ DOMAIN downSessions[p] \subseteq Nat
                              /\ Served(p) \subseteq Known
                              /\ IsFiniteSet(Served(p))
                              /\ ByOwnId(downSessions[p])
    /\ disconnected \in [PoolSession -> Nat]

LoopsInv ==
    /\ fakeLoop \subseteq Mgr
    /\ mgrLoop \subseteq Mgr
    /\ mgrAccount \in [Mgr -> Account \cup {None}]
    /\ \A m \in mgrLoop \cup fakeLoop : mgrAccount[m] \in Account

SlotInv ==
    /\ ready \in [Mgr -> [Slot -> BOOLEAN]]
    /\ slotSession \in [Mgr -> [Slot -> Up \cup {None}]]
    /\ \A m \in Mgr : \A s \in ReadySlots(m) : slotSession[m][s] \in Up

CountInv ==
    /\ minerNum \in [Mgr -> [Slot -> Int]]
    /\ fakeMinerNum \in [Mgr -> Int]
    /\ initSuccess \subseteq Mgr
    /\ initFailureCounter \in [Mgr -> Nat]
    /\ connecting \in [Mgr -> [Slot -> Nat]]

MgrInv == LoopsInv /\ SlotInv /\ CountInv

TypeInv == LeaseInv /\ MailInv /\ DownInv /\ UpInv /\ MapInv /\ MgrInv /\ SMTypeOK

LEMMA InitTypeInv == Init => TypeInv
<1> SUFFICES ASSUME Init PROVE TypeInv
    OBVIOUS
<1>1. LeaseInv
    BY InitLeaseInv
<1>2. MailInv
    <2>1. chan = [a \in Actor |-> <<>>] /\ spawned = EmptyBag
        BY DEF Init, MailInit
    <2>2. DOMAIN spawned = {} /\ IsABag(spawned)
        BY <2>1 DEF EmptyBag, SetToBag, IsABag
    <2>3. \A a \in Actor : DOMAIN chan[a] = {}
        BY <2>1
    <2> QED
        BY <2>1, <2>2, <2>3, EmptyIsSequence DEF MailInv, Mail, IsChan
<1>3. DownInv
    BY DEF Init, DownInit, DownInv, RunLoop
<1>4. UpInv
    BY DEF Init, UpInit, UpInv, UpLoop
<1>5. MapInv
    <2>1. \A p \in PoolSession : DOMAIN downSessions[p] = {} /\ Served(p) = {} /\ ByOwnId(downSessions[p])
        BY DEF Init, MapInit, NoMiners, Served, ByOwnId
    <2> QED
        BY <2>1, FS_EmptySet DEF Init, MapInit, MapInv
<1>6. LoopsInv /\ CountInv
    BY DEF Init, MgrInit, FakeInit, LoopsInv, CountInv
<1>7. SlotInv
    BY DEF Init, MgrInit, SlotInv, ReadySlots
<1>8. SMTypeOK
    BY DEF Init, SMInit, SMTypeOK
<1> QED
    BY <1>1, <1>2, <1>3, <1>4, <1>5, <1>6, <1>7, <1>8 DEF TypeInv, MgrInv

-----------------------------------------------------------------------------
(* What every step leaves as it is.                                        *)

Fresh(d) == downStat[d] \in {"none", "refused", "connected"}

\* What every step keeps of the miners that are known.
KnownKept ==
    /\ Known \subseteq Known'
    /\ Closed \subseteq Closed'
    /\ \A d \in Known : sessionID'[d] = sessionID[d]

\* A miner that is known stays known and keeps its id, one that is closed stays
\* closed, and one that was announced stays so.
LEMMA KnownStays ==
    ASSUME LeaseInv, DownInv, [Next]_vars
    PROVE  KnownKept /\ \A d \in Miner : Fresh(d)' => Fresh(d)
<1> USE DEF KnownKept, Closed
<1>1. sessionID \in [Miner -> SessionIds \cup {NoID}] /\ downStat \in [Miner -> DownStat]
    BY DEF LeaseInv
<1>2. ASSUME NEW d \in Miner, MinerStep(d)
      PROVE  /\ \/ sessionID' = sessionID
                \/ downStat[d] = "none" /\ \E id \in SessionIds : sessionID' = [sessionID EXCEPT ![d] = id]
             /\ subAccount' = subAccount \/ \E a \in Account : subAccount' = [subAccount EXCEPT ![d] = a]
             /\ \/ downStat' = downStat
                \/ Fresh(d) /\ \E st \in DownStat : downStat' = [downStat EXCEPT ![d] = st]
                \/ RunLoop(d) /\ downStat' = [downStat EXCEPT ![d] = "stranded"]
    BY <1>2 DEF MinerStep, RunDownSession, RunDownSessionRefused, Authorize, InitConnBroken, LoginAgain,
                MinerLeaves, Close, downVars, Fresh, InitLoop, DownStat
<1>3. ASSUME NEW d \in Miner, DownHandles(d)
      PROVE  /\ sessionID' = sessionID
             /\ subAccount' = subAccount
             /\ \/ downStat' = downStat
                \/ downStat' = [downStat EXCEPT ![d] = "disconnected"]
    BY <1>3 DEF DownHandles, ConnBroken, Exit, SetUpSession, Close
<1>4. \/ \E d \in Miner : MinerStep(d) \/ DownHandles(d)
      \/ UNCHANGED <<downStat, sessionID, subAccount>>
    BY DEF Next, Environment, Agents, MinerActs, DownRuns, PoolActs, ConnectRefused, OperatorActs, UpRuns,
           FakeRuns, MgrRuns, SMRuns, Connects, SenderRuns, vars, downVars
<1>5. CASE UNCHANGED <<downStat, sessionID, subAccount>>
    BY <1>5 DEF Known, Fresh
<1>6. CASE \E d \in Miner : MinerStep(d)
    <2>1. PICK d \in Miner : MinerStep(d)
        BY <1>6
    <2>2. \A e \in Known : sessionID'[e] = sessionID[e]
        BY <1>1, <1>2, <2>1, NoIDAssumption DEF Known, DownInv
    <2>3. \A e \in Miner : subAccount[e] \in Account => subAccount'[e] \in Account
        BY <1>2, <2>1 DEF DownInv
    <2>4. Known \subseteq Known'
        BY <2>2, <2>3 DEF Known
    <2>5. \A e \in Miner : /\ downStat[e] = "disconnected" => downStat'[e] = "disconnected"
                           /\ Fresh(e)' => Fresh(e)
        BY <1>1, <1>2, <2>1 DEF Fresh, RunLoop
    <2>6. \A e \in Known : e \in Miner
        BY DEF Known
    <2>7. Closed \subseteq Closed'
        BY <2>4, <2>5, <2>6
    <2> QED
        BY <2>2, <2>4, <2>5, <2>7
<1>7. CASE \E d \in Miner : DownHandles(d)
    BY <1>1, <1>3, <1>7 DEF Known, Fresh
<1> QED
    BY <1>4, <1>5, <1>6, <1>7

-----------------------------------------------------------------------------
(* The messages of every action.                                           *)

LEMMA Actors ==
    /\ SM \in Actor /\ Miner \subseteq Actor /\ Mgr \subseteq Actor /\ PoolSession \subseteq Actor
    /\ Up \subseteq PoolSession /\ \A m \in Mgr : Fake(m) \in PoolSession
BY DEF Actor, PoolSession

LEMMA Received ==
    ASSUME MailInv, NEW a \in Actor, NEW t, Receives(a, t)
    PROVE  /\ IsChan(chan) /\ IsABag(spawned)
           /\ chan[a] # <<>> /\ Head(chan[a]) \in Event /\ Head(chan[a]).type = t
           /\ <<a, Head(chan[a])>> \in Messages
           /\ t = "AddDownSession" => Head(chan[a]).session \in Known
<1>1. IsChan(chan) /\ IsABag(spawned)
    BY DEF MailInv, Mail
<1>2. chan[a] # <<>> /\ Head(chan[a]).type = t
    BY DEF Receives
<1>3. 1 \in DOMAIN chan[a] /\ Head(chan[a]) = chan[a][1]
    BY <1>1, <1>2, TakenChannel
<1>4. <<a, Head(chan[a])>> \in Messages
    BY <1>3 DEF MailInv, Mail
<1> QED
    BY <1>1, <1>2, <1>4 DEF Messages

LEMMA HandlerPasses ==
    ASSUME MailInv, NEW a \in Actor, NEW t, Receives(a, t), NEW STATE sends, NEW STATE P,
           OneEach(sends), Posts(sends) \cap P = {}, Handles(a, sends, P)
    PROVE  Passes({<<a, Head(chan[a])>>}, Posts(sends) \cup P)
<1>1. IsChan(chan) /\ IsABag(spawned) /\ chan[a] # <<>>
    BY Received
<1> QED
    BY <1>1, HandlesPasses

\* Handlers without a plain SendEvent, and those with one and no other sends.
LEMMA SpawnsPasses ==
    ASSUME MailInv, NEW a \in Actor, NEW t, Receives(a, t), NEW STATE P, Handles(a, Nothing, P)
    PROVE  Passes({<<a, Head(chan[a])>>}, P)
<1>1. Posts(Nothing) \cap P = {} /\ Posts(Nothing) \cup P = P /\ OneEach(Nothing)
    BY NothingPosts
<1>2. Passes({<<a, Head(chan[a])>>}, Posts(Nothing) \cup P)
    BY <1>1, HandlerPasses
<1> QED
    BY <1>1, <1>2

LEMMA ToPasses ==
    ASSUME MailInv, NEW a \in Actor, NEW t, Receives(a, t),
           NEW STATE b, b \in Actor, NEW STATE e, e \in Event, Handles(a, To(b, e), {})
    PROVE  Passes({<<a, Head(chan[a])>>}, {<<b, e>>})
<1>1. OneEach(To(b, e)) /\ Posts(To(b, e)) = {<<b, e>>}
    BY ToPosts
<1>2. Posts(To(b, e)) \cap {} = {} /\ Posts(To(b, e)) \cup {} = {<<b, e>>}
    BY <1>1
<1>3. Passes({<<a, Head(chan[a])>>}, Posts(To(b, e)) \cup {})
    BY <1>1, <1>2, HandlerPasses
<1> QED
    BY <1>2, <1>3

LEMMA ToAndSpawnsPasses ==
    ASSUME MailInv, NEW a \in Actor, NEW t, Receives(a, t),
           NEW STATE b, b \in Actor, NEW STATE e, e \in Event, NEW STATE P,
           <<b, e>> \notin P, Handles(a, To(b, e), P)
    PROVE  Passes({<<a, Head(chan[a])>>}, {<<b, e>>} \cup P)
<1>1. OneEach(To(b, e)) /\ Posts(To(b, e)) = {<<b, e>>}
    BY ToPosts
<1>2. Posts(To(b, e)) \cap P = {} /\ Posts(To(b, e)) \cup P = {<<b, e>>} \cup P
    BY <1>1
<1>3. Passes({<<a, Head(chan[a])>>}, Posts(To(b, e)) \cup P)
    BY <1>1, <1>2, HandlerPasses
<1> QED
    BY <1>2, <1>3

LEMMA ExitPasses ==
    ASSUME MailInv, NEW a \in Actor, NEW t, Receives(a, t), NEW STATE S, S \subseteq Actor,
           Handles(a, [p \in S |-> <<EventExit>>], {})
    PROVE  Passes({<<a, Head(chan[a])>>}, {<<p, EventExit>> : p \in S})
<1> DEFINE sends == [p \in S |-> <<EventExit>>]
<1>1. OneEach(sends) /\ Posts(sends) = {<<p, EventExit>> : p \in S}
    BY ExitPosts
<1>2. Handles(a, sends, {})
    OBVIOUS
<1> HIDE DEF sends
<1>3. Posts(sends) \cap {} = {} /\ Posts(sends) \cup {} = {<<p, EventExit>> : p \in S}
    BY <1>1
<1>4. Passes({<<a, Head(chan[a])>>}, Posts(sends) \cup {})
    BY <1>1, <1>2, <1>3, HandlerPasses
<1> QED
    BY <1>3, <1>4

\* What is sent without an event before.
LEMMA SpawnsOnePasses ==
    ASSUME MailInv, NEW STATE P, Sends(Nothing, P)
    PROVE  Passes({}, P)
<1>1. Posts(Nothing) \cap P = {} /\ Posts(Nothing) \cup P = P /\ OneEach(Nothing)
    BY NothingPosts
<1>2. IsChan(chan) /\ IsABag(spawned)
    BY DEF MailInv, Mail
<1>3. Passes({}, Posts(Nothing) \cup P)
    BY <1>1, <1>2, SendsPasses
<1> QED
    BY <1>1, <1>3

LEMMA SendsOnePasses ==
    ASSUME MailInv, NEW STATE b, b \in Actor, NEW STATE e, e \in Event, Sends(To(b, e), {})
    PROVE  Passes({}, {<<b, e>>})
<1>1. OneEach(To(b, e)) /\ Posts(To(b, e)) = {<<b, e>>}
    BY ToPosts
<1>2. Posts(To(b, e)) \cap {} = {} /\ Posts(To(b, e)) \cup {} = {<<b, e>>}
    BY <1>1
<1>3. IsChan(chan) /\ IsABag(spawned)
    BY DEF MailInv, Mail
<1>4. Passes({}, Posts(To(b, e)) \cup {})
    BY <1>1, <1>2, <1>3, SendsPasses
<1> QED
    BY <1>2, <1>4

LEMMA MessagesKept == KnownKept => Messages \subseteq Messages'
BY DEF KnownKept, Closed, Messages

LEMMA PassesMail ==
    ASSUME MailInv, KnownKept, NEW ACTION in, NEW ACTION out,
           Passes(in, out), out \subseteq Messages'
    PROVE  MailInv'
<1>1. Messages \subseteq Messages'
    BY MessagesKept
<1>2. Mail(chan, spawned, Messages')
    BY <1>1 DEF MailInv, Mail
<1>3. Mail(chan', spawned', Messages')
    BY <1>2 DEF Passes
<1> QED
    BY <1>3 DEF MailInv

\* Events that are about no miner may be sent to any part.
LEMMA OtherMessages ==
    ASSUME NEW a \in Actor, NEW e \in Event, e.type \notin {"AddDownSession", "DownSessionBroken"}
    PROVE  <<a, e>> \in Messages
BY DEF Messages

LEMMA AddMessages ==
    ASSUME NEW a \in Actor, NEW d \in Known
    PROVE  <<a, EventAddDownSession(d)>> \in Messages
BY SessionEvents DEF Messages, Known

-----------------------------------------------------------------------------
(* The miner's session.                                                    *)

LEMMA AuthorizeMail ==
    ASSUME TypeInv, NEW d \in Miner, Authorize(d)
    PROVE  /\ Passes({}, {<<SM, EventAddDownSession(d)>>})
           /\ d \in Known' /\ Fresh(d) /\ ~Fresh(d)'
<1>1. MailInv /\ LeaseInv /\ DownInv
    BY DEF TypeInv
<1>2. Passes({}, {<<SM, EventAddDownSession(d)>>})
    BY <1>1, SpawnsOnePasses DEF Authorize
<1>3. Live(d) /\ sessionID[d] \in SessionIds /\ sessionID' = sessionID
    BY <1>1 DEF Authorize, Live, LeaseInv
<1>4. \E a \in Account : subAccount' = [subAccount EXCEPT ![d] = a]
    BY DEF Authorize
<1>5. d \in Known'
    BY <1>1, <1>3, <1>4 DEF DownInv, Known
<1>6. Fresh(d) /\ ~Fresh(d)'
    BY <1>1 DEF Authorize, InitLoop, Fresh, LeaseInv
<1> QED
    BY <1>2, <1>5, <1>6

LEMMA ConnBrokenMail ==
    ASSUME TypeInv, NEW d \in Miner, ConnBroken(d)
    PROVE  /\ Passes({<<d, Head(chan[d])>>}, Broken(d))
           /\ Broken(d) \subseteq Messages'
           /\ Head(chan[d]).type = "ConnBroken"
           /\ \A m \in Broken(d) : m[2] = EventDownSessionBroken(sessionID[d])
<1>1. MailInv /\ LeaseInv /\ DownInv
    BY DEF TypeInv
<1>2. d \in Actor /\ Receives(d, "ConnBroken") /\ Handles(d, Nothing, Broken(d))
    BY Actors DEF ConnBroken
<1>3. Passes({<<d, Head(chan[d])>>}, Broken(d)) /\ Head(chan[d]).type = "ConnBroken"
    BY <1>1, <1>2, SpawnsPasses, Received
<1>4. sessionID[d] \in Nat
    BY <1>1, IdAssumption DEF ConnBroken, Live, LeaseInv, SessionIds
<1>5. d \in Closed' /\ sessionID'[d] = sessionID[d]
    <2>1. /\ RunLoop(d) /\ sessionID' = sessionID /\ subAccount' = subAccount
          /\ downStat' = [downStat EXCEPT ![d] = "disconnected"]
        BY DEF ConnBroken, Close
    <2>2. d \in Known
        BY <1>1, <2>1 DEF DownInv, LeaseInv, Live, Known
    <2>3. Known' = Known /\ downStat'[d] = "disconnected"
        BY <1>1, <2>1 DEF LeaseInv, Known
    <2> QED
        BY <2>1, <2>2, <2>3 DEF Closed
<1>6. ASSUME NEW m \in Broken(d)
      PROVE  m \in Messages' /\ m[2] = EventDownSessionBroken(sessionID[d])
    <2>1. upSession[d] # None /\ m = <<upSession[d], EventDownSessionBroken(sessionID[d])>>
        BY <1>6 DEF Broken
    <2>2. upSession[d] \in Actor
        BY <1>1, <2>1, Actors DEF DownInv
    <2>3. /\ EventDownSessionBroken(sessionID[d]) \in Event
          /\ EventDownSessionBroken(sessionID[d]).type = "DownSessionBroken"
          /\ EventDownSessionBroken(sessionID[d]).sessionID = sessionID[d]
        BY <1>4, SessionEvents DEF EventDownSessionBroken
    <2> QED
        BY <1>5, <2>1, <2>2, <2>3 DEF Messages
<1> QED
    BY <1>3, <1>6

LEMMA ExitMail ==
    ASSUME TypeInv, NEW d \in Miner, Exit(d)
    PROVE  /\ Passes({<<d, Head(chan[d])>>}, {})
           /\ Head(chan[d]).type \in {"Exit", "PoolNotReady"}
<1>1. MailInv /\ d \in Actor /\ Handles(d, Nothing, {})
    BY Actors DEF TypeInv, Exit
<1>2. PICK t \in {"Exit", "PoolNotReady"} : Receives(d, t)
    BY DEF Exit
<1> QED
    BY <1>1, <1>2, SpawnsPasses, Received

LEMMA SetUpSessionMail ==
    ASSUME TypeInv, NEW d \in Miner, SetUpSession(d)
    PROVE  /\ Passes({<<d, Head(chan[d])>>}, {<<Head(chan[d]).session, EventAddDownSession(d)>>})
           /\ Head(chan[d]).type = "SetUpSession"
           /\ Head(chan[d]).session \in PoolSession
           /\ d \in Known
<1> DEFINE up == Head(chan[d]).session
<1>1. MailInv /\ d \in Actor /\ Receives(d, "SetUpSession")
    BY Actors DEF TypeInv, SetUpSession
<1>2. Head(chan[d]) \in Event /\ Head(chan[d]).type = "SetUpSession"
    BY <1>1, Received
<1>3. up \in PoolSession
    BY <1>2, EventKinds
<1>4. Handles(d, To(up, EventAddDownSession(d)), {})
    BY DEF SetUpSession
<1>5. up \in Actor /\ EventAddDownSession(d) \in Event
    BY <1>3, Actors, SessionEvents
<1> HIDE DEF up
<1>6. Passes({<<d, Head(chan[d])>>}, {<<up, EventAddDownSession(d)>>})
    BY <1>1, <1>4, <1>5, ToPasses
<1>7. d \in Known
    BY DEF TypeInv, SetUpSession, DownInv, LeaseInv, Live, Known
<1> QED
    BY <1>2, <1>3, <1>6, <1>7 DEF up

LEMMA MinerLeavesMail ==
    ASSUME TypeInv, NEW d \in Miner, MinerLeaves(d)
    PROVE  Passes({}, {<<d, EventConnBroken>>})
<1>1. MailInv /\ d \in Actor /\ EventConnBroken \in Event
    BY Actors, PlainEvents DEF TypeInv
<1> QED
    BY <1>1, SendsOnePasses DEF MinerLeaves

\* Types after the steps of the miner and its session.
LEMMA DownInvStays ==
    ASSUME TypeInv, NEW d \in Miner, MinerStep(d) \/ DownHandles(d)
    PROVE  DownInv'
<1>1. /\ subAccount \in [Miner -> Account \cup {None}]
      /\ upSession \in [Miner -> PoolSession \cup {None}]
      /\ \A c \in Miner : RunLoop(c) => subAccount[c] \in Account
      /\ \A c \in Miner : downStat[c] = "none" => sessionID[c] = NoID
      /\ downStat \in [Miner -> DownStat] /\ sessionID \in [Miner -> SessionIds \cup {NoID}]
    BY DEF TypeInv, DownInv, LeaseInv
<1>2. CASE Authorize(d)
    BY <1>1, <1>2 DEF Authorize, DownInv, RunLoop
<1>3. CASE LoginAgain(d)
    BY <1>1, <1>3 DEF LoginAgain, DownInv, RunLoop
<1>4. CASE RunDownSession(d) \/ RunDownSessionRefused(d)
    BY <1>1, <1>4 DEF RunDownSession, RunDownSessionRefused, DownInv, RunLoop
<1>5. CASE InitConnBroken(d) \/ ConnBroken(d) \/ Exit(d)
    BY <1>1, <1>5 DEF InitConnBroken, ConnBroken, Exit, Close, DownInv, RunLoop
<1>6. CASE MinerLeaves(d)
    BY <1>1, <1>6 DEF MinerLeaves, downVars, DownInv, RunLoop
<1>7. CASE SetUpSession(d)
    BY <1>1, <1>7, SetUpSessionMail DEF SetUpSession, DownInv, RunLoop
<1> QED
    BY <1>2, <1>3, <1>4, <1>5, <1>6, <1>7 DEF MinerStep, DownHandles

LEMMA DownMailStays ==
    ASSUME TypeInv, NEW d \in Miner, MinerStep(d) \/ DownHandles(d), KnownKept
    PROVE  MailInv'
<1>0. MailInv /\ Messages \subseteq Messages'
    BY MessagesKept DEF TypeInv
<1>1. CASE Authorize(d)
    <2>1. <<SM, EventAddDownSession(d)>> \in Messages'
        BY <1>1, AuthorizeMail, SessionEvents, Actors DEF Messages
    <2> QED
        BY <1>0, <1>1, <2>1, AuthorizeMail, PassesMail
<1>2. CASE ConnBroken(d)
    BY <1>0, <1>2, ConnBrokenMail, PassesMail
<1>3. CASE Exit(d)
    <2>1. Passes({<<d, Head(chan[d])>>}, {}) /\ {} \subseteq Messages'
        BY <1>3, ExitMail
    <2> QED
        BY <1>0, <2>1, PassesMail
<1>4. CASE SetUpSession(d)
    <2>1. <<Head(chan[d]).session, EventAddDownSession(d)>> \in Messages
        BY <1>4, SetUpSessionMail, AddMessages, Actors
    <2> QED
        BY <1>0, <1>4, <2>1, SetUpSessionMail, PassesMail
<1>5. CASE MinerLeaves(d)
    <2>1. <<d, EventConnBroken>> \in Messages
        BY OtherMessages, Actors, PlainEvents
    <2> QED
        BY <1>0, <1>5, <2>1, MinerLeavesMail, PassesMail
<1>6. CASE RunDownSession(d) \/ RunDownSessionRefused(d) \/ InitConnBroken(d) \/ LoginAgain(d)
    <2>1. UNCHANGED mailVars
        BY <1>6 DEF RunDownSession, RunDownSessionRefused, InitConnBroken, LoginAgain
    <2> QED
        BY <1>0, <2>1, QuietPasses, PassesMail
<1> QED
    BY <1>1, <1>2, <1>3, <1>4, <1>5, <1>6 DEF MinerStep, DownHandles

-----------------------------------------------------------------------------
(* The pool sessions.                                                      *)

\* What close sends for miners that the session knows.
LEMMA UpClosePendingIs ==
    ASSUME NEW u \in Up, upMgr[u] \in Mgr, NEW STATE ds, ds \subseteq Known
    PROVE  /\ UpClosePending(u, ds) \subseteq Messages
           /\ \A m \in UpClosePending(u, ds) : m[2].type \in {"AddDownSession", "Exit"}
<1>1. ASSUME NEW d \in ds
      PROVE  /\ <<upMgr[u], EventAddDownSession(d)>> \in Messages
             /\ EventAddDownSession(d).type = "AddDownSession"
             /\ <<d, EventExit>> \in Messages
             /\ EventExit.type = "Exit"
    <2>1. d \in Known /\ d \in Actor /\ upMgr[u] \in Actor
        BY Actors DEF Known
    <2> QED
        BY <2>1, AddMessages, OtherMessages, PlainEvents, SessionEvents DEF Known
<1>2. ASSUME NEW m \in UpClosePending(u, ds)
      PROVE  m \in Messages /\ m[2].type \in {"AddDownSession", "Exit"}
    <2>1. PICK d \in ds : m = <<upMgr[u], EventAddDownSession(d)>> \/ m = <<d, EventExit>>
        BY <1>2 DEF UpClosePending
    <2>2. CASE m = <<upMgr[u], EventAddDownSession(d)>>
        <3>1. m[2] = EventAddDownSession(d)
            BY <2>2
        <3> QED
            BY <1>1, <2>2, <3>1
    <2>3. CASE m = <<d, EventExit>>
        <3>1. m[2] = EventExit
            BY <2>3
        <3> QED
            BY <1>1, <2>3, <3>1
    <2> QED
        BY <2>1, <2>2, <2>3
<1> QED
    BY <1>2

\* The message of a session that breaks.
LEMMA UpCloseSendsIs ==
    ASSUME TypeInv, NEW u \in Up, UpLoop(u)
    PROVE  /\ upMgr[u] \in Mgr /\ upMgr[u] \in Actor /\ upSlot[u] \in Slot
           /\ EventUpSessionBroken(upSlot[u]) \in Event
           /\ EventUpSessionBroken(upSlot[u]).type = "UpSessionBroken"
           /\ <<upMgr[u], EventUpSessionBroken(upSlot[u])>> \in Messages
<1>1. upMgr[u] \in Mgr /\ upMgr[u] \in Actor /\ upSlot[u] \in Slot
    BY Actors DEF TypeInv, UpInv
<1>2. /\ EventUpSessionBroken(upSlot[u]) \in Event
      /\ EventUpSessionBroken(upSlot[u]).type = "UpSessionBroken"
    BY <1>1, SlotEvents
<1> QED
    BY <1>1, <1>2, OtherMessages

LEMMA TimerIs ==
    ASSUME NEW p \in PoolSession
    PROVE  /\ Timer(p) \subseteq Messages
           /\ \A m \in Timer(p) : m[2] = EventSendUpdateMinerNum
<1>1. p \in Actor /\ EventSendUpdateMinerNum \in Event /\ EventSendUpdateMinerNum.type = "SendUpdateMinerNum"
    BY Actors, PlainEvents
<1>2. <<p, EventSendUpdateMinerNum>> \in Messages
    BY <1>1, OtherMessages
<1> QED
    BY <1>2 DEF Timer

\* A session that closes in the handler of an event of type t, with the miners
\* ds in its map and other messages Q on the way.
LEMMA ClosingMail ==
    ASSUME TypeInv, NEW u \in Up, UpLoop(u), NEW t, Receives(u, t),
           NEW STATE ds, ds \subseteq Known, NEW STATE Q, \A m \in Q : m[2] = EventSendUpdateMinerNum,
           Handles(u, UpCloseSends(u), Q \cup UpClosePending(u, ds))
    PROVE  Passes({<<u, Head(chan[u])>>},
                  {<<upMgr[u], EventUpSessionBroken(upSlot[u])>>} \cup (Q \cup UpClosePending(u, ds)))
<1> DEFINE P == Q \cup UpClosePending(u, ds)
<1>1. /\ upMgr[u] \in Mgr /\ upMgr[u] \in Actor
      /\ EventUpSessionBroken(upSlot[u]) \in Event
      /\ EventUpSessionBroken(upSlot[u]).type = "UpSessionBroken"
    BY UpCloseSendsIs
<1>2. \A m \in P : m[2].type \in {"AddDownSession", "Exit", "SendUpdateMinerNum"}
    BY <1>1, UpClosePendingIs, PlainEvents
<1>3. Handles(u, To(upMgr[u], EventUpSessionBroken(upSlot[u])), P)
    BY DEF UpCloseSends
<1> HIDE DEF P
<1>4. <<upMgr[u], EventUpSessionBroken(upSlot[u])>> \notin P
    BY <1>1, <1>2
<1>5. MailInv /\ u \in Actor
    BY Actors DEF TypeInv
<1>6. Passes({<<u, Head(chan[u])>>}, {<<upMgr[u], EventUpSessionBroken(upSlot[u])>>} \cup P)
    BY <1>1, <1>3, <1>4, <1>5, ToAndSpawnsPasses
<1> QED
    BY <1>6 DEF P

LEMMA UpConnBrokenMail ==
    ASSUME TypeInv, NEW u \in Up, UpConnBroken(u)
    PROVE  /\ Passes({<<u, Head(chan[u])>>},
                     {<<upMgr[u], EventUpSessionBroken(upSlot[u])>>} \cup UpClosePending(u, Served(u)))
           /\ Head(chan[u]).type = "ConnBroken"
<1>1. UpLoop(u) /\ Receives(u, "ConnBroken") /\ Served(u) \subseteq Known /\ MailInv /\ u \in Actor
    BY Actors DEF UpConnBroken, TypeInv, MapInv
<1>2. {} \cup UpClosePending(u, Served(u)) = UpClosePending(u, Served(u))
    OBVIOUS
<1>3. Handles(u, UpCloseSends(u), {} \cup UpClosePending(u, Served(u)))
    BY <1>2 DEF UpConnBroken
<1>4. Passes({<<u, Head(chan[u])>>},
             {<<upMgr[u], EventUpSessionBroken(upSlot[u])>>} \cup ({} \cup UpClosePending(u, Served(u))))
    BY <1>1, <1>3, ClosingMail
<1> QED
    BY <1>1, <1>2, <1>4, Received

LEMMA UpExitMail ==
    ASSUME TypeInv, NEW u \in Up, UpExit(u)
    PROVE  /\ Passes({<<u, Head(chan[u])>>}, UpClosePending(u, Served(u)))
           /\ Head(chan[u]).type = "Exit"
<1>1. MailInv /\ u \in Actor /\ Receives(u, "Exit") /\ Handles(u, Nothing, UpClosePending(u, Served(u)))
    BY Actors DEF UpExit, TypeInv
<1> QED
    BY <1>1, SpawnsPasses, Received

LEMMA UpSendUpdateMinerNumMail ==
    ASSUME TypeInv, NEW u \in Up, UpSendUpdateMinerNum(u)
    PROVE  /\ Passes({<<u, Head(chan[u])>>},
                     {<<upMgr[u], EventUpdateMinerNum(upSlot[u], disconnected[u])>>})
           /\ Head(chan[u]).type = "SendUpdateMinerNum"
           /\ upMgr[u] \in Mgr
           /\ EventUpdateMinerNum(upSlot[u], disconnected[u]) \in Event
           /\ EventUpdateMinerNum(upSlot[u], disconnected[u]).type = "UpdateMinerNum"
<1>1. MailInv /\ u \in Actor /\ Receives(u, "SendUpdateMinerNum")
    BY Actors DEF UpSendUpdateMinerNum, TypeInv
<1>2. Handles(u, Nothing, {<<upMgr[u], EventUpdateMinerNum(upSlot[u], disconnected[u])>>})
    BY DEF UpSendUpdateMinerNum
<1>3. upMgr[u] \in Mgr /\ upSlot[u] \in Slot /\ disconnected[u] \in Nat
    BY DEF TypeInv, UpInv, UpSendUpdateMinerNum, MapInv, PoolSession
<1>4. /\ EventUpdateMinerNum(upSlot[u], disconnected[u]) \in Event
      /\ EventUpdateMinerNum(upSlot[u], disconnected[u]).type = "UpdateMinerNum"
    BY <1>3, SlotEvents
<1> QED
    BY <1>1, <1>2, <1>3, <1>4, SpawnsPasses, Received

LEMMA PoolBreaksMail ==
    ASSUME TypeInv, NEW u \in Up, PoolBreaks(u)
    PROVE  Passes({}, {<<u, EventConnBroken>>})
<1>1. MailInv /\ u \in Actor /\ EventConnBroken \in Event
    BY Actors, PlainEvents DEF TypeInv
<1> QED
    BY <1>1, SendsOnePasses DEF PoolBreaks

-----------------------------------------------------------------------------
(* The map of miners.                                                      *)

Values(f) == {f[i] : i \in DOMAIN f}

LEMMA PutValues ==
    ASSUME NEW STATE f, NEW STATE id, NEW STATE d
    PROVE  /\ DOMAIN Put(f, id, d) = DOMAIN f \cup {id}
           /\ \A i \in DOMAIN f \ {id} : Put(f, id, d)[i] = f[i]
           /\ Put(f, id, d)[id] = d
           /\ d \in Values(Put(f, id, d))
           /\ Values(Put(f, id, d)) \subseteq Values(f) \cup {d}
           /\ \A i \in DOMAIN f \ {id} : f[i] \in Values(Put(f, id, d))
<1>1. /\ DOMAIN Put(f, id, d) = DOMAIN f \cup {id}
      /\ \A i \in DOMAIN f \ {id} : Put(f, id, d)[i] = f[i]
      /\ Put(f, id, d)[id] = d
    BY DEF Put
<1> QED
    BY <1>1 DEF Values

LEMMA DeleteValues ==
    ASSUME NEW STATE f, NEW STATE id
    PROVE  /\ DOMAIN Delete(f, id) = DOMAIN f \ {id}
           /\ \A i \in DOMAIN f \ {id} : Delete(f, id)[i] = f[i]
           /\ Values(Delete(f, id)) \subseteq Values(f)
           /\ \A i \in DOMAIN f \ {id} : f[i] \in Values(Delete(f, id))
<1>1. /\ DOMAIN Delete(f, id) = DOMAIN f \ {id}
      /\ \A i \in DOMAIN f \ {id} : Delete(f, id)[i] = f[i]
    BY DEF Delete
<1> QED
    BY <1>1 DEF Values

LEMMA ServedIsValues ==
    ASSUME NEW p
    PROVE  Served(p) = Values(downSessions[p])
BY DEF Served, Values

\* Only the map of p may have changed, and to one of known miners.
OneMap(p) ==
    /\ DOMAIN downSessions' = PoolSession
    /\ \A q \in PoolSession \ {p} : downSessions'[q] = downSessions[q]
    /\ DOMAIN downSessions'[p] \subseteq Nat
    /\ Values(downSessions'[p]) \subseteq Known
    /\ IsFiniteSet(Values(downSessions'[p]))
    /\ ByOwnId(downSessions'[p])

\* The map after the miner d has joined p, and after id has been deleted.
LEMMA JoinedMap ==
    ASSUME TypeInv, NEW p \in PoolSession, NEW d \in Known,
           downSessions' = [downSessions EXCEPT ![p] = Put(downSessions[p], sessionID[d], d)]
    PROVE  OneMap(p) /\ downSessions'[p] = Put(downSessions[p], sessionID[d], d) /\ Values(Put(downSessions[p], sessionID[d], d)) \subseteq Known
<1>1. /\ DOMAIN downSessions = PoolSession
      /\ DOMAIN downSessions[p] \subseteq Nat
      /\ Values(downSessions[p]) \subseteq Known
      /\ IsFiniteSet(Values(downSessions[p]))
      /\ ByOwnId(downSessions[p])
    BY ServedIsValues DEF TypeInv, MapInv
<1>2. sessionID[d] \in Nat
    BY IdAssumption DEF Known, SessionIds
<1>3. /\ DOMAIN downSessions' = PoolSession
      /\ \A q \in PoolSession \ {p} : downSessions'[q] = downSessions[q]
      /\ downSessions'[p] = Put(downSessions[p], sessionID[d], d)
    BY <1>1
<1> DEFINE f == Put(downSessions[p], sessionID[d], d)
<1>4. /\ DOMAIN f = DOMAIN downSessions[p] \cup {sessionID[d]}
      /\ Values(f) \subseteq Values(downSessions[p]) \cup {d}
    <2>1. \A g, id, c : /\ DOMAIN Put(g, id, c) = DOMAIN g \cup {id}
                        /\ Values(Put(g, id, c)) \subseteq Values(g) \cup {c}
        BY PutValues
    <2> QED
        BY <2>1
<1>5. downSessions'[p] = f
    BY <1>3
<1> HIDE DEF f
<1>6. DOMAIN f \subseteq Nat /\ Values(f) \subseteq Known
    BY <1>1, <1>2, <1>4
<1>7. IsFiniteSet(Values(downSessions[p]) \cup {d})
    BY <1>1, FS_AddElement
<1>8. IsFiniteSet(Values(f))
    BY <1>4, <1>7, FS_Subset
<1>9. ByOwnId(f)
    <2>1. \A i \in DOMAIN f \ {sessionID[d]} : f[i] = downSessions[p][i]
        BY DEF f, Put
    <2>2. f[sessionID[d]] = d
        BY DEF f, Put
    <2> QED
        BY <1>1, <1>4, <2>1, <2>2 DEF ByOwnId
<1>10. /\ DOMAIN downSessions'[p] \subseteq Nat
       /\ Values(downSessions'[p]) \subseteq Known
       /\ IsFiniteSet(Values(downSessions'[p]))
       /\ ByOwnId(downSessions'[p])
    BY <1>5, <1>6, <1>8, <1>9
<1> QED
    BY <1>3, <1>6, <1>10 DEF OneMap, f

LEMMA LeftMap ==
    ASSUME TypeInv, NEW p \in PoolSession, NEW STATE id,
           downSessions' = [downSessions EXCEPT ![p] = Delete(downSessions[p], id)]
    PROVE  OneMap(p) /\ downSessions'[p] = Delete(downSessions[p], id) /\ Values(Delete(downSessions[p], id)) \subseteq Known
<1>1. /\ DOMAIN downSessions = PoolSession
      /\ DOMAIN downSessions[p] \subseteq Nat
      /\ Values(downSessions[p]) \subseteq Known
      /\ IsFiniteSet(Values(downSessions[p]))
      /\ ByOwnId(downSessions[p])
    BY ServedIsValues DEF TypeInv, MapInv
<1>2. /\ DOMAIN downSessions' = PoolSession
      /\ \A q \in PoolSession \ {p} : downSessions'[q] = downSessions[q]
      /\ downSessions'[p] = Delete(downSessions[p], id)
    BY <1>1
<1> DEFINE f == Delete(downSessions[p], id)
<1>3. DOMAIN f = DOMAIN downSessions[p] \ {id} /\ Values(f) \subseteq Values(downSessions[p])
    BY DeleteValues
<1>4. downSessions'[p] = f
    BY <1>2
<1> HIDE DEF f
<1>5. DOMAIN f \subseteq Nat /\ Values(f) \subseteq Known
    BY <1>1, <1>3
<1>6. IsFiniteSet(Values(f))
    BY <1>1, <1>3, FS_Subset
<1>7. ByOwnId(f)
    <2>1. \A i \in DOMAIN f : f[i] = downSessions[p][i]
        BY DEF f, Delete
    <2> QED
        BY <1>1, <1>3, <2>1 DEF ByOwnId
<1>8. /\ DOMAIN downSessions'[p] \subseteq Nat
      /\ Values(downSessions'[p]) \subseteq Known
      /\ IsFiniteSet(Values(downSessions'[p]))
      /\ ByOwnId(downSessions'[p])
    BY <1>4, <1>5, <1>6, <1>7
<1> QED
    BY <1>2, <1>5, <1>8 DEF OneMap, f

LEMMA MapStays ==
    ASSUME NEW p \in PoolSession, OneMap(p), TypeInv, KnownKept,
           disconnected' \in [PoolSession -> Nat]
    PROVE  MapInv'
<1>1. ASSUME NEW q \in PoolSession
      PROVE  /\ DOMAIN downSessions'[q] \subseteq Nat
             /\ Values(downSessions'[q]) \subseteq Known'
             /\ IsFiniteSet(Values(downSessions'[q]))
             /\ ByOwnId(downSessions'[q])
    <2>0. Known \subseteq Known'
        BY DEF KnownKept
    <2>1. CASE q = p
        BY <2>0, <2>1 DEF OneMap
    <2>2. CASE q # p
        <3>1. /\ DOMAIN downSessions[q] \subseteq Nat
              /\ Values(downSessions[q]) \subseteq Known
              /\ IsFiniteSet(Values(downSessions[q]))
              /\ ByOwnId(downSessions[q])
            BY ServedIsValues DEF TypeInv, MapInv
        <3>2. downSessions'[q] = downSessions[q]
            BY <2>2 DEF OneMap
        <3> QED
            BY <2>0, <3>1, <3>2
    <2> QED
        BY <2>1, <2>2
<1>2. \A q \in PoolSession : Served(q)' = Values(downSessions'[q])
    BY DEF Served, Values
<1>3. ASSUME NEW q \in PoolSession PROVE ByOwnId(downSessions[q])'
    <2>1. Values(downSessions'[q]) \subseteq Known
        <3>1. q = p => Values(downSessions'[q]) \subseteq Known
            BY DEF OneMap
        <3>2. q # p => downSessions'[q] = downSessions[q]
            BY DEF OneMap
        <3>3. Values(downSessions[q]) \subseteq Known
            BY ServedIsValues DEF TypeInv, MapInv
        <3> QED
            BY <3>1, <3>2, <3>3
    <2>2. \A id \in DOMAIN downSessions'[q] : sessionID'[downSessions'[q][id]] = sessionID[downSessions'[q][id]]
        BY <2>1 DEF KnownKept, Values
    <2> QED
        BY <1>1, <2>2 DEF ByOwnId
<1> QED
    BY <1>1, <1>2, <1>3 DEF MapInv, OneMap

LEMMA MapUnchanged ==
    ASSUME TypeInv, KnownKept, UNCHANGED downSessions,
           disconnected' \in [PoolSession -> Nat]
    PROVE  MapInv'
<1>1. \A q \in PoolSession : Served(q)' = Served(q)
    BY DEF Served
<1>2. ASSUME NEW q \in PoolSession PROVE ByOwnId(downSessions[q])'
    <2>1. ByOwnId(downSessions[q]) /\ Values(downSessions[q]) \subseteq Known
        BY ServedIsValues DEF TypeInv, MapInv
    <2>2. \A id \in DOMAIN downSessions[q] : sessionID'[downSessions[q][id]] = sessionID[downSessions[q][id]]
        BY <2>1 DEF KnownKept, Values
    <2> QED
        BY <2>1, <2>2 DEF ByOwnId
<1>3. Known \subseteq Known'
    BY DEF KnownKept
<1> QED
    BY <1>1, <1>2, <1>3 DEF TypeInv, MapInv

LEMMA CountsTyped ==
    ASSUME TypeInv, NEW p \in PoolSession
    PROVE  /\ Counts(p) => disconnected' \in [PoolSession -> Nat]
           /\ disconnected' = [disconnected EXCEPT ![p] = 0] => disconnected' \in [PoolSession -> Nat]
           /\ UNCHANGED disconnected => disconnected' \in [PoolSession -> Nat]
<1>1. disconnected \in [PoolSession -> Nat]
    BY DEF TypeInv, MapInv
<1> QED
    BY <1>1 DEF Counts

\* A pool session that handles its next event and stays, and one that closes,
\* with the miners ds in its map, sending Q besides.
UpStays(u, out) ==
    /\ Passes({<<u, Head(chan[u])>>}, out)
    /\ UNCHANGED upVars
UpGoes(u, ds, Q) ==
    /\ UpCloses(u)
    /\ Passes({<<u, Head(chan[u])>>},
              {<<upMgr[u], EventUpSessionBroken(upSlot[u])>>} \cup (Q \cup UpClosePending(u, ds)))

LEMMA UpAddMail ==
    ASSUME TypeInv, NEW u \in Up, UpAddDownSession(u, sessionID),
           NEW STATE d, d = Head(chan[u]).session,
           NEW STATE f, f = Put(downSessions[u], sessionID[d], d)
    PROVE  /\ d \in Known /\ Head(chan[u]) = EventAddDownSession(d)
           /\ OneMap(u) /\ downSessions'[u] = f /\ Values(f) \subseteq Known
           /\ UNCHANGED disconnected
           /\ UpStays(u, {}) \/ UpGoes(u, Values(f), {})
<1>1. UpLoop(u) /\ Receives(u, "AddDownSession") /\ MailInv /\ u \in Actor /\ u \in PoolSession
    BY Actors DEF UpAddDownSession, TypeInv
<1>2. /\ d \in Known /\ Head(chan[u]) \in Event /\ Head(chan[u]).type = "AddDownSession"
    BY <1>1, Received
<1>3. Head(chan[u]) = EventAddDownSession(d)
    BY <1>2, EventKinds
<1>4. /\ downSessions' = [downSessions EXCEPT ![u] = f]
      /\ UNCHANGED disconnected
      /\ \/ Handles(u, Nothing, {}) /\ UNCHANGED upVars
         \/ UpCloses(u) /\ Handles(u, UpCloseSends(u), UpClosePending(u, Values(f)))
    BY DEF UpAddDownSession, Values
<1>5. OneMap(u) /\ downSessions'[u] = f /\ Values(f) \subseteq Known
    BY <1>1, <1>2, <1>4, JoinedMap
<1>6. CASE Handles(u, Nothing, {}) /\ UNCHANGED upVars
    <2>1. Passes({<<u, Head(chan[u])>>}, {})
        BY <1>1, <1>6, SpawnsPasses
    <2> QED
        BY <1>2, <1>3, <1>4, <1>5, <1>6, <2>1 DEF UpStays
<1>7. CASE UpCloses(u) /\ Handles(u, UpCloseSends(u), UpClosePending(u, Values(f)))
    <2>1. {} \cup UpClosePending(u, Values(f)) = UpClosePending(u, Values(f))
        OBVIOUS
    <2>2. Handles(u, UpCloseSends(u), {} \cup UpClosePending(u, Values(f)))
        BY <1>7, <2>1
    <2>3. Values(f) \subseteq Known /\ \A m \in {} : m[2] = EventSendUpdateMinerNum
        BY <1>5
    <2>4. Passes({<<u, Head(chan[u])>>},
                 {<<upMgr[u], EventUpSessionBroken(upSlot[u])>>} \cup ({} \cup UpClosePending(u, Values(f))))
        BY <1>1, <2>2, <2>3, ClosingMail
    <2> QED
        BY <1>2, <1>3, <1>4, <1>5, <1>7, <2>4 DEF UpGoes
<1> QED
    BY <1>4, <1>6, <1>7

LEMMA UpBrokenMail ==
    ASSUME TypeInv, NEW u \in Up, UpDownSessionBroken(u),
           NEW STATE id, id = Head(chan[u]).sessionID,
           NEW STATE f, f = Delete(downSessions[u], id)
    PROVE  /\ Head(chan[u]) = EventDownSessionBroken(id)
           /\ OneMap(u) /\ downSessions'[u] = f /\ Values(f) \subseteq Known
           /\ Counts(u)
           /\ UpStays(u, Timer(u)) \/ UpGoes(u, Values(f), Timer(u))
<1>1. UpLoop(u) /\ Receives(u, "DownSessionBroken") /\ MailInv /\ u \in Actor /\ u \in PoolSession
    BY Actors DEF UpDownSessionBroken, TypeInv
<1>2. Head(chan[u]) \in Event /\ Head(chan[u]).type = "DownSessionBroken"
    BY <1>1, Received
<1>3. Head(chan[u]) = EventDownSessionBroken(id)
    BY <1>2, EventKinds
<1>4. /\ downSessions' = [downSessions EXCEPT ![u] = f]
      /\ Counts(u)
      /\ \/ Handles(u, Nothing, Timer(u)) /\ UNCHANGED upVars
         \/ UpCloses(u) /\ Handles(u, UpCloseSends(u), Timer(u) \cup UpClosePending(u, Values(f)))
    BY DEF UpDownSessionBroken, Values
<1>5. OneMap(u) /\ downSessions'[u] = f /\ Values(f) \subseteq Known
    BY <1>1, <1>2, <1>4, LeftMap
<1>6. CASE Handles(u, Nothing, Timer(u)) /\ UNCHANGED upVars
    <2>1. Passes({<<u, Head(chan[u])>>}, Timer(u))
        BY <1>1, <1>6, SpawnsPasses
    <2> QED
        BY <1>2, <1>3, <1>4, <1>5, <1>6, <2>1 DEF UpStays
<1>7. CASE UpCloses(u) /\ Handles(u, UpCloseSends(u), Timer(u) \cup UpClosePending(u, Values(f)))
    <2>1. Values(f) \subseteq Known /\ \A m \in Timer(u) : m[2] = EventSendUpdateMinerNum
        BY <1>1, <1>5, TimerIs
    <2>2. Passes({<<u, Head(chan[u])>>},
                 {<<upMgr[u], EventUpSessionBroken(upSlot[u])>>}
                    \cup (Timer(u) \cup UpClosePending(u, Values(f))))
        BY <1>1, <1>7, <2>1, ClosingMail
    <2> QED
        BY <1>2, <1>3, <1>4, <1>5, <1>7, <2>2 DEF UpGoes
<1> QED
    BY <1>4, <1>6, <1>7

LEMMA GoingMessages ==
    ASSUME TypeInv, NEW u \in Up, UpLoop(u), NEW STATE ds, ds \subseteq Known,
           NEW STATE Q, Q \subseteq Messages
    PROVE  {<<upMgr[u], EventUpSessionBroken(upSlot[u])>>} \cup (Q \cup UpClosePending(u, ds))
              \subseteq Messages
<1>1. <<upMgr[u], EventUpSessionBroken(upSlot[u])>> \in Messages /\ upMgr[u] \in Mgr
    BY UpCloseSendsIs
<1>2. UpClosePending(u, ds) \subseteq Messages
    BY <1>1, UpClosePendingIs
<1> QED
    BY <1>1, <1>2

LEMMA UpHandlesMail ==
    ASSUME TypeInv, NEW u \in Up, UpHandles(u, sessionID), KnownKept
    PROVE  MailInv'
<1>0. MailInv /\ Messages \subseteq Messages' /\ u \in PoolSession /\ Served(u) \subseteq Known
    BY Actors, MessagesKept DEF TypeInv, MapInv
<1>1. ASSUME NEW STATE ds, ds \subseteq Known, NEW STATE Q, Q \subseteq Messages,
             UpLoop(u), UpGoes(u, ds, Q)
      PROVE  MailInv'
    <2>1. {<<upMgr[u], EventUpSessionBroken(upSlot[u])>>} \cup (Q \cup UpClosePending(u, ds)) \subseteq Messages'
        BY <1>0, <1>1, GoingMessages
    <2> QED
        BY <1>0, <1>1, <2>1, PassesMail DEF UpGoes
<1>2. ASSUME NEW STATE out, out \subseteq Messages, Passes({<<u, Head(chan[u])>>}, out)
      PROVE  MailInv'
    BY <1>0, <1>2, PassesMail
<1>3. CASE UpConnBroken(u)
    <2>1. {<<upMgr[u], EventUpSessionBroken(upSlot[u])>>} \cup UpClosePending(u, Served(u)) \subseteq Messages
        BY <1>0, <1>3, UpCloseSendsIs, UpClosePendingIs DEF UpConnBroken
    <2> QED
        BY <1>2, <1>3, <2>1, UpConnBrokenMail
<1>4. CASE UpExit(u)
    <2>1. upMgr[u] \in Mgr
        BY <1>4 DEF UpExit, TypeInv, UpInv
    <2>2. UpClosePending(u, Served(u)) \subseteq Messages
        BY <1>0, <2>1, UpClosePendingIs
    <2> QED
        BY <1>2, <1>4, <2>2, UpExitMail
<1>5. CASE UpAddDownSession(u, sessionID)
    <2> DEFINE d == Head(chan[u]).session
               f == Put(downSessions[u], sessionID[d], d)
    <2>0. UpLoop(u)
        BY <1>5 DEF UpAddDownSession
    <2>1. Values(f) \subseteq Known /\ (UpStays(u, {}) \/ UpGoes(u, Values(f), {}))
        BY <1>5, UpAddMail
    <2>2. {} \subseteq Messages
        OBVIOUS
    <2> HIDE DEF f
    <2>3. CASE UpStays(u, {})
        BY <1>2, <2>2, <2>3 DEF UpStays
    <2>4. CASE UpGoes(u, Values(f), {})
        BY <1>1, <2>0, <2>1, <2>2, <2>4
    <2> QED
        BY <2>1, <2>3, <2>4
<1>6. CASE UpDownSessionBroken(u)
    <2> DEFINE id == Head(chan[u]).sessionID
               f == Delete(downSessions[u], id)
    <2>0. UpLoop(u)
        BY <1>6 DEF UpDownSessionBroken
    <2>1. Values(f) \subseteq Known /\ (UpStays(u, Timer(u)) \/ UpGoes(u, Values(f), Timer(u)))
        BY <1>6, UpBrokenMail
    <2>2. Timer(u) \subseteq Messages
        BY <1>0, TimerIs
    <2> HIDE DEF f
    <2>3. CASE UpStays(u, Timer(u))
        BY <1>2, <2>2, <2>3 DEF UpStays
    <2>4. CASE UpGoes(u, Values(f), Timer(u))
        BY <1>1, <2>0, <2>1, <2>2, <2>4
    <2> QED
        BY <2>1, <2>3, <2>4
<1>7. CASE UpSendUpdateMinerNum(u)
    <2>1. {<<upMgr[u], EventUpdateMinerNum(upSlot[u], disconnected[u])>>} \subseteq Messages
        BY <1>7, UpSendUpdateMinerNumMail, OtherMessages, Actors
    <2> QED
        BY <1>2, <1>7, <2>1, UpSendUpdateMinerNumMail
<1> QED
    BY <1>3, <1>4, <1>5, <1>6, <1>7 DEF UpHandles

LEMMA UpInvStays ==
    ASSUME UpInv, NEW u \in Up, UpCloses(u) \/ UNCHANGED upVars
    PROVE  UpInv'
<1>1. CASE UpCloses(u)
    BY <1>1 DEF UpCloses, UpInv, UpLoop
<1>2. CASE UNCHANGED upVars
    BY <1>2 DEF upVars, UpInv, UpLoop
<1> QED
    BY <1>1, <1>2

LEMMA UpHandlesTypes ==
    ASSUME TypeInv, NEW u \in Up, UpHandles(u, sessionID), KnownKept
    PROVE  UpInv' /\ MapInv'
<1>0. UpInv /\ u \in PoolSession
    BY Actors DEF TypeInv
<1>1. CASE UpConnBroken(u) \/ UpExit(u)
    <2>1. UpInv'
        BY <1>0, <1>1, UpInvStays DEF UpConnBroken, UpExit
    <2>2. UNCHANGED downSessions /\ disconnected' \in [PoolSession -> Nat]
        BY <1>0, <1>1, CountsTyped DEF UpConnBroken, UpExit, mapVars
    <2> QED
        BY <2>1, <2>2, MapUnchanged
<1>2. CASE UpAddDownSession(u, sessionID)
    <2>1. OneMap(u) /\ disconnected' \in [PoolSession -> Nat]
        BY <1>0, <1>2, UpAddMail, CountsTyped
    <2>2. UpInv'
        BY <1>0, <1>2, UpInvStays DEF UpAddDownSession
    <2> QED
        BY <1>0, <2>1, <2>2, MapStays
<1>3. CASE UpDownSessionBroken(u)
    <2>1. OneMap(u) /\ disconnected' \in [PoolSession -> Nat]
        BY <1>0, <1>3, UpBrokenMail, CountsTyped
    <2>2. UpInv'
        BY <1>0, <1>3, UpInvStays DEF UpDownSessionBroken
    <2> QED
        BY <1>0, <2>1, <2>2, MapStays
<1>4. CASE UpSendUpdateMinerNum(u)
    <2>1. UpInv'
        BY <1>0, <1>4, UpInvStays DEF UpSendUpdateMinerNum
    <2>2. UNCHANGED downSessions /\ disconnected' \in [PoolSession -> Nat]
        BY <1>0, <1>4, CountsTyped DEF UpSendUpdateMinerNum, UpReports
    <2> QED
        BY <2>1, <2>2, MapUnchanged
<1> QED
    BY <1>1, <1>2, <1>3, <1>4 DEF UpHandles

-----------------------------------------------------------------------------
(* The fake sessions.                                                      *)

LEMMA FakeAddMail ==
    ASSUME TypeInv, NEW m \in Mgr, FakeAddDownSession(m, sessionID),
           NEW STATE d, d = Head(chan[Fake(m)]).session,
           NEW STATE f, f = Put(downSessions[Fake(m)], sessionID[d], d)
    PROVE  /\ d \in Known /\ Head(chan[Fake(m)]) = EventAddDownSession(d)
           /\ OneMap(Fake(m)) /\ downSessions'[Fake(m)] = f
           /\ UNCHANGED <<disconnected, fakeLoop, upVars>>
           /\ Passes({<<Fake(m), Head(chan[Fake(m)])>>}, {})
<1> DEFINE p == Fake(m)
<1>1. Receives(p, "AddDownSession") /\ MailInv /\ p \in Actor /\ p \in PoolSession
    BY Actors DEF FakeAddDownSession, FakeReceives, TypeInv
<1>2. d = Head(chan[p]).session /\ f = Put(downSessions[p], sessionID[d], d)
    OBVIOUS
<1>3. /\ downSessions' = [downSessions EXCEPT ![p] = f]
      /\ UNCHANGED <<disconnected, fakeLoop, upVars>>
      /\ Handles(p, Nothing, {})
    BY <1>1 DEF FakeAddDownSession, TypeInv, MapInv
<1> HIDE DEF p
<1>4. /\ d \in Known /\ Head(chan[p]) \in Event /\ Head(chan[p]).type = "AddDownSession"
    BY <1>1, <1>2, Received
<1>5. Head(chan[p]) = EventAddDownSession(d)
    BY <1>2, <1>4, EventKinds
<1>6. OneMap(p) /\ downSessions'[p] = f
    BY <1>1, <1>2, <1>3, <1>4, JoinedMap
<1>7. Passes({<<p, Head(chan[p])>>}, {})
    BY <1>1, <1>3, SpawnsPasses
<1> QED
    BY <1>3, <1>4, <1>5, <1>6, <1>7 DEF p

LEMMA FakeBrokenMail ==
    ASSUME TypeInv, NEW m \in Mgr, FakeDownSessionBroken(m),
           NEW STATE id, id = Head(chan[Fake(m)]).sessionID,
           NEW STATE f, f = Delete(downSessions[Fake(m)], id)
    PROVE  /\ Head(chan[Fake(m)]) = EventDownSessionBroken(id)
           /\ OneMap(Fake(m)) /\ downSessions'[Fake(m)] = f
           /\ Counts(Fake(m)) /\ UNCHANGED <<fakeLoop, upVars>>
           /\ Passes({<<Fake(m), Head(chan[Fake(m)])>>}, Timer(Fake(m)))
<1> DEFINE p == Fake(m)
<1>1. Receives(p, "DownSessionBroken") /\ MailInv /\ p \in Actor /\ p \in PoolSession
    BY Actors DEF FakeDownSessionBroken, FakeReceives, TypeInv
<1>2. id = Head(chan[p]).sessionID /\ f = Delete(downSessions[p], id)
    OBVIOUS
<1>3. /\ downSessions' = [downSessions EXCEPT ![p] = f]
      /\ Counts(p) /\ UNCHANGED <<fakeLoop, upVars>>
      /\ Handles(p, Nothing, Timer(p))
    BY <1>1 DEF FakeDownSessionBroken, TypeInv, MapInv
<1> HIDE DEF p
<1>4. Head(chan[p]) \in Event /\ Head(chan[p]).type = "DownSessionBroken"
    BY <1>1, Received
<1>5. Head(chan[p]) = EventDownSessionBroken(id)
    BY <1>2, <1>4, EventKinds
<1>6. OneMap(p) /\ downSessions'[p] = f
    BY <1>1, <1>2, <1>3, LeftMap
<1>7. Passes({<<p, Head(chan[p])>>}, Timer(p))
    BY <1>1, <1>3, SpawnsPasses
<1> QED
    BY <1>3, <1>5, <1>6, <1>7 DEF p

LEMMA FakeSendUpdateMail ==
    ASSUME TypeInv, NEW m \in Mgr, FakeSendUpdateMinerNum(m)
    PROVE  /\ Passes({<<Fake(m), Head(chan[Fake(m)])>>},
                     {<<m, EventUpdateFakeMinerNum(disconnected[Fake(m)])>>})
           /\ Head(chan[Fake(m)]).type = "SendUpdateMinerNum"
           /\ EventUpdateFakeMinerNum(disconnected[Fake(m)]) \in Event
           /\ EventUpdateFakeMinerNum(disconnected[Fake(m)]).type = "UpdateFakeMinerNum"
<1> DEFINE p == Fake(m)
<1>1. Receives(p, "SendUpdateMinerNum") /\ MailInv /\ p \in Actor /\ p \in PoolSession
    BY Actors DEF FakeSendUpdateMinerNum, FakeReceives, TypeInv
<1>2. Handles(p, Nothing, {<<m, EventUpdateFakeMinerNum(disconnected[p])>>})
    BY DEF FakeSendUpdateMinerNum
<1>3. disconnected[p] \in Nat
    BY <1>1 DEF TypeInv, MapInv
<1> HIDE DEF p
<1>4. Passes({<<p, Head(chan[p])>>}, {<<m, EventUpdateFakeMinerNum(disconnected[p])>>})
    BY <1>1, <1>2, SpawnsPasses
<1>5. Head(chan[p]).type = "SendUpdateMinerNum"
    BY <1>1, Received
<1>6. /\ EventUpdateFakeMinerNum(disconnected[p]) \in Event
      /\ EventUpdateFakeMinerNum(disconnected[p]).type = "UpdateFakeMinerNum"
    BY <1>3, SessionEvents
<1> QED
    BY <1>4, <1>5, <1>6 DEF p

\* The number of the miners that are given back.
GivenBack(m) == EventUpdateFakeMinerNum(Cardinality(Served(Fake(m))))

LEMMA FakeTransferMail ==
    ASSUME TypeInv, NEW m \in Mgr, FakeTransferDownSessions(m)
    PROVE  /\ Passes({<<Fake(m), Head(chan[Fake(m)])>>}, Returns(m) \cup {<<m, GivenBack(m)>>})
           /\ Head(chan[Fake(m)]).type = "TransferDownSessions"
           /\ OneMap(Fake(m)) /\ Values(downSessions'[Fake(m)]) = {}
           /\ UNCHANGED <<disconnected, fakeLoop, upVars>>
           /\ GivenBack(m) \in Event /\ GivenBack(m).type = "UpdateFakeMinerNum"
           /\ Returns(m) \cup {<<m, GivenBack(m)>>} \subseteq Messages
<1> DEFINE p == Fake(m)
<1>1. /\ Receives(p, "TransferDownSessions") /\ MailInv /\ p \in Actor /\ p \in PoolSession
      /\ m \in Actor
    BY Actors DEF FakeTransferDownSessions, FakeReceives, TypeInv
<1>2. /\ Handles(p, Nothing, Returns(m) \cup {<<m, GivenBack(m)>>})
      /\ UNCHANGED <<disconnected, fakeLoop, upVars>>
      /\ downSessions' = [downSessions EXCEPT ![p] = NoMiners]
      /\ \A d : <<m, EventAddDownSession(d)>> \in Returns(m) => d \in Served(p)
    BY DEF FakeTransferDownSessions, GivenBack, FakeMapCleared, Returns, EventAddDownSession
<1>3. /\ DOMAIN downSessions = PoolSession
      /\ Served(p) \subseteq Known
      /\ IsFiniteSet(Served(p))
    BY <1>1 DEF TypeInv, MapInv
<1>4. Returns(m) \subseteq Messages
    BY <1>1, <1>3, AddMessages DEF Returns
<1> HIDE DEF p
<1>5. Passes({<<p, Head(chan[p])>>}, Returns(m) \cup {<<m, GivenBack(m)>>})
    BY <1>1, <1>2, SpawnsPasses
<1>6. Head(chan[p]).type = "TransferDownSessions"
    BY <1>1, Received
<1>7. GivenBack(m) \in Event /\ GivenBack(m).type = "UpdateFakeMinerNum"
    <2>1. Cardinality(Served(p)) \in Nat
        BY <1>3, FS_CardinalityType
    <2> QED
        BY <2>1, SessionEvents DEF GivenBack, p
<1>8. <<m, GivenBack(m)>> \in Messages
    BY <1>1, <1>7, OtherMessages
<1>9. downSessions'[p] = NoMiners /\ \A q \in PoolSession \ {p} : downSessions'[q] = downSessions[q]
    BY <1>1, <1>2, <1>3
<1>10. DOMAIN NoMiners = {} /\ Values(NoMiners) = {}
    BY DEF NoMiners, Values
<1>11. Values(downSessions'[p]) = {} /\ DOMAIN downSessions'[p] = {}
    BY <1>9, <1>10
<1>12. OneMap(p)
    <2>1. ByOwnId(downSessions'[p])
        BY <1>11 DEF ByOwnId
    <2> QED
        BY <1>1, <1>2, <1>3, <1>9, <1>11, <2>1, FS_EmptySet DEF OneMap
<1> QED
    BY <1>2, <1>4, <1>5, <1>6, <1>7, <1>8, <1>11, <1>12 DEF p

\* What the miners of a fake session are told when it exits.
Released(m) == {<<d, EventExit>> : d \in Served(Fake(m))}

LEMMA FakeExitMail ==
    ASSUME TypeInv, NEW m \in Mgr, FakeExit(m)
    PROVE  /\ Passes({<<Fake(m), Head(chan[Fake(m)])>>}, Released(m))
           /\ Head(chan[Fake(m)]).type = "Exit"
           /\ Released(m) \subseteq Messages
<1> DEFINE p == Fake(m)
<1>1. Receives(p, "Exit") /\ MailInv /\ p \in Actor /\ p \in PoolSession
    BY Actors DEF FakeExit, FakeReceives, TypeInv
<1>2. Handles(p, Nothing, Released(m))
    BY DEF FakeExit, Released
<1>3. Served(p) \subseteq Known
    BY <1>1 DEF TypeInv, MapInv
<1>4. Released(m) \subseteq Messages
    BY <1>3, OtherMessages, PlainEvents, Actors DEF Released, Known
<1> HIDE DEF p
<1>5. Passes({<<p, Head(chan[p])>>}, Released(m)) /\ Head(chan[p]).type = "Exit"
    BY <1>1, <1>2, SpawnsPasses, Received
<1> QED
    BY <1>4, <1>5 DEF p

LEMMA FakeHandlesTypes ==
    ASSUME TypeInv, NEW m \in Mgr, FakeHandles(m, sessionID), KnownKept
    PROVE  MailInv' /\ UpInv' /\ MapInv' /\ fakeLoop' \subseteq fakeLoop
<1>0. MailInv /\ Messages \subseteq Messages' /\ Fake(m) \in PoolSession /\ UpInv /\ m \in Actor
    BY Actors, MessagesKept DEF TypeInv
<1>1. UNCHANGED upVars => UpInv'
    BY <1>0 DEF upVars, UpInv, UpLoop
<1>2. ASSUME NEW STATE out, out \subseteq Messages, Passes({<<Fake(m), Head(chan[Fake(m)])>>}, out)
      PROVE  MailInv'
    BY <1>0, <1>2, PassesMail
<1>3. CASE FakeAddDownSession(m, sessionID)
    <2> DEFINE d == Head(chan[Fake(m)]).session
               f == Put(downSessions[Fake(m)], sessionID[d], d)
    <2>1. /\ OneMap(Fake(m)) /\ UNCHANGED <<disconnected, fakeLoop, upVars>>
          /\ Passes({<<Fake(m), Head(chan[Fake(m)])>>}, {})
        BY <1>3, FakeAddMail
    <2>2. {} \subseteq Messages /\ disconnected' \in [PoolSession -> Nat]
        BY <1>0, <2>1, CountsTyped
    <2> QED
        BY <1>0, <1>1, <1>2, <2>1, <2>2, MapStays
<1>4. CASE FakeDownSessionBroken(m)
    <2> DEFINE id == Head(chan[Fake(m)]).sessionID
               f == Delete(downSessions[Fake(m)], id)
    <2>1. /\ OneMap(Fake(m)) /\ Counts(Fake(m)) /\ UNCHANGED <<fakeLoop, upVars>>
          /\ Passes({<<Fake(m), Head(chan[Fake(m)])>>}, Timer(Fake(m)))
        BY <1>4, FakeBrokenMail
    <2>2. Timer(Fake(m)) \subseteq Messages /\ disconnected' \in [PoolSession -> Nat]
        BY <1>0, <2>1, CountsTyped, TimerIs
    <2> QED
        BY <1>0, <1>1, <1>2, <2>1, <2>2, MapStays
<1>5. CASE FakeSendUpdateMinerNum(m)
    <2>1. {<<m, EventUpdateFakeMinerNum(disconnected[Fake(m)])>>} \subseteq Messages
        BY <1>0, <1>5, FakeSendUpdateMail, OtherMessages
    <2>2. MailInv'
        BY <1>2, <1>5, <2>1, FakeSendUpdateMail
    <2>3. UNCHANGED <<fakeLoop, downSessions, upVars>> /\ disconnected' \in [PoolSession -> Nat]
        BY <1>0, <1>5, CountsTyped DEF FakeSendUpdateMinerNum
    <2> QED
        BY <1>1, <2>2, <2>3, MapUnchanged
<1>6. CASE FakeTransferDownSessions(m)
    <2>1. MailInv'
        BY <1>2, <1>6, FakeTransferMail
    <2>2. /\ OneMap(Fake(m)) /\ UNCHANGED <<fakeLoop, upVars>>
          /\ disconnected' \in [PoolSession -> Nat]
        BY <1>0, <1>6, FakeTransferMail, CountsTyped
    <2> QED
        BY <1>0, <1>1, <2>1, <2>2, MapStays
<1>7. CASE FakeExit(m)
    <2>1. MailInv'
        BY <1>2, <1>7, FakeExitMail
    <2>2. /\ UNCHANGED <<upVars, downSessions>> /\ fakeLoop' \subseteq fakeLoop
          /\ disconnected' \in [PoolSession -> Nat]
        BY <1>0, <1>7, CountsTyped DEF FakeExit, mapVars
    <2> QED
        BY <1>1, <2>1, <2>2, MapUnchanged
<1> QED
    BY <1>3, <1>4, <1>5, <1>6, <1>7 DEF FakeHandles

-----------------------------------------------------------------------------
(* The managers.                                                           *)

LEMMA MgrAddMail ==
    ASSUME TypeInv, NEW m \in Mgr, MgrAddDownSession(m),
           NEW STATE d, d = Head(chan[m]).session
    PROVE  /\ d \in Known /\ Head(chan[m]) = EventAddDownSession(d)
           /\ \E e \in Event : /\ e.type \in {"SetUpSession", "PoolNotReady"}
                               /\ Passes({<<m, Head(chan[m])>>}, {<<d, e>>})
<1>1. Receives(m, "AddDownSession") /\ MailInv /\ m \in Actor
    BY Actors DEF MgrAddDownSession, MgrReceives, TypeInv
<1>2. /\ d \in Known /\ d \in Actor /\ Head(chan[m]) \in Event /\ Head(chan[m]).type = "AddDownSession"
    BY <1>1, Received, Actors DEF Known
<1>3. Head(chan[m]) = EventAddDownSession(d)
    BY <1>2, EventKinds
<1>4. ASSUME NEW STATE e, e \in Event, e.type \in {"SetUpSession", "PoolNotReady"},
             Handles(m, To(d, e), {})
      PROVE  \E ev \in Event : /\ ev.type \in {"SetUpSession", "PoolNotReady"}
                               /\ Passes({<<m, Head(chan[m])>>}, {<<d, ev>>})
    BY <1>1, <1>2, <1>4, ToPasses
<1>5. CASE \E s \in Slot : /\ Fewest(m, s)
                           /\ Handles(m, To(d, EventSetUpSession(slotSession[m][s])), {})
    <2>1. PICK s \in Slot : Fewest(m, s) /\ Handles(m, To(d, EventSetUpSession(slotSession[m][s])), {})
        BY <1>5
    <2>2. slotSession[m][s] \in PoolSession
        BY <2>1, Actors DEF Fewest, TypeInv, MgrInv, SlotInv
    <2>3. /\ EventSetUpSession(slotSession[m][s]) \in Event
          /\ EventSetUpSession(slotSession[m][s]).type = "SetUpSession"
        BY <2>2, SessionEvents
    <2> QED
        BY <1>2, <1>3, <1>4, <2>1, <2>3
<1>6. CASE Handles(m, To(d, EventSetUpSession(Fake(m))), {})
    <2>1. EventSetUpSession(Fake(m)) \in Event /\ EventSetUpSession(Fake(m)).type = "SetUpSession"
        BY Actors, SessionEvents
    <2> QED
        BY <1>2, <1>3, <1>4, <1>6, <2>1
<1>7. CASE Handles(m, To(d, EventPoolNotReady), {})
    BY <1>2, <1>3, <1>4, <1>7, PlainEvents
<1> QED
    BY <1>5, <1>6, <1>7 DEF MgrAddDownSession

\* The other handlers of the manager send nothing that a miner depends on.
MgrHandlesOther(m) ==
    \/ MgrUpSessionReady(m)
    \/ MgrUpSessionInitFailed(m)
    \/ MgrUpSessionBroken(m)
    \/ MgrUpdateMinerNum(m)
    \/ MgrUpdateFakeMinerNum(m)
    \/ MgrExit(m)

\* An order to part a that is not about a miner.
Order(a, e) ==
    \/ a = SM /\ e.type = "StopUpSessionManager"
    \/ a \in Mgr /\ e.type = "Exit"
    \/ a \in PoolSession /\ e.type \in {"Exit", "TransferDownSessions"}
Orders == {x \in Actor \X Event : Order(x[1], x[2])}

LEMMA OrdersAreMessages ==
    ASSUME NEW a \in Actor, NEW e \in Event, Order(a, e)
    PROVE  <<a, e>> \in Orders /\ <<a, e>> \in Messages
BY OtherMessages DEF Orders, Order

LEMMA MgrOtherMail ==
    ASSUME TypeInv, NEW m \in Mgr, MgrHandlesOther(m)
    PROVE  /\ Head(chan[m]).type # "AddDownSession"
           /\ \E out : out \subseteq Orders /\ Passes({<<m, Head(chan[m])>>}, out)
<1>1. PICK t \in {"UpSessionReady", "UpSessionInitFailed", "UpSessionBroken", "UpdateMinerNum",
                  "UpdateFakeMinerNum", "Exit"} : Receives(m, t) /\ m \in mgrLoop
    BY DEF MgrHandlesOther, MgrUpSessionReady, MgrUpSessionInitFailed, MgrUpSessionBroken,
           MgrUpdateMinerNum, MgrUpdateFakeMinerNum, MgrExit, MgrReceives
<1>2. MailInv /\ m \in Actor /\ Head(chan[m]).type # "AddDownSession"
    BY <1>1, Actors DEF TypeInv, Receives
<1>3. CASE Handles(m, Nothing, {})
    <2>1. Passes({<<m, Head(chan[m])>>}, {}) /\ {} \subseteq Orders
        BY <1>1, <1>2, <1>3, SpawnsPasses
    <2> QED
        BY <1>2, <2>1
<1>4. CASE Handles(m, To(SM, EventStopUpSessionManager(mgrAccount[m])), {})
    <2> DEFINE e == EventStopUpSessionManager(mgrAccount[m])
    <2>1. mgrAccount[m] \in Account
        BY <1>1 DEF TypeInv, MgrInv, LoopsInv
    <2>2. e \in Event /\ e.type = "StopUpSessionManager" /\ SM \in Actor
        BY <2>1, SessionEvents, Actors
    <2> HIDE DEF e
    <2>3. Passes({<<m, Head(chan[m])>>}, {<<SM, e>>})
        BY <1>1, <1>2, <1>4, <2>2, ToPasses DEF e
    <2>4. <<SM, e>> \in Orders
        BY <2>2, OrdersAreMessages DEF Order
    <2> QED
        BY <1>2, <2>3, <2>4
<1>5. CASE Handles(m, To(Fake(m), EventTransferDownSessions), {})
    <2>1. Fake(m) \in PoolSession /\ Fake(m) \in Actor
        BY Actors
    <2>2. Passes({<<m, Head(chan[m])>>}, {<<Fake(m), EventTransferDownSessions>>})
        BY <1>1, <1>2, <1>5, <2>1, PlainEvents, ToPasses
    <2>3. <<Fake(m), EventTransferDownSessions>> \in Orders
        BY <2>1, PlainEvents, OrdersAreMessages DEF Order
    <2> QED
        BY <1>2, <2>2, <2>3
<1>6. CASE Handles(m, [p \in ExitReceivers(m) |-> <<EventExit>>], {})
    <2>1. ExitReceivers(m) \subseteq PoolSession /\ ExitReceivers(m) \subseteq Actor
        BY Actors DEF ExitReceivers, TypeInv, MgrInv, SlotInv
    <2>2. Passes({<<m, Head(chan[m])>>}, {<<p, EventExit>> : p \in ExitReceivers(m)})
        BY <1>1, <1>2, <1>6, <2>1, ExitPasses
    <2>3. {<<p, EventExit>> : p \in ExitReceivers(m)} \subseteq Orders
        BY <2>1, PlainEvents, OrdersAreMessages DEF Order
    <2> QED
        BY <1>2, <2>2, <2>3
<1> QED
    BY <1>3, <1>4, <1>5, <1>6
       DEF MgrHandlesOther, MgrUpSessionReady, MgrUpSessionInitFailed, MgrUpSessionBroken,
           MgrUpdateMinerNum, MgrUpdateFakeMinerNum, MgrExit

LEMMA MgrMail ==
    ASSUME TypeInv, NEW m \in Mgr, MgrHandles(m), KnownKept
    PROVE  MailInv'
<1>0. MailInv /\ Messages \subseteq Messages'
    BY MessagesKept DEF TypeInv
<1>1. CASE MgrAddDownSession(m)
    <2> DEFINE d == Head(chan[m]).session
    <2>1. PICK e \in Event : /\ e.type \in {"SetUpSession", "PoolNotReady"}
                             /\ Passes({<<m, Head(chan[m])>>}, {<<d, e>>})
        BY <1>1, MgrAddMail
    <2>2. d \in Actor
        BY <1>1, MgrAddMail, Actors DEF Known
    <2> HIDE DEF d
    <2>3. <<d, e>> \in Messages
        BY <2>1, <2>2, OtherMessages
    <2> QED
        BY <1>0, <2>1, <2>3, PassesMail
<1>2. CASE MgrHandlesOther(m)
    <2>1. PICK out : out \subseteq Orders /\ Passes({<<m, Head(chan[m])>>}, out)
        BY <1>2, MgrOtherMail
    <2>2. Orders \subseteq Messages
        BY OrdersAreMessages DEF Orders
    <2> QED
        BY <1>0, <2>1, <2>2, PassesMail
<1> QED
    BY <1>1, <1>2 DEF MgrHandles, MgrHandlesOther

LEMMA MgrEvents ==
    ASSUME TypeInv, NEW m \in Mgr, NEW t, MgrReceives(m, t)
    PROVE  /\ m \in mgrLoop /\ mgrAccount[m] \in Account
           /\ t \in {"UpSessionReady", "UpSessionInitFailed", "UpSessionBroken", "UpdateMinerNum"} =>
                 Head(chan[m]).slot \in Slot
           /\ t = "UpSessionReady" => Head(chan[m]).session \in Up
           /\ t \in {"UpdateMinerNum", "UpdateFakeMinerNum"} => Head(chan[m]).counter \in Nat
<1>1. MailInv /\ m \in Actor /\ Receives(m, t) /\ m \in mgrLoop
    BY Actors DEF TypeInv, MgrReceives
<1>2. Head(chan[m]) \in Event /\ Head(chan[m]).type = t
    BY <1>1, Received
<1> QED
    BY <1>1, <1>2, EventKinds DEF TypeInv, MgrInv, LoopsInv

LEMMA SlotInvStays ==
    ASSUME TypeInv, NEW m \in Mgr, MgrHandles(m)
    PROVE  SlotInv'
<1>1. SlotInv
    BY DEF TypeInv, MgrInv
<1>2. CASE UNCHANGED <<ready, slotSession>>
    BY <1>1, <1>2 DEF SlotInv, ReadySlots
<1>3. CASE MgrUpSessionReady(m)
    <2>1. Head(chan[m]).slot \in Slot /\ Head(chan[m]).session \in Up
        BY <1>3, MgrEvents DEF MgrUpSessionReady
    <2> DEFINE s == Head(chan[m]).slot
               u == Head(chan[m]).session
    <2>2. /\ ready' = [ready EXCEPT ![m][s] = TRUE]
          /\ slotSession' = [slotSession EXCEPT ![m][s] = u]
        BY <1>3 DEF MgrUpSessionReady
    <2> HIDE DEF s, u
    <2>3. s \in Slot /\ u \in Up
        BY <2>1 DEF s, u
    <2>4. ready' \in [Mgr -> [Slot -> BOOLEAN]] /\ slotSession' \in [Mgr -> [Slot -> Up \cup {None}]]
        BY <1>1, <2>2, <2>3 DEF SlotInv
    <2>5. ASSUME NEW n \in Mgr, NEW q \in Slot, ready'[n][q] PROVE slotSession'[n][q] \in Up
        <3>1. CASE n = m /\ q = s
            BY <1>1, <2>2, <2>3, <3>1 DEF SlotInv
        <3>2. CASE ~(n = m /\ q = s)
            <4>1. ready'[n][q] = ready[n][q] /\ slotSession'[n][q] = slotSession[n][q]
                BY <1>1, <2>2, <2>3, <3>2 DEF SlotInv
            <4>2. ready[n][q]
                BY <2>5, <4>1, Zenon
            <4>3. q \in ReadySlots(n)
                BY <4>2 DEF ReadySlots
            <4> QED
                BY <1>1, <4>1, <4>3 DEF SlotInv
        <3> QED
            BY <3>1, <3>2
    <2> QED
        BY <2>4, <2>5 DEF SlotInv, ReadySlots
<1>4. CASE MgrUpSessionBroken(m)
    <2>1. Head(chan[m]).slot \in Slot
        BY <1>4, MgrEvents DEF MgrUpSessionBroken
    <2> DEFINE s == Head(chan[m]).slot
    <2>2. ready' = [ready EXCEPT ![m][s] = FALSE] /\ slotSession' = slotSession
        BY <1>4 DEF MgrUpSessionBroken
    <2> HIDE DEF s
    <2>3. ready' \in [Mgr -> [Slot -> BOOLEAN]]
        BY <1>1, <2>1, <2>2 DEF SlotInv, s
    <2>4. ASSUME NEW n \in Mgr, NEW q \in Slot, ready'[n][q] PROVE ready[n][q]
        BY <1>1, <2>2, <2>4 DEF SlotInv
    <2> QED
        BY <1>1, <2>2, <2>3, <2>4 DEF SlotInv, ReadySlots
<1>5. MgrUpSessionReady(m) \/ MgrUpSessionBroken(m) \/ UNCHANGED <<ready, slotSession>>
    BY DEF MgrHandles, MgrAddDownSession, MgrUpSessionInitFailed, MgrUpdateMinerNum,
           MgrUpdateFakeMinerNum, MgrExit, slotVars
<1> QED
    BY <1>2, <1>3, <1>4, <1>5

LEMMA CountInvStays ==
    ASSUME TypeInv, NEW m \in Mgr, MgrHandles(m)
    PROVE  CountInv'
<1>1. CountInv
    BY DEF TypeInv, MgrInv
<1>2. ASSUME NEW s \in Slot
      PROVE  Assigns(m, s) => minerNum' \in [Mgr -> [Slot -> Int]]
    BY <1>1 DEF Assigns, CountInv
<1>3. ASSUME NEW s \in Slot
      PROVE  ConnectStarts(m, s) => connecting' \in [Mgr -> [Slot -> Nat]]
    BY <1>1 DEF ConnectStarts, CountInv
<1>4. CASE MgrAddDownSession(m)
    <2>1. minerNum' \in [Mgr -> [Slot -> Int]]
        BY <1>1, <1>2, <1>4 DEF MgrAddDownSession, CountInv
    <2>2. fakeMinerNum' \in [Mgr -> Int]
        BY <1>1, <1>4 DEF MgrAddDownSession, CountInv
    <2>3. UNCHANGED connVars
        BY <1>4 DEF MgrAddDownSession
    <2> QED
        BY <1>1, <2>1, <2>2, <2>3 DEF CountInv, connVars
<1>5. CASE MgrUpSessionReady(m)
    BY <1>1, <1>5 DEF MgrUpSessionReady, CountInv
<1>6. CASE MgrUpSessionInitFailed(m)
    <2>1. connecting' \in [Mgr -> [Slot -> Nat]]
        BY <1>1, <1>3, <1>6, MgrEvents DEF MgrUpSessionInitFailed, CountInv
    <2>2. initFailureCounter' \in [Mgr -> Nat]
        BY <1>1, <1>6 DEF MgrUpSessionInitFailed, CountInv
    <2> QED
        BY <1>1, <1>6, <2>1, <2>2 DEF MgrUpSessionInitFailed, CountInv, slotVars
<1>7. CASE MgrUpSessionBroken(m)
    <2>1. Head(chan[m]).slot \in Slot
        BY <1>7, MgrEvents DEF MgrUpSessionBroken
    <2>2. connecting' \in [Mgr -> [Slot -> Nat]]
        BY <1>3, <1>7, <2>1 DEF MgrUpSessionBroken, Reconnects
    <2>3. minerNum' = [minerNum EXCEPT ![m][Head(chan[m]).slot] = 0]
        BY <1>7 DEF MgrUpSessionBroken
    <2>4. minerNum' \in [Mgr -> [Slot -> Int]]
        BY <1>1, <2>1, <2>3 DEF CountInv
    <2> QED
        BY <1>1, <1>7, <2>2, <2>4 DEF MgrUpSessionBroken, CountInv
<1>8. CASE MgrUpdateMinerNum(m)
    <2> DEFINE e == Head(chan[m])
    <2>1. e.slot \in Slot /\ e.counter \in Nat
        BY <1>8, MgrEvents DEF MgrUpdateMinerNum
    <2>2. minerNum' = [minerNum EXCEPT ![m] = [minerNum[m] EXCEPT ![e.slot] = @ - e.counter]]
        BY <1>8 DEF MgrUpdateMinerNum
    <2> HIDE DEF e
    <2>3. [minerNum[m] EXCEPT ![e.slot] = @ - e.counter] \in [Slot -> Int]
        BY <1>1, <2>1 DEF CountInv
    <2>4. minerNum' \in [Mgr -> [Slot -> Int]]
        BY <1>1, <2>2, <2>3 DEF CountInv
    <2>5. UNCHANGED <<fakeMinerNum, connVars>>
        BY <1>8 DEF MgrUpdateMinerNum
    <2> QED
        BY <1>1, <2>4, <2>5 DEF CountInv, connVars
<1>9. CASE MgrUpdateFakeMinerNum(m)
    <2>1. Head(chan[m]).counter \in Nat
        BY <1>9, MgrEvents DEF MgrUpdateFakeMinerNum
    <2>2. fakeMinerNum' \in [Mgr -> Int]
        BY <1>1, <1>9, <2>1 DEF MgrUpdateFakeMinerNum, CountInv
    <2> QED
        BY <1>1, <1>9, <2>2 DEF MgrUpdateFakeMinerNum, CountInv, slotVars, connVars
<1>10. CASE MgrExit(m)
    BY <1>1, <1>10 DEF MgrExit, CountInv, slotVars, connVars
<1> QED
    BY <1>4, <1>5, <1>6, <1>7, <1>8, <1>9, <1>10 DEF MgrHandles

LEMMA LoopsInvStays ==
    ASSUME LoopsInv, mgrLoop' \subseteq mgrLoop, fakeLoop' \subseteq fakeLoop, UNCHANGED mgrAccount
    PROVE  LoopsInv'
BY DEF LoopsInv

\* Connect goroutines.
LEMMA ConnectTypes ==
    ASSUME TypeInv, NEW m \in Mgr, NEW s \in Slot,
           ConnectFails(m, s) \/ \E u \in Up : ConnectSucceeds(m, s, u)
    PROVE  UpInv' /\ MgrInv'
<1>0. UpInv /\ LoopsInv /\ SlotInv /\ CountInv
    BY DEF TypeInv, MgrInv
<1>1. connecting[m][s] > 0 /\ ConnectEnds(m, s)
    BY DEF ConnectFails, ConnectSucceeds
<1>2. connecting' \in [Mgr -> [Slot -> Nat]]
    BY <1>0, <1>1 DEF ConnectEnds, CountInv
<1>3. UNCHANGED <<mgrLoop, mgrAccount, slotVars, fakeMinerNum, initSuccess, initFailureCounter, fakeLoop>>
    BY DEF ConnectFails, ConnectSucceeds
<1>4. LoopsInv' /\ CountInv'
    BY <1>0, <1>2, <1>3 DEF LoopsInv, CountInv, slotVars
<1>5. SlotInv'
    BY <1>0, <1>3 DEF SlotInv, slotVars, ReadySlots
<1>6. UpInv'
    <2>1. CASE UNCHANGED upVars
        BY <1>0, <2>1 DEF UpInv, upVars, UpLoop
    <2>2. CASE \E u \in Up : ConnectSucceeds(m, s, u)
        BY <1>0, <2>2 DEF UpInv, ConnectSucceeds, UpLoop
    <2> QED
        BY <2>1, <2>2 DEF ConnectFails
<1> QED
    BY <1>4, <1>5, <1>6 DEF MgrInv

LEMMA ConnectMail ==
    ASSUME TypeInv, NEW m \in Mgr, NEW s \in Slot
    PROVE  /\ ConnectFails(m, s) => /\ Passes({}, {<<m, EventUpSessionInitFailed(s)>>})
                                    /\ <<m, EventUpSessionInitFailed(s)>> \in Messages
           /\ \A u \in Up : ConnectSucceeds(m, s, u) =>
                 /\ Passes({}, {<<m, EventUpSessionReady(s, u)>>})
                 /\ <<m, EventUpSessionReady(s, u)>> \in Messages
<1>1. MailInv /\ m \in Actor
    BY Actors DEF TypeInv
<1>2. ASSUME ConnectFails(m, s)
      PROVE  /\ Passes({}, {<<m, EventUpSessionInitFailed(s)>>})
             /\ <<m, EventUpSessionInitFailed(s)>> \in Messages
    <2>1. Passes({}, {<<m, EventUpSessionInitFailed(s)>>})
        BY <1>1, <1>2, SpawnsOnePasses DEF ConnectFails
    <2> QED
        BY <1>1, <2>1, SlotEvents, OtherMessages
<1>3. ASSUME NEW u \in Up, ConnectSucceeds(m, s, u)
      PROVE  /\ Passes({}, {<<m, EventUpSessionReady(s, u)>>})
             /\ <<m, EventUpSessionReady(s, u)>> \in Messages
    <2>1. Passes({}, {<<m, EventUpSessionReady(s, u)>>})
        BY <1>1, <1>3, SpawnsOnePasses DEF ConnectSucceeds
    <2> QED
        BY <1>1, <2>1, SlotEvents, OtherMessages
<1> QED
    BY <1>2, <1>3

-----------------------------------------------------------------------------
(* The SessionManager.                                                     *)

LEMMA SMAddMail ==
    ASSUME TypeInv, SMAddDownSession(subAccount), NEW STATE d, d = Head(chan[SM]).session
    PROVE  /\ d \in Known /\ Head(chan[SM]) = EventAddDownSession(d)
           /\ \E m \in Mgr : Passes({<<SM, Head(chan[SM])>>}, {<<m, Head(chan[SM])>>})
<1>1. Receives(SM, "AddDownSession") /\ MailInv /\ SM \in Actor
    BY Actors DEF SMAddDownSession, SMReceives, TypeInv
<1>2. /\ d \in Known /\ Head(chan[SM]) \in Event /\ Head(chan[SM]).type = "AddDownSession"
    BY <1>1, Received
<1>3. Head(chan[SM]) = EventAddDownSession(d)
    BY <1>2, EventKinds
<1>4. subAccount[d] \in Account
    BY <1>2 DEF Known
<1>5. \E m \in Mgr : Handles(SM, To(m, Head(chan[SM])), {})
    <2>1. CASE upSessionManagers[subAccount[d]] # None
        BY <1>4, <2>1 DEF SMAddDownSession, TypeInv, SMTypeOK
    <2>2. CASE upSessionManagers[subAccount[d]] = None
        BY <2>2 DEF SMAddDownSession
    <2> QED
        BY <2>1, <2>2
<1>6. PICK m \in Mgr : Handles(SM, To(m, Head(chan[SM])), {})
    BY <1>5
<1>7. m \in Actor
    BY Actors
<1>8. Passes({<<SM, Head(chan[SM])>>}, {<<m, Head(chan[SM])>>})
    BY <1>1, <1>2, <1>6, <1>7, ToPasses
<1> QED
    BY <1>2, <1>3, <1>8

LEMMA SMOtherMail ==
    ASSUME TypeInv, SMStopUpSessionManager \/ SMExit
    PROVE  /\ Head(chan[SM]).type # "AddDownSession"
           /\ \E out : out \subseteq Orders /\ Passes({<<SM, Head(chan[SM])>>}, out)
<1>1. PICK t \in {"StopUpSessionManager", "Exit"} : Receives(SM, t)
    BY DEF SMStopUpSessionManager, SMExit, SMReceives
<1>2. MailInv /\ SM \in Actor /\ Head(chan[SM]) \in Event /\ Head(chan[SM]).type = t
    BY <1>1, Received, Actors DEF TypeInv
<1>3. CASE SMStopUpSessionManager
    <2> DEFINE a == Head(chan[SM]).subAccount
    <2>1. Head(chan[SM]).type = "StopUpSessionManager"
        BY <1>3 DEF SMStopUpSessionManager, SMReceives, Receives
    <2>2. a \in Account
        BY <1>2, <2>1, EventKinds
    <2>3. CASE Handles(SM, Nothing, {})
        <3>1. Passes({<<SM, Head(chan[SM])>>}, {}) /\ {} \subseteq Orders
            BY <1>1, <1>2, <2>3, SpawnsPasses
        <3> QED
            BY <1>2, <2>1, <3>1
    <2>4. CASE upSessionManagers[a] # None /\ Handles(SM, To(upSessionManagers[a], EventExit), {})
        <3>1. upSessionManagers[a] \in Mgr /\ upSessionManagers[a] \in Actor
            BY <2>2, <2>4, Actors DEF TypeInv, SMTypeOK
        <3>2. Passes({<<SM, Head(chan[SM])>>}, {<<upSessionManagers[a], EventExit>>})
            BY <1>1, <1>2, <2>4, <3>1, PlainEvents, ToPasses
        <3>3. <<upSessionManagers[a], EventExit>> \in Orders
            BY <3>1, PlainEvents, OrdersAreMessages DEF Order
        <3> QED
            BY <1>2, <2>1, <3>2, <3>3
    <2> QED
        BY <1>3, <2>3, <2>4 DEF SMStopUpSessionManager
<1>4. CASE SMExit
    <2> DEFINE children == {upSessionManagers[a] : a \in Account} \ {None}
    <2>1. children \subseteq Mgr /\ children \subseteq Actor
        BY Actors DEF TypeInv, SMTypeOK
    <2>2. Handles(SM, [m \in children |-> <<EventExit>>], {})
        BY <1>4 DEF SMExit
    <2> HIDE DEF children
    <2>3. Passes({<<SM, Head(chan[SM])>>}, {<<p, EventExit>> : p \in children})
        BY <1>1, <1>2, <2>1, <2>2, ExitPasses
    <2>4. {<<p, EventExit>> : p \in children} \subseteq Orders
        BY <2>1, PlainEvents, OrdersAreMessages DEF Order
    <2> QED
        BY <1>1, <1>2, <2>3, <2>4
<1> QED
    BY <1>3, <1>4

LEMMA SMStopMail ==
    ASSUME TypeInv, SMStop
    PROVE  Passes({}, {<<SM, EventExit>>}) /\ <<SM, EventExit>> \in Messages
<1>1. MailInv /\ SM \in Actor
    BY Actors DEF TypeInv
<1> QED
    BY <1>1, PlainEvents, SendsOnePasses, OtherMessages DEF SMStop

LEMMA StartTypes ==
    ASSUME TypeInv, NEW m \in Mgr, NEW a \in Account, CreateUpSessionManager(m, a), StartsQuietly
    PROVE  UpInv' /\ MgrInv' /\ UNCHANGED mapVars
           /\ upSessionManagers' \in [Account -> Mgr \cup {None}]
<1>1. LoopsInv /\ SlotInv /\ CountInv /\ UpInv /\ SMTypeOK
    BY DEF TypeInv, MgrInv
<1>2. LoopsInv'
    BY <1>1 DEF CreateUpSessionManager, MgrStarts, LoopsInv
<1>3. UNCHANGED <<ready, slotSession, minerNum>> /\ UNCHANGED <<upStat, upMgr, upSlot>>
    BY DEF StartsQuietly, slotVars, upVars
<1>4. SlotInv'
    BY <1>1, <1>3 DEF SlotInv, ReadySlots
<1>5. CountInv'
    BY <1>1, <1>3 DEF CountInv, CreateUpSessionManager, MgrStarts, StartsQuietly
<1>6. UpInv'
    BY <1>1, <1>3 DEF UpInv, UpLoop
<1>7. upSessionManagers' \in [Account -> Mgr \cup {None}]
    BY <1>1 DEF CreateUpSessionManager, SMTypeOK
<1> QED
    BY <1>2, <1>4, <1>5, <1>6, <1>7 DEF MgrInv, StartsQuietly

LEMMA StayTypes ==
    ASSUME TypeInv, UNCHANGED <<upVars, mgrVars, fakeLoop>>
    PROVE  UpInv' /\ MgrInv'
<1>1. LoopsInv /\ SlotInv /\ CountInv /\ UpInv
    BY DEF TypeInv, MgrInv
<1>2. UNCHANGED <<upStat, upMgr, upSlot>> /\ UNCHANGED <<ready, slotSession, minerNum>>
      /\ UNCHANGED <<mgrLoop, mgrAccount, fakeMinerNum>>
      /\ UNCHANGED <<initSuccess, initFailureCounter, connecting>>
    BY DEF upVars, mgrVars, slotVars, connVars
<1>3. LoopsInv' /\ UpInv'
    BY <1>1, <1>2 DEF LoopsInv, UpInv, UpLoop
<1>4. SlotInv' /\ CountInv'
    BY <1>1, <1>2 DEF SlotInv, CountInv, ReadySlots
<1> QED
    BY <1>3, <1>4 DEF MgrInv

LEMMA SMRunsTypes ==
    ASSUME TypeInv, SMRuns \/ OperatorActs, KnownKept
    PROVE  MailInv' /\ UpInv' /\ MapInv' /\ MgrInv' /\ SMTypeOK'
<1>0. MailInv /\ Messages \subseteq Messages' /\ SMTypeOK
    BY MessagesKept DEF TypeInv
<1>1. MailInv'
    <2>1. CASE SMStarts
        <3>1. Passes({}, {}) /\ {} \subseteq Messages'
            BY <2>1, QuietPasses DEF SMStarts
        <3> QED
            BY <1>0, <3>1, PassesMail
    <2>2. CASE SMAddDownSession(subAccount)
        <3> DEFINE d == Head(chan[SM]).session
        <3>1. d \in Known /\ Head(chan[SM]) = EventAddDownSession(d)
            BY <2>2, SMAddMail
        <3>2. PICK m \in Mgr : Passes({<<SM, Head(chan[SM])>>}, {<<m, Head(chan[SM])>>})
            BY <2>2, SMAddMail
        <3>3. <<m, Head(chan[SM])>> \in Messages
            BY <3>1, AddMessages, Actors
        <3> QED
            BY <1>0, <3>2, <3>3, PassesMail
    <2>3. CASE SMStopUpSessionManager \/ SMExit
        <3>1. PICK out : out \subseteq Orders /\ Passes({<<SM, Head(chan[SM])>>}, out)
            BY <2>3, SMOtherMail
        <3>2. Orders \subseteq Messages
            BY OrdersAreMessages DEF Orders
        <3> QED
            BY <1>0, <3>1, <3>2, PassesMail
    <2>4. CASE SMStop
        BY <1>0, <2>4, SMStopMail, PassesMail
    <2> QED
        BY <2>1, <2>2, <2>3, <2>4 DEF SMRuns, OperatorActs, SMHandles
<1>2. \/ \E m \in Mgr, a \in Account : CreateUpSessionManager(m, a) /\ StartsQuietly
      \/ UNCHANGED <<mgrVars, upVars, mapVars, fakeLoop>>
    <2>1. CASE SMStarts
        BY <2>1 DEF SMStarts
    <2>2. CASE SMAddDownSession(subAccount)
        <3>1. subAccount[Head(chan[SM]).session] \in Account
            BY <2>2, SMAddMail DEF Known
        <3> QED
            BY <2>2, <3>1 DEF SMAddDownSession
    <2>3. CASE SMStopUpSessionManager \/ SMExit \/ SMStop
        BY <2>3 DEF SMStopUpSessionManager, SMExit, SMStop
    <2> QED
        BY <2>1, <2>2, <2>3 DEF SMRuns, OperatorActs, SMHandles
<1>3. UpInv' /\ MgrInv' /\ UNCHANGED mapVars
    BY <1>2, StartTypes, StayTypes
<1>4. MapInv'
    <2>1. UNCHANGED downSessions /\ disconnected' \in [PoolSession -> Nat]
        BY <1>3 DEF mapVars, TypeInv, MapInv
    <2> QED
        BY <2>1, MapUnchanged
<1>5. upSessionManagers' \in [Account -> Mgr \cup {None}]
    <2>1. CASE \E m \in Mgr, a \in Account : CreateUpSessionManager(m, a) /\ StartsQuietly
        BY <2>1, StartTypes
    <2>2. CASE UNCHANGED upSessionManagers
        BY <1>0, <2>2 DEF SMTypeOK
    <2>3. CASE SMStopUpSessionManager
        BY <1>0, <2>3 DEF SMStopUpSessionManager, Forgets, SMTypeOK
    <2>4. CASE SMStarts
        BY <1>0, <2>1, <2>4 DEF SMStarts, SMTypeOK
    <2>5. CASE SMAddDownSession(subAccount)
        <3>1. subAccount[Head(chan[SM]).session] \in Account
            BY <2>5, SMAddMail DEF Known
        <3> QED
            BY <2>1, <2>2, <2>5, <3>1 DEF SMAddDownSession
    <2> QED
        BY <2>2, <2>3, <2>4, <2>5 DEF SMRuns, OperatorActs, SMHandles, SMExit, SMStop
<1>6. smStat' \in {"starting", "listening", "stopping", "exited"}
    BY <1>0 DEF SMRuns, OperatorActs, SMHandles, SMStarts, SMAddDownSession, SMStopUpSessionManager,
                SMExit, SMStop, SMTypeOK
<1> QED
    BY <1>1, <1>3, <1>4, <1>5, <1>6 DEF SMTypeOK

LEMMA MapAndSMStay ==
    ASSUME TypeInv, KnownKept, UNCHANGED <<mapVars, smVars>>
    PROVE  MapInv' /\ SMTypeOK'
<1>1. UNCHANGED downSessions /\ disconnected' \in [PoolSession -> Nat]
    BY DEF mapVars, TypeInv, MapInv
<1>2. MapInv'
    BY <1>1, MapUnchanged
<1> QED
    BY <1>2 DEF smVars, TypeInv, SMTypeOK

LEMMA NextTypeInv == TypeInv /\ [Next]_vars => TypeInv'
<1> SUFFICES ASSUME TypeInv, [Next]_vars PROVE TypeInv'
    OBVIOUS
<1>1. LeaseInv' /\ KnownKept
    BY NextLeaseInv, KnownStays DEF TypeInv
<1>2. MailInv /\ DownInv /\ MgrInv /\ SMTypeOK /\ Messages \subseteq Messages'
    BY <1>1, MessagesKept DEF TypeInv
<1>3. UNCHANGED downVars => DownInv'
    BY <1>2 DEF downVars, DownInv, RunLoop
<1>4. UNCHANGED poolVars => UpInv' /\ MapInv' /\ MgrInv' /\ SMTypeOK'
    BY <1>1, StayTypes, MapAndSMStay DEF poolVars
<1>5. ASSUME NEW d \in Miner, MinerActs(d) \/ DownRuns(d) PROVE TypeInv'
    <2>1. (MinerStep(d) \/ DownHandles(d)) /\ UNCHANGED poolVars
        BY <1>5 DEF MinerActs, DownRuns
    <2>2. DownInv' /\ MailInv'
        BY <1>1, <2>1, DownInvStays, DownMailStays
    <2> QED
        BY <1>1, <1>4, <2>1, <2>2 DEF TypeInv
<1>6. ASSUME NEW u \in Up, PoolActs(u) PROVE TypeInv'
    <2>1. PoolBreaks(u) /\ UNCHANGED <<idVars, downVars, fakeLoop, mgrVars, smVars>> /\ UNCHANGED <<upVars, mapVars>>
        BY <1>6 DEF PoolActs, PoolBreaks
    <2>2. <<u, EventConnBroken>> \in Messages
        BY OtherMessages, Actors, PlainEvents
    <2>3. Passes({}, {<<u, EventConnBroken>>}) /\ {<<u, EventConnBroken>>} \subseteq Messages'
        BY <1>2, <2>1, <2>2, PoolBreaksMail
    <2>4. MailInv'
        BY <1>1, <1>2, <2>3, PassesMail
    <2> QED
        BY <1>1, <1>3, <2>1, <2>4, StayTypes, MapAndSMStay DEF TypeInv
<1>7. ASSUME NEW m \in Mgr, ConnectRefused(m) \/ Connects(m) PROVE TypeInv'
    <2>1. PICK s \in Slot : ConnectFails(m, s) \/ \E u \in Up : ConnectSucceeds(m, s, u)
        BY <1>7 DEF ConnectRefused, Connects
    <2>2. UpInv' /\ MgrInv'
        BY <2>1, ConnectTypes
    <2>3. MailInv'
        <3>1. ASSUME NEW x, x \in Messages, Passes({}, {x}) PROVE MailInv'
            <4>1. {x} \subseteq Messages'
                BY <1>2, <3>1
            <4> QED
                BY <1>1, <1>2, <3>1, <4>1, PassesMail
        <3>2. CASE ConnectFails(m, s)
            BY <3>1, <3>2, ConnectMail
        <3>3. CASE \E u \in Up : ConnectSucceeds(m, s, u)
            BY <3>1, <3>3, ConnectMail
        <3> QED
            BY <2>1, <3>2, <3>3
    <2>4. UNCHANGED <<downVars, smVars, mapVars>>
        BY <1>7 DEF ConnectRefused, Connects, ConnectFails, ConnectSucceeds
    <2>5. DownInv' /\ MapInv' /\ SMTypeOK'
        BY <1>1, <1>3, <2>4, MapAndSMStay
    <2> QED
        BY <1>1, <2>2, <2>3, <2>5 DEF TypeInv
<1>8. ASSUME OperatorActs \/ SMRuns PROVE TypeInv'
    <2>1. UNCHANGED downVars
        BY <1>8 DEF OperatorActs, SMRuns
    <2> QED
        BY <1>1, <1>3, <1>8, <2>1, SMRunsTypes DEF TypeInv
<1>9. ASSUME NEW u \in Up, UpRuns(u) PROVE TypeInv'
    <2>1. UpHandles(u, sessionID) /\ UNCHANGED <<downVars, fakeLoop, mgrVars, smVars>>
        BY <1>9 DEF UpRuns
    <2>2. MailInv' /\ UpInv' /\ MapInv'
        BY <1>1, <2>1, UpHandlesMail, UpHandlesTypes
    <2>3. MgrInv' /\ SMTypeOK'
        BY <1>2, <2>1 DEF MgrInv, LoopsInv, SlotInv, CountInv, ReadySlots, mgrVars, slotVars, connVars,
                          smVars, SMTypeOK
    <2> QED
        BY <1>1, <1>3, <2>1, <2>2, <2>3 DEF TypeInv
<1>10. ASSUME NEW m \in Mgr, FakeRuns(m) PROVE TypeInv'
    <2>1. FakeHandles(m, sessionID) /\ UNCHANGED <<downVars, mgrVars, smVars>>
        BY <1>10 DEF FakeRuns
    <2>2. MailInv' /\ UpInv' /\ MapInv' /\ fakeLoop' \subseteq fakeLoop
        BY <1>1, <2>1, FakeHandlesTypes
    <2>3. MgrInv' /\ SMTypeOK'
        BY <1>2, <2>1, <2>2 DEF MgrInv, LoopsInv, SlotInv, CountInv, ReadySlots, mgrVars, slotVars, connVars,
                          smVars, SMTypeOK
    <2> QED
        BY <1>1, <1>3, <2>1, <2>2, <2>3 DEF TypeInv
<1>11. ASSUME NEW m \in Mgr, MgrRuns(m) PROVE TypeInv'
    <2>1. /\ MgrHandles(m) /\ UNCHANGED <<downVars, smVars>>
          /\ UNCHANGED <<upVars, mapVars, fakeLoop>>
        BY <1>11 DEF MgrRuns, MgrHandles
    <2>2. MailInv' /\ SlotInv' /\ CountInv'
        BY <1>1, <2>1, MgrMail, SlotInvStays, CountInvStays
    <2>3. mgrLoop' \subseteq mgrLoop /\ UNCHANGED mgrAccount
        BY <2>1 DEF MgrHandles, MgrAddDownSession, MgrUpSessionReady, MgrUpSessionInitFailed,
                    MgrUpSessionBroken, MgrUpdateMinerNum, MgrUpdateFakeMinerNum, MgrExit
    <2>4. LoopsInv'
        BY <1>2, <2>1, <2>3, LoopsInvStays DEF MgrInv
    <2>5. UpInv'
        BY <2>1 DEF upVars, UpInv, UpLoop, TypeInv
    <2> QED
        BY <1>1, <1>3, <2>1, <2>2, <2>4, <2>5, MapAndSMStay DEF TypeInv, MgrInv
<1>12. ASSUME NEW m \in BagToSet(spawned), SenderRuns(m) PROVE TypeInv'
    <2>1. Deliver(m) /\ UNCHANGED <<downVars, poolVars>>
        BY <1>12 DEF SenderRuns
    <2>2. m \in Messages /\ IsChan(chan) /\ IsABag(spawned)
        BY <1>2 DEF MailInv, Mail, BagToSet
    <2>3. PICK a \in Actor, e \in Event : m = <<a, e>>
        BY <2>2 DEF Messages
    <2>4. Passes({}, {}) /\ {} \subseteq Messages'
        BY <2>1, <2>2, <2>3, DeliverPasses
    <2>5. MailInv'
        BY <1>1, <1>2, <2>4, PassesMail
    <2> QED
        BY <1>1, <1>3, <1>4, <2>1, <2>5 DEF TypeInv
<1>13. CASE UNCHANGED vars
    <2>1. Passes({}, {}) /\ {} \subseteq Messages' /\ UNCHANGED <<downVars, poolVars>>
        BY <1>13, QuietPasses DEF vars
    <2>2. MailInv'
        BY <1>1, <1>2, <2>1, PassesMail
    <2> QED
        BY <1>1, <1>3, <1>4, <2>1, <2>2 DEF TypeInv
<1> QED
    BY <1>5, <1>6, <1>7, <1>8, <1>9, <1>10, <1>11, <1>12, <1>13 DEF Next, Environment, Agents

LEMMA TypeInvariant == Spec => []TypeInv
<1> QED
    BY InitTypeInv, NextTypeInv, PTL DEF Spec

\* The variables of every part, and what is in the channels and about to be
\* sent, keep their types: only known events go to parts that exist, each map
\* holds miners, and the slots, counters and loops are what the code declares.
THEOREM AgentTyped == Spec => []TypeOK
<1>1. TypeInv => TypeOK
    <2> SUFFICES ASSUME TypeInv PROVE TypeOK
        OBVIOUS
    <2>1. MailTypeOK
        <3>1. Mail(chan, spawned, Messages)
            BY DEF TypeInv, MailInv
        <3>2. ASSUME NEW a \in Actor PROVE chan[a] \in Seq(Event)
            <4>1. IsSequence(chan[a]) /\ \A i \in DOMAIN chan[a] : chan[a][i] \in Event
                BY <3>1 DEF Mail, IsChan, Messages
            <4> QED
                BY <4>1, SequenceOf
        <3>3. \A m \in BagToSet(spawned) : m[1] \in Actor /\ m[2] \in Event
            BY <3>1 DEF Mail, Messages, BagToSet
        <3> QED
            BY <3>1, <3>2, <3>3 DEF Mail, IsChan, MailTypeOK
    <2>2. IDTypeOK
        BY DEF TypeInv, LeaseInv, IDInv
    <2>3. DownTypeOK
        BY DEF TypeInv, LeaseInv, DownInv, DownTypeOK
    <2>4. UpTypeOK
        BY DEF TypeInv, UpInv, MapInv, UpTypeOK, Known
    <2>5. FakeTypeOK /\ MgrTypeOK
        BY DEF TypeInv, MgrInv, LoopsInv, SlotInv, CountInv, FakeTypeOK, MgrTypeOK
    <2>6. SMTypeOK
        BY DEF TypeInv
    <2> QED
        BY <2>1, <2>2, <2>3, <2>4, <2>5, <2>6 DEF TypeOK
<1> QED
    BY <1>1, TypeInvariant, PTL

-----------------------------------------------------------------------------
(* In whose hands a miner is.                                              *)

\* The messages that decide what becomes of the miner c.
Carriers(c) == {x \in Actor \X Event : Carries(x[1], x[2], c)}
Unsent(c) == Free(chan, spawned, Carriers(c))
Nowhere(c) == Holders(c) = {} /\ Unsent(c)

\* c is with one session, or in one message, or nowhere, as long as nobody
\* knows it.
Custody(c) ==
    /\ AtMostOne(chan, spawned, Carriers(c))
    /\ \A p, q \in Holders(c) : p = q
    /\ Holders(c) # {} => Unsent(c)
    /\ Fresh(c) => Nowhere(c)

\* Sessions that have not started serve nobody.
Unused ==
    /\ \A u \in Up : upStat[u] = "none" => Served(u) = {}
    /\ \A m \in Mgr : mgrAccount[m] = None => Served(Fake(m)) = {}

CustodyInv == TypeInv /\ Unused /\ \A c \in Miner : Custody(c)

\* The event a session is about to handle takes c's place in its map away: it
\* is late, and the id in it is now c's, or its miner has the id of c.
Evicts(c) ==
    \E p \in PoolSession : \E id \in DOMAIN downSessions[p] :
       /\ downSessions[p][id] = c /\ chan[p] # <<>>
       /\ \/ Head(chan[p]) = EventDownSessionBroken(id)
          \/ \E d \in Known \ {c} : Head(chan[p]) = EventAddDownSession(d) /\ sessionID[d] = id

\* A running miner that nobody will serve.
Lost(c) == RunLoop(c) /\ Nowhere(c)

\* What a step does to c: nothing bad, unless c is evicted.
Follows(c) == Custody(c)' /\ (Lost(c)' => Lost(c) \/ Evicts(c))

LEMMA CarrierIs ==
    ASSUME NEW c \in Miner, NEW a \in Actor, NEW e \in Event
    PROVE  <<a, e>> \in Carriers(c) <=>
              \/ e = EventAddDownSession(c)
              \/ a = c /\ e.type \in {"SetUpSession", "PoolNotReady", "Exit"}
<1>1. e.type = "AddDownSession" => e = EventAddDownSession(e.session)
    BY EventKinds
<1>2. EventAddDownSession(c).type = "AddDownSession" /\ EventAddDownSession(c).session = c
    BY SessionEvents
<1> QED
    BY <1>1, <1>2 DEF Carriers, Carries

LEMMA AddIsOne ==
    ASSUME NEW d, NEW c, EventAddDownSession(d) = EventAddDownSession(c)
    PROVE  d = c
<1>1. EventAddDownSession(d).session = d /\ EventAddDownSession(c).session = c
    BY DEF EventAddDownSession
<1> QED
    BY <1>1

\* The first message of a channel is on its way.
LEMMA FirstIsSent ==
    ASSUME MailInv, NEW a \in Actor, NEW t, Receives(a, t), NEW STATE K, <<a, Head(chan[a])>> \in K
    PROVE  ~Free(chan, spawned, K)
<1>1. IsChan(chan) /\ chan[a] # <<>>
    BY Received
<1>2. 1 \in DOMAIN chan[a] /\ Head(chan[a]) = chan[a][1]
    BY <1>1, TakenChannel
<1> QED
    BY <1>2 DEF Free, Waits

\* A step that moves no message of c.
LEMMA KeepsHands ==
    ASSUME NEW c \in Miner, Custody(c), NEW ACTION in, NEW ACTION out, Passes(in, out),
           in \cap Carriers(c) = {}, out \cap Carriers(c) = {},
           Holders(c)' \subseteq Holders(c), Fresh(c)' => Fresh(c),
           RunLoop(c)' => RunLoop(c), Holders(c)' # Holders(c) => Evicts(c)
    PROVE  Follows(c)
<1> DEFINE K == Carriers(c)
<1>1. K' = K
    BY DEF Carriers, Carries
<1>2. AtMostOne(chan, spawned, K)
    BY DEF Custody
<1>3. AtMostOne(chan', spawned', K) /\ (Free(chan', spawned', K) <=> Free(chan, spawned, K))
    BY <1>2 DEF Passes
<1>4. AtMostOne(chan', spawned', K)
    BY <1>3
<1>5. Unsent(c)' <=> Unsent(c)
    BY <1>1, <1>3 DEF Unsent
<1>6. Custody(c)'
    BY <1>1, <1>4, <1>5 DEF Custody, Nowhere
<1>7. Lost(c)' => Lost(c) \/ Evicts(c)
    BY <1>5 DEF Lost, Nowhere
<1> HIDE DEF K
<1> QED
    BY <1>6, <1>7, Zenon DEF Follows

\* A step after which c is in one message, m, and no longer where it was.
LEMMA GivesHands ==
    ASSUME NEW c \in Miner, Custody(c), NEW ACTION in, NEW ACTION out, Passes(in, out),
           NEW m, out \cap Carriers(c) = {m},
           \/ in \cap Carriers(c) # {} /\ ~Unsent(c)
           \/ Holders(c) # {}
           \/ ~Fresh(c)' /\ Nowhere(c),
           Holders(c)' = {}, Fresh(c)' => Fresh(c)
    PROVE  Follows(c)
<1> DEFINE K == Carriers(c)
<1>1. K' = K
    BY DEF Carriers, Carries
<1>2. AtMostOne(chan, spawned, K) /\ (in \cap K # {} \/ Free(chan, spawned, K))
    BY DEF Custody, Unsent, Nowhere
<1>3. AtMostOne(chan', spawned', K) /\ ~Free(chan', spawned', K)
    BY <1>2 DEF Passes
<1>4. ~Unsent(c)'
    BY <1>1, <1>3 DEF Unsent
<1>5. ~Fresh(c)'
    BY DEF Custody, Nowhere
<1>6. Custody(c)'
    BY <1>1, <1>3, <1>5 DEF Custody
<1> QED
    BY <1>4, <1>6 DEF Follows, Lost, Nowhere

\* A step that takes the message of c: a session serves it then, or it ends.
LEMMA TakesHands ==
    ASSUME NEW c \in Miner, Custody(c), NEW ACTION in, NEW ACTION out, Passes(in, out),
           in \cap Carriers(c) # {}, ~Unsent(c), out \cap Carriers(c) = {},
           NEW p, Holders(c)' \subseteq {p}, Fresh(c)' => Fresh(c),
           Holders(c)' # {} \/ ~RunLoop(c)'
    PROVE  Follows(c)
<1> DEFINE K == Carriers(c)
<1>1. K' = K
    BY DEF Carriers, Carries
<1>2. AtMostOne(chan, spawned, K)
    BY DEF Custody
<1>3. AtMostOne(chan', spawned', K) /\ Free(chan', spawned', K)
    BY <1>2 DEF Passes
<1>4. Unsent(c)'
    BY <1>1, <1>3 DEF Unsent
<1>5. ~Fresh(c)'
    BY DEF Custody, Nowhere
<1>6. Custody(c)'
    BY <1>1, <1>3, <1>4, <1>5 DEF Custody
<1> QED
    BY <1>6 DEF Follows, Lost, Nowhere

-----------------------------------------------------------------------------
(* How the sessions that serve a miner change.                             *)

LEMMA RunningIs ==
    /\ \A u \in Up : Running(u) <=> UpLoop(u)
    /\ \A m \in Mgr : Running(Fake(m)) <=> m \in fakeLoop
<1>1. ASSUME NEW m \in Mgr PROVE Running(Fake(m)) <=> m \in fakeLoop
    <2>1. Fake(m) \notin Up /\ Fake(m)[2] = m
        BY ActorAssumption DEF Fake
    <2> QED
        BY <2>1 DEF Running
<1> QED
    BY <1>1 DEF Running

LEMMA FakesDiffer ==
    ASSUME NEW m \in Mgr, NEW n \in Mgr, Fake(m) = Fake(n)
    PROVE  m = n
<1>1. Fake(m)[2] = m /\ Fake(n)[2] = n
    BY DEF Fake
<1> QED
    BY <1>1

\* Only p has changed, as far as it matters for serving.
OnlyAt(p) ==
    \A q \in PoolSession \ {p} : (Running(q)' <=> Running(q)) /\ Served(q)' = Served(q)

LEMMA OnlyUp ==
    ASSUME UpInv, NEW u \in Up, UNCHANGED fakeLoop,
           UpCloses(u) \/ UNCHANGED upVars,
           UNCHANGED downSessions \/ OneMap(u)
    PROVE  OnlyAt(u)
<1>1. ASSUME NEW q \in PoolSession \ {u} PROVE Served(q)' = Served(q)
    BY DEF Served, OneMap
<1>2. ASSUME NEW q \in PoolSession \ {u} PROVE Running(q)' <=> Running(q)
    <2>1. CASE q \in Up
        <3>1. upStat'[q] = upStat[q] \/ (upStat' = [upStat EXCEPT ![u] = "disconnected"] /\ q # u)
            BY <2>1 DEF UpCloses, upVars
        <3>2. upStat'[q] = upStat[q]
            BY <2>1, <3>1 DEF UpInv
        <3> QED
            BY <2>1, <3>2 DEF Running, UpLoop
    <2>2. CASE q \notin Up
        BY <2>2 DEF Running
    <2> QED
        BY <2>1, <2>2
<1> QED
    BY <1>1, <1>2 DEF OnlyAt

LEMMA OnlyFake ==
    ASSUME NEW m \in Mgr, UNCHANGED upVars,
           UNCHANGED fakeLoop \/ fakeLoop' = fakeLoop \ {m} \/ fakeLoop' = fakeLoop \cup {m},
           UNCHANGED downSessions \/ OneMap(Fake(m))
    PROVE  OnlyAt(Fake(m))
<1>1. ASSUME NEW q \in PoolSession \ {Fake(m)} PROVE Served(q)' = Served(q)
    BY DEF Served, OneMap
<1>2. ASSUME NEW q \in PoolSession \ {Fake(m)} PROVE Running(q)' <=> Running(q)
    <2>1. CASE q \in Up
        BY <2>1 DEF Running, UpLoop, upVars
    <2>2. CASE q \notin Up
        <3>1. PICK n \in Mgr : q = Fake(n)
            BY <2>2 DEF PoolSession
        <3>2. n # m /\ q[2] = n
            BY <3>1 DEF Fake
        <3> QED
            BY <2>2, <3>2 DEF Running
    <2> QED
        BY <2>1, <2>2
<1> QED
    BY <1>1, <1>2 DEF OnlyAt

LEMMA HoldersAfter ==
    ASSUME NEW c, NEW p \in PoolSession, OnlyAt(p)
    PROVE  /\ \A q \in PoolSession \ {p} : q \in Holders(c)' <=> q \in Holders(c)
           /\ p \in Holders(c) <=> Running(p) /\ c \in Served(p)
           /\ p \in Holders(c)' <=> Running(p)' /\ c \in Served(p)'
           /\ Holders(c) \subseteq PoolSession /\ Holders(c)' \subseteq PoolSession
BY DEF Holders, OnlyAt

LEMMA HoldersStay ==
    ASSUME NEW c, UNCHANGED <<upStat, fakeLoop, downSessions>>
    PROVE  Holders(c)' = Holders(c)
<1>1. \A p \in PoolSession : (Running(p)' <=> Running(p)) /\ Served(p)' = Served(p)
    BY DEF Running, UpLoop, Served
<1> QED
    BY <1>1 DEF Holders

\* A miner that is served by p is with no other session and in no message.
LEMMA ServedOnlyBy ==
    ASSUME NEW c \in Miner, Custody(c), NEW p \in PoolSession, Running(p), c \in Served(p)
    PROVE  Holders(c) = {p} /\ Unsent(c)
<1>1. p \in Holders(c)
    BY DEF Holders
<1> QED
    BY <1>1 DEF Custody

\* A miner that is in a message is with no session.
LEMMA SentIsUnserved ==
    ASSUME NEW c \in Miner, Custody(c), ~Unsent(c)
    PROVE  Holders(c) = {}
BY DEF Custody

-----------------------------------------------------------------------------
(* Steps of sessions, real or fake, that handle the event of a miner.      *)

\* p puts the miner d in its map.
LEMMA JoinsHands ==
    ASSUME NEW c \in Miner, Custody(c), MailInv, NEW p \in PoolSession, NEW d \in Known,
           Receives(p, "AddDownSession"), Head(chan[p]) = EventAddDownSession(d),
           Running(p), Running(p)', OnlyAt(p),
           downSessions'[p] = Put(downSessions[p], sessionID[d], d),
           Passes({<<p, Head(chan[p])>>}, {}),
           Fresh(c)' => Fresh(c), RunLoop(c)' => RunLoop(c)
    PROVE  Follows(c)
<1> DEFINE f == Put(downSessions[p], sessionID[d], d)
           in == {<<p, Head(chan[p])>>}
<1>1. p \in Actor /\ Head(chan[p]) \in Event
    BY Actors, Received
<1>2. Served(p)' = Values(f) /\ Served(p) = Values(downSessions[p])
    BY DEF Served, Values
<1>3. \A g, id, e : /\ e \in Values(Put(g, id, e))
                    /\ Values(Put(g, id, e)) \subseteq Values(g) \cup {e}
                    /\ \A i \in DOMAIN g \ {id} : g[i] \in Values(Put(g, id, e))
    BY PutValues
<1>4. /\ d \in Served(p)' /\ Served(p)' \subseteq Served(p) \cup {d}
      /\ \A i \in DOMAIN downSessions[p] \ {sessionID[d]} : downSessions[p][i] \in Served(p)'
    BY <1>2, <1>3
<1>5. {} \cap Carriers(c) = {}
    OBVIOUS
<1> HIDE DEF f
<1>6. CASE c = d
    <2>1. <<p, Head(chan[p])>> \in Carriers(c)
        BY <1>1, <1>6, CarrierIs
    <2>2. in \cap Carriers(c) # {} /\ ~Unsent(c)
        BY <1>1, <2>1, FirstIsSent DEF Unsent
    <2>3. Holders(c) = {}
        BY <2>2, SentIsUnserved
    <2>4. Holders(c)' = {p}
        BY <1>4, <1>6, <2>3, HoldersAfter
    <2> HIDE DEF in
    <2> QED
        BY <1>5, <2>2, <2>4, TakesHands DEF in
<1>7. CASE c # d
    <2>1. <<p, Head(chan[p])>> \notin Carriers(c)
        <3>1. EventAddDownSession(d) # EventAddDownSession(c)
            BY <1>7, AddIsOne
        <3>2. Head(chan[p]).type = "AddDownSession"
            BY DEF Receives
        <3> QED
            BY <1>1, <3>1, <3>2, CarrierIs
    <2>2. in \cap Carriers(c) = {}
        BY <2>1
    <2>3. Holders(c)' \subseteq Holders(c)
        BY <1>4, <1>7, HoldersAfter
    <2>4. ASSUME Holders(c)' # Holders(c) PROVE Evicts(c)
        <3>1. c \in Served(p) /\ c \notin Served(p)'
            BY <2>3, <2>4, HoldersAfter
        <3>2. PICK i \in DOMAIN downSessions[p] : c = downSessions[p][i]
            BY <3>1 DEF Served
        <3>3. i = sessionID[d]
            BY <1>4, <3>1, <3>2
        <3> QED
            BY <1>7, <3>2, <3>3 DEF Evicts, Receives
    <2> HIDE DEF in
    <2> QED
        BY <1>5, <2>2, <2>3, <2>4, KeepsHands DEF in
<1> QED
    BY <1>6, <1>7

\* p takes the id out of its map.
LEMMA LeavesHands ==
    ASSUME NEW c \in Miner, Custody(c), MailInv, NEW p \in PoolSession, NEW id,
           Receives(p, "DownSessionBroken"), Head(chan[p]) = EventDownSessionBroken(id),
           Running(p), Running(p)', OnlyAt(p),
           downSessions'[p] = Delete(downSessions[p], id),
           NEW STATE out, out \cap Carriers(c) = {},
           Passes({<<p, Head(chan[p])>>}, out),
           Fresh(c)' => Fresh(c), RunLoop(c)' => RunLoop(c)
    PROVE  Follows(c)
<1> DEFINE f == Delete(downSessions[p], id)
           in == {<<p, Head(chan[p])>>}
<1>1. p \in Actor /\ Head(chan[p]) \in Event /\ Head(chan[p]).type = "DownSessionBroken"
    BY Actors, Received
<1>2. Served(p)' = Values(f) /\ Served(p) = Values(downSessions[p])
    BY DEF Served, Values
<1>3. \A g, i : /\ Values(Delete(g, i)) \subseteq Values(g)
                /\ \A j \in DOMAIN g \ {i} : g[j] \in Values(Delete(g, i))
    BY DeleteValues
<1>4. /\ Served(p)' \subseteq Served(p)
      /\ \A i \in DOMAIN downSessions[p] \ {id} : downSessions[p][i] \in Served(p)'
    BY <1>2, <1>3
<1> HIDE DEF f
<1>5. <<p, Head(chan[p])>> \notin Carriers(c)
    <2>1. EventAddDownSession(c).type = "AddDownSession"
        BY SessionEvents
    <2> QED
        BY <1>1, <2>1, CarrierIs
<1>6. in \cap Carriers(c) = {}
    BY <1>5
<1>7. Holders(c)' \subseteq Holders(c)
    BY <1>4, HoldersAfter
<1>8. ASSUME Holders(c)' # Holders(c) PROVE Evicts(c)
    <2>1. c \in Served(p) /\ c \notin Served(p)'
        BY <1>7, <1>8, HoldersAfter
    <2>2. PICK i \in DOMAIN downSessions[p] : c = downSessions[p][i]
        BY <2>1 DEF Served
    <2>3. i = id
        BY <1>4, <2>1, <2>2
    <2> QED
        BY <2>2, <2>3 DEF Evicts, Receives
<1> HIDE DEF in
<1> QED
    BY <1>6, <1>7, <1>8, KeepsHands DEF in

One(S) == \E m : S = {m}

\* close passes every miner of ds on, each in one message.
LEMMA PendingHands ==
    ASSUME NEW u \in Up, upMgr[u] \in Mgr, NEW STATE ds, ds \subseteq Known, NEW c \in Miner
    PROVE  /\ c \in ds => One(UpClosePending(u, ds) \cap Carriers(c))
           /\ c \notin ds => UpClosePending(u, ds) \cap Carriers(c) = {}
<1>0. ds \subseteq Miner /\ upMgr[u] \in Actor
    BY Actors DEF Known
<1>1. CASE AlwaysKeepDownconn
    <2>1. UpClosePending(u, ds) = {<<upMgr[u], EventAddDownSession(d)>> : d \in ds}
        BY <1>1 DEF UpClosePending
    <2>2. ASSUME NEW d \in ds
          PROVE  <<upMgr[u], EventAddDownSession(d)>> \in Carriers(c) <=> d = c
        <3>1. EventAddDownSession(d) \in Event /\ EventAddDownSession(d).type = "AddDownSession"
            BY <1>0, SessionEvents
        <3> QED
            BY <1>0, <3>1, CarrierIs, AddIsOne
    <2>3. c \in ds => UpClosePending(u, ds) \cap Carriers(c) = {<<upMgr[u], EventAddDownSession(c)>>}
        BY <2>1, <2>2
    <2>4. c \notin ds => UpClosePending(u, ds) \cap Carriers(c) = {}
        BY <2>1, <2>2
    <2> QED
        BY <2>3, <2>4 DEF One
<1>2. CASE ~AlwaysKeepDownconn
    <2>1. UpClosePending(u, ds) = {<<d, EventExit>> : d \in ds}
        BY <1>2 DEF UpClosePending
    <2>2. ASSUME NEW d \in ds
          PROVE  <<d, EventExit>> \in Carriers(c) <=> d = c
        <3>1. EventExit \in Event /\ EventExit.type = "Exit" /\ d \in Actor
            BY <1>0, PlainEvents, Actors
        <3>2. EventAddDownSession(c).type = "AddDownSession"
            BY SessionEvents
        <3> QED
            BY <3>1, <3>2, CarrierIs
    <2>3. c \in ds => UpClosePending(u, ds) \cap Carriers(c) = {<<c, EventExit>>}
        BY <2>1, <2>2
    <2>4. c \notin ds => UpClosePending(u, ds) \cap Carriers(c) = {}
        BY <2>1, <2>2
    <2> QED
        BY <2>3, <2>4 DEF One
<1> QED
    BY <1>1, <1>2

\* u closes with the miners ds in its map.
LEMMA ClosesHands ==
    ASSUME NEW c \in Miner, Custody(c), NEW u \in Up, upMgr[u] \in Mgr, UpLoop(u), ~UpLoop(u)', OnlyAt(u),
           NEW STATE ds, ds \subseteq Known, NEW STATE Q, Q \cap Carriers(c) = {},
           NEW STATE in, Passes(in, Q \cup UpClosePending(u, ds)),
           in \cap Carriers(c) # {} => c \in ds /\ ~Unsent(c),
           c \in ds => c \in Served(u) \/ in \cap Carriers(c) # {},
           c \in Served(u) => c \in ds \/ Evicts(c),
           Fresh(c)' => Fresh(c), RunLoop(c)' => RunLoop(c)
    PROVE  Follows(c)
<1> DEFINE out == Q \cup UpClosePending(u, ds)
<1>1. Running(u) /\ ~Running(u)' /\ u \in PoolSession
    BY Actors DEF Running, UpLoop
<1>2. u \notin Holders(c)' /\ Holders(c)' \subseteq Holders(c)
    BY <1>1, HoldersAfter
<1>3. CASE c \in ds
    <2>0. One(UpClosePending(u, ds) \cap Carriers(c))
        BY <1>3, PendingHands
    <2>1. PICK m : UpClosePending(u, ds) \cap Carriers(c) = {m}
        BY <2>0 DEF One
    <2>2. out \cap Carriers(c) = {m}
        BY <2>1
    <2>3. Holders(c)' = {} /\ (Holders(c) # {} \/ (in \cap Carriers(c) # {} /\ ~Unsent(c)))
        <3>1. CASE c \in Served(u)
            <4>1. Holders(c) = {u}
                BY <1>1, <3>1, ServedOnlyBy
            <4> QED
                BY <1>2, <4>1
        <3>2. CASE in \cap Carriers(c) # {}
            <4>1. ~Unsent(c) /\ Holders(c) = {}
                BY <3>2, SentIsUnserved
            <4> QED
                BY <1>2, <3>2, <4>1
        <3> QED
            BY <1>3, <3>1, <3>2
    <2> HIDE DEF out
    <2>4. Passes(in, out)
        BY DEF out
    <2> QED
        BY <2>2, <2>3, <2>4, GivesHands
<1>4. CASE c \notin ds
    <2>1. UpClosePending(u, ds) \cap Carriers(c) = {}
        BY <1>4, PendingHands
    <2>2. out \cap Carriers(c) = {} /\ in \cap Carriers(c) = {}
        BY <1>4, <2>1
    <2>3. ASSUME Holders(c)' # Holders(c) PROVE Evicts(c)
        <3>1. c \in Served(u)
            BY <1>1, <1>2, <2>3, HoldersAfter
        <3> QED
            BY <1>4, <3>1
    <2> HIDE DEF out
    <2>4. Passes(in, out)
        BY DEF out
    <2> QED
        BY <1>2, <2>2, <2>3, <2>4, KeepsHands
<1> QED
    BY <1>3, <1>4

\* Events that no miner depends on.
LEMMA NoCarrier ==
    ASSUME NEW c \in Miner, NEW a \in Actor, NEW e \in Event,
           e.type \notin {"AddDownSession", "SetUpSession", "PoolNotReady", "Exit"}
    PROVE  <<a, e>> \notin Carriers(c)
BY CarrierIs, SessionEvents

LEMMA OrdersCarryNobody ==
    ASSUME NEW c \in Miner
    PROVE  Orders \cap Carriers(c) = {}
<1>1. ASSUME NEW a \in Actor, NEW e \in Event, Order(a, e) PROVE <<a, e>> \notin Carriers(c)
    <2>1. a # c
        BY <1>1, ActorAssumption DEF Order, PoolSession
    <2>2. e.type # "AddDownSession"
        BY <1>1 DEF Order
    <2> QED
        BY <2>1, <2>2, CarrierIs, SessionEvents
<1> QED
    BY <1>1 DEF Orders

\* The timer's message.
LEMMA TimerCarriesNobody ==
    ASSUME NEW c \in Miner, NEW p \in PoolSession
    PROVE  Timer(p) \cap Carriers(c) = {}
<1>1. ASSUME NEW x \in Timer(p) PROVE x \notin Carriers(c)
    <2>1. x = <<p, EventSendUpdateMinerNum>> /\ p \in Actor
        BY <1>1, Actors DEF Timer
    <2> QED
        BY <2>1, PlainEvents, NoCarrier
<1> QED
    BY <1>1

\* u closes while it handles an event that no other miner depends on.
LEMMA GoesHands ==
    ASSUME NEW c \in Miner, Custody(c), TypeInv, NEW u \in Up, UpLoop(u), UNCHANGED fakeLoop,
           UNCHANGED downSessions \/ OneMap(u),
           NEW STATE ds, ds \subseteq Known, NEW STATE Q, Q \cap Carriers(c) = {},
           UpGoes(u, ds, Q),
           <<u, Head(chan[u])>> \in Carriers(c) => c \in ds /\ ~Unsent(c),
           c \in ds => c \in Served(u) \/ <<u, Head(chan[u])>> \in Carriers(c),
           c \in Served(u) => c \in ds \/ Evicts(c),
           Fresh(c)' => Fresh(c), RunLoop(c)' => RunLoop(c)
    PROVE  Follows(c)
<1> DEFINE b == <<upMgr[u], EventUpSessionBroken(upSlot[u])>>
           in == {<<u, Head(chan[u])>>}
<1>1. upMgr[u] \in Mgr /\ b \notin Carriers(c)
    BY UpCloseSendsIs, NoCarrier
<1>2. ({b} \cup Q) \cap Carriers(c) = {}
    BY <1>1
<1>3. {b} \cup (Q \cup UpClosePending(u, ds)) = ({b} \cup Q) \cup UpClosePending(u, ds)
    OBVIOUS
<1>4. UpCloses(u) /\ Passes(in, ({b} \cup Q) \cup UpClosePending(u, ds))
    BY <1>3 DEF UpGoes
<1>5. OnlyAt(u) /\ ~UpLoop(u)'
    BY <1>4, OnlyUp DEF TypeInv, UpInv, UpCloses, UpLoop
<1>6. /\ in \cap Carriers(c) # {} => c \in ds /\ ~Unsent(c)
      /\ c \in ds => c \in Served(u) \/ in \cap Carriers(c) # {}
    OBVIOUS
<1> HIDE DEF b, in
<1> QED
    BY <1>1, <1>2, <1>4, <1>5, <1>6, ClosesHands

-----------------------------------------------------------------------------
(* Every step, for a miner c.                                              *)

LEMMA UpFollows ==
    ASSUME NEW c \in Miner, Custody(c), TypeInv, NEW u \in Up, UpHandles(u, sessionID), UNCHANGED fakeLoop,
           Fresh(c)' => Fresh(c), RunLoop(c)' => RunLoop(c)
    PROVE  Follows(c)
<1> DEFINE first == <<u, Head(chan[u])>>
<1>0. /\ u \in PoolSession /\ u \in Actor /\ MailInv /\ Served(u) \subseteq Known /\ Served(u) = Values(downSessions[u])
      /\ UpLoop(u) /\ upMgr[u] \in Mgr /\ Head(chan[u]) \in Event
    <2>1. u \in PoolSession /\ u \in Actor /\ MailInv /\ UpLoop(u) /\ \E t : Receives(u, t)
        BY Actors DEF TypeInv, UpHandles, UpConnBroken, UpExit, UpAddDownSession,
                      UpDownSessionBroken, UpSendUpdateMinerNum
    <2>2. Head(chan[u]) \in Event
        BY <2>1, Received
    <2> QED
        BY <2>1, <2>2, ServedIsValues DEF TypeInv, MapInv, UpInv
<1>1. {} \cap Carriers(c) = {}
    OBVIOUS
<1>2. CASE UpConnBroken(u)
    <2>1. first \notin Carriers(c)
        BY <1>0, <1>2, UpConnBrokenMail, NoCarrier
    <2>2. UpGoes(u, Served(u), {})
        <3>1. {} \cup UpClosePending(u, Served(u)) = UpClosePending(u, Served(u))
            OBVIOUS
        <3> QED
            BY <1>2, <3>1, UpConnBrokenMail DEF UpGoes, UpConnBroken
    <2>3. UNCHANGED downSessions
        BY <1>2 DEF UpConnBroken, mapVars
    <2> HIDE DEF first
    <2> QED
        BY <1>0, <1>1, <2>1, <2>2, <2>3, GoesHands DEF first
<1>3. CASE UpExit(u)
    <2>1. first \notin Carriers(c)
        <3>1. u # c /\ Head(chan[u]).type = "Exit"
            BY <1>3, UpExitMail, ActorAssumption
        <3> QED
            BY <1>0, <3>1, CarrierIs, SessionEvents
    <2>2. Passes({first}, {} \cup UpClosePending(u, Served(u)))
        <3>1. {} \cup UpClosePending(u, Served(u)) = UpClosePending(u, Served(u))
            OBVIOUS
        <3> QED
            BY <1>3, <3>1, UpExitMail
    <2>3. UNCHANGED downSessions /\ UpCloses(u)
        BY <1>3 DEF UpExit, mapVars
    <2>4. OnlyAt(u) /\ ~UpLoop(u)'
        BY <1>3, <2>3, OnlyUp DEF TypeInv, UpInv, UpCloses, UpLoop
    <2>5. {first} \cap Carriers(c) = {}
        BY <2>1
    <2> HIDE DEF first
    <2> QED
        BY <1>0, <1>1, <2>2, <2>4, <2>5, ClosesHands
<1>4. CASE UpAddDownSession(u, sessionID)
    <2> DEFINE d == Head(chan[u]).session
               f == Put(downSessions[u], sessionID[d], d)
    <2>1. /\ d \in Known /\ Head(chan[u]) = EventAddDownSession(d)
          /\ OneMap(u) /\ downSessions'[u] = f /\ Values(f) \subseteq Known
          /\ UpStays(u, {}) \/ UpGoes(u, Values(f), {})
        BY <1>4, UpAddMail
    <2>0. Receives(u, "AddDownSession")
        BY <1>4 DEF UpAddDownSession
    <2>2. CASE UpStays(u, {})
        <3>1. OnlyAt(u)
            BY <2>1, <2>2, OnlyUp DEF UpStays, TypeInv
        <3>2. Running(u) /\ Running(u)'
            BY <1>0, <2>2 DEF UpStays, Running, UpLoop, upVars
        <3> HIDE DEF d
        <3> QED
            BY <1>0, <2>0, <2>1, <2>2, <3>1, <3>2, JoinsHands DEF UpStays
    <2>3. CASE UpGoes(u, Values(f), {})
        <3>1. /\ d \in Values(f) /\ Values(f) \subseteq Served(u) \cup {d}
              /\ \A i \in DOMAIN downSessions[u] \ {sessionID[d]} : downSessions[u][i] \in Values(f)
            <4>1. \A g, id, e : /\ e \in Values(Put(g, id, e))
                                /\ Values(Put(g, id, e)) \subseteq Values(g) \cup {e}
                                /\ \A i \in DOMAIN g \ {id} : g[i] \in Values(Put(g, id, e))
                BY PutValues
            <4> QED
                BY <1>0, <4>1
        <3> HIDE DEF f
        <3>2. first \in Carriers(c) <=> c = d
            BY <1>0, <2>1, CarrierIs, AddIsOne, SessionEvents DEF Known
        <3>3. c \in Served(u) => c \in Values(f) \/ Evicts(c)
            <4> SUFFICES ASSUME c \in Served(u), c \notin Values(f) PROVE Evicts(c)
                OBVIOUS
            <4>1. PICK i \in DOMAIN downSessions[u] : c = downSessions[u][i]
                BY DEF Served
            <4>2. i = sessionID[d] /\ c # d
                BY <3>1, <4>1
            <4> HIDE DEF d
            <4> QED
                BY <1>0, <2>0, <2>1, <4>1, <4>2 DEF Evicts, Receives
        <3>4. first \in Carriers(c) => c \in Values(f) /\ ~Unsent(c)
            BY <1>0, <2>0, <3>1, <3>2, FirstIsSent DEF Unsent
        <3>5. c \in Values(f) => c \in Served(u) \/ first \in Carriers(c)
            BY <3>1, <3>2
        <3> HIDE DEF first
        <3> QED
            BY <1>0, <1>1, <2>1, <2>3, <3>3, <3>4, <3>5, GoesHands DEF first
    <2> QED
        BY <2>1, <2>2, <2>3
<1>5. CASE UpDownSessionBroken(u)
    <2> DEFINE id == Head(chan[u]).sessionID
               f == Delete(downSessions[u], id)
    <2>1. /\ Head(chan[u]) = EventDownSessionBroken(id)
          /\ OneMap(u) /\ downSessions'[u] = f /\ Values(f) \subseteq Known
          /\ UpStays(u, Timer(u)) \/ UpGoes(u, Values(f), Timer(u))
        BY <1>5, UpBrokenMail
    <2>0. Receives(u, "DownSessionBroken")
        BY <1>5 DEF UpDownSessionBroken
    <2>2. Timer(u) \cap Carriers(c) = {}
        BY <1>0, TimerCarriesNobody
    <2>3. CASE UpStays(u, Timer(u))
        <3>1. OnlyAt(u)
            BY <2>1, <2>3, OnlyUp DEF UpStays, TypeInv
        <3>2. Running(u) /\ Running(u)'
            BY <1>0, <2>3 DEF UpStays, Running, UpLoop, upVars
        <3> HIDE DEF id
        <3> QED
            BY <1>0, <2>0, <2>1, <2>2, <2>3, <3>1, <3>2, LeavesHands DEF UpStays
    <2>4. CASE UpGoes(u, Values(f), Timer(u))
        <3>1. /\ Values(f) \subseteq Served(u)
              /\ \A i \in DOMAIN downSessions[u] \ {id} : downSessions[u][i] \in Values(f)
            <4>1. \A g, i : /\ Values(Delete(g, i)) \subseteq Values(g)
                            /\ \A j \in DOMAIN g \ {i} : g[j] \in Values(Delete(g, i))
                BY DeleteValues
            <4> QED
                BY <1>0, <4>1
        <3> HIDE DEF f
        <3>2. first \notin Carriers(c)
            <4>1. Head(chan[u]).type = "DownSessionBroken"
                BY <2>0 DEF Receives
            <4> QED
                BY <1>0, <4>1, NoCarrier
        <3>3. c \in Served(u) => c \in Values(f) \/ Evicts(c)
            <4> SUFFICES ASSUME c \in Served(u), c \notin Values(f) PROVE Evicts(c)
                OBVIOUS
            <4>1. PICK i \in DOMAIN downSessions[u] : c = downSessions[u][i]
                BY DEF Served
            <4>2. i = id
                BY <3>1, <4>1
            <4> HIDE DEF id
            <4> QED
                BY <1>0, <2>0, <2>1, <4>1, <4>2 DEF Evicts, Receives
        <3> HIDE DEF first
        <3> QED
            BY <1>0, <2>1, <2>2, <2>4, <3>1, <3>2, <3>3, GoesHands DEF first
    <2> QED
        BY <2>1, <2>3, <2>4
<1>6. CASE UpSendUpdateMinerNum(u)
    <2> DEFINE b == <<upMgr[u], EventUpdateMinerNum(upSlot[u], disconnected[u])>>
    <2>1. /\ Passes({first}, {b}) /\ first \notin Carriers(c) /\ b \notin Carriers(c)
        BY <1>0, <1>6, UpSendUpdateMinerNumMail, NoCarrier, Actors
    <2>2. UNCHANGED <<upStat, fakeLoop, downSessions>>
        BY <1>6 DEF UpSendUpdateMinerNum, upVars
    <2>3. Holders(c)' = Holders(c)
        BY <2>2, HoldersStay
    <2> HIDE DEF b, first
    <2>4. {first} \cap Carriers(c) = {} /\ {b} \cap Carriers(c) = {}
        BY <2>1
    <2> QED
        BY <2>1, <2>3, <2>4, KeepsHands
<1> QED
    BY <1>2, <1>3, <1>4, <1>5, <1>6 DEF UpHandles

\* What the fake session passes on when it is emptied or exits.
LEMMA ReturnsHands ==
    ASSUME NEW m \in Mgr, Served(Fake(m)) \subseteq Known, NEW c \in Miner
    PROVE  /\ c \in Served(Fake(m)) => One(Returns(m) \cap Carriers(c)) /\ One(Released(m) \cap Carriers(c))
           /\ c \notin Served(Fake(m)) => Returns(m) \cap Carriers(c) = {} /\ Released(m) \cap Carriers(c) = {}
<1> DEFINE ds == Served(Fake(m))
<1>0. ds \subseteq Miner /\ m \in Actor
    BY Actors DEF Known
<1>1. Returns(m) = {<<m, EventAddDownSession(d)>> : d \in ds} /\ Released(m) = {<<d, EventExit>> : d \in ds}
    BY DEF Returns, Released
<1> HIDE DEF ds
<1>2. ASSUME NEW d \in ds
      PROVE  /\ <<m, EventAddDownSession(d)>> \in Carriers(c) <=> d = c
             /\ <<d, EventExit>> \in Carriers(c) <=> d = c
    <2>1. EventAddDownSession(d) \in Event /\ EventAddDownSession(d).type = "AddDownSession"
        BY <1>0, SessionEvents
    <2>2. EventExit \in Event /\ EventExit.type = "Exit" /\ d \in Actor
        BY <1>0, PlainEvents, Actors
    <2>3. EventAddDownSession(c).type = "AddDownSession"
        BY SessionEvents
    <2>4. <<m, EventAddDownSession(d)>> \in Carriers(c) <=> d = c
        BY <1>0, <2>1, CarrierIs, AddIsOne
    <2>5. <<d, EventExit>> \in Carriers(c) <=> d = c
        BY <2>2, <2>3, CarrierIs
    <2> QED
        BY <2>4, <2>5
<1>3. c \in ds => /\ Returns(m) \cap Carriers(c) = {<<m, EventAddDownSession(c)>>}
                  /\ Released(m) \cap Carriers(c) = {<<c, EventExit>>}
    BY <1>1, <1>2
<1>4. c \notin ds => Returns(m) \cap Carriers(c) = {} /\ Released(m) \cap Carriers(c) = {}
    BY <1>1, <1>2
<1> QED
    BY <1>3, <1>4 DEF One, ds

\* The fake session passes all its miners on and serves none then.
LEMMA EmptiesHands ==
    ASSUME NEW c \in Miner, Custody(c), NEW p \in PoolSession, Running(p), OnlyAt(p),
           ~Running(p)' \/ Served(p)' = {},
           NEW STATE in, NEW STATE out, Passes(in, out), in \cap Carriers(c) = {},
           c \in Served(p) => One(out \cap Carriers(c)),
           c \notin Served(p) => out \cap Carriers(c) = {},
           Fresh(c)' => Fresh(c), RunLoop(c)' => RunLoop(c)
    PROVE  Follows(c)
<1>1. p \notin Holders(c)' /\ Holders(c)' \subseteq Holders(c)
    BY HoldersAfter
<1>2. CASE c \in Served(p)
    <2>1. Holders(c) = {p} /\ Holders(c)' = {}
        BY <1>1, <1>2, ServedOnlyBy
    <2>2. PICK m : out \cap Carriers(c) = {m}
        BY <1>2 DEF One
    <2> QED
        BY <2>1, <2>2, GivesHands
<1>3. CASE c \notin Served(p)
    <2>1. Holders(c)' = Holders(c)
        BY <1>1, <1>3, HoldersAfter
    <2> QED
        BY <1>3, <2>1, KeepsHands
<1> QED
    BY <1>2, <1>3

LEMMA FakeFollows ==
    ASSUME NEW c \in Miner, Custody(c), TypeInv, NEW m \in Mgr, FakeHandles(m, sessionID),
           Fresh(c)' => Fresh(c), RunLoop(c)' => RunLoop(c)
    PROVE  Follows(c)
<1> DEFINE p == Fake(m)
           first == <<p, Head(chan[p])>>
<1>0. /\ p \in PoolSession /\ p \in Actor /\ m \in Actor /\ MailInv /\ Served(p) \subseteq Known
      /\ Running(p) /\ Head(chan[p]) \in Event
    <2>1. p \in PoolSession /\ p \in Actor /\ m \in Actor /\ MailInv /\ m \in fakeLoop /\ \E t : Receives(p, t)
        BY Actors DEF TypeInv, FakeHandles, FakeAddDownSession, FakeDownSessionBroken,
                      FakeSendUpdateMinerNum, FakeTransferDownSessions, FakeExit, FakeReceives
    <2>2. Head(chan[p]) \in Event
        BY <2>1, Received
    <2> QED
        BY <2>1, <2>2, RunningIs DEF TypeInv, MapInv
<1>1. {} \cap Carriers(c) = {}
    OBVIOUS
<1>2. UNCHANGED fakeLoop => Running(p)'
    BY <1>0, RunningIs, ActorAssumption DEF Running
<1>3. CASE FakeAddDownSession(m, sessionID)
    <2> DEFINE d == Head(chan[p]).session
               f == Put(downSessions[p], sessionID[d], d)
    <2>1. /\ d \in Known /\ Head(chan[p]) = EventAddDownSession(d)
          /\ OneMap(p) /\ downSessions'[p] = f
          /\ UNCHANGED <<disconnected, fakeLoop, upVars>>
          /\ Passes({first}, {})
        BY <1>3, FakeAddMail
    <2>2. Receives(p, "AddDownSession")
        BY <1>3 DEF FakeAddDownSession, FakeReceives
    <2>3. OnlyAt(p)
        BY <2>1, OnlyFake
    <2> HIDE DEF d, p
    <2> QED
        BY <1>0, <1>2, <2>1, <2>2, <2>3, JoinsHands
<1>4. CASE FakeDownSessionBroken(m)
    <2> DEFINE id == Head(chan[p]).sessionID
               f == Delete(downSessions[p], id)
    <2>1. /\ Head(chan[p]) = EventDownSessionBroken(id)
          /\ OneMap(p) /\ downSessions'[p] = f
          /\ UNCHANGED <<fakeLoop, upVars>>
          /\ Passes({first}, Timer(p))
        BY <1>4, FakeBrokenMail
    <2>2. Receives(p, "DownSessionBroken")
        BY <1>4 DEF FakeDownSessionBroken, FakeReceives
    <2>3. OnlyAt(p)
        BY <2>1, OnlyFake
    <2>4. Timer(p) \cap Carriers(c) = {}
        BY <1>0, TimerCarriesNobody
    <2> HIDE DEF id, p
    <2> QED
        BY <1>0, <1>2, <2>1, <2>2, <2>3, <2>4, LeavesHands
<1>5. CASE FakeSendUpdateMinerNum(m)
    <2> DEFINE b == <<m, EventUpdateFakeMinerNum(disconnected[p])>>
    <2>1. Passes({first}, {b}) /\ first \notin Carriers(c) /\ b \notin Carriers(c)
        BY <1>0, <1>5, FakeSendUpdateMail, NoCarrier
    <2>2. UNCHANGED <<upStat, fakeLoop, downSessions>>
        BY <1>5 DEF FakeSendUpdateMinerNum, upVars
    <2>3. Holders(c)' = Holders(c)
        BY <2>2, HoldersStay
    <2> HIDE DEF b, first
    <2>4. {first} \cap Carriers(c) = {} /\ {b} \cap Carriers(c) = {}
        BY <2>1
    <2> QED
        BY <2>1, <2>3, <2>4, KeepsHands
<1>6. CASE FakeTransferDownSessions(m)
    <2> DEFINE b == <<m, GivenBack(m)>>
    <2>1. /\ Passes({first}, Returns(m) \cup {b}) /\ first \notin Carriers(c) /\ b \notin Carriers(c)
        BY <1>0, <1>6, FakeTransferMail, NoCarrier
    <2>2. OnlyAt(p) /\ Served(p)' = {}
        BY <1>6, FakeTransferMail, OnlyFake DEF Served, Values
    <2>3. /\ c \in Served(p) => One(Returns(m) \cap Carriers(c))
          /\ c \notin Served(p) => Returns(m) \cap Carriers(c) = {}
        BY <1>0, ReturnsHands
    <2> HIDE DEF b, first, p
    <2>4. (Returns(m) \cup {b}) \cap Carriers(c) = Returns(m) \cap Carriers(c)
        BY <2>1
    <2>5. {first} \cap Carriers(c) = {}
        BY <2>1
    <2>6. /\ c \in Served(p) => One((Returns(m) \cup {b}) \cap Carriers(c))
          /\ c \notin Served(p) => (Returns(m) \cup {b}) \cap Carriers(c) = {}
        BY <2>3, <2>4
    <2> QED
        BY <1>0, <2>1, <2>2, <2>5, <2>6, EmptiesHands
<1>7. CASE FakeExit(m)
    <2>1. Passes({first}, Released(m)) /\ Head(chan[p]).type = "Exit"
        BY <1>7, FakeExitMail
    <2>2. p # c
        BY ActorAssumption
    <2>3. {first} \cap Carriers(c) = {}
        BY <1>0, <2>1, <2>2, CarrierIs, SessionEvents
    <2>4. OnlyAt(p)
        BY <1>7, OnlyFake DEF FakeExit, mapVars
    <2>5. ~Running(p)'
        <3>1. p \notin Up /\ p[2] = m /\ m \notin fakeLoop'
            BY <1>7, ActorAssumption DEF FakeExit, Fake
        <3> QED
            BY <3>1 DEF Running
    <2>6. /\ c \in Served(p) => One(Released(m) \cap Carriers(c))
          /\ c \notin Served(p) => Released(m) \cap Carriers(c) = {}
        BY <1>0, ReturnsHands
    <2> HIDE DEF first, p
    <2> QED
        BY <1>0, <2>1, <2>3, <2>4, <2>5, <2>6, EmptiesHands
<1> QED
    BY <1>3, <1>4, <1>5, <1>6, <1>7 DEF FakeHandles

\* A part passes a message on: it takes one and sends one, both about the same
\* miner or both about none.
LEMMA PassesOnHands ==
    ASSUME NEW c \in Miner, Custody(c), MailInv, NEW a \in Actor, NEW t, Receives(a, t),
           NEW x, Passes({<<a, Head(chan[a])>>}, {x}),
           <<a, Head(chan[a])>> \in Carriers(c) <=> x \in Carriers(c),
           Holders(c)' = Holders(c), Fresh(c)' => Fresh(c), RunLoop(c)' => RunLoop(c)
    PROVE  Follows(c)
<1> DEFINE first == <<a, Head(chan[a])>>
<1>1. CASE first \in Carriers(c)
    <2>1. ~Unsent(c) /\ {first} \cap Carriers(c) # {} /\ {x} \cap Carriers(c) = {x}
        BY <1>1, FirstIsSent DEF Unsent
    <2>2. Holders(c)' = {}
        BY <2>1, SentIsUnserved
    <2> HIDE DEF first
    <2> QED
        BY <2>1, <2>2, GivesHands DEF first
<1>2. CASE first \notin Carriers(c)
    <2>1. {first} \cap Carriers(c) = {} /\ {x} \cap Carriers(c) = {}
        BY <1>2
    <2> HIDE DEF first
    <2> QED
        BY <2>1, KeepsHands DEF first
<1> QED
    BY <1>1, <1>2

LEMMA OrdersFollow ==
    ASSUME NEW c \in Miner, Custody(c), NEW a \in Actor, NEW e, a # c, e \in Event,
           e.type # "AddDownSession",
           \E out : out \subseteq Orders /\ Passes({<<a, e>>}, out),
           Holders(c)' = Holders(c), Fresh(c)' => Fresh(c), RunLoop(c)' => RunLoop(c)
    PROVE  Follows(c)
<1>1. PICK out : out \subseteq Orders /\ Passes({<<a, e>>}, out)
    OBVIOUS
<1>2. out \cap Carriers(c) = {}
    BY <1>1, OrdersCarryNobody
<1>3. <<a, e>> \notin Carriers(c)
    BY CarrierIs, SessionEvents
<1>4. {<<a, e>>} \cap Carriers(c) = {}
    BY <1>3
<1> QED
    BY <1>1, <1>2, <1>4, KeepsHands

LEMMA MgrFollows ==
    ASSUME NEW c \in Miner, Custody(c), TypeInv, NEW m \in Mgr, MgrHandles(m),
           Fresh(c)' => Fresh(c), RunLoop(c)' => RunLoop(c)
    PROVE  Follows(c)
<1>1. MailInv /\ m \in Actor /\ m # c
    BY Actors, ActorAssumption DEF TypeInv
<1>2. UNCHANGED <<upStat, fakeLoop, downSessions>>
    BY DEF MgrHandles, upVars, mapVars
<1>3. Holders(c)' = Holders(c)
    BY <1>2, HoldersStay
<1>4. CASE MgrAddDownSession(m)
    <2> DEFINE d == Head(chan[m]).session
    <2>1. /\ d \in Known /\ Head(chan[m]) = EventAddDownSession(d)
          /\ \E e \in Event : /\ e.type \in {"SetUpSession", "PoolNotReady"}
                              /\ Passes({<<m, Head(chan[m])>>}, {<<d, e>>})
        BY <1>4, MgrAddMail
    <2>2. PICK e \in Event : /\ e.type \in {"SetUpSession", "PoolNotReady"}
                             /\ Passes({<<m, Head(chan[m])>>}, {<<d, e>>})
        BY <2>1
    <2>3. Receives(m, "AddDownSession")
        BY <1>4 DEF MgrAddDownSession, MgrReceives
    <2>4. Head(chan[m]) \in Event
        BY <1>1, <2>3, Received
    <2>5. <<m, Head(chan[m])>> \in Carriers(c) <=> c = d
        BY <1>1, <2>1, <2>4, CarrierIs, AddIsOne
    <2> HIDE DEF d
    <2>6. <<d, e>> \in Carriers(c) <=> c = d
        <3>1. d \in Actor
            BY <2>1, Actors DEF Known
        <3> QED
            BY <2>2, <3>1, CarrierIs, SessionEvents
    <2> QED
        BY <1>1, <1>3, <2>2, <2>3, <2>5, <2>6, PassesOnHands
<1>5. CASE MgrHandlesOther(m)
    <2>1. \E t : Receives(m, t)
        BY <1>5 DEF MgrHandlesOther, MgrUpSessionReady, MgrUpSessionInitFailed, MgrUpSessionBroken,
                    MgrUpdateMinerNum, MgrUpdateFakeMinerNum, MgrExit, MgrReceives
    <2>2. Head(chan[m]) \in Event
        BY <1>1, <2>1, Received
    <2>3. /\ Head(chan[m]).type # "AddDownSession"
          /\ \E out : out \subseteq Orders /\ Passes({<<m, Head(chan[m])>>}, out)
        BY <1>5, MgrOtherMail
    <2> QED
        BY <1>1, <1>3, <2>2, <2>3, OrdersFollow
<1> QED
    BY <1>4, <1>5 DEF MgrHandles, MgrHandlesOther

LEMMA EmptyStays ==
    ASSUME NEW c, NEW p \in PoolSession, OnlyAt(p), Served(p) = {}, Served(p)' = {}
    PROVE  Holders(c)' = Holders(c)
<1>1. p \notin Holders(c) /\ p \notin Holders(c)'
    BY HoldersAfter
<1>2. \A q : q \in Holders(c)' <=> q \in Holders(c)
    BY <1>1, HoldersAfter
<1> QED
    BY <1>2

\* Managers and sessions start with empty hands.
LEMMA StartsHands ==
    ASSUME NEW c, Unused, NEW m \in Mgr, NEW a \in Account, CreateUpSessionManager(m, a), StartsQuietly
    PROVE  Holders(c)' = Holders(c)
<1>1. mgrAccount[m] = None /\ fakeLoop' = fakeLoop \cup {m} /\ UNCHANGED upVars /\ UNCHANGED downSessions
    BY DEF CreateUpSessionManager, MgrStarts, StartsQuietly, mapVars
<1>2. Served(Fake(m)) = {} /\ Served(Fake(m))' = {}
    BY <1>1 DEF Unused, Served
<1>3. OnlyAt(Fake(m)) /\ Fake(m) \in PoolSession
    BY <1>1, OnlyFake, Actors
<1> QED
    BY <1>2, <1>3, EmptyStays

LEMMA ConnectHands ==
    ASSUME NEW c, Unused, UpInv, NEW m \in Mgr, NEW s \in Slot, NEW u \in Up, ConnectSucceeds(m, s, u)
    PROVE  Holders(c)' = Holders(c)
<1>1. upStat[u] = "none" /\ UNCHANGED <<fakeLoop, downSessions>>
      /\ upStat' = [upStat EXCEPT ![u] = "authorized"]
    BY DEF ConnectSucceeds, mapVars
<1>2. Served(u) = {} /\ Served(u)' = {} /\ u \in PoolSession
    BY <1>1, Actors DEF Unused, Served
<1>3. OnlyAt(u)
    <2>1. ASSUME NEW q \in PoolSession \ {u} PROVE Running(q)' <=> Running(q)
        <3>1. CASE q \in Up
            <4>1. upStat'[q] = upStat[q]
                BY <1>1, <3>1 DEF UpInv
            <4> QED
                BY <3>1, <4>1 DEF Running, UpLoop
        <3>2. CASE q \notin Up
            BY <1>1, <3>2 DEF Running
        <3> QED
            BY <3>1, <3>2
    <2> QED
        BY <1>1, <2>1 DEF OnlyAt, Served
<1> QED
    BY <1>2, <1>3, EmptyStays

\* Steps outside the event loops, and those that send x about nobody.
LEMMA QuietFollows ==
    ASSUME NEW c \in Miner, Custody(c), Passes({}, {}),
           Holders(c)' = Holders(c), Fresh(c)' => Fresh(c), RunLoop(c)' => RunLoop(c)
    PROVE  Follows(c)
<1>1. {} \cap Carriers(c) = {}
    OBVIOUS
<1> QED
    BY <1>1, KeepsHands

LEMMA SendsFollows ==
    ASSUME NEW c \in Miner, Custody(c), NEW x, Passes({}, {x}), x \notin Carriers(c),
           Holders(c)' = Holders(c), Fresh(c)' => Fresh(c), RunLoop(c)' => RunLoop(c)
    PROVE  Follows(c)
<1>1. {} \cap Carriers(c) = {} /\ {x} \cap Carriers(c) = {}
    OBVIOUS
<1> QED
    BY <1>1, KeepsHands

LEMMA ConnectFollows ==
    ASSUME NEW c \in Miner, Custody(c), TypeInv, Unused, NEW m \in Mgr, NEW s \in Slot,
           ConnectFails(m, s) \/ \E u \in Up : ConnectSucceeds(m, s, u),
           Fresh(c)' => Fresh(c), RunLoop(c)' => RunLoop(c)
    PROVE  Follows(c)
<1>1. m \in Actor /\ UpInv
    BY Actors DEF TypeInv
<1>2. CASE ConnectFails(m, s)
    <2>1. Holders(c)' = Holders(c)
        BY <1>2, HoldersStay DEF ConnectFails, upVars, mapVars
    <2>2. <<m, EventUpSessionInitFailed(s)>> \notin Carriers(c)
        BY <1>1, NoCarrier, SlotEvents
    <2>3. Passes({}, {<<m, EventUpSessionInitFailed(s)>>})
        BY <1>2, ConnectMail
    <2> QED
        BY <2>1, <2>2, <2>3, SendsFollows
<1>3. ASSUME NEW u \in Up, ConnectSucceeds(m, s, u) PROVE Follows(c)
    <2>1. Holders(c)' = Holders(c)
        BY <1>1, <1>3, ConnectHands
    <2>2. <<m, EventUpSessionReady(s, u)>> \notin Carriers(c)
        BY <1>1, NoCarrier, SlotEvents
    <2>3. Passes({}, {<<m, EventUpSessionReady(s, u)>>})
        BY <1>3, ConnectMail
    <2> QED
        BY <2>1, <2>2, <2>3, SendsFollows
<1> QED
    BY <1>2, <1>3

LEMMA SMFollows ==
    ASSUME NEW c \in Miner, Custody(c), TypeInv, Unused, SMRuns \/ OperatorActs,
           Fresh(c)' => Fresh(c), RunLoop(c)' => RunLoop(c)
    PROVE  Follows(c)
<1>0. MailInv /\ SM \in Actor /\ SM # c
    BY Actors, ActorAssumption DEF TypeInv
<1>1. Holders(c)' = Holders(c)
    <2>1. CASE UNCHANGED <<upVars, mapVars, fakeLoop>>
        BY <2>1, HoldersStay DEF upVars, mapVars
    <2>2. CASE \E m \in Mgr, a \in Account : CreateUpSessionManager(m, a) /\ StartsQuietly
        BY <2>2, StartsHands
    <2>3. CASE SMStarts
        BY <2>1, <2>2, <2>3 DEF SMStarts
    <2>4. CASE SMAddDownSession(subAccount)
        <3>1. subAccount[Head(chan[SM]).session] \in Account
            BY <2>4, SMAddMail DEF Known
        <3> QED
            BY <2>1, <2>2, <2>4, <3>1 DEF SMAddDownSession
    <2>5. CASE SMStopUpSessionManager \/ SMExit \/ SMStop
        BY <2>1, <2>5 DEF SMStopUpSessionManager, SMExit, SMStop
    <2> QED
        BY <2>3, <2>4, <2>5 DEF SMRuns, OperatorActs, SMHandles
<1>2. CASE SMStarts
    <2>1. Passes({}, {})
        BY <1>2, QuietPasses DEF SMStarts
    <2> QED
        BY <1>1, <2>1, QuietFollows
<1>3. CASE SMAddDownSession(subAccount)
    <2> DEFINE d == Head(chan[SM]).session
    <2>1. /\ Head(chan[SM]) = EventAddDownSession(d)
          /\ \E m \in Mgr : Passes({<<SM, Head(chan[SM])>>}, {<<m, Head(chan[SM])>>})
        BY <1>3, SMAddMail
    <2>2. PICK m \in Mgr : Passes({<<SM, Head(chan[SM])>>}, {<<m, Head(chan[SM])>>})
        BY <2>1
    <2>3. Receives(SM, "AddDownSession")
        BY <1>3 DEF SMAddDownSession, SMReceives
    <2>4. Head(chan[SM]) \in Event /\ Head(chan[SM]).type = "AddDownSession"
        BY <1>0, <2>3, Received
    <2>5. m \in Actor
        BY Actors
    <2>6. <<SM, Head(chan[SM])>> \in Carriers(c) <=> <<m, Head(chan[SM])>> \in Carriers(c)
        BY <1>0, <2>4, <2>5, CarrierIs
    <2> QED
        BY <1>0, <1>1, <2>2, <2>3, <2>6, PassesOnHands
<1>4. CASE SMStopUpSessionManager \/ SMExit
    <2>1. /\ Head(chan[SM]).type # "AddDownSession"
          /\ \E out : out \subseteq Orders /\ Passes({<<SM, Head(chan[SM])>>}, out)
        BY <1>4, SMOtherMail
    <2>2. \E t : Receives(SM, t)
        BY <1>4 DEF SMStopUpSessionManager, SMExit, SMReceives
    <2>3. Head(chan[SM]) \in Event
        BY <1>0, <2>2, Received
    <2> QED
        BY <1>0, <1>1, <2>1, <2>3, OrdersFollow
<1>5. CASE SMStop
    <2>1. Passes({}, {<<SM, EventExit>>})
        BY <1>5, SMStopMail
    <2>2. <<SM, EventExit>> \notin Carriers(c)
        BY <1>0, PlainEvents, CarrierIs, SessionEvents
    <2> QED
        BY <1>1, <2>1, <2>2, SendsFollows
<1> QED
    BY <1>2, <1>3, <1>4, <1>5 DEF SMRuns, OperatorActs, SMHandles

\* Only Authorize makes a session run.
LEMMA RunStays ==
    ASSUME LeaseInv, NEW c \in Miner, NEW d \in Miner, MinerStep(d) \/ DownHandles(d),
           c # d \/ ~Authorize(d)
    PROVE  RunLoop(c)' => RunLoop(c)
<1>1. downStat \in [Miner -> DownStat]
    BY DEF LeaseInv
<1>2. \/ Authorize(d)
      \/ UNCHANGED downStat
      \/ \E st \in {"connected", "refused", "stranded", "disconnected"} :
            downStat' = [downStat EXCEPT ![d] = st]
    BY DEF MinerStep, DownHandles, RunDownSession, RunDownSessionRefused, InitConnBroken, LoginAgain,
           MinerLeaves, ConnBroken, Exit, SetUpSession, Close, downVars
<1>3. CASE UNCHANGED downStat
    BY <1>3 DEF RunLoop
<1>4. CASE \E st \in {"connected", "refused", "stranded", "disconnected"} :
              downStat' = [downStat EXCEPT ![d] = st]
    BY <1>1, <1>4 DEF RunLoop
<1>5. CASE c # d /\ Authorize(d)
    BY <1>1, <1>5 DEF Authorize, RunLoop
<1> QED
    BY <1>2, <1>3, <1>4, <1>5

LEMMA AuthorizeFollows ==
    ASSUME NEW c \in Miner, Custody(c), TypeInv, NEW d \in Miner, Authorize(d), UNCHANGED poolVars,
           Fresh(c)' => Fresh(c)
    PROVE  Follows(c)
<1>1. Holders(c)' = Holders(c)
    BY HoldersStay DEF poolVars, upVars, mapVars
<1> DEFINE x == <<SM, EventAddDownSession(d)>>
<1>2. Passes({}, {x}) /\ Fresh(d) /\ ~Fresh(d)'
    BY AuthorizeMail
<1>3. x \in Carriers(c) <=> c = d
    <2>1. SM \in Actor /\ EventAddDownSession(d) \in Event /\ EventAddDownSession(d).type = "AddDownSession"
        BY Actors, SessionEvents
    <2> QED
        BY <2>1, CarrierIs, AddIsOne
<1> HIDE DEF x
<1>4. CASE c = d
    <2>1. Nowhere(c) /\ ~Fresh(c)' /\ Holders(c)' = {} /\ {x} \cap Carriers(c) = {x}
        BY <1>1, <1>2, <1>3, <1>4 DEF Custody, Nowhere
    <2> QED
        BY <1>2, <2>1, GivesHands
<1>5. CASE c # d
    <2>1. RunLoop(c)' => RunLoop(c)
        BY <1>5, RunStays DEF TypeInv, MinerStep
    <2> QED
        BY <1>1, <1>2, <1>3, <1>5, <2>1, SendsFollows
<1> QED
    BY <1>4, <1>5

LEMMA DownFollows ==
    ASSUME NEW c \in Miner, Custody(c), TypeInv, NEW d \in Miner, MinerStep(d) \/ DownHandles(d),
           UNCHANGED poolVars, Fresh(c)' => Fresh(c)
    PROVE  Follows(c)
<1>0. MailInv /\ d \in Actor /\ LeaseInv
    BY Actors DEF TypeInv
<1>1. Holders(c)' = Holders(c)
    BY HoldersStay DEF poolVars, upVars, mapVars
<1>2. ~Authorize(d) => (RunLoop(c)' => RunLoop(c))
    BY <1>0, RunStays
<1>3. CASE Authorize(d)
    BY <1>3, AuthorizeFollows
<1>4. CASE ConnBroken(d)
    <2>1. ~Authorize(d) /\ Receives(d, "ConnBroken")
        BY <1>4 DEF ConnBroken, Authorize, RunLoop, InitLoop
    <2>2. /\ Passes({<<d, Head(chan[d])>>}, Broken(d)) /\ Broken(d) \subseteq Messages'
          /\ Head(chan[d]).type = "ConnBroken"
          /\ \A m \in Broken(d) : m[2] = EventDownSessionBroken(sessionID[d])
        BY <1>4, ConnBrokenMail
    <2>3. <<d, Head(chan[d])>> \notin Carriers(c)
        BY <1>0, <2>1, <2>2, Received, NoCarrier
    <2>4. ASSUME NEW m \in Broken(d) PROVE m \notin Carriers(c)
        <3>1. m[2] = EventDownSessionBroken(sessionID[d]) /\ m \in Messages'
            BY <2>2
        <3>2. m[2].type = "DownSessionBroken"
            BY <3>1 DEF EventDownSessionBroken
        <3>3. PICK a \in Actor, e \in Event : m = <<a, e>>
            BY <3>1 DEF Messages
        <3> QED
            BY <3>2, <3>3, NoCarrier
    <2>5. {<<d, Head(chan[d])>>} \cap Carriers(c) = {} /\ Broken(d) \cap Carriers(c) = {}
        BY <2>3, <2>4
    <2> QED
        BY <1>1, <1>2, <2>1, <2>2, <2>5, KeepsHands
<1>5. CASE Exit(d)
    <2>1. ~Authorize(d) /\ \E t : Receives(d, t)
        BY <1>5 DEF Exit, Authorize, RunLoop, InitLoop
    <2>2. Passes({<<d, Head(chan[d])>>}, {}) /\ Head(chan[d]).type \in {"Exit", "PoolNotReady"}
        BY <1>5, ExitMail
    <2>3. <<d, Head(chan[d])>> \in Carriers(c) <=> c = d
        BY <1>0, <2>1, <2>2, Received, CarrierIs, SessionEvents
    <2>4. CASE c = d
        <3>1. ~Unsent(c) /\ {<<d, Head(chan[d])>>} \cap Carriers(c) # {} /\ {} \cap Carriers(c) = {}
            BY <1>0, <2>1, <2>3, <2>4, FirstIsSent DEF Unsent
        <3>2. ~RunLoop(c)'
            BY <1>0, <1>5, <2>4 DEF Exit, Close, RunLoop, LeaseInv
        <3>3. Holders(c)' \subseteq {d}
            BY <1>1, <3>1, SentIsUnserved
        <3> QED
            BY <2>2, <3>1, <3>2, <3>3, TakesHands
    <2>5. CASE c # d
        <3>1. {<<d, Head(chan[d])>>} \cap Carriers(c) = {} /\ {} \cap Carriers(c) = {}
            BY <2>3, <2>5
        <3> QED
            BY <1>1, <1>2, <2>1, <2>2, <3>1, KeepsHands
    <2> QED
        BY <2>4, <2>5
<1>6. CASE SetUpSession(d)
    <2> DEFINE x == <<Head(chan[d]).session, EventAddDownSession(d)>>
    <2>1. ~Authorize(d) /\ Receives(d, "SetUpSession")
        BY <1>6 DEF SetUpSession, Authorize, RunLoop, InitLoop
    <2>2. /\ Passes({<<d, Head(chan[d])>>}, {x}) /\ Head(chan[d]).type = "SetUpSession"
          /\ Head(chan[d]).session \in PoolSession
        BY <1>6, SetUpSessionMail
    <2>3. <<d, Head(chan[d])>> \in Carriers(c) <=> c = d
        BY <1>0, <2>1, <2>2, Received, CarrierIs, SessionEvents
    <2>4. x \in Carriers(c) <=> c = d
        <3>1. /\ Head(chan[d]).session \in Actor /\ EventAddDownSession(d) \in Event
              /\ EventAddDownSession(d).type = "AddDownSession"
            BY <2>2, Actors, SessionEvents
        <3> QED
            BY <3>1, CarrierIs, AddIsOne
    <2> HIDE DEF x
    <2> QED
        BY <1>0, <1>1, <1>2, <2>1, <2>2, <2>3, <2>4, PassesOnHands
<1>7. CASE MinerLeaves(d)
    <2>1. ~Authorize(d)
        BY <1>7 DEF MinerLeaves, Authorize, RunLoop, Stranded, InitLoop
    <2>2. Passes({}, {<<d, EventConnBroken>>}) /\ <<d, EventConnBroken>> \notin Carriers(c)
        BY <1>0, <1>7, MinerLeavesMail, PlainEvents, NoCarrier
    <2> QED
        BY <1>1, <1>2, <2>1, <2>2, SendsFollows
<1>8. CASE RunDownSession(d) \/ RunDownSessionRefused(d) \/ InitConnBroken(d) \/ LoginAgain(d)
    <2>1. UNCHANGED mailVars /\ ~Authorize(d)
        BY <1>0, <1>8 DEF RunDownSession, RunDownSessionRefused, InitConnBroken, LoginAgain, Close,
                          Authorize, InitLoop, RunLoop, LeaseInv
    <2>2. Passes({}, {})
        BY <2>1, QuietPasses
    <2> QED
        BY <1>1, <1>2, <2>1, <2>2, QuietFollows
<1> QED
    BY <1>3, <1>4, <1>5, <1>6, <1>7, <1>8 DEF MinerStep, DownHandles

\* Only the map of a session that runs changes.
LEMMA MapsChange ==
    ASSUME TypeInv, [Next]_vars
    PROVE  \A p \in PoolSession : Served(p)' = Served(p) \/ Running(p)
<1>1. ASSUME NEW p \in PoolSession, UNCHANGED downSessions PROVE Served(p)' = Served(p)
    BY <1>1 DEF Served
<1>2. ASSUME NEW p \in PoolSession, NEW q \in PoolSession, OneMap(q), Running(q)
      PROVE  Served(p)' = Served(p) \/ Running(p)
    BY <1>2 DEF OneMap, Served
<1>3. ASSUME NEW u \in Up, UpHandles(u, sessionID)
      PROVE  UNCHANGED downSessions \/ (OneMap(u) /\ Running(u))
    <2>1. CASE UpAddDownSession(u, sessionID)
        <3>1. OneMap(u)
            BY <2>1, UpAddMail
        <3> QED
            BY <2>1, <3>1, RunningIs DEF UpAddDownSession
    <2>2. CASE UpDownSessionBroken(u)
        <3>1. OneMap(u)
            BY <2>2, UpBrokenMail
        <3> QED
            BY <2>2, <3>1, RunningIs DEF UpDownSessionBroken
    <2> QED
        BY <1>3, <2>1, <2>2 DEF UpHandles, UpConnBroken, UpExit, UpSendUpdateMinerNum, mapVars
<1>4. ASSUME NEW m \in Mgr, FakeHandles(m, sessionID)
      PROVE  UNCHANGED downSessions \/ (OneMap(Fake(m)) /\ Running(Fake(m)))
    <2>1. CASE FakeAddDownSession(m, sessionID)
        <3>1. OneMap(Fake(m))
            BY <2>1, FakeAddMail
        <3> QED
            BY <2>1, <3>1, RunningIs DEF FakeAddDownSession, FakeReceives
    <2>2. CASE FakeDownSessionBroken(m)
        <3>1. OneMap(Fake(m))
            BY <2>2, FakeBrokenMail
        <3> QED
            BY <2>2, <3>1, RunningIs DEF FakeDownSessionBroken, FakeReceives
    <2>3. CASE FakeTransferDownSessions(m)
        BY <2>3, FakeTransferMail, RunningIs DEF FakeTransferDownSessions, FakeReceives
    <2> QED
        BY <1>4, <2>1, <2>2, <2>3 DEF FakeHandles, FakeSendUpdateMinerNum, FakeExit, mapVars
<1>5. \/ UNCHANGED downSessions
      \/ \E u \in Up : UpHandles(u, sessionID)
      \/ \E m \in Mgr : FakeHandles(m, sessionID)
    BY DEF Next, Environment, Agents, MinerActs, PoolActs, ConnectRefused, OperatorActs, DownRuns, UpRuns,
           FakeRuns, MgrRuns, SMRuns, Connects, SenderRuns, vars, poolVars, mapVars, PoolBreaks,
           ConnectFails, ConnectSucceeds, SMStop, SMStarts, SMHandles, SMAddDownSession,
           SMStopUpSessionManager, SMExit, MgrHandles, StartsQuietly
<1> QED
    BY <1>1, <1>2, <1>3, <1>4, <1>5, Actors

\* A session or manager that has started stays started.
LEMMA StartedStay ==
    ASSUME TypeInv, [Next]_vars
    PROVE  /\ \A u \in Up : upStat'[u] = "none" => upStat[u] = "none"
           /\ \A m \in Mgr : mgrAccount'[m] = None => mgrAccount[m] = None
<1>1. upStat \in [Up -> {"none", "authorized", "disconnected"}] /\ mgrAccount \in [Mgr -> Account \cup {None}]
    BY DEF TypeInv, UpInv, MgrInv, LoopsInv
<1>2. \/ UNCHANGED upStat
      \/ \E u \in Up, st \in {"authorized", "disconnected"} : upStat' = [upStat EXCEPT ![u] = st]
    <2>1. ASSUME NEW u \in Up, UpRuns(u)
          PROVE  UNCHANGED upStat \/ upStat' = [upStat EXCEPT ![u] = "disconnected"]
        BY <2>1 DEF UpRuns, UpHandles, UpConnBroken, UpExit, UpAddDownSession, UpDownSessionBroken,
                    UpSendUpdateMinerNum, UpCloses, upVars
    <2>2. ASSUME NEW m \in Mgr, Connects(m)
          PROVE  \E u \in Up : upStat' = [upStat EXCEPT ![u] = "authorized"]
        BY <2>2 DEF Connects, ConnectSucceeds
    <2>3. \/ UNCHANGED upStat
          \/ \E u \in Up : UpRuns(u)
          \/ \E m \in Mgr : Connects(m)
        BY Zenon DEF Next, Environment, Agents, MinerActs, PoolActs, ConnectRefused, OperatorActs, DownRuns,
               FakeRuns, MgrRuns, SMRuns, SenderRuns, vars, poolVars, upVars, PoolBreaks,
               ConnectFails, SMStop, SMStarts, SMHandles, SMAddDownSession,
               SMStopUpSessionManager, SMExit, MgrHandles, StartsQuietly, FakeHandles, FakeAddDownSession,
               FakeDownSessionBroken, FakeSendUpdateMinerNum, FakeTransferDownSessions, FakeExit
    <2> QED
        BY <2>1, <2>2, <2>3
<1>3. \/ UNCHANGED mgrAccount
      \/ \E m \in Mgr, a \in Account : mgrAccount' = [mgrAccount EXCEPT ![m] = a]
    <2>1. ASSUME SMRuns
          PROVE  \/ UNCHANGED mgrAccount
                 \/ \E m \in Mgr, a \in Account : mgrAccount' = [mgrAccount EXCEPT ![m] = a]
        <3>1. SMAddDownSession(subAccount) => subAccount[Head(chan[SM]).session] \in Account
            BY SMAddMail, Zenon DEF Known
        <3> QED
            BY <2>1, <3>1, Zenon DEF SMRuns, SMStarts, SMHandles, SMAddDownSession, SMStopUpSessionManager, SMExit,
                              CreateUpSessionManager, MgrStarts, mgrVars
    <2>2. SMRuns \/ UNCHANGED mgrAccount
        BY DEF Next, Environment, Agents, MinerActs, PoolActs, ConnectRefused, OperatorActs, DownRuns, UpRuns,
               FakeRuns, MgrRuns, SenderRuns, vars, poolVars, mgrVars, Connects,
               ConnectFails, ConnectSucceeds, SMStop, MgrHandles, MgrAddDownSession, MgrUpSessionReady,
               MgrUpSessionInitFailed, MgrUpSessionBroken, MgrUpdateMinerNum, MgrUpdateFakeMinerNum, MgrExit
    <2> QED
        BY <2>1, <2>2
<1>4. \A a \in Account : a # None
    BY ActorAssumption
<1>5. \A u \in Up : upStat'[u] = "none" => upStat[u] = "none"
    BY <1>1, <1>2
<1>6. \A m \in Mgr : mgrAccount'[m] = None => mgrAccount[m] = None
    BY <1>1, <1>3, <1>4
<1> QED
    BY <1>5, <1>6

LEMMA UnusedStays ==
    ASSUME TypeInv, Unused, [Next]_vars
    PROVE  Unused'
<1>1. ASSUME NEW u \in Up, upStat'[u] = "none" PROVE Served(u)' = {}
    <2>1. upStat[u] = "none" /\ u \in PoolSession
        BY <1>1, StartedStay, Actors
    <2>2. ~Running(u)
        BY <2>1, RunningIs DEF UpLoop
    <2> QED
        BY <2>1, <2>2, MapsChange DEF Unused
<1>2. ASSUME NEW m \in Mgr, mgrAccount'[m] = None PROVE Served(Fake(m))' = {}
    <2>1. mgrAccount[m] = None /\ Fake(m) \in PoolSession
        BY <1>2, StartedStay, Actors
    <2>2. ~Running(Fake(m))
        BY <2>1, RunningIs, ActorAssumption DEF TypeInv, MgrInv, LoopsInv
    <2> QED
        BY <2>1, <2>2, MapsChange DEF Unused
<1> QED
    BY <1>1, <1>2 DEF Unused

LEMMA NextFollows ==
    ASSUME TypeInv, Unused, [Next]_vars, NEW c \in Miner, Custody(c)
    PROVE  Follows(c)
<1>0. Fresh(c)' => Fresh(c)
    BY KnownStays DEF TypeInv
<1>1. UNCHANGED downVars => (RunLoop(c)' => RunLoop(c))
    BY DEF downVars, RunLoop
<1>2. ASSUME NEW d \in Miner, MinerActs(d) \/ DownRuns(d) PROVE Follows(c)
    <2>1. (MinerStep(d) \/ DownHandles(d)) /\ UNCHANGED poolVars
        BY <1>2 DEF MinerActs, DownRuns
    <2> QED
        BY <1>0, <2>1, DownFollows
<1>3. ASSUME NEW u \in Up, PoolActs(u) PROVE Follows(c)
    <2>1. PoolBreaks(u) /\ UNCHANGED downVars /\ UNCHANGED <<upStat, fakeLoop, downSessions>>
        BY <1>3 DEF PoolActs, PoolBreaks, upVars, mapVars
    <2>2. Holders(c)' = Holders(c)
        BY <2>1, HoldersStay
    <2>3. Passes({}, {<<u, EventConnBroken>>}) /\ <<u, EventConnBroken>> \notin Carriers(c)
        BY <2>1, PoolBreaksMail, NoCarrier, PlainEvents, Actors
    <2> QED
        BY <1>0, <1>1, <2>1, <2>2, <2>3, SendsFollows
<1>4. ASSUME NEW m \in Mgr, ConnectRefused(m) \/ Connects(m) PROVE Follows(c)
    <2>1. PICK s \in Slot : ConnectFails(m, s) \/ \E u \in Up : ConnectSucceeds(m, s, u)
        BY <1>4 DEF ConnectRefused, Connects
    <2>2. UNCHANGED downVars
        BY <1>4 DEF ConnectRefused, Connects
    <2> QED
        BY <1>0, <1>1, <2>1, <2>2, ConnectFollows
<1>5. ASSUME OperatorActs \/ SMRuns PROVE Follows(c)
    <2>1. UNCHANGED downVars
        BY <1>5 DEF OperatorActs, SMRuns
    <2> QED
        BY <1>0, <1>1, <1>5, <2>1, SMFollows
<1>6. ASSUME NEW u \in Up, UpRuns(u) PROVE Follows(c)
    <2>1. UpHandles(u, sessionID) /\ UNCHANGED <<downVars, fakeLoop>>
        BY <1>6 DEF UpRuns
    <2> QED
        BY <1>0, <1>1, <2>1, UpFollows
<1>7. ASSUME NEW m \in Mgr, FakeRuns(m) PROVE Follows(c)
    <2>1. FakeHandles(m, sessionID) /\ UNCHANGED downVars
        BY <1>7 DEF FakeRuns
    <2> QED
        BY <1>0, <1>1, <2>1, FakeFollows
<1>8. ASSUME NEW m \in Mgr, MgrRuns(m) PROVE Follows(c)
    <2>1. MgrHandles(m) /\ UNCHANGED downVars
        BY <1>8 DEF MgrRuns
    <2> QED
        BY <1>0, <1>1, <2>1, MgrFollows
<1>9. ASSUME UNCHANGED <<downVars, poolVars>>, Passes({}, {}) PROVE Follows(c)
    <2>1. Holders(c)' = Holders(c)
        BY <1>9, HoldersStay DEF poolVars, upVars, mapVars
    <2> QED
        BY <1>0, <1>1, <1>9, <2>1, QuietFollows
<1>10. ASSUME NEW m \in BagToSet(spawned), SenderRuns(m) PROVE Follows(c)
    <2>1. Deliver(m) /\ UNCHANGED <<downVars, poolVars>>
        BY <1>10 DEF SenderRuns
    <2>2. m \in Messages /\ IsChan(chan) /\ IsABag(spawned)
        BY DEF TypeInv, MailInv, Mail, BagToSet
    <2>3. PICK a \in Actor, e \in Event : m = <<a, e>>
        BY <2>2 DEF Messages
    <2> QED
        BY <1>9, <2>1, <2>2, <2>3, DeliverPasses
<1>11. CASE UNCHANGED vars
    BY <1>9, <1>11, QuietPasses DEF vars
<1> QED
    BY <1>2, <1>3, <1>4, <1>5, <1>6, <1>7, <1>8, <1>10, <1>11 DEF Next, Environment, Agents

LEMMA InitCustodyInv == Init => CustodyInv
<1> SUFFICES ASSUME Init PROVE CustodyInv
    OBVIOUS
<1>1. TypeInv
    BY InitTypeInv
<1>2. \A p \in PoolSession : Served(p) = {}
    BY DEF Init, MapInit, NoMiners, Served
<1>3. chan = [a \in Actor |-> <<>>] /\ spawned = EmptyBag
    BY DEF Init, MailInit
<1>4. DOMAIN spawned = {} /\ \A a \in Actor : DOMAIN chan[a] = {}
    BY <1>3 DEF EmptyBag, SetToBag
<1>5. ASSUME NEW c \in Miner PROVE Custody(c)
    <2>1. Holders(c) = {}
        BY <1>2 DEF Holders
    <2>2. Free(chan, spawned, Carriers(c))
        BY <1>4 DEF Free, Waits, Pends
    <2>3. AtMostOne(chan, spawned, Carriers(c))
        BY <2>2, FreeIsAtMostOne
    <2> QED
        BY <2>1, <2>2, <2>3 DEF Custody, Nowhere, Unsent
<1>6. Unused
    BY <1>2, Actors DEF Unused
<1> QED
    BY <1>1, <1>5, <1>6 DEF CustodyInv

LEMMA CustodyInvariant == Spec => []CustodyInv
<1>1. CustodyInv /\ [Next]_vars => CustodyInv'
    <2> SUFFICES ASSUME CustodyInv, [Next]_vars PROVE CustodyInv'
        OBVIOUS
    <2>1. TypeInv' /\ Unused'
        BY NextTypeInv, UnusedStays DEF CustodyInv
    <2>2. ASSUME NEW c \in Miner PROVE Custody(c)'
        BY NextFollows DEF CustodyInv, Follows
    <2> QED
        BY <2>1, <2>2 DEF CustodyInv
<1> QED
    BY <1>1, InitCustodyInv, PTL DEF Spec

-----------------------------------------------------------------------------
(* The number of hands.                                                    *)

LEMMA PlacesOf ==
    ASSUME MailInv, NEW c \in Miner, WaitsOnce(chan, Carriers(c))
    PROVE  /\ Waits(chan, Carriers(c)) => One(Places(c))
           /\ ~Waits(chan, Carriers(c)) => Places(c) = {}
<1> DEFINE K == Carriers(c)
<1>1. \A a \in Actor : \A i \in DOMAIN chan[a] : <<a, chan[a][i]>> \in K <=> Carries(a, chan[a][i], c)
    <2>1. ASSUME NEW a \in Actor, NEW i \in DOMAIN chan[a] PROVE <<a, chan[a][i]>> \in Actor \X Event
        BY DEF MailInv, Mail, Messages
    <2> QED
        BY <2>1 DEF Carriers
<1>2. \A z : z \in Places(c) <=>
               \E a \in Actor : \E i \in DOMAIN chan[a] : z = <<a, i>> /\ <<a, chan[a][i]>> \in K
    <2>1. \A z : z \in Places(c) <=>
                   \E a \in Actor : z \in {<<a, i>> : i \in {j \in DOMAIN chan[a] : Carries(a, chan[a][j], c)}}
        BY DEF Places
    <2>2. ASSUME NEW a \in Actor
          PROVE  {j \in DOMAIN chan[a] : Carries(a, chan[a][j], c)} = {j \in DOMAIN chan[a] : <<a, chan[a][j]>> \in K}
        BY <1>1
    <2> HIDE DEF K
    <2>3. \A z : z \in Places(c) <=>
                   \E a \in Actor : z \in {<<a, i>> : i \in {j \in DOMAIN chan[a] : <<a, chan[a][j]>> \in K}}
        BY <2>1, <2>2
    <2>4. \A z : \A a \in Actor :
             z \in {<<a, i>> : i \in {j \in DOMAIN chan[a] : <<a, chan[a][j]>> \in K}}
                <=> \E i \in DOMAIN chan[a] : z = <<a, i>> /\ <<a, chan[a][i]>> \in K
        BY Zenon
    <2> QED
        BY <2>3, <2>4, Zenon
<1> HIDE DEF K
<1>3. ASSUME Waits(chan, K) PROVE One(Places(c))
    <2>1. PICK a \in Actor : \E i \in DOMAIN chan[a] : <<a, chan[a][i]>> \in K
        BY <1>3 DEF Waits
    <2>2. PICK i \in DOMAIN chan[a] : <<a, chan[a][i]>> \in K
        BY <2>1
    <2>3. <<a, i>> \in Places(c)
        BY <1>2, <2>2
    <2>4. ASSUME NEW z \in Places(c) PROVE z = <<a, i>>
        <3>1. PICK b \in Actor : \E j \in DOMAIN chan[b] : z = <<b, j>> /\ <<b, chan[b][j]>> \in K
            BY <1>2
        <3>2. PICK j \in DOMAIN chan[b] : z = <<b, j>> /\ <<b, chan[b][j]>> \in K
            BY <3>1
        <3>3. WaitsOnce(chan, K)
            BY DEF K
        <3> QED
            BY <2>2, <3>2, <3>3 DEF WaitsOnce
    <2>5. Places(c) = {<<a, i>>}
        BY <2>3, <2>4
    <2> QED
        BY <2>5 DEF One
<1>4. ASSUME ~Waits(chan, K) PROVE Places(c) = {}
    BY <1>2, <1>4 DEF Waits
<1> QED
    BY <1>3, <1>4 DEF K

LEMMA SendersOf ==
    ASSUME MailInv, NEW c \in Miner, PendsOnce(spawned, Carriers(c))
    PROVE  /\ Pends(spawned, Carriers(c)) => One(Senders(c))
           /\ ~Pends(spawned, Carriers(c)) => Senders(c) = {}
<1> DEFINE K == Carriers(c)
<1>1. \A n \in DOMAIN spawned : n \in K <=> Carries(n[1], n[2], c)
    <2>1. DOMAIN spawned \subseteq Actor \X Event
        BY DEF MailInv, Mail, Messages
    <2> QED
        BY <2>1 DEF Carriers
<1>2. \A z : z \in Senders(c) <=>
               \E n \in DOMAIN spawned : n \in K /\ \E k \in 1 .. spawned[n] : z = <<n, k>>
    BY <1>1 DEF Senders, BagToSet
<1> HIDE DEF K
<1>3. ASSUME Pends(spawned, K) PROVE One(Senders(c))
    <2>1. PICK n \in DOMAIN spawned : n \in K
        BY <1>3 DEF Pends
    <2>2. \A n2 \in DOMAIN spawned : n2 \in K => n2 = n /\ spawned[n] = 1
        BY <2>1 DEF PendsOnce, K
    <2>3. 1 .. spawned[n] = {1}
        BY <2>1, <2>2
    <2>4. Senders(c) = {<<n, 1>>}
        BY <1>2, <2>1, <2>2, <2>3
    <2> QED
        BY <2>4 DEF One
<1>4. ASSUME ~Pends(spawned, K) PROVE Senders(c) = {}
    BY <1>2, <1>4 DEF Pends
<1> QED
    BY <1>3, <1>4 DEF K

LEMMA OneIsOne ==
    ASSUME NEW S, One(S)
    PROVE  Cardinality(S) = 1 /\ S # {}
BY FS_Singleton DEF One

\* A miner in custody is in one hand or nowhere.
LEMMA HandsOf ==
    ASSUME MailInv, NEW c \in Miner, Custody(c)
    PROVE  Hands(c) = IF Nowhere(c) THEN 0 ELSE 1
<1> DEFINE K == Carriers(c)
<1>1. AtMostOne(chan, spawned, K) /\ (Holders(c) # {} => Free(chan, spawned, K))
    BY DEF Custody, Unsent
<1>2. WaitsOnce(chan, K) /\ PendsOnce(spawned, K) /\ ~(Waits(chan, K) /\ Pends(spawned, K))
    BY <1>1 DEF AtMostOne
<1>3. /\ Waits(chan, K) => Cardinality(Places(c)) = 1
      /\ ~Waits(chan, K) => Cardinality(Places(c)) = 0
    BY <1>2, PlacesOf, OneIsOne, FS_EmptySet
<1>4. /\ Pends(spawned, K) => Cardinality(Senders(c)) = 1
      /\ ~Pends(spawned, K) => Cardinality(Senders(c)) = 0
    BY <1>2, SendersOf, OneIsOne, FS_EmptySet
<1>5. /\ Holders(c) # {} => Cardinality(Holders(c)) = 1
      /\ Holders(c) = {} => Cardinality(Holders(c)) = 0
    <2>1. ASSUME Holders(c) # {} PROVE One(Holders(c))
        <3>1. PICK p \in Holders(c) : TRUE
            BY <2>1
        <3>2. Holders(c) = {p}
            BY <3>1 DEF Custody
        <3> QED
            BY <3>2 DEF One
    <2> QED
        BY <2>1, OneIsOne, FS_EmptySet
<1>6. Nowhere(c) <=> Holders(c) = {} /\ ~Waits(chan, K) /\ ~Pends(spawned, K)
    BY DEF Nowhere, Unsent, Free
<1> HIDE DEF K
<1>7. Hands(c) = Cardinality(Holders(c)) + Cardinality(Places(c)) + Cardinality(Senders(c))
    BY DEF Hands
<1>8. CASE Holders(c) # {}
    <2>1. ~Waits(chan, K) /\ ~Pends(spawned, K)
        BY <1>1, <1>8 DEF Free
    <2>2. Hands(c) = 1 + 0 + 0 /\ ~Nowhere(c)
        BY <1>3, <1>4, <1>5, <1>6, <1>7, <1>8, <2>1
    <2> QED
        BY <2>2
<1>9. CASE Holders(c) = {} /\ Waits(chan, K)
    <2>1. Hands(c) = 0 + 1 + 0 /\ ~Nowhere(c)
        BY <1>2, <1>3, <1>4, <1>5, <1>6, <1>7, <1>9
    <2> QED
        BY <2>1
<1>10. CASE Holders(c) = {} /\ Pends(spawned, K)
    <2>1. Hands(c) = 0 + 0 + 1 /\ ~Nowhere(c)
        BY <1>2, <1>3, <1>4, <1>5, <1>6, <1>7, <1>10
    <2> QED
        BY <2>1
<1>11. CASE Holders(c) = {} /\ ~Waits(chan, K) /\ ~Pends(spawned, K)
    <2>1. Hands(c) = 0 + 0 + 0 /\ Nowhere(c)
        BY <1>3, <1>4, <1>5, <1>6, <1>7, <1>11
    <2> QED
        BY <2>1
<1> QED
    BY <1>8, <1>9, <1>10, <1>11

\* However managers, real and fake sessions pass a miner around, break and
\* stop, at any time: a running miner is never served by two sessions, nor
\* served while a message that will pass it on waits, nor in two such messages.
THEOREM NeverTwoHands == Spec => []NeverInTwoHands
<1>1. CustodyInv => NeverInTwoHands
    <2> SUFFICES ASSUME CustodyInv, NEW c \in Miner, RunLoop(c) PROVE Hands(c) <= 1
        BY DEF NeverInTwoHands
    <2>1. MailInv /\ Custody(c)
        BY DEF CustodyInv, TypeInv
    <2>2. Hands(c) = IF Nowhere(c) THEN 0 ELSE 1
        BY <2>1, HandsOf
    <2> QED
        BY <2>2
<1> QED
    BY <1>1, CustodyInvariant, PTL

-----------------------------------------------------------------------------
(* No miner is lost, as long as no id is used twice.                       *)

\* A running miner drops out of every hand in one way only, with reused ids
\* too: a session that serves it handles an event about another miner that had,
\* or has, its id.
THEOREM OnlyEvictionLoses ==
    Spec => [][\A c \in Miner :
                  RunLoop(c)' /\ Hands(c)' = 0 => (RunLoop(c) /\ Hands(c) = 0) \/ Evicts(c)]_vars
<1>1. CustodyInv => \A c \in Miner : Hands(c) = 0 <=> Nowhere(c)
    <2> SUFFICES ASSUME CustodyInv, NEW c \in Miner PROVE Hands(c) = 0 <=> Nowhere(c)
        OBVIOUS
    <2>1. MailInv /\ Custody(c)
        BY DEF CustodyInv, TypeInv
    <2>2. Hands(c) = IF Nowhere(c) THEN 0 ELSE 1
        BY <2>1, HandsOf
    <2> QED
        BY <2>2
<1>2. CustodyInv /\ [Next]_vars => \A c \in Miner : Lost(c)' => Lost(c) \/ Evicts(c)
    BY NextFollows DEF CustodyInv, Follows
<1>3. (CustodyInv => \A c \in Miner : Hands(c) = 0 <=> Nowhere(c))'
    BY <1>1, PTL
<1>4. CustodyInv /\ CustodyInv' /\ [Next]_vars =>
         [\A c \in Miner :
             RunLoop(c)' /\ Hands(c)' = 0 => (RunLoop(c) /\ Hands(c) = 0) \/ Evicts(c)]_vars
    <2> SUFFICES ASSUME CustodyInv, CustodyInv', [Next]_vars, NEW c \in Miner,
                        RunLoop(c)', Hands(c)' = 0
                 PROVE  (RunLoop(c) /\ Hands(c) = 0) \/ Evicts(c)
        OBVIOUS
    <2>1. \A d \in Miner : Hands(d) = 0 <=> Nowhere(d)
        BY <1>1
    <2>2. \A d \in Miner : Hands(d)' = 0 <=> Nowhere(d)'
        BY <1>3
    <2>3. Lost(c)'
        BY <2>2 DEF Lost
    <2>4. Lost(c) \/ Evicts(c)
        BY <1>2, <2>3
    <2> QED
        BY <2>1, <2>4 DEF Lost
<1> QED
    BY <1>4, CustodyInvariant, PTL DEF Spec
\* No two miners that were ever announced have got the same id.
IdsDiffer == \A c, d \in Known : sessionID[c] = sessionID[d] => c = d

NobodyLost == \A c \in Miner : ~Lost(c)

\* The event that takes c out of a map tells then that c itself is closed.
LEMMA EvictedIsClosed ==
    ASSUME TypeInv, IdsDiffer, NEW c \in Miner, Evicts(c)
    PROVE  c \in Closed
<1>0. PICK p \in PoolSession : \E id \in DOMAIN downSessions[p] :
         /\ downSessions[p][id] = c /\ chan[p] # <<>>
         /\ \/ Head(chan[p]) = EventDownSessionBroken(id)
            \/ \E d \in Known \ {c} : Head(chan[p]) = EventAddDownSession(d) /\ sessionID[d] = id
    BY DEF Evicts
<1>1. PICK id \in DOMAIN downSessions[p] :
         /\ downSessions[p][id] = c /\ chan[p] # <<>>
         /\ \/ Head(chan[p]) = EventDownSessionBroken(id)
            \/ \E d \in Known \ {c} : Head(chan[p]) = EventAddDownSession(d) /\ sessionID[d] = id
    BY <1>0
<1>2. MailInv /\ IsChan(chan) /\ p \in Actor
    BY Actors DEF TypeInv, MailInv, Mail
<1>3. c \in Known /\ sessionID[c] = id
    BY <1>1 DEF TypeInv, MapInv, Served, ByOwnId
<1>4. ~ \E d \in Known \ {c} : sessionID[d] = id
    BY <1>3 DEF IdsDiffer
<1>5. Head(chan[p]) = EventDownSessionBroken(id)
    BY <1>1, <1>4
<1>6. 1 \in DOMAIN chan[p] /\ Head(chan[p]) = chan[p][1]
    BY <1>1, <1>2, TakenChannel
<1>7. <<p, EventDownSessionBroken(id)>> \in Messages
    BY <1>2, <1>5, <1>6 DEF MailInv, Mail
<1>8. /\ EventDownSessionBroken(id).type = "DownSessionBroken"
      /\ EventDownSessionBroken(id).sessionID = id
    BY DEF EventDownSessionBroken
<1>9. PICK d \in Closed : sessionID[d] = id
    BY <1>7, <1>8 DEF Messages
<1>10. d = c
    BY <1>3, <1>9 DEF IdsDiffer, Closed
<1> QED
    BY <1>9, <1>10

LEMMA NobodyLostStays ==
    ASSUME CustodyInv, IdsDiffer, NobodyLost, [Next]_vars
    PROVE  NobodyLost'
<1> SUFFICES ASSUME NEW c \in Miner, Lost(c)' PROVE FALSE
    BY DEF NobodyLost
<1>1. Lost(c) \/ Evicts(c)
    BY NextFollows DEF CustodyInv, Follows
<1>2. Evicts(c)
    BY <1>1 DEF NobodyLost
<1>3. c \in Closed /\ KnownKept
    BY <1>2, EvictedIsClosed, KnownStays DEF CustodyInv, TypeInv
<1>4. downStat'[c] = "disconnected"
    BY <1>3 DEF KnownKept, Closed
<1>5. RunLoop(c)'
    BY DEF Lost
<1> QED
    BY <1>4, <1>5 DEF RunLoop

LEMMA InitNobodyLost == Init => NobodyLost
BY DEF Init, DownInit, NobodyLost, Lost, RunLoop

\* As long as no id is used twice, whatever else happens, every miner that is
\* authorized is in exactly one hand: a session serves it, or one message on
\* its way will pass it on or close it.
THEOREM CustodyWithoutReuse == Spec /\ []IdsDiffer => []CustodyConserved
<1>1. CustodyInv /\ NobodyLost => CustodyConserved
    <2> SUFFICES ASSUME CustodyInv, NobodyLost, NEW c \in Miner, RunLoop(c) PROVE Hands(c) = 1
        BY DEF CustodyConserved
    <2>1. MailInv /\ Custody(c) /\ ~Nowhere(c)
        BY DEF CustodyInv, TypeInv, NobodyLost, Lost
    <2>2. Hands(c) = IF Nowhere(c) THEN 0 ELSE 1
        BY <2>1, HandsOf
    <2> QED
        BY <2>1, <2>2
<1>2. CustodyInv /\ IdsDiffer /\ NobodyLost /\ [Next]_vars => NobodyLost'
    BY NobodyLostStays
<1> QED
    BY <1>1, <1>2, InitNobodyLost, CustodyInvariant, PTL DEF Spec

\* The ids are handed out in order: after n of them, the cursor is at n.
Given == {d \in Miner : sessionID[d] # NoID}
RingInv ==
    /\ \A c, d \in Given : sessionID[c] = sessionID[d] => c = d
    /\ {sessionID[d] : d \in Given} = 0 .. Cardinality(Given) - 1
    /\ allocIDx = IF Cardinality(Given) = MaxSessionId + 1 THEN 0 ELSE Cardinality(Given)

\* So there are enough ids for all miners if there are as many.
EnoughIds == IsFiniteSet(Miner) /\ Cardinality(Miner) <= MaxSessionId + 1

LEMMA GrantKeepsRing ==
    ASSUME EnoughIds, TypeInv, RingInv, NEW d \in Miner, RunDownSession(d)
    PROVE  RingInv'
<1> DEFINE n == Cardinality(Given)
<1>1. /\ sessionID \in [Miner -> SessionIds \cup {NoID}]
      /\ sessionIDs = {sessionID[c] : c \in {e \in Miner : Live(e)}}
      /\ \A c \in Miner : Live(c) => sessionID[c] \in SessionIds
      /\ downStat[d] = "none" /\ sessionID[d] = NoID
    BY DEF TypeInv, LeaseInv, BitsAreLive, DownInv, RunDownSession
<1>2. PICK id \in SessionIds : AllocSessionID(id) /\ sessionID' = [sessionID EXCEPT ![d] = id]
    BY DEF RunDownSession
<1>3. d \notin Given /\ Given' = Given \cup {d}
    BY <1>1, <1>2, NoIDAssumption DEF Given
<1>4. /\ IsFiniteSet(Given) /\ n \in Nat
      /\ Cardinality(Given \cup {d}) = n + 1
      /\ n + 1 <= MaxSessionId + 1
    <2>1. Given \in SUBSET Miner /\ Given \cup {d} \in SUBSET Miner
        BY DEF Given
    <2>2. IsFiniteSet(Given) /\ Cardinality(Given \cup {d}) <= Cardinality(Miner)
        BY <2>1, FS_Subset DEF EnoughIds
    <2>3. n \in Nat /\ Cardinality(Given \cup {d}) = n + 1
        BY <1>3, <2>2, FS_AddElement, FS_CardinalityType
    <2>4. Cardinality(Miner) \in Nat
        BY FS_CardinalityType DEF EnoughIds
    <2> QED
        BY <2>2, <2>3, <2>4, IdAssumption DEF EnoughIds
<1> HIDE DEF n
<1>5. allocIDx = n /\ {sessionID[c] : c \in Given} = 0 .. n - 1
    BY <1>4, IdAssumption DEF RingInv, n
<1>6. n \notin sessionIDs
    <2>1. ASSUME NEW c \in Miner, Live(c), sessionID[c] = n PROVE FALSE
        <3>1. c \in Given
            BY <1>1, <2>1, NoIDAssumption DEF Given
        <3>2. n \in 0 .. n - 1
            BY <1>5, <2>1, <3>1
        <3> QED
            BY <1>4, <3>2
    <2> QED
        BY <1>1, <2>1
<1>7. id = n
    <2>1. n \in SessionIds /\ id \in Nat /\ MaxSessionId \in Nat /\ id <= MaxSessionId
        BY <1>4, IdAssumption DEF SessionIds
    <2>2. n \notin Passed(id)
        BY <1>2, <1>6 DEF AllocSessionID
    <2> QED
        BY <1>4, <1>5, <2>1, <2>2 DEF Passed
<1>8. allocIDx' = IF n + 1 = MaxSessionId + 1 THEN 0 ELSE n + 1
    BY <1>2, <1>4, <1>7, IdAssumption DEF AllocSessionID, NextIdx, Inc
<1>9. /\ \A c \in Given : sessionID'[c] = sessionID[c]
      /\ sessionID'[d] = n
    BY <1>1, <1>2, <1>3, <1>7 DEF Given
<1>10. \A c \in Given : sessionID[c] # n
    BY <1>4, <1>5
<1>11. \A b, c \in Given \cup {d} : sessionID'[b] = sessionID'[c] => b = c
    BY <1>9, <1>10 DEF RingInv
<1>12. {sessionID'[c] : c \in Given \cup {d}} = 0 .. (n + 1) - 1
    <2>1. {sessionID'[c] : c \in Given \cup {d}} = {sessionID[c] : c \in Given} \cup {n}
        BY <1>9
    <2>2. (0 .. n - 1) \cup {n} = 0 .. (n + 1) - 1
        BY <1>4
    <2> QED
        BY <1>5, <2>1, <2>2
<1>13. Cardinality(Given)' = n + 1
    BY <1>3, <1>4
<1> QED
    BY <1>3, <1>8, <1>11, <1>12, <1>13 DEF RingInv

LEMMA RingStays ==
    ASSUME EnoughIds, TypeInv, RingInv, [Next]_vars
    PROVE  RingInv'
<1>1. ASSUME UNCHANGED <<sessionID, allocIDx>> PROVE RingInv'
    <2>1. Given' = Given
        BY <1>1 DEF Given
    <2> QED
        BY <1>1, <2>1 DEF RingInv
<1>2. ASSUME NEW d \in Miner, RunDownSession(d) PROVE RingInv'
    BY <1>2, GrantKeepsRing
<1>3. ASSUME NEW d \in Miner,
             RunDownSessionRefused(d) \/ Authorize(d) \/ LoginAgain(d) \/ (Live(d) /\ Close(d))
      PROVE  UNCHANGED <<sessionID, allocIDx>>
    BY <1>3 DEF RunDownSessionRefused, AllocSessionIDFull, Authorize, LoginAgain, Close, FreeSessionID, idVars
<1>4. UNCHANGED leaseVars => UNCHANGED <<sessionID, allocIDx>>
    BY DEF leaseVars
<1> QED
    BY <1>1, <1>2, <1>3, <1>4, StepKinds

LEMMA InitRing == Init => RingInv
<1> SUFFICES ASSUME Init PROVE RingInv
    OBVIOUS
<1>1. Given = {} /\ allocIDx = 0
    BY DEF Init, DownInit, IDInit, Given
<1>2. Cardinality(Given) = 0
    BY <1>1, FS_EmptySet
<1> QED
    BY <1>1, <1>2, IdAssumption DEF RingInv

LEMMA RingGivesDifferentIds == RingInv => IdsDiffer
BY NoIDAssumption DEF RingInv, IdsDiffer, Known, Given

\* With no more miners than ids none is used twice, since the ring hands them
\* out one after the other, so that no miner is ever lost.
THEOREM EveryMinerHasOneHand ==
    ASSUME IsFiniteSet(Miner), Cardinality(Miner) <= MaxSessionId + 1
    PROVE  Spec => []CustodyConserved
<1>1. EnoughIds
    BY DEF EnoughIds
<1>2. TypeInv /\ RingInv /\ [Next]_vars => RingInv'
    BY <1>1, RingStays
<1> QED
    BY <1>2, InitRing, RingGivesDifferentIds, TypeInvariant, CustodyWithoutReuse, PTL DEF Spec

-----------------------------------------------------------------------------
(* The messages the managers' books depend on.                             *)

\* The events that end a session or an attempt at one, and those that end a
\* manager.
EndEvents == {x \in Actor \X Event :
                 x[1] \in Mgr /\ x[2].type \in {"UpSessionBroken", "UpSessionInitFailed"}}
ExitEvents == {x \in Actor \X Event : x[1] \in Mgr /\ x[2].type = "Exit"}

Ended(m, s) == {<<m, EventUpSessionBroken(s)>>, <<m, EventUpSessionInitFailed(s)>>}
NotEnded(m, s) == Free(chan, spawned, Ended(m, s))

Told(m) == {<<m, EventExit>>}
NotTold(m) == Free(chan, spawned, Told(m))

\* A pool session is told to exit by its manager, the last thing it does; and
\* a manager hears only of sessions of its own.
SlotMessages ==
    {x \in Actor \X Event :
        /\ x[1] \in Up /\ x[2].type = "Exit" => upMgr[x[1]] \in Mgr \ mgrLoop
        /\ x[2].type = "UpSessionReady" => upMgr[x[2].session] = x[1]}

\* Messages that are none of these.
Plain ==
    {x \in Actor \X Event :
        /\ x[1] \in Mgr \cup Up => x[2].type # "Exit"
        /\ x[2].type \notin {"UpSessionReady", "UpSessionBroken", "UpSessionInitFailed"}}

-----------------------------------------------------------------------------
(* The inductive invariants.                                               *)

\* The slot has at most one session or goroutine that will make one, or one
\* message that says that it ended.
SlotOK(m, s) ==
    /\ connecting[m][s] \in {0, 1}
    /\ AtMostOne(chan, spawned, Ended(m, s))
    /\ \A u, v \in SessionsOf(m, s) : u = v
    /\ connecting[m][s] = 1 => SessionsOf(m, s) = {} /\ NotEnded(m, s)
    /\ SessionsOf(m, s) # {} => NotEnded(m, s)

\* Nothing will bring the slot back.
GivenUp(m, s) == connecting[m][s] = 0 /\ SessionsOf(m, s) = {} /\ NotEnded(m, s)
GivenUpSlots(m) == {s \in Slot : GivenUp(m, s)}

\* Whose the sessions are.
OwnerInv ==
    /\ Mail(chan, spawned, SlotMessages)
    /\ \A u \in Up : upStat[u] = "none" => upMgr[u] = None
    /\ \A u \in Up : upMgr[u] # None => mgrAccount[upMgr[u]] # None
    /\ \A m \in Mgr, s \in Slot : slotSession[m][s] # None => upMgr[slotSession[m][s]] = m

\* Nothing has happened before the manager exists; then it counts its losses.
CountOK(m) ==
    /\ mgrAccount[m] = None => initFailureCounter[m] = 0 /\ GivenUpSlots(m) = Slot
    /\ m \in mgrLoop => initFailureCounter[m] = Cardinality(GivenUpSlots(m))

SlotsInv ==
    /\ OwnerInv
    /\ \A m \in Mgr : CountOK(m) /\ \A s \in Slot : SlotOK(m, s)

\* A manager in the map runs and is not told to exit, one that is not in the
\* map is; and nothing happens before the SessionManager has started.
Enlisted(a) ==
    upSessionManagers[a] # None =>
       /\ mgrAccount[upSessionManagers[a]] = a
       /\ smStat # "exited" => upSessionManagers[a] \in mgrLoop /\ NotTold(upSessionManagers[a])
Dismissed(m) == m \in mgrLoop => upSessionManagers[mgrAccount[m]] = m \/ ~NotTold(m)
ToldOnce(m) ==
    /\ AtMostOne(chan, spawned, Told(m))
    /\ mgrAccount[m] = None => NotTold(m)
NotYet ==
    smStat = "starting" =>
       /\ \A a \in Account : upSessionManagers[a] = None
       /\ \A d \in Miner : downStat[d] = "none"

RegistryInv ==
    /\ \A a \in Account : Enlisted(a)
    /\ \A m \in Mgr : Dismissed(m) /\ ToldOnce(m)
    /\ NotYet

-----------------------------------------------------------------------------
(* Steps that do without such messages.                                    *)

\* The step neither takes nor sends a message of kind K; what it sends suits
\* the owners of the sessions.
Without(K) ==
    \E in, out : /\ Passes(in, out)
                 /\ in \cap K = {} /\ out \cap K = {}
                 /\ out \subseteq SlotMessages'

Ends == EndEvents \cup ExitEvents

LEMMA PlainIs ==
    /\ \A a \in Actor, e \in Event :
          /\ e.type \notin {"UpSessionReady", "UpSessionBroken", "UpSessionInitFailed"}
          /\ e.type = "Exit" => a \notin Mgr \cup Up
          => <<a, e>> \in Plain
    /\ Plain \cap Ends = {}
    /\ Plain \subseteq SlotMessages'
<1>1. ASSUME NEW a \in Actor, NEW e \in Event,
             e.type \notin {"UpSessionReady", "UpSessionBroken", "UpSessionInitFailed"},
             e.type = "Exit" => a \notin Mgr \cup Up
      PROVE  <<a, e>> \in Plain
    BY <1>1 DEF Plain
<1>2. Plain \cap Ends = {}
    BY DEF Plain, Ends, EndEvents, ExitEvents
<1>3. Plain \subseteq SlotMessages'
    BY DEF Plain, SlotMessages
<1> QED
    BY <1>1, <1>2, <1>3

\* The parts are different, seen from the managers.
LEMMA NoMgr ==
    /\ SM \notin Mgr \cup Up
    /\ \A d \in Miner : d \notin Mgr \cup Up
    /\ \A u \in Up : u \notin Mgr
    /\ \A m \in Mgr : Fake(m) \notin Mgr \cup Up /\ m \notin Up /\ m # None
BY ActorAssumption DEF Actor

LEMMA PlainStep ==
    ASSUME NEW ACTION in, NEW ACTION out, Passes(in, out), in \cap Ends = {}, out \subseteq Plain
    PROVE  Without(Ends)
<1>1. out \cap Ends = {} /\ out \subseteq SlotMessages'
    BY PlainIs
<1> QED
    BY <1>1 DEF Without

\* Events of parts other than the managers.
LEMMA PlainOfOthers ==
    ASSUME NEW a, a \notin Mgr, NEW e, NEW ACTION out, Passes({<<a, e>>}, out), out \subseteq Plain
    PROVE  Without(Ends)
<1>1. {<<a, e>>} \cap Ends = {}
    BY DEF Ends, EndEvents, ExitEvents
<1> QED
    BY <1>1, PlainStep

LEMMA TakesOnly ==
    ASSUME NEW a, a \notin Mgr, NEW e, Passes({<<a, e>>}, {})
    PROVE  Without(Ends)
<1>1. \A out : Passes({<<a, e>>}, out) /\ out \subseteq Plain => Without(Ends)
    BY PlainOfOthers
<1>2. {} \subseteq Plain
    OBVIOUS
<1> QED
    BY <1>1, <1>2

LEMMA PlainSend ==
    ASSUME NEW ACTION out, Passes({}, out), out \subseteq Plain
    PROVE  Without(Ends)
<1>1. {} \cap Ends = {}
    OBVIOUS
<1> QED
    BY <1>1, PlainStep

LEMMA StillStep ==
    ASSUME Passes({}, {})
    PROVE  Without(Ends)
<1>1. {} \subseteq Plain
    OBVIOUS
<1> QED
    BY <1>1, PlainSend

LEMMA WithoutLess ==
    ASSUME NEW ACTION K, NEW ACTION L, L \subseteq K, Without(K)
    PROVE  Without(L)
BY DEF Without

-----------------------------------------------------------------------------
(* What the parts other than the managers send.                            *)

LEMMA DownWithout ==
    ASSUME TypeInv, NEW d \in Miner, MinerStep(d) \/ DownHandles(d)
    PROVE  Without(Ends)
<1>0. d \notin Mgr \cup Up /\ d \in Actor /\ SM \in Actor /\ MailInv
    BY NoMgr, Actors DEF TypeInv
<1>1. CASE Authorize(d)
    <2>1. Passes({}, {<<SM, EventAddDownSession(d)>>})
        BY <1>1, AuthorizeMail
    <2>2. {<<SM, EventAddDownSession(d)>>} \subseteq Plain
        BY <1>0, PlainIs, SessionEvents
    <2> QED
        BY <2>1, <2>2, PlainSend
<1>2. CASE ConnBroken(d)
    <2>1. /\ Passes({<<d, Head(chan[d])>>}, Broken(d)) /\ Broken(d) \subseteq Messages'
          /\ \A m \in Broken(d) : m[2] = EventDownSessionBroken(sessionID[d])
        BY <1>2, ConnBrokenMail
    <2>2. ASSUME NEW m \in Broken(d) PROVE m \in Plain
        <3>1. m \in Messages' /\ m[2] = EventDownSessionBroken(sessionID[d])
            BY <2>1
        <3>2. PICK a \in Actor, e \in Event : m = <<a, e>>
            BY <3>1 DEF Messages
        <3>3. e.type = "DownSessionBroken"
            BY <3>1, <3>2 DEF EventDownSessionBroken
        <3> QED
            BY <3>2, <3>3, PlainIs
    <2> QED
        BY <1>0, <2>1, <2>2, PlainOfOthers
<1>3. CASE Exit(d)
    <2>1. Passes({<<d, Head(chan[d])>>}, {})
        BY <1>3, ExitMail
    <2> QED
        BY <1>0, <2>1, TakesOnly
<1>4. CASE SetUpSession(d)
    <2> DEFINE x == <<Head(chan[d]).session, EventAddDownSession(d)>>
    <2>1. Passes({<<d, Head(chan[d])>>}, {x}) /\ Head(chan[d]).session \in PoolSession
        BY <1>4, SetUpSessionMail
    <2>2. {x} \subseteq Plain
        BY <2>1, PlainIs, SessionEvents, Actors
    <2> HIDE DEF x
    <2> QED
        BY <1>0, <2>1, <2>2, PlainOfOthers
<1>5. CASE MinerLeaves(d)
    <2>1. Passes({}, {<<d, EventConnBroken>>})
        BY <1>5, MinerLeavesMail
    <2>2. {<<d, EventConnBroken>>} \subseteq Plain
        BY <1>0, PlainIs, PlainEvents
    <2> QED
        BY <2>1, <2>2, PlainSend
<1>6. CASE RunDownSession(d) \/ RunDownSessionRefused(d) \/ InitConnBroken(d) \/ LoginAgain(d)
    <2>1. UNCHANGED mailVars
        BY <1>6 DEF RunDownSession, RunDownSessionRefused, InitConnBroken, LoginAgain
    <2> QED
        BY <2>1, QuietPasses, StillStep
<1> QED
    BY <1>1, <1>2, <1>3, <1>4, <1>5, <1>6 DEF MinerStep, DownHandles

LEMMA PendingIsPlain ==
    ASSUME NEW u \in Up, upMgr[u] \in Mgr, NEW STATE ds, ds \subseteq Known
    PROVE  UpClosePending(u, ds) \subseteq Plain
<1>1. ASSUME NEW d \in ds
      PROVE  <<upMgr[u], EventAddDownSession(d)>> \in Plain /\ <<d, EventExit>> \in Plain
    <2>1. d \in Miner /\ d \in Actor /\ upMgr[u] \in Actor /\ d \notin Mgr \cup Up
        BY Actors, NoMgr DEF Known
    <2> QED
        BY <2>1, PlainIs, PlainEvents, SessionEvents
<1> QED
    BY <1>1 DEF UpClosePending

LEMMA TimerIsPlain ==
    ASSUME NEW p \in PoolSession
    PROVE  Timer(p) \subseteq Plain
<1>1. <<p, EventSendUpdateMinerNum>> \in Plain
    BY PlainIs, PlainEvents, Actors
<1> QED
    BY <1>1 DEF Timer

LEMMA PoolBreaksWithout ==
    ASSUME TypeInv, NEW u \in Up, PoolBreaks(u)
    PROVE  Without(Ends)
<1>1. Passes({}, {<<u, EventConnBroken>>})
    BY PoolBreaksMail
<1>2. {<<u, EventConnBroken>>} \subseteq Plain
    BY PlainIs, PlainEvents, Actors
<1> QED
    BY <1>1, <1>2, PlainSend

LEMMA FakeWithout ==
    ASSUME TypeInv, NEW m \in Mgr, FakeHandles(m, sessionID)
    PROVE  Without(Ends)
<1>0. Fake(m) \notin Mgr /\ Fake(m) \in PoolSession /\ m \in Actor
    BY NoMgr, Actors
<1>1. CASE FakeAddDownSession(m, sessionID)
    <2>1. Passes({<<Fake(m), Head(chan[Fake(m)])>>}, {})
        BY <1>1, FakeAddMail
    <2> QED
        BY <1>0, <2>1, TakesOnly
<1>2. CASE FakeDownSessionBroken(m)
    <2>1. Passes({<<Fake(m), Head(chan[Fake(m)])>>}, Timer(Fake(m)))
        BY <1>2, FakeBrokenMail
    <2> QED
        BY <1>0, <2>1, TimerIsPlain, PlainOfOthers
<1>3. CASE FakeSendUpdateMinerNum(m)
    <2> DEFINE e == EventUpdateFakeMinerNum(disconnected[Fake(m)])
    <2>1. Passes({<<Fake(m), Head(chan[Fake(m)])>>}, {<<m, e>>}) /\ e \in Event /\ e.type = "UpdateFakeMinerNum"
        BY <1>3, FakeSendUpdateMail
    <2> HIDE DEF e
    <2>2. {<<m, e>>} \subseteq Plain
        BY <1>0, <2>1, PlainIs
    <2> QED
        BY <1>0, <2>1, <2>2, PlainOfOthers
<1>4. CASE FakeTransferDownSessions(m)
    <2>1. /\ Passes({<<Fake(m), Head(chan[Fake(m)])>>}, Returns(m) \cup {<<m, GivenBack(m)>>})
          /\ GivenBack(m) \in Event /\ GivenBack(m).type = "UpdateFakeMinerNum"
        BY <1>4, FakeTransferMail
    <2>2. <<m, GivenBack(m)>> \in Plain
        BY <1>0, <2>1, PlainIs
    <2>3. ASSUME NEW d \in Served(Fake(m)) PROVE <<m, EventAddDownSession(d)>> \in Plain
        <3>1. d \in Miner
            BY <1>0 DEF TypeInv, MapInv, Known
        <3> QED
            BY <1>0, <3>1, PlainIs, SessionEvents
    <2>4. Returns(m) \cup {<<m, GivenBack(m)>>} \subseteq Plain
        BY <2>2, <2>3 DEF Returns
    <2> QED
        BY <1>0, <2>1, <2>4, PlainOfOthers
<1>5. CASE FakeExit(m)
    <2>1. Passes({<<Fake(m), Head(chan[Fake(m)])>>}, Released(m))
        BY <1>5, FakeExitMail
    <2>2. ASSUME NEW d \in Served(Fake(m)) PROVE <<d, EventExit>> \in Plain
        <3>1. d \in Miner
            BY <1>0 DEF TypeInv, MapInv, Known
        <3> QED
            BY <3>1, PlainIs, PlainEvents, Actors, NoMgr
    <2>3. Released(m) \subseteq Plain
        BY <2>2 DEF Released
    <2> QED
        BY <1>0, <2>1, <2>3, PlainOfOthers
<1> QED
    BY <1>1, <1>2, <1>3, <1>4, <1>5 DEF FakeHandles

\* A pool session that closes says so to its manager, and sends other things.
UpEnds(u) ==
    /\ UpLoop(u)
    /\ UpCloses(u)
    /\ \E rest : /\ rest \subseteq Plain
                 /\ Passes({<<u, Head(chan[u])>>},
                           {<<upMgr[u], EventUpSessionBroken(upSlot[u])>>} \cup rest)

LEMMA GoingEnds ==
    ASSUME NEW u \in Up, UpLoop(u), upMgr[u] \in Mgr, NEW STATE ds, ds \subseteq Known,
           NEW STATE Q, Q \subseteq Plain, UpGoes(u, ds, Q)
    PROVE  UpEnds(u)
<1>1. UpClosePending(u, ds) \subseteq Plain
    BY PendingIsPlain
<1>2. Q \cup UpClosePending(u, ds) \subseteq Plain
    BY <1>1
<1> QED
    BY <1>2 DEF UpEnds, UpGoes

LEMMA UpSteps ==
    ASSUME TypeInv, NEW u \in Up, UpHandles(u, sessionID)
    PROVE  \/ Without(Ends) /\ UNCHANGED upVars
           \/ Without(Ends) /\ UpExit(u) /\ <<u, EventExit>> \in Messages /\ Head(chan[u]) = EventExit
           \/ UpEnds(u)
<1>0. /\ u \notin Mgr /\ u \in Actor /\ u \in PoolSession /\ UpLoop(u) /\ upMgr[u] \in Mgr
      /\ Served(u) \subseteq Known /\ MailInv
    <2>1. UpLoop(u)
        BY DEF UpHandles, UpConnBroken, UpExit, UpAddDownSession, UpDownSessionBroken, UpSendUpdateMinerNum
    <2> QED
        BY <2>1, NoMgr, Actors DEF TypeInv, UpInv, MapInv
<1>1. CASE UpConnBroken(u)
    <2>1. Passes({<<u, Head(chan[u])>>},
                 {<<upMgr[u], EventUpSessionBroken(upSlot[u])>>} \cup UpClosePending(u, Served(u)))
        BY <1>1, UpConnBrokenMail
    <2>2. UpClosePending(u, Served(u)) \subseteq Plain /\ UpCloses(u)
        BY <1>0, <1>1, PendingIsPlain DEF UpConnBroken
    <2> QED
        BY <1>0, <2>1, <2>2 DEF UpEnds
<1>2. CASE UpExit(u)
    <2>1. Passes({<<u, Head(chan[u])>>}, UpClosePending(u, Served(u)))
        BY <1>2, UpExitMail
    <2>2. UpClosePending(u, Served(u)) \subseteq Plain
        BY <1>0, PendingIsPlain
    <2>3. Receives(u, "Exit")
        BY <1>2 DEF UpExit
    <2>4. <<u, Head(chan[u])>> \in Messages /\ Head(chan[u]) = EventExit
        BY <1>0, <2>3, Received, EventKinds
    <2>5. Without(Ends)
        BY <1>0, <2>1, <2>2, PlainOfOthers
    <2> QED
        BY <1>2, <2>4, <2>5
<1>3. CASE UpAddDownSession(u, sessionID)
    <2> DEFINE d == Head(chan[u]).session
               f == Put(downSessions[u], sessionID[d], d)
    <2>1. Values(f) \subseteq Known /\ (UpStays(u, {}) \/ UpGoes(u, Values(f), {}))
        BY <1>3, UpAddMail
    <2> HIDE DEF f
    <2>2. CASE UpStays(u, {})
        <3>1. Passes({<<u, Head(chan[u])>>}, {}) /\ UNCHANGED upVars
            BY <2>2 DEF UpStays
        <3> QED
            BY <1>0, <3>1, TakesOnly
    <2>3. CASE UpGoes(u, Values(f), {})
        <3>1. \A Q : Q \subseteq Plain /\ UpGoes(u, Values(f), Q) => UpEnds(u)
            BY <1>0, <2>1, GoingEnds
        <3>2. {} \subseteq Plain
            OBVIOUS
        <3> QED
            BY <2>3, <3>1, <3>2
    <2> QED
        BY <2>1, <2>2, <2>3
<1>4. CASE UpDownSessionBroken(u)
    <2> DEFINE id == Head(chan[u]).sessionID
               f == Delete(downSessions[u], id)
    <2>1. Values(f) \subseteq Known /\ (UpStays(u, Timer(u)) \/ UpGoes(u, Values(f), Timer(u)))
        BY <1>4, UpBrokenMail
    <2>2. Timer(u) \subseteq Plain
        BY <1>0, TimerIsPlain
    <2> HIDE DEF f
    <2>3. CASE UpStays(u, Timer(u))
        <3>1. Passes({<<u, Head(chan[u])>>}, Timer(u)) /\ UNCHANGED upVars
            BY <2>3 DEF UpStays
        <3> QED
            BY <1>0, <2>2, <3>1, PlainOfOthers
    <2>4. CASE UpGoes(u, Values(f), Timer(u))
        BY <1>0, <2>1, <2>2, <2>4, GoingEnds
    <2> QED
        BY <2>1, <2>3, <2>4
<1>5. CASE UpSendUpdateMinerNum(u)
    <2> DEFINE e == EventUpdateMinerNum(upSlot[u], disconnected[u])
    <2>1. /\ Passes({<<u, Head(chan[u])>>}, {<<upMgr[u], e>>})
          /\ e \in Event /\ e.type = "UpdateMinerNum"
        BY <1>5, UpSendUpdateMinerNumMail
    <2>2. UNCHANGED upVars
        BY <1>5 DEF UpSendUpdateMinerNum
    <2> HIDE DEF e
    <2>3. {<<upMgr[u], e>>} \subseteq Plain
        BY <1>0, <2>1, PlainIs, Actors
    <2> QED
        BY <1>0, <2>1, <2>2, <2>3, PlainOfOthers
<1> QED
    BY <1>1, <1>2, <1>3, <1>4, <1>5 DEF UpHandles

-----------------------------------------------------------------------------
(* What the managers and the SessionManager send.                          *)

\* An event that ends no session and no manager.
LEMMA PlainOfMgr ==
    ASSUME NEW m \in Mgr, NEW e, e.type \notin {"UpSessionBroken", "UpSessionInitFailed", "Exit"},
           NEW ACTION out, Passes({<<m, e>>}, out), out \subseteq Plain
    PROVE  Without(Ends)
<1>1. {<<m, e>>} \cap Ends = {}
    BY DEF Ends, EndEvents, ExitEvents
<1> QED
    BY <1>1, PlainStep

\* What a handler of the manager may send besides orders to stop.
Asks(m, sends) ==
    \/ sends = Nothing
    \/ sends = To(SM, EventStopUpSessionManager(mgrAccount[m]))
    \/ sends = To(Fake(m), EventTransferDownSessions)

LEMMA AsksPlain ==
    ASSUME TypeInv, NEW m \in Mgr, NEW t, MgrReceives(m, t), NEW STATE sends, Asks(m, sends),
           Handles(m, sends, {})
    PROVE  \E out : out \subseteq Plain /\ Passes({<<m, Head(chan[m])>>}, out)
<1>1. MailInv /\ m \in Actor /\ Receives(m, t) /\ m \in mgrLoop
    BY Actors DEF TypeInv, MgrReceives
<1>2. CASE sends = Nothing
    <2>1. Passes({<<m, Head(chan[m])>>}, {}) /\ {} \subseteq Plain
        BY <1>1, <1>2, SpawnsPasses
    <2> QED
        BY <2>1
<1>3. CASE sends = To(SM, EventStopUpSessionManager(mgrAccount[m]))
    <2> DEFINE e == EventStopUpSessionManager(mgrAccount[m])
    <2>1. mgrAccount[m] \in Account
        BY <1>1 DEF TypeInv, MgrInv, LoopsInv
    <2>2. e \in Event /\ e.type = "StopUpSessionManager" /\ SM \in Actor
        BY <2>1, SessionEvents, Actors
    <2> HIDE DEF e
    <2>3. Passes({<<m, Head(chan[m])>>}, {<<SM, e>>})
        BY <1>1, <1>3, <2>2, ToPasses DEF e
    <2>4. {<<SM, e>>} \subseteq Plain
        BY <2>2, PlainIs
    <2> QED
        BY <2>3, <2>4
<1>4. CASE sends = To(Fake(m), EventTransferDownSessions)
    <2>1. Fake(m) \in Actor
        BY Actors
    <2>2. Passes({<<m, Head(chan[m])>>}, {<<Fake(m), EventTransferDownSessions>>})
        BY <1>1, <1>4, <2>1, PlainEvents, ToPasses
    <2>3. {<<Fake(m), EventTransferDownSessions>>} \subseteq Plain
        BY <2>1, PlainEvents, PlainIs
    <2> QED
        BY <2>2, <2>3
<1> QED
    BY <1>2, <1>3, <1>4 DEF Asks

\* The handlers that ask for something or for nothing.
LEMMA MgrAsks ==
    ASSUME TypeInv, NEW m \in Mgr, NEW t,
           \/ t = "UpSessionReady" /\ MgrUpSessionReady(m)
           \/ t = "UpSessionInitFailed" /\ MgrUpSessionInitFailed(m)
           \/ t = "UpSessionBroken" /\ MgrUpSessionBroken(m)
           \/ t = "UpdateMinerNum" /\ MgrUpdateMinerNum(m)
           \/ t = "UpdateFakeMinerNum" /\ MgrUpdateFakeMinerNum(m)
    PROVE  /\ m \in mgrLoop /\ Head(chan[m]) \in Event /\ Head(chan[m]).type = t
           /\ <<m, Head(chan[m])>> \in Messages
           /\ \E out : out \subseteq Plain /\ Passes({<<m, Head(chan[m])>>}, out)
<1>1. MgrReceives(m, t)
    BY DEF MgrUpSessionReady, MgrUpSessionInitFailed, MgrUpSessionBroken, MgrUpdateMinerNum,
           MgrUpdateFakeMinerNum
<1>2. \E sends : Asks(m, sends) /\ Handles(m, sends, {})
    BY DEF MgrUpSessionReady, MgrUpSessionInitFailed, MgrUpSessionBroken, MgrUpdateMinerNum,
           MgrUpdateFakeMinerNum, Asks
<1>3. \E out : out \subseteq Plain /\ Passes({<<m, Head(chan[m])>>}, out)
    BY <1>1, <1>2, AsksPlain
<1>4. MailInv /\ m \in Actor /\ Receives(m, t) /\ m \in mgrLoop
    BY <1>1, Actors DEF TypeInv, MgrReceives
<1> QED
    BY <1>3, <1>4, Received

LEMMA MgrWithout ==
    ASSUME TypeInv, NEW m \in Mgr,
           MgrAddDownSession(m) \/ MgrUpSessionReady(m) \/ MgrUpdateMinerNum(m) \/ MgrUpdateFakeMinerNum(m)
    PROVE  Without(Ends)
<1>1. CASE MgrAddDownSession(m)
    <2> DEFINE d == Head(chan[m]).session
    <2>1. /\ d \in Known /\ Head(chan[m]) = EventAddDownSession(d)
          /\ \E e \in Event : /\ e.type \in {"SetUpSession", "PoolNotReady"}
                              /\ Passes({<<m, Head(chan[m])>>}, {<<d, e>>})
        BY <1>1, MgrAddMail
    <2>2. d \in Actor
        BY <2>1, Actors DEF Known
    <2>3. Head(chan[m]).type = "AddDownSession"
        BY <2>1 DEF EventAddDownSession
    <2> HIDE DEF d
    <2>4. PICK e \in Event : /\ e.type \in {"SetUpSession", "PoolNotReady"}
                             /\ Passes({<<m, Head(chan[m])>>}, {<<d, e>>})
        BY <2>1
    <2>5. {<<d, e>>} \subseteq Plain
        BY <2>2, <2>4, PlainIs
    <2> QED
        BY <2>3, <2>4, <2>5, PlainOfMgr
<1>2. CASE MgrUpSessionReady(m) \/ MgrUpdateMinerNum(m) \/ MgrUpdateFakeMinerNum(m)
    <2>1. PICK t \in {"UpSessionReady", "UpdateMinerNum", "UpdateFakeMinerNum"} :
              /\ Head(chan[m]).type = t
              /\ \E out : out \subseteq Plain /\ Passes({<<m, Head(chan[m])>>}, out)
        BY <1>2, MgrAsks
    <2> QED
        BY <2>1, PlainOfMgr
<1> QED
    BY <1>1, <1>2

LEMMA MgrExitMail ==
    ASSUME TypeInv, NEW m \in Mgr, MgrExit(m)
    PROVE  /\ m \in mgrLoop /\ Head(chan[m]) = EventExit
           /\ Passes({<<m, EventExit>>}, {<<p, EventExit>> : p \in ExitReceivers(m)})
           /\ ExitReceivers(m) \subseteq PoolSession
<1>1. MailInv /\ m \in Actor /\ Receives(m, "Exit") /\ m \in mgrLoop
    BY Actors DEF TypeInv, MgrExit, MgrReceives
<1>2. Head(chan[m]) = EventExit
    BY <1>1, Received, EventKinds
<1>3. ExitReceivers(m) \subseteq PoolSession /\ ExitReceivers(m) \subseteq Actor
    BY Actors DEF ExitReceivers, TypeInv, MgrInv, SlotInv
<1>4. Handles(m, [p \in ExitReceivers(m) |-> <<EventExit>>], {})
    BY DEF MgrExit
<1>5. Passes({<<m, Head(chan[m])>>}, {<<p, EventExit>> : p \in ExitReceivers(m)})
    BY <1>1, <1>3, <1>4, ExitPasses
<1> QED
    BY <1>1, <1>2, <1>3, <1>5

LEMMA SMAddWithout ==
    ASSUME TypeInv, SMAddDownSession(subAccount)
    PROVE  Without(Ends)
<1> DEFINE h == Head(chan[SM])
           d == h.session
<1>1. d \in Known /\ h = EventAddDownSession(d)
    BY SMAddMail
<1>2. PICK m \in Mgr : Passes({<<SM, h>>}, {<<m, h>>})
    BY SMAddMail
<1>3. {<<m, h>>} \subseteq Plain
    BY <1>1, PlainIs, SessionEvents, Actors DEF Known
<1> HIDE DEF h
<1> QED
    BY <1>2, <1>3, NoMgr, PlainOfOthers

LEMMA SMStopWithout ==
    ASSUME TypeInv, SMStop
    PROVE  Without(Ends)
<1>1. Passes({}, {<<SM, EventExit>>})
    BY SMStopMail
<1>2. {<<SM, EventExit>>} \subseteq Plain
    BY NoMgr, Actors, PlainIs, PlainEvents
<1> QED
    BY <1>1, <1>2, PlainSend

\* The managers that the SessionManager stops.
Children == {upSessionManagers[a] : a \in Account} \ {None}

LEMMA SMExitMail ==
    ASSUME TypeInv, SMExit
    PROVE  /\ Passes({<<SM, Head(chan[SM])>>}, {<<p, EventExit>> : p \in Children})
           /\ Children \subseteq Mgr
<1>1. Receives(SM, "Exit") /\ SM \in Actor /\ MailInv
    BY Actors DEF SMExit, SMReceives, TypeInv
<1>2. Children \subseteq Mgr /\ Children \subseteq Actor
    BY Actors DEF TypeInv, SMTypeOK, Children
<1>3. Handles(SM, [m \in Children |-> <<EventExit>>], {})
    BY DEF SMExit, Children
<1> QED
    BY <1>1, <1>2, <1>3, ExitPasses

\* The manager of a is told to exit, when there is one.
StopsManager(a) ==
    \/ /\ upSessionManagers[a] \in Mgr
       /\ Forgets(a)
       /\ Passes({<<SM, Head(chan[SM])>>}, {<<upSessionManagers[a], EventExit>>})
    \/ /\ UNCHANGED upSessionManagers
       /\ Passes({<<SM, Head(chan[SM])>>}, {})

LEMMA SMStopManagerMail ==
    ASSUME TypeInv, SMStopUpSessionManager
    PROVE  \E a \in Account : StopsManager(a)
<1> DEFINE a == Head(chan[SM]).subAccount
<1>1. Receives(SM, "StopUpSessionManager") /\ SM \in Actor /\ MailInv /\ SMTypeOK
    BY Actors DEF SMStopUpSessionManager, SMReceives, TypeInv
<1>2. a \in Account
    BY <1>1, Received, EventKinds
<1>3. \/ /\ upSessionManagers[a] # None
         /\ Forgets(a)
         /\ Handles(SM, To(upSessionManagers[a], EventExit), {})
      \/ Handles(SM, Nothing, {}) /\ UNCHANGED upSessionManagers
    BY DEF SMStopUpSessionManager
<1> HIDE DEF a
<1>4. CASE /\ upSessionManagers[a] # None
           /\ Forgets(a)
           /\ Handles(SM, To(upSessionManagers[a], EventExit), {})
    <2>1. upSessionManagers[a] \in Mgr /\ upSessionManagers[a] \in Actor
        BY <1>1, <1>2, <1>4, Actors DEF SMTypeOK
    <2>2. Passes({<<SM, Head(chan[SM])>>}, {<<upSessionManagers[a], EventExit>>})
        BY <1>1, <1>4, <2>1, PlainEvents, ToPasses
    <2> QED
        BY <1>2, <1>4, <2>1, <2>2 DEF StopsManager
<1>5. CASE Handles(SM, Nothing, {}) /\ UNCHANGED upSessionManagers
    <2>1. Passes({<<SM, Head(chan[SM])>>}, {})
        BY <1>1, <1>5, SpawnsPasses
    <2> QED
        BY <1>2, <1>5, <2>1 DEF StopsManager
<1> QED
    BY <1>3, <1>4, <1>5

LEMMA ExitsSuit ==
    ASSUME NEW STATE S, S \subseteq Mgr
    PROVE  /\ {<<p, EventExit>> : p \in S} \subseteq SlotMessages'
           /\ {<<p, EventExit>> : p \in S} \cap EndEvents = {}
<1>1. ASSUME NEW p \in S PROVE <<p, EventExit>> \in SlotMessages' /\ <<p, EventExit>> \notin EndEvents
    <2>1. p \in Actor /\ p \notin Up /\ EventExit \in Event /\ EventExit.type = "Exit"
        BY Actors, NoMgr, PlainEvents
    <2> QED
        BY <2>1 DEF SlotMessages, EndEvents
<1> QED
    BY <1>1

LEMMA SMWithout ==
    ASSUME TypeInv, SMRuns \/ OperatorActs
    PROVE  Without(EndEvents)
<1>0. {<<SM, Head(chan[SM])>>} \cap EndEvents = {} /\ EndEvents \subseteq Ends
    BY NoMgr DEF EndEvents, Ends
<1>1. ASSUME NEW STATE S, S \subseteq Mgr,
             Passes({<<SM, Head(chan[SM])>>}, {<<p, EventExit>> : p \in S})
      PROVE  Without(EndEvents)
    BY <1>0, <1>1, ExitsSuit DEF Without
<1>2. CASE SMStarts
    BY <1>0, <1>2, QuietPasses, StillStep, WithoutLess DEF SMStarts
<1>3. CASE SMAddDownSession(subAccount)
    BY <1>0, <1>3, SMAddWithout, WithoutLess
<1>4. CASE SMStopUpSessionManager
    <2>1. PICK a \in Account : StopsManager(a)
        BY <1>4, SMStopManagerMail
    <2>2. CASE /\ upSessionManagers[a] \in Mgr
               /\ Passes({<<SM, Head(chan[SM])>>}, {<<upSessionManagers[a], EventExit>>})
        <3>1. {<<p, EventExit>> : p \in {upSessionManagers[a]}} = {<<upSessionManagers[a], EventExit>>}
            OBVIOUS
        <3> QED
            BY <1>1, <2>2, <3>1
    <2>3. CASE Passes({<<SM, Head(chan[SM])>>}, {})
        <3>1. Without(Ends)
            BY <2>3, NoMgr, TakesOnly
        <3> QED
            BY <1>0, <3>1, WithoutLess
    <2> QED
        BY <2>1, <2>2, <2>3 DEF StopsManager
<1>5. CASE SMExit
    BY <1>1, <1>5, SMExitMail
<1>6. CASE SMStop
    BY <1>0, <1>6, SMStopWithout, WithoutLess
<1> QED
    BY <1>2, <1>3, <1>4, <1>5, <1>6 DEF SMRuns, OperatorActs, SMHandles

-----------------------------------------------------------------------------
(* One slot.                                                               *)

LEMMA EndedIs ==
    ASSUME NEW m \in Mgr, NEW s \in Slot
    PROVE  /\ Ended(m, s) \subseteq EndEvents
           /\ \A n \in Mgr, t \in Slot :
                 <<m, s>> # <<n, t>> => Ended(m, s) \cap Ended(n, t) = {}
<1>1. Ended(m, s) \subseteq EndEvents
    BY SlotEvents, Actors DEF Ended, EndEvents
<1>2. \A x \in Ended(m, s) : x[1] = m /\ x[2].slot = s
    BY DEF Ended, EventUpSessionBroken, EventUpSessionInitFailed
<1>3. \A n \in Mgr, t \in Slot : \A x \in Ended(n, t) : x[1] = n /\ x[2].slot = t
    BY DEF Ended, EventUpSessionBroken, EventUpSessionInitFailed
<1> QED
    BY <1>1, <1>2, <1>3

\* A step that takes and sends no message about the slot.
LEMMA EndedStays ==
    ASSUME NEW m, NEW s, AtMostOne(chan, spawned, Ended(m, s)),
           NEW ACTION in, NEW ACTION out, Passes(in, out),
           in \cap Ended(m, s) = {}, out \cap Ended(m, s) = {}
    PROVE  /\ AtMostOne(chan', spawned', Ended(m, s))
           /\ NotEnded(m, s)' <=> NotEnded(m, s)
<1> DEFINE K == Ended(m, s)
<1>1. AtMostOne(chan', spawned', K) /\ (Free(chan', spawned', K) <=> Free(chan, spawned, K))
    BY DEF Passes
<1> QED
    BY <1>1 DEF NotEnded

LEMMA EndedWithout ==
    ASSUME NEW m \in Mgr, NEW s \in Slot, AtMostOne(chan, spawned, Ended(m, s)), Without(EndEvents)
    PROVE  /\ AtMostOne(chan', spawned', Ended(m, s))
           /\ NotEnded(m, s)' <=> NotEnded(m, s)
<1>1. PICK in, out : /\ Passes(in, out)
                     /\ in \cap EndEvents = {} /\ out \cap EndEvents = {}
    BY DEF Without
<1>2. in \cap Ended(m, s) = {} /\ out \cap Ended(m, s) = {}
    BY <1>1, EndedIs
<1> QED
    BY <1>1, <1>2, EndedStays

\* What a step leaves as it is.
SameSlot(m, s) == SlotOK(m, s)' /\ (GivenUp(m, s)' <=> GivenUp(m, s))

LEMMA SlotStays ==
    ASSUME NEW m, NEW s, SlotOK(m, s), AtMostOne(chan', spawned', Ended(m, s)),
           NotEnded(m, s)' <=> NotEnded(m, s),
           connecting'[m][s] = connecting[m][s], SessionsOf(m, s)' = SessionsOf(m, s)
    PROVE  SameSlot(m, s)
<1>1. Ended(m, s)' = Ended(m, s)
    BY DEF Ended
<1>2. AtMostOne(chan, spawned, Ended(m, s))'
    BY <1>1
<1>3. SlotOK(m, s)'
    BY <1>2 DEF SlotOK
<1>4. GivenUp(m, s)' <=> GivenUp(m, s)
    BY DEF GivenUp
<1> QED
    BY <1>3, <1>4 DEF SameSlot

-----------------------------------------------------------------------------
(* Whose the sessions are.                                                 *)

\* The sessions keep their managers, and a manager that has exited stays so.
OwnersKept ==
    /\ \A u \in Up : upMgr[u] # None => upMgr'[u] = upMgr[u]
    /\ \A u \in Up : upMgr[u] \in Mgr \ mgrLoop => upMgr[u] \notin mgrLoop'

LEMMA SlotMessagesKept ==
    ASSUME OwnersKept
    PROVE  SlotMessages \subseteq SlotMessages'
<1> SUFFICES ASSUME NEW x \in SlotMessages PROVE x \in SlotMessages'
    OBVIOUS
<1>1. x \in Actor \X Event /\ None \notin Actor /\ None \notin Mgr
    BY ActorAssumption DEF SlotMessages, Actor
<1>2. ASSUME x[1] \in Up, x[2].type = "Exit" PROVE upMgr'[x[1]] \in Mgr \ mgrLoop'
    <2>1. upMgr[x[1]] \in Mgr \ mgrLoop
        BY <1>2 DEF SlotMessages
    <2> QED
        BY <1>1, <1>2, <2>1 DEF OwnersKept
<1>3. ASSUME x[2].type = "UpSessionReady" PROVE upMgr'[x[2].session] = x[1]
    <2>1. x[2].session \in Up
        BY <1>1, <1>3, EventKinds
    <2>2. upMgr[x[2].session] = x[1]
        BY <1>3 DEF SlotMessages
    <2> QED
        BY <1>1, <2>1, <2>2 DEF OwnersKept
<1> QED
    BY <1>1, <1>2, <1>3 DEF SlotMessages

LEMMA SlotMailStays ==
    ASSUME OwnerInv, OwnersKept, NEW ACTION in, NEW ACTION out, Passes(in, out), out \subseteq SlotMessages'
    PROVE  Mail(chan, spawned, SlotMessages)'
<1>1. Mail(chan, spawned, SlotMessages')
    BY SlotMessagesKept DEF OwnerInv, Mail
<1> QED
    BY <1>1 DEF Passes

-----------------------------------------------------------------------------
(* The slots, step by step.                                                *)

\* The rest of the invariant, once it is known which slots are given up.
LEMMA CountsStay ==
    ASSUME SlotsInv, NEW m \in Mgr, UNCHANGED <<mgrAccount, initFailureCounter>>,
           m \in mgrLoop' => m \in mgrLoop,
           \A s \in Slot : GivenUp(m, s)' <=> GivenUp(m, s)
    PROVE  CountOK(m)'
<1>1. GivenUpSlots(m)' = GivenUpSlots(m)
    BY DEF GivenUpSlots, Slot
<1> QED
    BY <1>1 DEF SlotsInv, CountOK

\* Nothing that the invariant is about happens.
LEMMA StillSlots ==
    ASSUME SlotsInv, Without(EndEvents),
           UNCHANGED <<upVars, mgrLoop, mgrAccount, slotSession, initFailureCounter, connecting>>
    PROVE  SlotsInv'
<1>0. OwnerInv /\ UNCHANGED <<upStat, upMgr, upSlot>> /\ OwnersKept
    BY DEF SlotsInv, upVars, OwnersKept
<1>1. OwnerInv'
    <2>1. Mail(chan, spawned, SlotMessages)'
        BY <1>0, SlotMailStays DEF Without
    <2> QED
        BY <1>0, <2>1 DEF OwnerInv
<1>2. ASSUME NEW m \in Mgr, NEW s \in Slot PROVE SameSlot(m, s)
    <2>1. SlotOK(m, s) /\ AtMostOne(chan, spawned, Ended(m, s))
        BY DEF SlotsInv, SlotOK
    <2>2. AtMostOne(chan', spawned', Ended(m, s)) /\ (NotEnded(m, s)' <=> NotEnded(m, s))
        BY <2>1, EndedWithout
    <2>3. SessionsOf(m, s)' = SessionsOf(m, s)
        BY <1>0 DEF SessionsOf, UpLoop
    <2> QED
        BY <2>1, <2>2, <2>3, SlotStays
<1>3. \A m \in Mgr : \A s \in Slot : GivenUp(m, s)' <=> GivenUp(m, s)
    BY <1>2 DEF SameSlot
<1>4. ASSUME NEW m \in Mgr PROVE CountOK(m)'
    BY <1>3, CountsStay
<1> QED
    BY <1>1, <1>2, <1>4 DEF SlotsInv, SameSlot

LEMMA ReadySlotsStay ==
    ASSUME TypeInv, SlotsInv, NEW m \in Mgr, MgrUpSessionReady(m), UNCHANGED upVars
    PROVE  SlotsInv'
<1> DEFINE h == Head(chan[m])
<1>0. OwnerInv /\ UNCHANGED <<upStat, upMgr, upSlot>> /\ SlotInv /\ Without(EndEvents)
    BY MgrWithout, WithoutLess DEF SlotsInv, upVars, TypeInv, MgrInv, Ends
<1>1. /\ UNCHANGED <<mgrLoop, mgrAccount, initFailureCounter, connecting>>
      /\ slotSession' = [slotSession EXCEPT ![m][h.slot] = h.session]
    BY DEF MgrUpSessionReady
<1>2. OwnersKept
    BY <1>0, <1>1 DEF OwnersKept
<1>3. OwnerInv'
    <2>1. Mail(chan, spawned, SlotMessages)'
        BY <1>0, <1>2, SlotMailStays DEF Without
    <2>2. Receives(m, "UpSessionReady") /\ m \in Actor /\ IsChan(chan)
        BY Actors DEF MgrUpSessionReady, MgrReceives, TypeInv, MailInv, Mail
    <2>3. 1 \in DOMAIN chan[m] /\ h = chan[m][1] /\ h.type = "UpSessionReady"
        BY <2>2, TakenChannel DEF Receives
    <2>4. <<m, h>> \in SlotMessages
        BY <1>0, <2>2, <2>3 DEF OwnerInv, Mail
    <2>5. upMgr[h.session] = m /\ h.session \in Up /\ h.slot \in Slot
        BY <2>3, <2>4, EventKinds DEF SlotMessages
    <2> HIDE DEF h
    <2>6. ASSUME NEW n \in Mgr, NEW t \in Slot, slotSession'[n][t] # None
          PROVE  upMgr'[slotSession'[n][t]] = n
        <3>1. CASE n = m /\ t = h.slot
            BY <1>0, <1>1, <2>5, <3>1 DEF SlotInv
        <3>2. CASE ~(n = m /\ t = h.slot)
            <4>1. slotSession'[n][t] = slotSession[n][t]
                BY <1>0, <1>1, <2>5, <3>2 DEF SlotInv
            <4> QED
                BY <1>0, <2>6, <4>1 DEF OwnerInv
        <3> QED
            BY <3>1, <3>2
    <2> QED
        BY <1>0, <1>1, <2>1, <2>6 DEF OwnerInv
<1>4. ASSUME NEW n \in Mgr, NEW s \in Slot PROVE SameSlot(n, s)
    <2>1. SlotOK(n, s) /\ AtMostOne(chan, spawned, Ended(n, s))
        BY DEF SlotsInv, SlotOK
    <2>2. AtMostOne(chan', spawned', Ended(n, s)) /\ (NotEnded(n, s)' <=> NotEnded(n, s))
        BY <1>0, <2>1, EndedWithout
    <2>3. SessionsOf(n, s)' = SessionsOf(n, s)
        BY <1>0 DEF SessionsOf, UpLoop
    <2> QED
        BY <1>1, <2>1, <2>2, <2>3, SlotStays
<1>5. \A n \in Mgr : \A s \in Slot : GivenUp(n, s)' <=> GivenUp(n, s)
    BY <1>4 DEF SameSlot
<1>6. ASSUME NEW n \in Mgr PROVE CountOK(n)'
    BY <1>1, <1>5, CountsStay
<1> QED
    BY <1>3, <1>4, <1>6 DEF SlotsInv, SameSlot

\* The manager takes the message about the end of a session or an attempt.
LEMMA EndTaken ==
    ASSUME NEW m \in Mgr, NEW s \in Slot, NEW STATE e, <<m, e>> \in Ended(m, s),
           NEW out, out \subseteq Plain, Passes({<<m, e>>}, out),
           NEW n \in Mgr, NEW t \in Slot, AtMostOne(chan, spawned, Ended(n, t))
    PROVE  /\ AtMostOne(chan', spawned', Ended(n, t))
           /\ <<n, t>> = <<m, s>> => NotEnded(n, t)' /\ ~NotEnded(n, t)
           /\ <<n, t>> # <<m, s>> => (NotEnded(n, t)' <=> NotEnded(n, t))
<1>1. out \cap Ended(n, t) = {}
    BY PlainIs, EndedIs DEF Ends
<1>2. CASE <<n, t>> # <<m, s>>
    <2>1. {<<m, e>>} \cap Ended(n, t) = {}
        BY <1>2, EndedIs
    <2> QED
        BY <1>1, <1>2, <2>1, EndedStays
<1>3. CASE n = m /\ t = s
    <2> DEFINE K == Ended(n, t)
    <2>1. {<<m, e>>} \cap K # {}
        BY <1>3
    <2>2. AtMostOne(chan', spawned', K) /\ Free(chan', spawned', K) /\ ~Free(chan, spawned, K)
        BY <1>1, <2>1 DEF Passes
    <2>3. K' = K
        BY DEF Ended
    <2> QED
        BY <1>3, <2>2 DEF NotEnded
<1> QED
    BY <1>2, <1>3

\* A new attempt is started for a slot that has ended.
LEMMA SlotRestarts ==
    ASSUME CountInv, NEW m \in Mgr, NEW s \in Slot, SlotOK(m, s), ~NotEnded(m, s), NotEnded(m, s)',
           AtMostOne(chan', spawned', Ended(m, s)), ConnectStarts(m, s),
           SessionsOf(m, s)' = SessionsOf(m, s)
    PROVE  SameSlot(m, s)
<1>1. connecting[m][s] = 0 /\ SessionsOf(m, s) = {}
    BY DEF SlotOK
<1>2. connecting'[m][s] = 1
    BY <1>1 DEF ConnectStarts, CountInv
<1>3. Ended(m, s)' = Ended(m, s)
    BY DEF Ended
<1>4. AtMostOne(chan, spawned, Ended(m, s))'
    BY <1>3
<1>5. SlotOK(m, s)'
    BY <1>1, <1>2, <1>4 DEF SlotOK
<1>6. ~GivenUp(m, s) /\ ~GivenUp(m, s)'
    BY <1>2 DEF GivenUp
<1> QED
    BY <1>5, <1>6 DEF SameSlot

\* No session gets another owner.
LEMMA OwnerStays ==
    ASSUME OwnerInv, UpInv, UNCHANGED <<upMgr, slotSession>>,
           \A u \in Up : upStat'[u] = "none" => upStat[u] = "none",
           \A m \in Mgr : mgrAccount[m] # None => mgrAccount'[m] # None,
           \A m \in Mgr : m \in mgrLoop' => m \in mgrLoop \/ mgrAccount[m] = None,
           NEW ACTION in, NEW ACTION out, Passes(in, out), out \subseteq SlotMessages'
    PROVE  OwnerInv'
<1>1. \A u \in Up : upMgr[u] # None => upMgr[u] \in Mgr /\ mgrAccount[upMgr[u]] # None
    BY DEF OwnerInv, UpInv
<1>2. OwnersKept
    BY <1>1, NoMgr DEF OwnersKept
<1>3. Mail(chan, spawned, SlotMessages)'
    BY <1>2, SlotMailStays
<1>4. \A u \in Up : upMgr'[u] # None => mgrAccount'[upMgr'[u]] # None
    BY <1>1
<1> QED
    BY <1>3, <1>4 DEF OwnerInv

LEMMA PlainSuits ==
    ASSUME NEW ACTION out, out \subseteq Plain
    PROVE  out \subseteq SlotMessages'
BY PlainIs

\* upSessionBroken, and upSessionInitFailed once the manager was connected.
LEMMA RestartSlots ==
    ASSUME TypeInv, SlotsInv, NEW m \in Mgr, NEW s \in Slot, NEW STATE e, <<m, e>> \in Ended(m, s),
           NEW out, out \subseteq Plain, Passes({<<m, e>>}, out), ConnectStarts(m, s),
           UNCHANGED <<upVars, mgrLoop, mgrAccount, slotSession, initFailureCounter>>
    PROVE  SlotsInv'
<1>0. OwnerInv /\ UNCHANGED <<upStat, upMgr, upSlot>> /\ UpInv /\ CountInv
    BY DEF SlotsInv, upVars, TypeInv, MgrInv
<1>1. OwnerInv'
    BY <1>0, PlainSuits, OwnerStays
<1>2. ASSUME NEW n \in Mgr, NEW t \in Slot PROVE SameSlot(n, t)
    <2>1. SlotOK(n, t) /\ AtMostOne(chan, spawned, Ended(n, t))
        BY DEF SlotsInv, SlotOK
    <2>2. /\ AtMostOne(chan', spawned', Ended(n, t))
          /\ <<n, t>> = <<m, s>> => NotEnded(n, t)' /\ ~NotEnded(n, t)
          /\ <<n, t>> # <<m, s>> => (NotEnded(n, t)' <=> NotEnded(n, t))
        BY <2>1, EndTaken
    <2>3. SessionsOf(n, t)' = SessionsOf(n, t)
        BY <1>0 DEF SessionsOf, UpLoop
    <2>4. CASE <<n, t>> = <<m, s>>
        BY <1>0, <2>1, <2>2, <2>3, <2>4, SlotRestarts
    <2>5. CASE <<n, t>> # <<m, s>>
        <3>1. connecting'[n][t] = connecting[n][t]
            BY <1>0, <2>5 DEF ConnectStarts, CountInv
        <3> QED
            BY <2>1, <2>2, <2>3, <2>5, <3>1, SlotStays
    <2> QED
        BY <2>4, <2>5
<1>3. \A n \in Mgr : \A t \in Slot : GivenUp(n, t)' <=> GivenUp(n, t)
    BY <1>2 DEF SameSlot
<1>4. ASSUME NEW n \in Mgr PROVE CountOK(n)'
    BY <1>3, CountsStay
<1> QED
    BY <1>1, <1>2, <1>4 DEF SlotsInv, SameSlot

LEMMA BrokenSlots ==
    ASSUME TypeInv, SlotsInv, NEW m \in Mgr, MgrUpSessionBroken(m), UNCHANGED upVars
    PROVE  SlotsInv'
<1> DEFINE h == Head(chan[m])
<1>1. /\ h \in Event /\ h.type = "UpSessionBroken"
      /\ \E out : out \subseteq Plain /\ Passes({<<m, h>>}, out)
    BY MgrAsks
<1>2. h.slot \in Slot /\ h = EventUpSessionBroken(h.slot)
    BY <1>1 DEF Event, EventExit, EventPoolNotReady, EventConnBroken, EventTransferDownSessions,
                EventSendUpdateMinerNum, EventUpSessionBroken
<1>3. <<m, h>> \in Ended(m, h.slot)
    BY <1>2 DEF Ended
<1>4. /\ ConnectStarts(m, h.slot)
      /\ UNCHANGED <<mgrLoop, mgrAccount, slotSession, initFailureCounter>>
    BY DEF MgrUpSessionBroken, Reconnects
<1> HIDE DEF h
<1>5. PICK out : out \subseteq Plain /\ Passes({<<m, h>>}, out)
    BY <1>1
<1> QED
    BY <1>2, <1>3, <1>4, <1>5, RestartSlots

\* upSessionInitFailed before the manager was ever connected.
LEMMA LastSlots ==
    ASSUME TypeInv, SlotsInv, NEW m \in Mgr, m \in mgrLoop, NEW s \in Slot,
           NEW STATE e, <<m, e>> \in Ended(m, s),
           NEW out, out \subseteq Plain, Passes({<<m, e>>}, out),
           initFailureCounter' = [initFailureCounter EXCEPT ![m] = @ + 1],
           UNCHANGED <<upVars, mgrLoop, mgrAccount, slotSession, connecting>>
    PROVE  SlotsInv'
<1>0. OwnerInv /\ UNCHANGED <<upStat, upMgr, upSlot>> /\ UpInv /\ CountInv /\ LoopsInv
    BY DEF SlotsInv, upVars, TypeInv, MgrInv
<1>1. OwnerInv'
    BY <1>0, PlainSuits, OwnerStays
<1>2. ASSUME NEW n \in Mgr, NEW t \in Slot
      PROVE  /\ SlotOK(n, t) /\ AtMostOne(chan, spawned, Ended(n, t))
             /\ AtMostOne(chan', spawned', Ended(n, t))
             /\ <<n, t>> = <<m, s>> => NotEnded(n, t)' /\ ~NotEnded(n, t)
             /\ <<n, t>> # <<m, s>> => (NotEnded(n, t)' <=> NotEnded(n, t))
             /\ SessionsOf(n, t)' = SessionsOf(n, t)
    <2>1. SlotOK(n, t) /\ AtMostOne(chan, spawned, Ended(n, t))
        BY DEF SlotsInv, SlotOK
    <2>2. /\ AtMostOne(chan', spawned', Ended(n, t))
          /\ <<n, t>> = <<m, s>> => NotEnded(n, t)' /\ ~NotEnded(n, t)
          /\ <<n, t>> # <<m, s>> => (NotEnded(n, t)' <=> NotEnded(n, t))
        BY <2>1, EndTaken
    <2> QED
        BY <1>0, <2>1, <2>2 DEF SessionsOf, UpLoop
<1>3. ASSUME NEW n \in Mgr, NEW t \in Slot, <<n, t>> # <<m, s>> PROVE SameSlot(n, t)
    BY <1>2, <1>3, SlotStays
<1>4. SlotOK(m, s)' /\ ~GivenUp(m, s) /\ GivenUp(m, s)'
    <2>1. connecting[m][s] = 0 /\ SessionsOf(m, s) = {} /\ ~NotEnded(m, s) /\ NotEnded(m, s)'
        BY <1>2 DEF SlotOK
    <2>2. AtMostOne(chan, spawned, Ended(m, s))'
        BY <1>2 DEF Ended
    <2> QED
        BY <1>2, <2>1, <2>2 DEF SlotOK, GivenUp
<1>5. ASSUME NEW n \in Mgr, n # m PROVE CountOK(n)'
    <2>1. \A t \in Slot : GivenUp(n, t)' <=> GivenUp(n, t)
        BY <1>3, <1>5 DEF SameSlot
    <2>2. GivenUpSlots(n)' = GivenUpSlots(n) /\ initFailureCounter'[n] = initFailureCounter[n]
        BY <1>0, <1>5, <2>1 DEF GivenUpSlots, Slot, CountInv
    <2> QED
        BY <2>2 DEF SlotsInv, CountOK
<1>6. CountOK(m)'
    <2>1. \A t \in Slot \ {s} : GivenUp(m, t)' <=> GivenUp(m, t)
        BY <1>3 DEF SameSlot
    <2>2. GivenUpSlots(m)' = GivenUpSlots(m) \cup {s} /\ s \notin GivenUpSlots(m)
        BY <1>4, <2>1 DEF GivenUpSlots, Slot
    <2>3. IsFiniteSet(GivenUpSlots(m))
        <3>1. IsFiniteSet(Slot)
            BY FS_Interval, SlotAssumption DEF Slot
        <3>2. GivenUpSlots(m) \subseteq Slot
            BY DEF GivenUpSlots
        <3> QED
            BY <3>1, <3>2, FS_Subset
    <2>4. Cardinality(GivenUpSlots(m)') = Cardinality(GivenUpSlots(m)) + 1
        BY <2>2, <2>3, FS_AddElement
    <2>5. initFailureCounter'[m] = Cardinality(GivenUpSlots(m)')
        BY <1>0, <2>4 DEF SlotsInv, CountOK, CountInv
    <2>6. mgrAccount'[m] # None
        BY <1>0, ActorAssumption DEF LoopsInv
    <2> QED
        BY <2>5, <2>6 DEF CountOK
<1>7. \A n \in Mgr : CountOK(n)'
    BY <1>5, <1>6
<1>8. \A n \in Mgr, t \in Slot : SlotOK(n, t)'
    BY <1>3, <1>4 DEF SameSlot
<1> QED
    BY <1>1, <1>7, <1>8 DEF SlotsInv

LEMMA InitFailedSlots ==
    ASSUME TypeInv, SlotsInv, NEW m \in Mgr, MgrUpSessionInitFailed(m), UNCHANGED upVars
    PROVE  SlotsInv'
<1> DEFINE h == Head(chan[m])
<1>1. /\ h \in Event /\ h.type = "UpSessionInitFailed" /\ m \in mgrLoop
      /\ \E out : out \subseteq Plain /\ Passes({<<m, h>>}, out)
    BY MgrAsks
<1>2. h.slot \in Slot /\ h = EventUpSessionInitFailed(h.slot)
    BY <1>1 DEF Event, EventExit, EventPoolNotReady, EventConnBroken, EventTransferDownSessions,
                EventSendUpdateMinerNum, EventUpSessionInitFailed
<1>3. <<m, h>> \in Ended(m, h.slot)
    BY <1>2 DEF Ended
<1>4. /\ \/ ConnectStarts(m, h.slot) /\ UNCHANGED initFailureCounter
         \/ /\ initFailureCounter' = [initFailureCounter EXCEPT ![m] = @ + 1]
            /\ UNCHANGED connecting
      /\ UNCHANGED <<mgrLoop, mgrAccount, slotSession>>
    BY DEF MgrUpSessionInitFailed, slotVars
<1> HIDE DEF h
<1>5. PICK out : out \subseteq Plain /\ Passes({<<m, h>>}, out)
    BY <1>1
<1> QED
    BY <1>1, <1>2, <1>3, <1>4, <1>5, RestartSlots, LastSlots

\* The manager exits: it tells the sessions of its ready slots, which are its
\* own, and the books are closed.
LEMMA ExitSlots ==
    ASSUME TypeInv, SlotsInv, NEW m \in Mgr, MgrExit(m), UNCHANGED upVars
    PROVE  SlotsInv'
<1> DEFINE out == {<<p, EventExit>> : p \in ExitReceivers(m)}
<1>0. OwnerInv /\ UNCHANGED <<upStat, upMgr, upSlot>> /\ UpInv
    BY DEF SlotsInv, upVars, TypeInv
<1>1. /\ mgrLoop' = mgrLoop \ {m}
      /\ UNCHANGED <<mgrAccount, slotSession, initFailureCounter, connecting>>
    BY DEF MgrExit, slotVars, connVars
<1>2. Passes({<<m, EventExit>>}, out) /\ ExitReceivers(m) \subseteq PoolSession
    BY MgrExitMail
<1>3. ASSUME NEW p \in ExitReceivers(m)
      PROVE  <<p, EventExit>> \in SlotMessages' /\ <<p, EventExit>> \notin EndEvents
    <2>1. p \in Actor /\ EventExit \in Event /\ EventExit.type = "Exit"
        BY <1>2, Actors, PlainEvents
    <2>2. p \in Up => upMgr'[p] = m
        <3>1. ASSUME p \in Up PROVE \E s \in Slot : p = slotSession[m][s]
            BY <3>1, NoMgr DEF ExitReceivers, ReadySlots
        <3>2. p # None
            BY <2>1, ActorAssumption
        <3> QED
            BY <1>0, <3>1, <3>2 DEF OwnerInv
    <2> QED
        BY <1>1, <2>1, <2>2 DEF SlotMessages, EndEvents
<1>4. out \subseteq SlotMessages' /\ out \cap EndEvents = {}
    BY <1>3
<1> HIDE DEF out
<1>5. OwnerInv'
    BY <1>0, <1>1, <1>2, <1>4, OwnerStays
<1>6. {<<m, EventExit>>} \cap EndEvents = {}
    BY PlainEvents DEF EndEvents
<1>7. Without(EndEvents)
    BY <1>2, <1>4, <1>6 DEF Without
<1>8. ASSUME NEW n \in Mgr, NEW s \in Slot PROVE SameSlot(n, s)
    <2>1. SlotOK(n, s) /\ AtMostOne(chan, spawned, Ended(n, s))
        BY DEF SlotsInv, SlotOK
    <2>2. AtMostOne(chan', spawned', Ended(n, s)) /\ (NotEnded(n, s)' <=> NotEnded(n, s))
        BY <1>7, <2>1, EndedWithout
    <2>3. SessionsOf(n, s)' = SessionsOf(n, s)
        BY <1>0 DEF SessionsOf, UpLoop
    <2> QED
        BY <1>1, <2>1, <2>2, <2>3, SlotStays
<1>9. \A n \in Mgr : \A s \in Slot : GivenUp(n, s)' <=> GivenUp(n, s)
    BY <1>8 DEF SameSlot
<1>10. ASSUME NEW n \in Mgr PROVE CountOK(n)'
    BY <1>1, <1>9, CountsStay
<1> QED
    BY <1>5, <1>8, <1>10 DEF SlotsInv, SameSlot

\* Who connects exists.
LEMMA ConnectingIs ==
    ASSUME SlotsInv, NEW m \in Mgr, NEW s \in Slot, connecting[m][s] > 0
    PROVE  /\ mgrAccount[m] # None
           /\ connecting[m][s] = 1 /\ SessionsOf(m, s) = {} /\ NotEnded(m, s)
<1>1. CountOK(m) /\ SlotOK(m, s)
    BY DEF SlotsInv
<1>2. connecting[m][s] = 1 /\ SessionsOf(m, s) = {} /\ NotEnded(m, s)
    BY <1>1 DEF SlotOK
<1>3. s \notin GivenUpSlots(m)
    BY <1>2 DEF GivenUpSlots, GivenUp
<1> QED
    BY <1>1, <1>2, <1>3 DEF CountOK

LEMMA ConnectedSlots ==
    ASSUME TypeInv, SlotsInv, NEW m \in Mgr, NEW s \in Slot, NEW u \in Up, ConnectSucceeds(m, s, u)
    PROVE  SlotsInv'
<1> DEFINE x == <<m, EventUpSessionReady(s, u)>>
<1>0. /\ OwnerInv /\ UpInv /\ CountInv /\ ConnectEnds(m, s) /\ upStat[u] = "none"
      /\ upStat' = [upStat EXCEPT ![u] = "authorized"]
      /\ upMgr' = [upMgr EXCEPT ![u] = m]
      /\ upSlot' = [upSlot EXCEPT ![u] = s]
      /\ connecting[m][s] > 0
      /\ UNCHANGED <<mgrLoop, mgrAccount, slotSession, initFailureCounter>>
    BY DEF ConnectSucceeds, SlotsInv, TypeInv, MgrInv, slotVars
<1>1. mgrAccount[m] # None /\ connecting[m][s] = 1 /\ SessionsOf(m, s) = {} /\ NotEnded(m, s)
    BY <1>0, ConnectingIs
<1>2. upMgr[u] = None /\ upMgr'[u] = m
    BY <1>0 DEF OwnerInv, UpInv
<1>3. Passes({}, {x}) /\ x \in Messages
    BY ConnectMail
<1>4. x[1] = m /\ x[2].type = "UpSessionReady" /\ x[2].session = u /\ x \in Actor \X Event
    BY <1>3 DEF EventUpSessionReady, Messages
<1>5. x \in SlotMessages' /\ x \notin EndEvents
    BY <1>2, <1>4 DEF SlotMessages, EndEvents
<1> HIDE DEF x
<1>6. OwnerInv'
    <2>1. OwnersKept
        BY <1>0, <1>2 DEF OwnersKept, UpInv
    <2>2. {x} \subseteq SlotMessages'
        BY <1>5
    <2>3. Mail(chan, spawned, SlotMessages)'
        BY <1>0, <1>3, <2>1, <2>2, SlotMailStays
    <2>4. \A v \in Up : upStat'[v] = "none" => upMgr'[v] = None
        BY <1>0 DEF OwnerInv, UpInv
    <2>5. \A v \in Up : upMgr'[v] # None => mgrAccount'[upMgr'[v]] # None
        BY <1>0, <1>1 DEF OwnerInv, UpInv
    <2>6. \A n \in Mgr, t \in Slot : slotSession'[n][t] # None => upMgr'[slotSession'[n][t]] = n
        <3> SUFFICES ASSUME NEW n \in Mgr, NEW t \in Slot, slotSession[n][t] # None
                     PROVE  upMgr'[slotSession[n][t]] = n
            BY <1>0
        <3>1. upMgr[slotSession[n][t]] = n /\ slotSession[n][t] \in Up
            BY <1>0 DEF OwnerInv, TypeInv, MgrInv, SlotInv
        <3>2. slotSession[n][t] # u
            BY <1>2, <3>1, NoMgr, ActorAssumption DEF Actor
        <3> QED
            BY <1>0, <3>1, <3>2 DEF UpInv
    <2> QED
        BY <2>3, <2>4, <2>5, <2>6 DEF OwnerInv
<1>7. Without(EndEvents)
    <2>1. {} \cap EndEvents = {} /\ {x} \cap EndEvents = {} /\ {x} \subseteq SlotMessages'
        BY <1>5
    <2> QED
        BY <1>3, <2>1 DEF Without
<1>8. ASSUME NEW n \in Mgr, NEW t \in Slot PROVE SameSlot(n, t)
    <2>1. SlotOK(n, t) /\ AtMostOne(chan, spawned, Ended(n, t))
        BY DEF SlotsInv, SlotOK
    <2>2. AtMostOne(chan', spawned', Ended(n, t)) /\ (NotEnded(n, t)' <=> NotEnded(n, t))
        BY <1>7, <2>1, EndedWithout
    <2>3. \A v \in Up : v \in SessionsOf(n, t)' <=> v \in SessionsOf(n, t) \/ (v = u /\ n = m /\ t = s)
        BY <1>0 DEF SessionsOf, UpLoop, UpInv
    <2>4. CASE n = m /\ t = s
        <3>1. SessionsOf(n, t)' = {u}
            BY <1>1, <2>3, <2>4 DEF SessionsOf
        <3>2. connecting'[n][t] = 0
            BY <1>0, <1>1, <2>4 DEF ConnectEnds, CountInv
        <3>3. AtMostOne(chan, spawned, Ended(n, t))'
            BY <2>2 DEF Ended
        <3>4. SlotOK(n, t)'
            BY <1>1, <2>2, <2>4, <3>1, <3>2, <3>3 DEF SlotOK
        <3>5. ~GivenUp(n, t) /\ ~GivenUp(n, t)'
            BY <1>1, <2>4, <3>1 DEF GivenUp
        <3> QED
            BY <3>4, <3>5 DEF SameSlot
    <2>5. CASE ~(n = m /\ t = s)
        <3>1. connecting'[n][t] = connecting[n][t]
            BY <1>0, <2>5 DEF ConnectEnds, CountInv
        <3>2. SessionsOf(n, t)' = SessionsOf(n, t)
            BY <2>3, <2>5 DEF SessionsOf
        <3> QED
            BY <2>1, <2>2, <3>1, <3>2, SlotStays
    <2> QED
        BY <2>4, <2>5
<1>9. \A n \in Mgr : \A t \in Slot : GivenUp(n, t)' <=> GivenUp(n, t)
    BY <1>8 DEF SameSlot
<1>10. ASSUME NEW n \in Mgr PROVE CountOK(n)'
    BY <1>0, <1>9, CountsStay
<1> QED
    BY <1>6, <1>8, <1>10 DEF SlotsInv, SameSlot

\* A session or an attempt ends, and one message says so.
LEMMA EndSent ==
    ASSUME NEW m \in Mgr, NEW s \in Slot, NEW STATE e, <<m, e>> \in Ended(m, s), NotEnded(m, s),
           NEW rest, rest \subseteq Plain, NEW ACTION in, in \cap EndEvents = {},
           Passes(in, {<<m, e>>} \cup rest),
           NEW n \in Mgr, NEW t \in Slot, AtMostOne(chan, spawned, Ended(n, t))
    PROVE  /\ AtMostOne(chan', spawned', Ended(n, t))
           /\ <<n, t>> = <<m, s>> => ~NotEnded(n, t)'
           /\ <<n, t>> # <<m, s>> => (NotEnded(n, t)' <=> NotEnded(n, t))
<1>1. rest \cap Ended(n, t) = {} /\ in \cap Ended(n, t) = {}
    BY PlainIs, EndedIs DEF Ends
<1>2. CASE <<n, t>> # <<m, s>>
    <2>1. ({<<m, e>>} \cup rest) \cap Ended(n, t) = {}
        BY <1>1, <1>2, EndedIs
    <2> QED
        BY <1>1, <1>2, <2>1, EndedStays
<1>3. CASE n = m /\ t = s
    <2> DEFINE K == Ended(n, t)
               x == <<m, e>>
    <2>1. ({x} \cup rest) \cap K = {x} /\ Free(chan, spawned, K)
        BY <1>1, <1>3 DEF NotEnded
    <2>2. AtMostOne(chan', spawned', K) /\ ~Free(chan', spawned', K)
        BY <2>1 DEF Passes
    <2>3. K' = K
        BY DEF Ended
    <2> QED
        BY <1>3, <2>2 DEF NotEnded
<1> QED
    BY <1>2, <1>3

\* What was kept by an attempt or a session is now kept by the message.
LEMMA EndingSlots ==
    ASSUME TypeInv, SlotsInv, NEW m \in Mgr, NEW s \in Slot,
           NEW STATE e, <<m, e>> \in Ended(m, s), NotEnded(m, s),
           NEW rest, rest \subseteq Plain, NEW ACTION in, in \cap EndEvents = {},
           Passes(in, {<<m, e>>} \cup rest),
           connecting'[m][s] = 0, SessionsOf(m, s)' = {}, ~GivenUp(m, s),
           \A n \in Mgr, t \in Slot : <<n, t>> # <<m, s>> =>
              connecting'[n][t] = connecting[n][t] /\ SessionsOf(n, t)' = SessionsOf(n, t),
           \A u \in Up : upStat'[u] = "none" => upStat[u] = "none",
           UNCHANGED <<upMgr, mgrLoop, mgrAccount, slotSession, initFailureCounter>>
    PROVE  SlotsInv'
<1>0. OwnerInv /\ UpInv
    BY DEF SlotsInv, TypeInv
<1>1. OwnerInv'
    <2>1. <<m, e>> \in SlotMessages'
        BY SlotEvents, Actors, NoMgr DEF Ended, SlotMessages
    <2>2. {<<m, e>>} \cup rest \subseteq SlotMessages'
        BY <2>1, PlainSuits
    <2> DEFINE out == {<<m, e>>} \cup rest
    <2>3. Passes(in, out) /\ out \subseteq SlotMessages'
        BY <2>2
    <2> HIDE DEF out
    <2> QED
        BY <1>0, <2>3, OwnerStays
<1>2. ASSUME NEW n \in Mgr, NEW t \in Slot PROVE SameSlot(n, t)
    <2>1. SlotOK(n, t) /\ AtMostOne(chan, spawned, Ended(n, t))
        BY DEF SlotsInv, SlotOK
    <2>2. /\ AtMostOne(chan', spawned', Ended(n, t))
          /\ <<n, t>> = <<m, s>> => ~NotEnded(n, t)'
          /\ <<n, t>> # <<m, s>> => (NotEnded(n, t)' <=> NotEnded(n, t))
        BY <2>1, EndSent
    <2>3. CASE <<n, t>> = <<m, s>>
        <3>1. connecting'[n][t] = 0 /\ SessionsOf(n, t)' = {} /\ ~NotEnded(n, t)'
            BY <2>2, <2>3
        <3>2. AtMostOne(chan, spawned, Ended(n, t))'
            BY <2>2 DEF Ended
        <3>3. SlotOK(n, t)'
            BY <3>1, <3>2 DEF SlotOK
        <3>4. ~GivenUp(n, t) /\ ~GivenUp(n, t)'
            BY <2>3, <3>1 DEF GivenUp
        <3> QED
            BY <3>3, <3>4 DEF SameSlot
    <2>4. CASE <<n, t>> # <<m, s>>
        <3>1. connecting'[n][t] = connecting[n][t] /\ SessionsOf(n, t)' = SessionsOf(n, t)
            BY <2>4
        <3> QED
            BY <2>1, <2>2, <2>4, <3>1, SlotStays
    <2> QED
        BY <2>3, <2>4
<1>3. \A n \in Mgr : \A t \in Slot : GivenUp(n, t)' <=> GivenUp(n, t)
    BY <1>2 DEF SameSlot
<1>4. ASSUME NEW n \in Mgr PROVE CountOK(n)'
    BY <1>3, CountsStay
<1> QED
    BY <1>1, <1>2, <1>4 DEF SlotsInv, SameSlot

LEMMA FailedSlots ==
    ASSUME TypeInv, SlotsInv, NEW m \in Mgr, NEW s \in Slot, ConnectFails(m, s)
    PROVE  SlotsInv'
<1> DEFINE e == EventUpSessionInitFailed(s)
           rest == {}
<1>0. /\ CountInv /\ ConnectEnds(m, s) /\ connecting[m][s] > 0
      /\ UNCHANGED <<upStat, upMgr, upSlot>>
      /\ UNCHANGED <<mgrLoop, mgrAccount, slotSession, initFailureCounter>>
    BY DEF ConnectFails, TypeInv, MgrInv, slotVars, upVars
<1>1. connecting[m][s] = 1 /\ SessionsOf(m, s) = {} /\ NotEnded(m, s)
    BY <1>0, ConnectingIs
<1>2. Passes({}, {<<m, e>>}) /\ <<m, e>> \in Ended(m, s)
    BY ConnectMail DEF Ended
<1>3. connecting'[m][s] = 0 /\ \A n \in Mgr, t \in Slot :
         <<n, t>> # <<m, s>> => connecting'[n][t] = connecting[n][t]
    BY <1>0, <1>1 DEF ConnectEnds, CountInv
<1>4. \A n \in Mgr, t \in Slot : SessionsOf(n, t)' = SessionsOf(n, t)
    BY <1>0 DEF SessionsOf, UpLoop
<1>5. ~GivenUp(m, s)
    BY <1>1 DEF GivenUp
<1> HIDE DEF e
<1>6. {<<m, e>>} = {<<m, e>>} \cup rest /\ rest \subseteq Plain
    OBVIOUS
<1>7. Passes({}, {<<m, e>>} \cup rest)
    BY <1>2, <1>6
<1>8. ASSUME NEW in, in = {} PROVE in \cap EndEvents = {}
    BY <1>8
<1> HIDE DEF rest
<1>9. /\ \A n \in Mgr, t \in Slot : <<n, t>> # <<m, s>> =>
            connecting'[n][t] = connecting[n][t] /\ SessionsOf(n, t)' = SessionsOf(n, t)
      /\ \A u \in Up : upStat'[u] = "none" => upStat[u] = "none"
      /\ SessionsOf(m, s)' = {}
    BY <1>0, <1>1, <1>3, <1>4
<1>10. ASSUME NEW in, in \cap EndEvents = {}, Passes(in, {<<m, e>>} \cup rest)
       PROVE  SlotsInv'
    BY <1>0, <1>1, <1>2, <1>3, <1>5, <1>6, <1>9, <1>10, EndingSlots
<1> QED
    BY <1>7, <1>8, <1>10

\* A pool session closes: its slot is its manager's.
LEMMA ClosedSessions ==
    ASSUME UpInv, NEW u \in Up, UpLoop(u), UpCloses(u)
    PROVE  /\ UNCHANGED <<upMgr, upSlot>> /\ upMgr[u] \in Mgr /\ upSlot[u] \in Slot
           /\ u \in SessionsOf(upMgr[u], upSlot[u])
           /\ \A n \in Mgr, t \in Slot : SessionsOf(n, t)' = SessionsOf(n, t) \ {u}
           /\ \A n \in Mgr, t \in Slot :
                 <<n, t>> # <<upMgr[u], upSlot[u]>> => u \notin SessionsOf(n, t)
           /\ \A v \in Up : upStat'[v] = "none" => upStat[v] = "none"
<1>1. UNCHANGED <<upMgr, upSlot>> /\ upMgr[u] \in Mgr /\ upSlot[u] \in Slot
    BY DEF UpCloses, UpInv
<1>2. \A v \in Up : UpLoop(v)' <=> UpLoop(v) /\ v # u
    BY DEF UpCloses, UpInv, UpLoop
<1>3. \A v \in Up : upStat'[v] = "none" => upStat[v] = "none"
    BY DEF UpCloses, UpInv
<1> QED
    BY <1>1, <1>2, <1>3 DEF SessionsOf

LEMMA UpEndsSlots ==
    ASSUME TypeInv, SlotsInv, NEW u \in Up, UpEnds(u),
           UNCHANGED <<mgrLoop, mgrAccount, slotSession, initFailureCounter, connecting>>
    PROVE  SlotsInv'
<1> DEFINE m == upMgr[u]
           s == upSlot[u]
           e == EventUpSessionBroken(s)
<1>0. UpInv /\ UpLoop(u) /\ UpCloses(u) /\ CountInv
    BY DEF TypeInv, UpEnds, MgrInv
<1>1. /\ UNCHANGED <<upMgr, upSlot>> /\ m \in Mgr /\ s \in Slot
      /\ u \in SessionsOf(m, s)
      /\ \A n \in Mgr, t \in Slot : SessionsOf(n, t)' = SessionsOf(n, t) \ {u}
      /\ \A n \in Mgr, t \in Slot : <<n, t>> # <<m, s>> => u \notin SessionsOf(n, t)
      /\ \A v \in Up : upStat'[v] = "none" => upStat[v] = "none"
    BY <1>0, ClosedSessions
<1>2. PICK rest : /\ rest \subseteq Plain
                  /\ Passes({<<u, Head(chan[u])>>}, {<<m, e>>} \cup rest)
    BY DEF UpEnds
<1>3. <<m, e>> \in Ended(m, s) /\ {<<u, Head(chan[u])>>} \cap EndEvents = {}
    BY NoMgr DEF Ended, EndEvents
<1>4. m \in Mgr /\ s \in Slot
    BY <1>1
<1> HIDE DEF m, s, e
<1>5. PICK n \in Mgr : n = m
    BY <1>4
<1>6. PICK t \in Slot : t = s
    BY <1>4
<1>7. SlotOK(n, t)
    BY DEF SlotsInv
<1>8. SessionsOf(n, t) = {u} /\ connecting[n][t] = 0 /\ NotEnded(n, t)
    BY <1>1, <1>5, <1>6, <1>7 DEF SlotOK
<1>9. connecting'[n][t] = 0 /\ SessionsOf(n, t)' = {} /\ ~GivenUp(n, t)
    BY <1>1, <1>8 DEF GivenUp
<1>10. \A n2 \in Mgr, t2 \in Slot : <<n2, t2>> # <<n, t>> =>
          connecting'[n2][t2] = connecting[n2][t2] /\ SessionsOf(n2, t2)' = SessionsOf(n2, t2)
    <2>1. connecting' = connecting
        OBVIOUS
    <2>2. ASSUME NEW n2 \in Mgr, NEW t2 \in Slot, <<n2, t2>> # <<n, t>>
          PROVE  SessionsOf(n2, t2)' = SessionsOf(n2, t2)
        <3>1. <<n2, t2>> # <<m, s>>
            BY <1>5, <1>6, <2>2
        <3>2. u \notin SessionsOf(n2, t2) /\ SessionsOf(n2, t2)' = SessionsOf(n2, t2) \ {u}
            BY <1>1, <3>1
        <3> QED
            BY <3>2
    <2> QED
        BY <2>1, <2>2
<1>11. <<n, e>> \in Ended(n, t) /\ Passes({<<u, Head(chan[u])>>}, {<<n, e>>} \cup rest)
    BY <1>2, <1>3, <1>5, <1>6
<1>12. UNCHANGED upMgr /\ \A v \in Up : upStat'[v] = "none" => upStat[v] = "none"
    BY <1>1
<1> QED
    BY <1>2, <1>3, <1>8, <1>9, <1>10, <1>11, <1>12, EndingSlots

\* A pool session that was told to exit: its manager has exited.
LEMMA UpExitSlots ==
    ASSUME TypeInv, SlotsInv, NEW u \in Up, UpExit(u), Without(EndEvents), Head(chan[u]) = EventExit,
           UNCHANGED <<mgrLoop, mgrAccount, slotSession, initFailureCounter, connecting>>
    PROVE  SlotsInv'
<1>0. /\ UpInv /\ UpLoop(u) /\ UpCloses(u) /\ OwnerInv /\ CountInv /\ IsChan(chan) /\ u \in Actor
      /\ chan[u] # <<>>
    BY Actors DEF TypeInv, UpExit, SlotsInv, MgrInv, MailInv, Mail, Receives
<1>1. /\ UNCHANGED <<upMgr, upSlot>> /\ upMgr[u] \in Mgr /\ upSlot[u] \in Slot
      /\ \A n \in Mgr, t \in Slot : SessionsOf(n, t)' = SessionsOf(n, t) \ {u}
      /\ \A n \in Mgr, t \in Slot : <<n, t>> # <<upMgr[u], upSlot[u]>> => u \notin SessionsOf(n, t)
      /\ \A v \in Up : upStat'[v] = "none" => upStat[v] = "none"
    BY <1>0, ClosedSessions
<1>2. upMgr[u] \notin mgrLoop /\ mgrAccount[upMgr[u]] # None
    <2>1. 1 \in DOMAIN chan[u] /\ chan[u][1] = EventExit
        BY <1>0, TakenChannel
    <2>2. <<u, EventExit>> \in SlotMessages
        BY <1>0, <2>1 DEF OwnerInv, Mail
    <2>3. upMgr[u] \notin mgrLoop
        BY <2>2, PlainEvents DEF SlotMessages
    <2> QED
        BY <1>0, <1>1, <2>3, NoMgr DEF OwnerInv
<1>3. OwnerInv'
    <2>1. PICK in, out : Passes(in, out) /\ out \subseteq SlotMessages'
        BY DEF Without
    <2> QED
        BY <1>0, <1>1, <2>1, OwnerStays
<1>4. ASSUME NEW n \in Mgr, NEW t \in Slot
      PROVE  SlotOK(n, t)' /\ (n # upMgr[u] => SameSlot(n, t))
    <2>1. SlotOK(n, t) /\ AtMostOne(chan, spawned, Ended(n, t))
        BY DEF SlotsInv, SlotOK
    <2>2. AtMostOne(chan', spawned', Ended(n, t)) /\ (NotEnded(n, t)' <=> NotEnded(n, t))
        BY <2>1, EndedWithout
    <2>3. AtMostOne(chan, spawned, Ended(n, t))'
        BY <2>2 DEF Ended
    <2>4. SessionsOf(n, t)' \subseteq SessionsOf(n, t)
        BY <1>1
    <2>5. SlotOK(n, t)'
        <3>1. (\A v, w \in SessionsOf(n, t) : v = w) => (\A v, w \in SessionsOf(n, t)' : v = w)
            BY <2>4
        <3>2. SessionsOf(n, t) = {} => SessionsOf(n, t)' = {}
            BY <2>4
        <3> QED
            BY <2>1, <2>2, <2>3, <3>1, <3>2 DEF SlotOK
    <2>6. ASSUME n # upMgr[u] PROVE SameSlot(n, t)
        <3>1. u \notin SessionsOf(n, t) /\ SessionsOf(n, t)' = SessionsOf(n, t) \ {u}
            <4>1. <<n, t>> # <<upMgr[u], upSlot[u]>>
                BY <2>6
            <4> QED
                BY <1>1, <4>1
        <3>2. SessionsOf(n, t)' = SessionsOf(n, t)
            BY <3>1
        <3> QED
            BY <2>1, <2>2, <3>2, SlotStays
    <2> QED
        BY <2>5, <2>6
<1>5. ASSUME NEW n \in Mgr PROVE CountOK(n)'
    <2>1. CASE n = upMgr[u]
        BY <1>2, <2>1 DEF CountOK
    <2>2. CASE n # upMgr[u]
        <3>1. \A t \in Slot : GivenUp(n, t)' <=> GivenUp(n, t)
            BY <1>4, <2>2 DEF SameSlot
        <3> QED
            BY <3>1, CountsStay
    <2> QED
        BY <2>1, <2>2
<1> QED
    BY <1>3, <1>4, <1>5 DEF SlotsInv

\* A manager starts: it connects all of its slots, of which nothing was left.
LEMMA StartSlots ==
    ASSUME TypeInv, SlotsInv, NEW m \in Mgr, NEW a \in Account, CreateUpSessionManager(m, a),
           StartsQuietly, Without(EndEvents)
    PROVE  SlotsInv'
<1>0. /\ OwnerInv /\ UpInv /\ CountInv /\ LoopsInv /\ UNCHANGED <<upStat, upMgr, upSlot>>
      /\ UNCHANGED <<slotSession, initFailureCounter>>
    BY DEF SlotsInv, TypeInv, MgrInv, StartsQuietly, upVars, slotVars
<1>1. /\ mgrAccount[m] = None
      /\ mgrAccount' = [mgrAccount EXCEPT ![m] = a]
      /\ mgrLoop' = mgrLoop \cup {m}
      /\ connecting' = [connecting EXCEPT ![m] = [s \in Slot |-> 1]]
    BY DEF CreateUpSessionManager, MgrStarts
<1>2. mgrAccount'[m] = a /\ a # None
    BY <1>0, <1>1, ActorAssumption DEF LoopsInv
<1>3. \A n \in Mgr \ {m} : mgrAccount'[n] = mgrAccount[n] /\ connecting'[n] = connecting[n]
    BY <1>0, <1>1 DEF LoopsInv, CountInv
<1>4. \A s \in Slot : connecting'[m][s] = 1
    BY <1>0, <1>1 DEF CountInv
<1>5. initFailureCounter[m] = 0 /\ \A s \in Slot : GivenUp(m, s)
    <2>1. initFailureCounter[m] = 0 /\ GivenUpSlots(m) = Slot
        BY <1>1 DEF SlotsInv, CountOK
    <2> QED
        BY <2>1 DEF GivenUpSlots
<1>6. OwnerInv'
    <2>1. PICK in, out : Passes(in, out) /\ out \subseteq SlotMessages'
        BY DEF Without
    <2>2. \A n \in Mgr : mgrAccount[n] # None => mgrAccount'[n] # None
        BY <1>2, <1>3
    <2>3. \A n \in Mgr : n \in mgrLoop' => n \in mgrLoop \/ mgrAccount[n] = None
        BY <1>1
    <2> QED
        BY <1>0, <2>1, <2>2, <2>3, OwnerStays
<1>7. ASSUME NEW n \in Mgr, NEW s \in Slot
      PROVE  SlotOK(n, s)' /\ (n = m => ~GivenUp(n, s)') /\ (n # m => SameSlot(n, s))
    <2>1. SlotOK(n, s) /\ AtMostOne(chan, spawned, Ended(n, s))
        BY DEF SlotsInv, SlotOK
    <2>2. AtMostOne(chan', spawned', Ended(n, s)) /\ (NotEnded(n, s)' <=> NotEnded(n, s))
        BY <2>1, EndedWithout
    <2>3. SessionsOf(n, s)' = SessionsOf(n, s)
        BY <1>0 DEF SessionsOf, UpLoop
    <2>4. CASE n = m
        <3>1. connecting'[n][s] = 1 /\ SessionsOf(n, s)' = {} /\ NotEnded(n, s)'
            BY <1>4, <1>5, <2>2, <2>3, <2>4 DEF GivenUp
        <3>2. AtMostOne(chan, spawned, Ended(n, s))'
            BY <2>2 DEF Ended
        <3> QED
            BY <2>4, <3>1, <3>2 DEF SlotOK, GivenUp
    <2>5. CASE n # m
        <3>1. SameSlot(n, s)
            BY <1>3, <2>1, <2>2, <2>3, <2>5, SlotStays
        <3> QED
            BY <2>5, <3>1 DEF SameSlot
    <2> QED
        BY <2>4, <2>5
<1>8. CountOK(m)'
    <2>1. GivenUpSlots(m)' = {}
        BY <1>7 DEF GivenUpSlots, Slot
    <2>2. Cardinality(GivenUpSlots(m)') = 0
        BY <2>1, FS_EmptySet
    <2>3. initFailureCounter'[m] = 0
        BY <1>0, <1>5
    <2> QED
        BY <1>2, <2>2, <2>3 DEF CountOK
<1>9. ASSUME NEW n \in Mgr, n # m PROVE CountOK(n)'
    <2>1. \A s \in Slot : GivenUp(n, s)' <=> GivenUp(n, s)
        BY <1>7, <1>9 DEF SameSlot
    <2>2. GivenUpSlots(n)' = GivenUpSlots(n) /\ CountOK(n)
        BY <2>1 DEF GivenUpSlots, Slot, SlotsInv
    <2>3. /\ mgrAccount'[n] = mgrAccount[n] /\ initFailureCounter'[n] = initFailureCounter[n]
          /\ n \in mgrLoop' <=> n \in mgrLoop
        BY <1>0, <1>1, <1>3, <1>9
    <2> QED
        BY <2>2, <2>3 DEF CountOK
<1> QED
    BY <1>6, <1>7, <1>8, <1>9 DEF SlotsInv

\* What SessionManager and the operator do to the slots.
LEMMA SMSlots ==
    ASSUME TypeInv, SlotsInv, SMRuns \/ OperatorActs
    PROVE  SlotsInv'
<1>1. Without(EndEvents)
    BY SMWithout
<1>2. CASE UNCHANGED <<mgrVars, upVars>>
    <2>1. UNCHANGED <<upVars, mgrLoop, mgrAccount, slotSession, initFailureCounter, connecting>>
        BY <1>2 DEF mgrVars, slotVars, connVars
    <2> QED
        BY <1>1, <2>1, StillSlots
<1>3. CASE \E m \in Mgr, a \in Account : CreateUpSessionManager(m, a) /\ StartsQuietly
    BY <1>1, <1>3, StartSlots
<1>4. CASE SMStarts
    BY <1>2, <1>3, <1>4 DEF SMStarts
<1>5. CASE SMAddDownSession(subAccount)
    <2>1. subAccount[Head(chan[SM]).session] \in Account
        BY <1>5, SMAddMail DEF Known
    <2> QED
        BY <1>2, <1>3, <1>5, <2>1 DEF SMAddDownSession
<1>6. CASE SMStopUpSessionManager \/ SMExit \/ SMStop
    BY <1>2, <1>6 DEF SMStopUpSessionManager, SMExit, SMStop
<1> QED
    BY <1>4, <1>5, <1>6 DEF SMRuns, OperatorActs, SMHandles

LEMMA MgrSlots ==
    ASSUME TypeInv, SlotsInv, NEW m \in Mgr, MgrRuns(m)
    PROVE  SlotsInv'
<1>0. UNCHANGED upVars /\ EndEvents \subseteq Ends
    BY DEF MgrRuns, MgrHandles, Ends
<1>1. CASE MgrAddDownSession(m) \/ MgrUpdateMinerNum(m) \/ MgrUpdateFakeMinerNum(m)
    <2>1. Without(EndEvents)
        BY <1>0, <1>1, MgrWithout, WithoutLess
    <2>2. UNCHANGED <<mgrLoop, mgrAccount, slotSession, initFailureCounter, connecting>>
        BY <1>1 DEF MgrAddDownSession, MgrUpdateMinerNum, MgrUpdateFakeMinerNum, slotVars, connVars
    <2> QED
        BY <1>0, <2>1, <2>2, StillSlots
<1>2. CASE MgrUpSessionReady(m)
    BY <1>0, <1>2, ReadySlotsStay
<1>3. CASE MgrUpSessionInitFailed(m)
    BY <1>0, <1>3, InitFailedSlots
<1>4. CASE MgrUpSessionBroken(m)
    BY <1>0, <1>4, BrokenSlots
<1>5. CASE MgrExit(m)
    BY <1>0, <1>5, ExitSlots
<1> QED
    BY <1>1, <1>2, <1>3, <1>4, <1>5 DEF MgrRuns, MgrHandles

LEMMA UpSlots ==
    ASSUME TypeInv, SlotsInv, NEW u \in Up, UpRuns(u)
    PROVE  SlotsInv'
<1>0. EndEvents \subseteq Ends /\ UpHandles(u, sessionID)
    BY DEF UpRuns, Ends
<1>1. UNCHANGED <<mgrLoop, mgrAccount, slotSession, initFailureCounter, connecting>>
    BY DEF UpRuns, mgrVars, slotVars, connVars
<1>2. CASE Without(Ends) /\ UNCHANGED upVars
    BY <1>0, <1>1, <1>2, WithoutLess, StillSlots
<1>3. CASE Without(Ends) /\ UpExit(u) /\ Head(chan[u]) = EventExit
    BY <1>0, <1>1, <1>3, WithoutLess, UpExitSlots
<1>4. CASE UpEnds(u)
    BY <1>1, <1>4, UpEndsSlots
<1> QED
    BY <1>0, <1>2, <1>3, <1>4, UpSteps

LEMMA NextSlotsInv == TypeInv /\ SlotsInv /\ [Next]_vars => SlotsInv'
<1> SUFFICES ASSUME TypeInv, SlotsInv, [Next]_vars PROVE SlotsInv'
    OBVIOUS
<1>0. EndEvents \subseteq Ends
    BY DEF Ends
<1>1. ASSUME Without(Ends), UNCHANGED <<mgrVars, upVars>> PROVE SlotsInv'
    <2>1. Without(EndEvents)
        BY <1>0, <1>1, WithoutLess
    <2>2. UNCHANGED <<upVars, mgrLoop, mgrAccount, slotSession, initFailureCounter, connecting>>
        BY <1>1 DEF mgrVars, slotVars, connVars
    <2> QED
        BY <2>1, <2>2, StillSlots
<1>2. ASSUME NEW d \in Miner, MinerActs(d) \/ DownRuns(d) PROVE SlotsInv'
    <2>1. (MinerStep(d) \/ DownHandles(d)) /\ UNCHANGED <<mgrVars, upVars>>
        BY <1>2 DEF MinerActs, DownRuns, poolVars
    <2>2. Without(Ends)
        BY <2>1, DownWithout
    <2> QED
        BY <1>1, <2>1, <2>2
<1>3. ASSUME NEW u \in Up, PoolActs(u) PROVE SlotsInv'
    <2>1. PoolBreaks(u) /\ UNCHANGED mgrVars
        BY <1>3 DEF PoolActs
    <2>2. UNCHANGED upVars
        BY <2>1 DEF PoolBreaks
    <2>3. Without(Ends)
        BY <2>1, PoolBreaksWithout
    <2> QED
        BY <1>1, <2>1, <2>2, <2>3
<1>4. ASSUME NEW m \in Mgr, ConnectRefused(m) PROVE SlotsInv'
    BY <1>4, FailedSlots DEF ConnectRefused
<1>5. ASSUME NEW m \in Mgr, Connects(m) PROVE SlotsInv'
    BY <1>5, ConnectedSlots DEF Connects
<1>6. ASSUME NEW m \in Mgr, FakeRuns(m) PROVE SlotsInv'
    <2>1. FakeHandles(m, sessionID) /\ UNCHANGED mgrVars
        BY <1>6 DEF FakeRuns
    <2>2. UNCHANGED upVars
        BY <2>1 DEF FakeHandles, FakeAddDownSession, FakeDownSessionBroken, FakeSendUpdateMinerNum,
                    FakeTransferDownSessions, FakeExit
    <2>3. Without(Ends)
        BY <2>1, FakeWithout
    <2> QED
        BY <1>1, <2>1, <2>2, <2>3
<1>7. ASSUME NEW m \in BagToSet(spawned), SenderRuns(m) PROVE SlotsInv'
    <2>1. Deliver(m) /\ UNCHANGED <<mgrVars, upVars>>
        BY <1>7 DEF SenderRuns, poolVars
    <2>2. m \in Messages /\ IsChan(chan) /\ IsABag(spawned)
        BY DEF TypeInv, MailInv, Mail, BagToSet
    <2>3. PICK a \in Actor, e \in Event : m = <<a, e>>
        BY <2>2 DEF Messages
    <2>4. Passes({}, {})
        BY <2>1, <2>2, <2>3, DeliverPasses
    <2> QED
        BY <1>1, <2>1, <2>4, StillStep
<1>8. CASE UNCHANGED vars
    <2>1. UNCHANGED mailVars /\ UNCHANGED <<mgrVars, upVars>>
        BY <1>8 DEF vars, poolVars
    <2> QED
        BY <1>1, <2>1, QuietPasses, StillStep
<1> QED
    BY <1>2, <1>3, <1>4, <1>5, <1>6, <1>7, <1>8, SMSlots, MgrSlots, UpSlots DEF Next, Environment, Agents

-----------------------------------------------------------------------------
(* The invariant of the slots, and what it says in numbers.                *)

\* Nothing is on its way in the beginning.
LEMMA InitFree ==
    ASSUME Init, NEW K
    PROVE  Free(chan, spawned, K) /\ AtMostOne(chan, spawned, K)
<1>1. chan = [a \in Actor |-> <<>>] /\ spawned = EmptyBag
    BY DEF Init, MailInit
<1>2. DOMAIN spawned = {}
    BY <1>1 DEF EmptyBag, SetToBag
<1>3. \A a \in Actor : DOMAIN chan[a] = {}
    BY <1>1
<1>4. Free(chan, spawned, K)
    BY <1>2, <1>3 DEF Free, Waits, Pends
<1> QED
    BY <1>4, FreeIsAtMostOne

LEMMA InitSlotsInv == Init => SlotsInv
<1> SUFFICES ASSUME Init PROVE SlotsInv
    OBVIOUS
<1>1. /\ upStat = [u \in Up |-> "none"] /\ upMgr = [u \in Up |-> None]
      /\ mgrLoop = {} /\ mgrAccount = [m \in Mgr |-> None]
      /\ slotSession = [m \in Mgr |-> [s \in Slot |-> None]]
      /\ initFailureCounter = [m \in Mgr |-> 0]
      /\ connecting = [m \in Mgr |-> [s \in Slot |-> 0]]
    BY DEF Init, UpInit, MgrInit
<1>2. OwnerInv
    <2>1. chan = [a \in Actor |-> <<>>] /\ spawned = EmptyBag
        BY DEF Init, MailInit
    <2>2. DOMAIN spawned = {} /\ IsABag(spawned)
        BY <2>1 DEF EmptyBag, SetToBag, IsABag
    <2>3. \A a \in Actor : DOMAIN chan[a] = {}
        BY <2>1
    <2>4. Mail(chan, spawned, SlotMessages)
        BY <2>1, <2>2, <2>3, EmptyIsSequence DEF Mail, IsChan
    <2> QED
        BY <1>1, <2>4 DEF OwnerInv
<1>3. ASSUME NEW m \in Mgr, NEW s \in Slot PROVE SlotOK(m, s) /\ GivenUp(m, s)
    <2>1. connecting[m][s] = 0
        BY <1>1
    <2>2. SessionsOf(m, s) = {}
        BY <1>1 DEF SessionsOf, UpLoop
    <2>3. AtMostOne(chan, spawned, Ended(m, s)) /\ NotEnded(m, s)
        BY InitFree DEF NotEnded
    <2> QED
        BY <2>1, <2>2, <2>3 DEF SlotOK, GivenUp
<1>4. ASSUME NEW m \in Mgr PROVE CountOK(m)
    <2>1. GivenUpSlots(m) = Slot
        BY <1>3 DEF GivenUpSlots
    <2> QED
        BY <1>1, <2>1 DEF CountOK
<1> QED
    BY <1>2, <1>3, <1>4 DEF SlotsInv

LEMMA SlotsInvariant == Spec => [](TypeInv /\ SlotsInv)
<1>1. Init => TypeInv /\ SlotsInv
    BY InitTypeInv, InitSlotsInv
<1>2. TypeInv /\ SlotsInv /\ [Next]_vars => (TypeInv /\ SlotsInv)'
    BY NextTypeInv, NextSlotsInv
<1> QED
    BY <1>1, <1>2, PTL DEF Spec

\* Of two messages of which at most one is on its way.
LEMMA OneOfTwo ==
    ASSUME MailInv, NEW x, NEW y, x # y, AtMostOne(chan, spawned, {x, y})
    PROVE  /\ AtMostOne(chan, spawned, {x}) /\ AtMostOne(chan, spawned, {y})
           /\ Free(chan, spawned, {x}) \/ Free(chan, spawned, {y})
           /\ Free(chan, spawned, {x, y}) <=> Free(chan, spawned, {x}) /\ Free(chan, spawned, {y})
<1> DEFINE K == {x, y}
<1>0. WaitsOnce(chan, K) /\ PendsOnce(spawned, K) /\ ~(Waits(chan, K) /\ Pends(spawned, K))
    BY DEF AtMostOne
<1>1. ASSUME NEW L, L \subseteq K
      PROVE  /\ Waits(chan, L) => Waits(chan, K)
             /\ Pends(spawned, L) => Pends(spawned, K)
             /\ AtMostOne(chan, spawned, L)
    <2>1. (Waits(chan, L) => Waits(chan, K)) /\ (Pends(spawned, L) => Pends(spawned, K))
        BY <1>1 DEF Waits, Pends
    <2>2. WaitsOnce(chan, L)
        BY <1>0, <1>1 DEF WaitsOnce
    <2>3. PendsOnce(spawned, L)
        BY <1>0, <1>1 DEF PendsOnce
    <2> QED
        BY <1>0, <2>1, <2>2, <2>3 DEF AtMostOne
<1>2. {x} \subseteq K /\ {y} \subseteq K
    OBVIOUS
<1>3. Waits(chan, K) <=> Waits(chan, {x}) \/ Waits(chan, {y})
    BY DEF Waits
<1>4. Pends(spawned, K) <=> Pends(spawned, {x}) \/ Pends(spawned, {y})
    BY DEF Pends
<1>5. ~(Waits(chan, {x}) /\ Waits(chan, {y}))
    <2> SUFFICES ASSUME Waits(chan, {x}), Waits(chan, {y}) PROVE FALSE
        OBVIOUS
    <2>1. PICK a \in Actor : \E i \in DOMAIN chan[a] : <<a, chan[a][i]>> = x
        BY DEF Waits
    <2>2. PICK i \in DOMAIN chan[a] : <<a, chan[a][i]>> = x
        BY <2>1
    <2>3. PICK b \in Actor : \E j \in DOMAIN chan[b] : <<b, chan[b][j]>> = y
        BY DEF Waits
    <2>4. PICK j \in DOMAIN chan[b] : <<b, chan[b][j]>> = y
        BY <2>3
    <2>5. a = b /\ i = j
        BY <1>0, <2>2, <2>4 DEF WaitsOnce
    <2> QED
        BY <2>2, <2>4, <2>5
<1>6. ~(Pends(spawned, {x}) /\ Pends(spawned, {y}))
    BY <1>0 DEF Pends, PendsOnce
<1> HIDE DEF K
<1>7. AtMostOne(chan, spawned, {x}) /\ AtMostOne(chan, spawned, {y})
    BY <1>1, <1>2
<1>8. Free(chan, spawned, {x}) \/ Free(chan, spawned, {y})
    BY <1>0, <1>3, <1>4, <1>5, <1>6 DEF Free
<1>9. Free(chan, spawned, K) <=> Free(chan, spawned, {x}) /\ Free(chan, spawned, {y})
    BY <1>3, <1>4 DEF Free
<1> QED
    BY <1>7, <1>8, <1>9 DEF K

LEMMA EndedInFlight ==
    ASSUME MailInv, NEW m \in Mgr, NEW s \in Slot, AtMostOne(chan, spawned, Ended(m, s))
    PROVE  /\ InFlight(m, EventUpSessionBroken(s)) \in Nat
           /\ InFlight(m, EventUpSessionInitFailed(s)) \in Nat
           /\ InFlight(m, EventUpSessionBroken(s)) + InFlight(m, EventUpSessionInitFailed(s))
                 = IF NotEnded(m, s) THEN 0 ELSE 1
<1> DEFINE e == EventUpSessionBroken(s)
           f == EventUpSessionInitFailed(s)
<1>1. m \in Actor /\ e # f /\ Ended(m, s) = {<<m, e>>, <<m, f>>}
    BY Actors, SlotEvents DEF Ended
<1> HIDE DEF e, f
<1>2. <<m, e>> # <<m, f>> /\ AtMostOne(chan, spawned, {<<m, e>>, <<m, f>>})
    BY <1>1
<1> DEFINE x == <<m, e>>
           y == <<m, f>>
<1>a. x # y /\ AtMostOne(chan, spawned, {x, y}) /\ (NotEnded(m, s) <=> Free(chan, spawned, {x, y}))
    BY <1>1, <1>2 DEF NotEnded
<1> HIDE DEF x, y
<1>b. /\ AtMostOne(chan, spawned, {x}) /\ AtMostOne(chan, spawned, {y})
      /\ Free(chan, spawned, {x}) \/ Free(chan, spawned, {y})
      /\ Free(chan, spawned, {x, y}) <=> Free(chan, spawned, {x}) /\ Free(chan, spawned, {y})
    BY <1>a, OneOfTwo
<1>3. /\ AtMostOne(chan, spawned, {<<m, e>>}) /\ AtMostOne(chan, spawned, {<<m, f>>})
      /\ Free(chan, spawned, {<<m, e>>}) \/ Free(chan, spawned, {<<m, f>>})
      /\ NotEnded(m, s) <=> Free(chan, spawned, {<<m, e>>}) /\ Free(chan, spawned, {<<m, f>>})
    BY <1>a, <1>b DEF x, y
<1>4. /\ InFlight(m, e) = IF Free(chan, spawned, {<<m, e>>}) THEN 0 ELSE 1
      /\ InFlight(m, f) = IF Free(chan, spawned, {<<m, f>>}) THEN 0 ELSE 1
    BY <1>1, <1>3, InFlightIs
<1>5. /\ InFlight(m, e) \in Nat /\ InFlight(m, f) \in Nat
      /\ InFlight(m, e) + InFlight(m, f) = IF NotEnded(m, s) THEN 0 ELSE 1
    BY <1>3, <1>4
<1> QED
    BY <1>5 DEF e, f

LEMMA KeepersOf ==
    ASSUME MailInv, NEW m \in Mgr, NEW s \in Slot, SlotOK(m, s)
    PROVE  Keepers(m, s) = IF GivenUp(m, s) THEN 0 ELSE 1
<1> DEFINE B == InFlight(m, EventUpSessionBroken(s))
           F == InFlight(m, EventUpSessionInitFailed(s))
           n == Cardinality(SessionsOf(m, s))
<1>1. AtMostOne(chan, spawned, Ended(m, s))
    BY DEF SlotOK
<1>2. B \in Nat /\ F \in Nat /\ B + F = IF NotEnded(m, s) THEN 0 ELSE 1
    BY <1>1, EndedInFlight
<1>3. n = IF SessionsOf(m, s) = {} THEN 0 ELSE 1
    <2>1. CASE SessionsOf(m, s) = {}
        BY <2>1, FS_EmptySet
    <2>2. CASE SessionsOf(m, s) # {}
        <3>1. PICK u \in SessionsOf(m, s) : TRUE
            BY <2>2
        <3>2. SessionsOf(m, s) = {u}
            BY <3>1 DEF SlotOK
        <3> QED
            BY <2>2, <3>2, OneIsOne DEF One
    <2> QED
        BY <2>1, <2>2
<1>4. Keepers(m, s) = connecting[m][s] + n + B + F
    BY DEF Keepers
<1> HIDE DEF B, F, n
<1>5. Keepers(m, s) = connecting[m][s] + n + (IF NotEnded(m, s) THEN 0 ELSE 1)
    BY <1>2, <1>3, <1>4 DEF SlotOK
<1> QED
    BY <1>3, <1>5 DEF SlotOK, GivenUp

\* A manager never has two pool sessions, or two attempts, for one slot, and it
\* gives up no slot but those that failed before it was first connected,
\* whatever pools do and whenever: what UpSessionBroken and UpSessionInitFailed
\* announce is answered with one new attempt each.
THEOREM SlotsAreConserved == Spec => []SlotsConserved
<1>1. TypeInv /\ SlotsInv => SlotsConserved
    <2> SUFFICES ASSUME TypeInv, SlotsInv PROVE SlotsConserved
        OBVIOUS
    <2>1. ASSUME NEW m \in Mgr, NEW s \in Slot
          PROVE  Keepers(m, s) = IF GivenUp(m, s) THEN 0 ELSE 1
        <3>1. MailInv /\ SlotOK(m, s)
            BY DEF TypeInv, SlotsInv
        <3> QED
            BY <3>1, KeepersOf
    <2>2. \A m \in Mgr, s \in Slot : Keepers(m, s) <= 1
        BY <2>1
    <2>3. ASSUME NEW m \in mgrLoop
          PROVE  Cardinality({s \in Slot : Keepers(m, s) = 1}) + initFailureCounter[m] = SlotNum
        <3>1. m \in Mgr /\ initFailureCounter[m] = Cardinality(GivenUpSlots(m))
            BY DEF TypeInv, MgrInv, LoopsInv, SlotsInv, CountOK
        <3>2. \A s \in Slot : Keepers(m, s) = 1 <=> ~GivenUp(m, s)
            BY <2>1, <3>1
        <3>3. {s \in Slot : Keepers(m, s) = 1} = Slot \ GivenUpSlots(m)
            BY <3>2 DEF GivenUpSlots
        <3>4. IsFiniteSet(Slot) /\ Cardinality(Slot) = SlotNum
            BY FS_Interval, SlotAssumption DEF Slot
        <3>5. GivenUpSlots(m) \subseteq Slot
            BY DEF GivenUpSlots
        <3>6. Slot \cap GivenUpSlots(m) = GivenUpSlots(m)
            BY <3>5
        <3>7. /\ Cardinality(Slot \ GivenUpSlots(m)) = Cardinality(Slot) - Cardinality(Slot \cap GivenUpSlots(m))
            BY <3>4, FS_Difference
        <3>8. Cardinality(GivenUpSlots(m)) \in Nat
            BY <3>4, <3>5, FS_Subset, FS_CardinalityType
        <3>9. Cardinality(Slot \ GivenUpSlots(m)) + initFailureCounter[m] = SlotNum
            BY <3>1, <3>4, <3>6, <3>7, <3>8, SlotAssumption
        <3> QED
            BY <3>3, <3>9
    <2> QED
        BY <2>2, <2>3 DEF SlotsConserved
<1> QED
    BY <1>1, SlotsInvariant, PTL

-----------------------------------------------------------------------------
(* Orders to a manager to exit.                                            *)

\* The step neither takes nor sends such an order.
TellsNobody ==
    \E in, out : Passes(in, out) /\ in \cap ExitEvents = {} /\ out \cap ExitEvents = {}

LEMMA ToldIs ==
    ASSUME NEW m \in Mgr
    PROVE  /\ Told(m) \subseteq ExitEvents /\ Told(m)' = Told(m)
           /\ \A n \in Mgr : n # m => <<n, EventExit>> \notin Told(m)
<1>1. <<m, EventExit>> \in ExitEvents
    BY PlainEvents, Actors DEF ExitEvents
<1> QED
    BY <1>1 DEF Told

\* A step that takes and sends no order to m.
LEMMA ToldStays ==
    ASSUME NEW m \in Mgr, AtMostOne(chan, spawned, Told(m)),
           NEW ACTION in, NEW ACTION out, Passes(in, out),
           in \cap Told(m) = {}, out \cap Told(m) = {}
    PROVE  /\ AtMostOne(chan, spawned, Told(m))'
           /\ NotTold(m)' <=> NotTold(m)
<1> DEFINE K == Told(m)
<1>1. AtMostOne(chan', spawned', K) /\ (Free(chan', spawned', K) <=> Free(chan, spawned, K))
    BY DEF Passes
<1>2. K' = K
    BY ToldIs
<1> QED
    BY <1>1, <1>2 DEF NotTold

LEMMA NobodyTold ==
    ASSUME NEW m \in Mgr, AtMostOne(chan, spawned, Told(m)), TellsNobody
    PROVE  /\ AtMostOne(chan, spawned, Told(m))'
           /\ NotTold(m)' <=> NotTold(m)
<1>1. PICK in, out : Passes(in, out) /\ in \cap ExitEvents = {} /\ out \cap ExitEvents = {}
    BY DEF TellsNobody
<1>2. in \cap Told(m) = {} /\ out \cap Told(m) = {}
    BY <1>1, ToldIs
<1> QED
    BY <1>1, <1>2, ToldStays

\* The order is sent to m.
LEMMA OrderSent ==
    ASSUME NEW m \in Mgr, AtMostOne(chan, spawned, Told(m)), NotTold(m),
           NEW ACTION in, NEW ACTION out, Passes(in, out), <<m, EventExit>> \in out
    PROVE  AtMostOne(chan, spawned, Told(m))' /\ ~NotTold(m)'
<1> DEFINE K == Told(m)
           x == <<m, EventExit>>
<1>1. out \cap K = {x} /\ Free(chan, spawned, K)
    BY DEF Told, NotTold
<1>2. AtMostOne(chan', spawned', K) /\ ~Free(chan', spawned', K)
    BY <1>1 DEF Passes
<1>3. K' = K
    BY ToldIs
<1> QED
    BY <1>2, <1>3 DEF NotTold

LEMMA WithoutTells ==
    ASSUME Without(Ends)
    PROVE  TellsNobody
<1>1. ExitEvents \subseteq Ends
    BY DEF Ends
<1> QED
    BY <1>1 DEF Without, TellsNobody

\* Steps that concern neither the map nor the life of managers.
LEMMA RegistryStays ==
    ASSUME RegistryInv, TellsNobody, UNCHANGED <<mgrLoop, mgrAccount, upSessionManagers>>,
           smStat' # "exited" => smStat # "exited", smStat' = "starting" => smStat = "starting",
           smStat = "starting" => \A d \in Miner : downStat'[d] = "none",
           SMTypeOK
    PROVE  RegistryInv'
<1>1. ASSUME NEW m \in Mgr
      PROVE  AtMostOne(chan, spawned, Told(m))' /\ (NotTold(m)' <=> NotTold(m))
    <2>1. AtMostOne(chan, spawned, Told(m))
        BY DEF RegistryInv, ToldOnce
    <2> QED
        BY <2>1, NobodyTold
<1>2. ASSUME NEW a \in Account PROVE Enlisted(a)'
    <2>1. Enlisted(a) /\ upSessionManagers[a] \in Mgr \cup {None}
        BY DEF RegistryInv, SMTypeOK
    <2> QED
        BY <1>1, <2>1 DEF Enlisted
<1>3. ASSUME NEW m \in Mgr PROVE Dismissed(m)' /\ ToldOnce(m)'
    <2>1. Dismissed(m) /\ ToldOnce(m)
        BY DEF RegistryInv
    <2> QED
        BY <1>1, <2>1 DEF Dismissed, ToldOnce
<1>4. NotYet'
    BY DEF RegistryInv, NotYet
<1> QED
    BY <1>2, <1>3, <1>4 DEF RegistryInv

\* A manager exits: it was not in the map, or the agent is stopping.
LEMMA ManagerExits ==
    ASSUME TypeInv, RegistryInv, NEW m \in Mgr, MgrExit(m), UNCHANGED <<smVars, downVars>>
    PROVE  RegistryInv'
<1> DEFINE in == {<<m, EventExit>>}
           out == {<<p, EventExit>> : p \in ExitReceivers(m)}
<1>1. Passes(in, out) /\ ExitReceivers(m) \subseteq PoolSession
    BY MgrExitMail
<1>2. /\ mgrLoop' = mgrLoop \ {m} /\ UNCHANGED <<mgrAccount, smStat, upSessionManagers, downStat>>
      /\ SMTypeOK
    BY DEF MgrExit, smVars, downVars, TypeInv
<1>3. \A p \in ExitReceivers(m) : p \notin Mgr
    BY <1>1, NoMgr DEF PoolSession
<1>4. ASSUME NEW n \in Mgr PROVE out \cap Told(n) = {} /\ (n # m => in \cap Told(n) = {})
    BY <1>3 DEF Told
<1>5. in \cap Told(m) # {}
    BY DEF Told
<1> HIDE DEF in, out
<1>6. ASSUME NEW n \in Mgr, n # m
      PROVE  AtMostOne(chan, spawned, Told(n))' /\ (NotTold(n)' <=> NotTold(n))
    <2>1. AtMostOne(chan, spawned, Told(n))
        BY DEF RegistryInv, ToldOnce
    <2> QED
        BY <1>1, <1>4, <1>6, <2>1, ToldStays
<1>7. AtMostOne(chan, spawned, Told(m))' /\ NotTold(m)' /\ ~NotTold(m)
    <2> DEFINE K == Told(m)
    <2>1. AtMostOne(chan, spawned, K)
        BY DEF RegistryInv, ToldOnce
    <2>2. AtMostOne(chan', spawned', K) /\ Free(chan', spawned', K) /\ ~Free(chan, spawned, K)
        BY <1>1, <1>4, <1>5, <2>1 DEF Passes
    <2>3. K' = K
        BY ToldIs
    <2> QED
        BY <2>2, <2>3 DEF NotTold
<1>8. ASSUME NEW a \in Account PROVE Enlisted(a)'
    <2>1. Enlisted(a) /\ upSessionManagers[a] \in Mgr \cup {None}
        BY <1>2 DEF RegistryInv, SMTypeOK
    <2>2. CASE upSessionManagers[a] = m
        BY <1>2, <1>7, <2>1, <2>2 DEF Enlisted
    <2>3. CASE upSessionManagers[a] # m
        BY <1>2, <1>6, <2>1, <2>3 DEF Enlisted
    <2> QED
        BY <2>2, <2>3
<1>9. ASSUME NEW n \in Mgr PROVE Dismissed(n)' /\ ToldOnce(n)'
    <2>1. Dismissed(n) /\ ToldOnce(n)
        BY DEF RegistryInv
    <2>2. CASE n = m
        BY <1>2, <1>7, <2>2 DEF Dismissed, ToldOnce
    <2>3. CASE n # m
        BY <1>2, <1>6, <2>1, <2>3 DEF Dismissed, ToldOnce
    <2> QED
        BY <2>2, <2>3
<1>10. NotYet'
    BY <1>2 DEF RegistryInv, NotYet
<1> QED
    BY <1>8, <1>9, <1>10 DEF RegistryInv

\* A manager starts and takes the free place in the map.
LEMMA ManagerStarts ==
    ASSUME TypeInv, RegistryInv, NEW m \in Mgr, NEW a \in Account, CreateUpSessionManager(m, a),
           upSessionManagers[a] = None, TellsNobody,
           smStat' # "exited" => smStat # "exited", smStat' # "starting"
    PROVE  RegistryInv'
<1>1. /\ mgrAccount[m] = None
      /\ mgrAccount' = [mgrAccount EXCEPT ![m] = a]
      /\ mgrLoop' = mgrLoop \cup {m}
      /\ upSessionManagers' = [upSessionManagers EXCEPT ![a] = m]
      /\ LoopsInv /\ SMTypeOK
    BY DEF CreateUpSessionManager, MgrStarts, TypeInv, MgrInv
<1>2. mgrAccount'[m] = a /\ upSessionManagers'[a] = m
    BY <1>1 DEF LoopsInv, SMTypeOK
<1>3. /\ \A n \in Mgr \ {m} : mgrAccount'[n] = mgrAccount[n]
      /\ \A b \in Account \ {a} : upSessionManagers'[b] = upSessionManagers[b]
    BY <1>1 DEF LoopsInv, SMTypeOK
<1>4. ASSUME NEW n \in Mgr
      PROVE  AtMostOne(chan, spawned, Told(n))' /\ (NotTold(n)' <=> NotTold(n))
    <2>1. AtMostOne(chan, spawned, Told(n))
        BY DEF RegistryInv, ToldOnce
    <2> QED
        BY <2>1, NobodyTold
<1>5. NotTold(m)' /\ a # None
    <2>1. NotTold(m)
        BY <1>1 DEF RegistryInv, ToldOnce
    <2> QED
        BY <1>4, <2>1, ActorAssumption
<1>6. ASSUME NEW b \in Account PROVE Enlisted(b)'
    <2>1. CASE b = a
        BY <1>1, <1>2, <1>5, <2>1 DEF Enlisted
    <2>2. CASE b # a
        <3>1. Enlisted(b) /\ upSessionManagers[b] \in Mgr \cup {None} /\ b # None
            BY <1>1, ActorAssumption DEF RegistryInv, SMTypeOK
        <3>2. upSessionManagers[b] # None => upSessionManagers[b] # m
            BY <1>1, <3>1 DEF Enlisted
        <3> QED
            BY <1>1, <1>3, <1>4, <2>2, <3>1, <3>2 DEF Enlisted
    <2> QED
        BY <2>1, <2>2
<1>7. ASSUME NEW n \in Mgr PROVE Dismissed(n)' /\ ToldOnce(n)'
    <2>1. CASE n = m
        BY <1>2, <1>4, <1>5, <2>1 DEF Dismissed, ToldOnce
    <2>2. CASE n # m
        <3>1. Dismissed(n) /\ ToldOnce(n) /\ mgrAccount'[n] = mgrAccount[n] /\ m # None /\ n # None
            BY <1>3, <2>2, NoMgr DEF RegistryInv
        <3>2. ToldOnce(n)'
            BY <1>4, <3>1 DEF ToldOnce
        <3>3. Dismissed(n)'
            <4> SUFFICES ASSUME n \in mgrLoop PROVE upSessionManagers'[mgrAccount[n]] = n \/ ~NotTold(n)'
                BY <1>1, <2>2, <3>1 DEF Dismissed
            <4>1. mgrAccount[n] \in Account
                BY <1>1 DEF LoopsInv
            <4>2. CASE ~NotTold(n)
                BY <1>4, <4>2
            <4>3. CASE upSessionManagers[mgrAccount[n]] = n
                <5>1. mgrAccount[n] # a
                    BY <3>1, <4>3
                <5> QED
                    BY <1>3, <4>1, <4>3, <5>1
            <4> QED
                BY <3>1, <4>2, <4>3 DEF Dismissed
        <3> QED
            BY <3>2, <3>3
    <2> QED
        BY <2>1, <2>2
<1>8. NotYet'
    BY DEF NotYet
<1> QED
    BY <1>6, <1>7, <1>8 DEF RegistryInv

\* stopUpSessionManager: the manager leaves the map and is told to exit.
LEMMA ManagerIsStopped ==
    ASSUME TypeInv, RegistryInv, NEW a \in Account, upSessionManagers[a] \in Mgr, Forgets(a),
           NEW ACTION in, in \cap ExitEvents = {}, Passes(in, {<<upSessionManagers[a], EventExit>>}),
           smStat # "exited", UNCHANGED <<smStat, mgrLoop, mgrAccount, downStat>>
    PROVE  RegistryInv'
<1>1. PICK m \in Mgr : upSessionManagers[a] = m
    OBVIOUS
<1>2. /\ LoopsInv /\ SMTypeOK /\ m # None
      /\ upSessionManagers'[a] = None
      /\ \A b \in Account \ {a} : upSessionManagers'[b] = upSessionManagers[b]
    BY <1>1, NoMgr DEF Forgets, TypeInv, MgrInv, SMTypeOK
<1>3. mgrAccount[m] = a /\ m \in mgrLoop /\ NotTold(m)
    BY <1>1, <1>2 DEF RegistryInv, Enlisted
<1>4. AtMostOne(chan, spawned, Told(m))' /\ ~NotTold(m)'
    <2>1. AtMostOne(chan, spawned, Told(m))
        BY DEF RegistryInv, ToldOnce
    <2>2. Passes(in, {<<m, EventExit>>}) /\ <<m, EventExit>> \in {<<m, EventExit>>}
        BY <1>1
    <2> QED
        BY <1>3, <2>1, <2>2, OrderSent
<1>5. ASSUME NEW n \in Mgr, n # m
      PROVE  AtMostOne(chan, spawned, Told(n))' /\ (NotTold(n)' <=> NotTold(n))
    <2>1. AtMostOne(chan, spawned, Told(n)) /\ in \cap Told(n) = {}
        BY ToldIs DEF RegistryInv, ToldOnce
    <2>2. Passes(in, {<<m, EventExit>>}) /\ {<<m, EventExit>>} \cap Told(n) = {}
        BY <1>1, <1>5, ToldIs
    <2> QED
        BY <2>1, <2>2, ToldStays
<1>6. ASSUME NEW b \in Account PROVE Enlisted(b)'
    <2>1. CASE b = a
        BY <1>2, <2>1 DEF Enlisted
    <2>2. CASE b # a
        <3>1. Enlisted(b) /\ upSessionManagers[b] \in Mgr \cup {None}
            BY <1>2 DEF RegistryInv, SMTypeOK
        <3>2. upSessionManagers[b] # None => upSessionManagers[b] # m
            BY <1>3, <2>2, <3>1 DEF Enlisted
        <3> QED
            BY <1>2, <1>5, <2>2, <3>1, <3>2 DEF Enlisted
    <2> QED
        BY <2>1, <2>2
<1>7. ASSUME NEW n \in Mgr PROVE Dismissed(n)' /\ ToldOnce(n)'
    <2>1. CASE n = m
        <3>1. mgrAccount[m] # None
            BY <1>3, ActorAssumption
        <3> QED
            BY <1>4, <2>1, <3>1 DEF Dismissed, ToldOnce
    <2>2. CASE n # m
        <3>1. Dismissed(n) /\ ToldOnce(n)
            BY DEF RegistryInv
        <3>2. ToldOnce(n)'
            BY <1>5, <2>2, <3>1 DEF ToldOnce
        <3>3. Dismissed(n)'
            <4> SUFFICES ASSUME n \in mgrLoop PROVE upSessionManagers'[mgrAccount[n]] = n \/ ~NotTold(n)'
                BY DEF Dismissed
            <4>1. mgrAccount[n] \in Account
                BY <1>2 DEF LoopsInv
            <4>2. CASE ~NotTold(n)
                BY <1>5, <2>2, <4>2
            <4>3. CASE upSessionManagers[mgrAccount[n]] = n
                <5>1. mgrAccount[n] # a
                    BY <1>1, <2>2, <4>3
                <5> QED
                    BY <1>2, <4>1, <4>3, <5>1
            <4> QED
                BY <3>1, <4>2, <4>3 DEF Dismissed
        <3> QED
            BY <3>2, <3>3
    <2> QED
        BY <2>1, <2>2
<1>8. NotYet'
    BY <1>2 DEF RegistryInv, NotYet
<1> QED
    BY <1>6, <1>7, <1>8 DEF RegistryInv

\* exit: every manager of the map is told, and the books are closed.
LEMMA AllAreStopped ==
    ASSUME TypeInv, RegistryInv, SMExit
    PROVE  RegistryInv'
<1> DEFINE in == {<<SM, Head(chan[SM])>>}
           out == {<<p, EventExit>> : p \in Children}
<1>1. Passes(in, out) /\ Children \subseteq Mgr
    BY SMExitMail
<1>2. /\ smStat # "exited" /\ smStat' = "exited" /\ UNCHANGED <<upSessionManagers, mgrLoop, mgrAccount>>
      /\ SMTypeOK
    BY DEF SMExit, SMReceives, SMLoop, mgrVars, TypeInv
<1>3. ASSUME NEW n \in Mgr
      PROVE  /\ in \cap Told(n) = {}
             /\ n \in Children => <<n, EventExit>> \in out
             /\ n \notin Children => out \cap Told(n) = {}
    BY NoMgr DEF Told
<1> HIDE DEF in, out
<1>4. ASSUME NEW n \in Children PROVE mgrAccount[n] # None /\ NotTold(n)
    <2>1. PICK a \in Account : n = upSessionManagers[a] /\ n # None
        BY DEF Children
    <2>2. mgrAccount[n] = a /\ NotTold(n) /\ a # None
        BY <1>2, <2>1, ActorAssumption DEF RegistryInv, Enlisted
    <2> QED
        BY <2>2
<1>5. ASSUME NEW n \in Mgr
      PROVE  /\ AtMostOne(chan, spawned, Told(n))'
             /\ ~NotTold(n) => ~NotTold(n)'
             /\ n \notin Children => (NotTold(n)' <=> NotTold(n))
    <2>1. AtMostOne(chan, spawned, Told(n))
        BY DEF RegistryInv, ToldOnce
    <2>2. CASE n \in Children
        BY <1>1, <1>3, <1>4, <2>1, <2>2, OrderSent
    <2>3. CASE n \notin Children
        BY <1>1, <1>3, <2>1, <2>3, ToldStays
    <2> QED
        BY <2>2, <2>3
<1>6. ASSUME NEW a \in Account PROVE Enlisted(a)'
    <2>1. Enlisted(a)
        BY DEF RegistryInv
    <2> QED
        BY <1>2, <2>1 DEF Enlisted
<1>7. ASSUME NEW n \in Mgr PROVE Dismissed(n)' /\ ToldOnce(n)'
    <2>1. Dismissed(n) /\ ToldOnce(n)
        BY DEF RegistryInv
    <2>2. Dismissed(n)'
        BY <1>2, <1>5, <2>1 DEF Dismissed
    <2>3. ToldOnce(n)'
        BY <1>2, <1>4, <1>5, <2>1 DEF ToldOnce
    <2> QED
        BY <2>2, <2>3
<1>8. NotYet'
    BY <1>2 DEF NotYet
<1> QED
    BY <1>6, <1>7, <1>8 DEF RegistryInv

\* The SessionManager hears of no miner before it has started.
LEMMA StartedBefore ==
    ASSUME TypeInv, RegistryInv, SMAddDownSession(subAccount)
    PROVE  smStat # "starting"
<1> DEFINE d == Head(chan[SM]).session
<1>1. d \in Known
    BY SMAddMail
<1>2. d \in Miner /\ sessionID[d] # NoID
    BY <1>1, NoIDAssumption DEF Known
<1>3. downStat[d] # "none"
    BY <1>2 DEF TypeInv, DownInv
<1> HIDE DEF d
<1> QED
    BY <1>2, <1>3 DEF RegistryInv, NotYet

LEMMA SMRegistry ==
    ASSUME TypeInv, RegistryInv, SMRuns \/ OperatorActs
    PROVE  RegistryInv'
<1>0. UNCHANGED downStat /\ SMTypeOK
    BY DEF SMRuns, OperatorActs, downVars, TypeInv
<1>1. CASE SMStarts
    <2>1. smStat = "starting" /\ smStat' = "listening" /\ TellsNobody
        BY <1>1, QuietPasses, StillStep, WithoutTells DEF SMStarts
    <2>2. \A a \in Account : upSessionManagers[a] = None
        BY <2>1 DEF RegistryInv, NotYet
    <2>3. CASE \E m \in Mgr, a \in Account : CreateUpSessionManager(m, a)
        BY <2>1, <2>2, <2>3, ManagerStarts
    <2>4. CASE UNCHANGED <<upSessionManagers, mgrVars>>
        <3>1. UNCHANGED <<mgrLoop, mgrAccount, upSessionManagers>>
            BY <2>4 DEF mgrVars
        <3>2. \A d \in Miner : downStat'[d] = "none"
            BY <1>0, <2>1 DEF RegistryInv, NotYet
        <3> QED
            BY <1>0, <2>1, <3>1, <3>2, RegistryStays
    <2> QED
        BY <1>1, <2>3, <2>4 DEF SMStarts
<1>2. CASE SMAddDownSession(subAccount)
    <2> DEFINE a == subAccount[Head(chan[SM]).session]
    <2>1. smStat # "starting" /\ smStat # "exited" /\ UNCHANGED smStat /\ TellsNobody
        BY <1>2, StartedBefore, SMAddWithout, WithoutTells DEF SMAddDownSession, SMReceives, SMLoop
    <2>2. a \in Account
        BY <1>2, SMAddMail DEF Known
    <2>3. \/ UNCHANGED <<upSessionManagers, mgrVars>>
          \/ upSessionManagers[a] = None /\ \E m \in Mgr : CreateUpSessionManager(m, a)
        BY <1>2 DEF SMAddDownSession
    <2> HIDE DEF a
    <2>4. CASE UNCHANGED <<upSessionManagers, mgrVars>>
        <3>1. UNCHANGED <<mgrLoop, mgrAccount, upSessionManagers>>
            BY <2>4 DEF mgrVars
        <3> QED
            BY <1>0, <2>1, <3>1, RegistryStays
    <2>5. CASE upSessionManagers[a] = None /\ \E m \in Mgr : CreateUpSessionManager(m, a)
        BY <2>1, <2>2, <2>5, ManagerStarts
    <2> QED
        BY <2>3, <2>4, <2>5
<1>3. CASE SMStopUpSessionManager
    <2>1. PICK a \in Account : StopsManager(a)
        BY <1>3, SMStopManagerMail
    <2>2. smStat # "exited" /\ UNCHANGED smStat /\ UNCHANGED <<mgrLoop, mgrAccount>>
        BY <1>3 DEF SMStopUpSessionManager, SMReceives, SMLoop, mgrVars
    <2>3. {<<SM, Head(chan[SM])>>} \cap ExitEvents = {}
        BY NoMgr DEF ExitEvents
    <2>4. CASE /\ upSessionManagers[a] \in Mgr
               /\ Forgets(a)
               /\ Passes({<<SM, Head(chan[SM])>>}, {<<upSessionManagers[a], EventExit>>})
        BY <1>0, <2>2, <2>3, <2>4, ManagerIsStopped
    <2>5. CASE UNCHANGED upSessionManagers /\ Passes({<<SM, Head(chan[SM])>>}, {})
        <3>1. TellsNobody
            BY <2>5, NoMgr, TakesOnly, WithoutTells
        <3>2. smStat = "starting" => \A d \in Miner : downStat'[d] = "none"
            BY <1>0 DEF RegistryInv, NotYet
        <3> QED
            BY <1>0, <2>2, <2>5, <3>1, <3>2, RegistryStays
    <2> QED
        BY <2>1, <2>4, <2>5 DEF StopsManager
<1>4. CASE SMExit
    BY <1>4, AllAreStopped
<1>5. CASE SMStop
    <2>1. TellsNobody
        BY <1>5, SMStopWithout, WithoutTells
    <2>2. smStat = "listening" /\ smStat' = "stopping" /\ UNCHANGED <<mgrLoop, mgrAccount, upSessionManagers>>
        BY <1>5 DEF SMStop, mgrVars
    <2> QED
        BY <1>0, <2>1, <2>2, RegistryStays
<1> QED
    BY <1>1, <1>2, <1>3, <1>4, <1>5 DEF SMRuns, OperatorActs, SMHandles

LEMMA MgrTells ==
    ASSUME TypeInv, NEW m \in Mgr, MgrHandles(m)
    PROVE  MgrExit(m) \/ TellsNobody
<1>1. CASE MgrAddDownSession(m) \/ MgrUpSessionReady(m) \/ MgrUpdateMinerNum(m) \/ MgrUpdateFakeMinerNum(m)
    BY <1>1, MgrWithout, WithoutTells
<1>2. CASE MgrUpSessionInitFailed(m) \/ MgrUpSessionBroken(m)
    <2>1. PICK t \in {"UpSessionInitFailed", "UpSessionBroken"} :
              /\ Head(chan[m]).type = t
              /\ \E out : out \subseteq Plain /\ Passes({<<m, Head(chan[m])>>}, out)
        BY <1>2, MgrAsks
    <2>2. PICK out : out \subseteq Plain /\ Passes({<<m, Head(chan[m])>>}, out)
        BY <2>1
    <2>3. out \cap ExitEvents = {}
        BY <2>2, PlainIs DEF Ends
    <2>4. {<<m, Head(chan[m])>>} \cap ExitEvents = {}
        BY <2>1 DEF ExitEvents
    <2> QED
        BY <2>2, <2>3, <2>4 DEF TellsNobody
<1> QED
    BY <1>1, <1>2 DEF MgrHandles

LEMMA UpTells ==
    ASSUME TypeInv, NEW u \in Up, UpHandles(u, sessionID)
    PROVE  TellsNobody
<1>1. CASE Without(Ends)
    BY <1>1, WithoutTells
<1>2. CASE UpEnds(u)
    <2> DEFINE x == <<upMgr[u], EventUpSessionBroken(upSlot[u])>>
    <2>1. PICK rest : rest \subseteq Plain /\ Passes({<<u, Head(chan[u])>>}, {x} \cup rest)
        BY <1>2 DEF UpEnds
    <2>2. x \notin ExitEvents
        BY DEF ExitEvents, EventUpSessionBroken
    <2> HIDE DEF x
    <2>3. ({x} \cup rest) \cap ExitEvents = {}
        BY <2>1, <2>2, PlainIs DEF Ends
    <2>4. {<<u, Head(chan[u])>>} \cap ExitEvents = {}
        BY NoMgr DEF ExitEvents
    <2> QED
        BY <2>1, <2>3, <2>4 DEF TellsNobody
<1> QED
    BY <1>1, <1>2, UpSteps

LEMMA ConnectTells ==
    ASSUME TypeInv, NEW m \in Mgr, NEW s \in Slot,
           ConnectFails(m, s) \/ \E u \in Up : ConnectSucceeds(m, s, u)
    PROVE  TellsNobody
<1>1. PICK e \in {EventUpSessionInitFailed(s)} \cup {EventUpSessionReady(s, u) : u \in Up} :
          Passes({}, {<<m, e>>})
    BY ConnectMail
<1>2. e.type # "Exit"
    BY DEF EventUpSessionInitFailed, EventUpSessionReady
<1>3. {} \cap ExitEvents = {} /\ {<<m, e>>} \cap ExitEvents = {}
    BY <1>2 DEF ExitEvents
<1> QED
    BY <1>1, <1>3 DEF TellsNobody

LEMMA NextRegistryInv == TypeInv /\ RegistryInv /\ [Next]_vars => RegistryInv'
<1> SUFFICES ASSUME TypeInv, RegistryInv, [Next]_vars PROVE RegistryInv'
    OBVIOUS
<1>0. SMTypeOK /\ \A d \in Miner : smStat = "starting" => downStat[d] = "none"
    BY DEF TypeInv, RegistryInv, NotYet
<1>1. ASSUME TellsNobody, UNCHANGED <<mgrLoop, mgrAccount, smVars>>,
             smStat = "starting" => UNCHANGED downStat
      PROVE  RegistryInv'
    <2>1. UNCHANGED <<smStat, upSessionManagers>>
        BY <1>1 DEF smVars
    <2> QED
        BY <1>0, <1>1, <2>1, RegistryStays
<1>2. ASSUME NEW d \in Miner, MinerActs(d) \/ DownRuns(d) PROVE RegistryInv'
    <2>1. (MinerStep(d) \/ DownHandles(d)) /\ UNCHANGED <<mgrLoop, mgrAccount, smVars>>
        BY <1>2 DEF MinerActs, DownRuns, poolVars, mgrVars
    <2>2. TellsNobody
        BY <2>1, DownWithout, WithoutTells
    <2>3. smStat # "starting"
        <3>1. CASE DownRuns(d)
            <4>1. downStat[d] # "none"
                BY <3>1 DEF DownRuns, DownHandles, ConnBroken, Exit, SetUpSession, RunLoop
            <4> QED
                BY <1>0, <4>1
        <3>2. CASE MinerActs(d)
            BY <1>0, <3>2 DEF MinerActs
        <3> QED
            BY <1>2, <3>1, <3>2
    <2> QED
        BY <1>1, <2>1, <2>2, <2>3
<1>3. ASSUME NEW u \in Up, PoolActs(u) \/ UpRuns(u) PROVE RegistryInv'
    <2>1. UNCHANGED <<mgrLoop, mgrAccount, smVars>> /\ UNCHANGED downStat
        BY <1>3 DEF PoolActs, UpRuns, mgrVars, downVars
    <2>2. TellsNobody
        BY <1>3, PoolBreaksWithout, WithoutTells, UpTells DEF PoolActs, UpRuns
    <2> QED
        BY <1>1, <2>1, <2>2
<1>4. ASSUME NEW m \in Mgr, ConnectRefused(m) \/ Connects(m) PROVE RegistryInv'
    <2>1. PICK s \in Slot : ConnectFails(m, s) \/ \E u \in Up : ConnectSucceeds(m, s, u)
        BY <1>4 DEF ConnectRefused, Connects
    <2>2. UNCHANGED <<mgrLoop, mgrAccount>>
        BY <2>1 DEF ConnectFails, ConnectSucceeds
    <2>3. UNCHANGED smVars /\ UNCHANGED downStat
        BY <1>4 DEF ConnectRefused, Connects, downVars
    <2>4. TellsNobody
        BY <2>1, ConnectTells
    <2> QED
        BY <1>1, <2>2, <2>3, <2>4
<1>5. ASSUME NEW m \in Mgr, FakeRuns(m) PROVE RegistryInv'
    <2>1. UNCHANGED <<mgrLoop, mgrAccount, smVars>> /\ UNCHANGED downStat
        BY <1>5 DEF FakeRuns, mgrVars, downVars
    <2>2. TellsNobody
        BY <1>5, FakeWithout, WithoutTells DEF FakeRuns
    <2> QED
        BY <1>1, <2>1, <2>2
<1>6. ASSUME NEW m \in Mgr, MgrRuns(m) PROVE RegistryInv'
    <2>1. MgrHandles(m) /\ UNCHANGED <<smVars, downVars>>
        BY <1>6 DEF MgrRuns
    <2>2. CASE MgrExit(m)
        BY <2>1, <2>2, ManagerExits
    <2>3. CASE TellsNobody
        <3>1. UNCHANGED <<mgrLoop, mgrAccount>> \/ MgrExit(m)
            BY <2>1 DEF MgrHandles, MgrAddDownSession, MgrUpSessionReady, MgrUpSessionInitFailed,
                        MgrUpSessionBroken, MgrUpdateMinerNum, MgrUpdateFakeMinerNum
        <3>2. UNCHANGED downStat
            BY <2>1 DEF downVars
        <3> QED
            BY <1>1, <2>1, <2>2, <2>3, <3>1, <3>2
    <2> QED
        BY <2>1, <2>2, <2>3, MgrTells
<1>7. ASSUME NEW m \in BagToSet(spawned), SenderRuns(m) PROVE RegistryInv'
    <2>1. Deliver(m) /\ UNCHANGED <<mgrLoop, mgrAccount, smVars>> /\ UNCHANGED downStat
        BY <1>7 DEF SenderRuns, poolVars, mgrVars, downVars
    <2>2. m \in Messages /\ IsChan(chan) /\ IsABag(spawned)
        BY DEF TypeInv, MailInv, Mail, BagToSet
    <2>3. PICK a \in Actor, e \in Event : m = <<a, e>>
        BY <2>2 DEF Messages
    <2>4. Passes({}, {})
        BY <2>1, <2>2, <2>3, DeliverPasses
    <2> QED
        BY <1>1, <2>1, <2>4, StillStep, WithoutTells
<1>8. CASE UNCHANGED vars
    <2>1. UNCHANGED mailVars /\ UNCHANGED <<mgrLoop, mgrAccount, smVars>> /\ UNCHANGED downStat
        BY <1>8 DEF vars, poolVars, mgrVars, downVars
    <2> QED
        BY <1>1, <2>1, QuietPasses, StillStep, WithoutTells
<1> QED
    BY <1>2, <1>3, <1>4, <1>5, <1>6, <1>7, <1>8, SMRegistry DEF Next, Environment, Agents

LEMMA InitRegistryInv == Init => RegistryInv
<1> SUFFICES ASSUME Init PROVE RegistryInv
    OBVIOUS
<1>1. /\ upSessionManagers = [a \in Account |-> None] /\ mgrLoop = {}
      /\ \A d \in Miner : downStat[d] = "none"
    BY DEF Init, SMInit, MgrInit, DownInit
<1>2. ASSUME NEW m \in Mgr PROVE AtMostOne(chan, spawned, Told(m)) /\ NotTold(m)
    BY InitFree DEF NotTold
<1>3. \A a \in Account : Enlisted(a)
    BY <1>1 DEF Enlisted
<1>4. \A m \in Mgr : Dismissed(m) /\ ToldOnce(m)
    BY <1>1, <1>2 DEF Dismissed, ToldOnce
<1>5. NotYet
    BY <1>1 DEF NotYet
<1> QED
    BY <1>3, <1>4, <1>5 DEF RegistryInv

\* The map of SessionManager and the managers agree in every state: the manager
\* that a miner's sub-account leads to runs and is not told to exit, as long as
\* the agent runs, and every other manager that still runs is told so by one
\* message, neither none nor two.
THEOREM MapAndManagersAgree == Spec => []RegistryConsistent
<1>1. TypeInv /\ RegistryInv => RegistryConsistent
    <2> SUFFICES ASSUME TypeInv, RegistryInv PROVE RegistryConsistent
        OBVIOUS
    <2>0. MailInv /\ SMTypeOK /\ mgrLoop \subseteq Mgr
        BY DEF TypeInv, MgrInv, LoopsInv
    <2>1. ASSUME NEW m \in Mgr
          PROVE  InFlight(m, EventExit) = IF NotTold(m) THEN 0 ELSE 1
        <3>1. m \in Actor /\ AtMostOne(chan, spawned, {<<m, EventExit>>})
            BY Actors DEF RegistryInv, ToldOnce, Told
        <3>2. InFlight(m, EventExit) = IF Free(chan, spawned, {<<m, EventExit>>}) THEN 0 ELSE 1
            BY <2>0, <3>1, InFlightIs
        <3> QED
            BY <3>2 DEF NotTold, Told
    <2>2. ASSUME NEW a \in Account, upSessionManagers[a] # None
          PROVE  /\ mgrAccount[upSessionManagers[a]] = a
                 /\ smStat # "exited" => /\ upSessionManagers[a] \in mgrLoop
                                         /\ InFlight(upSessionManagers[a], EventExit) = 0
        <3>1. Enlisted(a) /\ upSessionManagers[a] \in Mgr
            BY <2>0, <2>2 DEF RegistryInv, SMTypeOK
        <3> QED
            BY <2>1, <2>2, <3>1 DEF Enlisted
    <2>3. ASSUME NEW m \in mgrLoop
          PROVE  upSessionManagers[mgrAccount[m]] = m \/ InFlight(m, EventExit) = 1
        BY <2>0, <2>1 DEF RegistryInv, Dismissed
    <2> QED
        BY <2>2, <2>3 DEF RegistryConsistent
<1>2. Init => TypeInv /\ RegistryInv
    BY InitTypeInv, InitRegistryInv
<1>3. TypeInv /\ RegistryInv /\ [Next]_vars => (TypeInv /\ RegistryInv)'
    BY NextTypeInv, NextRegistryInv
<1> QED
    BY <1>1, <1>2, <1>3, PTL DEF Spec
=============================================================================
