----------------------------- MODULE CustodyProofs -----------------------------
(***************************************************************************)
(* What Custody promises the models of jobs and shares, for any number of  *)
(* miners and pool sessions: a miner is on its way to one pool session at  *)
(* most, and only the session it was told to use serves it.                *)
(***************************************************************************)
EXTENDS Custody, MailboxProofs

\* The messages that move the miner d: to it, and to the session it joins.
Moving(d) == {<<d, EventSetUpSession(p)>> : p \in PoolSession}
Joining(d) == {<<p, EventAddDownSession(d)>> : p \in PoolSession}
Carriers(d) == Moving(d) \cup Joining(d)

\* Those that would make it join another session than its own.
JoiningElse(d) == {<<p, EventAddDownSession(d)>> : p \in PoolSession \ {upSession[d]}}

\* The sessions that serve d.
Holders(d) == {p \in PoolSession \cap open : d \in downSessions[p]}

CustodyOf(d) ==
    /\ AtMostOne(chan, spawned, Carriers(d))
    /\ Holders(d) # {} => Free(chan, spawned, Carriers(d))
    /\ Holders(d) \subseteq {upSession[d]}
    /\ Free(chan, spawned, JoiningElse(d))
CustodyInv == \A d \in Miner : CustodyOf(d)

\* The messages of the control plane.
Goodbyes == {<<p, EventDownSessionBroken(d)>> : p \in PoolSession, d \in Miner}
CustodyMail == (UNION {Carriers(d) : d \in Miner}) \cup Goodbyes

-----------------------------------------------------------------------------
(* One miner.                                                              *)

LEMMA JoiningElseIsCarrier ==
    ASSUME NEW d
    PROVE  JoiningElse(d) \subseteq Joining(d) /\ Joining(d) \subseteq Carriers(d)
BY DEF JoiningElse, Joining, Carriers

\* A step that does not move d.
LEMMA QuietCustody ==
    ASSUME NEW d \in Miner, NEW in, NEW out, Brings(in, out), CustodyOf(d),
           in \cap Carriers(d) = {}, out \cap Carriers(d) = {},
           Holders(d)' \subseteq Holders(d), upSession'[d] = upSession[d]
    PROVE  CustodyOf(d)'
<1>1. Carriers(d)' = Carriers(d) /\ JoiningElse(d)' = JoiningElse(d)
    BY DEF Carriers, Moving, Joining, JoiningElse
<1>2. AtMostOne(chan, spawned, Carriers(d)) /\ Free(chan, spawned, JoiningElse(d))
    BY DEF CustodyOf
<1>3. /\ AtMostOne(chan', spawned', Carriers(d))
      /\ Free(chan', spawned', Carriers(d)) <=> Free(chan, spawned, Carriers(d))
    BY <1>2 DEF Brings
<1>4. /\ in \cap JoiningElse(d) = {} /\ out \cap JoiningElse(d) = {}
      /\ AtMostOne(chan, spawned, JoiningElse(d))
    BY <1>2, JoiningElseIsCarrier, FreeIsAtMostOne
<1>5. Free(chan', spawned', JoiningElse(d))
    BY <1>2, <1>4 DEF Brings
<1> QED
    BY <1>1, <1>3, <1>5 DEF CustodyOf

\* d is told to use session p, which it joins.
LEMMA MovedCustody ==
    ASSUME NEW d \in Miner, NEW p \in PoolSession, CustodyOf(d),
           Passes({<<d, EventSetUpSession(p)>>}, {<<p, EventAddDownSession(d)>>}),
           ~Free(chan, spawned, Carriers(d)),
           Holders(d)' \subseteq Holders(d), upSession'[d] = p
    PROVE  CustodyOf(d)'
<1> DEFINE h == <<d, EventSetUpSession(p)>>
           m == <<p, EventAddDownSession(d)>>
           K == Carriers(d)
           L == K \ {m}
<1>1. Carriers(d)' = K
    BY DEF Carriers, Moving, Joining
<1>2. JoiningElse(d)' \subseteq L
    BY DEF JoiningElse, Carriers, Joining, EventAddDownSession
<1>3. h \in K /\ m \in K /\ h # m
    BY DEF Carriers, Moving, Joining, EventAddDownSession, EventSetUpSession
<1> HIDE DEF h, m, K
<1>4. {h} \cap K # {} /\ {m} \cap K = {m} /\ {h} \cap L # {} /\ {m} \cap L = {} /\ L \subseteq K
    BY <1>3
<1>5. AtMostOne(chan, spawned, K)
    BY DEF CustodyOf, K
<1>6. AtMostOne(chan, spawned, L)
    <2> HIDE DEF L
    <2> QED
        BY <1>4, <1>5, KindWithin
<1> HIDE DEF L
<1>7. Passes({h}, {m})
    BY DEF h, m
<1>8. AtMostOne(chan', spawned', K)
    BY <1>4, <1>5, <1>7 DEF Passes
<1>9. Free(chan', spawned', L)
    BY <1>4, <1>6, <1>7 DEF Passes
<1>10. Free(chan', spawned', JoiningElse(d)')
    BY <1>2, <1>9 DEF Free, Waits, Pends
<1>11. Holders(d) = {}
    BY DEF CustodyOf
<1> QED
    BY <1>1, <1>8, <1>10, <1>11 DEF CustodyOf

\* d joins the session it was told to use.
LEMMA JoinedCustody ==
    ASSUME NEW d \in Miner, NEW p \in PoolSession, NEW out, CustodyOf(d),
           Brings({<<p, EventAddDownSession(d)>>}, out), out \cap Carriers(d) = {},
           Holders(d)' \subseteq Holders(d) \cup {p}, upSession'[d] = upSession[d]
    PROVE  CustodyOf(d)'
<1> DEFINE m == <<p, EventAddDownSession(d)>>
           K == Carriers(d)
           L == JoiningElse(d)
<1>1. Carriers(d)' = K /\ JoiningElse(d)' = L
    BY DEF Carriers, Moving, Joining, JoiningElse
<1>2. m \in K
    BY DEF Carriers, Joining
<1>3. AtMostOne(chan, spawned, K) /\ Free(chan, spawned, L) /\ AtMostOne(chan, spawned, L)
    BY FreeIsAtMostOne DEF CustodyOf
<1>4. L \subseteq K /\ (p # upSession[d] => m \in L)
    BY JoiningElseIsCarrier DEF JoiningElse
<1>5. Brings({m}, out) /\ out \cap K = {} /\ out \cap L = {}
    BY <1>4
<1> HIDE DEF m, K, L
<1>6. Free(chan', spawned', K) /\ ~Free(chan, spawned, K)
    <2>1. {m} \cap K # {}
        BY <1>2
    <2> QED
        BY <1>3, <1>5, <2>1 DEF Brings
<1>7. m \notin L
    <2>1. SUFFICES ASSUME {m} \cap L # {} PROVE FALSE
        OBVIOUS
    <2> QED
        BY <1>3, <1>5, <2>1 DEF Brings
<1>8. AtMostOne(chan', spawned', K) /\ Free(chan', spawned', L)
    BY <1>4, <1>6, FreeIsAtMostOne DEF Free, Waits, Pends
<1>9. Holders(d) = {}
    BY <1>6 DEF CustodyOf, K
<1>10. Holders(d)' \subseteq {upSession'[d]}
    BY <1>4, <1>7, <1>9
<1> QED
    BY <1>1, <1>6, <1>8, <1>10 DEF CustodyOf

\* The session that serves d gives it back, and d gets a message m to move.
LEMMA GivenBackCustody ==
    ASSUME NEW d \in Miner, NEW p \in PoolSession, NEW out, NEW m, CustodyOf(d),
           Passes({}, out), out \cap Carriers(d) = {m}, m \in Moving(d),
           p \in Holders(d), Holders(d)' \subseteq Holders(d) \ {p}, upSession'[d] = upSession[d]
    PROVE  CustodyOf(d)'
<1> DEFINE K == Carriers(d)
           L == JoiningElse(d)
<1>1. Carriers(d)' = K /\ JoiningElse(d)' = L
    BY DEF Carriers, Moving, Joining, JoiningElse
<1>2. m \notin L
    BY DEF Moving, JoiningElse, EventSetUpSession, EventAddDownSession
<1>3. L \subseteq K
    BY JoiningElseIsCarrier
<1>4. /\ AtMostOne(chan, spawned, K) /\ Free(chan, spawned, K)
      /\ AtMostOne(chan, spawned, L) /\ Free(chan, spawned, L)
    BY FreeIsAtMostOne DEF CustodyOf
<1>5. Holders(d)' = {}
    BY DEF CustodyOf
<1>6. out \cap K = {m}
    OBVIOUS
<1> HIDE DEF K, L
<1>7. AtMostOne(chan', spawned', K)
    BY <1>4, <1>6 DEF Passes
<1>8. out \cap L = {} /\ {} \cap L = {}
    BY <1>2, <1>3, <1>6
<1>9. Free(chan', spawned', L)
    BY <1>4, <1>8 DEF Passes
<1> QED
    BY <1>1, <1>5, <1>7, <1>9 DEF CustodyOf

-----------------------------------------------------------------------------
(* All miners.                                                             *)

CustodyTypes == upSession \in [Miner -> PoolSession \cup {None}] /\ downSessions \in [PoolSession -> SUBSET Miner]

\* Messages that move nobody.
Moveless(msgs) == \A d \in Miner : msgs \cap Carriers(d) = {}

\* A message moves one miner.
LEMMA CarriersDiffer ==
    ASSUME NEW c \in Miner, NEW d \in Miner, c # d
    PROVE  Carriers(c) \cap Carriers(d) = {}
<1>1. Moving(c) \cap Moving(d) = {}
    BY DEF Moving
<1>2. Joining(c) \cap Joining(d) = {}
    BY DEF Joining, EventAddDownSession
<1>3. Moving(c) \cap Joining(d) = {} /\ Joining(c) \cap Moving(d) = {}
    BY DEF Moving, Joining, EventAddDownSession, EventSetUpSession
<1> QED
    BY <1>1, <1>2, <1>3 DEF Carriers

\* Steps that move nobody; a session may lose miners and end.
LEMMA MovelessCustody ==
    ASSUME CustodyInv, NEW in, NEW out, Brings(in, out), Moveless(in), Moveless(out),
           \A d \in Miner : Holders(d)' \subseteq Holders(d), upSession' = upSession
    PROVE  CustodyInv'
<1> SUFFICES ASSUME NEW d \in Miner PROVE CustodyOf(d)'
    BY DEF CustodyInv
<1>1. CustodyOf(d)
    BY DEF CustodyInv
<1>2. in \cap Carriers(d) = {} /\ out \cap Carriers(d) = {}
    BY DEF Moveless
<1>3. Holders(d)' \subseteq Holders(d) /\ upSession'[d] = upSession[d]
    OBVIOUS
<1> QED
    BY <1>1, <1>2, <1>3, QuietCustody

\* setUpSession.
LEMMA SetUpSessionCustody ==
    ASSUME CustodyInv, CustodyTypes, IsChan(chan), IsABag(spawned),
           NEW d \in Miner, NEW p \in PoolSession, Head(chan[d]) = EventSetUpSession(p),
           SetUpSession(d)
    PROVE  /\ CustodyInv'
           /\ Passes({<<d, EventSetUpSession(p)>>}, {<<p, EventAddDownSession(d)>>})
<1>0. d \in Actor /\ p \in Actor
    BY DEF Actor
<1>1. EventSetUpSession(p).session = p
    BY DEF EventSetUpSession
<1>2. /\ chan[d] # <<>>
      /\ upSession' = [upSession EXCEPT ![d] = p]
      /\ Handles(d, To(p, EventAddDownSession(d)), {})
      /\ open' = open /\ downSessions' = downSessions
    BY <1>1 DEF SetUpSession, DownReceives, Receives
<1>3. OneEach(To(p, EventAddDownSession(d))) /\ Posts(To(p, EventAddDownSession(d))) = {<<p, EventAddDownSession(d)>>}
    BY <1>0, ToPosts
<1>4. Passes({<<d, Head(chan[d])>>}, Posts(To(p, EventAddDownSession(d))) \cup {})
    BY <1>0, <1>2, <1>3, HandlesPasses
<1>5. Passes({<<d, EventSetUpSession(p)>>}, {<<p, EventAddDownSession(d)>>})
    BY <1>3, <1>4
<1>6. \A c \in Miner : Holders(c)' = Holders(c)
    BY <1>2 DEF Holders
<1>7. <<d, EventSetUpSession(p)>> \in Carriers(d) /\ <<p, EventAddDownSession(d)>> \in Carriers(d)
    BY DEF Carriers, Moving, Joining
<1>8. ASSUME NEW c \in Miner PROVE CustodyOf(c)'
    <2>1. CustodyOf(c)
        BY DEF CustodyInv
    <2>2. CASE c = d
        <3>1. ~Free(chan, spawned, Carriers(d))
            BY <1>0, <1>2, <1>7, HeadIsSent
        <3>2. upSession'[d] = p
            BY <1>2 DEF CustodyTypes
        <3>3. CustodyOf(d)'
            BY <1>5, <1>6, <2>1, <2>2, <3>1, <3>2, MovedCustody
        <3> QED
            BY <2>2, <3>3
    <2>3. CASE c # d
        <3>1. /\ {<<d, EventSetUpSession(p)>>} \cap Carriers(c) = {}
              /\ {<<p, EventAddDownSession(d)>>} \cap Carriers(c) = {}
            BY <1>7, <2>3, CarriersDiffer
        <3>2. upSession'[c] = upSession[c]
            BY <1>2, <2>3 DEF CustodyTypes
        <3>3. Brings({<<d, EventSetUpSession(p)>>}, {<<p, EventAddDownSession(d)>>})
            BY <1>5, PassesBrings
        <3> QED
            BY <1>6, <2>1, <3>1, <3>2, <3>3, QuietCustody
    <2> QED
        BY <2>2, <2>3
<1> QED
    BY <1>5, <1>8 DEF CustodyInv

\* addDownSession.
LEMMA JoinsCustody ==
    ASSUME CustodyInv, CustodyTypes, NEW d \in Miner, NEW p \in PoolSession, NEW out,
           Brings({<<p, EventAddDownSession(d)>>}, out), Moveless(out),
           Joins(p, d), open' = open, upSession' = upSession
    PROVE  CustodyInv'
<1>1. \A c \in Miner : Holders(c)' \subseteq Holders(c) \cup (IF c = d THEN {p} ELSE {})
    BY DEF Holders, Joins, CustodyTypes
<1>2. <<p, EventAddDownSession(d)>> \in Carriers(d)
    BY DEF Carriers, Joining
<1> SUFFICES ASSUME NEW c \in Miner PROVE CustodyOf(c)'
    BY DEF CustodyInv
<1>3. CustodyOf(c) /\ out \cap Carriers(c) = {}
    BY DEF CustodyInv, Moveless
<1>4. CASE c = d
    <2>1. Holders(d)' \subseteq Holders(d) \cup {p} /\ upSession'[d] = upSession[d]
        BY <1>1
    <2>2. CustodyOf(d)'
        BY <1>3, <1>4, <2>1, JoinedCustody
    <2> QED
        BY <1>4, <2>2
<1>5. CASE c # d
    <2>1. {<<p, EventAddDownSession(d)>>} \cap Carriers(c) = {}
        BY <1>2, <1>5, CarriersDiffer
    <2>2. Holders(c)' \subseteq Holders(c) /\ upSession'[c] = upSession[c]
        BY <1>1, <1>5
    <2> QED
        BY <1>3, <2>1, <2>2, QuietCustody
<1> QED
    BY <1>4, <1>5

\* A session gives its miners back, each to one of the sessions ps.
LEMMA GivesBackCustody ==
    ASSUME CustodyInv, CustodyTypes, NEW p \in PoolSession \cap open, NEW ps, ps \subseteq PoolSession,
           NEW pending \in Rehomings(downSessions[p], ps), NEW out,
           Passes({}, out \cup pending), Moveless(out),
           \A d \in Miner : Holders(d)' \subseteq Holders(d) \ {p}, upSession' = upSession
    PROVE  CustodyInv'
<1>1. PICK f \in [downSessions[p] -> ps] :
         pending = {<<d, EventSetUpSession(f[d])>> : d \in downSessions[p]}
    BY DEF Rehomings
<1>2. downSessions[p] \subseteq Miner
    BY DEF CustodyTypes
<1> SUFFICES ASSUME NEW c \in Miner PROVE CustodyOf(c)'
    BY DEF CustodyInv
<1>3. CustodyOf(c) /\ out \cap Carriers(c) = {} /\ upSession'[c] = upSession[c]
    BY DEF CustodyInv, Moveless
<1>4. \A d \in downSessions[p] : <<d, EventSetUpSession(f[d])>> \in Moving(d)
    BY <1>1 DEF Moving
<1>5. CASE c \in downSessions[p]
    <2> DEFINE m == <<c, EventSetUpSession(f[c])>>
    <2>1. m \in pending /\ m \in Moving(c)
        BY <1>1, <1>4, <1>5
    <2>2. ASSUME NEW n \in pending, n \in Carriers(c) PROVE n = m
        <3>1. PICK d \in downSessions[p] : n = <<d, EventSetUpSession(f[d])>>
            BY <1>1, <2>2
        <3>2. n \in Carriers(d)
            BY <1>4, <3>1 DEF Carriers
        <3>3. d = c
            BY <1>2, <2>2, <3>2, CarriersDiffer
        <3> QED
            BY <3>1, <3>3
    <2> HIDE DEF m
    <2>3. (out \cup pending) \cap Carriers(c) = {m}
        BY <1>3, <2>1, <2>2 DEF Carriers
    <2>4. p \in Holders(c) /\ Holders(c)' \subseteq Holders(c) \ {p}
        BY <1>5 DEF Holders
    <2> QED
        BY <1>3, <2>1, <2>3, <2>4, GivenBackCustody
<1>6. CASE c \notin downSessions[p]
    <2>1. ASSUME NEW n \in pending PROVE n \notin Carriers(c)
        <3>1. PICK d \in downSessions[p] : n = <<d, EventSetUpSession(f[d])>>
            BY <1>1, <2>1
        <3>2. n \in Carriers(d) /\ d # c
            BY <1>4, <1>6, <3>1 DEF Carriers
        <3> QED
            BY <1>2, <3>2, CarriersDiffer
    <2>2. (out \cup pending) \cap Carriers(c) = {} /\ {} \cap Carriers(c) = {}
        BY <1>3, <2>1
    <2>3. Brings({}, out \cup pending)
        BY PassesBrings
    <2>4. Holders(c)' \subseteq Holders(c)
        OBVIOUS
    <2> QED
        BY <1>3, <2>2, <2>3, <2>4, QuietCustody
<1> QED
    BY <1>5, <1>6

-----------------------------------------------------------------------------
(* The steps of the control plane.                                         *)

LEMMA GoodbyeMovesNobody ==
    ASSUME NEW M, M \subseteq Goodbyes
    PROVE  Moveless(M) /\ M \subseteq CustodyMail
<1>1. ASSUME NEW d \in Miner, NEW m \in Goodbyes PROVE m \notin Carriers(d)
    <2>1. m[2].type = "DownSessionBroken"
        BY DEF Goodbyes, EventDownSessionBroken
    <2>2. \A n \in Carriers(d) : n[2].type \in {"SetUpSession", "AddDownSession"}
        BY DEF Carriers, Moving, Joining, EventSetUpSession, EventAddDownSession
    <2> QED
        BY <2>1, <2>2
<1>2. Moveless(M)
    BY <1>1 DEF Moveless
<1> QED
    BY <1>2 DEF CustodyMail

LEMMA BrokenSaysGoodbye ==
    ASSUME CustodyTypes, NEW d \in Miner
    PROVE  Broken(d) \subseteq Goodbyes
BY DEF CustodyTypes, Broken, Goodbyes

LEMMA RehomingsAreMoves ==
    ASSUME CustodyTypes, NEW p \in PoolSession, NEW ps, ps \subseteq PoolSession,
           NEW pending \in Rehomings(downSessions[p], ps)
    PROVE  pending \subseteq CustodyMail
<1>1. PICK f \in [downSessions[p] -> ps] :
         pending = {<<d, EventSetUpSession(f[d])>> : d \in downSessions[p]}
    BY DEF Rehomings
<1>2. \A d \in downSessions[p] : d \in Miner /\ <<d, EventSetUpSession(f[d])>> \in Carriers(d)
    BY <1>1 DEF CustodyTypes, Carriers, Moving
<1> QED
    BY <1>1, <1>2 DEF CustodyMail

\* A message that goes nowhere moves nobody.
LEMMA NothingMoves == Moveless({}) /\ {} \subseteq CustodyMail
BY DEF Moveless

LEMMA MinerLeavesCustody ==
    ASSUME CustodyInv, CustodyTypes, IsChan(chan), IsABag(spawned), NEW d \in Miner, MinerLeaves(d)
    PROVE  CustodyInv' /\ Passes({}, Broken(d))
<1>1. /\ Sends(Nothing, Broken(d))
      /\ upSession' = upSession /\ open' = open /\ downSessions' = downSessions
    BY DEF MinerLeaves, DownCloses
<1>2. Posts(Nothing) \cap Broken(d) = {} /\ Posts(Nothing) \cup Broken(d) = Broken(d) /\ OneEach(Nothing)
    BY NothingPosts
<1>3. Passes({}, Broken(d))
    <2>1. Passes({}, Posts(Nothing) \cup Broken(d))
        BY <1>1, <1>2, SendsPasses
    <2> QED
        BY <1>2, <2>1
<1>4. Brings({}, Broken(d)) /\ Moveless(Broken(d)) /\ Moveless({})
    BY <1>3, PassesBrings, BrokenSaysGoodbye, GoodbyeMovesNobody, NothingMoves
<1>5. \A c \in Miner : Holders(c)' \subseteq Holders(c)
    BY <1>1 DEF Holders
<1> QED
    BY <1>1, <1>3, <1>4, <1>5, MovelessCustody

LEMMA DownSessionBrokenCustody ==
    ASSUME CustodyInv, CustodyTypes, IsChan(chan), IsABag(spawned), NEW p \in PoolSession,
           Head(chan[p]).type = "DownSessionBroken", DownSessionBroken(p)
    PROVE  CustodyInv' /\ Passes({<<p, Head(chan[p])>>}, {})
<1>1. /\ chan[p] # <<>> /\ Handles(p, Nothing, {})
      /\ upSession' = upSession /\ open' = open
      /\ Leaves(p, Head(chan[p]).sessionID)
    BY DEF DownSessionBroken, UpReceives, Receives
<1>2. Posts(Nothing) \cap {} = {} /\ Posts(Nothing) \cup {} = {} /\ OneEach(Nothing) /\ p \in Actor
    BY NothingPosts DEF Actor
<1>3. Passes({<<p, Head(chan[p])>>}, {})
    <2>1. Passes({<<p, Head(chan[p])>>}, Posts(Nothing) \cup {})
        BY <1>1, <1>2, HandlesPasses
    <2> QED
        BY <1>2, <2>1
<1>4. Moveless({<<p, Head(chan[p])>>})
    BY DEF Moveless, Carriers, Moving, Joining, EventSetUpSession, EventAddDownSession
<1>5. \A c \in Miner : Holders(c)' \subseteq Holders(c)
    BY <1>1 DEF Holders, Leaves, CustodyTypes
<1>6. Brings({<<p, Head(chan[p])>>}, {}) /\ Moveless({})
    BY <1>3, PassesBrings, NothingMoves
<1> QED
    BY <1>1, <1>3, <1>4, <1>5, <1>6, MovelessCustody

LEMMA TransferCustody ==
    ASSUME CustodyInv, CustodyTypes, IsChan(chan), IsABag(spawned), NEW p \in FakeSessions,
           open \subseteq PoolSession, FakeSessions \subseteq open, TransferDownSessions(p)
    PROVE  /\ CustodyInv'
           /\ \E pending : pending \subseteq CustodyMail /\ Sends(Nothing, pending) /\ Passes({}, pending)
<1>1. PICK pending \in Rehomings(downSessions[p], open) : Sends(Nothing, pending)
    BY DEF TransferDownSessions
<1>2. /\ upSession' = upSession /\ open' = open
      /\ downSessions' = [downSessions EXCEPT ![p] = {}]
    BY DEF TransferDownSessions
<1>3. p \in PoolSession \cap open
    OBVIOUS
<1>4. Passes({}, pending)
    <2>1. Posts(Nothing) \cap pending = {} /\ Posts(Nothing) \cup pending = pending /\ OneEach(Nothing)
        BY NothingPosts
    <2>2. Passes({}, Posts(Nothing) \cup pending)
        BY <1>1, <2>1, SendsPasses
    <2> QED
        BY <2>1, <2>2
<1>5. Passes({}, {} \cup pending) /\ Moveless({})
    <2>1. {} \cup pending = pending
        OBVIOUS
    <2> QED
        BY <1>4, <2>1, NothingMoves
<1>6. \A c \in Miner : Holders(c)' \subseteq Holders(c) \ {p}
    BY <1>2 DEF Holders, CustodyTypes
<1>7. CustodyInv'
    BY <1>1, <1>2, <1>3, <1>5, <1>6, GivesBackCustody
<1>8. pending \subseteq CustodyMail
    BY <1>1, <1>3, RehomingsAreMoves
<1> QED
    BY <1>1, <1>4, <1>7, <1>8

\* Every miner is on its way to its first session.
LEMMA InitCustody ==
    ASSUME CustodyInit
    PROVE  CustodyInv /\ CustodyTypeOK /\ Mail(chan, spawned, CustodyMail)
<1>1. PICK f \in [Miner -> PoolSession] :
         chan = [a \in Actor |-> IF a \in Miner THEN <<EventSetUpSession(f[a])>> ELSE <<>>]
    BY DEF CustodyInit
<1>2. spawned = EmptyBag /\ downSessions = [p \in PoolSession |-> {}]
    BY DEF CustodyInit
<1>3. DOMAIN spawned = {} /\ IsABag(spawned)
    BY <1>2 DEF EmptyBag, IsABag, SetToBag
<1>4. \A a \in Actor : \A i \in DOMAIN chan[a] :
         a \in Miner /\ i = 1 /\ chan[a][i] = EventSetUpSession(f[a])
    BY <1>1
<1>5. IsChan(chan)
    <2>1. ASSUME NEW a \in Actor PROVE IsSequence(chan[a])
        <3>1. CASE a \in Miner
            <4>1. chan[a] = <<EventSetUpSession(f[a])>>
                BY <1>1, <3>1
            <4>2. <<EventSetUpSession(f[a])>> \in Seq({EventSetUpSession(f[a])})
                OBVIOUS
            <4> QED
                BY <4>1, <4>2 DEF IsSequence
        <3>2. CASE a \notin Miner
            BY <1>1, <3>2, EmptyIsSequence
        <3> QED
            BY <3>1, <3>2
    <2> QED
        BY <1>1, <2>1 DEF IsChan
<1>6. \A d \in Miner : <<d, EventSetUpSession(f[d])>> \in Carriers(d) \ Joining(d)
    BY <1>1 DEF Carriers, Moving, Joining, EventSetUpSession, EventAddDownSession
<1>7. Mail(chan, spawned, CustodyMail)
    BY <1>3, <1>4, <1>5, <1>6 DEF Mail, CustodyMail
<1>8. ASSUME NEW d \in Miner PROVE CustodyOf(d)
    <2>1. ASSUME NEW a \in Actor, NEW i \in DOMAIN chan[a], <<a, chan[a][i]>> \in Carriers(d)
          PROVE  a = d /\ i = 1
        <3>1. a \in Miner /\ i = 1 /\ <<a, chan[a][i]>> \in Carriers(a)
            BY <1>4, <1>6
        <3> QED
            BY <2>1, <3>1, CarriersDiffer
    <2>2. WaitsOnce(chan, Carriers(d))
        BY <2>1 DEF WaitsOnce
    <2>3. AtMostOne(chan, spawned, Carriers(d))
        BY <1>3, <2>2 DEF AtMostOne, PendsOnce, Pends
    <2>4. ~Waits(chan, JoiningElse(d))
        <3>1. JoiningElse(d) \subseteq Carriers(d) /\ JoiningElse(d) \subseteq Joining(d)
            BY JoiningElseIsCarrier
        <3>2. SUFFICES ASSUME NEW a \in Actor, NEW i \in DOMAIN chan[a], <<a, chan[a][i]>> \in JoiningElse(d)
                       PROVE  FALSE
            BY DEF Waits
        <3>3. a = d /\ a \in Miner /\ chan[a][i] = EventSetUpSession(f[a])
            BY <1>4, <2>1, <3>1, <3>2
        <3> QED
            BY <1>6, <3>1, <3>2, <3>3
    <2>5. Free(chan, spawned, JoiningElse(d))
        BY <1>3, <2>4 DEF Free, Pends
    <2>6. Holders(d) = {}
        BY <1>2 DEF Holders
    <2> QED
        BY <2>3, <2>5, <2>6 DEF CustodyOf
<1>9. CustodyTypeOK
    BY DEF CustodyInit, CustodyTypeOK
<1> QED
    BY <1>7, <1>8, <1>9 DEF CustodyInv
=============================================================================
