---------------------------- MODULE MiningBTCProofs ----------------------------
(***************************************************************************)
(* The greeting of the BTC miners, for any number of miners and of real    *)
(* and fake pool sessions, and whichever sessions break.                   *)
(***************************************************************************)
EXTENDS MiningBTC, CustodyProofs, SequenceTheorems

\* The messages, by what sends them.
LineMail == {<<d, EventSendBytes(p, k)>> : d \in Miner, p \in PoolSession, k \in Kind}
FakeJobMail == {<<p, EventUpdateFakeJobBTC(j)>> : p \in FakeSessions, j \in JobKind}
BTCMail == CustodyMail \cup LineMail \cup FakeJobMail

\* The lines of session u for the miner d.
LinesOf(d, u) == {<<d, EventSendBytes(u, k)>> : k \in Kind}

\* A miner that a session serves was taken by it last; no real session takes
\* one twice; and none that has not taken it has a line for it under way.
Settled(d) ==
    /\ Holders(d) \subseteq {host[d]}
    /\ host[d] \in Up \cap open => Free(chan, spawned, Carriers(d))
    /\ \A u \in Up \cap open : u # host[d] => Free(chan, spawned, LinesOf(d, u))

\* What has to come behind the greeting.
Late == JobKind \cup {"ownDifficulty"}

\* The channel s of a miner that has been sent the lines t of session h, which
\* had the lines w for it: what it was not sent of these is in s, and in front of
\* each of the late ones.
Greeted(s, h, w, t) ==
    /\ \A l \in Late : l \in t => w \subseteq t
    /\ \A k \in w : k \in t \/ \E j \in DOMAIN s : s[j] = EventSendBytes(h, k)
    /\ \A i \in DOMAIN s, l \in Late : s[i] = EventSendBytes(h, l) =>
          \A k \in w : k \in t \/ \E j \in DOMAIN s : j <= i /\ s[j] = EventSendBytes(h, k)
Welcomed(d) == host[d] \in Up => Greeted(chan[d], host[d], had[d] \ {"rolls"}, told[d])

\* Inductive.
BTCInv ==
    /\ BTCTypeOK
    /\ FakeSessions \subseteq open
    /\ Mail(chan, spawned, BTCMail)
    /\ CustodyInv
    /\ \A d \in Miner : Settled(d)
    /\ \A d \in Miner : Welcomed(d)

-----------------------------------------------------------------------------
(* Channels of miners.                                                     *)

\* Whatever comes behind, the greeting stays in front.
LEMMA AppendedGreeted ==
    ASSUME NEW STATE ch, NEW STATE sends, IsChan(ch), Several(sends), NEW d \in Miner,
           NEW h, NEW w, NEW t, Greeted(ch[d], h, w, t)
    PROVE  Greeted(Appended(ch, sends)[d], h, w, t)
<1> DEFINE s == ch[d]
           r == Appended(ch, sends)[d]
<1>0. d \in Actor
    BY DEF Actor
<1>1. /\ \A i \in DOMAIN s : i \in DOMAIN r /\ r[i] = s[i]
      /\ \A i \in DOMAIN r : i \notin DOMAIN s =>
            <<d, r[i]>> \in AllPosts(sends) /\ i \in Nat /\ \A j \in DOMAIN s : j < i
    BY <1>0, AppendedSeveral
<1>2. DOMAIN s \subseteq Nat
    BY <1>0, IndicesAreNumbers DEF IsChan
<1>3. Greeted(s, h, w, t)
    OBVIOUS
<1> HIDE DEF s, r
<1>4. ASSUME NEW k \in w PROVE k \in t \/ \E j \in DOMAIN r : r[j] = EventSendBytes(h, k)
    BY <1>1, <1>3 DEF Greeted
<1>5. ASSUME NEW i \in DOMAIN r, NEW l \in Late, r[i] = EventSendBytes(h, l), NEW k \in w, k \notin t
      PROVE  \E j \in DOMAIN r : j <= i /\ r[j] = EventSendBytes(h, k)
    <2>1. CASE i \in DOMAIN s
        <3>1. s[i] = EventSendBytes(h, l)
            BY <1>1, <1>5, <2>1
        <3>2. PICK j \in DOMAIN s : j <= i /\ s[j] = EventSendBytes(h, k)
            BY <1>3, <1>5, <2>1, <3>1 DEF Greeted
        <3> QED
            BY <1>1, <3>2
    <2>2. CASE i \notin DOMAIN s
        <3>1. PICK j \in DOMAIN s : s[j] = EventSendBytes(h, k)
            BY <1>3, <1>5 DEF Greeted
        <3>2. j \in DOMAIN r /\ r[j] = EventSendBytes(h, k)
            BY <1>1, <3>1
        <3>3. i \in Nat /\ j \in Nat /\ j < i
            BY <1>1, <1>2, <2>2, <3>1
        <3> QED
            BY <3>2, <3>3
    <2> QED
        BY <2>1, <2>2
<1>6. Greeted(r, h, w, t)
    BY <1>3, <1>4, <1>5 DEF Greeted
<1> QED
    BY <1>6 DEF r

\* The miner handles an event, and is sent the line if it is one.
LEMMA TakenGreeted ==
    ASSUME NEW STATE ch, NEW STATE d, d \in Actor, IsChan(ch), ch[d] # <<>>,
           NEW h, NEW w, NEW t, NEW t2, Greeted(ch[d], h, w, t),
           \A k : k \in t2 <=> (k \in t \/ Head(ch[d]) = EventSendBytes(h, k))
    PROVE  Greeted(Taken(ch, d)[d], h, w, t2)
<1> DEFINE s == ch[d]
           r == Taken(ch, d)[d]
<1>1. /\ 1 \in DOMAIN s /\ Head(s) = s[1]
      /\ \A i \in DOMAIN r : i \in Nat \ {0} /\ i + 1 \in DOMAIN s /\ r[i] = s[i + 1]
      /\ \A i \in DOMAIN s : i = 1 \/ (i - 1 \in DOMAIN r /\ r[i - 1] = s[i])
    BY TakenChannel
<1>2. Greeted(s, h, w, t) /\ \A k : k \in t2 <=> (k \in t \/ s[1] = EventSendBytes(h, k))
    BY <1>1
<1>3. DOMAIN s \subseteq Nat
    BY IndicesAreNumbers DEF IsChan
<1> HIDE DEF s, r
<1>4. ASSUME NEW l \in Late, l \in t2, NEW k \in w PROVE k \in t2
    <2>1. CASE l \in t
        BY <1>2, <1>4, <2>1 DEF Greeted
    <2>2. CASE s[1] = EventSendBytes(h, l)
        <3>1. k \in t \/ \E j \in DOMAIN s : j <= 1 /\ s[j] = EventSendBytes(h, k)
            BY <1>1, <1>2, <2>2 DEF Greeted
        <3>2. CASE k \in t
            BY <1>2, <3>2
        <3>3. CASE k \notin t
            <4>1. PICK j \in DOMAIN s : j <= 1 /\ s[j] = EventSendBytes(h, k)
                BY <3>1, <3>3
            <4>2. j = 1
                <5>1. CASE j - 1 \in DOMAIN r
                    <6>1. j - 1 \in Nat \ {0} /\ j \in Nat
                        BY <1>1, <1>3, <5>1
                    <6> QED
                        BY <4>1, <6>1
                <5> QED
                    BY <1>1, <5>1
            <4> QED
                BY <1>2, <4>1, <4>2
        <3> QED
            BY <3>2, <3>3
    <2> QED
        BY <1>2, <1>4, <2>1, <2>2
<1>5. ASSUME NEW k \in w, k \notin t2 PROVE \E j \in DOMAIN r : r[j] = EventSendBytes(h, k)
    <2>1. k \notin t /\ s[1] # EventSendBytes(h, k)
        BY <1>2, <1>5
    <2>2. PICK j \in DOMAIN s : s[j] = EventSendBytes(h, k)
        BY <1>2, <2>1 DEF Greeted
    <2> QED
        BY <1>1, <2>1, <2>2
<1>6. ASSUME NEW i \in DOMAIN r, NEW l \in Late, r[i] = EventSendBytes(h, l), NEW k \in w, k \notin t2
      PROVE  \E j \in DOMAIN r : j <= i /\ r[j] = EventSendBytes(h, k)
    <2>1. k \notin t /\ s[1] # EventSendBytes(h, k)
        BY <1>2, <1>6
    <2>2. i + 1 \in DOMAIN s /\ s[i + 1] = EventSendBytes(h, l) /\ i \in Nat
        BY <1>1, <1>6
    <2>3. PICK j \in DOMAIN s : j <= i + 1 /\ s[j] = EventSendBytes(h, k)
        BY <1>2, <2>1, <2>2 DEF Greeted
    <2>4. j - 1 \in DOMAIN r /\ r[j - 1] = EventSendBytes(h, k)
        BY <1>1, <2>1, <2>3
    <2>5. j \in Nat
        BY <1>3
    <2>6. j - 1 <= i
        BY <2>2, <2>3, <2>5
    <2> QED
        BY <2>4, <2>6
<1>7. Greeted(r, h, w, t2)
    BY <1>4, <1>5, <1>6 DEF Greeted
<1> QED
    BY <1>7 DEF r

-----------------------------------------------------------------------------
(* The parts and the messages.                                             *)

LEMMA Parts ==
    /\ Miner \subseteq Actor /\ PoolSession \subseteq Actor
    /\ Up \subseteq PoolSession /\ FakeSessions \subseteq PoolSession
    /\ Miner \cap PoolSession = {} /\ Up \cap FakeSessions = {}
    /\ None \notin Up /\ None \notin PoolSession
BY ActorAssumption DEF Actor, PoolSession, FakeSessions

LEMMA BTCMailIsFixed == BTCMail' = BTCMail
BY DEF BTCMail, CustodyMail, Carriers, Moving, Joining, Goodbyes, LineMail, FakeJobMail

\* What an invariant state gives the lemmas about Custody.
LEMMA Typed ==
    ASSUME BTCInv
    PROVE  /\ CustodyTypes /\ CustodyTypeOK /\ open \subseteq PoolSession
           /\ IsChan(chan) /\ IsABag(spawned) /\ CustodyInv /\ Mail(chan, spawned, BTCMail)
BY DEF BTCInv, BTCTypeOK, CustodyTypeOK, CustodyTypes, Mail

\* An event that is handled is one of the messages above.
LEMMA MailKinds ==
    ASSUME NEW a, NEW e, <<a, e>> \in BTCMail
    PROVE  /\ e.type = "SetUpSession" => \E p \in PoolSession : e = EventSetUpSession(p)
           /\ e.type = "AddDownSession" => \E d \in Miner : e = EventAddDownSession(d)
           /\ e.type = "SendBytes" => e.kind \in Kind /\ e = EventSendBytes(e.session, e.kind)
           /\ e.type = "UpdateFakeJobBTC" => e.job \in JobKind
<1>1. CASE <<a, e>> \in CustodyMail
    <2>1. CASE \E d \in Miner : <<a, e>> \in Moving(d)
        BY <2>1 DEF Moving, EventSetUpSession
    <2>2. CASE \E d \in Miner : <<a, e>> \in Joining(d)
        BY <2>2 DEF Joining, EventAddDownSession
    <2>3. CASE <<a, e>> \in Goodbyes
        BY <2>3 DEF Goodbyes, EventDownSessionBroken
    <2> QED
        BY <1>1, <2>1, <2>2, <2>3 DEF CustodyMail, Carriers
<1>2. CASE <<a, e>> \in LineMail
    BY <1>2 DEF LineMail, EventSendBytes
<1>3. CASE <<a, e>> \in FakeJobMail
    BY <1>3 DEF FakeJobMail, EventUpdateFakeJobBTC
<1> QED
    BY <1>1, <1>2, <1>3 DEF BTCMail

LEMMA HeadKinds ==
    ASSUME BTCInv, NEW a \in Actor, chan[a] # <<>>
    PROVE  <<a, Head(chan[a])>> \in BTCMail
<1>1. Mail(chan, spawned, BTCMail) /\ IsChan(chan)
    BY Typed
<1>2. 1 \in DOMAIN chan[a] /\ Head(chan[a]) = chan[a][1]
    BY <1>1, TakenChannel
<1> QED
    BY <1>1, <1>2 DEF Mail

LEMMA LinesMoveNobody ==
    ASSUME NEW M, M \subseteq LineMail \cup FakeJobMail
    PROVE  Moveless(M) /\ M \subseteq BTCMail
<1>1. \A m \in M : m[2].type \in {"SendBytes", "UpdateFakeJobBTC"}
    BY DEF LineMail, FakeJobMail, EventSendBytes, EventUpdateFakeJobBTC
<1>2. \A d \in Miner : \A n \in Carriers(d) : n[2].type \in {"SetUpSession", "AddDownSession"}
    BY DEF Carriers, Moving, Joining, EventSetUpSession, EventAddDownSession
<1>3. M \subseteq BTCMail
    BY DEF BTCMail
<1> QED
    BY <1>1, <1>2, <1>3 DEF Moveless

LEMMA NoLines ==
    ASSUME NEW M, M \subseteq CustodyMail \cup FakeJobMail, NEW d, NEW u
    PROVE  M \cap LinesOf(d, u) = {}
<1>1. \A m \in LinesOf(d, u) : m[2].type = "SendBytes"
    BY DEF LinesOf, EventSendBytes
<1>2. ASSUME NEW m \in CustodyMail PROVE m[2].type # "SendBytes"
    <2>1. CASE \E c \in Miner : m \in Moving(c)
        BY <2>1 DEF Moving, EventSetUpSession
    <2>2. CASE \E c \in Miner : m \in Joining(c)
        BY <2>2 DEF Joining, EventAddDownSession
    <2>3. CASE m \in Goodbyes
        BY <2>3 DEF Goodbyes, EventDownSessionBroken
    <2> QED
        BY <2>1, <2>2, <2>3 DEF CustodyMail, Carriers
<1>3. \A m \in FakeJobMail : m[2].type # "SendBytes"
    BY DEF FakeJobMail, EventUpdateFakeJobBTC
<1> QED
    BY <1>1, <1>2, <1>3

-----------------------------------------------------------------------------
(* Which messages may be sent.                                             *)

\* Messages out are sent in a step that leaves the sessions o open: none moves d
\* when one of these took it last, and none brings it lines of another.
FitsMiner(d, out, o) ==
    /\ host[d] \in Up \cap o => out \cap Carriers(d) = {}
    /\ \A u \in Up \cap o : u # host[d] => out \cap LinesOf(d, u) = {}
Fits(out, o) == \A d \in Miner : FitsMiner(d, out, o)

LEMMA FitsBoth ==
    ASSUME NEW M, NEW N, NEW o, Fits(M, o), Fits(N, o)
    PROVE  Fits(M \cup N, o)
BY DEF Fits, FitsMiner

LEMMA FitsIdle ==
    ASSUME NEW M, M \subseteq Goodbyes \cup FakeJobMail, NEW o
    PROVE  Fits(M, o)
<1>1. Moveless(M)
    <2>1. Moveless(Goodbyes) /\ Moveless(FakeJobMail)
        BY GoodbyeMovesNobody, LinesMoveNobody
    <2> QED
        BY <2>1 DEF Moveless
<1>2. M \subseteq CustodyMail \cup FakeJobMail
    BY GoodbyeMovesNobody
<1> QED
    BY <1>1, <1>2, NoLines DEF Fits, FitsMiner, Moveless

\* Lines of an open session for its miners.
LEMMA FitsLines ==
    ASSUME BTCInv, NEW p \in PoolSession \cap open, NEW M, NEW o, M \subseteq LineMail,
           \A m \in M : \E d \in downSessions[p], k \in Kind : m = <<d, EventSendBytes(p, k)>>
    PROVE  Fits(M, o)
<1>1. \A d \in Miner : M \cap Carriers(d) = {}
    BY LinesMoveNobody DEF Moveless
<1>2. ASSUME NEW d \in Miner, NEW u \in Up, u # host[d], NEW m \in M PROVE m \notin LinesOf(d, u)
    <2>1. PICK c \in downSessions[p], k \in Kind : m = <<c, EventSendBytes(p, k)>>
        OBVIOUS
    <2>2. SUFFICES ASSUME m \in LinesOf(d, u) PROVE FALSE
        OBVIOUS
    <2>3. c = d /\ p = u
        BY <2>1, <2>2 DEF LinesOf, EventSendBytes
    <2>4. p \in Holders(d) /\ Holders(d) \subseteq {host[d]}
        BY <2>1, <2>3 DEF Holders, BTCInv, Settled
    <2> QED
        BY <1>2, <2>3, <2>4
<1> QED
    BY <1>1, <1>2 DEF Fits, FitsMiner

\* The miners of a session that is none of the real ones that stay open.
LEMMA FitsMoves ==
    ASSUME BTCInv, NEW p \in PoolSession \cap open, NEW o, p \notin Up \cap o,
           NEW ps, ps \subseteq PoolSession, NEW pending \in Rehomings(downSessions[p], ps)
    PROVE  Fits(pending, o)
<1>1. PICK f \in [downSessions[p] -> ps] :
         pending = {<<d, EventSetUpSession(f[d])>> : d \in downSessions[p]}
    BY DEF Rehomings
<1>2. downSessions[p] \subseteq Miner /\ pending \subseteq CustodyMail
    BY Typed, RehomingsAreMoves DEF CustodyTypes
<1>3. ASSUME NEW d \in Miner, host[d] \in Up \cap o, NEW m \in pending PROVE m \notin Carriers(d)
    <2>1. PICK c \in downSessions[p] : m = <<c, EventSetUpSession(f[c])>>
        BY <1>1
    <2>2. c \in Miner /\ m \in Carriers(c)
        BY <1>1, <1>2, <2>1 DEF Carriers, Moving
    <2>3. d # c
        <3>1. p \in Holders(c) /\ Holders(c) \subseteq {host[c]}
            BY <2>1, <2>2 DEF Holders, BTCInv, Settled
        <3> QED
            BY <1>3, <3>1
    <2> QED
        BY <2>2, <2>3, CarriersDiffer
<1>4. \A d, u : pending \cap LinesOf(d, u) = {}
    BY <1>2, NoLines
<1> QED
    BY <1>3, <1>4 DEF Fits, FitsMiner

-----------------------------------------------------------------------------
(* Steps in which no miner joins a session.                                *)

LEMMA FreeKept ==
    ASSUME NEW in, NEW out, Brings(in, out), NEW K, Free(chan, spawned, K), out \cap K = {}
    PROVE  Free(chan', spawned', K)
<1>1. AtMostOne(chan, spawned, K)
    BY FreeIsAtMostOne
<1> QED
    BY <1>1 DEF Brings

LEMMA SettledKept ==
    ASSUME NEW d \in Miner, Settled(d), NEW in, NEW out, Brings(in, out), FitsMiner(d, out, open'),
           host'[d] = host[d], open' \subseteq open, Holders(d)' \subseteq Holders(d)
    PROVE  Settled(d)'
<1>1. Carriers(d)' = Carriers(d) /\ \A u \in Up : LinesOf(d, u)' = LinesOf(d, u)
    BY DEF Carriers, Moving, Joining, LinesOf
<1>2. Holders(d)' \subseteq {host'[d]}
    BY DEF Settled
<1>3. ASSUME host[d] \in Up \cap open' PROVE Free(chan', spawned', Carriers(d))
    <2>1. Free(chan, spawned, Carriers(d)) /\ out \cap Carriers(d) = {}
        BY <1>3 DEF Settled, FitsMiner
    <2> QED
        BY <2>1, FreeKept
<1>4. ASSUME NEW u \in Up \cap open', u # host[d] PROVE Free(chan', spawned', LinesOf(d, u))
    <2>1. Free(chan, spawned, LinesOf(d, u)) /\ out \cap LinesOf(d, u) = {}
        BY <1>4 DEF Settled, FitsMiner
    <2> QED
        BY <2>1, FreeKept
<1> QED
    BY <1>1, <1>2, <1>3, <1>4 DEF Settled

\* The channel of d only grows, and nothing more is told to d.
LEMMA WelcomedKept ==
    ASSUME NEW d \in Miner, Welcomed(d), NEW STATE t, IsChan(t), t[d] = chan[d],
           NEW STATE sends, Several(sends), chan' = Appended(t, sends),
           host'[d] = host[d], had'[d] = had[d], told'[d] = told[d]
    PROVE  Welcomed(d)'
<1>1. SUFFICES ASSUME host[d] \in Up
               PROVE  Greeted(chan'[d], host[d], had[d] \ {"rolls"}, told[d])
    BY DEF Welcomed
<1>2. Greeted(t[d], host[d], had[d] \ {"rolls"}, told[d])
    BY <1>1 DEF Welcomed
<1> QED
    BY <1>2, AppendedGreeted

\* As above, of every miner but those in ds.
LEMMA OthersKept ==
    ASSUME BTCInv, NEW in, NEW out, Brings(in, out), out \subseteq BTCMail,
           NEW STATE t, IsChan(t), NEW STATE sends, Several(sends), chan' = Appended(t, sends),
           NEW ds, \A d \in Miner \ ds : t[d] = chan[d] /\ host'[d] = host[d] /\ had'[d] = had[d] /\ told'[d] = told[d],
           open' \subseteq open,
           \A d \in Miner \ ds : FitsMiner(d, out, open') /\ Holders(d)' \subseteq Holders(d)
    PROVE  /\ Mail(chan, spawned, BTCMail)'
           /\ \A d \in Miner \ ds : Settled(d)' /\ Welcomed(d)'
<1>1. Mail(chan', spawned', BTCMail)
    BY Typed DEF Brings
<1>2. ASSUME NEW d \in Miner \ ds PROVE Settled(d)' /\ Welcomed(d)'
    <2>1. Settled(d) /\ Welcomed(d)
        BY DEF BTCInv
    <2>2. Settled(d)'
        BY <2>1, SettledKept
    <2>3. Welcomed(d)'
        BY <2>1, WelcomedKept
    <2> QED
        BY <2>2, <2>3
<1> QED
    BY <1>1, <1>2, BTCMailIsFixed

\* Events are sent, and no miner is concerned.
LEMMA QuietSends ==
    ASSUME BTCInv, NEW STATE sends, NEW STATE P, Several(sends), Sends(sends, P),
           AllPosts(sends) \cup P \subseteq BTCMail, Fits(AllPosts(sends) \cup P, open'),
           UNCHANGED historyVars, open' \subseteq open, FakeSessions \subseteq open',
           BTCTypeOK', CustodyInv', \A d \in Miner : Holders(d)' \subseteq Holders(d)
    PROVE  BTCInv'
<1>1. Brings({}, AllPosts(sends) \cup P)
    BY Typed, SendsBrings
<1>2. chan' = Appended(chan, sends) /\ IsChan(chan)
    BY Typed DEF Sends
<1>3. host' = host /\ had' = had /\ told' = told
    BY DEF historyVars
<1> DEFINE out == AllPosts(sends) \cup P
           none == {}
<1>4. Brings({}, out) /\ out \subseteq BTCMail /\ Miner \ none = Miner /\ \A d \in Miner : FitsMiner(d, out, open')
    BY <1>1 DEF Fits
<1> HIDE DEF out, none
<1>5. Mail(chan, spawned, BTCMail)' /\ \A d \in Miner : Settled(d)' /\ Welcomed(d)'
    BY <1>2, <1>3, <1>4, OthersKept
<1>6. (FakeSessions \subseteq open)'
    BY DEF FakeSessions
<1> QED
    BY <1>5, <1>6 DEF BTCInv

\* A pool session handles an event by which no miner joins it.
LEMMA QuietHandles ==
    ASSUME BTCInv, NEW p \in PoolSession, NEW STATE sends, NEW STATE P, Several(sends),
           chan[p] # <<>>, Handles(p, sends, P),
           AllPosts(sends) \cup P \subseteq BTCMail, Fits(AllPosts(sends) \cup P, open'),
           UNCHANGED historyVars, open' \subseteq open, FakeSessions \subseteq open',
           BTCTypeOK', CustodyInv', \A d \in Miner : Holders(d)' \subseteq Holders(d)
    PROVE  BTCInv'
<1> DEFINE t == Taken(chan, p)
           out == AllPosts(sends) \cup P
           none == {}
           h == <<p, Head(chan[p])>>
<1>0. p \in Actor
    BY Parts
<1>1. Brings({h}, out)
    BY <1>0, Typed, HandlesBrings
<1>2. chan' = Appended(t, sends) /\ IsChan(t) /\ \A d \in Miner : t[d] = chan[d]
    <2>1. IsChan(t) /\ \A x \in Actor \ {p} : t[x] = chan[x]
        BY <1>0, Typed, TakenChannel
    <2> QED
        BY <2>1, Parts DEF Handles, Taken
<1>3. host' = host /\ had' = had /\ told' = told
    BY DEF historyVars
<1>4. out \subseteq BTCMail /\ Miner \ none = Miner /\ \A d \in Miner : FitsMiner(d, out, open')
    BY DEF Fits
<1> HIDE DEF out, none, t, h
<1>5. Mail(chan, spawned, BTCMail)' /\ \A d \in Miner : Settled(d)' /\ Welcomed(d)'
    BY <1>1, <1>2, <1>3, <1>4, OthersKept
<1>6. (FakeSessions \subseteq open)'
    BY DEF FakeSessions
<1> QED
    BY <1>5, <1>6 DEF BTCInv

LEMMA NothingSeveral == Several(Nothing) /\ AllPosts(Nothing) = {}
<1> DEFINE none == Nothing
<1>1. OneEach(none) /\ Posts(none) = {}
    BY NothingPosts
<1> HIDE DEF none
<1>2. Several(none) /\ AllPosts(none) = {}
    BY <1>1, OneEachIsSeveral
<1> QED
    BY <1>2 DEF none

\* Only goroutines are started.
LEMMA QuietSpawns ==
    ASSUME BTCInv, NEW STATE P, Sends(Nothing, P), P \subseteq BTCMail, Fits(P, open'),
           UNCHANGED historyVars, open' \subseteq open, FakeSessions \subseteq open',
           BTCTypeOK', CustodyInv', \A d \in Miner : Holders(d)' \subseteq Holders(d)
    PROVE  BTCInv'
<1> DEFINE none == Nothing
<1>1. Several(none) /\ AllPosts(none) \cup P = P /\ Sends(none, P)
    BY NothingSeveral
<1> HIDE DEF none
<1> QED
    BY <1>1, QuietSends

\* What the steps of the control plane leave alone.
LEMMA LinesTyped ==
    ASSUME BTCInv, CustodyTypeOK', UNCHANGED lineVars
    PROVE  BTCTypeOK' /\ UNCHANGED historyVars
<1>1. UNCHANGED <<rolls, rpcSetVersionMask, rpcSetDifficulty, lastJob, fakeJob, host, had, told>>
    BY DEF lineVars, upLineVars, historyVars
<1> QED
    BY <1>1 DEF BTCInv, BTCTypeOK, historyVars, Kind, JobKind, FakeSessions, PoolSession

-----------------------------------------------------------------------------
(* Miners leave, pools break, the fake session hands its miners on.        *)

LEMMA MinerLeavesStep ==
    ASSUME BTCInv, NEW d \in Miner, MinerLeaves(d), UNCHANGED lineVars
    PROVE  BTCInv'
<1> DEFINE P == Broken(d)
<1>1. /\ Sends(Nothing, P)
      /\ running' = running \ {d} /\ upSession' = upSession
      /\ open' = open /\ downSessions' = downSessions
    BY DEF MinerLeaves, DownCloses
<1>2. P \subseteq Goodbyes /\ P \subseteq BTCMail
    BY Typed, BrokenSaysGoodbye, GoodbyeMovesNobody DEF BTCMail
<1>3. CustodyInv'
    BY Typed, MinerLeavesCustody
<1> HIDE DEF P
<1>4. Fits(P, open')
    BY <1>2, FitsIdle
<1>5. CustodyTypeOK'
    BY <1>1, Typed DEF CustodyTypeOK
<1>6. FakeSessions \subseteq open' /\ \A c \in Miner : Holders(c)' \subseteq Holders(c)
    BY <1>1 DEF BTCInv, Holders
<1>7. BTCTypeOK' /\ UNCHANGED historyVars
    BY <1>5, LinesTyped
<1> QED
    BY <1>1, <1>2, <1>3, <1>4, <1>6, <1>7, QuietSpawns

LEMMA TransferDownSessionsStep ==
    ASSUME BTCInv, NEW p \in FakeSessions, TransferDownSessions(p), UNCHANGED lineVars
    PROVE  BTCInv'
<1>1. /\ running' = running /\ upSession' = upSession /\ open' = open
      /\ downSessions' = [downSessions EXCEPT ![p] = {}]
    BY DEF TransferDownSessions
<1>2. FakeSessions \subseteq open /\ p \in PoolSession \cap open /\ p \notin Up
    BY Parts DEF BTCInv
<1>3. CustodyInv'
    BY <1>2, Typed, TransferCustody
<1>4. PICK pending \in Rehomings(downSessions[p], open) : Sends(Nothing, pending)
    BY DEF TransferDownSessions
<1>5. pending \subseteq BTCMail
    BY <1>2, <1>4, Typed, RehomingsAreMoves DEF BTCMail
<1>6. Fits(pending, open')
    BY <1>2, <1>4, Typed, FitsMoves
<1>7. CustodyTypeOK'
    BY <1>1, Typed DEF CustodyTypeOK
<1>8. FakeSessions \subseteq open' /\ \A c \in Miner : Holders(c)' \subseteq Holders(c)
    BY <1>1, <1>2, Typed DEF Holders, CustodyTypes
<1>9. BTCTypeOK' /\ UNCHANGED historyVars
    BY <1>7, LinesTyped
<1> QED
    BY <1>1, <1>3, <1>4, <1>5, <1>6, <1>8, <1>9, QuietSpawns

LEMMA PoolBreaksStep ==
    ASSUME BTCInv, NEW u \in Up, PoolBreaks(u)
    PROVE  BTCInv'
<1> DEFINE news(m) == IF lastJob[u] = None THEN Nothing
                      ELSE To(Fake(m), EventUpdateFakeJobBTC(lastJob[u]))
           rest == open \ {u}
<1>1. /\ u \in PoolSession \cap open /\ open' = rest
      /\ running' = running /\ upSession' = upSession /\ downSessions' = downSessions
      /\ UNCHANGED <<rolls, fakeJob, host, had, told>>
      /\ rpcSetVersionMask' = [rpcSetVersionMask EXCEPT ![u] = None]
      /\ rpcSetDifficulty' = [rpcSetDifficulty EXCEPT ![u] = None]
      /\ lastJob' = [lastJob EXCEPT ![u] = None]
    BY Parts DEF PoolBreaks, UpCloses, historyVars
<1>2. PICK pending \in Rehomings(downSessions[u], rest), m \in Mgr : Sends(news(m), pending)
    BY DEF PoolBreaks
<1> DEFINE sends == news(m)
           out == AllPosts(sends)
<1>3. OneEach(sends) /\ Posts(sends) \subseteq FakeJobMail
    <2>1. CASE lastJob[u] = None
        BY <2>1, NothingPosts
    <2>2. CASE lastJob[u] # None
        <3>1. lastJob[u] \in JobKind /\ Fake(m) \in FakeSessions /\ Fake(m) \in Actor
            BY <2>2, Parts DEF BTCInv, BTCTypeOK, FakeSessions
        <3>2. <<Fake(m), EventUpdateFakeJobBTC(lastJob[u])>> \in FakeJobMail
            BY <3>1 DEF FakeJobMail
        <3>3. /\ OneEach(To(Fake(m), EventUpdateFakeJobBTC(lastJob[u])))
              /\ Posts(To(Fake(m), EventUpdateFakeJobBTC(lastJob[u])))
                    = {<<Fake(m), EventUpdateFakeJobBTC(lastJob[u])>>}
            BY <3>1, ToPosts
        <3> QED
            BY <2>2, <3>2, <3>3
    <2> QED
        BY <2>1, <2>2
<1>4. Sends(sends, pending)
    BY <1>2
<1> HIDE DEF sends, news
<1>5. Several(sends) /\ out \subseteq FakeJobMail /\ out = Posts(sends)
    BY <1>3, OneEachIsSeveral
<1> HIDE DEF out
<1>6. rest \subseteq PoolSession /\ u \notin Up \cap rest
    BY Typed
<1>7. pending \subseteq CustodyMail /\ Fits(pending, rest)
    BY <1>1, <1>2, <1>6, Typed, RehomingsAreMoves, FitsMoves
<1>8. Fits(out, rest) /\ Moveless(out) /\ out \subseteq BTCMail
    BY <1>5, FitsIdle, LinesMoveNobody
<1>9. out \cap pending = {}
    <2>1. \A n \in FakeJobMail : n[2].type = "UpdateFakeJobBTC"
        BY DEF FakeJobMail, EventUpdateFakeJobBTC
    <2>2. \A n \in pending : n[2].type = "SetUpSession"
        BY <1>2 DEF Rehomings, EventSetUpSession
    <2> QED
        BY <1>5, <2>1, <2>2
<1>10. Passes({}, out \cup pending)
    BY <1>3, <1>4, <1>5, <1>9, Typed, SendsPasses
<1>11. \A d \in Miner : Holders(d)' \subseteq Holders(d) \ {u}
    BY <1>1 DEF Holders
<1>12. FakeSessions \subseteq open' /\ open' \subseteq open
    BY <1>1, Parts DEF BTCInv
<1> HIDE DEF rest
<1>13. CustodyInv'
    BY <1>1, <1>2, <1>6, <1>8, <1>10, <1>11, Typed, GivesBackCustody
<1>14. CustodyTypeOK'
    BY <1>1, <1>6, Typed DEF CustodyTypeOK
<1>15. BTCTypeOK' /\ UNCHANGED historyVars
    BY <1>1, <1>14 DEF BTCInv, BTCTypeOK, historyVars, Kind, JobKind, FakeSessions, PoolSession
<1>16. out \cup pending \subseteq BTCMail /\ Fits(out \cup pending, open')
    BY <1>1, <1>7, <1>8, FitsBoth DEF BTCMail
<1> QED
    BY <1>4, <1>5, <1>11, <1>12, <1>13, <1>15, <1>16, QuietSends DEF out

-----------------------------------------------------------------------------
(* Lines.                                                                  *)

\* A session sends a line to some of its miners.
LEMMA LineStep ==
    ASSUME BTCInv, NEW p \in PoolSession \cap open, NEW STATE ds, ds \subseteq downSessions[p],
           NEW STATE kind, kind \in Kind, Sends(Nothing, Lines(p, ds, kind)),
           UNCHANGED <<custodyVars, historyVars>>, CustodyTypeOK' => BTCTypeOK'
    PROVE  BTCInv'
<1> DEFINE P == Lines(p, ds, kind)
<1>1. running' = running /\ upSession' = upSession /\ open' = open /\ downSessions' = downSessions
    BY DEF custodyVars
<1>2. ds \subseteq Miner
    BY Typed DEF CustodyTypes
<1>3. P \subseteq LineMail /\ \A m \in P : \E d \in downSessions[p], k \in Kind : m = <<d, EventSendBytes(p, k)>>
    BY <1>2 DEF Lines, LineMail
<1>4. Sends(Nothing, P)
    OBVIOUS
<1> HIDE DEF P
<1>5. Fits(P, open') /\ P \subseteq BTCMail /\ Moveless(P)
    BY <1>3, FitsLines, LinesMoveNobody
<1>6. CustodyInv'
    <2> DEFINE none == Nothing
               out == AllPosts(none) \cup P
    <2>1. Several(none) /\ out = P /\ Sends(none, P)
        BY <1>4, NothingSeveral
    <2> HIDE DEF none
    <2>2. Brings({}, out)
        BY <2>1, Typed, SendsBrings
    <2> HIDE DEF out
    <2>3. Brings({}, P) /\ Moveless({})
        BY <2>1, <2>2, NothingMoves
    <2>4. \A c \in Miner : Holders(c)' \subseteq Holders(c)
        BY <1>1 DEF Holders
    <2> QED
        BY <1>1, <1>5, <2>3, <2>4, Typed, MovelessCustody
<1>7. CustodyTypeOK'
    BY <1>1, Typed DEF CustodyTypeOK
<1>8. FakeSessions \subseteq open' /\ open' \subseteq open /\ \A c \in Miner : Holders(c)' \subseteq Holders(c)
    BY <1>1 DEF BTCInv, Holders
<1>9. UNCHANGED historyVars
    OBVIOUS
<1> QED
    BY <1>4, <1>5, <1>6, <1>7, <1>8, <1>9, QuietSpawns

LEMMA SetVersionMaskStep ==
    ASSUME BTCInv, NEW u \in Up, SetVersionMask(u)
    PROVE  BTCInv'
<1>1. /\ u \in PoolSession \cap open /\ Sends(Nothing, Lines(u, Rolling(u), "mask"))
      /\ UNCHANGED <<custodyVars, historyVars>>
      /\ rpcSetVersionMask' = [rpcSetVersionMask EXCEPT ![u] = "mask"]
      /\ UNCHANGED <<rolls, rpcSetDifficulty, lastJob, fakeJob>>
    BY Parts DEF SetVersionMask
<1>2. Rolling(u) \subseteq downSessions[u] /\ "mask" \in Kind
    BY DEF Rolling, Kind
<1>3. CustodyTypeOK' => BTCTypeOK'
    BY <1>1 DEF BTCInv, BTCTypeOK, historyVars, Kind, JobKind, FakeSessions, PoolSession
<1> QED
    BY <1>1, <1>2, <1>3, LineStep

LEMMA SetDifficultyStep ==
    ASSUME BTCInv, NEW u \in Up, SetDifficulty(u)
    PROVE  BTCInv'
<1>1. /\ u \in PoolSession \cap open /\ Sends(Nothing, Lines(u, downSessions[u], "difficulty"))
      /\ UNCHANGED <<custodyVars, historyVars>>
      /\ rpcSetDifficulty' = [rpcSetDifficulty EXCEPT ![u] = "difficulty"]
      /\ UNCHANGED <<rolls, rpcSetVersionMask, lastJob, fakeJob>>
    BY Parts DEF SetDifficulty
<1>2. downSessions[u] \subseteq downSessions[u] /\ "difficulty" \in Kind
    BY DEF Kind
<1>3. CustodyTypeOK' => BTCTypeOK'
    BY <1>1 DEF BTCInv, BTCTypeOK, historyVars, Kind, JobKind, FakeSessions, PoolSession
<1> QED
    BY <1>1, <1>2, <1>3, LineStep

LEMMA MiningNotifyStep ==
    ASSUME BTCInv, NEW u \in Up, MiningNotify(u)
    PROVE  BTCInv'
<1>1. /\ u \in PoolSession \cap open /\ Sends(Nothing, Lines(u, downSessions[u], "job"))
      /\ UNCHANGED <<custodyVars, historyVars>>
      /\ lastJob' = [lastJob EXCEPT ![u] = "job"]
      /\ UNCHANGED <<rolls, rpcSetVersionMask, rpcSetDifficulty, fakeJob>>
    BY Parts DEF MiningNotify, ToNotifyLine
<1>2. downSessions[u] \subseteq downSessions[u] /\ "job" \in Kind
    BY DEF Kind, JobKind
<1>3. CustodyTypeOK' => BTCTypeOK'
    BY <1>1 DEF BTCInv, BTCTypeOK, historyVars, Kind, JobKind, FakeSessions, PoolSession
<1> QED
    BY <1>1, <1>2, <1>3, LineStep

LEMMA MiningSetDiffStep ==
    ASSUME BTCInv, NEW u \in Up, MiningSetDiff(u)
    PROVE  BTCInv'
<1>1. PICK ds \in SUBSET downSessions[u] \ {{}} : Sends(Nothing, Lines(u, ds, "ownDifficulty"))
    BY DEF MiningSetDiff
<1>2. u \in PoolSession \cap open /\ UNCHANGED lineVars /\ UNCHANGED <<custodyVars, historyVars>>
    BY Parts DEF MiningSetDiff, lineVars
<1>3. ds \subseteq downSessions[u] /\ "ownDifficulty" \in Kind
    BY DEF Kind
<1>4. CustodyTypeOK' => BTCTypeOK'
    BY <1>2, LinesTyped
<1> QED
    BY <1>1, <1>2, <1>3, <1>4, LineStep

LEMMA SendFakeNotifyStep ==
    ASSUME BTCInv, NEW p \in FakeSessions, SendFakeNotify(p)
    PROVE  BTCInv'
<1>1. /\ fakeJob[p] # None /\ Sends(Nothing, Lines(p, downSessions[p], fakeJob[p]))
      /\ UNCHANGED lineVars /\ UNCHANGED <<custodyVars, historyVars>>
    BY DEF SendFakeNotify, ToNotifyLine, lineVars
<1>2. p \in PoolSession \cap open /\ downSessions[p] \subseteq downSessions[p]
    BY Parts DEF BTCInv
<1>3. fakeJob[p] \in Kind
    BY <1>1 DEF BTCInv, BTCTypeOK, Kind
<1>4. CustodyTypeOK' => BTCTypeOK'
    BY <1>1, LinesTyped
<1> QED
    BY <1>1, <1>2, <1>3, <1>4, LineStep

\* mining.configure, and every step that changes none of what is related here.
LEMMA StandingStep ==
    ASSUME BTCInv, UNCHANGED <<mailVars, custodyVars>>, UNCHANGED historyVars, BTCTypeOK'
    PROVE  BTCInv'
<1>1. /\ chan' = chan /\ spawned' = spawned /\ open' = open /\ upSession' = upSession
      /\ downSessions' = downSessions /\ host' = host /\ had' = had /\ told' = told
    BY DEF mailVars, custodyVars, historyVars
<1>2. Mail(chan, spawned, BTCMail)' /\ (FakeSessions \subseteq open)'
    BY <1>1, Typed, BTCMailIsFixed DEF BTCInv, FakeSessions
<1>3. CustodyInv'
    <2>1. Brings({}, {}) /\ Moveless({})
        BY QuietPasses, PassesBrings, NothingMoves
    <2>2. \A c \in Miner : Holders(c)' \subseteq Holders(c)
        BY <1>1 DEF Holders
    <2> QED
        BY <1>1, <2>1, <2>2, Typed, MovelessCustody
<1>4. ASSUME NEW d \in Miner PROVE Settled(d)' /\ Welcomed(d)'
    <2>1. Settled(d) /\ Welcomed(d)
        BY DEF BTCInv
    <2>2. Settled(d)'
        BY <1>1, <2>1 DEF Settled, Holders, Carriers, Moving, Joining, LinesOf
    <2>3. Welcomed(d)'
        BY <1>1, <2>1 DEF Welcomed
    <2> QED
        BY <2>2, <2>3
<1> QED
    BY <1>2, <1>3, <1>4 DEF BTCInv

LEMMA ParseConfigureRequestStep ==
    ASSUME BTCInv, NEW d \in Miner, ParseConfigureRequest(d)
    PROVE  BTCInv'
<1>1. /\ UNCHANGED <<mailVars, custodyVars>> /\ UNCHANGED historyVars
      /\ rolls' = rolls \cup {d} /\ UNCHANGED <<rpcSetVersionMask, rpcSetDifficulty, lastJob, fakeJob>>
    BY DEF ParseConfigureRequest, upLineVars
<1>2. CustodyTypeOK'
    BY <1>1, Typed DEF custodyVars, CustodyTypeOK
<1>3. BTCTypeOK'
    BY <1>1, <1>2 DEF BTCInv, BTCTypeOK, historyVars, Kind, JobKind, FakeSessions, PoolSession
<1> QED
    BY <1>1, <1>3, StandingStep

-----------------------------------------------------------------------------
(* Events by which no miner joins a session.                               *)

LEMMA FakeUpdateJobStep ==
    ASSUME BTCInv, NEW p \in PoolSession, FakeUpdateJob(p)
    PROVE  BTCInv'
<1> DEFINE none == Nothing
           rest == {}
           out == AllPosts(none) \cup rest
           h == <<p, Head(chan[p])>>
<1>1. /\ chan[p] # <<>> /\ Head(chan[p]).type = "UpdateFakeJobBTC" /\ Handles(p, none, rest)
      /\ fakeJob' = [fakeJob EXCEPT ![p] = Head(chan[p]).job]
      /\ UNCHANGED <<rolls, rpcSetVersionMask, rpcSetDifficulty, lastJob, host, had, told>>
      /\ UNCHANGED <<running, upSession, open, downSessions>>
    BY DEF FakeUpdateJob, UpReceives, Receives, custodyVars, upLineVars, historyVars
<1>2. Head(chan[p]).job \in JobKind /\ p \in Actor
    BY <1>1, Parts, HeadKinds, MailKinds
<1>3. Several(none) /\ out = {}
    BY NothingSeveral
<1>4. out \subseteq Goodbyes /\ out \subseteq BTCMail /\ Moveless(out)
    BY <1>3, NothingMoves
<1> HIDE DEF none, rest
<1>5. Brings({h}, out)
    BY <1>1, <1>2, <1>3, Typed, HandlesBrings
<1>6. Moveless({h})
    BY <1>1 DEF Moveless, Carriers, Moving, Joining, EventSetUpSession, EventAddDownSession
<1>7. \A d \in Miner : Holders(d)' \subseteq Holders(d)
    BY <1>1 DEF Holders
<1> HIDE DEF h, out
<1>8. CustodyInv'
    BY <1>1, <1>4, <1>5, <1>6, <1>7, Typed, MovelessCustody
<1>9. fakeJob' \in [FakeSessions -> JobKind \cup {None}]
    BY <1>1, <1>2 DEF BTCInv, BTCTypeOK
<1>10. BTCTypeOK'
    BY <1>1, <1>9 DEF BTCInv, BTCTypeOK, CustodyTypeOK, Kind, JobKind, FakeSessions, PoolSession
<1>11. Fits(out, open')
    BY <1>4, FitsIdle
<1>12. UNCHANGED historyVars /\ open' \subseteq open /\ FakeSessions \subseteq open'
    BY <1>1 DEF historyVars, BTCInv
<1> QED
    BY <1>1, <1>3, <1>4, <1>7, <1>8, <1>10, <1>11, <1>12, QuietHandles DEF out

LEMMA DownSessionBrokenStep ==
    ASSUME BTCInv, NEW p \in PoolSession, DownSessionBroken(p), UNCHANGED lineVars
    PROVE  BTCInv'
<1> DEFINE none == Nothing
           rest == {}
           out == AllPosts(none) \cup rest
<1>1. /\ chan[p] # <<>> /\ Head(chan[p]).type = "DownSessionBroken" /\ Handles(p, none, rest)
      /\ Leaves(p, Head(chan[p]).sessionID)
      /\ running' = running /\ upSession' = upSession /\ open' = open
    BY DEF DownSessionBroken, UpReceives, Receives
<1>2. Several(none) /\ out = {}
    BY NothingSeveral
<1>3. out \subseteq Goodbyes /\ out \subseteq BTCMail
    BY <1>2
<1> HIDE DEF none, rest, out
<1>4. CustodyInv'
    BY <1>1, Typed, DownSessionBrokenCustody
<1>5. \A d \in Miner : Holders(d)' \subseteq Holders(d)
    BY <1>1, Typed DEF Holders, Leaves, CustodyTypes
<1>6. CustodyTypeOK'
    BY <1>1, Typed DEF CustodyTypeOK, Leaves
<1>7. BTCTypeOK' /\ UNCHANGED historyVars
    BY <1>6, LinesTyped
<1>8. Fits(out, open')
    BY <1>3, FitsIdle
<1>9. open' \subseteq open /\ FakeSessions \subseteq open'
    BY <1>1 DEF BTCInv
<1> QED
    BY <1>1, <1>2, <1>3, <1>4, <1>5, <1>7, <1>8, <1>9, QuietHandles DEF out

\* What a delivery does to the miners' channels is what a sender does.
LEMMA SenderRunsStep ==
    ASSUME BTCInv, NEW m \in BagToSet(spawned), SenderRuns(m)
    PROVE  BTCInv'
<1>1. /\ Deliver(m) /\ UNCHANGED <<running, upSession, open, downSessions>> /\ UNCHANGED lineVars
    BY DEF SenderRuns, custodyVars
<1>2. m \in DOMAIN spawned /\ m \in BTCMail
    BY Typed DEF BagToSet, Mail
<1>3. m = <<m[1], m[2]>> /\ m[1] \in Actor
    BY <1>2 DEF BTCMail, CustodyMail, Carriers, Moving, Joining, Goodbyes, LineMail,
             FakeJobMail, Actor, PoolSession, FakeSessions
<1> DEFINE a == m[1]
           e == m[2]
           sends == To(a, e)
           none == {}
<1>4. a \in Actor /\ Deliver(<<a, e>>)
    BY <1>1, <1>3
<1> HIDE DEF a, e
<1>5. Passes({}, none)
    BY <1>4, Typed, DeliverPasses
<1>6. chan' = Appended(chan, sends) /\ Several(sends)
    BY <1>4, Typed, DeliverAppends, ToPosts, OneEachIsSeveral
<1> HIDE DEF sends
<1>7. /\ Brings({}, none) /\ Moveless(none) /\ Moveless({}) /\ none \subseteq BTCMail /\ Miner \ none = Miner
      /\ none \subseteq Goodbyes
    BY <1>5, PassesBrings, NothingMoves
<1> HIDE DEF none
<1>8. \A d \in Miner : Holders(d)' \subseteq Holders(d)
    BY <1>1 DEF Holders
<1>9. CustodyInv'
    BY <1>1, <1>7, <1>8, Typed, MovelessCustody
<1>10. CustodyTypeOK' /\ (FakeSessions \subseteq open)'
    BY <1>1, Typed DEF BTCInv, CustodyTypeOK, FakeSessions
<1>11. BTCTypeOK' /\ host' = host /\ had' = had /\ told' = told
    BY <1>1, <1>10, LinesTyped DEF historyVars
<1>12. open' \subseteq open /\ \A d \in Miner : FitsMiner(d, none, open')
    BY <1>1, <1>7, FitsIdle DEF Fits
<1>13. Mail(chan, spawned, BTCMail)' /\ \A d \in Miner : Settled(d)' /\ Welcomed(d)'
    BY <1>6, <1>7, <1>8, <1>11, <1>12, Typed, OthersKept
<1> QED
    BY <1>9, <1>10, <1>11, <1>13 DEF BTCInv

-----------------------------------------------------------------------------
(* The miner's session.                                                    *)

\* It is sent the line of its session if that is what it handles.
LEMMA DownHandles ==
    ASSUME BTCInv, NEW d \in Miner, NEW STATE sends, NEW STATE P, Several(sends),
           chan[d] # <<>>, Handles(d, sends, P),
           AllPosts(sends) \cup P \subseteq BTCMail, Fits(AllPosts(sends) \cup P, open'),
           host' = host, had' = had, \A c \in Miner \ {d} : told'[c] = told[c],
           \A k : k \in told'[d] <=> (k \in told[d] \/ Head(chan[d]) = EventSendBytes(host[d], k)),
           open' = open, BTCTypeOK', CustodyInv', \A c \in Miner : Holders(c)' \subseteq Holders(c)
    PROVE  BTCInv'
<1> DEFINE t == Taken(chan, d)
           out == AllPosts(sends) \cup P
           h == <<d, Head(chan[d])>>
<1>0. d \in Actor
    BY Parts
<1>1. Brings({h}, out) /\ out \subseteq BTCMail /\ \A c \in Miner : FitsMiner(c, out, open')
    BY <1>0, Typed, HandlesBrings DEF Fits
<1>2. chan' = Appended(t, sends) /\ IsChan(t) /\ \A c \in Miner \ {d} : t[c] = chan[c]
    <2>1. IsChan(t) /\ \A x \in Actor \ {d} : t[x] = chan[x]
        BY <1>0, Typed, TakenChannel
    <2> QED
        BY <2>1, Parts DEF Handles, Taken
<1>3. Welcomed(d)'
    <2>1. SUFFICES ASSUME host[d] \in Up
                   PROVE  Greeted(chan'[d], host[d], had[d] \ {"rolls"}, told'[d])
        BY DEF Welcomed
    <2>2. Greeted(chan[d], host[d], had[d] \ {"rolls"}, told[d])
        BY <2>1 DEF BTCInv, Welcomed
    <2>3. Greeted(t[d], host[d], had[d] \ {"rolls"}, told'[d])
        BY <1>0, <2>2, Typed, TakenGreeted
    <2> HIDE DEF t
    <2>4. Greeted(Appended(t, sends)[d], host[d], had[d] \ {"rolls"}, told'[d])
        BY <1>2, <2>3, AppendedGreeted
    <2> QED
        BY <1>2, <2>4
<1> HIDE DEF t, out, h
<1>4. /\ Mail(chan, spawned, BTCMail)'
      /\ \A c \in Miner \ {d} : Settled(c)' /\ Welcomed(c)'
    BY <1>1, <1>2, OthersKept
<1>5. Settled(d)'
    BY <1>1, SettledKept DEF BTCInv
<1>6. (FakeSessions \subseteq open)'
    BY DEF BTCInv, FakeSessions
<1> QED
    BY <1>3, <1>4, <1>5, <1>6 DEF BTCInv

LEMMA DownSendBytesStep ==
    ASSUME BTCInv, NEW d \in Miner, DownSendBytes(d)
    PROVE  BTCInv'
<1> DEFINE none == Nothing
           rest == {}
           out == AllPosts(none) \cup rest
           e == Head(chan[d])
           h == <<d, e>>
<1>1. /\ chan[d] # <<>> /\ e.type = "SendBytes" /\ Handles(d, none, rest)
      /\ told' = IF e.session = host[d] THEN [told EXCEPT ![d] = @ \cup {e.kind}] ELSE told
      /\ UNCHANGED <<rolls, rpcSetVersionMask, rpcSetDifficulty, lastJob, fakeJob, host, had>>
      /\ UNCHANGED <<running, upSession, open, downSessions>>
    BY DEF DownSendBytes, DownReceives, Receives, custodyVars, upLineVars
<1>2. e.kind \in Kind /\ e = EventSendBytes(e.session, e.kind) /\ d \in Actor
    BY <1>1, Parts, HeadKinds, MailKinds
<1>3. Several(none) /\ out = {}
    BY NothingSeveral
<1>4. out \subseteq Goodbyes /\ out \subseteq BTCMail /\ Moveless(out)
    BY <1>3, NothingMoves
<1> HIDE DEF none, rest
<1>5. Brings({h}, out)
    BY <1>1, <1>2, <1>3, Typed, HandlesBrings
<1>6. Moveless({h})
    BY <1>1 DEF Moveless, Carriers, Moving, Joining, EventSetUpSession, EventAddDownSession
<1>7. \A c \in Miner : Holders(c)' \subseteq Holders(c)
    BY <1>1 DEF Holders
<1> HIDE DEF h, out
<1>8. CustodyInv'
    BY <1>1, <1>4, <1>5, <1>6, <1>7, Typed, MovelessCustody
<1>9. told \in [Miner -> SUBSET Kind]
    BY DEF BTCInv, BTCTypeOK
<1>10. \A k : k \in told'[d] <=> (k \in told[d] \/ e = EventSendBytes(host[d], k))
    <2>1. \A k : e = EventSendBytes(host[d], k) <=> (e.session = host[d] /\ e.kind = k)
        BY <1>2 DEF EventSendBytes
    <2> HIDE DEF e
    <2>2. CASE e.session = host[d]
        <3>1. told'[d] = told[d] \cup {e.kind}
            BY <1>1, <1>9, <2>2
        <3> QED
            BY <2>1, <2>2, <3>1
    <2>3. CASE e.session # host[d]
        BY <1>1, <2>1, <2>3
    <2> QED
        BY <2>2, <2>3
<1> HIDE DEF e
<1>11. told' \in [Miner -> SUBSET Kind] /\ \A c \in Miner \ {d} : told'[c] = told[c]
    BY <1>1, <1>2, <1>9
<1>12. BTCTypeOK'
    BY <1>1, <1>11 DEF BTCInv, BTCTypeOK, CustodyTypeOK, Kind, JobKind, FakeSessions, PoolSession
<1>13. Fits(out, open')
    BY <1>4, FitsIdle
<1> QED
    BY <1>1, <1>3, <1>4, <1>7, <1>8, <1>10, <1>11, <1>12, <1>13, DownHandles DEF out, e

LEMMA SetUpSessionStep ==
    ASSUME BTCInv, NEW d \in Miner, SetUpSession(d), UNCHANGED lineVars
    PROVE  BTCInv'
<1>1. /\ chan[d] # <<>> /\ Head(chan[d]).type = "SetUpSession" /\ d \in Actor
      /\ UNCHANGED <<running, open, downSessions>>
    BY Parts DEF SetUpSession, DownReceives, Receives
<1>2. PICK p \in PoolSession : Head(chan[d]) = EventSetUpSession(p)
    BY <1>1, HeadKinds, MailKinds
<1>3. /\ Handles(d, To(p, EventAddDownSession(d)), {})
      /\ upSession' = [upSession EXCEPT ![d] = p]
    <2>1. Head(chan[d]).session = p
        BY <1>2 DEF EventSetUpSession
    <2> QED
        BY <1>1, <2>1 DEF SetUpSession
<1>4. CustodyInv'
    BY <1>2, Typed, SetUpSessionCustody
<1> DEFINE sends == To(p, EventAddDownSession(d))
           rest == {}
           out == AllPosts(sends) \cup rest
<1>5. Several(sends) /\ out = {<<p, EventAddDownSession(d)>>}
    BY Parts, ToPosts, OneEachIsSeveral
<1>6. <<p, EventAddDownSession(d)>> \in Carriers(d) /\ <<d, EventSetUpSession(p)>> \in Carriers(d)
    BY DEF Carriers, Joining, Moving
<1>7. out \subseteq CustodyMail /\ out \subseteq BTCMail
    BY <1>5, <1>6 DEF CustodyMail, BTCMail
<1>8. Fits(out, open')
    <2>1. host[d] \notin Up \cap open
        <3>1. ~Free(chan, spawned, Carriers(d))
            BY <1>1, <1>2, <1>6, Typed, HeadIsSent
        <3> QED
            BY <3>1 DEF BTCInv, Settled
    <2>2. \A c \in Miner \ {d} : out \cap Carriers(c) = {}
        BY <1>5, <1>6, CarriersDiffer
    <2>3. \A c, u : out \cap LinesOf(c, u) = {}
        BY <1>7, NoLines
    <2> HIDE DEF out
    <2> QED
        BY <1>1, <2>1, <2>2, <2>3 DEF Fits, FitsMiner
<1>9. Handles(d, sends, rest)
    BY <1>3
<1> HIDE DEF sends, rest, out
<1>10. CustodyTypeOK' /\ \A c \in Miner : Holders(c)' \subseteq Holders(c)
    BY <1>1, <1>3, Typed DEF CustodyTypeOK, Holders
<1>11. BTCTypeOK' /\ host' = host /\ had' = had /\ told' = told
    BY <1>10, LinesTyped DEF historyVars
<1>12. \A k : Head(chan[d]) # EventSendBytes(host[d], k)
    BY <1>1 DEF EventSendBytes
<1> QED
    BY <1>1, <1>4, <1>5, <1>7, <1>8, <1>9, <1>10, <1>11, <1>12, DownHandles DEF out

-----------------------------------------------------------------------------
(* The greeting.                                                           *)

\* No line of session h in s, of those that have to come late.
NoLate(s, h) == \A i \in DOMAIN s, l \in Late : s[i] # EventSendBytes(h, l)

\* One more line of a greeting.
LEMMA GreetedByLine ==
    ASSUME NEW S, NEW s \in Seq(S), NEW h, NEW k, EventSendBytes(h, k) \in S,
           NEW w, Greeted(s, h, w, {}), NoLate(s, h)
    PROVE  /\ Line(h, k) \in Seq(S)
           /\ s \o Line(h, k) \in Seq(S)
           /\ Greeted(s \o Line(h, k), h, w \cup ({k} \ {None}), {})
           /\ k \notin Late => NoLate(s \o Line(h, k), h)
<1> DEFINE e == EventSendBytes(h, k)
           r == s \o Line(h, k)
           none == {}
<1>1. CASE k = None
    <2>1. Line(h, k) = <<>> /\ r = s /\ <<>> \in Seq(S)
        BY <1>1, ConcatEmptySeq DEF Line
    <2>2. w \cup ({k} \ {None}) = w
        BY <1>1
    <2> QED
        BY <2>1, <2>2
<1>2. CASE k # None
    <2>1. Line(h, k) = <<e>> /\ r = s \o <<e>> /\ e \in S
        BY <1>2 DEF Line
    <2> DEFINE n == Len(s)
    <2>2. /\ r \in Seq(S) /\ <<e>> \in Seq(S) /\ n \in Nat
          /\ DOMAIN s = 1 .. n /\ DOMAIN r = 1 .. n + 1
          /\ \A i \in 1 .. n : r[i] = s[i]
          /\ r[n + 1] = e
        <3> HIDE DEF e, r
        <3> QED
            BY <2>1
    <2> HIDE DEF r, n
    <2>3. ASSUME NEW x \in w \cup {k} PROVE \E j \in DOMAIN r : r[j] = EventSendBytes(h, x)
        <3>1. CASE x \in w
            <4>1. PICK j \in DOMAIN s : s[j] = EventSendBytes(h, x)
                BY <3>1 DEF Greeted
            <4> QED
                BY <2>2, <4>1
        <3>2. CASE x = k
            <4>1. n + 1 \in DOMAIN r
                BY <2>2
            <4> QED
                BY <2>2, <3>2, <4>1
        <3> QED
            BY <3>1, <3>2
    <2>4. ASSUME NEW i \in DOMAIN r, NEW l \in Late, r[i] = EventSendBytes(h, l)
          PROVE  i = n + 1 /\ k = l
        <3>1. i \notin 1 .. n
            BY <2>2, <2>4 DEF NoLate
        <3>2. i = n + 1
            BY <2>2, <3>1
        <3> QED
            BY <2>2, <2>4, <3>2 DEF EventSendBytes
    <2>5. \A i \in DOMAIN r : i <= n + 1
        BY <2>2
    <2> HIDE DEF e
    <2>6. ASSUME NEW i \in DOMAIN r, NEW l \in Late, r[i] = EventSendBytes(h, l), NEW x \in w \cup {k}
          PROVE  \E j \in DOMAIN r : j <= i /\ r[j] = EventSendBytes(h, x)
        <3>1. PICK j \in DOMAIN r : r[j] = EventSendBytes(h, x)
            BY <2>3
        <3>2. j <= i
            BY <2>4, <2>5, <2>6
        <3> QED
            BY <3>1, <3>2
    <2> HIDE DEF none
    <2>7. Greeted(r, h, w \cup {k}, none)
        <3>1. \A l : l \notin none
            BY DEF none
        <3> QED
            BY <2>3, <2>6, <3>1 DEF Greeted
    <2>8. k \notin Late => NoLate(r, h)
        BY <2>4 DEF NoLate
    <2>9. w \cup ({k} \ {None}) = w \cup {k}
        BY <1>2
    <2> QED
        BY <2>1, <2>2, <2>7, <2>8, <2>9 DEF r, none
<1> QED
    BY <1>1, <1>2

\* A channel without lines of u, and the greeting behind it.
LEMMA GreetedByGreeting ==
    ASSUME BTCInv, NEW d \in Miner, NEW u \in Up, NEW s, IsSequence(s),
           \A i \in DOMAIN s, k \in Kind : s[i] # EventSendBytes(u, k)
    PROVE  Greeted(s \o Greeting(u, d), u, Has(u, d) \ {None}, {})
<1> DEFINE k1 == IF d \in rolls THEN rpcSetVersionMask[u] ELSE None
           k2 == rpcSetDifficulty[u]
           k3 == FirstJob(u)
           A == Line(u, k1)
           B == Line(u, k2)
           C == Line(u, k3)
           w1 == {} \cup ({k1} \ {None})
           w2 == w1 \cup ({k2} \ {None})
           w3 == w2 \cup ({k3} \ {None})
           none == {}
<1>1. /\ k1 \in {"mask", None} /\ k2 \in {"difficulty", None} /\ k3 \in {"cleanJob", None}
      /\ lastJob[u] # None => k3 = "cleanJob"
    BY DEF BTCInv, BTCTypeOK, FirstJob, ToNotifyLine
<1>2. Greeting(u, d) = (A \o B) \o C
    BY DEF Greeting
<1>3. Has(u, d) \ {None} \subseteq w3
    BY <1>1 DEF Has
<1>4. PICK T : s \in Seq(T)
    BY DEF IsSequence
<1> DEFINE S == T \cup {EventSendBytes(u, k1), EventSendBytes(u, k2), EventSendBytes(u, k3)}
<1>5. s \in Seq(S) /\ EventSendBytes(u, k1) \in S /\ EventSendBytes(u, k2) \in S /\ EventSendBytes(u, k3) \in S
    <2> DEFINE E == {EventSendBytes(u, k1), EventSendBytes(u, k2), EventSendBytes(u, k3)}
    <2> HIDE DEF E, k1, k2, k3
    <2>1. s \in Seq(T \cup E)
        BY <1>4
    <2> QED
        BY <2>1 DEF E
<1>6. Late \subseteq Kind
    BY DEF Late, Kind
<1>7. NoLate(s, u) /\ Greeted(s, u, none, none)
    BY <1>6 DEF NoLate, Greeted
<1> HIDE DEF S, A, B, C, k3
<1>8. /\ A \in Seq(S) /\ s \o A \in Seq(S) /\ Greeted(s \o A, u, w1, none)
      /\ k1 \notin Late => NoLate(s \o A, u)
    <2> HIDE DEF k1
    <2> QED
        BY <1>5, <1>7, GreetedByLine DEF A
<1>9. (k1 \notin Late \/ A = <<>>) /\ (k2 \notin Late \/ B = <<>>)
    BY <1>1 DEF Late, JobKind, A, B, Line
<1>10. NoLate(s \o A, u)
    <2>1. CASE A = <<>>
        BY <1>5, <1>7, <2>1, ConcatEmptySeq
    <2> QED
        BY <1>8, <1>9, <2>1
<1> HIDE DEF k1, w1
<1>11. /\ B \in Seq(S) /\ (s \o A) \o B \in Seq(S) /\ Greeted((s \o A) \o B, u, w2, none)
       /\ k2 \notin Late => NoLate((s \o A) \o B, u)
    <2> HIDE DEF k2
    <2> QED
        BY <1>5, <1>8, <1>10, GreetedByLine DEF B
<1>12. NoLate((s \o A) \o B, u)
    <2>1. CASE B = <<>>
        BY <1>8, <1>10, <2>1, ConcatEmptySeq
    <2> QED
        BY <1>9, <1>11, <2>1
<1> HIDE DEF k2, w2
<1>13. C \in Seq(S) /\ Greeted(((s \o A) \o B) \o C, u, w3, none)
    BY <1>5, <1>11, <1>12, GreetedByLine DEF C
<1>14. ((s \o A) \o B) \o C = s \o ((A \o B) \o C)
    <2> DEFINE AB == A \o B
    <2>1. AB \in Seq(S)
        BY <1>8, <1>11
    <2>2. (s \o A) \o B = s \o AB
        BY <1>5, <1>8, <1>11, ConcatAssociative
    <2> HIDE DEF AB
    <2>3. (s \o AB) \o C = s \o (AB \o C)
        BY <1>5, <1>13, <2>1, ConcatAssociative
    <2>4. ((s \o A) \o B) \o C = s \o (AB \o C)
        BY <2>2, <2>3
    <2> QED
        BY <2>4 DEF AB
<1> HIDE DEF w3
<1>15. Greeted(s \o Greeting(u, d), u, w3, none)
    BY <1>2, <1>13, <1>14
<1>16. Greeted(s \o Greeting(u, d), u, Has(u, d) \ {None}, none)
    BY <1>3, <1>15 DEF Greeted
<1> QED
    BY <1>16 DEF none

\* It consists of lines of the session for the miner.
LEMMA GreetingPosts ==
    ASSUME BTCInv, NEW d \in Miner, NEW u \in Up
    PROVE  /\ Several(InTurn(d, Greeting(u, d)))
           /\ AllPosts(InTurn(d, Greeting(u, d))) \subseteq LinesOf(d, u)
<1> DEFINE k1 == IF d \in rolls THEN rpcSetVersionMask[u] ELSE None
           k2 == rpcSetDifficulty[u]
           k3 == FirstJob(u)
           S == {EventSendBytes(u, k) : k \in Kind}
           sends == InTurn(d, Greeting(u, d))
<1>1. k1 \in Kind \cup {None} /\ k2 \in Kind \cup {None} /\ k3 \in Kind \cup {None}
    BY DEF BTCInv, BTCTypeOK, FirstJob, ToNotifyLine, Kind, JobKind
<1> HIDE DEF S
<1>2. ASSUME NEW k \in Kind \cup {None} PROVE Line(u, k) \in Seq(S)
    <2>1. CASE k = None
        BY <2>1 DEF Line
    <2>2. CASE k # None
        <3> DEFINE e == EventSendBytes(u, k)
        <3>1. e \in S /\ Line(u, k) = <<e>>
            BY <2>2 DEF S, Line
        <3> HIDE DEF e
        <3> QED
            BY <3>1
    <2> QED
        BY <2>1, <2>2
<1> HIDE DEF k1, k2, k3
<1>3. Line(u, k1) \o Line(u, k2) \o Line(u, k3) \in Seq(S)
    <2> DEFINE A == Line(u, k1)
               B == Line(u, k2)
               C == Line(u, k3)
    <2>1. A \in Seq(S) /\ B \in Seq(S) /\ C \in Seq(S)
        BY <1>1, <1>2
    <2> HIDE DEF A, B, C
    <2>2. A \o B \o C \in Seq(S)
        BY <2>1
    <2> QED
        BY <2>2 DEF A, B, C
<1>4. Greeting(u, d) \in Seq(S)
    BY <1>3 DEF Greeting, k1, k2, k3
<1>5. DOMAIN sends = {d} /\ sends[d] = Greeting(u, d) /\ d \in Actor
    BY Parts DEF InTurn
<1> HIDE DEF sends
<1>6. Several(sends)
    BY <1>4, <1>5 DEF Several, IsSequence
<1>7. \A i \in DOMAIN sends[d] : sends[d][i] \in S
    BY <1>4, <1>5
<1>8. AllPosts(sends) \subseteq LinesOf(d, u)
    BY <1>5, <1>7 DEF AllPosts, LinesOf, S
<1> QED
    BY <1>6, <1>8 DEF sends

-----------------------------------------------------------------------------
(* A miner joins a session.                                                *)

LEMMA JoiningMessage ==
    ASSUME BTCInv, NEW p \in PoolSession, chan[p] # <<>>, Head(chan[p]).type = "AddDownSession"
    PROVE  \E d \in Miner : Head(chan[p]) = EventAddDownSession(d) /\ Head(chan[p]).session = d
<1>1. PICK d \in Miner : Head(chan[p]) = EventAddDownSession(d)
    BY Parts, HeadKinds, MailKinds
<1> QED
    BY <1>1 DEF EventAddDownSession

\* A miner that is about to join a session p is served by none, and none that
\* is open and real has taken it last; so p has no line for it under way.
LEMMA JoiningIsNew ==
    ASSUME BTCInv, NEW p \in PoolSession, NEW d \in Miner,
           chan[p] # <<>>, Head(chan[p]) = EventAddDownSession(d)
    PROVE  /\ Holders(d) = {}
           /\ \A u \in Up \cap open : Free(chan, spawned, LinesOf(d, u))
<1>1. <<p, EventAddDownSession(d)>> \in Carriers(d) /\ p \in Actor
    BY Parts DEF Carriers, Joining
<1>2. ~Free(chan, spawned, Carriers(d))
    BY <1>1, Typed, HeadIsSent
<1>3. Holders(d) = {}
    BY <1>2, Typed DEF CustodyInv, CustodyOf
<1>4. host[d] \notin Up \cap open
    BY <1>2 DEF BTCInv, Settled
<1> QED
    BY <1>3, <1>4 DEF BTCInv, Settled

LEMMA JoinStep ==
    ASSUME BTCInv, NEW p \in PoolSession \cap open, NEW d \in Miner,
           chan[p] # <<>>, Head(chan[p]) = EventAddDownSession(d), Joins(p, d),
           NEW STATE sends, Several(sends), AllPosts(sends) \subseteq LinesOf(d, p), Handles(p, sends, {}),
           upSession' = upSession, open' = open, host'[d] = p,
           \A c \in Miner \ {d} : host'[c] = host[c] /\ had'[c] = had[c] /\ told'[c] = told[c],
           BTCTypeOK', Welcomed(d)'
    PROVE  BTCInv'
<1> DEFINE t == Taken(chan, p)
           none == {}
           out == AllPosts(sends) \cup none
           h == <<p, EventAddDownSession(d)>>
<1>0. p \in Actor /\ Handles(p, sends, none) /\ out = AllPosts(sends)
    BY Parts
<1> HIDE DEF none, out
<1>1. out \subseteq LineMail /\ out \subseteq BTCMail /\ Moveless(out)
    <2>1. LinesOf(d, p) \subseteq LineMail
        BY DEF LinesOf, LineMail
    <2>2. out \subseteq LineMail
        BY <1>0, <2>1
    <2> QED
        BY <2>2, LinesMoveNobody
<1>2. Brings({h}, out)
    BY <1>0, Typed, HandlesBrings DEF out
<1>3. CustodyInv'
    BY <1>1, <1>2, Typed, JoinsCustody
<1>4. chan' = Appended(t, sends) /\ IsChan(t) /\ \A c \in Miner : t[c] = chan[c]
    <2>1. IsChan(t) /\ \A x \in Actor \ {p} : t[x] = chan[x]
        BY <1>0, Typed, TakenChannel
    <2> QED
        BY <2>1, Parts DEF Handles, Taken
<1>5. \A c \in Miner \ {d} : FitsMiner(c, out, open') /\ Holders(c)' \subseteq Holders(c)
    <2>1. ASSUME NEW c \in Miner \ {d}, NEW u PROVE out \cap LinesOf(c, u) = {}
        BY <1>0 DEF LinesOf
    <2>2. \A c \in Miner \ {d} : Holders(c)' \subseteq Holders(c)
        BY Typed DEF Holders, Joins, CustodyTypes
    <2> QED
        BY <1>1, <2>1, <2>2 DEF FitsMiner, Moveless
<1> HIDE DEF t, h
<1>6. /\ Mail(chan, spawned, BTCMail)'
      /\ \A c \in Miner \ {d} : Settled(c)' /\ Welcomed(c)'
    <2> DEFINE ds == {d}
    <2>1. /\ \A c \in Miner \ ds : t[c] = chan[c] /\ host'[c] = host[c] /\ had'[c] = had[c] /\ told'[c] = told[c]
          /\ \A c \in Miner \ ds : FitsMiner(c, out, open') /\ Holders(c)' \subseteq Holders(c)
          /\ open' \subseteq open
        BY <1>4, <1>5
    <2> HIDE DEF ds
    <2>2. /\ Mail(chan, spawned, BTCMail)'
          /\ \A c \in Miner \ ds : Settled(c)' /\ Welcomed(c)'
        BY <1>1, <1>2, <1>4, <2>1, OthersKept
    <2> QED
        BY <2>2 DEF ds
<1>7. Settled(d)'
    <2>1. Holders(d) = {} /\ \A u \in Up \cap open : Free(chan, spawned, LinesOf(d, u))
        BY JoiningIsNew
    <2>2. Holders(d)' \subseteq {p} /\ p \in Holders(d)'
        BY <2>1, Typed DEF Holders, Joins, CustodyTypes
    <2>3. Free(chan', spawned', Carriers(d)')
        BY <1>3, <2>2 DEF CustodyInv, CustodyOf
    <2>4. ASSUME NEW u \in Up \cap open, u # p PROVE Free(chan', spawned', LinesOf(d, u))
        <3>1. out \cap LinesOf(d, u) = {}
            BY <1>0, <2>4 DEF LinesOf, EventSendBytes
        <3> QED
            BY <1>2, <2>1, <3>1, FreeKept
    <2>5. \A u \in Up : LinesOf(d, u)' = LinesOf(d, u)
        BY DEF LinesOf
    <2> QED
        BY <2>2, <2>3, <2>4, <2>5 DEF Settled
<1>8. (FakeSessions \subseteq open)'
    BY DEF BTCInv, FakeSessions
<1> QED
    BY <1>3, <1>6, <1>7, <1>8 DEF BTCInv

LEMMA UpAddDownSessionStep ==
    ASSUME BTCInv, NEW u \in PoolSession, UpAddDownSession(u)
    PROVE  BTCInv'
<1>1. chan[u] # <<>> /\ Head(chan[u]).type = "AddDownSession" /\ u \in Up /\ u \in PoolSession \cap open
    BY DEF UpAddDownSession, UpReceives, Receives
<1>2. PICK d \in Miner : Head(chan[u]) = EventAddDownSession(d) /\ Head(chan[u]).session = d
    BY <1>1, JoiningMessage
<1> DEFINE w == (Has(u, d) \ {None}) \cup IF d \in rolls THEN {"rolls"} ELSE {}
           sends == InTurn(d, Greeting(u, d))
<1>3. /\ Joins(u, d) /\ Handles(u, sends, {})
      /\ host' = [host EXCEPT ![d] = u] /\ had' = [had EXCEPT ![d] = w] /\ told' = [told EXCEPT ![d] = {}]
      /\ lastJob' = [lastJob EXCEPT ![u] = FirstJob(u)]
      /\ UNCHANGED <<rolls, rpcSetVersionMask, rpcSetDifficulty, fakeJob, running, upSession, open>>
    BY <1>2 DEF UpAddDownSession, Greets
<1>4. host \in [Miner -> PoolSession \cup {None}] /\ had \in [Miner -> SUBSET (Kind \cup {"rolls"})] /\ told \in [Miner -> SUBSET Kind]
    BY DEF BTCInv, BTCTypeOK
<1>5. Has(u, d) \ {None} \subseteq Kind
    BY <1>1 DEF BTCInv, BTCTypeOK, Has, Kind, JobKind
<1>6. BTCTypeOK'
    <2>1. CustodyTypeOK'
        BY <1>3, Typed DEF CustodyTypeOK, Joins
    <2>2. lastJob' \in [Up -> JobKind \cup {None}]
        BY <1>3 DEF BTCInv, BTCTypeOK, FirstJob, ToNotifyLine, JobKind
    <2>3. w \in SUBSET (Kind \cup {"rolls"})
        BY <1>5
    <2> HIDE DEF w
    <2>4. /\ host' \in [Miner -> PoolSession \cup {None}]
          /\ had' \in [Miner -> SUBSET (Kind \cup {"rolls"})]
          /\ told' \in [Miner -> SUBSET Kind]
        BY <1>3, <1>4, <2>3
    <2> QED
        BY <1>3, <2>1, <2>2, <2>4 DEF BTCInv, BTCTypeOK, Kind, JobKind, FakeSessions, PoolSession
<1>7. Several(sends) /\ AllPosts(sends) \subseteq LinesOf(d, u)
    BY <1>1, GreetingPosts
<1>8. chan'[d] = chan[d] \o Greeting(u, d)
    <2>1. DOMAIN sends = {d} /\ sends[d] = Greeting(u, d) /\ d \in Actor /\ d # u /\ u \in Actor
        BY Parts DEF InTurn
    <2>2. Taken(chan, u)[d] = chan[d]
        BY <1>1, <2>1, Typed, TakenChannel
    <2> HIDE DEF sends
    <2>3. chan' = Appended(Taken(chan, u), sends)
        BY <1>3 DEF Handles, Taken
    <2> QED
        BY <2>1, <2>2, <2>3 DEF Appended
<1>9. Welcomed(d)'
    <2> DEFINE none == {}
    <2>1. \A i \in DOMAIN chan[d], k \in Kind : chan[d][i] # EventSendBytes(u, k)
        <3>1. Free(chan, spawned, LinesOf(d, u)) /\ d \in Actor
            BY <1>1, <1>2, JoiningIsNew, Parts
        <3> QED
            BY <3>1 DEF Free, Waits, LinesOf
    <2>2. IsSequence(chan[d])
        BY Typed, Parts DEF IsChan
    <2>3. Greeted(chan'[d], u, Has(u, d) \ {None}, none)
        BY <1>1, <1>8, <2>1, <2>2, GreetedByGreeting
    <2>4. w \ {"rolls"} \subseteq Has(u, d) \ {None}
        OBVIOUS
    <2>5. host'[d] = u /\ had'[d] = w /\ told'[d] = none
        BY <1>3, <1>4
    <2> HIDE DEF w, none
    <2>6. Greeted(chan'[d], u, w \ {"rolls"}, none)
        <3>1. \A l : l \notin none
            BY DEF none
        <3> QED
            BY <2>3, <2>4, <3>1 DEF Greeted
    <2> QED
        BY <2>5, <2>6 DEF Welcomed
<1>10. /\ host'[d] = u
       /\ \A c \in Miner \ {d} : host'[c] = host[c] /\ had'[c] = had[c] /\ told'[c] = told[c]
    BY <1>3, <1>4
<1> HIDE DEF sends
<1> QED
    BY <1>1, <1>2, <1>3, <1>6, <1>7, <1>9, <1>10, JoinStep

LEMMA FakeAddDownSessionStep ==
    ASSUME BTCInv, NEW p \in PoolSession, FakeAddDownSession(p)
    PROVE  BTCInv'
<1>1. chan[p] # <<>> /\ Head(chan[p]).type = "AddDownSession" /\ p \in FakeSessions /\ p \in PoolSession \cap open
    BY DEF FakeAddDownSession, UpReceives, Receives
<1>2. PICK d \in Miner : Head(chan[p]) = EventAddDownSession(d) /\ Head(chan[p]).session = d
    BY <1>1, JoiningMessage
<1> DEFINE sends == IF fakeJob[p] = None THEN Nothing ELSE To(d, EventSendBytes(p, fakeJob'[p]))
<1>3. /\ Joins(p, d) /\ Handles(p, sends, {})
      /\ fakeJob' = fakeJob \/ (fakeJob[p] # None /\ fakeJob' = [fakeJob EXCEPT ![p] = "cleanJob"])
      /\ host' = [host EXCEPT ![d] = p] /\ had' = [had EXCEPT ![d] = {}] /\ told' = [told EXCEPT ![d] = {}]
      /\ UNCHANGED <<rolls, rpcSetVersionMask, rpcSetDifficulty, lastJob, running, upSession, open>>
    BY <1>2 DEF FakeAddDownSession, ToNotifyLine, upLineVars
<1>4. host \in [Miner -> PoolSession \cup {None}] /\ had \in [Miner -> SUBSET (Kind \cup {"rolls"})] /\ told \in [Miner -> SUBSET Kind]
    BY DEF BTCInv, BTCTypeOK
<1>5. fakeJob' \in [FakeSessions -> JobKind \cup {None}] /\ (fakeJob[p] # None => fakeJob'[p] \in JobKind)
    BY <1>1, <1>3 DEF BTCInv, BTCTypeOK, JobKind
<1>6. BTCTypeOK'
    <2>1. CustodyTypeOK'
        BY <1>3, Typed DEF CustodyTypeOK, Joins
    <2>2. /\ host' \in [Miner -> PoolSession \cup {None}]
          /\ had' \in [Miner -> SUBSET (Kind \cup {"rolls"})]
          /\ told' \in [Miner -> SUBSET Kind]
        BY <1>3, <1>4
    <2> QED
        BY <1>3, <1>5, <2>1, <2>2 DEF BTCInv, BTCTypeOK, Kind, JobKind, FakeSessions, PoolSession
<1>7. Several(sends) /\ AllPosts(sends) \subseteq LinesOf(d, p)
    <2>1. CASE fakeJob[p] = None
        <3>1. sends = Nothing
            BY <2>1
        <3> QED
            BY <3>1, NothingSeveral
    <2>2. CASE fakeJob[p] # None
        <3> DEFINE e == EventSendBytes(p, fakeJob'[p])
        <3>1. <<d, e>> \in LinesOf(d, p)
            BY <1>5, <2>2 DEF LinesOf, Kind
        <3>2. sends = To(d, e)
            BY <2>2
        <3> HIDE DEF sends, e
        <3>3. OneEach(To(d, e)) /\ Posts(To(d, e)) = {<<d, e>>}
            BY Parts, ToPosts
        <3> QED
            BY <3>1, <3>2, <3>3, OneEachIsSeveral
    <2> QED
        BY <2>1, <2>2
<1>8. /\ host'[d] = p
      /\ \A c \in Miner \ {d} : host'[c] = host[c] /\ had'[c] = had[c] /\ told'[c] = told[c]
    BY <1>3, <1>4
<1>9. Welcomed(d)'
    BY <1>1, <1>8, Parts DEF Welcomed
<1> HIDE DEF sends
<1> QED
    BY <1>1, <1>2, <1>3, <1>6, <1>7, <1>8, <1>9, JoinStep

-----------------------------------------------------------------------------
(* The invariant.                                                          *)

LEMMA InitBTC == BTCInit => BTCInv
<1> SUFFICES ASSUME BTCInit PROVE BTCInv
    OBVIOUS
<1>1. CustodyInit /\ CustodyInv /\ CustodyTypeOK /\ Mail(chan, spawned, CustodyMail)
    BY InitCustody DEF BTCInit
<1>2. Mail(chan, spawned, BTCMail)
    BY <1>1, MailGrows DEF BTCMail
<1>3. BTCTypeOK /\ \A d \in Miner : host[d] = None
    BY <1>1 DEF BTCInit, BTCTypeOK
<1>4. FakeSessions \subseteq open
    BY <1>1, Parts DEF CustodyInit
<1>5. ASSUME NEW d \in Miner PROVE Settled(d)
    <2>1. Holders(d) = {}
        BY <1>1 DEF Holders, CustodyInit
    <2>2. ASSUME NEW u \in Up PROVE Free(chan, spawned, LinesOf(d, u))
        <3>1. CustodyMail \cap LinesOf(d, u) = {}
            BY NoLines
        <3> QED
            BY <1>1, <3>1 DEF Free, Waits, Pends, Mail
    <2> QED
        BY <1>3, <2>1, <2>2, Parts DEF Settled
<1>6. \A d \in Miner : Welcomed(d)
    BY <1>3, Parts DEF Welcomed
<1> QED
    BY <1>1, <1>2, <1>3, <1>4, <1>5, <1>6 DEF BTCInv

LEMMA BTCStep ==
    ASSUME BTCInv, [BTCNext]_allVars
    PROVE  BTCInv'
<1>1. CASE UNCHANGED allVars
    <2>1. UNCHANGED <<mailVars, custodyVars>> /\ UNCHANGED lineVars /\ UNCHANGED historyVars
        BY <1>1 DEF allVars, lineVars
    <2>2. CustodyTypeOK'
        BY <2>1, Typed DEF custodyVars, CustodyTypeOK
    <2> QED
        BY <2>1, <2>2, LinesTyped, StandingStep
<1>2. CASE Environment
    <2>1. CASE \E d \in Miner : MinerLeaves(d) /\ UNCHANGED lineVars
        BY <2>1, MinerLeavesStep
    <2>2. CASE \E d \in Miner : ParseConfigureRequest(d)
        BY <2>2, ParseConfigureRequestStep
    <2>3. CASE \E p \in FakeSessions : TransferDownSessions(p) /\ UNCHANGED lineVars
        BY <2>3, TransferDownSessionsStep
    <2>4. CASE \E u \in Up : \/ SetVersionMask(u) \/ SetDifficulty(u) \/ MiningNotify(u)
                             \/ MiningSetDiff(u) \/ PoolBreaks(u)
        BY <2>4, SetVersionMaskStep, SetDifficultyStep, MiningNotifyStep, MiningSetDiffStep, PoolBreaksStep
    <2> QED
        BY <1>2, <2>1, <2>2, <2>3, <2>4 DEF Environment
<1>3. CASE \E d \in Miner : DownRuns(d)
    BY <1>3, SetUpSessionStep, DownSendBytesStep DEF DownRuns
<1>4. CASE \E p \in PoolSession : UpRuns(p)
    BY <1>4, UpAddDownSessionStep, FakeAddDownSessionStep, FakeUpdateJobStep, DownSessionBrokenStep DEF UpRuns
<1>5. CASE \E p \in FakeSessions : SendFakeNotify(p)
    BY <1>5, SendFakeNotifyStep
<1>6. CASE \E m \in BagToSet(spawned) : SenderRuns(m)
    BY <1>6, SenderRunsStep
<1> QED
    BY <1>1, <1>2, <1>3, <1>4, <1>5, <1>6 DEF BTCNext

\* The inductive invariant holds, whichever sessions break and miners leave.
THEOREM BTCInvariant == BTCSpec => []BTCInv
<1>1. BTCInv /\ [BTCNext]_allVars => BTCInv'
    BY BTCStep
<1> QED
    BY InitBTC, <1>1, PTL DEF BTCSpec

\* The variables keep their types (UpSessionBTC.go, FakeUpSessionBTC.go); in
\* particular what a fake session is handed is always a job.
THEOREM BTCTyped == BTCSpec => []BTCTypeOK
<1>1. BTCInv => BTCTypeOK
    BY DEF BTCInv
<1> QED
    BY BTCInvariant, <1>1, PTL

\* A miner is told the mask, the difficulty and the job that its new session has
\* for it before any job or difficulty that this session sends from a goroutine
\* (addDownSession of UpSessionBTC.go).
THEOREM MinersGreetedInOrder == BTCSpec => []GreetedInOrder
<1>1. BTCInv => GreetedInOrder
    <2> SUFFICES ASSUME BTCInv, NEW d \in Miner, host[d] \in Up,
                        told[d] \cap (JobKind \cup {"ownDifficulty"}) # {}
                 PROVE  had[d] \ {"rolls"} \subseteq told[d]
        BY DEF GreetedInOrder
    <2>1. Greeted(chan[d], host[d], had[d] \ {"rolls"}, told[d])
        BY DEF BTCInv, Welcomed
    <2> QED
        BY <2>1 DEF Greeted, Late
<1> QED
    BY BTCInvariant, <1>1, PTL
=============================================================================
