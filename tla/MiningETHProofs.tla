---------------------------- MODULE MiningETHProofs ----------------------------
(***************************************************************************)
(* The extra nonces of the ETH miners, for any number of miners, of real   *)
(* and fake pool sessions and of jobs, and whichever sessions break.       *)
(***************************************************************************)
EXTENDS MiningETH, CustodyProofs

\* The messages, by what sends them.
JobMail == {<<d, EventStratumJobETH(j)>> : d \in Miner, j \in Job}
NonceMail == {<<d, EventSetExtraNonce(n)>> : d \in Miner, n \in Up \cup {InvalidExtraNonce}}
FakeJobMail == {<<p, EventUpdateFakeJobETH(j)>> : p \in FakeSessions, j \in Job}
ETHMail == CustodyMail \cup JobMail \cup NonceMail \cup FakeJobMail

\* Messages that bring no nonce.
Nonceless(msgs) == \A m \in msgs : m[2].type # "SetExtraNonce"

\* In the channel s of a miner that uses session u, each nonce is one of u, and
\* none is behind an event that moves the miner.
InLine(s, u) ==
    \A i \in DOMAIN s : s[i].type = "SetExtraNonce" =>
       /\ s[i].extraNonce \in {u, InvalidExtraNonce}
       /\ \A j \in DOMAIN s : j < i => s[j].type # "SetUpSession"
NoncesInLine == \A d \in Miner : InLine(chan[d], upSession[d])

\* Nonces are sent with SendEvent, by the loop that knows who its miners are.
NoncesAreSent == Nonceless(DOMAIN spawned)

NoncesAreKnown == \A d \in hasExtraNonce : extraNonce[d] # None

MailInv == Mail(chan, spawned, ETHMail) /\ NoncesAreSent /\ NoncesInLine

\* Inductive.
MiningInv ==
    /\ MiningTypeOK
    /\ FakeSessions \subseteq open
    /\ MailInv
    /\ CustodyInv
    /\ NoncesAreKnown
    /\ NonceIsCurrent

-----------------------------------------------------------------------------
(* Channels of miners.                                                     *)

\* What comes behind may have a nonce only when nothing in front moves the miner.
LEMMA AppendedInLine ==
    ASSUME NEW STATE ch, NEW STATE sends, IsChan(ch), Several(sends), NEW d \in Miner, NEW u,
           InLine(ch[d], u),
           \/ \A m \in AllPosts(sends) : m[1] = d => m[2].type # "SetExtraNonce"
           \/ /\ \A j \in DOMAIN ch[d] : ch[d][j].type # "SetUpSession"
              /\ \A m \in AllPosts(sends) : m[1] = d =>
                    /\ m[2].type # "SetUpSession"
                    /\ m[2].type = "SetExtraNonce" => m[2].extraNonce \in {u, InvalidExtraNonce}
    PROVE  InLine(Appended(ch, sends)[d], u)
<1> DEFINE s == ch[d]
           t == Appended(ch, sends)[d]
           new(e) == <<d, e>> \in AllPosts(sends)
<1>0. d \in Actor
    BY DEF Actor
<1>1. /\ \A i \in DOMAIN s : i \in DOMAIN t /\ t[i] = s[i]
      /\ \A i \in DOMAIN t : i \notin DOMAIN s =>
            new(t[i]) /\ i \in Nat /\ \A j \in DOMAIN s : j < i
    BY <1>0, AppendedSeveral
<1>2. DOMAIN s \subseteq Nat
    BY <1>0, IndicesAreNumbers DEF IsChan
<1>3. InLine(s, u)
    OBVIOUS
<1>4. \/ \A e : new(e) => e.type # "SetExtraNonce"
      \/ /\ \A j \in DOMAIN s : s[j].type # "SetUpSession"
         /\ \A e : new(e) =>
               /\ e.type # "SetUpSession"
               /\ e.type = "SetExtraNonce" => e.extraNonce \in {u, InvalidExtraNonce}
    <2>1. \A e : <<d, e>>[1] = d /\ <<d, e>>[2] = e
        OBVIOUS
    <2> QED
        BY <2>1
<1> HIDE DEF s, t, new
<1>5. ASSUME NEW i \in DOMAIN t, t[i].type = "SetExtraNonce"
      PROVE  /\ t[i].extraNonce \in {u, InvalidExtraNonce}
             /\ \A j \in DOMAIN t : j < i => t[j].type # "SetUpSession"
    <2>1. CASE i \in DOMAIN s
        <3>1. \A j \in DOMAIN t : j < i => j \in DOMAIN s
            BY <1>1, <1>2, <2>1
        <3> QED
            BY <1>1, <1>3, <1>5, <2>1, <3>1 DEF InLine
    <2>2. CASE i \notin DOMAIN s
        <3>1. /\ \A j \in DOMAIN s : s[j].type # "SetUpSession"
              /\ \A e : new(e) =>
                    /\ e.type # "SetUpSession"
                    /\ e.type = "SetExtraNonce" => e.extraNonce \in {u, InvalidExtraNonce}
            BY <1>1, <1>4, <1>5, <2>2
        <3>2. \A j \in DOMAIN t : t[j].type # "SetUpSession"
            BY <1>1, <3>1
        <3> QED
            BY <1>1, <1>5, <2>2, <3>1, <3>2
    <2> QED
        BY <2>1, <2>2
<1>6. InLine(t, u)
    BY <1>5 DEF InLine
<1> QED
    BY <1>6 DEF t

\* When the first event is one that moves the miner there is no nonce behind it.
LEMMA TakenInLine ==
    ASSUME NEW STATE ch, NEW STATE d, d \in Actor, IsChan(ch), ch[d] # <<>>, NEW u, InLine(ch[d], u)
    PROVE  /\ InLine(Taken(ch, d)[d], u)
           /\ Head(ch[d]).type = "SetUpSession" => \A v : InLine(Taken(ch, d)[d], v)
<1> DEFINE s == ch[d]
           t == Taken(ch, d)[d]
<1>1. /\ 1 \in DOMAIN s /\ Head(s) = s[1]
      /\ \A i \in DOMAIN t : i \in Nat \ {0} /\ i + 1 \in DOMAIN s /\ t[i] = s[i + 1]
    BY TakenChannel
<1>2. InLine(s, u)
    OBVIOUS
<1> HIDE DEF s, t
<1>3. \A i, j \in DOMAIN t : j < i => j + 1 < i + 1
    BY <1>1
<1>4. InLine(t, u)
    BY <1>1, <1>2, <1>3 DEF InLine
<1>5. ASSUME Head(s).type = "SetUpSession", NEW i \in DOMAIN t PROVE t[i].type # "SetExtraNonce"
    <2>1. 1 < i + 1 /\ i + 1 \in DOMAIN s /\ s[1].type = "SetUpSession" /\ t[i] = s[i + 1]
        BY <1>1, <1>5
    <2> QED
        BY <1>1, <1>2, <2>1 DEF InLine
<1>6. Head(s).type = "SetUpSession" => \A v : InLine(t, v)
    BY <1>5 DEF InLine
<1> QED
    BY <1>4, <1>6 DEF s, t

-----------------------------------------------------------------------------
(* What handlers, senders and deliveries do to the mail.                   *)

LEMMA ETHMailIsFixed == ETHMail' = ETHMail
BY DEF ETHMail, CustodyMail, Carriers, Moving, Joining, Goodbyes, JobMail, NonceMail, FakeJobMail, Job

\* In a handler of a only a itself is told to use another session.
MovesOnly(a) ==
    \A d \in Miner : upSession'[d] # upSession[d] => d = a /\ Head(chan[d]).type = "SetUpSession"

LEMMA HandlesMailInv ==
    ASSUME MailInv, NEW STATE a, a \in Actor, NEW STATE sends, NEW STATE P,
           chan[a] # <<>>, OneEach(sends), Posts(sends) \cap P = {}, Handles(a, sends, P),
           Posts(sends) \subseteq ETHMail, P \subseteq ETHMail,
           Nonceless(Posts(sends)), Nonceless(P),
           MovesOnly(a)
    PROVE  /\ MailInv'
           /\ Passes({<<a, Head(chan[a])>>}, Posts(sends) \cup P)
<1>1. Mail(chan, spawned, ETHMail) /\ IsChan(chan) /\ IsABag(spawned)
    BY DEF MailInv, Mail
<1>2. Passes({<<a, Head(chan[a])>>}, Posts(sends) \cup P)
    BY <1>1, HandlesPasses
<1>3. Mail(chan', spawned', ETHMail)
    BY <1>1, <1>2 DEF Passes
<1>4. ETHMail' = ETHMail
    BY ETHMailIsFixed
<1>5. spawned' = spawned (+) SetToBag(P)
    BY DEF Handles, Spawns
<1>6. NoncesAreSent'
    <2>1. DOMAIN spawned' = DOMAIN spawned \cup P
        BY <1>1, <1>5, SpawnedBag
    <2> QED
        BY <2>1 DEF MailInv, NoncesAreSent, Nonceless
<1> DEFINE t == Taken(chan, a)
<1>7. chan' = Appended(t, sends)
    BY DEF Handles, Taken
<1>8. IsChan(t) /\ \A x \in Actor \ {a} : t[x] = chan[x]
    BY <1>1, TakenChannel
<1>9. Several(sends) /\ AllPosts(sends) = Posts(sends)
    BY OneEachIsSeveral
<1>10. ASSUME NEW d \in Miner PROVE InLine(t[d], upSession'[d])
    <2>1. InLine(chan[d], upSession[d]) /\ d \in Actor
        BY DEF MailInv, NoncesInLine, Actor
    <2>2. CASE d = a
        <3>1. /\ InLine(t[d], upSession[d])
              /\ Head(chan[d]).type = "SetUpSession" => \A v : InLine(t[d], v)
            BY <1>1, <2>1, <2>2, TakenInLine
        <3> HIDE DEF t
        <3>2. CASE upSession'[d] = upSession[d]
            BY <3>1, <3>2
        <3>3. CASE upSession'[d] # upSession[d]
            BY <3>1, <3>3 DEF MovesOnly
        <3> QED
            BY <3>2, <3>3
    <2>3. CASE d # a
        <3>1. upSession'[d] = upSession[d] /\ t[d] = chan[d]
            BY <1>8, <2>1, <2>3 DEF MovesOnly
        <3> HIDE DEF t
        <3> QED
            BY <2>1, <3>1
    <2> QED
        BY <2>2, <2>3
<1> HIDE DEF t
<1>11. ASSUME NEW d \in Miner PROVE InLine(chan'[d], upSession'[d])
    <2>1. \A m \in AllPosts(sends) : m[1] = d => m[2].type # "SetExtraNonce"
        BY <1>9 DEF Nonceless
    <2>2. InLine(Appended(t, sends)[d], upSession'[d])
        BY <1>8, <1>9, <1>10, <2>1, AppendedInLine
    <2> QED
        BY <1>7, <2>2
<1>12. NoncesInLine'
    BY <1>11 DEF NoncesInLine
<1> QED
    BY <1>2, <1>3, <1>4, <1>6, <1>12 DEF MailInv

LEMMA SendsMailInv ==
    ASSUME MailInv, NEW STATE sends, NEW STATE P,
           OneEach(sends), Posts(sends) \cap P = {}, Sends(sends, P),
           Posts(sends) \subseteq ETHMail, P \subseteq ETHMail,
           Nonceless(Posts(sends)), Nonceless(P), upSession' = upSession
    PROVE  MailInv' /\ Passes({}, Posts(sends) \cup P)
<1>1. Mail(chan, spawned, ETHMail) /\ IsChan(chan) /\ IsABag(spawned)
    BY DEF MailInv, Mail
<1>2. Passes({}, Posts(sends) \cup P)
    BY <1>1, SendsPasses
<1>3. Mail(chan', spawned', ETHMail)
    BY <1>1, <1>2 DEF Passes
<1>4. ETHMail' = ETHMail
    BY ETHMailIsFixed
<1>5. chan' = Appended(chan, sends) /\ spawned' = spawned (+) SetToBag(P)
    BY DEF Sends, Spawns
<1>6. NoncesAreSent'
    <2>1. DOMAIN spawned' = DOMAIN spawned \cup P
        BY <1>1, <1>5, SpawnedBag
    <2> QED
        BY <2>1 DEF MailInv, NoncesAreSent, Nonceless
<1>7. Several(sends) /\ AllPosts(sends) = Posts(sends)
    BY OneEachIsSeveral
<1>8. ASSUME NEW d \in Miner PROVE InLine(chan'[d], upSession'[d])
    <2>1. \A m \in AllPosts(sends) : m[1] = d => m[2].type # "SetExtraNonce"
        BY <1>7 DEF Nonceless
    <2>2. InLine(chan[d], upSession[d])
        BY DEF MailInv, NoncesInLine
    <2>3. InLine(Appended(chan, sends)[d], upSession[d])
        BY <1>1, <1>7, <2>1, <2>2, AppendedInLine
    <2> QED
        BY <1>5, <2>3
<1>9. NoncesInLine'
    BY <1>8 DEF NoncesInLine
<1> QED
    BY <1>2, <1>3, <1>4, <1>6, <1>9 DEF MailInv

LEMMA DeliverMailInv ==
    ASSUME MailInv, NEW m \in DOMAIN spawned, Deliver(m), upSession' = upSession
    PROVE  MailInv' /\ Passes({}, {})
<1>1. Mail(chan, spawned, ETHMail) /\ IsChan(chan) /\ IsABag(spawned) /\ NoncesAreSent
    BY DEF MailInv, Mail
<1>2. m \in ETHMail /\ m[2].type # "SetExtraNonce"
    BY <1>1 DEF Mail, NoncesAreSent, Nonceless
<1>3. m = <<m[1], m[2]>> /\ m[1] \in Actor
    BY <1>2 DEF ETHMail, CustodyMail, Carriers, Moving, Joining, Goodbyes, JobMail, NonceMail,
             FakeJobMail, Actor, PoolSession, FakeSessions
<1> DEFINE a == m[1]
           e == m[2]
<1>4. a \in Actor /\ Deliver(<<a, e>>) /\ e.type # "SetExtraNonce"
    BY <1>2, <1>3
<1> HIDE DEF a, e
<1>5. Passes({}, {})
    BY <1>1, <1>4, DeliverPasses
<1>6. Mail(chan', spawned', ETHMail)
    <2>1. {} \subseteq ETHMail
        OBVIOUS
    <2> QED
        BY <1>1, <1>5, <2>1 DEF Passes
<1>7. ETHMail' = ETHMail
    BY ETHMailIsFixed
<1>8. chan' = Appended(chan, To(a, e)) /\ DOMAIN spawned' \subseteq DOMAIN spawned
    BY <1>1, <1>4, DeliverAppends
<1>9. NoncesAreSent'
    BY <1>1, <1>8 DEF NoncesAreSent, Nonceless
<1>10. Several(To(a, e)) /\ AllPosts(To(a, e)) = {<<a, e>>}
    BY <1>4, ToPosts, OneEachIsSeveral
<1>11. ASSUME NEW d \in Miner PROVE InLine(chan'[d], upSession'[d])
    <2>1. \A n \in AllPosts(To(a, e)) : n[1] = d => n[2].type # "SetExtraNonce"
        BY <1>4, <1>10
    <2>2. InLine(chan[d], upSession[d])
        BY DEF MailInv, NoncesInLine
    <2>3. InLine(Appended(chan, To(a, e))[d], upSession[d])
        BY <1>1, <1>10, <2>1, <2>2, AppendedInLine
    <2> QED
        BY <1>8, <2>3
<1>12. NoncesInLine'
    BY <1>11 DEF NoncesInLine
<1> QED
    BY <1>5, <1>6, <1>7, <1>9, <1>12 DEF MailInv

\* An event that is handled is one of the messages above.
LEMMA MailKinds ==
    ASSUME NEW a, NEW e, <<a, e>> \in ETHMail
    PROVE  /\ e.type = "SetUpSession" => \E p \in PoolSession : e = EventSetUpSession(p)
           /\ e.type = "AddDownSession" => \E d \in Miner : e = EventAddDownSession(d)
           /\ e.type = "SetExtraNonce" => e.extraNonce \in Up \cup {InvalidExtraNonce}
           /\ e.type \in {"StratumJobETH", "UpdateFakeJobETH"} => e.job \in Job
<1>1. CASE <<a, e>> \in CustodyMail
    <2>1. CASE \E d \in Miner : <<a, e>> \in Moving(d)
        BY <2>1 DEF Moving, EventSetUpSession
    <2>2. CASE \E d \in Miner : <<a, e>> \in Joining(d)
        BY <2>2 DEF Joining, EventAddDownSession
    <2>3. CASE <<a, e>> \in Goodbyes
        BY <2>3 DEF Goodbyes, EventDownSessionBroken
    <2> QED
        BY <1>1, <2>1, <2>2, <2>3 DEF CustodyMail, Carriers
<1>2. CASE <<a, e>> \in JobMail
    BY <1>2 DEF JobMail, EventStratumJobETH
<1>3. CASE <<a, e>> \in NonceMail
    BY <1>3 DEF NonceMail, EventSetExtraNonce
<1>4. CASE <<a, e>> \in FakeJobMail
    BY <1>4 DEF FakeJobMail, EventUpdateFakeJobETH
<1> QED
    BY <1>1, <1>2, <1>3, <1>4 DEF ETHMail

LEMMA HeadKinds ==
    ASSUME MailInv, NEW a \in Actor, chan[a] # <<>>
    PROVE  <<a, Head(chan[a])>> \in ETHMail
<1>1. Mail(chan, spawned, ETHMail) /\ IsChan(chan)
    BY DEF MailInv, Mail
<1>2. 1 \in DOMAIN chan[a] /\ Head(chan[a]) = chan[a][1]
    BY <1>1, TakenChannel
<1> QED
    BY <1>1, <1>2 DEF Mail

LEMMA CustodyMailIsNonceless == Nonceless(CustodyMail) /\ Nonceless({}) /\ CustodyMail \subseteq ETHMail
<1>1. ASSUME NEW m \in CustodyMail PROVE m[2].type # "SetExtraNonce"
    <2>1. CASE \E d \in Miner : m \in Moving(d)
        BY <2>1 DEF Moving, EventSetUpSession
    <2>2. CASE \E d \in Miner : m \in Joining(d)
        BY <2>2 DEF Joining, EventAddDownSession
    <2>3. CASE m \in Goodbyes
        BY <2>3 DEF Goodbyes, EventDownSessionBroken
    <2> QED
        BY <2>1, <2>2, <2>3 DEF CustodyMail, Carriers
<1> QED
    BY <1>1 DEF Nonceless, ETHMail

\* Jobs move nobody and bring no nonce, nonces move nobody.
LEMMA JobsMoveNobody ==
    ASSUME NEW M, M \subseteq JobMail \cup FakeJobMail
    PROVE  Moveless(M) /\ Nonceless(M) /\ M \subseteq ETHMail
<1>1. \A m \in M : m[2].type \in {"StratumJobETH", "UpdateFakeJobETH"}
    BY DEF JobMail, FakeJobMail, EventStratumJobETH, EventUpdateFakeJobETH
<1>2. \A d \in Miner : \A n \in Carriers(d) : n[2].type \in {"SetUpSession", "AddDownSession"}
    BY DEF Carriers, Moving, Joining, EventSetUpSession, EventAddDownSession
<1>3. M \subseteq ETHMail
    BY DEF ETHMail
<1> QED
    BY <1>1, <1>2, <1>3 DEF Moveless, Nonceless

LEMMA NoncesMoveNobody ==
    ASSUME NEW M, M \subseteq NonceMail
    PROVE  Moveless(M) /\ M \subseteq ETHMail
<1>1. \A m \in M : m[2].type = "SetExtraNonce"
    BY DEF NonceMail, EventSetExtraNonce
<1>2. \A d \in Miner : \A n \in Carriers(d) : n[2].type \in {"SetUpSession", "AddDownSession"}
    BY DEF Carriers, Moving, Joining, EventSetUpSession, EventAddDownSession
<1> QED
    BY <1>1, <1>2 DEF Moveless, ETHMail

-----------------------------------------------------------------------------
(* The parts of the agent are different.                                   *)

LEMMA Parts ==
    /\ Miner \subseteq Actor /\ PoolSession \subseteq Actor
    /\ Up \subseteq PoolSession /\ FakeSessions \subseteq PoolSession
    /\ Miner \cap PoolSession = {} /\ Up \cap FakeSessions = {}
    /\ None \notin Up /\ None \notin PoolSession
BY ActorAssumption DEF Actor, PoolSession, FakeSessions

\* What a step that changes little has to show.
LEMMA Typed ==
    ASSUME MiningInv
    PROVE  /\ CustodyTypes /\ open \subseteq PoolSession
           /\ IsChan(chan) /\ IsABag(spawned) /\ CustodyInv /\ MailInv
BY DEF MiningInv, MiningTypeOK, CustodyTypeOK, CustodyTypes, MailInv, Mail

-----------------------------------------------------------------------------
(* The miner's session.                                                    *)

LEMMA DownSetUpSessionStep ==
    ASSUME MiningInv, NEW d \in Miner, DownSetUpSession(d)
    PROVE  MiningInv'
<1>1. /\ SetUpSession(d) /\ chan[d] # <<>> /\ Head(chan[d]).type = "SetUpSession"
      /\ hasExtraNonce' = hasExtraNonce \ {d}
      /\ UNCHANGED <<extraNonce, work, lastJob, fakeJob, faked, owed, running, open, downSessions>>
    BY DEF DownSetUpSession, SetUpSession, DownReceives, Receives, ForgetsNonce, jobVars
<1>2. PICK p \in PoolSession : Head(chan[d]) = EventSetUpSession(p)
    BY <1>1, Typed, Parts, HeadKinds, MailKinds
<1>3. /\ Handles(d, To(p, EventAddDownSession(d)), {})
      /\ upSession' = [upSession EXCEPT ![d] = p]
    <2>1. Head(chan[d]).session = p
        BY <1>2 DEF EventSetUpSession
    <2> QED
        BY <1>1, <2>1 DEF SetUpSession
<1>4. CustodyInv'
    BY <1>1, <1>2, Typed, SetUpSessionCustody
<1>5. MailInv'
    <2> DEFINE sends == To(p, EventAddDownSession(d))
               none == {}
    <2>1. OneEach(sends) /\ Posts(sends) = {<<p, EventAddDownSession(d)>>}
        BY Parts, ToPosts
    <2>2. <<p, EventAddDownSession(d)>> \in CustodyMail
        BY DEF CustodyMail, Carriers, Joining
    <2>3. /\ Posts(sends) \subseteq ETHMail /\ Nonceless(Posts(sends))
          /\ Nonceless(none) /\ none \subseteq ETHMail /\ Posts(sends) \cap none = {}
        BY <2>1, <2>2, CustodyMailIsNonceless DEF Nonceless
    <2>4. MovesOnly(d)
        BY <1>1, <1>3, Typed DEF CustodyTypes, MovesOnly
    <2>5. Handles(d, sends, none) /\ MailInv /\ d \in Actor
        BY <1>3, Typed, Parts
    <2> HIDE DEF sends, none
    <2> QED
        BY <1>1, <2>1, <2>3, <2>4, <2>5, HandlesMailInv
<1>6. CustodyTypeOK'
    BY <1>1, <1>3 DEF MiningInv, MiningTypeOK, CustodyTypeOK
<1>7. NonceIsCurrent' /\ NoncesAreKnown'
    <2>1. \A c \in Miner \ {d} : upSession'[c] = upSession[c]
        BY <1>3, Typed DEF CustodyTypes
    <2>2. hasExtraNonce \subseteq Miner
        BY DEF MiningInv, MiningTypeOK
    <2> QED
        BY <1>1, <2>1, <2>2 DEF MiningInv, NonceIsCurrent, NoncesAreKnown
<1>8. MiningTypeOK'
    BY <1>1, <1>6 DEF MiningInv, MiningTypeOK, Job
<1>9. (FakeSessions \subseteq open)'
    BY <1>1 DEF MiningInv, FakeSessions
<1> QED
    BY <1>4, <1>5, <1>7, <1>8, <1>9 DEF MiningInv

\* A handler that sends nothing but goodbyes.
LEMMA QuietHandler ==
    ASSUME MiningInv, NEW a \in Actor, NEW STATE P, P \subseteq Goodbyes,
           chan[a] # <<>>, Handles(a, Nothing, P), upSession' = upSession
    PROVE  MailInv' /\ Brings({<<a, Head(chan[a])>>}, P) /\ Moveless(P)
<1> DEFINE none == Nothing
<1>1. OneEach(none) /\ Posts(none) = {}
    BY NothingPosts
<1>2. Moveless(P) /\ P \subseteq CustodyMail
    BY GoodbyeMovesNobody
<1>3. P \subseteq ETHMail /\ Nonceless(P) /\ Nonceless({}) /\ MailInv
    BY <1>2, CustodyMailIsNonceless, Typed DEF Nonceless
<1>4. Posts(none) \cap P = {} /\ Posts(none) \subseteq ETHMail /\ Nonceless(Posts(none)) /\ Posts(none) \cup P = P
    BY <1>1, <1>3
<1>5. MovesOnly(a)
    BY DEF MovesOnly
<1>6. Handles(a, none, P)
    OBVIOUS
<1> HIDE DEF none
<1>7. MailInv' /\ Passes({<<a, Head(chan[a])>>}, Posts(none) \cup P)
    BY <1>1, <1>3, <1>4, <1>5, <1>6, HandlesMailInv
<1> QED
    BY <1>2, <1>4, <1>7, PassesBrings

LEMMA HeadMovesNobody ==
    ASSUME NEW a, NEW e, e.type \notin {"SetUpSession", "AddDownSession"}
    PROVE  Moveless({<<a, e>>})
<1>1. \A d \in Miner : \A n \in Carriers(d) : n[2].type \in {"SetUpSession", "AddDownSession"}
    BY DEF Carriers, Moving, Joining, EventSetUpSession, EventAddDownSession
<1> QED
    BY <1>1 DEF Moveless

\* A handler that moves nobody.
LEMMA QuietHandlerCustody ==
    ASSUME MiningInv, NEW a \in Actor, NEW STATE P, P \subseteq Goodbyes,
           chan[a] # <<>>, Handles(a, Nothing, P), upSession' = upSession,
           Head(chan[a]).type \notin {"SetUpSession", "AddDownSession"},
           open' = open, downSessions' = downSessions
    PROVE  MailInv' /\ CustodyInv'
<1>1. MailInv' /\ Brings({<<a, Head(chan[a])>>}, P) /\ Moveless(P)
    BY QuietHandler
<1>2. Moveless({<<a, Head(chan[a])>>})
    BY HeadMovesNobody
<1>3. \A d \in Miner : Holders(d)' \subseteq Holders(d)
    BY DEF Holders
<1> QED
    BY <1>1, <1>2, <1>3, Typed, MovelessCustody

LEMMA DownSetExtraNonceStep ==
    ASSUME MiningInv, NEW d \in Miner, DownSetExtraNonce(d)
    PROVE  MiningInv'
<1> DEFINE n == Head(chan[d]).extraNonce
           none == {}
<1>1. /\ d \in running /\ chan[d] # <<>> /\ Head(chan[d]).type = "SetExtraNonce"
      /\ UNCHANGED <<work, lastJob, fakeJob, faked, owed>>
    BY DEF DownSetExtraNonce, DownReceives, Receives, jobVars
<1>2. n \in Up \cup {InvalidExtraNonce} /\ n \in {upSession[d], InvalidExtraNonce} /\ d \in Actor
    <2>1. d \in Actor /\ <<d, Head(chan[d])>> \in ETHMail
        BY <1>1, Typed, Parts, HeadKinds
    <2>2. 1 \in DOMAIN chan[d] /\ Head(chan[d]) = chan[d][1]
        BY <1>1, <2>1, Typed, TakenChannel
    <2>3. InLine(chan[d], upSession[d])
        BY Typed DEF MailInv, NoncesInLine
    <2> QED
        BY <1>1, <2>1, <2>2, <2>3, MailKinds DEF InLine
<1>3. \/ /\ running' = running \ {d} /\ Handles(d, Nothing, Broken(d))
         /\ UNCHANGED <<upSession, open, downSessions, hasExtraNonce, extraNonce>>
      \/ /\ n # InvalidExtraNonce
         /\ extraNonce' = [extraNonce EXCEPT ![d] = n]
         /\ hasExtraNonce' = hasExtraNonce \cup {d}
         /\ Handles(d, Nothing, none)
         /\ UNCHANGED <<running, upSession, open, downSessions>>
    BY DEF DownSetExtraNonce, DownCloses, custodyVars
<1> HIDE DEF n
<1>4. MailInv' /\ CustodyInv'
    <2>1. none \subseteq Goodbyes /\ Broken(d) \subseteq Goodbyes
        BY Typed, BrokenSaysGoodbye
    <2> HIDE DEF none
    <2>2. CASE Handles(d, Nothing, Broken(d)) /\ upSession' = upSession /\ open' = open /\ downSessions' = downSessions
        BY <1>1, <1>2, <2>1, <2>2, QuietHandlerCustody
    <2>3. CASE Handles(d, Nothing, none) /\ upSession' = upSession /\ open' = open /\ downSessions' = downSessions
        BY <1>1, <1>2, <2>1, <2>3, QuietHandlerCustody
    <2> QED
        BY <1>3, <2>2, <2>3
<1>5. CustodyTypeOK'
    BY <1>3 DEF MiningInv, MiningTypeOK, CustodyTypeOK
<1>6. (FakeSessions \subseteq open)'
    BY <1>3 DEF MiningInv, FakeSessions
<1>7. extraNonce' \in [Miner -> Up \cup {None}] /\ hasExtraNonce' \subseteq Miner
    BY <1>2, <1>3 DEF MiningInv, MiningTypeOK
<1>8. MiningTypeOK'
    BY <1>1, <1>5, <1>7 DEF MiningInv, MiningTypeOK, Job
<1>9. NonceIsCurrent' /\ NoncesAreKnown'
    <2>1. extraNonce \in [Miner -> Up \cup {None}] /\ hasExtraNonce \subseteq Miner
        BY DEF MiningInv, MiningTypeOK
    <2>2. NonceIsCurrent /\ NoncesAreKnown
        BY DEF MiningInv
    <2>3. CASE UNCHANGED <<upSession, hasExtraNonce, extraNonce>>
        BY <2>2, <2>3 DEF NonceIsCurrent, NoncesAreKnown
    <2>4. CASE /\ n # InvalidExtraNonce /\ upSession' = upSession
               /\ extraNonce' = [extraNonce EXCEPT ![d] = n] /\ hasExtraNonce' = hasExtraNonce \cup {d}
        <3>1. n \in Up /\ n = upSession[d] /\ n # None
            BY <1>2, <2>4, Parts
        <3>2. extraNonce'[d] = n /\ \A c \in Miner \ {d} : extraNonce'[c] = extraNonce[c]
            BY <2>1, <2>4
        <3> QED
            BY <2>1, <2>2, <2>4, <3>1, <3>2 DEF NonceIsCurrent, NoncesAreKnown
    <2> QED
        BY <1>3, <2>3, <2>4
<1> QED
    BY <1>4, <1>6, <1>8, <1>9 DEF MiningInv

LEMMA DownSendJobStep ==
    ASSUME MiningInv, NEW d \in Miner, DownSendJob(d)
    PROVE  MiningInv'
<1> DEFINE none == {}
<1>1. /\ chan[d] # <<>> /\ Head(chan[d]).type = "StratumJobETH" /\ Handles(d, Nothing, none)
      /\ UNCHANGED <<lastJob, fakeJob, faked, owed, hasExtraNonce, extraNonce>>
      /\ UNCHANGED <<running, upSession, open, downSessions>>
    BY DEF DownSendJob, DownReceives, Receives, jobVars, custodyVars
<1>2. none \subseteq Goodbyes /\ d \in Actor
    BY Parts
<1> HIDE DEF none
<1>3. MailInv' /\ CustodyInv'
    BY <1>1, <1>2, QuietHandlerCustody
<1>4. work' \in [Miner -> SUBSET [job : Job, isFakeJob : BOOLEAN, extraNonce : Up]]
    <2> DEFINE W == [job : Job, isFakeJob : BOOLEAN, extraNonce : Up]
               w == [job |-> Head(chan[d]).job, isFakeJob |-> Head(chan[d]).job \in faked,
                     extraNonce |-> extraNonce[d]]
    <2>1. Head(chan[d]).job \in Job
        BY <1>1, <1>2, Typed, HeadKinds, MailKinds
    <2>2. work \in [Miner -> SUBSET W] /\ (d \in hasExtraNonce => extraNonce[d] \in Up)
        BY DEF MiningInv, MiningTypeOK, NoncesAreKnown
    <2>3. \/ work' = work
          \/ d \in hasExtraNonce /\ work' = [work EXCEPT ![d] = @ \cup {w}]
        BY DEF DownSendJob
    <2>4. d \in hasExtraNonce => w \in W
        <3>1. (Head(chan[d]).job \in faked) \in BOOLEAN
            OBVIOUS
        <3> QED
            BY <2>1, <2>2, <3>1, Zenon
    <2> HIDE DEF W, w
    <2>5. work' \in [Miner -> SUBSET W]
        BY <2>2, <2>3, <2>4
    <2> QED
        BY <2>5 DEF W
<1>5. MiningTypeOK'
    BY <1>1, <1>4 DEF MiningInv, MiningTypeOK, CustodyTypeOK, Job
<1>6. NonceIsCurrent' /\ NoncesAreKnown' /\ (FakeSessions \subseteq open)'
    BY <1>1 DEF MiningInv, NonceIsCurrent, NoncesAreKnown, FakeSessions
<1> QED
    BY <1>3, <1>5, <1>6 DEF MiningInv

-----------------------------------------------------------------------------
(* Real and fake pool sessions.                                            *)

\* A handler that sends jobs, or nothing.
LEMMA JobHandler ==
    ASSUME MiningInv, NEW a \in Actor, NEW STATE sends, OneEach(sends),
           Posts(sends) \subseteq JobMail \cup FakeJobMail,
           chan[a] # <<>>, Handles(a, sends, {}), upSession' = upSession
    PROVE  MailInv' /\ Brings({<<a, Head(chan[a])>>}, Posts(sends)) /\ Moveless(Posts(sends))
<1> DEFINE none == {}
<1>1. Moveless(Posts(sends)) /\ Nonceless(Posts(sends)) /\ Posts(sends) \subseteq ETHMail
    BY JobsMoveNobody
<1>2. none \subseteq ETHMail /\ Nonceless(none) /\ MailInv
    BY CustodyMailIsNonceless, Typed
<1>3. Posts(sends) \cap none = {} /\ Posts(sends) \cup none = Posts(sends)
    OBVIOUS
<1>4. MovesOnly(a)
    BY DEF MovesOnly
<1>5. Handles(a, sends, none)
    OBVIOUS
<1> HIDE DEF none
<1>6. MailInv' /\ Passes({<<a, Head(chan[a])>>}, Posts(sends) \cup none)
    BY <1>1, <1>2, <1>3, <1>4, <1>5, HandlesMailInv
<1> QED
    BY <1>1, <1>3, <1>6, PassesBrings

\* A step that sends jobs, and messages of the control plane from goroutines.
LEMMA JobSender ==
    ASSUME MiningInv, NEW STATE sends, OneEach(sends), NEW STATE P,
           Posts(sends) \subseteq FakeJobMail, P \subseteq JobMail \cup CustodyMail,
           Sends(sends, P), upSession' = upSession
    PROVE  MailInv' /\ Passes({}, Posts(sends) \cup P) /\ Moveless(Posts(sends))
<1>1. Moveless(Posts(sends)) /\ Nonceless(Posts(sends)) /\ Posts(sends) \subseteq ETHMail
    <2>1. Posts(sends) \subseteq JobMail \cup FakeJobMail
        OBVIOUS
    <2> QED
        BY <2>1, JobsMoveNobody
<1>2. Nonceless(P) /\ P \subseteq ETHMail
    <2>1. Nonceless(JobMail) /\ JobMail \subseteq ETHMail
        BY JobsMoveNobody
    <2> QED
        BY <2>1, CustodyMailIsNonceless DEF Nonceless
<1>3. Posts(sends) \cap P = {}
    <2>1. \A m \in FakeJobMail : m[2].type = "UpdateFakeJobETH"
        BY DEF FakeJobMail, EventUpdateFakeJobETH
    <2>2. \A m \in JobMail : m[2].type = "StratumJobETH"
        BY DEF JobMail, EventStratumJobETH
    <2>3. ASSUME NEW m \in CustodyMail PROVE m[2].type # "UpdateFakeJobETH"
        <3>1. CASE \E d \in Miner : m \in Moving(d)
            BY <3>1 DEF Moving, EventSetUpSession
        <3>2. CASE \E d \in Miner : m \in Joining(d)
            BY <3>2 DEF Joining, EventAddDownSession
        <3>3. CASE m \in Goodbyes
            BY <3>3 DEF Goodbyes, EventDownSessionBroken
        <3> QED
            BY <3>1, <3>2, <3>3 DEF CustodyMail, Carriers
    <2> QED
        BY <2>1, <2>2, <2>3
<1>4. MailInv
    BY Typed
<1> QED
    BY <1>1, <1>2, <1>3, <1>4, SendsMailInv

LEMMA JoiningMessage ==
    ASSUME MiningInv, NEW p \in PoolSession, chan[p] # <<>>, Head(chan[p]).type = "AddDownSession"
    PROVE  \E d \in Miner : Head(chan[p]) = EventAddDownSession(d) /\ Head(chan[p]).session = d
<1>1. PICK d \in Miner : Head(chan[p]) = EventAddDownSession(d)
    BY Typed, Parts, HeadKinds, MailKinds
<1> QED
    BY <1>1 DEF EventAddDownSession

LEMMA JoinsTyped ==
    ASSUME MiningInv, NEW p \in PoolSession, NEW d \in Miner, Joins(p, d),
           running' = running, upSession' = upSession, open' = open
    PROVE  CustodyTypeOK'
BY DEF MiningInv, MiningTypeOK, CustodyTypeOK, Joins

LEMMA UpAddDownSessionStep ==
    ASSUME MiningInv, NEW u \in PoolSession, UpAddDownSession(u)
    PROVE  MiningInv'
<1> DEFINE none == Nothing
<1>1. chan[u] # <<>> /\ Head(chan[u]).type = "AddDownSession" /\ u \in Up
    BY DEF UpAddDownSession, UpReceives, Receives
<1>2. PICK d \in Miner : Head(chan[u]) = EventAddDownSession(d) /\ Head(chan[u]).session = d
    BY <1>1, JoiningMessage
<1>3. /\ Joins(u, d) /\ owed' = [owed EXCEPT ![u] = @ \cup {d}] /\ Handles(u, none, {})
      /\ UNCHANGED <<running, upSession, open, lastJob, fakeJob, faked, hasExtraNonce, extraNonce, work>>
    BY <1>2 DEF UpAddDownSession, workVars
<1>4. OneEach(none) /\ Posts(none) \subseteq JobMail \cup FakeJobMail
    BY NothingPosts
<1> HIDE DEF none
<1>5. MailInv' /\ Brings({<<u, EventAddDownSession(d)>>}, Posts(none)) /\ Moveless(Posts(none))
    BY <1>1, <1>2, <1>3, <1>4, Parts, JobHandler
<1>6. CustodyInv'
    BY <1>3, <1>5, Typed, JoinsCustody
<1>7. CustodyTypeOK'
    BY <1>3, JoinsTyped
<1>8. MiningTypeOK'
    BY <1>1, <1>3, <1>7 DEF MiningInv, MiningTypeOK, Job
<1>9. NonceIsCurrent' /\ NoncesAreKnown' /\ (FakeSessions \subseteq open)'
    BY <1>3 DEF MiningInv, NonceIsCurrent, NoncesAreKnown, FakeSessions
<1> QED
    BY <1>5, <1>6, <1>8, <1>9 DEF MiningInv

LEMMA FakeAddDownSessionStep ==
    ASSUME MiningInv, NEW p \in PoolSession, FakeAddDownSession(p)
    PROVE  MiningInv'
<1>1. chan[p] # <<>> /\ Head(chan[p]).type = "AddDownSession" /\ p \in FakeSessions
    BY DEF FakeAddDownSession, UpReceives, Receives
<1>2. PICK d \in Miner : Head(chan[p]) = EventAddDownSession(d) /\ Head(chan[p]).session = d
    BY <1>1, JoiningMessage
<1> DEFINE sends == IF fakeJob[p] = None THEN Nothing ELSE To(d, EventStratumJobETH(fakeJob[p]))
<1>3. /\ Joins(p, d) /\ Handles(p, sends, {})
      /\ faked' = faked \/ (fakeJob[p] # None /\ faked' = faked \cup {fakeJob[p]})
      /\ UNCHANGED <<running, upSession, open, lastJob, fakeJob, owed, hasExtraNonce, extraNonce, work>>
    BY <1>2 DEF FakeAddDownSession, MakesFakeJob, workVars
<1>4. fakeJob[p] # None => fakeJob[p] \in Job
    BY <1>1 DEF MiningInv, MiningTypeOK
<1>5. OneEach(sends) /\ Posts(sends) \subseteq JobMail \cup FakeJobMail
    <2>1. CASE fakeJob[p] = None
        BY <2>1, NothingPosts
    <2>2. CASE fakeJob[p] # None
        <3>1. <<d, EventStratumJobETH(fakeJob[p])>> \in JobMail
            BY <1>4, <2>2 DEF JobMail
        <3>2. OneEach(To(d, EventStratumJobETH(fakeJob[p]))) /\ Posts(To(d, EventStratumJobETH(fakeJob[p]))) = {<<d, EventStratumJobETH(fakeJob[p])>>}
            BY Parts, ToPosts
        <3> QED
            BY <2>2, <3>1, <3>2
    <2> QED
        BY <2>1, <2>2
<1> HIDE DEF sends
<1>6. MailInv' /\ Brings({<<p, EventAddDownSession(d)>>}, Posts(sends)) /\ Moveless(Posts(sends))
    BY <1>1, <1>2, <1>3, <1>5, Parts, JobHandler
<1>7. CustodyInv'
    BY <1>3, <1>6, Typed, JoinsCustody
<1>8. CustodyTypeOK'
    BY <1>3, JoinsTyped
<1>9. MiningTypeOK'
    BY <1>3, <1>4, <1>8 DEF MiningInv, MiningTypeOK, Job, FakeSessions
<1>10. NonceIsCurrent' /\ NoncesAreKnown' /\ (FakeSessions \subseteq open)'
    BY <1>3 DEF MiningInv, NonceIsCurrent, NoncesAreKnown, FakeSessions
<1> QED
    BY <1>6, <1>7, <1>9, <1>10 DEF MiningInv

LEMMA FakeUpdateJobStep ==
    ASSUME MiningInv, NEW p \in PoolSession, FakeUpdateJob(p)
    PROVE  MiningInv'
<1> DEFINE none == {}
<1>1. /\ chan[p] # <<>> /\ Head(chan[p]).type = "UpdateFakeJobETH" /\ Handles(p, Nothing, none)
      /\ fakeJob' = [fakeJob EXCEPT ![p] = Head(chan[p]).job]
      /\ UNCHANGED <<lastJob, faked, owed, running, upSession, open, downSessions, hasExtraNonce, extraNonce, work>>
    BY DEF FakeUpdateJob, UpReceives, Receives, custodyVars, workVars
<1>2. Head(chan[p]).job \in Job /\ none \subseteq Goodbyes /\ p \in Actor
    BY <1>1, Typed, Parts, HeadKinds, MailKinds
<1> HIDE DEF none
<1>3. MailInv' /\ CustodyInv'
    BY <1>1, <1>2, QuietHandlerCustody
<1>4. fakeJob' \in [FakeSessions -> Job \cup {None}]
    BY <1>1, <1>2 DEF MiningInv, MiningTypeOK
<1>5. MiningTypeOK'
    BY <1>1, <1>4 DEF MiningInv, MiningTypeOK, CustodyTypeOK, Job, FakeSessions
<1>6. NonceIsCurrent' /\ NoncesAreKnown' /\ (FakeSessions \subseteq open)'
    BY <1>1 DEF MiningInv, NonceIsCurrent, NoncesAreKnown, FakeSessions
<1> QED
    BY <1>3, <1>5, <1>6 DEF MiningInv

\* What the steps of the control plane leave alone.
LEMMA ControlStep ==
    ASSUME MiningInv, MailInv', CustodyInv', CustodyTypeOK', upSession' = upSession,
           (FakeSessions \subseteq open)', UNCHANGED <<jobVars, workVars>>
    PROVE  MiningInv'
<1>1. UNCHANGED <<lastJob, fakeJob, faked, owed, hasExtraNonce, extraNonce, work>>
    BY DEF jobVars, workVars
<1>2. MiningTypeOK'
    BY <1>1 DEF MiningInv, MiningTypeOK, Job, FakeSessions
<1>3. NonceIsCurrent' /\ NoncesAreKnown'
    BY <1>1 DEF MiningInv, NonceIsCurrent, NoncesAreKnown
<1> QED
    BY <1>2, <1>3 DEF MiningInv

LEMMA DownSessionBrokenStep ==
    ASSUME MiningInv, NEW p \in PoolSession, DownSessionBroken(p), UNCHANGED <<jobVars, workVars>>
    PROVE  MiningInv'
<1> DEFINE none == {}
<1>1. /\ chan[p] # <<>> /\ Head(chan[p]).type = "DownSessionBroken" /\ Handles(p, Nothing, none)
      /\ Leaves(p, Head(chan[p]).sessionID)
      /\ running' = running /\ upSession' = upSession /\ open' = open
    BY DEF DownSessionBroken, UpReceives, Receives
<1>2. none \subseteq Goodbyes /\ p \in Actor
    BY Parts
<1> HIDE DEF none
<1>3. MailInv'
    BY <1>1, <1>2, QuietHandler
<1>4. CustodyInv'
    BY <1>1, Typed, DownSessionBrokenCustody
<1>5. CustodyTypeOK'
    BY <1>1 DEF MiningInv, MiningTypeOK, CustodyTypeOK, Leaves
<1>6. (FakeSessions \subseteq open)'
    BY <1>1 DEF MiningInv, FakeSessions
<1> QED
    BY <1>1, <1>3, <1>4, <1>5, <1>6, ControlStep

-----------------------------------------------------------------------------
(* Miners leave, pools break, jobs come.                                   *)

LEMMA MinerLeavesStep ==
    ASSUME MiningInv, NEW d \in Miner, MinerLeaves(d), UNCHANGED <<jobVars, workVars>>
    PROVE  MiningInv'
<1> DEFINE none == Nothing
           bye == Broken(d)
<1>1. /\ Sends(none, bye)
      /\ running' = running \ {d} /\ upSession' = upSession
      /\ open' = open /\ downSessions' = downSessions
    BY DEF MinerLeaves, DownCloses
<1>2. OneEach(none) /\ Posts(none) \subseteq FakeJobMail /\ bye \subseteq JobMail \cup CustodyMail
    BY NothingPosts, Typed, BrokenSaysGoodbye, GoodbyeMovesNobody
<1> HIDE DEF none, bye
<1>3. MailInv'
    BY <1>1, <1>2, JobSender
<1>4. CustodyInv'
    BY Typed, MinerLeavesCustody
<1>5. CustodyTypeOK'
    BY <1>1 DEF MiningInv, MiningTypeOK, CustodyTypeOK
<1>6. (FakeSessions \subseteq open)'
    BY <1>1 DEF MiningInv, FakeSessions
<1> QED
    BY <1>1, <1>3, <1>4, <1>5, <1>6, ControlStep

LEMMA TransferDownSessionsStep ==
    ASSUME MiningInv, NEW p \in FakeSessions, TransferDownSessions(p), UNCHANGED <<jobVars, workVars>>
    PROVE  MiningInv'
<1> DEFINE none == Nothing
<1>1. /\ running' = running /\ upSession' = upSession /\ open' = open
      /\ downSessions' = [downSessions EXCEPT ![p] = {}]
    BY DEF TransferDownSessions
<1>2. /\ CustodyInv'
      /\ \E pending : pending \subseteq CustodyMail /\ Sends(none, pending) /\ Passes({}, pending)
    <2>1. FakeSessions \subseteq open
        BY DEF MiningInv
    <2> QED
        BY <2>1, Typed, TransferCustody
<1>3. PICK pending : pending \subseteq CustodyMail /\ Sends(none, pending)
    BY <1>2
<1>4. OneEach(none) /\ Posts(none) \subseteq FakeJobMail /\ pending \subseteq JobMail \cup CustodyMail
    BY <1>3, NothingPosts
<1> HIDE DEF none
<1>5. MailInv'
    BY <1>1, <1>3, <1>4, JobSender
<1>6. CustodyTypeOK'
    BY <1>1 DEF MiningInv, MiningTypeOK, CustodyTypeOK
<1>7. (FakeSessions \subseteq open)'
    BY <1>1 DEF MiningInv, FakeSessions
<1> QED
    BY <1>1, <1>2, <1>5, <1>6, <1>7, ControlStep

LEMMA PoolBreaksStep ==
    ASSUME MiningInv, NEW u \in Up, PoolBreaks(u)
    PROVE  MiningInv'
<1> DEFINE news(m) == IF lastJob[u] = None THEN Nothing
                      ELSE To(Fake(m), EventUpdateFakeJobETH(lastJob[u]))
           rest == open \ {u}
<1>1. /\ u \in PoolSession \cap open /\ open' = rest
      /\ running' = running /\ upSession' = upSession /\ downSessions' = downSessions
      /\ UNCHANGED <<jobVars, workVars>>
    BY Parts DEF PoolBreaks, UpCloses
<1>2. PICK pending \in Rehomings(downSessions[u], rest), m \in Mgr : Sends(news(m), pending)
    BY DEF PoolBreaks
<1> DEFINE sends == news(m)
<1>3. OneEach(sends) /\ Posts(sends) \subseteq FakeJobMail
    <2>1. CASE lastJob[u] = None
        BY <2>1, NothingPosts
    <2>2. CASE lastJob[u] # None
        <3>1. lastJob[u] \in Job /\ Fake(m) \in FakeSessions /\ Fake(m) \in Actor
            BY <2>2, Parts DEF MiningInv, MiningTypeOK, FakeSessions
        <3>2. <<Fake(m), EventUpdateFakeJobETH(lastJob[u])>> \in FakeJobMail
            BY <3>1 DEF FakeJobMail
        <3>3. /\ OneEach(To(Fake(m), EventUpdateFakeJobETH(lastJob[u])))
              /\ Posts(To(Fake(m), EventUpdateFakeJobETH(lastJob[u])))
                    = {<<Fake(m), EventUpdateFakeJobETH(lastJob[u])>>}
            BY <3>1, ToPosts
        <3> QED
            BY <2>2, <3>2, <3>3
    <2> QED
        BY <2>1, <2>2
<1>4. Sends(sends, pending)
    BY <1>2
<1> HIDE DEF sends, news
<1>5. rest \subseteq PoolSession
    BY Typed
<1>6. pending \subseteq JobMail \cup CustodyMail
    BY <1>1, <1>2, <1>5, Typed, RehomingsAreMoves
<1>7. MailInv' /\ Passes({}, Posts(sends) \cup pending) /\ Moveless(Posts(sends))
    BY <1>1, <1>3, <1>4, <1>6, JobSender
<1>8. \A d \in Miner : Holders(d)' \subseteq Holders(d) \ {u}
    BY <1>1 DEF Holders
<1> HIDE DEF rest
<1>9. CustodyInv'
    BY <1>1, <1>2, <1>5, <1>7, <1>8, Typed, GivesBackCustody
<1>10. CustodyTypeOK'
    BY <1>1, <1>5 DEF MiningInv, MiningTypeOK, CustodyTypeOK
<1>11. (FakeSessions \subseteq open)'
    BY <1>1, Parts DEF MiningInv, FakeSessions, rest
<1> QED
    BY <1>1, <1>7, <1>9, <1>10, <1>11, ControlStep

\* Jobs for the miners of a session, from goroutines.
LEMMA JobsForMiners ==
    ASSUME MiningInv, NEW P, P \subseteq JobMail, Sends(Nothing, P),
           upSession' = upSession, open' = open, downSessions' = downSessions
    PROVE  MailInv' /\ CustodyInv'
<1> DEFINE none == Nothing
<1>1. OneEach(none) /\ Posts(none) \subseteq FakeJobMail /\ Posts(none) \cup P = P
    BY NothingPosts
<1>2. P \subseteq JobMail \cup CustodyMail /\ Moveless(P) /\ Moveless({})
    BY JobsMoveNobody, NothingMoves
<1>3. Sends(none, P)
    OBVIOUS
<1> HIDE DEF none
<1>4. MailInv' /\ Passes({}, Posts(none) \cup P)
    BY <1>1, <1>2, <1>3, JobSender
<1>5. Brings({}, P)
    BY <1>1, <1>4, PassesBrings
<1>6. \A d \in Miner : Holders(d)' \subseteq Holders(d)
    BY DEF Holders
<1> QED
    BY <1>2, <1>4, <1>5, <1>6, Typed, MovelessCustody

LEMMA MiningNotifyStep ==
    ASSUME MiningInv, NEW u \in Up, MiningNotify(u)
    PROVE  MiningInv'
<1>1. PICK n \in 1 .. MaxJobs :
         /\ lastJob' = [lastJob EXCEPT ![u] = <<u, n>>]
         /\ Sends(Nothing, {<<d, EventStratumJobETH(<<u, n>>)>> : d \in downSessions[u]})
    BY DEF MiningNotify
<1>2. UNCHANGED <<fakeJob, faked, owed, running, upSession, open, downSessions, hasExtraNonce, extraNonce, work>>
    BY DEF MiningNotify, custodyVars, workVars
<1>3. <<u, n>> \in Job
    BY DEF Job
<1> DEFINE P == {<<d, EventStratumJobETH(<<u, n>>)>> : d \in downSessions[u]}
<1>4. P \subseteq JobMail
    <2>1. downSessions[u] \subseteq Miner
        BY Typed, Parts DEF CustodyTypes
    <2> QED
        BY <1>3, <2>1 DEF JobMail
<1>5. Sends(Nothing, P)
    BY <1>1
<1> HIDE DEF P
<1>6. MailInv' /\ CustodyInv'
    BY <1>2, <1>4, <1>5, JobsForMiners
<1>7. lastJob' \in [Up -> Job \cup {None}]
    BY <1>1, <1>3 DEF MiningInv, MiningTypeOK
<1>8. MiningTypeOK'
    BY <1>2, <1>7 DEF MiningInv, MiningTypeOK, CustodyTypeOK, Job, FakeSessions
<1>9. NonceIsCurrent' /\ NoncesAreKnown' /\ (FakeSessions \subseteq open)'
    BY <1>2 DEF MiningInv, NonceIsCurrent, NoncesAreKnown, FakeSessions
<1> QED
    BY <1>6, <1>8, <1>9 DEF MiningInv

LEMMA SendFakeNotifyStep ==
    ASSUME MiningInv, NEW p \in FakeSessions, SendFakeNotify(p)
    PROVE  MiningInv'
<1> DEFINE P == {<<d, EventStratumJobETH(fakeJob[p])>> : d \in downSessions[p]}
<1>1. /\ fakeJob[p] # None /\ Sends(Nothing, P) /\ faked' = faked \cup {fakeJob[p]}
      /\ UNCHANGED <<lastJob, fakeJob, owed, running, upSession, open, downSessions, hasExtraNonce, extraNonce, work>>
    BY DEF SendFakeNotify, MakesFakeJob, custodyVars, workVars
<1>2. fakeJob[p] \in Job
    BY <1>1 DEF MiningInv, MiningTypeOK
<1>3. P \subseteq JobMail
    <2>1. downSessions[p] \subseteq Miner
        BY Typed, Parts DEF CustodyTypes
    <2> QED
        BY <1>2, <2>1 DEF JobMail
<1> HIDE DEF P
<1>4. MailInv' /\ CustodyInv'
    BY <1>1, <1>3, JobsForMiners
<1>5. MiningTypeOK'
    BY <1>1, <1>2 DEF MiningInv, MiningTypeOK, CustodyTypeOK, Job, FakeSessions
<1>6. NonceIsCurrent' /\ NoncesAreKnown' /\ (FakeSessions \subseteq open)'
    BY <1>1 DEF MiningInv, NonceIsCurrent, NoncesAreKnown, FakeSessions
<1> QED
    BY <1>4, <1>5, <1>6 DEF MiningInv

LEMMA SenderRunsStep ==
    ASSUME MiningInv, NEW m \in BagToSet(spawned), SenderRuns(m)
    PROVE  MiningInv'
<1>1. Deliver(m) /\ UNCHANGED <<running, upSession, open, downSessions>> /\ UNCHANGED <<jobVars, workVars>>
    BY DEF SenderRuns, custodyVars
<1>2. m \in DOMAIN spawned /\ MailInv
    BY Typed DEF BagToSet
<1>3. MailInv' /\ Passes({}, {})
    BY <1>1, <1>2, DeliverMailInv
<1>4. Brings({}, {}) /\ Moveless({})
    BY <1>3, PassesBrings, NothingMoves
<1>5. \A d \in Miner : Holders(d)' \subseteq Holders(d)
    BY <1>1 DEF Holders
<1>6. CustodyInv'
    BY <1>1, <1>4, <1>5, Typed, MovelessCustody
<1>7. CustodyTypeOK' /\ (FakeSessions \subseteq open)'
    BY <1>1 DEF MiningInv, MiningTypeOK, CustodyTypeOK, FakeSessions
<1> QED
    BY <1>1, <1>3, <1>6, <1>7, ControlStep

-----------------------------------------------------------------------------
(* The nonce.                                                              *)

\* A miner that a session serves has that session, and nothing in its channel
\* moves it.
LEMMA ServedStays ==
    ASSUME MiningInv, NEW d \in Miner, NEW u \in Up \cap open, d \in downSessions[u]
    PROVE  /\ upSession[d] = u
           /\ \A j \in DOMAIN chan[d] : chan[d][j].type # "SetUpSession"
<1>1. u \in Holders(d) /\ CustodyOf(d) /\ d \in Actor
    BY Typed, Parts DEF Holders, CustodyInv
<1>2. upSession[d] = u /\ ~Waits(chan, Carriers(d))
    BY <1>1 DEF CustodyOf, Free
<1>3. ASSUME NEW j \in DOMAIN chan[d], chan[d][j].type = "SetUpSession" PROVE FALSE
    <2>1. <<d, chan[d][j]>> \in ETHMail
        BY <1>1, Typed DEF MailInv, Mail
    <2>2. PICK p \in PoolSession : chan[d][j] = EventSetUpSession(p)
        BY <1>3, <2>1, MailKinds
    <2>3. <<d, chan[d][j]>> \in Carriers(d)
        BY <2>2 DEF Carriers, Moving
    <2> QED
        BY <1>1, <1>2, <2>3 DEF Waits
<1> QED
    BY <1>2, <1>3

\* The nonce and the job that follows it.
LEMMA GreetingPosts ==
    ASSUME MiningInv, NEW d \in Miner, NEW u \in Up, NEW n \in {u, InvalidExtraNonce}
    PROVE  /\ Several(InTurn(d, NonceAndJob(u, n)))
           /\ \A m \in AllPosts(InTurn(d, NonceAndJob(u, n))) :
                 m = <<d, EventSetExtraNonce(n)>> \/ (m \in JobMail /\ m[1] = d)
<1> DEFINE sends == InTurn(d, NonceAndJob(u, n))
           e == EventSetExtraNonce(n)
           g == EventStratumJobETH(lastJob[u])
<1>1. DOMAIN sends = {d} /\ sends[d] = NonceAndJob(u, n) /\ d \in Actor
    BY Parts DEF InTurn
<1>2. CASE lastJob[u] = None
    <2>1. sends[d] = <<e>> \o <<>>
        BY <1>1, <1>2 DEF NonceAndJob
    <2> HIDE DEF e, sends
    <2>2. <<e>> \o <<>> \in Seq({e}) /\ DOMAIN (<<e>> \o <<>>) = {1} /\ (<<e>> \o <<>>)[1] = e
        OBVIOUS
    <2>3. IsSequence(sends[d])
        BY <2>1, <2>2 DEF IsSequence
    <2>4. AllPosts(sends) = {<<d, e>>}
        BY <1>1, <2>1, <2>2 DEF AllPosts
    <2>5. Several(sends)
        BY <1>1, <2>3 DEF Several
    <2> QED
        BY <2>4, <2>5 DEF sends, e
<1>3. CASE lastJob[u] # None
    <2>1. sends[d] = <<e>> \o <<g>>
        BY <1>1, <1>3 DEF NonceAndJob
    <2>2. <<d, g>> \in JobMail
        BY <1>3 DEF MiningInv, MiningTypeOK, JobMail
    <2> HIDE DEF e, g, sends
    <2>3. /\ <<e>> \o <<g>> \in Seq({e, g}) /\ DOMAIN (<<e>> \o <<g>>) = {1, 2}
          /\ (<<e>> \o <<g>>)[1] = e /\ (<<e>> \o <<g>>)[2] = g
        OBVIOUS
    <2>4. IsSequence(sends[d])
        BY <2>1, <2>3 DEF IsSequence
    <2>5. AllPosts(sends) = {<<d, e>>, <<d, g>>}
        <3>1. AllPosts(sends) = {<<d, sends[d][i]>> : i \in {1, 2}}
            BY <1>1, <2>1, <2>3 DEF AllPosts
        <3> QED
            BY <2>1, <2>3, <3>1
    <2>6. Several(sends)
        BY <1>1, <2>4 DEF Several
    <2>7. \A m \in AllPosts(sends) : m = <<d, e>> \/ (m \in JobMail /\ m[1] = d)
        BY <2>2, <2>5
    <2> QED
        BY <2>6, <2>7 DEF sends, e
<1> QED
    BY <1>2, <1>3

LEMMA GreetsStep ==
    ASSUME MiningInv, NEW d \in Miner, NEW u \in Up \cap open, NEW n \in {u, InvalidExtraNonce},
           d \in downSessions[u], Greets(u, d, n),
           upSession' = upSession, open' = open, downSessions' = downSessions
    PROVE  MailInv' /\ CustodyInv'
<1> DEFINE sends == InTurn(d, NonceAndJob(u, n))
           posts == AllPosts(sends)
           none == {}
<1>1. Sends(sends, none)
    BY DEF Greets
<1>2. /\ Several(sends)
      /\ \A m \in posts : m = <<d, EventSetExtraNonce(n)>> \/ (m \in JobMail /\ m[1] = d)
    BY GreetingPosts
<1>3. posts \subseteq NonceMail \cup JobMail
    <2>1. <<d, EventSetExtraNonce(n)>> \in NonceMail
        BY DEF NonceMail
    <2> QED
        BY <1>2, <2>1
<1>4. Mail(chan, spawned, ETHMail) /\ IsChan(chan) /\ IsABag(spawned) /\ NoncesAreSent /\ NoncesInLine
    BY Typed DEF MailInv
<1>5. chan' = Appended(chan, sends) /\ spawned' = spawned (+) SetToBag(none)
    BY <1>1 DEF Sends, Spawns
<1>6. posts \cup none = posts /\ Moveless(posts) /\ posts \subseteq ETHMail /\ Moveless(none)
    <2>1. /\ Moveless(NonceMail) /\ Moveless(JobMail)
          /\ NonceMail \subseteq ETHMail /\ JobMail \subseteq ETHMail
        BY NoncesMoveNobody, JobsMoveNobody
    <2> QED
        BY <1>3, <2>1, NothingMoves DEF Moveless
<1>7. \A m \in posts : /\ m[2].type # "SetUpSession" /\ m[1] = d
                       /\ m[2].type = "SetExtraNonce" => m[2].extraNonce = n
    <2>1. \A m \in JobMail : m[2].type = "StratumJobETH"
        BY DEF JobMail, EventStratumJobETH
    <2>2. EventSetExtraNonce(n).type = "SetExtraNonce" /\ EventSetExtraNonce(n).extraNonce = n
        BY DEF EventSetExtraNonce
    <2>3. ASSUME NEW m \in posts PROVE /\ m[2].type # "SetUpSession" /\ m[1] = d
                                       /\ m[2].type = "SetExtraNonce" => m[2].extraNonce = n
        <3>1. CASE m = <<d, EventSetExtraNonce(n)>>
            <4>1. m[1] = d /\ m[2] = EventSetExtraNonce(n)
                BY <3>1
            <4> QED
                BY <2>2, <4>1
        <3>2. CASE m \in JobMail /\ m[1] = d
            BY <2>1, <3>2
        <3> QED
            BY <1>2, <3>1, <3>2
    <2> QED
        BY <2>3
<1>8. Brings(none, posts \cup none)
    BY <1>1, <1>2, <1>4, SendsBrings
<1> HIDE DEF posts, sends
<1>9. CustodyInv'
    <2>1. \A c \in Miner : Holders(c)' \subseteq Holders(c)
        BY DEF Holders
    <2>2. Brings(none, posts)
        BY <1>6, <1>8
    <2> HIDE DEF none
    <2> QED
        BY <1>6, <2>1, <2>2, Typed, MovelessCustody
<1>10. Mail(chan', spawned', ETHMail)
    BY <1>4, <1>6, <1>8 DEF Brings
<1>11. NoncesAreSent'
    <2>1. DOMAIN spawned' = DOMAIN spawned \cup none
        BY <1>4, <1>5, SpawnedBag
    <2> QED
        BY <1>4, <2>1 DEF NoncesAreSent, Nonceless
<1>12. ASSUME NEW c \in Miner PROVE InLine(chan'[c], upSession'[c])
    <2>1. InLine(chan[c], upSession[c])
        BY <1>4 DEF NoncesInLine
    <2>2. \/ \A m \in AllPosts(sends) : m[1] = c => m[2].type # "SetExtraNonce"
          \/ /\ \A j \in DOMAIN chan[c] : chan[c][j].type # "SetUpSession"
             /\ \A m \in AllPosts(sends) : m[1] = c =>
                   /\ m[2].type # "SetUpSession"
                   /\ m[2].type = "SetExtraNonce" => m[2].extraNonce \in {upSession[c], InvalidExtraNonce}
        <3>1. CASE c = d
            <4>1. upSession[d] = u /\ \A j \in DOMAIN chan[d] : chan[d][j].type # "SetUpSession"
                BY ServedStays
            <4> QED
                BY <1>7, <3>1, <4>1 DEF posts
        <3>2. CASE c # d
            BY <1>7, <3>2 DEF posts
        <3> QED
            BY <3>1, <3>2
    <2>3. InLine(Appended(chan, sends)[c], upSession[c])
        BY <1>2, <1>4, <2>1, <2>2, AppendedInLine
    <2> QED
        BY <1>5, <2>3
<1>13. NoncesInLine'
    BY <1>12 DEF NoncesInLine
<1> QED
    BY <1>9, <1>10, <1>11, <1>13, ETHMailIsFixed DEF MailInv

LEMMA SetExtraNonceStep ==
    ASSUME MiningInv, NEW u \in Up, SetExtraNonce(u)
    PROVE  MiningInv'
<1>1. PICK d \in owed[u], n \in {u} \cup IF PoolMayBeFull THEN {InvalidExtraNonce} ELSE {} :
         /\ owed' = [owed EXCEPT ![u] = @ \ {d}]
         /\ IF d \in downSessions[u] THEN Greets(u, d, n) ELSE UNCHANGED mailVars
    BY DEF SetExtraNonce
<1>2. /\ u \in open
      /\ UNCHANGED <<lastJob, fakeJob, faked, running, upSession, open, downSessions, hasExtraNonce, extraNonce, work>>
    BY DEF SetExtraNonce, custodyVars, workVars
<1>3. d \in Miner /\ n \in {u, InvalidExtraNonce}
    BY <1>1 DEF MiningInv, MiningTypeOK
<1>4. MailInv' /\ CustodyInv'
    <2>1. CASE d \in downSessions[u]
        <3>1. Greets(u, d, n)
            BY <1>1, <2>1
        <3> QED
            BY <1>2, <1>3, <2>1, <3>1, GreetsStep
    <2>2. CASE d \notin downSessions[u]
        <3>1. UNCHANGED mailVars
            BY <1>1, <2>2
        <3>2. MailInv'
            BY <1>2, <3>1, Typed, ETHMailIsFixed DEF mailVars, MailInv, NoncesAreSent, NoncesInLine
        <3>3. Brings({}, {}) /\ Moveless({})
            BY <3>1, QuietPasses, PassesBrings, NothingMoves
        <3>4. \A c \in Miner : Holders(c)' \subseteq Holders(c)
            BY <1>2 DEF Holders
        <3> QED
            BY <1>2, <3>2, <3>3, <3>4, Typed, MovelessCustody
    <2> QED
        BY <2>1, <2>2
<1>5. MiningTypeOK'
    BY <1>1, <1>2 DEF MiningInv, MiningTypeOK, CustodyTypeOK, Job, FakeSessions
<1>6. NonceIsCurrent' /\ NoncesAreKnown' /\ (FakeSessions \subseteq open)'
    BY <1>2 DEF MiningInv, NonceIsCurrent, NoncesAreKnown, FakeSessions
<1> QED
    BY <1>4, <1>5, <1>6 DEF MiningInv

-----------------------------------------------------------------------------
(* The invariant.                                                          *)

LEMMA InitMining == MiningInit => MiningInv
<1> SUFFICES ASSUME MiningInit PROVE MiningInv
    OBVIOUS
<1>1. CustodyInit /\ CustodyInv /\ CustodyTypeOK /\ Mail(chan, spawned, CustodyMail)
    BY InitCustody DEF MiningInit
<1>2. Mail(chan, spawned, ETHMail) /\ NoncesAreSent
    BY <1>1, CustodyMailIsNonceless, MailGrows DEF NoncesAreSent, Nonceless, Mail
<1>3. NoncesInLine
    <2>1. \A d \in Miner : \A i \in DOMAIN chan[d] : <<d, chan[d][i]>> \in CustodyMail
        BY <1>1, Parts DEF Mail
    <2>2. \A d \in Miner : \A i \in DOMAIN chan[d] : chan[d][i].type # "SetExtraNonce"
        BY <2>1, CustodyMailIsNonceless DEF Nonceless
    <2> QED
        BY <2>2 DEF NoncesInLine, InLine
<1>4. MiningTypeOK /\ NoncesAreKnown /\ NonceIsCurrent
    BY <1>1 DEF MiningInit, MiningTypeOK, NoncesAreKnown, NonceIsCurrent
<1>5. FakeSessions \subseteq open
    BY <1>1, Parts DEF CustodyInit
<1> QED
    BY <1>1, <1>2, <1>3, <1>4, <1>5 DEF MiningInv, MailInv

LEMMA MiningStep ==
    ASSUME MiningInv, [MiningNext]_allVars
    PROVE  MiningInv'
<1>1. CASE UNCHANGED allVars
    <2>1. UNCHANGED <<mailVars, custodyVars>> /\ UNCHANGED <<jobVars, workVars>>
        BY <1>1 DEF allVars
    <2>2. MailInv'
        BY <2>1, Typed, ETHMailIsFixed DEF mailVars, custodyVars, MailInv, NoncesAreSent, NoncesInLine
    <2>3. CustodyInv'
        <3>1. Brings({}, {}) /\ Moveless({})
            BY <2>1, QuietPasses, PassesBrings, NothingMoves
        <3>2. upSession' = upSession /\ \A c \in Miner : Holders(c)' \subseteq Holders(c)
            BY <2>1 DEF custodyVars, Holders
        <3> QED
            BY <3>1, <3>2, Typed, MovelessCustody
    <2>4. CustodyTypeOK' /\ upSession' = upSession /\ (FakeSessions \subseteq open)'
        BY <2>1 DEF custodyVars, MiningInv, MiningTypeOK, CustodyTypeOK, FakeSessions
    <2> QED
        BY <2>1, <2>2, <2>3, <2>4, ControlStep
<1>2. CASE Environment
    <2>1. CASE \E d \in Miner : MinerLeaves(d) /\ UNCHANGED <<jobVars, workVars>>
        BY <2>1, MinerLeavesStep
    <2>2. CASE \E p \in FakeSessions : TransferDownSessions(p) /\ UNCHANGED <<jobVars, workVars>>
        BY <2>2, TransferDownSessionsStep
    <2>3. CASE \E u \in Up : MiningNotify(u)
        BY <2>3, MiningNotifyStep
    <2>4. CASE \E u \in Up : PoolBreaks(u)
        BY <2>4, PoolBreaksStep
    <2> QED
        BY <1>2, <2>1, <2>2, <2>3, <2>4 DEF Environment
<1>3. CASE \E d \in Miner : DownRuns(d)
    BY <1>3, DownSetUpSessionStep, DownSetExtraNonceStep, DownSendJobStep DEF DownRuns
<1>4. CASE \E p \in PoolSession : UpRuns(p)
    BY <1>4, UpAddDownSessionStep, FakeAddDownSessionStep, FakeUpdateJobStep, DownSessionBrokenStep DEF UpRuns
<1>5. CASE \E u \in Up : SetExtraNonce(u)
    BY <1>5, SetExtraNonceStep
<1>6. CASE \E p \in FakeSessions : SendFakeNotify(p)
    BY <1>6, SendFakeNotifyStep
<1>7. CASE \E m \in BagToSet(spawned) : SenderRuns(m)
    BY <1>7, SenderRunsStep
<1> QED
    BY <1>1, <1>2, <1>3, <1>4, <1>5, <1>6, <1>7 DEF MiningNext

\* The inductive invariant holds, whichever sessions break and miners leave.
THEOREM MiningInvariant == MiningSpec => []MiningInv
<1>1. MiningInv /\ [MiningNext]_allVars => MiningInv'
    BY MiningStep
<1> QED
    BY InitMining, <1>1, PTL DEF MiningSpec

\* The variables keep their types; in particular a nonce with which a job is
\* sent to a miner is always one that a real session allotted.
THEOREM MiningTyped == MiningSpec => []MiningTypeOK
<1>1. MiningInv => MiningTypeOK
    BY DEF MiningInv
<1> QED
    BY MiningInvariant, <1>1, PTL

\* An extra nonce that a miner uses is always one of the session that serves it
\* (handleSetUpSession and setExtraNonce of DownSessionETH.go,
\* handleExMessageSetExtraNonce of UpSessionETH.go).
THEOREM NoncesAreCurrent == MiningSpec => []NonceIsCurrent
<1>1. MiningInv => NonceIsCurrent
    BY DEF MiningInv
<1> QED
    BY MiningInvariant, <1>1, PTL
=============================================================================
