----------------------------- MODULE SharesProofs -----------------------------
(***************************************************************************)
(* Shares and their answers, for any number of miners, sessions and shares *)
(* and any range of the index, whoever moves, leaves or breaks.            *)
(***************************************************************************)
EXTENDS Shares, CustodyProofs

Owner(id) == id[1]
Indices == 0 .. IndexWidth - 1

\* The messages, by what sends them.
SubmitMail == {<<p, EventSubmitShare(id, b)>> : p \in PoolSession, id \in ShareID, b \in BOOLEAN}
AnswerMail == {<<Owner(id), EventSubmitResponse(id)>> : id \in ShareID}
PoolMail == {<<u, EventRecvExMessage(i)>> : u \in Up, i \in Indices}
SharesMail == CustodyMail \cup SubmitMail \cup AnswerMail \cup PoolMail

\* The share on its way to the session p; or anywhere, or its answer.
ToPool(p, id) == {<<p, EventSubmitShare(id, b)>> : b \in BOOLEAN}
Tokens(id) == {<<p, EventSubmitShare(id, b)>> : p \in PoolSession, b \in BOOLEAN}
                 \cup {<<Owner(id), EventSubmitResponse(id)>>}

\* The pool's answers with index i.
Replies(u, i) == {<<u, EventRecvExMessage(i)>>}

\* The share waits for an answer of a pool; has been answered; is still to come.
Held(id) == {x \in Up \X Indices : x[2] \in DOMAIN submitIDs[x[1]] /\ submitIDs[x[1]][x[2]] = id}
Answered(id) == id \in DOMAIN answers[Owner(id)]
Unsubmitted(id) == id[2] > Len(sent[Owner(id)])

\* A share is in one place at most: in a message, with its answer or without, in
\* one entry of one session's submitIDs, or with its miner, answered or not yet
\* submitted.
InOnePlace(id) ==
    /\ AtMostOne(chan, spawned, Tokens(id))
    /\ \A x, y \in Held(id) : x = y
    /\ Answered(id) => answers[Owner(id)][id] = 1
    /\ Held(id) # {} => Free(chan, spawned, Tokens(id))
    /\ Answered(id) => Free(chan, spawned, Tokens(id)) /\ Held(id) = {}
    /\ Unsubmitted(id) => Free(chan, spawned, Tokens(id)) /\ Held(id) = {} /\ ~Answered(id)

\* Session and pool count alike, and each entry of submitIDs waits for one thing:
\* for the pool to answer, or for the answer with its index to be handled.
Numbered(u) ==
    /\ u \in AnsweringUp => Index(poolCount[u]) = submitIndex[u]
    /\ u \notin AnsweringUp => atPool[u] = {}
Placed(u) ==
    /\ \A s \in atPool[u] : Index(s.place) \in DOMAIN submitIDs[u] /\ submitIDs[u][Index(s.place)] = s.id
    /\ \A s, t \in atPool[u] : Index(s.place) = Index(t.place) => s = t
Awaited(u, i) ==
    /\ AtMostOne(chan, spawned, Replies(u, i))
    /\ ~Free(chan, spawned, Replies(u, i)) =>
          i \in DOMAIN submitIDs[u] /\ \A s \in atPool[u] : Index(s.place) # i
InAgreement(u) ==
    /\ Numbered(u)
    /\ Placed(u)
    /\ \A i \in Indices : Awaited(u, i)

\* There is an index for each share that is on its way to u.
HasRoom(u) ==
    /\ IsFiniteSet(InTransit(u))
    /\ Cardinality(InTransit(u)) <= IndexWidth
    /\ \A k \in Nat : k < Cardinality(InTransit(u)) => Index(submitIndex[u] + k) \notin DOMAIN submitIDs[u]

\* Inductive.
SharesInv ==
    /\ SharesTypeOK
    /\ \A d \in Miner : \A id \in DOMAIN answers[d] : Owner(id) = d
    /\ Mail(chan, spawned, SharesMail)
    /\ \A id \in ShareID : InOnePlace(id)
    /\ \A u \in Up : InAgreement(u)
    /\ \A u \in Up : HasRoom(u)

-----------------------------------------------------------------------------
(* The parts and the messages.                                             *)

LEMMA Parts ==
    /\ Miner \subseteq Actor /\ PoolSession \subseteq Actor
    /\ Up \subseteq PoolSession /\ FakeSessions \subseteq PoolSession
    /\ Miner \cap PoolSession = {} /\ Up \cap FakeSessions = {}
    /\ None \notin Up /\ None \notin PoolSession
BY ActorAssumption DEF Actor, PoolSession, FakeSessions

LEMMA MailIsFixed ==
    /\ SharesMail' = SharesMail
    /\ \A id : Tokens(id)' = Tokens(id)
    /\ \A p, id : ToPool(p, id)' = ToPool(p, id)
    /\ \A u, i : Replies(u, i)' = Replies(u, i)
BY DEF SharesMail, CustodyMail, Carriers, Moving, Joining, Goodbyes, SubmitMail, AnswerMail, PoolMail,
       Tokens, ToPool, Replies, Owner, Indices, ShareID

LEMMA Typed ==
    ASSUME SharesInv
    PROVE  /\ CustodyTypes /\ CustodyTypeOK /\ open \subseteq PoolSession
           /\ IsChan(chan) /\ IsABag(spawned) /\ Mail(chan, spawned, SharesMail)
BY DEF SharesInv, SharesTypeOK, CustodyTypeOK, CustodyTypes, Mail

\* The events of shares are different.
LEMMA EventsDiffer ==
    /\ \A i, j, b, c : EventSubmitShare(i, b) = EventSubmitShare(j, c) => i = j
    /\ \A i, j : EventSubmitResponse(i) = EventSubmitResponse(j) => i = j
    /\ \A i, j : EventRecvExMessage(i) = EventRecvExMessage(j) => i = j
    /\ \A i, j, b : EventSubmitShare(i, b) # EventSubmitResponse(j)
    /\ \A i, j, b : EventSubmitShare(i, b) # EventRecvExMessage(j)
    /\ \A i, j : EventSubmitResponse(i) # EventRecvExMessage(j)
<1>1. /\ \A i, b : EventSubmitShare(i, b).id = i /\ EventSubmitShare(i, b).type = "SubmitShare"
      /\ \A i : EventSubmitResponse(i).id = i /\ EventSubmitResponse(i).type = "SubmitResponse"
      /\ \A i : EventRecvExMessage(i).index = i /\ EventRecvExMessage(i).type = "RecvExMessage"
    BY DEF EventSubmitShare, EventSubmitResponse, EventRecvExMessage
<1>2. "SubmitShare" # "SubmitResponse" /\ "SubmitShare" # "RecvExMessage" /\ "SubmitResponse" # "RecvExMessage"
    OBVIOUS
<1> QED
    BY <1>1, <1>2

\* Which messages are tokens of a share, or replies.
LEMMA SharesOf ==
    ASSUME NEW id, NEW p, NEW j, NEW b
    PROVE  /\ <<p, EventSubmitShare(j, b)>> \in Tokens(id) => j = id
           /\ \A q : <<p, EventSubmitShare(j, b)>> \in ToPool(q, id) => j = id /\ p = q
           /\ \A u, i : <<p, EventSubmitShare(j, b)>> \notin Replies(u, i)
<1>1. <<p, EventSubmitShare(j, b)>> \in Tokens(id) => j = id
    BY EventsDiffer DEF Tokens
<1>2. \A q : <<p, EventSubmitShare(j, b)>> \in ToPool(q, id) => j = id /\ p = q
    BY EventsDiffer DEF ToPool
<1>3. \A u, i : <<p, EventSubmitShare(j, b)>> \notin Replies(u, i)
    BY EventsDiffer DEF Replies
<1> QED
    BY <1>1, <1>2, <1>3

LEMMA AnswersAre ==
    ASSUME NEW id, NEW j
    PROVE  /\ <<Owner(j), EventSubmitResponse(j)>> \in Tokens(id) <=> j = id
           /\ \A q : <<Owner(j), EventSubmitResponse(j)>> \notin ToPool(q, id)
           /\ \A u, i : <<Owner(j), EventSubmitResponse(j)>> \notin Replies(u, i)
<1>1. <<Owner(j), EventSubmitResponse(j)>> \in Tokens(id) <=> j = id
    BY EventsDiffer DEF Tokens
<1>2. \A q : <<Owner(j), EventSubmitResponse(j)>> \notin ToPool(q, id)
    BY EventsDiffer DEF ToPool
<1>3. \A u, i : <<Owner(j), EventSubmitResponse(j)>> \notin Replies(u, i)
    BY EventsDiffer DEF Replies
<1> QED
    BY <1>1, <1>2, <1>3

LEMMA RepliesAre ==
    ASSUME NEW v, NEW j
    PROVE  /\ \A id : <<v, EventRecvExMessage(j)>> \notin Tokens(id)
           /\ \A q, id : <<v, EventRecvExMessage(j)>> \notin ToPool(q, id)
           /\ \A u, i : <<v, EventRecvExMessage(j)>> \in Replies(u, i) <=> u = v /\ i = j
<1>1. \A id : <<v, EventRecvExMessage(j)>> \notin Tokens(id)
    BY EventsDiffer DEF Tokens
<1>2. \A q, id : <<v, EventRecvExMessage(j)>> \notin ToPool(q, id)
    BY EventsDiffer DEF ToPool
<1>3. \A u, i : <<v, EventRecvExMessage(j)>> \in Replies(u, i) <=> u = v /\ i = j
    BY EventsDiffer DEF Replies
<1> QED
    BY <1>1, <1>2, <1>3

LEMMA TokensToPool ==
    ASSUME NEW p \in PoolSession, NEW id
    PROVE  ToPool(p, id) \subseteq Tokens(id)
BY DEF ToPool, Tokens

\* The messages of the control plane are neither.
LEMMA CustodyMailIsElse ==
    ASSUME NEW M, M \subseteq CustodyMail
    PROVE  /\ M \subseteq SharesMail
           /\ \A id : M \cap Tokens(id) = {}
           /\ \A q, id : M \cap ToPool(q, id) = {}
           /\ \A u, i : M \cap Replies(u, i) = {}
<1>1. \A m \in CustodyMail : m[2].type \in {"SetUpSession", "AddDownSession", "DownSessionBroken"}
    <2>1. \A d \in Miner : \A m \in Moving(d) : m[2].type = "SetUpSession"
        BY DEF Moving, EventSetUpSession
    <2>2. \A d \in Miner : \A m \in Joining(d) : m[2].type = "AddDownSession"
        BY DEF Joining, EventAddDownSession
    <2>3. \A m \in Goodbyes : m[2].type = "DownSessionBroken"
        BY DEF Goodbyes, EventDownSessionBroken
    <2> QED
        BY <2>1, <2>2, <2>3 DEF CustodyMail, Carriers
<1>2. \A id : \A m \in Tokens(id) : m[2].type \in {"SubmitShare", "SubmitResponse"}
    BY DEF Tokens, EventSubmitShare, EventSubmitResponse
<1>3. \A q, id : \A m \in ToPool(q, id) : m[2].type = "SubmitShare"
    BY DEF ToPool, EventSubmitShare
<1>4. \A u, i : \A m \in Replies(u, i) : m[2].type = "RecvExMessage"
    BY DEF Replies, EventRecvExMessage
<1>5. M \subseteq SharesMail
    BY DEF SharesMail
<1>6. \A id : M \cap Tokens(id) = {}
    BY <1>1, <1>2
<1>7. \A q, id : M \cap ToPool(q, id) = {}
    BY <1>1, <1>3
<1>8. \A u, i : M \cap Replies(u, i) = {}
    BY <1>1, <1>4
<1> QED
    BY <1>5, <1>6, <1>7, <1>8

\* An event that is handled is one of the messages above.
LEMMA MailKinds ==
    ASSUME NEW a, NEW e, <<a, e>> \in SharesMail
    PROVE  /\ e.type = "SetUpSession" => e.session \in PoolSession /\ <<a, e>> \in CustodyMail
           /\ e.type = "AddDownSession" => e.session \in Miner /\ <<a, e>> \in CustodyMail
           /\ e.type = "DownSessionBroken" => <<a, e>> \in CustodyMail
           /\ e.type = "SubmitShare" => e.id \in ShareID /\ \E b \in BOOLEAN : e = EventSubmitShare(e.id, b)
           /\ e.type = "SubmitResponse" => e.id \in ShareID /\ a = Owner(e.id) /\ e = EventSubmitResponse(e.id)
           /\ e.type = "RecvExMessage" => a \in Up /\ e.index \in Indices /\ e = EventRecvExMessage(e.index)
<1>1. CASE <<a, e>> \in CustodyMail
    <2>1. CASE \E d \in Miner : <<a, e>> \in Moving(d)
        BY <1>1, <2>1 DEF Moving, EventSetUpSession
    <2>2. CASE \E d \in Miner : <<a, e>> \in Joining(d)
        BY <1>1, <2>2 DEF Joining, EventAddDownSession
    <2>3. CASE <<a, e>> \in Goodbyes
        BY <1>1, <2>3 DEF Goodbyes, EventDownSessionBroken
    <2> QED
        BY <1>1, <2>1, <2>2, <2>3 DEF CustodyMail, Carriers
<1>2. CASE <<a, e>> \in SubmitMail
    <2>1. PICK p \in PoolSession, id \in ShareID, b \in BOOLEAN : <<a, e>> = <<p, EventSubmitShare(id, b)>>
        BY <1>2 DEF SubmitMail
    <2>2. e = EventSubmitShare(id, b)
        BY <2>1
    <2>3. e.type = "SubmitShare" /\ e.id = id
        BY <2>2 DEF EventSubmitShare
    <2> QED
        BY <2>2, <2>3
<1>3. CASE <<a, e>> \in AnswerMail
    BY <1>3 DEF AnswerMail, EventSubmitResponse
<1>4. CASE <<a, e>> \in PoolMail
    BY <1>4 DEF PoolMail, EventRecvExMessage
<1> QED
    BY <1>1, <1>2, <1>3, <1>4 DEF SharesMail

LEMMA HeadKinds ==
    ASSUME SharesInv, NEW a \in Actor, chan[a] # <<>>
    PROVE  <<a, Head(chan[a])>> \in SharesMail
<1>1. Mail(chan, spawned, SharesMail) /\ IsChan(chan)
    BY Typed
<1>2. 1 \in DOMAIN chan[a] /\ Head(chan[a]) = chan[a][1]
    BY <1>1, TakenChannel
<1> QED
    BY <1>1, <1>2 DEF Mail

-----------------------------------------------------------------------------
(* The places of a share.                                                  *)

LEMMA HandlesSpawning ==
    ASSUME NEW STATE a, a \in Actor, NEW STATE P, IsChan(chan), IsABag(spawned),
           chan[a] # <<>>, Handles(a, Nothing, P)
    PROVE  Passes({<<a, Head(chan[a])>>}, P)
<1>1. Posts(Nothing) \cap P = {} /\ Posts(Nothing) \cup P = P /\ OneEach(Nothing)
    BY NothingPosts
<1>2. Passes({<<a, Head(chan[a])>>}, Posts(Nothing) \cup P)
    BY <1>1, HandlesPasses
<1> QED
    BY <1>1, <1>2

LEMMA SendsSpawning ==
    ASSUME NEW STATE P, IsChan(chan), IsABag(spawned), Sends(Nothing, P)
    PROVE  Passes({}, P)
<1>1. Posts(Nothing) \cap P = {} /\ Posts(Nothing) \cup P = P /\ OneEach(Nothing)
    BY NothingPosts
<1>2. Passes({}, Posts(Nothing) \cup P)
    BY <1>1, SendsPasses
<1> QED
    BY <1>1, <1>2

\* The step has nothing to do with the share, or forgets it.
LEMMA StaysInPlace ==
    ASSUME NEW id \in ShareID, InOnePlace(id), NEW STATE in, NEW STATE out, Passes(in, out),
           in \cap Tokens(id) = {}, out \cap Tokens(id) = {}, Held(id)' \subseteq Held(id),
           Answered(id)' <=> Answered(id),
           Answered(id) => answers'[Owner(id)][id] = answers[Owner(id)][id],
           Unsubmitted(id)' => Unsubmitted(id)
    PROVE  InOnePlace(id)'
<1> DEFINE K == Tokens(id)
<1>1. AtMostOne(chan', spawned', K) /\ (Free(chan', spawned', K) <=> Free(chan, spawned, K))
    BY DEF Passes, InOnePlace
<1>2. Tokens(id)' = K
    BY MailIsFixed
<1>3. Held(id)' # {} => Held(id) # {}
    OBVIOUS
<1>4. \A x, y \in Held(id)' : x = y
    BY DEF InOnePlace
<1> HIDE DEF K
<1>5. (Owner(id))' = Owner(id)
    BY DEF Owner
<1>6. Answered(id)' => answers'[Owner(id)][id] = 1
    BY DEF InOnePlace
<1>7. /\ Held(id) # {} => Free(chan, spawned, K)
      /\ Answered(id) => Free(chan, spawned, K) /\ Held(id) = {}
      /\ Unsubmitted(id) => Free(chan, spawned, K) /\ Held(id) = {} /\ ~Answered(id)
    BY DEF InOnePlace, K
<1>8. /\ Held(id)' # {} => Free(chan', spawned', K)
      /\ Answered(id)' => Free(chan', spawned', K) /\ Held(id)' = {}
      /\ Unsubmitted(id)' => Free(chan', spawned', K) /\ Held(id)' = {} /\ ~Answered(id)'
    BY <1>1, <1>3, <1>7
<1> QED
    BY <1>1, <1>2, <1>4, <1>5, <1>6, <1>8 DEF InOnePlace

\* The message is taken, and the share remembered, answered or forgotten.
LEMMA LeavesTheMail ==
    ASSUME NEW id \in ShareID, InOnePlace(id), NEW STATE in, NEW STATE out, Passes(in, out),
           in \cap Tokens(id) # {}, out \cap Tokens(id) = {},
           Unsubmitted(id)' => Unsubmitted(id),
           NEW STATE x,
           \/ Held(id)' \subseteq Held(id) \cup {x} /\ (Answered(id)' <=> Answered(id))
           \/ /\ Held(id)' \subseteq Held(id) /\ Answered(id)'
              /\ ~Answered(id) => answers'[Owner(id)][id] = 1
    PROVE  InOnePlace(id)'
<1> DEFINE K == Tokens(id)
<1>1. AtMostOne(chan', spawned', K) /\ Free(chan', spawned', K) /\ ~Free(chan, spawned, K)
    BY DEF Passes, InOnePlace
<1>2. Tokens(id)' = K
    BY MailIsFixed
<1>3. Held(id) = {} /\ ~Answered(id) /\ ~Unsubmitted(id)
    BY <1>1 DEF InOnePlace
<1> HIDE DEF K
<1>4. (Owner(id))' = Owner(id)
    BY DEF Owner
<1>5. \A y, z \in Held(id)' : y = z
    BY <1>3
<1>6. Answered(id)' => answers'[Owner(id)][id] = 1 /\ Held(id)' = {}
    BY <1>3
<1>7. ~Unsubmitted(id)'
    BY <1>3
<1> QED
    BY <1>1, <1>2, <1>4, <1>5, <1>6, <1>7 DEF InOnePlace

\* The share, or its answer, is sent on.
LEMMA IsSentOn ==
    ASSUME NEW id \in ShareID, InOnePlace(id), NEW STATE in, NEW STATE out, Passes(in, out),
           NEW STATE m, out \cap Tokens(id) = {m},
           \/ in \cap Tokens(id) # {} /\ ~Free(chan, spawned, Tokens(id))
           \/ Held(id) # {},
           Unsubmitted(id)' => Unsubmitted(id), Answered(id)' <=> Answered(id),
           Held(id)' \subseteq Held(id), \A x \in Held(id) : x \notin Held(id)'
    PROVE  InOnePlace(id)'
<1> DEFINE K == Tokens(id)
<1>1. ~Answered(id) /\ ~Unsubmitted(id)
    BY DEF InOnePlace
<1>2. AtMostOne(chan, spawned, K) /\ (in \cap K # {} \/ Free(chan, spawned, K))
    BY DEF InOnePlace
<1>3. AtMostOne(chan', spawned', K)
    BY <1>2 DEF Passes
<1>4. Tokens(id)' = K
    BY MailIsFixed
<1> HIDE DEF K
<1>5. Held(id)' = {} /\ ~Answered(id)' /\ ~Unsubmitted(id)'
    BY <1>1
<1> QED
    BY <1>3, <1>4, <1>5 DEF InOnePlace

\* The miner submits the share, and may be answered at once.
LEMMA IsSubmitted ==
    ASSUME NEW id \in ShareID, InOnePlace(id), NEW STATE in, NEW STATE out, Passes(in, out),
           in \cap Tokens(id) = {}, Unsubmitted(id), ~Unsubmitted(id)', Held(id)' \subseteq Held(id),
           \/ ~Answered(id)' /\ \E m : out \cap Tokens(id) = {m}
           \/ answers'[Owner(id)][id] = 1 /\ out \cap Tokens(id) = {}
    PROVE  InOnePlace(id)'
<1> DEFINE K == Tokens(id)
<1>1. Held(id)' = {} /\ ~Unsubmitted(id)'
    BY DEF InOnePlace
<1>2. AtMostOne(chan, spawned, K) /\ Free(chan, spawned, K)
    BY DEF InOnePlace
<1>3. Tokens(id)' = K /\ (Owner(id))' = Owner(id)
    BY MailIsFixed DEF Owner
<1>4. CASE ~Answered(id)' /\ \E m : out \cap K = {m}
    <2>1. PICK m : out \cap K = {m}
        BY <1>4
    <2>2. AtMostOne(chan', spawned', K)
        BY <1>2, <2>1 DEF Passes
    <2> QED
        BY <1>1, <1>3, <1>4, <2>2 DEF InOnePlace
<1>5. CASE answers'[Owner(id)][id] = 1 /\ out \cap K = {}
    <2>1. AtMostOne(chan', spawned', K) /\ Free(chan', spawned', K)
        BY <1>2, <1>5 DEF Passes
    <2> QED
        BY <1>1, <1>3, <1>5, <2>1 DEF InOnePlace
<1> QED
    BY <1>4, <1>5

-----------------------------------------------------------------------------
(* Indices, the numbers modulo IndexWidth.                                 *)

LEMMA SmallIndices ==
    /\ \A n \in Nat : Index(n) \in Indices
    /\ \A n \in Indices : Index(n) = n
    /\ \A n \in Nat : n >= IndexWidth /\ n < IndexWidth + IndexWidth => Index(n) = n - IndexWidth
<1>1. ASSUME NEW n \in Nat PROVE Index(n) \in Indices
    BY ShareAssumption DEF Index, Indices
<1>2. ASSUME NEW n \in Indices PROVE Index(n) = n
    BY ShareAssumption DEF Index, Indices
<1>3. ASSUME NEW n \in Nat, n >= IndexWidth, n < IndexWidth + IndexWidth
      PROVE  Index(n) = n - IndexWidth
    BY <1>3, ShareAssumption DEF Index
<1> QED
    BY <1>1, <1>2, <1>3

\* What makes a number the index of another.
LEMMA IndexIs ==
    ASSUME NEW n \in Nat, NEW q \in Int, NEW r \in Indices, n = IndexWidth * q + r
    PROVE  Index(n) = r
<1> DEFINE w == IndexWidth
           p == n \div w
           s == n % w
<1>1. p \in Int /\ n = w * p + s /\ s \in 0 .. w - 1
    BY ShareAssumption
<1>2. w \in Nat \ {0} /\ n = w * q + r /\ r \in 0 .. w - 1
    BY ShareAssumption DEF Indices
<1> HIDE DEF w, p, s
<1>3. ASSUME NEW x \in Int, x > 0 PROVE w * x >= w
    BY <1>2, <1>3
<1>4. ASSUME p > q PROVE FALSE
    <2>1. w * (p - q) = r - s
        BY <1>1, <1>2
    <2> QED
        BY <1>1, <1>2, <1>3, <1>4, <2>1
<1>5. ASSUME p < q PROVE FALSE
    <2>1. w * (q - p) = s - r
        BY <1>1, <1>2
    <2> QED
        BY <1>1, <1>2, <1>3, <1>5, <2>1
<1>6. p = q
    BY <1>1, <1>4, <1>5
<1>7. s = r
    BY <1>1, <1>2, <1>6
<1> QED
    BY <1>7 DEF s, w, Index

\* Counting on and taking the index may be done in either order.
LEMMA NextIndex ==
    ASSUME NEW n \in Nat
    PROVE  Index(n + 1) = Index(Index(n) + 1)
<1> DEFINE w == IndexWidth
           p == n \div w
           s == n % w
<1>1. p \in Nat /\ n = w * p + s /\ s \in 0 .. w - 1 /\ w \in Nat \ {0} /\ Index(n) = s
    BY ShareAssumption DEF Index
<1> HIDE DEF p, s
<1>2. CASE s + 1 < w
    <2>1. n + 1 = w * p + (s + 1) /\ s + 1 \in Indices /\ p \in Int /\ n + 1 \in Nat
        BY <1>1, <1>2 DEF Indices
    <2>2. Index(n + 1) = s + 1
        BY <1>1, <2>1, IndexIs
    <2> QED
        BY <1>1, <2>1, <2>2, SmallIndices
<1>3. CASE s + 1 >= w
    <2>1. n + 1 = w * p + w /\ s + 1 = w
        BY <1>1, <1>3
    <2>2. n + 1 = w * (p + 1) + 0 /\ p + 1 \in Int /\ n + 1 \in Nat /\ 0 \in Indices
        BY <1>1, <2>1 DEF Indices
    <2>3. Index(n + 1) = 0
        BY <2>2, IndexIs
    <2>4. Index(w) = w - w
        BY <1>1, SmallIndices
    <2> QED
        BY <1>1, <2>1, <2>3, <2>4
<1> QED
    BY <1>1, <1>2, <1>3

\* The indices that follow x are different from x, for one turn.
LEMMA FollowingIndices ==
    ASSUME NEW x \in Indices, NEW k \in Nat, k + 1 < IndexWidth
    PROVE  Index(x + (k + 1)) # x /\ Index(Index(x + 1) + k) = Index(x + (k + 1))
<1> DEFINE w == IndexWidth
<1>1. w \in Nat \ {0} /\ x \in 0 .. w - 1
    BY ShareAssumption DEF Indices
<1>2. \A n \in Nat : n < w => Index(n) = n
    BY <1>1, SmallIndices DEF Indices
<1>3. \A n \in Nat : n >= w /\ n < w + w => Index(n) = n - w
    BY SmallIndices
<1>4. k + 1 < w
    OBVIOUS
<1> HIDE DEF w
<1>5. Index(x + (k + 1)) # x
    <2>1. CASE x + (k + 1) < w
        BY <1>1, <1>2, <2>1
    <2>2. CASE x + (k + 1) >= w
        BY <1>1, <1>3, <1>4, <2>2
    <2> QED
        BY <1>1, <2>1, <2>2
<1>6. Index(Index(x + 1) + k) = Index(x + (k + 1))
    <2>1. CASE x + 1 < w
        <3>1. Index(x + 1) = x + 1
            BY <1>1, <1>2, <2>1
        <3>2. (x + 1) + k = x + (k + 1)
            BY <1>1
        <3> QED
            BY <3>1, <3>2
    <2>2. CASE x + 1 >= w
        <3>1. x + 1 = w
            BY <1>1, <2>2
        <3>2. Index(x + 1) = 0
            BY <1>1, <1>3, <3>1
        <3>3. x + (k + 1) = w + k
            BY <1>1, <3>1
        <3>4. Index(w + k) = k /\ Index(0 + k) = k
            BY <1>1, <1>2, <1>3, <1>4
        <3> QED
            BY <3>2, <3>3, <3>4
    <2> QED
        BY <1>1, <2>1, <2>2
<1> QED
    BY <1>5, <1>6

-----------------------------------------------------------------------------
(* Session and pool.                                                       *)

LEMMA AgreementStays ==
    ASSUME NEW u \in Up, InAgreement(u), NEW STATE in, NEW STATE out, Passes(in, out),
           \A i \in Indices : in \cap Replies(u, i) = {} /\ out \cap Replies(u, i) = {},
           submitIndex'[u] = submitIndex[u], poolCount'[u] = poolCount[u] \/ u \notin AnsweringUp,
           atPool'[u] = atPool[u], submitIDs'[u] = submitIDs[u]
    PROVE  InAgreement(u)'
<1>1. Numbered(u)' /\ Placed(u)'
    BY DEF InAgreement, Numbered, Placed, Index
<1>2. ASSUME NEW i \in Indices PROVE Awaited(u, i)'
    <2>1. Awaited(u, i) /\ Replies(u, i)' = Replies(u, i)
        BY MailIsFixed DEF InAgreement
    <2> DEFINE K == Replies(u, i)
    <2>2. AtMostOne(chan', spawned', K) /\ (Free(chan', spawned', K) <=> Free(chan, spawned, K))
        BY <2>1 DEF Passes, Awaited
    <2> HIDE DEF K
    <2> QED
        BY <2>1, <2>2 DEF Awaited, Index, K
<1> QED
    BY <1>1, <1>2 DEF InAgreement, Indices

\* The shares that are on their way to p, as kinds of messages.
TransitByMail ==
    \A p \in PoolSession : InTransit(p) = {id \in ShareID : ~Free(chan, spawned, ToPool(p, id))}

LEMMA TransitIs == TransitByMail
<1> SUFFICES ASSUME NEW p \in PoolSession, NEW id \in ShareID
             PROVE  (\E b \in BOOLEAN : UnderWay(p, EventSubmitShare(id, b))) <=> ~Free(chan, spawned, ToPool(p, id))
    BY DEF TransitByMail, InTransit
<1>1. \A m : m \in ToPool(p, id) <=> \E b \in BOOLEAN : m = <<p, EventSubmitShare(id, b)>>
    BY DEF ToPool
<1>2. p \in Actor
    BY Parts
<1>3. Waits(chan, ToPool(p, id)) <=>
         \E b \in BOOLEAN : \E i \in DOMAIN chan[p] : chan[p][i] = EventSubmitShare(id, b)
    <2>1. ASSUME NEW a \in Actor, NEW i \in DOMAIN chan[a], <<a, chan[a][i]>> \in ToPool(p, id)
          PROVE  \E b \in BOOLEAN : \E k \in DOMAIN chan[p] : chan[p][k] = EventSubmitShare(id, b)
        <3>1. PICK b \in BOOLEAN : <<a, chan[a][i]>> = <<p, EventSubmitShare(id, b)>>
            BY <1>1, <2>1
        <3>2. a = p /\ chan[a][i] = EventSubmitShare(id, b)
            BY <3>1
        <3> QED
            BY <3>2
    <2>2. ASSUME NEW b \in BOOLEAN, NEW i \in DOMAIN chan[p], chan[p][i] = EventSubmitShare(id, b)
          PROVE  Waits(chan, ToPool(p, id))
        <3>1. <<p, chan[p][i]>> \in ToPool(p, id)
            BY <1>1, <2>2
        <3> QED
            BY <1>2, <3>1 DEF Waits
    <2>3. Waits(chan, ToPool(p, id)) =>
             \E a \in Actor : \E i \in DOMAIN chan[a] : <<a, chan[a][i]>> \in ToPool(p, id)
        BY DEF Waits
    <2> QED
        BY <2>1, <2>2, <2>3, Zenon
<1>4. Pends(spawned, ToPool(p, id)) <=> \E b \in BOOLEAN : <<p, EventSubmitShare(id, b)>> \in DOMAIN spawned
    BY <1>1, Zenon DEF Pends
<1> QED
    BY <1>3, <1>4, Zenon DEF Free, UnderWay, BagIn, BagToSet

\* What a step does to them.
LEMMA TransitStep ==
    ASSUME \A id \in ShareID : InOnePlace(id), NEW STATE in, NEW STATE out, Passes(in, out),
           NEW p \in PoolSession, NEW id \in ShareID, out \cap ToPool(p, id) = {}
    PROVE  /\ in \cap ToPool(p, id) = {} => (id \in InTransit(p)' <=> id \in InTransit(p))
           /\ in \cap ToPool(p, id) # {} => id \in InTransit(p) /\ id \notin InTransit(p)'
<1> DEFINE K == ToPool(p, id)
<1>1. AtMostOne(chan, spawned, K)
    BY TokensToPool, KindWithin DEF InOnePlace
<1>2. id \in InTransit(p) <=> ~Free(chan, spawned, K)
    BY TransitIs DEF TransitByMail
<1>3. TransitByMail'
    BY TransitIs, PTL
<1>4. id \in InTransit(p)' <=> ~Free(chan', spawned', K)
    BY <1>3, MailIsFixed DEF TransitByMail, PoolSession, ShareID
<1> HIDE DEF K
<1>5. out \cap K = {}
    BY DEF K
<1>6. /\ in \cap K = {} => (Free(chan', spawned', K) <=> Free(chan, spawned, K))
      /\ in \cap K # {} => Free(chan', spawned', K) /\ ~Free(chan, spawned, K)
    BY <1>1, <1>5 DEF Passes
<1> QED
    BY <1>2, <1>4, <1>6 DEF K

-----------------------------------------------------------------------------
(* Room for the shares that are on their way.                              *)

\* No more shares are on their way, and no more are remembered.
LEMMA RoomStays ==
    ASSUME NEW u \in Up, HasRoom(u), InTransit(u)' \subseteq InTransit(u),
           submitIndex'[u] = submitIndex[u], DOMAIN submitIDs'[u] \subseteq DOMAIN submitIDs[u]
    PROVE  HasRoom(u)'
<1> DEFINE S == InTransit(u)
           T == InTransit(u)'
<1>1. IsFiniteSet(S) /\ T \subseteq S /\ Cardinality(S) <= IndexWidth
    BY DEF HasRoom
<1> HIDE DEF S, T
<1>2. /\ IsFiniteSet(T) /\ Cardinality(T) <= Cardinality(S)
      /\ Cardinality(S) \in Nat /\ Cardinality(T) \in Nat
    BY <1>1, FS_Subset, FS_CardinalityType
<1>3. IsFiniteSet(T) /\ Cardinality(T) <= IndexWidth
    BY <1>1, <1>2, ShareAssumption
<1>4. ASSUME NEW k \in Nat, k < Cardinality(T)
      PROVE  Index(submitIndex'[u] + k) \notin DOMAIN submitIDs'[u]
    <2>1. k < Cardinality(S)
        BY <1>2, <1>4
    <2> QED
        BY <2>1 DEF HasRoom, S
<1> QED
    BY <1>3, <1>4 DEF HasRoom, T, Index

\* The first of them is remembered.
LEMMA RoomIsUsed ==
    ASSUME NEW u \in Up, HasRoom(u), NEW id, id \in InTransit(u), InTransit(u)' \subseteq InTransit(u) \ {id},
           submitIndex[u] \in Indices, submitIndex'[u] = Index(submitIndex[u] + 1),
           DOMAIN submitIDs'[u] \subseteq DOMAIN submitIDs[u] \cup {submitIndex[u]}
    PROVE  HasRoom(u)' /\ submitIndex[u] \notin DOMAIN submitIDs[u]
<1> DEFINE S == InTransit(u)
           T == InTransit(u)'
           n == Cardinality(S)
           w == IndexWidth
           x == submitIndex[u]
<1>1. IsFiniteSet(S) /\ id \in S /\ T \subseteq S \ {id} /\ n <= w /\ w \in Nat
    BY ShareAssumption DEF HasRoom
<1>2. x \in Indices /\ \A k \in Nat : k < n => Index(x + k) \notin DOMAIN submitIDs[u]
    BY DEF HasRoom
<1> HIDE DEF S, T, x
<1>3. IsFiniteSet(S \ {id}) /\ Cardinality(S \ {id}) = n - 1 /\ n \in Nat
    BY <1>1, FS_RemoveElement, FS_CardinalityType
<1>4. IsFiniteSet(T) /\ Cardinality(T) <= n - 1 /\ Cardinality(T) \in Nat
    BY <1>1, <1>3, FS_Subset, FS_CardinalityType
<1> HIDE DEF n, w
<1>5. n >= 1
    BY <1>3, <1>4
<1>6. x \notin DOMAIN submitIDs[u]
    <2>1. x \in Nat /\ x + 0 = x /\ Index(x) = x
        BY <1>2, SmallIndices DEF Indices
    <2> QED
        BY <1>2, <1>3, <1>5, <2>1
<1>7. ASSUME NEW k \in Nat, k < Cardinality(T) PROVE Index(Index(x + 1) + k) \notin DOMAIN submitIDs[u] \cup {x}
    <2>1. k + 1 \in Nat /\ k + 1 < n /\ k + 1 < w
        BY <1>1, <1>3, <1>4, <1>7
    <2>2. Index(x + (k + 1)) # x /\ Index(Index(x + 1) + k) = Index(x + (k + 1))
        BY <1>2, <2>1, FollowingIndices DEF w
    <2> QED
        BY <1>2, <2>1, <2>2
<1>8. IsFiniteSet(T) /\ Cardinality(T) <= w
    BY <1>1, <1>3, <1>4
<1>9. HasRoom(u)'
    BY <1>7, <1>8 DEF HasRoom, T, x, w, Index
<1> QED
    BY <1>6, <1>9 DEF x

\* One more share is on its way.
LEMMA RoomIsTaken ==
    ASSUME NEW u \in Up, HasRoom(u), Room(u), NEW id, InTransit(u)' \subseteq InTransit(u) \cup {id},
           submitIndex'[u] = submitIndex[u], submitIDs'[u] = submitIDs[u]
    PROVE  HasRoom(u)'
<1> DEFINE S == InTransit(u)
           T == InTransit(u)'
           n == Cardinality(S)
<1>1. /\ IsFiniteSet(S) /\ T \subseteq S \cup {id} /\ n < IndexWidth /\ IndexWidth \in Nat
      /\ \A k \in 0 .. n : Index(submitIndex[u] + k) \notin DOMAIN submitIDs[u]
    BY ShareAssumption DEF HasRoom, Room
<1> HIDE DEF S, T
<1>2. IsFiniteSet(S \cup {id}) /\ Cardinality(S \cup {id}) <= n + 1 /\ n \in Nat
    <2>1. IsFiniteSet(S \cup {id}) /\ Cardinality(S \cup {id}) = IF id \in S THEN n ELSE n + 1
        BY <1>1, FS_AddElement
    <2>2. n \in Nat
        BY <1>1, FS_CardinalityType
    <2> QED
        BY <2>1, <2>2
<1>3. IsFiniteSet(T) /\ Cardinality(T) <= Cardinality(S \cup {id}) /\ Cardinality(T) \in Nat /\ Cardinality(S \cup {id}) \in Nat
    BY <1>1, <1>2, FS_Subset, FS_CardinalityType
<1> HIDE DEF n
<1>4. Cardinality(T) <= IndexWidth
    BY <1>1, <1>2, <1>3
<1>5. ASSUME NEW k \in Nat, k < Cardinality(T) PROVE Index(submitIndex[u] + k) \notin DOMAIN submitIDs[u]
    <2>1. k \in 0 .. n
        BY <1>2, <1>3, <1>5
    <2> QED
        BY <1>1, <2>1
<1> QED
    BY <1>3, <1>4, <1>5 DEF HasRoom, T, Index

\* The step has nothing to do with the shares that are on their way to u.
LEMMA RoomIsElsewhere ==
    ASSUME SharesInv, NEW u \in Up, NEW STATE in, NEW STATE out, Passes(in, out),
           \A id \in ShareID : out \cap ToPool(u, id) = {},
           submitIndex'[u] = submitIndex[u], DOMAIN submitIDs'[u] \subseteq DOMAIN submitIDs[u]
    PROVE  HasRoom(u)'
<1>1. /\ HasRoom(u) /\ u \in PoolSession
      /\ \A id \in ShareID : InOnePlace(id)
    BY Parts DEF SharesInv
<1>2. ASSUME NEW id \in ShareID, id \in InTransit(u)' PROVE id \in InTransit(u)
    BY <1>1, <1>2, TransitStep
<1>3. InTransit(u)' \subseteq ShareID
    BY DEF InTransit, ShareID
<1>4. InTransit(u)' \subseteq InTransit(u)
    BY <1>2, <1>3
<1> QED
    BY <1>1, <1>4, RoomStays

-----------------------------------------------------------------------------
(* Steps that have nothing to do with shares.                              *)

LEMMA QuietStep ==
    ASSUME SharesInv, CustodyTypeOK', UNCHANGED shareVars, NEW STATE in, NEW STATE out,
           Passes(in, out), in \subseteq CustodyMail, out \subseteq CustodyMail
    PROVE  SharesInv'
<1>1. /\ sent' = sent /\ answers' = answers /\ submitIndex' = submitIndex
      /\ submitIDs' = submitIDs /\ atPool' = atPool /\ poolCount' = poolCount
    BY DEF shareVars, upShareVars
<1>2. /\ \A id : in \cap Tokens(id) = {} /\ out \cap Tokens(id) = {}
      /\ \A q, id : out \cap ToPool(q, id) = {}
      /\ \A u, i : in \cap Replies(u, i) = {} /\ out \cap Replies(u, i) = {}
      /\ out \subseteq SharesMail
    BY CustodyMailIsElse
<1>3. SharesTypeOK' /\ (\A d \in Miner : \A id \in DOMAIN answers[d] : Owner(id) = d)'
    BY <1>1 DEF SharesInv, SharesTypeOK, Owner, ShareID, PoolSession
<1>4. Mail(chan, spawned, SharesMail)'
    BY <1>2, Typed, MailIsFixed DEF Passes
<1>5. ASSUME NEW id \in ShareID PROVE InOnePlace(id)'
    <2>1. /\ Held(id)' = Held(id) /\ (Answered(id)' <=> Answered(id)) /\ (Unsubmitted(id)' <=> Unsubmitted(id))
          /\ answers'[Owner(id)][id] = answers[Owner(id)][id]
        BY <1>1 DEF Held, Answered, Unsubmitted, Owner, Indices
    <2>2. InOnePlace(id)
        BY DEF SharesInv
    <2> QED
        BY <1>2, <2>1, <2>2, StaysInPlace
<1>6. ASSUME NEW u \in Up PROVE InAgreement(u)' /\ HasRoom(u)'
    <2>1. InAgreement(u)'
        BY <1>1, <1>2, AgreementStays DEF SharesInv
    <2>2. HasRoom(u)'
        BY <1>1, <1>2, RoomIsElsewhere
    <2> QED
        BY <2>1, <2>2
<1> QED
    BY <1>3, <1>4, <1>5, <1>6 DEF SharesInv, ShareID

LEMMA MinerLeavesStep ==
    ASSUME SharesInv, NEW d \in Miner, MinerLeaves(d), UNCHANGED shareVars
    PROVE  SharesInv'
<1>1. /\ Sends(Nothing, Broken(d))
      /\ running' = running \ {d} /\ upSession' = upSession
      /\ open' = open /\ downSessions' = downSessions
    BY DEF MinerLeaves, DownCloses
<1>2. Passes({}, Broken(d)) /\ Broken(d) \subseteq CustodyMail
    BY <1>1, Typed, SendsSpawning, BrokenSaysGoodbye, GoodbyeMovesNobody
<1>3. CustodyTypeOK'
    BY <1>1, Typed DEF CustodyTypeOK
<1> QED
    BY <1>2, <1>3, QuietStep

LEMMA TransferDownSessionsStep ==
    ASSUME SharesInv, NEW p \in FakeSessions, TransferDownSessions(p), UNCHANGED shareVars
    PROVE  SharesInv'
<1>1. /\ running' = running /\ upSession' = upSession /\ open' = open
      /\ downSessions' = [downSessions EXCEPT ![p] = {}]
    BY DEF TransferDownSessions
<1>2. PICK pending \in Rehomings(downSessions[p], open) : Sends(Nothing, pending)
    BY DEF TransferDownSessions
<1>3. Passes({}, pending) /\ pending \subseteq CustodyMail
    BY <1>2, Typed, Parts, SendsSpawning, RehomingsAreMoves
<1>4. CustodyTypeOK'
    BY <1>1, Typed DEF CustodyTypeOK
<1> QED
    BY <1>3, <1>4, QuietStep

LEMMA PoolBreaksStep ==
    ASSUME SharesInv, NEW u \in Up, PoolBreaks(u)
    PROVE  SharesInv'
<1>1. /\ open' = open \ {u} /\ running' = running /\ upSession' = upSession
      /\ downSessions' = downSessions /\ UNCHANGED shareVars
    BY DEF PoolBreaks, UpCloses
<1>2. PICK pending \in Rehomings(downSessions[u], open \ {u}) : Sends(Nothing, pending)
    BY DEF PoolBreaks
<1>3. u \in PoolSession /\ open \ {u} \subseteq PoolSession
    BY Typed, Parts
<1>4. Passes({}, pending) /\ pending \subseteq CustodyMail
    BY <1>2, <1>3, Typed, SendsSpawning, RehomingsAreMoves
<1>5. CustodyTypeOK'
    BY <1>1, Typed DEF CustodyTypeOK
<1> QED
    BY <1>1, <1>4, <1>5, QuietStep

LEMMA DownSessionBrokenStep ==
    ASSUME SharesInv, NEW p \in PoolSession, DownSessionBroken(p), UNCHANGED shareVars
    PROVE  SharesInv'
<1> DEFINE none == {}
           e == Head(chan[p])
<1>1. /\ chan[p] # <<>> /\ e.type = "DownSessionBroken" /\ Handles(p, Nothing, none)
      /\ Leaves(p, e.sessionID)
      /\ running' = running /\ upSession' = upSession /\ open' = open
    BY DEF DownSessionBroken, UpReceives, Receives
<1>2. p \in Actor /\ none \subseteq CustodyMail
    BY Parts
<1> HIDE DEF none
<1>3. Passes({<<p, e>>}, none)
    BY <1>1, <1>2, Typed, HandlesSpawning
<1>4. <<p, e>> \in CustodyMail
    BY <1>1, <1>2, HeadKinds, MailKinds
<1>5. CustodyTypeOK'
    BY <1>1, Typed DEF CustodyTypeOK, Leaves
<1> QED
    BY <1>2, <1>3, <1>4, <1>5, QuietStep

LEMMA AddDownSessionStep ==
    ASSUME SharesInv, NEW p \in PoolSession, AddDownSession(p)
    PROVE  SharesInv'
<1> DEFINE none == {}
           e == Head(chan[p])
<1>1. /\ chan[p] # <<>> /\ e.type = "AddDownSession" /\ Handles(p, Nothing, none)
      /\ Joins(p, e.session) /\ UNCHANGED shareVars
      /\ running' = running /\ upSession' = upSession /\ open' = open
    BY DEF AddDownSession, UpReceives, Receives
<1>2. p \in Actor /\ none \subseteq CustodyMail
    BY Parts
<1> HIDE DEF none
<1>3. Passes({<<p, e>>}, none)
    BY <1>1, <1>2, Typed, HandlesSpawning
<1>4. <<p, e>> \in CustodyMail /\ e.session \in Miner
    BY <1>1, <1>2, HeadKinds, MailKinds
<1>5. CustodyTypeOK'
    BY <1>1, <1>4, Typed DEF CustodyTypeOK, Joins
<1> QED
    BY <1>1, <1>2, <1>3, <1>4, <1>5, QuietStep

LEMMA SetUpSessionStep ==
    ASSUME SharesInv, NEW d \in Miner, SetUpSession(d), UNCHANGED shareVars
    PROVE  SharesInv'
<1> DEFINE none == {}
           e == Head(chan[d])
           p == e.session
           sends == To(p, EventAddDownSession(d))
<1>1. /\ chan[d] # <<>> /\ e.type = "SetUpSession" /\ Handles(d, sends, none)
      /\ upSession' = [upSession EXCEPT ![d] = p]
      /\ running' = running /\ open' = open /\ downSessions' = downSessions
    BY DEF SetUpSession, DownReceives, Receives
<1>2. d \in Actor
    BY Parts
<1>3. <<d, e>> \in CustodyMail /\ p \in PoolSession /\ p \in Actor
    BY <1>1, <1>2, HeadKinds, MailKinds, Parts
<1>4. OneEach(sends) /\ Posts(sends) = {<<p, EventAddDownSession(d)>>}
    BY <1>3, ToPosts
<1>5. <<p, EventAddDownSession(d)>> \in CustodyMail
    BY <1>3 DEF CustodyMail, Carriers, Joining
<1>6. Posts(sends) \cap none = {} /\ Posts(sends) \cup none = Posts(sends)
    OBVIOUS
<1> HIDE DEF sends, none
<1>7. Passes({<<d, e>>}, Posts(sends) \cup none)
    BY <1>1, <1>2, <1>4, <1>6, Typed, HandlesPasses
<1>8. CustodyTypeOK'
    BY <1>1, <1>3, Typed DEF CustodyTypeOK
<1>9. Posts(sends) \cup none \subseteq CustodyMail
    BY <1>4, <1>5, <1>6
<1> QED
    BY <1>3, <1>7, <1>8, <1>9, QuietStep

LEMMA SenderRunsStep ==
    ASSUME SharesInv, NEW m \in BagToSet(spawned), SenderRuns(m)
    PROVE  SharesInv'
<1>1. Deliver(m) /\ UNCHANGED <<running, upSession, open, downSessions>> /\ UNCHANGED shareVars
    BY DEF SenderRuns, custodyVars
<1>2. m \in SharesMail
    BY Typed DEF BagToSet, Mail
<1>3. m = <<m[1], m[2]>> /\ m[1] \in Actor
    <2>1. CASE m \in CustodyMail
        BY <2>1 DEF CustodyMail, Carriers, Moving, Joining, Goodbyes, Actor, PoolSession
    <2>2. CASE m \in SubmitMail
        BY <2>2, Parts DEF SubmitMail
    <2>3. CASE m \in AnswerMail
        BY <2>3, Parts DEF AnswerMail, Owner, ShareID
    <2>4. CASE m \in PoolMail
        BY <2>4, Parts DEF PoolMail
    <2> QED
        BY <1>2, <2>1, <2>2, <2>3, <2>4 DEF SharesMail
<1> DEFINE none == {}
           a == m[1]
           e == m[2]
<1>4. a \in Actor /\ Deliver(<<a, e>>)
    BY <1>1, <1>3
<1> HIDE DEF a, e
<1>5. Passes({}, none)
    BY <1>4, Typed, DeliverPasses
<1>6. none \subseteq CustodyMail
    OBVIOUS
<1> HIDE DEF none
<1>7. CustodyTypeOK'
    BY <1>1, Typed DEF CustodyTypeOK
<1> QED
    BY <1>1, <1>5, <1>6, <1>7, QuietStep

LEMMA StutteringStep ==
    ASSUME SharesInv, UNCHANGED allVars
    PROVE  SharesInv'
<1> DEFINE none == {}
<1>1. UNCHANGED mailVars /\ UNCHANGED <<running, upSession, open, downSessions>> /\ UNCHANGED shareVars
    BY DEF allVars, custodyVars
<1>2. Passes({}, none)
    BY <1>1, QuietPasses
<1>3. CustodyTypeOK'
    BY <1>1, Typed DEF CustodyTypeOK
<1>4. none \subseteq CustodyMail
    OBVIOUS
<1> HIDE DEF none
<1> QED
    BY <1>1, <1>2, <1>3, <1>4, QuietStep

-----------------------------------------------------------------------------
(* Steps of a share.                                                       *)

\* The step leaves the entries of the share alone.
LEMMA SameEntries ==
    ASSUME NEW id, UNCHANGED <<sent, answers, submitIDs>>
    PROVE  /\ Held(id)' = Held(id)
           /\ Answered(id)' <=> Answered(id)
           /\ Unsubmitted(id)' <=> Unsubmitted(id)
           /\ answers'[Owner(id)][id] = answers[Owner(id)][id]
BY DEF Held, Answered, Unsubmitted, Owner, Indices

LEMMA ResponseIs ==
    ASSUME NEW p, NEW id \in ShareID
    PROVE  /\ Response(p, id) = {} \/ Response(p, id) = {<<Owner(id), EventSubmitResponse(id)>>}
           /\ Response(p, id) \subseteq SharesMail
           /\ \A j : j # id => Response(p, id) \cap Tokens(j) = {}
           /\ \A q, j : Response(p, id) \cap ToPool(q, j) = {}
           /\ \A u, i : Response(p, id) \cap Replies(u, i) = {}
<1> DEFINE a == <<Owner(id), EventSubmitResponse(id)>>
<1>1. Response(p, id) = {} \/ Response(p, id) = {a}
    BY DEF Response, Owner
<1>2. a \in SharesMail
    BY DEF SharesMail, AnswerMail
<1>3. /\ \A j : j # id => a \notin Tokens(j)
      /\ \A q, j : a \notin ToPool(q, j)
      /\ \A u, i : a \notin Replies(u, i)
    <2>1. ASSUME NEW j PROVE (j # id => a \notin Tokens(j)) /\ \A q : a \notin ToPool(q, j)
        BY AnswersAre
    <2>2. \A u, i : a \notin Replies(u, i)
        BY AnswersAre
    <2> QED
        BY <2>1, <2>2
<1> HIDE DEF a
<1>4. /\ Response(p, id) \subseteq SharesMail
      /\ \A j : j # id => Response(p, id) \cap Tokens(j) = {}
      /\ \A q, j : Response(p, id) \cap ToPool(q, j) = {}
      /\ \A u, i : Response(p, id) \cap Replies(u, i) = {}
    BY <1>1, <1>2, <1>3
<1> QED
    BY <1>1, <1>4 DEF a

\* A session answers a share by itself.
LEMMA AnsweredAtOnce ==
    ASSUME SharesInv, SharesTypeOK', NEW p \in PoolSession, chan[p] # <<>>, Head(chan[p]).type = "SubmitShare",
           Handles(p, Nothing, Response(p, Head(chan[p]).id)),
           UNCHANGED <<sent, answers, submitIDs>>, submitIndex' = submitIndex, atPool' = atPool,
           \A u \in Up : poolCount'[u] = poolCount[u] \/ u \notin AnsweringUp
    PROVE  SharesInv'
<1> DEFINE e == Head(chan[p])
           id == e.id
           in == {<<p, e>>}
           out == Response(p, id)
           a == <<Owner(id), EventSubmitResponse(id)>>
<1>1. p \in Actor /\ IsChan(chan) /\ IsABag(spawned)
    BY Parts, Typed
<1>2. id \in ShareID /\ \E b \in BOOLEAN : e = EventSubmitShare(id, b)
    BY <1>1, HeadKinds, MailKinds
<1>3. PICK b \in BOOLEAN : e = EventSubmitShare(id, b)
    BY <1>2
<1>4. Passes(in, out)
    BY <1>1, HandlesSpawning
<1>5. /\ in \cap Tokens(id) # {} /\ ~Free(chan, spawned, Tokens(id))
      /\ \A j : j # id => in \cap Tokens(j) = {}
      /\ \A u, i : in \cap Replies(u, i) = {}
    <2>1. <<p, e>> \in Tokens(id)
        BY <1>3 DEF Tokens
    <2>2. (\A j : j # id => <<p, e>> \notin Tokens(j)) /\ (\A u, i : <<p, e>> \notin Replies(u, i))
        BY <1>3, SharesOf
    <2>3. ~Free(chan, spawned, Tokens(id))
        BY <1>1, <2>1, HeadIsSent
    <2> QED
        BY <2>1, <2>2, <2>3
<1>6. /\ out = {} \/ out = {a}
      /\ out \subseteq SharesMail
      /\ \A j : j # id => out \cap Tokens(j) = {}
      /\ \A q, j : out \cap ToPool(q, j) = {}
      /\ \A u, i : out \cap Replies(u, i) = {}
    BY <1>2, ResponseIs
<1>7. a \in Tokens(id)
    BY AnswersAre
<1>8. \A j \in ShareID : InOnePlace(j)
    BY DEF SharesInv
<1> HIDE DEF in, out, a, id, e
<1>9. ASSUME NEW j \in ShareID PROVE InOnePlace(j)'
    <2>1. /\ Held(j)' = Held(j) /\ (Answered(j)' <=> Answered(j)) /\ (Unsubmitted(j)' <=> Unsubmitted(j))
          /\ answers'[Owner(j)][j] = answers[Owner(j)][j]
        BY SameEntries
    <2>2. CASE j # id
        BY <1>4, <1>5, <1>6, <1>8, <2>1, <2>2, StaysInPlace
    <2>3. CASE j = id /\ out = {}
        <3>1. out \cap Tokens(j) = {} /\ Held(j)' \subseteq Held(j) \cup {p}
            BY <2>1, <2>3
        <3> QED
            BY <1>4, <1>5, <1>8, <2>1, <2>3, <3>1, LeavesTheMail
    <2>4. CASE j = id /\ out = {a}
        <3>1. out \cap Tokens(j) = {a}
            BY <1>7, <2>4
        <3>2. Held(j) = {}
            BY <1>5, <1>8, <2>4 DEF InOnePlace
        <3> QED
            BY <1>4, <1>5, <1>8, <2>1, <2>4, <3>1, <3>2, IsSentOn
    <2> QED
        BY <1>6, <2>2, <2>3, <2>4
<1>10. ASSUME NEW u \in Up PROVE InAgreement(u)' /\ HasRoom(u)'
    <2>1. InAgreement(u)'
        BY <1>4, <1>5, <1>6, AgreementStays DEF SharesInv
    <2>2. HasRoom(u)'
        BY <1>4, <1>6, RoomIsElsewhere
    <2> QED
        BY <2>1, <2>2
<1>11. Mail(chan, spawned, SharesMail)'
    BY <1>4, <1>6, Typed, MailIsFixed DEF Passes
<1>12. (\A d \in Miner : \A j \in DOMAIN answers[d] : Owner(j) = d)'
    BY DEF SharesInv, Owner
<1> QED
    BY <1>9, <1>10, <1>11, <1>12 DEF SharesInv, ShareID

LEMMA FakeSubmitShareStep ==
    ASSUME SharesInv, NEW p \in PoolSession, FakeSubmitShare(p)
    PROVE  SharesInv'
<1>1. /\ chan[p] # <<>> /\ Head(chan[p]).type = "SubmitShare"
      /\ Handles(p, Nothing, Response(p, Head(chan[p]).id))
      /\ UNCHANGED <<sent, answers, submitIDs>> /\ submitIndex' = submitIndex
      /\ atPool' = atPool /\ poolCount' = poolCount
      /\ running' = running /\ upSession' = upSession /\ open' = open /\ downSessions' = downSessions
    BY DEF FakeSubmitShare, UpReceives, Receives, shareVars, upShareVars, custodyVars
<1>2. SharesTypeOK'
    BY <1>1 DEF SharesInv, SharesTypeOK, CustodyTypeOK, ShareID, PoolSession
<1> QED
    BY <1>1, <1>2, AnsweredAtOnce

\* An answer is written to the miner.
GetsAnswer(d, id) ==
    /\ DOMAIN answers' = Miner
    /\ \A c \in Miner \ {d} : answers'[c] = answers[c]
    /\ IsABag(answers'[d]) /\ DOMAIN answers'[d] = DOMAIN answers[d] \cup {id}
    /\ \A j \in DOMAIN answers[d] \ {id} : answers'[d][j] = answers[d][j]
    /\ id \notin DOMAIN answers[d] => answers'[d][id] = 1

LEMMA OneMoreAnswer ==
    ASSUME SharesInv, NEW STATE d, d \in Miner, NEW STATE id, id \in ShareID,
           answers' = [answers EXCEPT ![d] = @ (+) SetToBag({id})]
    PROVE  GetsAnswer(d, id)
<1> DEFINE b == answers[d]
           t == b (+) SetToBag({id})
<1>1. DOMAIN answers = Miner /\ IsABag(b)
    BY DEF SharesInv, SharesTypeOK
<1>2. answers'[d] = t /\ DOMAIN answers' = Miner /\ \A c \in Miner \ {d} : answers'[c] = answers[c]
    BY <1>1
<1> HIDE DEF b
<1>3. IsABag(t) /\ DOMAIN t = DOMAIN b \cup {id}
    BY <1>1, SpawnedBag
<1>4. (\A j \in DOMAIN b \ {id} : t[j] = b[j]) /\ (id \notin DOMAIN b => t[id] = 1)
    BY <1>1 DEF (+), SetToBag, IsABag
<1> HIDE DEF t
<1> QED
    BY <1>2, <1>3, <1>4 DEF b, GetsAnswer

LEMMA SubmitResponseStep ==
    ASSUME SharesInv, NEW d \in Miner, SubmitResponse(d), UNCHANGED custodyVars
    PROVE  SharesInv'
<1> DEFINE none == {}
           e == Head(chan[d])
           id == e.id
           in == {<<d, e>>}
<1>1. /\ chan[d] # <<>> /\ e.type = "SubmitResponse" /\ Handles(d, Nothing, none)
      /\ answers' = [answers EXCEPT ![d] = @ (+) SetToBag({id})]
      /\ sent' = sent /\ submitIndex' = submitIndex /\ submitIDs' = submitIDs
      /\ atPool' = atPool /\ poolCount' = poolCount
      /\ running' = running /\ upSession' = upSession /\ open' = open /\ downSessions' = downSessions
    BY DEF SubmitResponse, DownReceives, Receives, upShareVars, custodyVars
<1>2. d \in Actor /\ IsChan(chan) /\ IsABag(spawned)
    BY Parts, Typed
<1>3. /\ \A j : none \cap Tokens(j) = {}
      /\ \A q, j : none \cap ToPool(q, j) = {}
      /\ \A u, i : none \cap Replies(u, i) = {}
      /\ none \subseteq SharesMail
    OBVIOUS
<1> HIDE DEF none
<1>4. Passes(in, none)
    BY <1>1, <1>2, HandlesSpawning
<1>5. id \in ShareID /\ d = Owner(id) /\ e = EventSubmitResponse(id)
    BY <1>1, <1>2, HeadKinds, MailKinds
<1>6. /\ in \cap Tokens(id) # {} /\ ~Free(chan, spawned, Tokens(id))
      /\ \A j : j # id => in \cap Tokens(j) = {}
      /\ \A u, i : in \cap Replies(u, i) = {}
    <2>1. <<d, e>> \in Tokens(id) /\ \A u, i : <<d, e>> \notin Replies(u, i)
        BY <1>5, AnswersAre
    <2>2. ASSUME NEW j, j # id PROVE <<d, e>> \notin Tokens(j)
        BY <1>5, <2>2, AnswersAre
    <2>3. ~Free(chan, spawned, Tokens(id))
        BY <1>1, <1>2, <2>1, HeadIsSent
    <2> QED
        BY <2>1, <2>2, <2>3
<1>7. \A j \in ShareID : InOnePlace(j)
    BY DEF SharesInv
<1> HIDE DEF in, id, e
<1>8. GetsAnswer(d, id)
    BY <1>1, <1>5, OneMoreAnswer
<1>9. ASSUME NEW j \in ShareID PROVE InOnePlace(j)'
    <2>1. Held(j)' = Held(j) /\ (Unsubmitted(j)' <=> Unsubmitted(j)) /\ (Owner(j))' = Owner(j)
        BY <1>1 DEF Held, Unsubmitted, Owner, Indices
    <2>2. CASE j # id
        <3>1. Owner(j) \in Miner
            BY DEF Owner, ShareID
        <3>2. (Answered(j)' <=> Answered(j)) /\ (Answered(j) => answers'[Owner(j)][j] = answers[Owner(j)][j])
            BY <1>8, <2>1, <2>2, <3>1 DEF GetsAnswer, Answered
        <3> QED
            BY <1>3, <1>4, <1>6, <1>7, <2>1, <2>2, <3>2, StaysInPlace
    <2>3. CASE j = id
        <3>1. Answered(j)' /\ (~Answered(j) => answers'[Owner(j)][j] = 1)
            BY <1>5, <1>8, <2>1, <2>3 DEF GetsAnswer, Answered
        <3>2. in \cap Tokens(j) # {}
            BY <1>6, <2>3
        <3> QED
            BY <1>3, <1>4, <1>7, <2>1, <3>1, <3>2, LeavesTheMail
    <2> QED
        BY <2>2, <2>3
<1>10. ASSUME NEW u \in Up PROVE InAgreement(u)' /\ HasRoom(u)'
    <2>1. InAgreement(u)'
        BY <1>1, <1>3, <1>4, <1>6, AgreementStays DEF SharesInv
    <2>2. HasRoom(u)'
        BY <1>1, <1>3, <1>4, RoomIsElsewhere
    <2> QED
        BY <2>1, <2>2
<1>11. Mail(chan, spawned, SharesMail)'
    BY <1>3, <1>4, Typed, MailIsFixed DEF Passes
<1>12. (\A c \in Miner : \A j \in DOMAIN answers[c] : Owner(j) = c)'
    BY <1>5, <1>8 DEF GetsAnswer, SharesInv, Owner
<1>13. SharesTypeOK'
    <2>1. CustodyTypeOK'
        BY <1>1, Typed DEF CustodyTypeOK, PoolSession
    <2>2. \A c \in Miner : IsABag(answers'[c]) /\ DOMAIN answers'[c] \subseteq ShareID
        BY <1>5, <1>8 DEF GetsAnswer, SharesInv, SharesTypeOK, BagToSet
    <2> QED
        BY <1>1, <1>8, <2>1, <2>2 DEF GetsAnswer, SharesInv, SharesTypeOK, BagToSet, ShareID, PoolSession
<1> QED
    BY <1>9, <1>10, <1>11, <1>12, <1>13 DEF SharesInv, ShareID

\* The miner's next share is on the record.
NextShare(d) == <<d, Len(sent[d]) + 1>>
Records(d) ==
    /\ NextShare(d) \in ShareID /\ Owner(NextShare(d)) = d
    /\ sent' \in [Miner -> Seq(PoolSession \cup {None})]
    /\ \A j \in ShareID : j # NextShare(d) => (Unsubmitted(j)' <=> Unsubmitted(j))
    /\ Unsubmitted(NextShare(d)) /\ NextShare(d)[2] <= Len(sent'[d])

LEMMA OneMoreShare ==
    ASSUME SharesInv, NEW STATE d, d \in Miner, Len(sent[d]) < MaxShares,
           sent' = [sent EXCEPT ![d] = Append(@, upSession[d])]
    PROVE  Records(d)
<1> DEFINE n == Len(sent[d])
           p == upSession[d]
<1>1. /\ sent \in [Miner -> Seq(PoolSession \cup {None})] /\ p \in PoolSession \cup {None}
      /\ sent[d] \in Seq(PoolSession \cup {None})
    BY DEF SharesInv, SharesTypeOK, CustodyTypeOK
<1>2. n \in Nat /\ n + 1 \in 1 .. MaxShares
    BY <1>1, ShareAssumption
<1>3. Append(sent[d], p) \in Seq(PoolSession \cup {None}) /\ Len(Append(sent[d], p)) = n + 1
    BY <1>1
<1>4. sent' = [sent EXCEPT ![d] = Append(sent[d], p)]
    OBVIOUS
<1>5. sent' \in [Miner -> Seq(PoolSession \cup {None})]
    BY <1>1, <1>3, <1>4
<1>6. Len(sent'[d]) = n + 1 /\ \A c \in Miner \ {d} : sent'[c] = sent[c]
    BY <1>1, <1>3, <1>4
<1>7. NextShare(d) \in ShareID /\ Owner(NextShare(d)) = d /\ NextShare(d)[2] = n + 1
    BY <1>2 DEF NextShare, ShareID, Owner
<1>8. ASSUME NEW j \in ShareID, j # NextShare(d) PROVE Unsubmitted(j)' <=> Unsubmitted(j)
    <2>1. j[1] \in Miner /\ j[2] \in Nat /\ j = <<j[1], j[2]>>
        BY ShareAssumption DEF ShareID
    <2>2. CASE j[1] = d
        <3>1. j[2] # n + 1
            BY <1>8, <2>1, <2>2 DEF NextShare
        <3>2. j[2] > n + 1 <=> j[2] > n
            BY <1>2, <2>1, <3>1
        <3> QED
            BY <1>6, <2>2, <3>2 DEF Unsubmitted, Owner
    <2>3. CASE j[1] # d
        BY <1>6, <2>1, <2>3 DEF Unsubmitted, Owner
    <2> QED
        BY <2>2, <2>3
<1>9. Unsubmitted(NextShare(d)) /\ NextShare(d)[2] <= Len(sent'[d])
    BY <1>2, <1>6, <1>7 DEF Unsubmitted
<1> QED
    BY <1>5, <1>7, <1>8, <1>9 DEF Records

\* The share of a miner that has a pool session.
LEMMA SubmitsToPool ==
    ASSUME SharesInv, NEW d \in Miner, Records(d), NEW p \in PoolSession, Room(p), NEW b \in BOOLEAN,
           Sends(Nothing, {<<p, EventSubmitShare(NextShare(d), b)>>}),
           answers' = answers, UNCHANGED upShareVars, UNCHANGED custodyVars
    PROVE  SharesInv'
<1> DEFINE none == {}
           id == NextShare(d)
           m == <<p, EventSubmitShare(id, b)>>
           out == {m}
<1>1. /\ submitIndex' = submitIndex /\ submitIDs' = submitIDs
      /\ atPool' = atPool /\ poolCount' = poolCount
      /\ running' = running /\ upSession' = upSession /\ open' = open /\ downSessions' = downSessions
    BY DEF upShareVars, custodyVars
<1>2. IsChan(chan) /\ IsABag(spawned)
    BY Typed
<1>3. /\ \A K : none \cap K = {}
    OBVIOUS
<1>4. Passes(none, out)
    BY <1>2, SendsSpawning
<1>5. id \in ShareID /\ Owner(id) = d
    BY DEF Records
<1>6. /\ m \in Tokens(id) /\ out \subseteq SharesMail
      /\ \A j : j # id => out \cap Tokens(j) = {}
      /\ \A q, j : j # id \/ q # p => out \cap ToPool(q, j) = {}
      /\ \A u, i : out \cap Replies(u, i) = {}
    <2>1. m \in Tokens(id) /\ m \in SharesMail
        BY <1>5 DEF Tokens, SharesMail, SubmitMail
    <2>2. ASSUME NEW j PROVE /\ m \in Tokens(j) => id = j
                             /\ \A q : m \in ToPool(q, j) => id = j /\ p = q
                             /\ \A u, i : m \notin Replies(u, i)
        BY SharesOf
    <2> HIDE DEF m
    <2> QED
        BY <2>1, <2>2
<1>7. \A j \in ShareID : InOnePlace(j)
    BY DEF SharesInv
<1> HIDE DEF none, id, m
<1>8. ASSUME NEW j \in ShareID PROVE InOnePlace(j)'
    <2>1. /\ Held(j)' = Held(j) /\ (Answered(j)' <=> Answered(j))
          /\ answers'[Owner(j)][j] = answers[Owner(j)][j]
        BY <1>1 DEF Held, Answered, Owner, Indices
    <2>2. CASE j # id
        <3>1. Unsubmitted(j)' <=> Unsubmitted(j)
            BY <2>2 DEF Records, id
        <3>2. none \cap Tokens(j) = {} /\ out \cap Tokens(j) = {}
            BY <1>3, <1>6, <2>2
        <3> QED
            BY <1>4, <1>7, <2>1, <3>1, <3>2, StaysInPlace
    <2>3. CASE j = id
        <3>1. Unsubmitted(j) /\ ~Unsubmitted(j)'
            <4>1. Unsubmitted(j) /\ j[2] <= Len(sent'[d]) /\ Owner(j) = d
                BY <2>3 DEF Records, id
            <4>2. sent'[d] \in Seq(PoolSession \cup {None}) /\ j[2] \in Nat
                BY <2>3, ShareAssumption DEF Records, ShareID
            <4>3. Len(sent'[d]) \in Nat
                BY <4>2
            <4> QED
                BY <4>1, <4>2, <4>3 DEF Unsubmitted, Owner
        <3>2. ~Answered(j)'
            BY <1>7, <2>1, <3>1 DEF InOnePlace
        <3>3. none \cap Tokens(j) = {} /\ out \cap Tokens(j) = {m}
            BY <1>3, <1>6, <2>3
        <3> QED
            BY <1>4, <1>7, <2>1, <3>1, <3>2, <3>3, IsSubmitted
    <2> QED
        BY <2>2, <2>3
<1>9. ASSUME NEW u \in Up PROVE InAgreement(u)' /\ HasRoom(u)'
    <2>1. InAgreement(u)'
        <3>1. \A i \in Indices : none \cap Replies(u, i) = {} /\ out \cap Replies(u, i) = {}
            BY <1>3, <1>6
        <3> QED
            BY <1>1, <1>4, <3>1, AgreementStays DEF SharesInv
    <2>2. CASE u # p
        <3>1. \A j \in ShareID : out \cap ToPool(u, j) = {}
            BY <1>6, <2>2
        <3>2. HasRoom(u)'
            BY <1>1, <1>4, <3>1, RoomIsElsewhere
        <3> QED
            BY <2>1, <3>2
    <2>3. CASE u = p
        <3>1. ASSUME NEW j \in ShareID, j \in InTransit(u)', j # id PROVE j \in InTransit(u)
            <4>1. out \cap ToPool(u, j) = {} /\ none \cap ToPool(u, j) = {} /\ u \in PoolSession
                BY <1>3, <1>6, <2>3, <3>1
            <4> QED
                BY <1>4, <1>7, <3>1, <4>1, TransitStep
        <3>2. InTransit(u)' \subseteq ShareID
            BY DEF InTransit, ShareID
        <3>3. InTransit(u)' \subseteq InTransit(u) \cup {id}
            BY <3>1, <3>2
        <3>4. HasRoom(u) /\ Room(u) /\ submitIndex'[u] = submitIndex[u] /\ submitIDs'[u] = submitIDs[u]
            BY <1>1, <2>3 DEF SharesInv
        <3>5. HasRoom(u)'
            BY <3>3, <3>4, RoomIsTaken
        <3> QED
            BY <2>1, <3>5
    <2> QED
        BY <2>2, <2>3
<1>10. Mail(chan, spawned, SharesMail)'
    BY <1>4, <1>6, Typed, MailIsFixed DEF Passes
<1>11. (\A c \in Miner : \A j \in DOMAIN answers[c] : Owner(j) = c)'
    BY DEF SharesInv, Owner
<1>12. SharesTypeOK'
    BY <1>1 DEF SharesInv, SharesTypeOK, CustodyTypeOK, Records, ShareID, PoolSession
<1> QED
    BY <1>8, <1>9, <1>10, <1>11, <1>12 DEF SharesInv, ShareID

\* The share of a miner that has no pool session.
LEMMA SubmitsToNobody ==
    ASSUME SharesInv, NEW STATE d, d \in Miner, Records(d), GetsAnswer(d, NextShare(d)),
           UNCHANGED mailVars, UNCHANGED upShareVars, UNCHANGED custodyVars
    PROVE  SharesInv'
<1> DEFINE none == {}
           id == NextShare(d)
<1>1. /\ submitIndex' = submitIndex /\ submitIDs' = submitIDs
      /\ atPool' = atPool /\ poolCount' = poolCount
      /\ running' = running /\ upSession' = upSession /\ open' = open /\ downSessions' = downSessions
    BY DEF upShareVars, custodyVars
<1>2. Passes(none, none)
    BY QuietPasses
<1>3. (\A K : none \cap K = {}) /\ none \subseteq SharesMail
    OBVIOUS
<1>4. id \in ShareID /\ Owner(id) = d
    BY DEF Records
<1>5. \A j \in ShareID : InOnePlace(j)
    BY DEF SharesInv
<1> HIDE DEF none, id
<1>6. ASSUME NEW j \in ShareID PROVE InOnePlace(j)'
    <2>1. Held(j)' = Held(j) /\ (Owner(j))' = Owner(j) /\ Owner(j) \in Miner
        BY <1>1 DEF Held, Owner, Indices, ShareID
    <2>2. CASE j # id
        <3>1. Unsubmitted(j)' <=> Unsubmitted(j)
            BY <2>2 DEF Records, id
        <3>2. (Answered(j)' <=> Answered(j)) /\ (Answered(j) => answers'[Owner(j)][j] = answers[Owner(j)][j])
            BY <2>1, <2>2 DEF GetsAnswer, Answered, id
        <3>3. none \cap Tokens(j) = {}
            BY <1>3
        <3> QED
            BY <1>2, <1>5, <2>1, <3>1, <3>2, <3>3, StaysInPlace
    <2>3. CASE j = id
        <3>1. Unsubmitted(j) /\ ~Unsubmitted(j)'
            <4>1. Unsubmitted(j) /\ j[2] <= Len(sent'[d]) /\ Owner(j) = d
                BY <2>3 DEF Records, id
            <4>2. sent'[d] \in Seq(PoolSession \cup {None}) /\ j[2] \in Nat
                BY <2>3, ShareAssumption DEF Records, ShareID
            <4>3. Len(sent'[d]) \in Nat
                BY <4>2
            <4> QED
                BY <4>1, <4>2, <4>3 DEF Unsubmitted, Owner
        <3>2. ~Answered(j)
            BY <1>5, <3>1 DEF InOnePlace
        <3>3. answers'[Owner(j)][j] = 1
            BY <1>4, <2>3, <3>2 DEF GetsAnswer, Answered, id
        <3>4. none \cap Tokens(j) = {}
            BY <1>3
        <3> QED
            BY <1>2, <1>5, <2>1, <3>1, <3>3, <3>4, IsSubmitted
    <2> QED
        BY <2>2, <2>3
<1>7. ASSUME NEW u \in Up PROVE InAgreement(u)' /\ HasRoom(u)'
    <2>1. InAgreement(u)'
        BY <1>1, <1>2, <1>3, AgreementStays DEF SharesInv
    <2>2. HasRoom(u)'
        BY <1>1, <1>2, <1>3, RoomIsElsewhere
    <2> QED
        BY <2>1, <2>2
<1>8. Mail(chan, spawned, SharesMail)'
    BY <1>2, <1>3, Typed, MailIsFixed DEF Passes
<1>9. (\A c \in Miner : \A j \in DOMAIN answers[c] : Owner(j) = c)'
    BY <1>4 DEF GetsAnswer, SharesInv, Owner, id
<1>10. SharesTypeOK'
    <2>1. CustodyTypeOK'
        BY <1>1, Typed DEF CustodyTypeOK, PoolSession
    <2>2. \A c \in Miner : IsABag(answers'[c]) /\ DOMAIN answers'[c] \subseteq ShareID
        BY <1>4 DEF GetsAnswer, SharesInv, SharesTypeOK, BagToSet, id
    <2>3. DOMAIN answers' = Miner /\ sent' \in [Miner -> Seq(PoolSession \cup {None})]
        BY DEF GetsAnswer, Records
    <2> QED
        BY <1>1, <2>1, <2>2, <2>3 DEF SharesInv, SharesTypeOK, BagToSet, ShareID, PoolSession
<1> QED
    BY <1>6, <1>7, <1>8, <1>9, <1>10 DEF SharesInv, ShareID

LEMMA SubmitStep ==
    ASSUME SharesInv, NEW d \in Miner, Submit(d), Room(upSession[d]), UNCHANGED custodyVars
    PROVE  SharesInv'
<1>1. Records(d)
    <2>1. Len(sent[d]) < MaxShares /\ sent' = [sent EXCEPT ![d] = Append(@, upSession[d])]
        BY DEF Submit
    <2> QED
        BY <2>1, OneMoreShare
<1>2. UNCHANGED upShareVars
    BY DEF Submit
<1>3. CASE upSession[d] = None
    <2>1. answers' = [answers EXCEPT ![d] = @ (+) SetToBag({NextShare(d)})] /\ UNCHANGED mailVars
        BY <1>3 DEF Submit, NextShare
    <2>2. NextShare(d) \in ShareID
        BY <1>1 DEF Records
    <2>3. GetsAnswer(d, NextShare(d))
        BY <2>1, <2>2, OneMoreAnswer
    <2> QED
        BY <1>1, <1>2, <2>1, <2>3, SubmitsToNobody
<1>4. CASE upSession[d] # None
    <2>1. answers' = answers
        BY <1>4 DEF Submit
    <2>2. PICK b \in BOOLEAN : Sends(Nothing, {<<upSession[d], EventSubmitShare(NextShare(d), b)>>})
        BY <1>4 DEF Submit, NextShare
    <2>3. upSession[d] \in PoolSession
        BY <1>4, Typed DEF CustodyTypes
    <2> QED
        BY <1>1, <1>2, <2>1, <2>2, <2>3, SubmitsToPool
<1> QED
    BY <1>3, <1>4

\* The session remembers the share at its next index, and the pool counts it.
EntryMade(u, id) ==
    /\ \A v \in Up \ {u} :
          /\ submitIDs'[v] = submitIDs[v] /\ submitIndex'[v] = submitIndex[v]
          /\ atPool'[v] = atPool[v] /\ poolCount'[v] = poolCount[v]
    /\ DOMAIN submitIDs'[u] = DOMAIN submitIDs[u] \cup {submitIndex[u]}
    /\ submitIDs'[u][submitIndex[u]] = id
    /\ \A i \in DOMAIN submitIDs[u] : i # submitIndex[u] => submitIDs'[u][i] = submitIDs[u][i]
    /\ submitIndex'[u] = Index(submitIndex[u] + 1)
    /\ poolCount'[u] = poolCount[u] + 1
    /\ atPool'[u] = atPool[u] \cup {[place |-> poolCount[u], id |-> id]}

LEMMA EntryIsMade ==
    ASSUME SharesInv, NEW u \in AnsweringUp, NEW STATE e, e.id \in ShareID, Arrives(u, e), Remembers(u, e)
    PROVE  EntryMade(u, e.id)
<1> DEFINE x == submitIndex[u]
           id == e.id
           s == [place |-> poolCount[u], id |-> id]
<1>1. /\ u \in Up /\ submitIndex \in [Up -> Indices] /\ DOMAIN submitIDs = Up
      /\ atPool \in [Up -> SUBSET [place : Nat, id : ShareID]] /\ poolCount \in [Up -> Nat]
    BY ShareAssumption DEF SharesInv, SharesTypeOK, Indices
<1>2. /\ poolCount' = [poolCount EXCEPT ![u] = @ + 1]
      /\ atPool' = [atPool EXCEPT ![u] = @ \cup {s}]
    BY DEF Arrives
<1>3. /\ submitIDs' = [submitIDs EXCEPT
             ![u] = [i \in DOMAIN @ \cup {x} |-> IF i = x THEN id ELSE @[i]]]
      /\ submitIndex' = [submitIndex EXCEPT ![u] = Index(x + 1)]
    BY DEF Remembers, AdvancedIndex
<1> HIDE DEF x, id, s
<1>4. /\ submitIDs'[u] = [i \in DOMAIN submitIDs[u] \cup {x} |-> IF i = x THEN id ELSE submitIDs[u][i]]
      /\ \A v \in Up \ {u} : submitIDs'[v] = submitIDs[v]
    BY <1>1, <1>3
<1>5. /\ \A v \in Up \ {u} : submitIndex'[v] = submitIndex[v]
      /\ \A v \in Up \ {u} : atPool'[v] = atPool[v] /\ poolCount'[v] = poolCount[v]
      /\ submitIndex'[u] = Index(x + 1) /\ poolCount'[u] = poolCount[u] + 1
      /\ atPool'[u] = atPool[u] \cup {s}
    BY <1>1, <1>2, <1>3
<1>6. /\ DOMAIN submitIDs'[u] = DOMAIN submitIDs[u] \cup {x}
      /\ submitIDs'[u][x] = id
      /\ \A i \in DOMAIN submitIDs[u] : i # x => submitIDs'[u][i] = submitIDs[u][i]
    BY <1>4
<1>7. EntryMade(u, id)
    BY <1>4, <1>5, <1>6 DEF EntryMade, x, s
<1> QED
    BY <1>7 DEF id

LEMMA EntryAgrees ==
    ASSUME SharesInv, NEW u \in AnsweringUp, NEW id, EntryMade(u, id), submitIndex[u] \notin DOMAIN submitIDs[u],
           NEW STATE in, NEW STATE out, Passes(in, out),
           \A i \in Indices : in \cap Replies(u, i) = {} /\ out \cap Replies(u, i) = {}
    PROVE  InAgreement(u)'
<1> DEFINE x == submitIndex[u]
           n == poolCount[u]
           s == [place |-> n, id |-> id]
           D == DOMAIN submitIDs[u]
<1>1. u \in Up /\ n \in Nat /\ x \notin D
    BY ShareAssumption DEF SharesInv, SharesTypeOK
<1>2. InAgreement(u)
    BY <1>1 DEF SharesInv
<1>3. Index(n) = x
    BY <1>2 DEF InAgreement, Numbered
<1>4. /\ \A t \in atPool[u] : Index(t.place) \in D /\ submitIDs[u][Index(t.place)] = t.id
      /\ \A t, r \in atPool[u] : Index(t.place) = Index(r.place) => t = r
    BY <1>2 DEF InAgreement, Placed
<1>5. s.place = n /\ s.id = id
    OBVIOUS
<1> HIDE DEF s
<1>6. /\ DOMAIN submitIDs'[u] = D \cup {x}
      /\ submitIDs'[u][x] = id
      /\ \A i \in D : i # x => submitIDs'[u][i] = submitIDs[u][i]
      /\ submitIndex'[u] = Index(x + 1) /\ poolCount'[u] = n + 1 /\ atPool'[u] = atPool[u] \cup {s}
    BY DEF EntryMade, s
<1> HIDE DEF x, n, D
<1>7. Index(n + 1) = Index(x + 1)
    BY <1>1, <1>3, NextIndex
<1>8. Numbered(u)'
    BY <1>6, <1>7 DEF Numbered, Index
<1>9. \A t \in atPool'[u] : Index(t.place) \in DOMAIN submitIDs'[u] /\ submitIDs'[u][Index(t.place)] = t.id
    <2> SUFFICES ASSUME NEW t \in atPool'[u]
                 PROVE  Index(t.place) \in DOMAIN submitIDs'[u] /\ submitIDs'[u][Index(t.place)] = t.id
        OBVIOUS
    <2>1. CASE t = s
        BY <1>3, <1>5, <1>6, <2>1
    <2>2. CASE t \in atPool[u]
        <3>1. Index(t.place) \in D /\ Index(t.place) # x /\ submitIDs[u][Index(t.place)] = t.id
            BY <1>1, <1>4, <2>2
        <3> QED
            BY <1>6, <3>1
    <2> QED
        BY <1>6, <2>1, <2>2
<1>10. \A t, r \in atPool'[u] : Index(t.place) = Index(r.place) => t = r
    <2>1. \A t \in atPool[u] : Index(t.place) # Index(s.place)
        BY <1>1, <1>3, <1>4, <1>5
    <2> QED
        BY <1>4, <1>6, <2>1
<1>11. Placed(u)'
    BY <1>9, <1>10 DEF Placed, Index
<1>12. ASSUME NEW i \in Indices PROVE Awaited(u, i)'
    <2>1. Awaited(u, i) /\ Replies(u, i)' = Replies(u, i)
        BY <1>2, MailIsFixed DEF InAgreement
    <2> DEFINE K == Replies(u, i)
    <2>2. AtMostOne(chan', spawned', K) /\ (Free(chan', spawned', K) <=> Free(chan, spawned, K))
        BY <2>1 DEF Passes, Awaited
    <2>3. ~Free(chan, spawned, K) => i \in D /\ \A t \in atPool[u] : Index(t.place) # i
        BY <2>1 DEF Awaited, D
    <2> HIDE DEF K
    <2>4. ASSUME ~Free(chan', spawned', K)
          PROVE  i \in DOMAIN submitIDs'[u] /\ \A t \in atPool'[u] : Index(t.place) # i
        <3>1. i \in D /\ \A t \in atPool[u] : Index(t.place) # i
            BY <2>2, <2>3, <2>4
        <3>2. Index(s.place) # i
            BY <1>1, <1>3, <1>5, <3>1
        <3> QED
            BY <1>6, <3>1, <3>2
    <2> QED
        BY <2>1, <2>2, <2>4 DEF Awaited, Index, K
<1> QED
    BY <1>8, <1>11, <1>12 DEF InAgreement, Indices

LEMMA RemembersTypes ==
    ASSUME SharesInv, NEW u \in AnsweringUp, NEW STATE e, e.id \in ShareID, Arrives(u, e), Remembers(u, e)
    PROVE  /\ submitIndex' \in [Up -> 0 .. IndexWidth - 1]
           /\ DOMAIN submitIDs' = Up
           /\ \A v \in Up :
                 /\ DOMAIN submitIDs'[v] \subseteq 0 .. IndexWidth - 1
                 /\ \A i \in DOMAIN submitIDs'[v] : submitIDs'[v][i] \in ShareID
           /\ atPool' \in [Up -> SUBSET [place : Nat, id : ShareID]]
           /\ poolCount' \in [Up -> Nat]
<1>1. /\ u \in Up /\ submitIndex \in [Up -> Indices] /\ DOMAIN submitIDs = Up
      /\ atPool \in [Up -> SUBSET [place : Nat, id : ShareID]] /\ poolCount \in [Up -> Nat]
      /\ \A v \in Up : /\ DOMAIN submitIDs[v] \subseteq Indices
                       /\ \A i \in DOMAIN submitIDs[v] : submitIDs[v][i] \in ShareID
    BY ShareAssumption DEF SharesInv, SharesTypeOK, Indices
<1>2. EntryMade(u, e.id)
    BY EntryIsMade
<1>3. [place |-> poolCount[u], id |-> e.id] \in [place : Nat, id : ShareID]
    BY <1>1
<1>4. poolCount' \in [Up -> Nat] /\ atPool' \in [Up -> SUBSET [place : Nat, id : ShareID]]
    <2>1. /\ poolCount' = [poolCount EXCEPT ![u] = @ + 1]
          /\ atPool' = [atPool EXCEPT ![u] = @ \cup {[place |-> poolCount[u], id |-> e.id]}]
        BY DEF Arrives
    <2> QED
        BY <1>1, <1>3, <2>1
<1>5. submitIndex' \in [Up -> Indices] /\ DOMAIN submitIDs' = Up
    <2>1. submitIndex[u] + 1 \in Nat
        BY <1>1, ShareAssumption DEF Indices
    <2>2. Index(submitIndex[u] + 1) \in Indices
        BY <2>1, SmallIndices
    <2>3. submitIndex' = [submitIndex EXCEPT ![u] = Index(submitIndex[u] + 1)] /\ DOMAIN submitIDs' = DOMAIN submitIDs
        BY DEF Remembers, AdvancedIndex
    <2> QED
        BY <1>1, <2>2, <2>3
<1>6. ASSUME NEW v \in Up
      PROVE  /\ DOMAIN submitIDs'[v] \subseteq Indices
             /\ \A i \in DOMAIN submitIDs'[v] : submitIDs'[v][i] \in ShareID
    <2>1. submitIndex[u] \in Indices
        BY <1>1
    <2> QED
        BY <1>1, <1>2, <2>1 DEF EntryMade
<1> QED
    BY <1>4, <1>5, <1>6 DEF Indices

LEMMA RemembersStep ==
    ASSUME SharesInv, NEW u \in AnsweringUp, chan[u] # <<>>, Head(chan[u]).type = "SubmitShare",
           Handles(u, Nothing, {}), Arrives(u, Head(chan[u])), Remembers(u, Head(chan[u])),
           UNCHANGED <<sent, answers>>, UNCHANGED custodyVars
    PROVE  SharesInv'
<1> DEFINE none == {}
           e == Head(chan[u])
           id == e.id
           in == {<<u, e>>}
           x == submitIndex[u]
<1>1. u \in Up /\ u \in PoolSession /\ u \in Actor /\ IsChan(chan) /\ IsABag(spawned)
    BY Parts, Typed, ShareAssumption
<1>2. id \in ShareID /\ \E b \in BOOLEAN : e = EventSubmitShare(id, b)
    BY <1>1, HeadKinds, MailKinds
<1>3. PICK b \in BOOLEAN : e = EventSubmitShare(id, b)
    BY <1>2
<1>4. EntryMade(u, id)
    BY <1>2, EntryIsMade
<1>5. /\ \A K : none \cap K = {}
      /\ none \subseteq SharesMail
    OBVIOUS
<1> HIDE DEF none
<1>6. Passes(in, none)
    BY <1>1, HandlesSpawning DEF none
<1>7. /\ in \cap Tokens(id) # {} /\ ~Free(chan, spawned, Tokens(id))
      /\ in \cap ToPool(u, id) # {}
      /\ \A j : j # id => in \cap Tokens(j) = {}
      /\ \A v, i : in \cap Replies(v, i) = {}
    <2>1. <<u, e>> \in Tokens(id) /\ <<u, e>> \in ToPool(u, id)
        BY <1>1, <1>3 DEF Tokens, ToPool
    <2>2. (\A j : j # id => <<u, e>> \notin Tokens(j)) /\ (\A v, i : <<u, e>> \notin Replies(v, i))
        BY <1>3, SharesOf
    <2>3. ~Free(chan, spawned, Tokens(id))
        BY <1>1, <2>1, HeadIsSent
    <2> QED
        BY <2>1, <2>2, <2>3
<1>8. \A j \in ShareID : InOnePlace(j)
    BY DEF SharesInv
<1>9. /\ running' = running /\ upSession' = upSession /\ open' = open /\ downSessions' = downSessions
      /\ sent' = sent /\ answers' = answers
    BY DEF custodyVars
<1> HIDE DEF in, id, e
<1>10. HasRoom(u)' /\ x \notin DOMAIN submitIDs[u]
    <2>1. id \in InTransit(u) /\ id \notin InTransit(u)'
        <3>1. none \cap ToPool(u, id) = {}
            BY <1>5
        <3> QED
            BY <1>1, <1>2, <1>6, <1>7, <1>8, <3>1, TransitStep
    <2>2. ASSUME NEW j \in ShareID, j \in InTransit(u)' PROVE j \in InTransit(u)
        <3>1. none \cap ToPool(u, j) = {}
            BY <1>5
        <3> QED
            BY <1>1, <1>6, <1>8, <2>2, <3>1, TransitStep
    <2>3. InTransit(u)' \subseteq ShareID
        BY DEF InTransit, ShareID
    <2>4. InTransit(u)' \subseteq InTransit(u) \ {id}
        BY <2>1, <2>2, <2>3
    <2>5. /\ HasRoom(u) /\ submitIndex[u] \in Indices /\ submitIndex'[u] = Index(submitIndex[u] + 1)
          /\ DOMAIN submitIDs'[u] \subseteq DOMAIN submitIDs[u] \cup {submitIndex[u]}
        BY <1>1, <1>4 DEF SharesInv, SharesTypeOK, Indices, EntryMade
    <2> QED
        BY <1>1, <2>1, <2>4, <2>5, RoomIsUsed
<1>11. InAgreement(u)'
    BY <1>4, <1>5, <1>6, <1>7, <1>10, EntryAgrees
<1>12. ASSUME NEW v \in Up, v # u PROVE InAgreement(v)' /\ HasRoom(v)'
    <2>1. /\ submitIDs'[v] = submitIDs[v] /\ submitIndex'[v] = submitIndex[v]
          /\ atPool'[v] = atPool[v] /\ poolCount'[v] = poolCount[v]
        BY <1>4, <1>12 DEF EntryMade
    <2>2. InAgreement(v)'
        BY <1>5, <1>6, <1>7, <2>1, AgreementStays DEF SharesInv
    <2>3. HasRoom(v)'
        BY <1>5, <1>6, <2>1, RoomIsElsewhere
    <2> QED
        BY <2>2, <2>3
<1>13. ASSUME NEW j \in ShareID PROVE InOnePlace(j)'
    <2>1. /\ Answered(j)' <=> Answered(j)
          /\ Unsubmitted(j)' <=> Unsubmitted(j)
          /\ answers'[Owner(j)][j] = answers[Owner(j)][j]
        BY <1>9 DEF Answered, Unsubmitted, Owner
    <2>2. ASSUME NEW y \in Held(j)', y \notin Held(j) PROVE j = id /\ y = <<u, x>>
        <3>1. /\ y \in Up \X Indices /\ y = <<y[1], y[2]>>
              /\ y[2] \in DOMAIN submitIDs'[y[1]] /\ submitIDs'[y[1]][y[2]] = j
            BY DEF Held, Indices
        <3>2. ~(y[2] \in DOMAIN submitIDs[y[1]] /\ submitIDs[y[1]][y[2]] = j)
            BY <2>2, <3>1 DEF Held
        <3>3. y[1] = u
            BY <1>4, <3>1, <3>2 DEF EntryMade
        <3>4. y[2] = x
            BY <1>4, <3>1, <3>2, <3>3 DEF EntryMade
        <3> QED
            BY <1>4, <3>1, <3>3, <3>4 DEF EntryMade
    <2>3. none \cap Tokens(j) = {}
        BY <1>5
    <2> HIDE DEF x
    <2>4. CASE j # id
        <3>1. Held(j)' \subseteq Held(j) /\ in \cap Tokens(j) = {}
            BY <1>7, <2>2, <2>4
        <3> QED
            BY <1>6, <1>8, <2>1, <2>3, <3>1, StaysInPlace
    <2>5. CASE j = id
        <3> DEFINE w == <<u, x>>
        <3>1. Held(j)' \subseteq Held(j) \cup {w} /\ in \cap Tokens(j) # {}
            BY <1>7, <2>2, <2>5
        <3> HIDE DEF w
        <3> QED
            BY <1>6, <1>8, <2>1, <2>3, <3>1, LeavesTheMail
    <2> QED
        BY <2>4, <2>5
<1>14. Mail(chan, spawned, SharesMail)'
    BY <1>5, <1>6, Typed, MailIsFixed DEF Passes
<1>15. (\A c \in Miner : \A j \in DOMAIN answers[c] : Owner(j) = c)'
    BY <1>9 DEF SharesInv, Owner
<1>16. SharesTypeOK'
    BY <1>1, <1>2, <1>9, RemembersTypes DEF SharesInv, SharesTypeOK, CustodyTypeOK, PoolSession, ShareID, id, e
<1> QED
    BY <1>10, <1>11, <1>12, <1>13, <1>14, <1>15, <1>16 DEF SharesInv, ShareID

LEMMA UpSubmitShareStep ==
    ASSUME SharesInv, NEW u \in PoolSession, UpSubmitShare(u)
    PROVE  SharesInv'
<1> DEFINE e == Head(chan[u])
<1>1. /\ u \in Up /\ chan[u] # <<>> /\ e.type = "SubmitShare"
      /\ Handles(u, Nothing, IF AnswersNow(u, e) THEN Response(u, e.id) ELSE {})
      /\ UNCHANGED <<sent, answers>> /\ UNCHANGED custodyVars
    BY DEF UpSubmitShare, UpReceives, Receives
<1>2. /\ running' = running /\ upSession' = upSession /\ open' = open /\ downSessions' = downSessions
      /\ sent' = sent /\ answers' = answers
    BY <1>1 DEF custodyVars
<1>3. ASSUME e.isFakeJob
      PROVE  submitIDs' = submitIDs /\ submitIndex' = submitIndex /\ atPool' = atPool /\ poolCount' = poolCount
    BY <1>3 DEF UpSubmitShare
<1>4. ASSUME ~e.isFakeJob, u \notin AnsweringUp
      PROVE  /\ submitIDs' = submitIDs /\ submitIndex' = submitIndex /\ atPool' = atPool
             /\ poolCount' = [poolCount EXCEPT ![u] = @ + 1]
    <2>1. Arrives(u, e) /\ submitIDs' = submitIDs /\ submitIndex' = submitIndex
        BY <1>4 DEF UpSubmitShare
    <2>2. atPool' = [atPool EXCEPT ![u] = @] /\ poolCount' = [poolCount EXCEPT ![u] = @ + 1]
        BY <1>4, <2>1 DEF Arrives
    <2>3. atPool \in [Up -> SUBSET [place : Nat, id : ShareID]]
        BY DEF SharesInv, SharesTypeOK
    <2> QED
        BY <2>1, <2>2, <2>3
<1>5. CASE e.isFakeJob \/ u \notin AnsweringUp
    <2>1. AnswersNow(u, e)
        BY <1>5 DEF AnswersNow
    <2>2. Handles(u, Nothing, Response(u, e.id))
        BY <1>1, <2>1
    <2>3. /\ submitIDs' = submitIDs /\ submitIndex' = submitIndex /\ atPool' = atPool
          /\ poolCount' = poolCount \/ (u \notin AnsweringUp /\ poolCount' = [poolCount EXCEPT ![u] = @ + 1])
        BY <1>3, <1>4, <1>5
    <2>4. poolCount \in [Up -> Nat]
        BY DEF SharesInv, SharesTypeOK
    <2>5. poolCount' \in [Up -> Nat] /\ \A v \in Up : poolCount'[v] = poolCount[v] \/ v \notin AnsweringUp
        BY <1>1, <2>3, <2>4
    <2>6. SharesTypeOK'
        BY <1>2, <2>3, <2>5 DEF SharesInv, SharesTypeOK, CustodyTypeOK, ShareID, PoolSession
    <2> QED
        BY <1>1, <1>2, <2>2, <2>3, <2>5, <2>6, AnsweredAtOnce
<1>6. CASE ~e.isFakeJob /\ u \in AnsweringUp
    <2>1. ~AnswersNow(u, e)
        BY <1>6 DEF AnswersNow
    <2>2. Handles(u, Nothing, {})
        BY <1>1, <2>1
    <2>3. Arrives(u, e) /\ Remembers(u, e)
        BY <1>6 DEF UpSubmitShare
    <2> QED
        BY <1>1, <1>6, <2>2, <2>3, RemembersStep
<1> QED
    BY <1>5, <1>6

\* The entry of the session is dropped when the pool has answered.
EntryDropped(u, i) ==
    /\ \A v \in Up \ {u} : submitIDs'[v] = submitIDs[v]
    /\ DOMAIN submitIDs' = Up
    /\ DOMAIN submitIDs'[u] = DOMAIN submitIDs[u] \ {i}
    /\ \A k \in DOMAIN submitIDs[u] : k # i => submitIDs'[u][k] = submitIDs[u][k]

LEMMA EntryIsDropped ==
    ASSUME SharesInv, NEW u \in Up, NEW STATE i,
           submitIDs' = [submitIDs EXCEPT ![u] = [j \in DOMAIN @ \ {i} |-> @[j]]]
    PROVE  EntryDropped(u, i)
<1>1. DOMAIN submitIDs = Up
    BY DEF SharesInv, SharesTypeOK
<1>2. /\ submitIDs'[u] = [j \in DOMAIN submitIDs[u] \ {i} |-> submitIDs[u][j]]
      /\ \A v \in Up \ {u} : submitIDs'[v] = submitIDs[v]
      /\ DOMAIN submitIDs' = Up
    BY <1>1
<1> QED
    BY <1>2 DEF EntryDropped

LEMMA DroppedAgrees ==
    ASSUME SharesInv, NEW u \in Up, NEW STATE i, i \in DOMAIN submitIDs[u], EntryDropped(u, i),
           \A s \in atPool[u] : Index(s.place) # i,
           submitIndex' = submitIndex, atPool' = atPool, poolCount' = poolCount,
           NEW STATE in, NEW STATE out, Passes(in, out), in \cap Replies(u, i) # {},
           \A k \in Indices : out \cap Replies(u, k) = {} /\ (k # i => in \cap Replies(u, k) = {})
    PROVE  InAgreement(u)'
<1> DEFINE D == DOMAIN submitIDs[u]
<1>1. InAgreement(u)
    BY DEF SharesInv
<1>2. Numbered(u)'
    BY <1>1 DEF InAgreement, Numbered, Index
<1>3. Placed(u)'
    <2>1. \A s \in atPool[u] : Index(s.place) \in D /\ submitIDs[u][Index(s.place)] = s.id
        BY <1>1 DEF InAgreement, Placed
    <2>2. \A s \in atPool[u] : Index(s.place) \in DOMAIN submitIDs'[u] /\ submitIDs'[u][Index(s.place)] = s.id
        BY <2>1 DEF EntryDropped
    <2>3. \A s, t \in atPool[u] : Index(s.place) = Index(t.place) => s = t
        BY <1>1 DEF InAgreement, Placed
    <2> QED
        BY <2>2, <2>3 DEF Placed, Index
<1>4. ASSUME NEW k \in Indices PROVE Awaited(u, k)'
    <2>1. Awaited(u, k) /\ Replies(u, k)' = Replies(u, k)
        BY <1>1, MailIsFixed DEF InAgreement
    <2> DEFINE K == Replies(u, k)
    <2>2. /\ AtMostOne(chan', spawned', K)
          /\ k # i => (Free(chan', spawned', K) <=> Free(chan, spawned, K))
          /\ k = i => Free(chan', spawned', K)
        BY <2>1 DEF Passes, Awaited
    <2>3. ~Free(chan, spawned, K) => k \in D /\ \A t \in atPool[u] : Index(t.place) # k
        BY <2>1 DEF Awaited
    <2> HIDE DEF K
    <2>4. ASSUME ~Free(chan', spawned', K)
          PROVE  k \in DOMAIN submitIDs'[u] /\ \A t \in atPool'[u] : Index(t.place) # k
        <3>1. k # i /\ ~Free(chan, spawned, K)
            BY <2>2, <2>4
        <3> QED
            BY <2>3, <3>1 DEF EntryDropped
    <2> QED
        BY <2>1, <2>2, <2>4 DEF Awaited, Index, K
<1> QED
    BY <1>2, <1>3, <1>4 DEF InAgreement, Indices

LEMMA UpSubmitResponseStep ==
    ASSUME SharesInv, NEW u \in PoolSession, UpSubmitResponse(u)
    PROVE  SharesInv'
<1> DEFINE e == Head(chan[u])
           i == e.index
           id == submitIDs[u][i]
           in == {<<u, e>>}
           out == Response(u, id)
           a == <<Owner(id), EventSubmitResponse(id)>>
<1>1. chan[u] # <<>> /\ e.type = "RecvExMessage"
    BY DEF UpSubmitResponse, UpReceives, Receives
<1>2. /\ running' = running /\ upSession' = upSession /\ open' = open /\ downSessions' = downSessions
      /\ sent' = sent /\ answers' = answers
      /\ submitIndex' = submitIndex /\ atPool' = atPool /\ poolCount' = poolCount
    BY DEF UpSubmitResponse, custodyVars
<1>3. u \in Actor /\ IsChan(chan) /\ IsABag(spawned)
    BY Parts, Typed
<1>4. u \in Up /\ i \in Indices /\ e = EventRecvExMessage(i)
    BY <1>1, <1>3, HeadKinds, MailKinds
<1>5. /\ in \cap Replies(u, i) # {} /\ ~Free(chan, spawned, Replies(u, i))
      /\ \A v, k : v # u \/ k # i => in \cap Replies(v, k) = {}
      /\ \A j : in \cap Tokens(j) = {}
    <2>1. <<u, e>> \in Replies(u, i)
        BY <1>4 DEF Replies
    <2>2. (\A v, k : v # u \/ k # i => <<u, e>> \notin Replies(v, k)) /\ (\A j : <<u, e>> \notin Tokens(j))
        BY <1>4, RepliesAre
    <2>3. ~Free(chan, spawned, Replies(u, i))
        BY <1>1, <1>3, <2>1, HeadIsSent
    <2> QED
        BY <2>1, <2>2, <2>3
<1>6. i \in DOMAIN submitIDs[u] /\ \A s \in atPool[u] : Index(s.place) # i
    BY <1>4, <1>5 DEF SharesInv, InAgreement, Awaited
<1>7. id \in ShareID
    BY <1>4, <1>6 DEF SharesInv, SharesTypeOK
<1>8. /\ submitIDs' = [submitIDs EXCEPT ![u] = [j \in DOMAIN @ \ {i} |-> @[j]]]
      /\ Handles(u, Nothing, out)
    BY <1>6 DEF UpSubmitResponse
<1>9. EntryDropped(u, i)
    BY <1>4, <1>8, EntryIsDropped
<1>10. Passes(in, out)
    BY <1>1, <1>3, <1>8, HandlesSpawning
<1>11. /\ out = {} \/ out = {a}
       /\ out \subseteq SharesMail
       /\ \A j : j # id => out \cap Tokens(j) = {}
       /\ \A q, j : out \cap ToPool(q, j) = {}
       /\ \A v, k : out \cap Replies(v, k) = {}
    BY <1>7, ResponseIs
<1>12. a \in Tokens(id)
    BY AnswersAre
<1>13. \A j \in ShareID : InOnePlace(j)
    BY DEF SharesInv
<1>14. /\ \A j : Held(j)' \subseteq Held(j)
       /\ \A j : <<u, i>> \notin Held(j)'
       /\ <<u, i>> \in Held(id)
    <2>1. <<u, i>> \in Held(id)
        BY <1>4, <1>6 DEF Held
    <2>2. ASSUME NEW j, NEW y \in Held(j)' PROVE y \in Held(j) /\ y # <<u, i>>
        <3>1. /\ y \in Up \X Indices /\ y = <<y[1], y[2]>>
              /\ y[2] \in DOMAIN submitIDs'[y[1]] /\ submitIDs'[y[1]][y[2]] = j
            BY DEF Held, Indices
        <3> HIDE DEF i
        <3>2. CASE y[1] = u
            <4>1. y[2] # i /\ y[2] \in DOMAIN submitIDs[u] /\ submitIDs[u][y[2]] = j
                BY <1>9, <3>1, <3>2 DEF EntryDropped
            <4> QED
                BY <3>1, <3>2, <4>1 DEF Held
        <3>3. CASE y[1] # u
            <4>1. submitIDs'[y[1]] = submitIDs[y[1]]
                BY <1>9, <3>1, <3>3 DEF EntryDropped
            <4> QED
                BY <3>1, <3>3, <4>1 DEF Held
        <3> QED
            BY <3>2, <3>3
    <2> QED
        BY <2>1, <2>2
<1> DEFINE w == <<u, i>>
<1>15. (\A j : Held(j)' \subseteq Held(j)) /\ (\A j : w \notin Held(j)') /\ w \in Held(id)
    BY <1>14
<1> HIDE DEF in, out, a, id, i, e, w
<1>16. ASSUME NEW j \in ShareID PROVE InOnePlace(j)'
    <2>1. /\ Answered(j)' <=> Answered(j)
          /\ Unsubmitted(j)' <=> Unsubmitted(j)
          /\ answers'[Owner(j)][j] = answers[Owner(j)][j]
        BY <1>2 DEF Answered, Unsubmitted, Owner
    <2>2. CASE out \cap Tokens(j) = {}
        BY <1>5, <1>10, <1>13, <1>15, <2>1, <2>2, StaysInPlace
    <2>3. CASE j = id /\ out = {a}
        <3>1. out \cap Tokens(j) = {a} /\ Held(j) # {}
            BY <1>12, <1>15, <2>3
        <3>2. \A y \in Held(j) : y \notin Held(j)'
            <4>1. \A y \in Held(j) : y = w
                BY <1>13, <1>15, <2>3 DEF InOnePlace
            <4> QED
                BY <1>15, <4>1
        <3> QED
            BY <1>10, <1>13, <1>15, <2>1, <3>1, <3>2, IsSentOn
    <2> QED
        BY <1>11, <2>2, <2>3
<1>17. ASSUME NEW v \in Up PROVE InAgreement(v)' /\ HasRoom(v)'
    <2>0. HasRoom(v)'
        <3>1. DOMAIN submitIDs'[v] \subseteq DOMAIN submitIDs[v]
            BY <1>9 DEF EntryDropped
        <3> QED
            BY <1>2, <1>10, <1>11, <3>1, RoomIsElsewhere
    <2>1. CASE v = u
        <3>1. \A k \in Indices : out \cap Replies(u, k) = {} /\ (k # i => in \cap Replies(u, k) = {})
            BY <1>5, <1>11
        <3>2. InAgreement(u)'
            BY <1>2, <1>4, <1>5, <1>6, <1>9, <1>10, <3>1, DroppedAgrees
        <3> QED
            BY <2>0, <2>1, <3>2
    <2>2. CASE v # u
        <3>1. submitIDs'[v] = submitIDs[v]
            BY <1>9, <2>2 DEF EntryDropped
        <3>2. \A k \in Indices : in \cap Replies(v, k) = {} /\ out \cap Replies(v, k) = {}
            BY <1>5, <1>11, <2>2
        <3>3. InAgreement(v)'
            BY <1>2, <1>10, <3>1, <3>2, AgreementStays DEF SharesInv
        <3> QED
            BY <2>0, <3>3
    <2> QED
        BY <2>1, <2>2
<1>18. Mail(chan, spawned, SharesMail)'
    BY <1>10, <1>11, Typed, MailIsFixed DEF Passes
<1>19. (\A c \in Miner : \A j \in DOMAIN answers[c] : Owner(j) = c)'
    BY <1>2 DEF SharesInv, Owner
<1>20. SharesTypeOK'
    <2>1. ASSUME NEW v \in Up
          PROVE  /\ DOMAIN submitIDs'[v] \subseteq 0 .. IndexWidth - 1
                 /\ \A k \in DOMAIN submitIDs'[v] : submitIDs'[v][k] \in ShareID
        BY <1>9 DEF EntryDropped, SharesInv, SharesTypeOK
    <2>2. DOMAIN submitIDs' = Up
        BY <1>9 DEF EntryDropped
    <2> QED
        BY <1>2, <2>1, <2>2 DEF SharesInv, SharesTypeOK, CustodyTypeOK, PoolSession, ShareID
<1> QED
    BY <1>16, <1>17, <1>18, <1>19, <1>20 DEF SharesInv, ShareID

\* Among the messages for u is one reply, with index i.
Replying(u, i, in, out) ==
    /\ \E m : out \cap Replies(u, i) = {m}
    /\ \A k \in Indices : in \cap Replies(u, k) = {} /\ (k # i => out \cap Replies(u, k) = {})

LEMMA AnswerAgrees ==
    ASSUME NEW u \in Up, InAgreement(u), NEW s \in atPool[u], NEW STATE i, \A t \in atPool[u] : Index(t.place) = i <=> t = s,
           submitIndex' = submitIndex, submitIDs' = submitIDs, poolCount' = poolCount,
           atPool'[u] = atPool[u] \ {s},
           NEW STATE in, NEW STATE out, Passes(in, out), Replying(u, i, in, out)
    PROVE  InAgreement(u)'
<1>1. /\ \A t \in atPool[u] : Index(t.place) \in DOMAIN submitIDs[u] /\ submitIDs[u][Index(t.place)] = t.id
      /\ \A t, r \in atPool[u] : Index(t.place) = Index(r.place) => t = r
    BY DEF InAgreement, Placed
<1>2. Numbered(u)'
    BY DEF InAgreement, Numbered, Index
<1>3. Placed(u)'
    BY <1>1 DEF Placed, Index
<1>4. ASSUME NEW k \in Indices PROVE Awaited(u, k)'
    <2>1. Awaited(u, k) /\ Replies(u, k)' = Replies(u, k)
        BY MailIsFixed DEF InAgreement
    <2> DEFINE K == Replies(u, k)
    <2>2. /\ AtMostOne(chan, spawned, K)
          /\ ~Free(chan, spawned, K) => k \in DOMAIN submitIDs[u] /\ \A t \in atPool[u] : Index(t.place) # k
        BY <2>1 DEF Awaited
    <2>3. CASE k # i
        <3>1. /\ AtMostOne(chan', spawned', K)
              /\ Free(chan', spawned', K) <=> Free(chan, spawned, K)
            BY <2>2, <2>3 DEF Passes, Replying
        <3> HIDE DEF K
        <3> QED
            BY <2>1, <2>2, <3>1 DEF Awaited, Index, K
    <2>4. CASE k = i
        <3>1. PICK m : out \cap K = {m}
            BY <2>4 DEF Replying
        <3>2. Free(chan, spawned, K)
            BY <2>2, <2>4
        <3>3. AtMostOne(chan', spawned', K)
            BY <2>2, <3>1, <3>2 DEF Passes
        <3>4. k \in DOMAIN submitIDs[u] /\ \A t \in atPool'[u] : Index(t.place) # k
            BY <1>1, <2>4
        <3> HIDE DEF K
        <3> QED
            BY <2>1, <3>3, <3>4 DEF Awaited, Index, K
    <2> QED
        BY <2>3, <2>4
<1> QED
    BY <1>2, <1>3, <1>4 DEF InAgreement, Indices

LEMMA PoolAnswersStep ==
    ASSUME SharesInv, NEW u \in Up, PoolAnswers(u)
    PROVE  SharesInv'
<1>1. PICK s \in atPool[u] :
         /\ atPool' = [atPool EXCEPT ![u] = @ \ {s}]
         /\ Sends(To(u, EventRecvExMessage(Index(s.place))), {})
    BY DEF PoolAnswers
<1> DEFINE none == {}
           i == Index(s.place)
           m == <<u, EventRecvExMessage(i)>>
           sends == To(u, EventRecvExMessage(i))
           out == Posts(sends) \cup none
<1>2. /\ running' = running /\ upSession' = upSession /\ open' = open /\ downSessions' = downSessions
      /\ sent' = sent /\ answers' = answers
      /\ submitIndex' = submitIndex /\ submitIDs' = submitIDs /\ poolCount' = poolCount
    BY DEF PoolAnswers, custodyVars
<1>3. u \in Actor /\ u \in PoolSession /\ IsChan(chan) /\ IsABag(spawned)
    BY Parts, Typed
<1>4. OneEach(sends) /\ Posts(sends) = {m}
    BY <1>3, ToPosts
<1>5. (\A K : none \cap K = {}) /\ Sends(sends, none) /\ out = {m} /\ Posts(sends) \cap none = {}
    BY <1>1, <1>4
<1>6. i \in Indices
    <2>1. i \in DOMAIN submitIDs[u]
        BY DEF SharesInv, InAgreement, Placed
    <2> QED
        BY <2>1 DEF SharesInv, SharesTypeOK, Indices
<1> HIDE DEF none, sends
<1>7. Passes({}, out)
    BY <1>3, <1>4, <1>5, SendsPasses
<1>8. Passes(none, out)
    BY <1>7 DEF none
<1>9. /\ out \subseteq SharesMail
      /\ \A j : out \cap Tokens(j) = {}
      /\ \A q, j : out \cap ToPool(q, j) = {}
      /\ \A v, k : v # u \/ k # i => out \cap Replies(v, k) = {}
      /\ out \cap Replies(u, i) = {m}
    <2>1. m \in SharesMail
        BY <1>6 DEF SharesMail, PoolMail
    <2>2. /\ \A j : m \notin Tokens(j)
          /\ \A q, j : m \notin ToPool(q, j)
          /\ \A v, k : m \in Replies(v, k) <=> v = u /\ k = i
        BY RepliesAre
    <2> HIDE DEF m, out
    <2> QED
        BY <1>5, <2>1, <2>2
<1> HIDE DEF out, m
<1>10. ASSUME NEW j \in ShareID PROVE InOnePlace(j)'
    <2>1. /\ Held(j)' = Held(j) /\ (Answered(j)' <=> Answered(j)) /\ (Unsubmitted(j)' <=> Unsubmitted(j))
          /\ answers'[Owner(j)][j] = answers[Owner(j)][j]
        BY <1>2, SameEntries
    <2>2. InOnePlace(j) /\ none \cap Tokens(j) = {} /\ out \cap Tokens(j) = {}
        BY <1>5, <1>9 DEF SharesInv
    <2> QED
        BY <1>8, <2>1, <2>2, StaysInPlace
<1>11. atPool \in [Up -> SUBSET [place : Nat, id : ShareID]]
    BY DEF SharesInv, SharesTypeOK
<1>12. atPool'[u] = atPool[u] \ {s} /\ \A v \in Up \ {u} : atPool'[v] = atPool[v]
    BY <1>1, <1>11
<1>13. ASSUME NEW v \in Up PROVE InAgreement(v)'
    <2>1. CASE v = u
        <3>1. Replying(u, i, none, out)
            BY <1>5, <1>9 DEF Replying
        <3>2. InAgreement(u) /\ \A t \in atPool[u] : Index(t.place) = i <=> t = s
            BY DEF SharesInv, InAgreement, Placed
        <3> HIDE DEF i
        <3>3. InAgreement(u)'
            <4>1. /\ submitIndex' = submitIndex /\ submitIDs' = submitIDs /\ poolCount' = poolCount
                  /\ atPool'[u] = atPool[u] \ {s}
                BY <1>2, <1>12
            <4> QED
                BY <1>8, <3>1, <3>2, <4>1, AnswerAgrees
        <3> QED
            BY <2>1, <3>3
    <2>2. CASE v # u
        <3>1. \A k \in Indices : none \cap Replies(v, k) = {} /\ out \cap Replies(v, k) = {}
            BY <1>5, <1>9, <2>2
        <3>2. atPool'[v] = atPool[v]
            BY <1>12, <2>2
        <3> QED
            BY <1>2, <1>8, <3>1, <3>2, AgreementStays DEF SharesInv
    <2> QED
        BY <2>1, <2>2
<1>14. ASSUME NEW v \in Up PROVE HasRoom(v)'
    BY <1>2, <1>8, <1>9, RoomIsElsewhere
<1>15. Mail(chan, spawned, SharesMail)'
    BY <1>8, <1>9, Typed, MailIsFixed DEF Passes
<1>16. (\A c \in Miner : \A j \in DOMAIN answers[c] : Owner(j) = c)'
    BY <1>2 DEF SharesInv, Owner
<1>17. SharesTypeOK'
    <2>1. atPool' \in [Up -> SUBSET [place : Nat, id : ShareID]]
        BY <1>1, <1>11
    <2> QED
        BY <1>2, <2>1 DEF SharesInv, SharesTypeOK, CustodyTypeOK, PoolSession, ShareID
<1> QED
    BY <1>10, <1>13, <1>14, <1>15, <1>16, <1>17 DEF SharesInv, ShareID

-----------------------------------------------------------------------------
(* The specification.                                                      *)

LEMMA InitShares ==
    ASSUME SharesInit
    PROVE  SharesInv
<1>1. CustodyTypeOK /\ Mail(chan, spawned, CustodyMail)
    BY InitCustody DEF SharesInit
<1>2. /\ sent = [d \in Miner |-> <<>>] /\ answers = [d \in Miner |-> EmptyBag]
      /\ submitIndex \in [Up -> Indices] /\ submitIDs = [u \in Up |-> <<>>]
      /\ atPool = [u \in Up |-> {}] /\ poolCount = submitIndex
    BY DEF SharesInit, Indices
<1>3. DOMAIN EmptyBag = {} /\ IsABag(EmptyBag)
    BY DEF EmptyBag, IsABag, SetToBag
<1>4. (\A u \in Up : DOMAIN submitIDs[u] = {}) /\ (\A d \in Miner : DOMAIN answers[d] = {})
    BY <1>2, <1>3
<1>5. ASSUME NEW K, CustodyMail \cap K = {} PROVE Free(chan, spawned, K)
    BY <1>1, <1>5 DEF Mail, Free, Waits, Pends
<1>6. /\ CustodyMail \subseteq SharesMail
      /\ \A id : CustodyMail \cap Tokens(id) = {}
      /\ \A q, id : CustodyMail \cap ToPool(q, id) = {}
      /\ \A u, i : CustodyMail \cap Replies(u, i) = {}
    BY CustodyMailIsElse
<1>7. Indices \subseteq Nat
    BY ShareAssumption DEF Indices
<1>8. SharesTypeOK
    <2>1. sent \in [Miner -> Seq(PoolSession \cup {None})]
        <3>1. <<>> \in Seq(PoolSession \cup {None})
            OBVIOUS
        <3> QED
            BY <1>2, <3>1
    <2>2. DOMAIN answers = Miner /\ \A d \in Miner : IsABag(answers[d]) /\ BagToSet(answers[d]) \subseteq ShareID
        BY <1>2, <1>3, <1>4 DEF BagToSet
    <2>3. /\ submitIndex \in [Up -> 0 .. IndexWidth - 1] /\ DOMAIN submitIDs = Up
          /\ atPool \in [Up -> SUBSET [place : Nat, id : ShareID]] /\ poolCount \in [Up -> Nat]
        BY <1>2, <1>7 DEF Indices
    <2> QED
        BY <1>1, <1>4, <2>1, <2>2, <2>3 DEF SharesTypeOK
<1>9. Mail(chan, spawned, SharesMail)
    BY <1>1, <1>6, MailGrows
<1>10. ASSUME NEW id \in ShareID PROVE InOnePlace(id)
    <2>1. Free(chan, spawned, Tokens(id)) /\ AtMostOne(chan, spawned, Tokens(id))
        BY <1>5, <1>6, FreeIsAtMostOne
    <2>2. Held(id) = {}
        BY <1>4 DEF Held
    <2>3. ~Answered(id)
        BY <1>4 DEF Answered, Owner, ShareID
    <2> QED
        BY <2>1, <2>2, <2>3 DEF InOnePlace
<1>11. ASSUME NEW u \in Up PROVE InAgreement(u)
    <2>1. Numbered(u)
        BY <1>2, SmallIndices DEF Numbered
    <2>2. Placed(u)
        BY <1>2 DEF Placed
    <2>3. ASSUME NEW i \in Indices PROVE Awaited(u, i)
        BY <1>5, <1>6, FreeIsAtMostOne DEF Awaited
    <2> QED
        BY <2>1, <2>2, <2>3 DEF InAgreement
<1>12. ASSUME NEW u \in Up PROVE HasRoom(u)
    <2>1. InTransit(u) = {}
        <3>1. u \in PoolSession
            BY Parts
        <3>2. \A id \in ShareID : Free(chan, spawned, ToPool(u, id))
            BY <1>5, <1>6
        <3>3. InTransit(u) = {id \in ShareID : ~Free(chan, spawned, ToPool(u, id))}
            BY <3>1, TransitIs DEF TransitByMail
        <3> QED
            BY <3>2, <3>3
    <2>2. IsFiniteSet(InTransit(u)) /\ Cardinality(InTransit(u)) = 0
        BY <2>1, FS_EmptySet
    <2> QED
        BY <2>2, ShareAssumption DEF HasRoom
<1> QED
    BY <1>4, <1>8, <1>9, <1>10, <1>11, <1>12 DEF SharesInv

LEMMA SharesStep ==
    ASSUME SharesInv, [SharesNext]_allVars
    PROVE  SharesInv'
<1>1. ASSUME NEW d \in Miner, Submit(d), Room(upSession[d]), UNCHANGED custodyVars PROVE SharesInv'
    BY <1>1, SubmitStep
<1>2. ASSUME NEW d \in Miner, MinerLeaves(d), UNCHANGED shareVars PROVE SharesInv'
    BY <1>2, MinerLeavesStep
<1>3. ASSUME NEW p \in FakeSessions, TransferDownSessions(p), UNCHANGED shareVars PROVE SharesInv'
    BY <1>3, TransferDownSessionsStep
<1>4. ASSUME NEW u \in Up, PoolBreaks(u) PROVE SharesInv'
    BY <1>4, PoolBreaksStep
<1>5. CASE Environment
    BY <1>1, <1>2, <1>3, <1>4, <1>5 DEF Environment
<1>6. ASSUME NEW d \in Miner, DownRuns(d) PROVE SharesInv'
    BY <1>6, SetUpSessionStep, SubmitResponseStep DEF DownRuns
<1>7. ASSUME NEW p \in PoolSession, UpRuns(p) PROVE SharesInv'
    BY <1>7, AddDownSessionStep, DownSessionBrokenStep, UpSubmitShareStep, UpSubmitResponseStep,
       FakeSubmitShareStep DEF UpRuns
<1>8. ASSUME NEW u \in Up, PoolAnswers(u) PROVE SharesInv'
    BY <1>8, PoolAnswersStep
<1>9. ASSUME NEW m \in BagToSet(spawned), SenderRuns(m) PROVE SharesInv'
    BY <1>9, SenderRunsStep
<1>10. CASE UNCHANGED allVars
    BY <1>10, StutteringStep
<1> QED
    BY <1>5, <1>6, <1>7, <1>8, <1>9, <1>10 DEF SharesNext

-----------------------------------------------------------------------------
\* Whatever the miners submit and wherever they move, every share is in one place
\* at most, and the entries of submitIDs and the pool's count stay in step.
THEOREM SharesInvariant == SharesSpec => []SharesInv
<1>1. SharesInit => SharesInv
    BY InitShares
<1>2. SharesInv /\ [SharesNext]_allVars => SharesInv'
    BY SharesStep
<1> QED
    BY <1>1, <1>2, PTL DEF SharesSpec

\* The state of miners, sessions and pool is what the program's variables can
\* hold: submitIndex is a uint16, and submitIDs has no other index.
THEOREM SharesTyped == SharesSpec => []SharesTypeOK
<1>1. SharesInv => SharesTypeOK
    BY DEF SharesInv
<1> QED
    BY <1>1, SharesInvariant, PTL

\* A miner gets at most one answer to a share, and none to a share it has not
\* submitted: handleSubmitShare answers, or remembers for
\* handleExMessageSubmitResponse, and never both.
THEOREM SharesAnsweredOnce == SharesSpec => []AnsweredOnce
<1>1. ASSUME SharesInv, NEW d \in Miner, NEW id \in ShareID
      PROVE  AnswersOf(d, id) <= IF id[1] = d /\ id[2] <= Len(sent[d]) THEN 1 ELSE 0
    <2> DEFINE e == EventSubmitResponse(id)
               K == {<<d, e>>}
    <2>1. InOnePlace(id) /\ d \in Actor /\ IsChan(chan) /\ IsABag(spawned) /\ Mail(chan, spawned, SharesMail)
        BY <1>1, Parts, Typed DEF SharesInv
    <2>2. e.type = "SubmitResponse" /\ e.id = id
        BY DEF EventSubmitResponse
    <2>3. sent[d] \in Seq(PoolSession \cup {None}) /\ id[2] \in Nat
        BY <1>1, ShareAssumption DEF SharesInv, SharesTypeOK, ShareID
    <2>4. Len(sent[d]) \in Nat
        BY <2>3
    <2>5. CASE id[1] = d
        <3>1. K \subseteq Tokens(id)
            BY <2>5 DEF Tokens, Owner
        <3>2. /\ AtMostOne(chan, spawned, K)
              /\ Free(chan, spawned, Tokens(id)) => Free(chan, spawned, K)
            BY <2>1, <3>1, KindWithin DEF InOnePlace
        <3> HIDE DEF e
        <3>3. InFlight(d, e) = IF Free(chan, spawned, K) THEN 0 ELSE 1
            BY <2>1, <3>2, InFlightIs
        <3> DEFINE n == InFlight(d, e)
                   given == IF BagIn(id, answers[d]) THEN answers[d][id] ELSE 0
        <3>4. n \in {0, 1} /\ (Free(chan, spawned, Tokens(id)) => n = 0)
            BY <3>2, <3>3
        <3>5. BagIn(id, answers[d]) <=> Answered(id)
            BY <2>5 DEF BagIn, BagToSet, Answered, Owner
        <3>6. /\ Answered(id) => given = 1 /\ n = 0
              /\ ~Answered(id) => given = 0
              /\ Unsubmitted(id) => given = 0 /\ n = 0
            BY <2>1, <2>5, <3>4, <3>5 DEF InOnePlace, Owner
        <3>7. Unsubmitted(id) <=> ~(id[2] <= Len(sent[d]))
            BY <2>3, <2>4, <2>5 DEF Unsubmitted, Owner
        <3>8. AnswersOf(d, id) = given + n
            BY DEF AnswersOf, e
        <3> HIDE DEF n, given
        <3>9. CASE Unsubmitted(id)
            BY <3>6, <3>7, <3>8, <3>9
        <3>10. CASE ~Unsubmitted(id)
            <4>1. given + n <= 1
                BY <3>4, <3>6
            <4> QED
                BY <2>5, <3>7, <3>8, <3>10, <4>1
        <3> QED
            BY <3>9, <3>10
    <2>6. CASE id[1] # d
        <3>1. <<d, e>> \notin SharesMail
            BY <2>2, <2>6, MailKinds DEF Owner
        <3> HIDE DEF e
        <3>2. Free(chan, spawned, K) /\ AtMostOne(chan, spawned, K)
            BY <2>1, <3>1, MailIsGood, FreeIsAtMostOne
        <3>3. InFlight(d, e) = 0
            BY <2>1, <3>2, InFlightIs
        <3>4. ~BagIn(id, answers[d])
            BY <1>1, <2>6 DEF SharesInv, BagIn, BagToSet, Owner
        <3>5. AnswersOf(d, id) = 0
            BY <3>3, <3>4 DEF AnswersOf, e
        <3> QED
            BY <2>6, <3>5
    <2> QED
        BY <2>5, <2>6
<1>2. SharesInv => AnsweredOnce
    BY <1>1 DEF AnsweredOnce
<1> QED
    BY <1>2, SharesInvariant, PTL

\* Every answer of the pool finds the share it is meant for in submitIDs, however
\* often submitIndex has wrapped.
THEOREM IndicesAlwaysAgree == SharesSpec => []IndicesAgree
<1>1. ASSUME SharesInv, NEW u \in Up
      PROVE  /\ \A s \in atPool[u] :
                   /\ Index(s.place) \in DOMAIN submitIDs[u]
                   /\ submitIDs[u][Index(s.place)] = s.id
             /\ \A i \in DOMAIN chan[u] :
                   chan[u][i].type = "RecvExMessage" => chan[u][i].index \in DOMAIN submitIDs[u]
    <2>1. InAgreement(u) /\ u \in Actor /\ Mail(chan, spawned, SharesMail)
        BY <1>1, Parts, Typed DEF SharesInv
    <2>2. ASSUME NEW i \in DOMAIN chan[u], chan[u][i].type = "RecvExMessage"
          PROVE  chan[u][i].index \in DOMAIN submitIDs[u]
        <3> DEFINE e == chan[u][i]
        <3>1. <<u, e>> \in SharesMail
            BY <2>1 DEF Mail
        <3>2. e.index \in Indices /\ e = EventRecvExMessage(e.index)
            BY <2>2, <3>1, MailKinds
        <3>3. <<u, e>> \in Replies(u, e.index)
            BY <3>2 DEF Replies
        <3>4. ~Free(chan, spawned, Replies(u, e.index))
            BY <2>1, <3>3 DEF Free, Waits
        <3> QED
            BY <2>1, <3>2, <3>4 DEF InAgreement, Awaited
    <2>3. Placed(u)
        BY <2>1 DEF InAgreement
    <2> QED
        BY <2>2, <2>3 DEF Placed
<1>2. SharesInv => IndicesAgree
    BY <1>1 DEF IndicesAgree
<1> QED
    BY <1>2, SharesInvariant, PTL
=============================================================================
