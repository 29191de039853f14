----------------------------- MODULE MailboxProofs -----------------------------
(***************************************************************************)
(* Lemmas about the channels and the goroutines that wait to send: which   *)
(* messages are on their way after a handler, a send or a delivery, and    *)
(* when there is at most one of a kind.                                    *)
(*                                                                         *)
(* A message is a pair <<to, event>>, as in spawned; a kind of message is  *)
(* a set K of such pairs.                                                  *)
(***************************************************************************)
EXTENDS Mailbox, FiniteSetTheorems, TLAPS

\* Messages of kind K in the channels ch, and in the bag b.
Waits(ch, K) == \E a \in Actor : \E i \in DOMAIN ch[a] : <<a, ch[a][i]>> \in K
Pends(b, K) == \E m \in DOMAIN b : m \in K

WaitsOnce(ch, K) ==
    \A a1, a2 \in Actor : \A i1 \in DOMAIN ch[a1], i2 \in DOMAIN ch[a2] :
       <<a1, ch[a1][i1]>> \in K /\ <<a2, ch[a2][i2]>> \in K => a1 = a2 /\ i1 = i2
PendsOnce(b, K) ==
    \A m1, m2 \in DOMAIN b : m1 \in K /\ m2 \in K => m1 = m2 /\ b[m1] = 1

\* No message of kind K is on its way; at most one is.
Free(ch, b, K) == ~Waits(ch, K) /\ ~Pends(b, K)
AtMostOne(ch, b, K) ==
    /\ WaitsOnce(ch, K)
    /\ PendsOnce(b, K)
    /\ ~(Waits(ch, K) /\ Pends(b, K))

\* Of whatever events: the models of jobs and shares add their own.
IsSequence(s) == \E S : s \in Seq(S)

IsChan(ch) ==
    /\ DOMAIN ch = Actor
    /\ \A a \in Actor : IsSequence(ch[a])

\* Channels and goroutines as MailTypeOK has them, with messages of kind G only.
Mail(ch, b, G) ==
    /\ IsChan(ch)
    /\ \A a \in Actor : \A i \in DOMAIN ch[a] : <<a, ch[a][i]>> \in G
    /\ IsABag(b)
    /\ DOMAIN b \subseteq G

\* The messages that the SendEvent calls of a handler send: one to each part.
Posts(sends) == {<<a, Head(sends[a])>> : a \in DOMAIN sends}
OneEach(sends) ==
    /\ DOMAIN sends \subseteq Actor
    /\ \A a \in DOMAIN sends : \E e : sends[a] = <<e>>

Taken(ch, a) == [ch EXCEPT ![a] = Tail(@)]

-----------------------------------------------------------------------------
LEMMA FreeIsAtMostOne ==
    ASSUME NEW STATE ch, NEW STATE b, NEW STATE K, Free(ch, b, K)
    PROVE  AtMostOne(ch, b, K)
BY DEF Free, AtMostOne, Waits, Pends, WaitsOnce, PendsOnce

LEMMA EmptyIsSequence == IsSequence(<<>>)
<1>1. <<>> \in Seq({})
    OBVIOUS
<1> QED
    BY <1>1 DEF IsSequence

LEMMA SequenceOf ==
    ASSUME NEW s, NEW T, IsSequence(s), \A i \in DOMAIN s : s[i] \in T
    PROVE  s \in Seq(T)
<1>1. PICK S : s \in Seq(S)
    BY DEF IsSequence
<1>2. Len(s) \in Nat /\ DOMAIN s = 1 .. Len(s) /\ s = [i \in 1 .. Len(s) |-> s[i]]
    BY <1>1
<1> QED
    BY <1>2

LEMMA IndicesAreNumbers ==
    ASSUME NEW s, IsSequence(s)
    PROVE  DOMAIN s \subseteq Nat
<1>1. PICK S : s \in Seq(S)
    BY DEF IsSequence
<1> QED
    BY <1>1

\* What is left in a channel when its first event is taken.
LEMMA TakenChannel ==
    ASSUME NEW STATE ch, NEW STATE a, a \in Actor,
           IsChan(ch), ch[a] # <<>>
    PROVE  /\ IsChan(Taken(ch, a))
           /\ \A x \in Actor \ {a} : Taken(ch, a)[x] = ch[x]
           /\ 1 \in DOMAIN ch[a] /\ Head(ch[a]) = ch[a][1]
           /\ \A i \in DOMAIN Taken(ch, a)[a] :
                 i \in Nat \ {0} /\ i + 1 \in DOMAIN ch[a] /\ Taken(ch, a)[a][i] = ch[a][i + 1]
           /\ \A i \in DOMAIN ch[a] :
                 i = 1 \/ (i - 1 \in DOMAIN Taken(ch, a)[a] /\ Taken(ch, a)[a][i - 1] = ch[a][i])
<1>0. PICK S : ch[a] \in Seq(S)
    BY DEF IsChan, IsSequence
<1>1. Taken(ch, a)[a] = Tail(ch[a]) /\ ch[a] \in Seq(S)
    BY <1>0 DEF Taken, IsChan
<1>2. /\ DOMAIN Taken(ch, a) = Actor
      /\ \A x \in Actor \ {a} : Taken(ch, a)[x] = ch[x]
    BY DEF Taken, IsChan
<1>3. /\ Len(ch[a]) \in Nat \ {0}
      /\ DOMAIN ch[a] = 1 .. Len(ch[a])
      /\ Tail(ch[a]) \in Seq(S)
      /\ Len(Tail(ch[a])) = Len(ch[a]) - 1
      /\ DOMAIN Tail(ch[a]) = 1 .. Len(ch[a]) - 1
      /\ \A i \in 1 .. Len(ch[a]) - 1 : Tail(ch[a])[i] = ch[a][i + 1]
      /\ Head(ch[a]) = ch[a][1]
    BY <1>1
<1>4. IsSequence(Tail(ch[a]))
    BY <1>3 DEF IsSequence
<1>5. IsChan(Taken(ch, a))
    BY <1>1, <1>2, <1>4 DEF IsChan
<1> QED
    BY <1>1, <1>2, <1>3, <1>5

\* t is the channels ch when each receiver of sends has got its event.
IsAppended(ch, sends, t) ==
    /\ IsChan(t)
    /\ \A x \in Actor \ DOMAIN sends : t[x] = ch[x]
    /\ \A x \in DOMAIN sends :
          /\ x \in Actor /\ <<x, Head(sends[x])>> \in Posts(sends)
          /\ Len(ch[x]) \in Nat
          /\ DOMAIN ch[x] = 1 .. Len(ch[x])
          /\ DOMAIN t[x] = 1 .. Len(ch[x]) + 1
          /\ \A i \in DOMAIN ch[x] : t[x][i] = ch[x][i]
          /\ t[x][Len(ch[x]) + 1] = Head(sends[x])

\* What is in the channels when a handler has sent its events.
LEMMA AppendedChannel ==
    ASSUME NEW STATE ch, NEW STATE sends, OneEach(sends),
           IsChan(ch)
    PROVE  IsAppended(ch, sends, Appended(ch, sends))
<1>1. DOMAIN Appended(ch, sends) = Actor
    BY DEF Appended, IsChan
<1>2. \A x \in Actor \ DOMAIN sends : Appended(ch, sends)[x] = ch[x]
    BY DEF Appended, IsChan
<1>3. ASSUME NEW x \in DOMAIN sends
      PROVE  /\ x \in Actor /\ <<x, Head(sends[x])>> \in Posts(sends)
             /\ Len(ch[x]) \in Nat
             /\ DOMAIN ch[x] = 1 .. Len(ch[x])
             /\ IsSequence(Appended(ch, sends)[x])
             /\ DOMAIN Appended(ch, sends)[x] = 1 .. Len(ch[x]) + 1
             /\ \A i \in DOMAIN ch[x] : Appended(ch, sends)[x][i] = ch[x][i]
             /\ Appended(ch, sends)[x][Len(ch[x]) + 1] = Head(sends[x])
    <2>1. x \in Actor /\ \E e : sends[x] = <<e>>
        BY DEF OneEach
    <2>2. PICK e : sends[x] = <<e>>
        BY <2>1
    <2>5. PICK T : ch[x] \in Seq(T)
        BY <2>1 DEF IsChan, IsSequence
    <2> DEFINE S == T \cup {e}
    <2>6. ch[x] \in Seq(S) /\ e \in S
        BY <2>5
    <2> HIDE DEF S
    <2>3. Appended(ch, sends)[x] = ch[x] \o <<e>>
        BY <2>1, <2>2 DEF Appended
    <2>4. Head(sends[x]) = e
        BY <2>2
    <2>7. ch[x] \o <<e>> \in Seq(S)
        BY <2>6
    <2>8. IsSequence(Appended(ch, sends)[x])
        BY <2>3, <2>7 DEF IsSequence
    <2>9. /\ Len(ch[x]) \in Nat /\ DOMAIN ch[x] = 1 .. Len(ch[x])
          /\ DOMAIN (ch[x] \o <<e>>) = 1 .. Len(ch[x]) + 1
          /\ \A i \in DOMAIN ch[x] : (ch[x] \o <<e>>)[i] = ch[x][i]
          /\ (ch[x] \o <<e>>)[Len(ch[x]) + 1] = e
        BY <2>6
    <2> QED
        BY <2>1, <2>3, <2>4, <2>8, <2>9 DEF Posts
<1> QED
    BY <1>1, <1>2, <1>3 DEF IsAppended, IsChan

-----------------------------------------------------------------------------
(* What handlers send.                                                     *)

LEMMA NothingPosts == OneEach(Nothing) /\ Posts(Nothing) = {}
<1>1. DOMAIN Nothing = {}
    BY DEF Nothing
<1> QED
    BY <1>1 DEF OneEach, Posts

LEMMA ToPosts ==
    ASSUME NEW STATE a, a \in Actor, NEW STATE e
    PROVE  OneEach(To(a, e)) /\ Posts(To(a, e)) = {<<a, e>>}
<1>1. DOMAIN To(a, e) = {a} /\ To(a, e)[a] = <<e>> /\ Head(To(a, e)[a]) = e
    BY DEF To
<1> QED
    BY <1>1 DEF OneEach, Posts

-----------------------------------------------------------------------------
(* Messages of one kind.                                                   *)

LEMMA TakeOther ==
    ASSUME NEW STATE ch, NEW STATE a, a \in Actor, NEW STATE K,
           IsChan(ch), ch[a] # <<>>,
           <<a, Head(ch[a])>> \notin K
    PROVE  /\ Waits(Taken(ch, a), K) <=> Waits(ch, K)
           /\ WaitsOnce(ch, K) => WaitsOnce(Taken(ch, a), K)
<1> DEFINE t == Taken(ch, a)
<1>1. /\ \A x \in Actor \ {a} : t[x] = ch[x]
      /\ \A i \in DOMAIN t[a] : i + 1 \in DOMAIN ch[a] /\ t[a][i] = ch[a][i + 1]
      /\ \A i \in DOMAIN ch[a] : i = 1 \/ (i - 1 \in DOMAIN t[a] /\ t[a][i - 1] = ch[a][i])
      /\ Head(ch[a]) = ch[a][1]
      /\ DOMAIN t[a] \subseteq Nat
    BY TakenChannel
<1> HIDE DEF t
<1>2. ASSUME NEW x \in Actor, NEW i \in DOMAIN t[x], <<x, t[x][i]>> \in K
      PROVE  Waits(ch, K)
    <2>1. CASE x = a
        <3>1. i + 1 \in DOMAIN ch[x] /\ <<x, ch[x][i + 1]>> \in K
            BY <1>1, <1>2, <2>1
        <3> QED
            BY <3>1 DEF Waits
    <2>2. CASE x # a
        BY <1>1, <1>2, <2>2 DEF Waits
    <2> QED
        BY <2>1, <2>2
<1>3. ASSUME NEW x \in Actor, NEW i \in DOMAIN ch[x], <<x, ch[x][i]>> \in K
      PROVE  Waits(t, K)
    <2>1. CASE x = a
        <3>1. i - 1 \in DOMAIN t[x] /\ <<x, t[x][i - 1]>> \in K
            BY <1>1, <1>3, <2>1
        <3> QED
            BY <3>1 DEF Waits
    <2>2. CASE x # a
        BY <1>1, <1>3, <2>2 DEF Waits
    <2> QED
        BY <2>1, <2>2
<1>4. ASSUME WaitsOnce(ch, K) PROVE WaitsOnce(t, K)
    <2> DEFINE pos(x, i) == IF x = a THEN i + 1 ELSE i
    <2> SUFFICES ASSUME NEW x1 \in Actor, NEW x2 \in Actor,
                        NEW j1 \in DOMAIN t[x1], NEW j2 \in DOMAIN t[x2],
                        <<x1, t[x1][j1]>> \in K, <<x2, t[x2][j2]>> \in K
                 PROVE  x1 = x2 /\ j1 = j2
        BY DEF WaitsOnce
    <2>1. /\ pos(x1, j1) \in DOMAIN ch[x1] /\ <<x1, ch[x1][pos(x1, j1)]>> \in K
          /\ pos(x2, j2) \in DOMAIN ch[x2] /\ <<x2, ch[x2][pos(x2, j2)]>> \in K
        BY <1>1
    <2>2. x1 = x2 /\ pos(x1, j1) = pos(x2, j2)
        <3> HIDE DEF pos
        <3> QED
            BY <1>4, <2>1 DEF WaitsOnce
    <2>3. CASE x1 = a
        BY <1>1, <2>2, <2>3
    <2>4. CASE x1 # a
        BY <2>2, <2>4
    <2> QED
        BY <2>2, <2>3, <2>4
<1> QED
    BY <1>2, <1>3, <1>4 DEF Waits, t

LEMMA TakeIt ==
    ASSUME NEW STATE ch, NEW STATE a, a \in Actor, NEW STATE K,
           IsChan(ch), ch[a] # <<>>,
           <<a, Head(ch[a])>> \in K, WaitsOnce(ch, K)
    PROVE  ~Waits(Taken(ch, a), K) /\ Waits(ch, K)
<1> DEFINE t == Taken(ch, a)
<1>1. /\ \A x \in Actor \ {a} : t[x] = ch[x]
      /\ \A i \in DOMAIN t[a] : i + 1 \in DOMAIN ch[a] /\ t[a][i] = ch[a][i + 1] /\ i + 1 # 1
      /\ 1 \in DOMAIN ch[a] /\ Head(ch[a]) = ch[a][1]
    BY TakenChannel
<1> HIDE DEF t
<1>2. Waits(ch, K)
    BY <1>1 DEF Waits
<1>3. ASSUME NEW x \in Actor, NEW i \in DOMAIN t[x], <<x, t[x][i]>> \in K PROVE FALSE
    <2>1. 1 \in DOMAIN ch[a] /\ <<a, ch[a][1]>> \in K
        BY <1>1
    <2>2. CASE x = a
        <3>1. i + 1 \in DOMAIN ch[a] /\ <<a, ch[a][i + 1]>> \in K /\ i + 1 # 1
            BY <1>1, <1>3, <2>2
        <3> QED
            BY <2>1, <3>1 DEF WaitsOnce
    <2>3. CASE x # a
        <3>1. i \in DOMAIN ch[x] /\ <<x, ch[x][i]>> \in K
            BY <1>1, <1>3, <2>3
        <3> QED
            BY <2>1, <2>3, <3>1 DEF WaitsOnce
    <2> QED
        BY <2>2, <2>3
<1> QED
    BY <1>2, <1>3 DEF Waits, t

LEMMA WaitsOnceIsInherited ==
    ASSUME NEW STATE ch, NEW STATE t, NEW STATE K, WaitsOnce(ch, K),
           \A x \in Actor : \A i \in DOMAIN t[x] :
              <<x, t[x][i]>> \in K => i \in DOMAIN ch[x] /\ ch[x][i] = t[x][i]
    PROVE  WaitsOnce(t, K)
BY DEF WaitsOnce

\* A handler that sends nothing of kind K.
LEMMA PostOther ==
    ASSUME NEW STATE ch, NEW STATE sends, NEW STATE K, OneEach(sends),
           IsChan(ch),
           Posts(sends) \cap K = {}
    PROVE  /\ Waits(Appended(ch, sends), K) <=> Waits(ch, K)
           /\ WaitsOnce(ch, K) => WaitsOnce(Appended(ch, sends), K)
<1> DEFINE t == Appended(ch, sends)
<1>0. IsAppended(ch, sends, t)
    BY AppendedChannel
<1> HIDE DEF t
<1>1. ASSUME NEW x \in Actor, NEW i \in DOMAIN t[x], <<x, t[x][i]>> \in K
      PROVE  i \in DOMAIN ch[x] /\ ch[x][i] = t[x][i]
    <2>1. CASE x \notin DOMAIN sends
        BY <1>1, <2>1, <1>0 DEF IsAppended
    <2>2. CASE x \in DOMAIN sends
        <3> DEFINE n == Len(ch[x])
        <3>1. /\ n \in Nat /\ DOMAIN ch[x] = 1 .. n /\ DOMAIN t[x] = 1 .. n + 1
              /\ \A j \in DOMAIN ch[x] : t[x][j] = ch[x][j]
              /\ <<x, t[x][n + 1]>> \in Posts(sends)
            BY <2>2, <1>0 DEF IsAppended
        <3> HIDE DEF n
        <3> QED
            BY <1>1, <3>1
    <2> QED
        BY <2>1, <2>2
<1>2. ASSUME NEW x \in Actor, NEW i \in DOMAIN ch[x]
      PROVE  i \in DOMAIN t[x] /\ t[x][i] = ch[x][i]
    <2>1. CASE x \notin DOMAIN sends
        BY <2>1, <1>0 DEF IsAppended
    <2>2. CASE x \in DOMAIN sends
        <3>1. /\ Len(ch[x]) \in Nat /\ DOMAIN ch[x] = 1 .. Len(ch[x])
              /\ DOMAIN t[x] = 1 .. Len(ch[x]) + 1
              /\ t[x][i] = ch[x][i]
            BY <2>2, <1>0 DEF IsAppended
        <3>2. \A n \in Nat : 1 .. n \subseteq 1 .. n + 1
            OBVIOUS
        <3> QED
            BY <3>1, <3>2
    <2> QED
        BY <2>1, <2>2
<1>3. Waits(t, K) <=> Waits(ch, K)
    BY <1>1, <1>2 DEF Waits
<1>4. \A x \in Actor : \A i \in DOMAIN t[x] :
         <<x, t[x][i]>> \in K => i \in DOMAIN ch[x] /\ ch[x][i] = t[x][i]
    BY <1>1
<1>5. WaitsOnce(ch, K) => WaitsOnce(t, K)
    BY <1>4, WaitsOnceIsInherited
<1> QED
    BY <1>3, <1>5 DEF t

\* A handler that sends one message of kind K when none is on its way.
LEMMA PostIt ==
    ASSUME NEW STATE ch, NEW STATE sends, NEW STATE K, OneEach(sends),
           IsChan(ch),
           ~Waits(ch, K), NEW STATE m, m \in Posts(sends), Posts(sends) \cap K = {m}
    PROVE  Waits(Appended(ch, sends), K) /\ WaitsOnce(Appended(ch, sends), K)
<1> DEFINE t == Appended(ch, sends)
<1>0. IsAppended(ch, sends, t)
    BY AppendedChannel
<1> HIDE DEF t
<1>1. PICK a \in DOMAIN sends : m = <<a, Head(sends[a])>>
    BY DEF Posts
<1>2. a \in Actor /\ Len(ch[a]) + 1 \in DOMAIN t[a] /\ t[a][Len(ch[a]) + 1] = Head(sends[a])
    <2>1. /\ a \in Actor /\ Len(ch[a]) \in Nat /\ DOMAIN t[a] = 1 .. Len(ch[a]) + 1
          /\ t[a][Len(ch[a]) + 1] = Head(sends[a])
        BY <1>0 DEF IsAppended
    <2>2. \A n \in Nat : n + 1 \in 1 .. n + 1
        OBVIOUS
    <2> QED
        BY <2>1, <2>2
<1>3. ASSUME NEW x \in Actor, NEW i \in DOMAIN t[x], <<x, t[x][i]>> \in K
      PROVE  x = a /\ i = Len(ch[a]) + 1
    <2>1. CASE x \notin DOMAIN sends
        BY <1>3, <2>1, <1>0 DEF Waits, IsAppended
    <2>2. CASE x \in DOMAIN sends
        <3> DEFINE n == Len(ch[x])
        <3>1. /\ n \in Nat /\ DOMAIN ch[x] = 1 .. n /\ DOMAIN t[x] = 1 .. n + 1
              /\ \A j \in DOMAIN ch[x] : t[x][j] = ch[x][j]
              /\ <<x, t[x][n + 1]>> \in Posts(sends)
            BY <2>2, <1>0 DEF IsAppended
        <3> HIDE DEF n
        <3>2. i \notin DOMAIN ch[x]
            BY <1>3, <3>1 DEF Waits
        <3>3. i = n + 1
            BY <3>1, <3>2
        <3>4. <<x, t[x][i]>> = m
            BY <1>3, <3>1, <3>3
        <3>5. x = a
            BY <1>1, <3>4
        <3> QED
            BY <3>3, <3>5 DEF n
    <2> QED
        BY <2>1, <2>2
<1>4. <<a, t[a][Len(ch[a]) + 1]>> \in K
    BY <1>1, <1>2
<1>5. Waits(t, K)
    BY <1>2, <1>4 DEF Waits
<1>6. WaitsOnce(t, K)
    BY <1>3 DEF WaitsOnce
<1> QED
    BY <1>5, <1>6 DEF t

LEMMA SpawnOther ==
    ASSUME NEW STATE b, NEW STATE P, NEW STATE K, IsABag(b), P \cap K = {}
    PROVE  /\ Pends(b (+) SetToBag(P), K) <=> Pends(b, K)
           /\ PendsOnce(b, K) => PendsOnce(b (+) SetToBag(P), K)
<1> DEFINE t == b (+) SetToBag(P)
<1>1. DOMAIN t = DOMAIN b \cup P
    BY DEF (+), SetToBag
<1>2. \A m \in DOMAIN b \ P : t[m] = b[m]
    BY DEF (+), SetToBag, IsABag
<1> HIDE DEF t
<1>3. Pends(t, K) <=> Pends(b, K)
    BY <1>1 DEF Pends
<1>4. PendsOnce(b, K) => PendsOnce(t, K)
    BY <1>1, <1>2 DEF PendsOnce
<1> QED
    BY <1>3, <1>4 DEF t

LEMMA SpawnIt ==
    ASSUME NEW STATE b, NEW STATE P, NEW STATE K, IsABag(b),
           ~Pends(b, K), NEW STATE m, P \cap K = {m}
    PROVE  Pends(b (+) SetToBag(P), K) /\ PendsOnce(b (+) SetToBag(P), K)
<1> DEFINE t == b (+) SetToBag(P)
<1>1. DOMAIN t = DOMAIN b \cup P
    BY DEF (+), SetToBag
<1>2. \A n \in DOMAIN t : n \in K <=> n = m
    BY <1>1 DEF Pends
<1>3. m \notin DOMAIN b /\ m \in DOMAIN t /\ m \in P
    BY <1>1 DEF Pends
<1>4. t[m] = 1
    BY <1>3 DEF (+), SetToBag
<1> HIDE DEF t
<1>5. Pends(t, K)
    BY <1>2, <1>3 DEF Pends
<1>6. PendsOnce(t, K)
    BY <1>2, <1>4 DEF PendsOnce
<1> QED
    BY <1>5, <1>6 DEF t

LEMMA SpawnedBag ==
    ASSUME NEW STATE b, NEW STATE P, IsABag(b)
    PROVE  /\ IsABag(b (+) SetToBag(P))
           /\ DOMAIN (b (+) SetToBag(P)) = DOMAIN b \cup P
BY DEF (+), SetToBag, IsABag

-----------------------------------------------------------------------------
(* What handlers, senders and deliveries do to the messages of one kind.   *)

\* A handler's sends and go sends contain exactly one message of kind K, m.
SendsOnly(sends, P, K, m) ==
    \/ m \in Posts(sends) /\ Posts(sends) \cap K = {m} /\ P \cap K = {}
    \/ Posts(sends) \cap K = {} /\ P \cap K = {m}

LEMMA EffectNone ==
    ASSUME NEW STATE ch, NEW STATE b, NEW STATE sends, NEW STATE P, NEW STATE K,
           IsChan(ch), IsABag(b), OneEach(sends), Posts(sends) \cap K = {}, P \cap K = {},
           AtMostOne(ch, b, K)
    PROVE  /\ AtMostOne(Appended(ch, sends), b (+) SetToBag(P), K)
           /\ Free(Appended(ch, sends), b (+) SetToBag(P), K) <=> Free(ch, b, K)
<1>1. /\ Waits(Appended(ch, sends), K) <=> Waits(ch, K)
      /\ WaitsOnce(ch, K) => WaitsOnce(Appended(ch, sends), K)
    BY PostOther
<1>2. /\ Pends(b (+) SetToBag(P), K) <=> Pends(b, K)
      /\ PendsOnce(b, K) => PendsOnce(b (+) SetToBag(P), K)
    BY SpawnOther
<1> QED
    BY <1>1, <1>2 DEF AtMostOne, Free

LEMMA EffectOne ==
    ASSUME NEW STATE ch, NEW STATE b, NEW STATE sends, NEW STATE P, NEW STATE K, NEW STATE m,
           IsChan(ch), IsABag(b), OneEach(sends), SendsOnly(sends, P, K, m), Free(ch, b, K)
    PROVE  /\ AtMostOne(Appended(ch, sends), b (+) SetToBag(P), K)
           /\ ~Free(Appended(ch, sends), b (+) SetToBag(P), K)
<1>1. ~Waits(ch, K) /\ WaitsOnce(ch, K) /\ ~Pends(b, K) /\ PendsOnce(b, K)
    BY FreeIsAtMostOne DEF Free, AtMostOne
<1>2. CASE m \in Posts(sends) /\ Posts(sends) \cap K = {m} /\ P \cap K = {}
    <2>1. Waits(Appended(ch, sends), K) /\ WaitsOnce(Appended(ch, sends), K)
        BY <1>1, <1>2, PostIt
    <2>2. ~Pends(b (+) SetToBag(P), K) /\ PendsOnce(b (+) SetToBag(P), K)
        BY <1>1, <1>2, SpawnOther
    <2> QED
        BY <2>1, <2>2 DEF AtMostOne, Free
<1>3. CASE Posts(sends) \cap K = {} /\ P \cap K = {m}
    <2>1. ~Waits(Appended(ch, sends), K) /\ WaitsOnce(Appended(ch, sends), K)
        BY <1>1, <1>3, PostOther
    <2>2. Pends(b (+) SetToBag(P), K) /\ PendsOnce(b (+) SetToBag(P), K)
        BY <1>1, <1>3, SpawnIt
    <2> QED
        BY <2>1, <2>2 DEF AtMostOne, Free
<1> QED
    BY <1>2, <1>3 DEF SendsOnly

\* Taking an event of kind K leaves none behind, taking another changes nothing.
LEMMA TakeEffect ==
    ASSUME NEW STATE ch, NEW STATE b, NEW STATE a, a \in Actor, NEW STATE K,
           IsChan(ch), ch[a] # <<>>, AtMostOne(ch, b, K)
    PROVE  /\ <<a, Head(ch[a])>> \notin K =>
                 /\ AtMostOne(Taken(ch, a), b, K)
                 /\ Free(Taken(ch, a), b, K) <=> Free(ch, b, K)
           /\ <<a, Head(ch[a])>> \in K => Free(Taken(ch, a), b, K) /\ ~Free(ch, b, K)
<1>1. CASE <<a, Head(ch[a])>> \notin K
    BY <1>1, TakeOther DEF AtMostOne, Free
<1>2. CASE <<a, Head(ch[a])>> \in K
    BY <1>2, TakeIt DEF AtMostOne, Free
<1> QED
    BY <1>1, <1>2

\* A handler that sends nothing of kind K.
LEMMA HandlesNone ==
    ASSUME NEW K, NEW STATE a, a \in Actor, NEW STATE sends, NEW STATE P,
           IsChan(chan), IsABag(spawned), chan[a] # <<>>, AtMostOne(chan, spawned, K),
           OneEach(sends), Posts(sends) \cap K = {}, P \cap K = {}, Handles(a, sends, P)
    PROVE  /\ AtMostOne(chan', spawned', K)
           /\ <<a, Head(chan[a])>> \in K => Free(chan', spawned', K) /\ ~Free(chan, spawned, K)
           /\ <<a, Head(chan[a])>> \notin K => (Free(chan', spawned', K) <=> Free(chan, spawned, K))
<1> DEFINE t == Taken(chan, a)
<1>1. chan' = Appended(t, sends) /\ spawned' = spawned (+) SetToBag(P)
    BY DEF Handles, Spawns, Taken
<1>2. IsChan(t)
    BY TakenChannel
<1>3. /\ <<a, Head(chan[a])>> \notin K =>
           /\ AtMostOne(t, spawned, K)
           /\ Free(t, spawned, K) <=> Free(chan, spawned, K)
      /\ <<a, Head(chan[a])>> \in K => Free(t, spawned, K) /\ ~Free(chan, spawned, K)
    BY TakeEffect
<1> HIDE DEF t
<1>4. AtMostOne(t, spawned, K)
    BY <1>3, FreeIsAtMostOne
<1>5. /\ AtMostOne(Appended(t, sends), spawned (+) SetToBag(P), K)
      /\ Free(Appended(t, sends), spawned (+) SetToBag(P), K) <=> Free(t, spawned, K)
    BY <1>2, <1>4, EffectNone
<1> QED
    BY <1>1, <1>3, <1>5

\* A handler that sends one message of kind K when no other is on its way.
LEMMA HandlesOne ==
    ASSUME NEW K, NEW STATE a, a \in Actor, NEW STATE sends, NEW STATE P, NEW STATE m,
           IsChan(chan), IsABag(spawned), chan[a] # <<>>, AtMostOne(chan, spawned, K),
           OneEach(sends), SendsOnly(sends, P, K, m), Handles(a, sends, P),
           <<a, Head(chan[a])>> \in K \/ Free(chan, spawned, K)
    PROVE  AtMostOne(chan', spawned', K) /\ ~Free(chan', spawned', K)
<1> DEFINE t == Taken(chan, a)
<1>1. chan' = Appended(t, sends) /\ spawned' = spawned (+) SetToBag(P)
    BY DEF Handles, Spawns, Taken
<1>2. IsChan(t)
    BY TakenChannel
<1>3. Free(t, spawned, K)
    BY TakeEffect
<1> HIDE DEF t
<1>4. /\ AtMostOne(Appended(t, sends), spawned (+) SetToBag(P), K)
      /\ ~Free(Appended(t, sends), spawned (+) SetToBag(P), K)
    BY <1>2, <1>3, EffectOne
<1> QED
    BY <1>1, <1>4

LEMMA SendsNone ==
    ASSUME NEW K, NEW STATE sends, NEW STATE P,
           IsChan(chan), IsABag(spawned), AtMostOne(chan, spawned, K),
           OneEach(sends), Posts(sends) \cap K = {}, P \cap K = {}, Sends(sends, P)
    PROVE  /\ AtMostOne(chan', spawned', K)
           /\ Free(chan', spawned', K) <=> Free(chan, spawned, K)
<1>1. chan' = Appended(chan, sends) /\ spawned' = spawned (+) SetToBag(P)
    BY DEF Sends, Spawns
<1> QED
    BY <1>1, EffectNone

LEMMA SendsOne ==
    ASSUME NEW K, NEW STATE sends, NEW STATE P, NEW STATE m,
           IsChan(chan), IsABag(spawned), Free(chan, spawned, K),
           OneEach(sends), SendsOnly(sends, P, K, m), Sends(sends, P)
    PROVE  AtMostOne(chan', spawned', K) /\ ~Free(chan', spawned', K)
<1>1. chan' = Appended(chan, sends) /\ spawned' = spawned (+) SetToBag(P)
    BY DEF Sends, Spawns
<1> QED
    BY <1>1, EffectOne

\* What is left of a bag when one of its members is taken out.
LEMMA RemovedBag ==
    ASSUME NEW STATE b, IsABag(b), NEW STATE m, m \in DOMAIN b
    PROVE  /\ IsABag(b (-) SetToBag({m}))
           /\ DOMAIN (b (-) SetToBag({m})) \subseteq DOMAIN b
           /\ DOMAIN b \ {m} \subseteq DOMAIN (b (-) SetToBag({m}))
           /\ \A n \in DOMAIN b \ {m} : (b (-) SetToBag({m}))[n] = b[n]
           /\ b[m] = 1 => m \notin DOMAIN (b (-) SetToBag({m}))
<1> DEFINE t == b (-) SetToBag({m})
           c == [n \in DOMAIN b |-> IF n \in {m} THEN b[n] - 1 ELSE b[n]]
<1>1. \A n \in DOMAIN b : b[n] \in Nat /\ b[n] > 0
    BY DEF IsABag
<1>2. t = [n \in {k \in DOMAIN c : c[k] > 0} |-> c[n]]
    BY DEF (-), SetToBag
<1> HIDE DEF t
<1>3. DOMAIN t = {k \in DOMAIN b : c[k] > 0} /\ \A n \in DOMAIN t : t[n] = c[n]
    BY <1>2
<1>4. \A n \in DOMAIN b \ {m} : n \in DOMAIN t /\ t[n] = b[n]
    BY <1>1, <1>3
<1>5. b[m] = 1 => m \notin DOMAIN t
    BY <1>3
<1>6. \A n \in DOMAIN t : t[n] \in Nat /\ t[n] > 0
    BY <1>1, <1>3
<1>7. IsABag(t)
    <2>1. t = [n \in DOMAIN t |-> t[n]]
        BY <1>2
    <2> QED
        BY <1>6, <2>1 DEF IsABag
<1> QED
    BY <1>3, <1>4, <1>5, <1>7 DEF t

LEMMA DeliverAppends ==
    ASSUME NEW STATE a, a \in Actor, NEW STATE e, IsChan(chan), IsABag(spawned), Deliver(<<a, e>>)
    PROVE  /\ chan' = Appended(chan, To(a, e))
           /\ <<a, e>> \in DOMAIN spawned /\ DOMAIN spawned' \subseteq DOMAIN spawned
<1>1. PICK S : chan[a] \in Seq(S)
    BY DEF IsChan, IsSequence
<1>2. /\ chan' = [chan EXCEPT ![a] = Append(chan[a], e)] /\ DOMAIN chan = Actor
      /\ <<a, e>> \in DOMAIN spawned /\ spawned' = spawned (-) SetToBag({<<a, e>>})
    BY DEF Deliver, IsChan, BagIn, BagToSet
<1>3. Append(chan[a], e) = chan[a] \o <<e>>
    BY <1>1
<1>4. chan' = Appended(chan, To(a, e))
    BY <1>2, <1>3 DEF Appended, To
<1> QED
    BY <1>2, <1>4, RemovedBag

\* A goroutine that gets to its SendEvent moves its event from the bag to the
\* channel.
LEMMA DeliverKeeps ==
    ASSUME NEW K, NEW STATE a, a \in Actor, NEW STATE e,
           IsChan(chan), IsABag(spawned), AtMostOne(chan, spawned, K), Deliver(<<a, e>>)
    PROVE  /\ AtMostOne(chan', spawned', K)
           /\ Free(chan', spawned', K) <=> Free(chan, spawned, K)
<1> DEFINE m == <<a, e>>
           sends == To(a, e)
           b == spawned (-) SetToBag({m})
<1>1. m \in DOMAIN spawned /\ spawned' = b
    BY DEF Deliver, BagIn, BagToSet
<1>2. OneEach(sends) /\ Posts(sends) = {m}
    <2>1. DOMAIN sends = {a} /\ sends[a] = <<e>> /\ Head(sends[a]) = e
        BY DEF To
    <2> QED
        BY <2>1 DEF OneEach, Posts
<1>3. chan' = Appended(chan, sends)
    BY DeliverAppends
<1>4. /\ IsABag(b)
      /\ DOMAIN b \subseteq DOMAIN spawned
      /\ DOMAIN spawned \ {m} \subseteq DOMAIN b
      /\ \A n \in DOMAIN spawned \ {m} : b[n] = spawned[n]
      /\ spawned[m] = 1 => m \notin DOMAIN b
    BY <1>1, RemovedBag
<1> HIDE DEF m, sends, b
<1>5. CASE m \in K
    <2>1. ~Waits(chan, K) /\ PendsOnce(spawned, K) /\ ~Free(chan, spawned, K)
        BY <1>1, <1>5 DEF AtMostOne, Pends, Free
    <2>2. ~Pends(b, K) /\ PendsOnce(b, K)
        BY <1>1, <1>4, <1>5, <2>1 DEF Pends, PendsOnce
    <2>3. Waits(Appended(chan, sends), K) /\ WaitsOnce(Appended(chan, sends), K)
        BY <1>2, <1>5, <2>1, PostIt
    <2> QED
        BY <1>1, <1>3, <2>1, <2>2, <2>3 DEF AtMostOne, Free
<1>6. CASE m \notin K
    <2>1. /\ Pends(b, K) <=> Pends(spawned, K)
          /\ PendsOnce(spawned, K) => PendsOnce(b, K)
        <3>1. \A n \in K : n \in DOMAIN b <=> n \in DOMAIN spawned
            BY <1>4, <1>6
        <3>2. \A n \in K : n \in DOMAIN b => b[n] = spawned[n]
            BY <1>4, <1>6
        <3> QED
            BY <3>1, <3>2 DEF Pends, PendsOnce
    <2>2. /\ Waits(Appended(chan, sends), K) <=> Waits(chan, K)
          /\ WaitsOnce(chan, K) => WaitsOnce(Appended(chan, sends), K)
        BY <1>2, <1>6, PostOther
    <2> QED
        BY <1>1, <1>3, <2>1, <2>2 DEF AtMostOne, Free
<1> QED
    BY <1>5, <1>6

-----------------------------------------------------------------------------
(* Messages of the right kind stay so.                                     *)

LEMMA MailIsGood ==
    ASSUME NEW STATE ch, NEW STATE b, NEW STATE G, IsChan(ch), IsABag(b)
    PROVE  Mail(ch, b, G) <=> \A m : m \notin G => Free(ch, b, {m})
<1>1. ASSUME Mail(ch, b, G), NEW m, m \notin G PROVE Free(ch, b, {m})
    BY <1>1 DEF Mail, Free, Waits, Pends
<1>2. ASSUME \A m : m \notin G => Free(ch, b, {m}) PROVE Mail(ch, b, G)
    <2>1. ASSUME NEW a \in Actor, NEW i \in DOMAIN ch[a] PROVE <<a, ch[a][i]>> \in G
        <3>1. ~Free(ch, b, {<<a, ch[a][i]>>})
            BY DEF Free, Waits
        <3> QED
            BY <1>2, <3>1
    <2>2. ASSUME NEW m \in DOMAIN b PROVE m \in G
        <3>1. ~Free(ch, b, {m})
            BY DEF Free, Pends
        <3> QED
            BY <1>2, <3>1
    <2> QED
        BY <2>1, <2>2 DEF Mail
<1> QED
    BY <1>1, <1>2

LEMMA MailGrows ==
    ASSUME NEW STATE ch, NEW STATE b, NEW STATE G, NEW STATE H, Mail(ch, b, G), G \subseteq H
    PROVE  Mail(ch, b, H)
BY DEF Mail

LEMMA HandlesMail ==
    ASSUME NEW STATE G, NEW STATE a, a \in Actor, NEW STATE sends, NEW STATE P,
           Mail(chan, spawned, G), chan[a] # <<>>, OneEach(sends),
           Posts(sends) \subseteq G, P \subseteq G, Handles(a, sends, P)
    PROVE  Mail(chan', spawned', G) /\ <<a, Head(chan[a])>> \in G
<1> DEFINE t == Taken(chan, a)
<1>1. chan' = Appended(t, sends) /\ spawned' = spawned (+) SetToBag(P)
    BY DEF Handles, Spawns, Taken
<1>2. IsChan(chan) /\ IsABag(spawned)
    BY DEF Mail
<1>3. IsChan(t) /\ 1 \in DOMAIN chan[a] /\ Head(chan[a]) = chan[a][1]
    BY <1>2, TakenChannel
<1>4. <<a, Head(chan[a])>> \in G
    BY <1>3 DEF Mail
<1> HIDE DEF t
<1>5. IsChan(chan') /\ IsABag(spawned')
    BY <1>1, <1>2, <1>3, AppendedChannel, SpawnedBag DEF IsAppended
<1>6. ASSUME NEW m, m \notin G PROVE Free(chan', spawned', {m})
    <2>1. Free(chan, spawned, {m}) /\ AtMostOne(chan, spawned, {m})
        BY <1>2, <1>6, MailIsGood, FreeIsAtMostOne
    <2>2. Posts(sends) \cap {m} = {} /\ P \cap {m} = {} /\ <<a, Head(chan[a])>> \notin {m}
        BY <1>4, <1>6
    <2> QED
        BY <1>2, <2>1, <2>2, HandlesNone
<1> QED
    BY <1>4, <1>5, <1>6, MailIsGood

LEMMA SendsMail ==
    ASSUME NEW STATE G, NEW STATE sends, NEW STATE P, Mail(chan, spawned, G), OneEach(sends),
           Posts(sends) \subseteq G, P \subseteq G, Sends(sends, P)
    PROVE  Mail(chan', spawned', G)
<1>1. chan' = Appended(chan, sends) /\ spawned' = spawned (+) SetToBag(P)
    BY DEF Sends, Spawns
<1>2. IsChan(chan) /\ IsABag(spawned)
    BY DEF Mail
<1>3. IsChan(chan') /\ IsABag(spawned')
    BY <1>1, <1>2, AppendedChannel, SpawnedBag DEF IsAppended
<1>4. ASSUME NEW m, m \notin G PROVE Free(chan', spawned', {m})
    <2>1. Free(chan, spawned, {m}) /\ AtMostOne(chan, spawned, {m})
        BY <1>2, <1>4, MailIsGood, FreeIsAtMostOne
    <2>2. Posts(sends) \cap {m} = {} /\ P \cap {m} = {}
        BY <1>4
    <2> QED
        BY <1>2, <2>1, <2>2, SendsNone
<1> QED
    BY <1>3, <1>4, MailIsGood

LEMMA DeliverMail ==
    ASSUME NEW STATE G, NEW STATE a, a \in Actor, NEW STATE e, Mail(chan, spawned, G),
           Deliver(<<a, e>>)
    PROVE  Mail(chan', spawned', G)
<1>1. IsChan(chan) /\ IsABag(spawned)
    BY DEF Mail
<1>2. IsChan(chan') /\ IsABag(spawned')
    <2>0. PICK S : chan[a] \in Seq(S)
        BY <1>1 DEF IsChan, IsSequence
    <2>1. chan' = [chan EXCEPT ![a] = Append(chan[a], e)]
        BY DEF Deliver
    <2>4. Append(chan[a], e) \in Seq(S \cup {e})
        BY <2>0
    <2>2. IsChan(chan')
        BY <1>1, <2>1, <2>4 DEF IsChan, IsSequence
    <2>3. <<a, e>> \in DOMAIN spawned /\ spawned' = spawned (-) SetToBag({<<a, e>>})
        BY DEF Deliver, BagIn, BagToSet
    <2> QED
        BY <1>1, <2>2, <2>3, RemovedBag
<1>3. ASSUME NEW m, m \notin G PROVE Free(chan', spawned', {m})
    <2>1. Free(chan, spawned, {m}) /\ AtMostOne(chan, spawned, {m})
        BY <1>1, <1>3, MailIsGood, FreeIsAtMostOne
    <2> QED
        BY <1>1, <2>1, DeliverKeeps
<1> QED
    BY <1>2, <1>3, MailIsGood

-----------------------------------------------------------------------------
(* How often an event is on its way, and in which order.                   *)

PlacesIn(s, e) == {i \in DOMAIN s : s[i] = e}
Count(s, e) == Cardinality(PlacesIn(s, e))
Copies(b, m) == IF m \in DOMAIN b THEN b[m] ELSE 0

LEMMA FinitelyMany ==
    ASSUME NEW s, NEW e, IsSequence(s)
    PROVE  IsFiniteSet(PlacesIn(s, e)) /\ Count(s, e) \in Nat
<1>1. PICK S : s \in Seq(S)
    BY DEF IsSequence
<1>2. DOMAIN s = 1 .. Len(s) /\ Len(s) \in Nat
    BY <1>1
<1>3. IsFiniteSet(1 .. Len(s))
    BY <1>2, FS_Interval
<1>4. PlacesIn(s, e) \in SUBSET (1 .. Len(s))
    BY <1>2 DEF PlacesIn
<1>5. IsFiniteSet(PlacesIn(s, e))
    BY <1>3, <1>4, FS_Subset
<1> QED
    BY <1>5, FS_CardinalityType DEF Count

\* The first event is taken.
LEMMA CountTaken ==
    ASSUME NEW STATE ch, NEW STATE x, x \in Actor, IsChan(ch), ch[x] # <<>>,
           NEW a \in Actor, NEW e
    PROVE  Count(Taken(ch, x)[a], e) =
              IF a = x /\ e = Head(ch[x]) THEN Count(ch[a], e) - 1 ELSE Count(ch[a], e)
<1> DEFINE t == Taken(ch, x)
           I == PlacesIn(ch[x], e)
           J == PlacesIn(t[x], e)
           J1 == I \ {1}
           f == [i \in J |-> i + 1]
<1>1. /\ IsChan(t)
      /\ \A y \in Actor \ {x} : t[y] = ch[y]
      /\ 1 \in DOMAIN ch[x] /\ Head(ch[x]) = ch[x][1]
      /\ \A i \in DOMAIN t[x] :
            i \in Nat \ {0} /\ i + 1 \in DOMAIN ch[x] /\ t[x][i] = ch[x][i + 1]
      /\ \A i \in DOMAIN ch[x] :
            i = 1 \/ (i - 1 \in DOMAIN t[x] /\ t[x][i - 1] = ch[x][i])
    BY TakenChannel
<1>2. IsSequence(ch[x]) /\ IsSequence(t[x]) /\ DOMAIN ch[x] \subseteq Nat
    BY <1>1, IndicesAreNumbers DEF IsChan
<1>3. IsFiniteSet(I) /\ IsFiniteSet(J)
    BY <1>2, FinitelyMany
<1> HIDE DEF t
<1>4. \A i \in J : i \in Nat \ {0} /\ i + 1 \in J1
    BY <1>1 DEF PlacesIn
<1>5. \A i \in J1 : i \in Nat /\ i - 1 \in J /\ (i - 1) + 1 = i
    <2> SUFFICES ASSUME NEW i \in J1 PROVE i \in Nat /\ i - 1 \in J
        OBVIOUS
    <2>1. i \in DOMAIN ch[x] /\ i # 1 /\ ch[x][i] = e
        BY DEF PlacesIn
    <2> QED
        BY <1>1, <1>2, <2>1 DEF PlacesIn
<1> HIDE DEF J, I, J1
<1>6. f \in Bijection(J, J1)
    <2>1. f \in [J -> J1]
        BY <1>4
    <2>2. \A i, j \in J : f[i] = f[j] => i = j
        BY <1>4
    <2>3. \A i \in J1 : \E j \in J : f[j] = i
        BY <1>5
    <2> QED
        BY <2>1, <2>2, <2>3 DEF Bijection, Injection, Surjection, IsInjective
<1>7. Cardinality(J1) = Cardinality(J)
    BY <1>3, <1>6, FS_Bijection DEF ExistsBijection
<1>8. Cardinality(I) \in Nat /\ Cardinality(J1) = IF 1 \in I THEN Cardinality(I) - 1 ELSE Cardinality(I)
    BY <1>3, FS_RemoveElement, FS_CardinalityType DEF J1
<1>9. 1 \in I <=> e = Head(ch[x])
    BY <1>1 DEF I, PlacesIn
<1>10. CASE a = x
    BY <1>7, <1>8, <1>9, <1>10 DEF Count, I, J, t
<1>11. CASE a # x
    BY <1>1, <1>11 DEF t
<1> QED
    BY <1>10, <1>11

\* A handler has sent its events.
LEMMA CountAppended ==
    ASSUME NEW STATE ch, NEW STATE sends, IsChan(ch), OneEach(sends), NEW a \in Actor, NEW e
    PROVE  Count(Appended(ch, sends)[a], e) =
              IF <<a, e>> \in Posts(sends) THEN Count(ch[a], e) + 1 ELSE Count(ch[a], e)
<1> DEFINE t == Appended(ch, sends)
<1>0. IsAppended(ch, sends, t)
    BY AppendedChannel
<1>1. \A y, g : <<y, g>> \in Posts(sends) <=> y \in DOMAIN sends /\ g = Head(sends[y])
    BY DEF Posts
<1> HIDE DEF t
<1>2. CASE a \notin DOMAIN sends
    <2>1. t[a] = ch[a]
        BY <1>0, <1>2 DEF IsAppended
    <2> QED
        BY <1>1, <1>2, <2>1 DEF t
<1>3. CASE a \in DOMAIN sends
    <2> DEFINE n == Len(ch[a])
               I == PlacesIn(ch[a], e)
               J == PlacesIn(t[a], e)
    <2>1. /\ n \in Nat /\ DOMAIN ch[a] = 1 .. n /\ DOMAIN t[a] = 1 .. n + 1
          /\ \A i \in DOMAIN ch[a] : t[a][i] = ch[a][i]
          /\ t[a][n + 1] = Head(sends[a])
        BY <1>0, <1>3 DEF IsAppended
    <2>2. IsFiniteSet(I) /\ Cardinality(I) \in Nat
        BY FinitelyMany DEF IsChan, Count
    <2> HIDE DEF n
    <2>3. 1 .. n + 1 = (1 .. n) \cup {n + 1} /\ n + 1 \notin 1 .. n
        BY <2>1
    <2>4. J = IF e = Head(sends[a]) THEN I \cup {n + 1} ELSE I
        BY <2>1, <2>3 DEF PlacesIn
    <2>5. n + 1 \notin I
        BY <2>1, <2>3 DEF PlacesIn
    <2> HIDE DEF I, J
    <2>6. Cardinality(I \cup {n + 1}) = Cardinality(I) + 1
        BY <2>2, <2>5, FS_AddElement
    <2> QED
        BY <1>1, <1>3, <2>4, <2>6 DEF Count, I, J, t
<1> QED
    BY <1>2, <1>3

LEMMA CopiesSpawned ==
    ASSUME NEW STATE b, IsABag(b), NEW STATE P, NEW m
    PROVE  /\ Copies(b, m) \in Nat
           /\ Copies(b (+) SetToBag(P), m) = IF m \in P THEN Copies(b, m) + 1 ELSE Copies(b, m)
<1> DEFINE t == b (+) SetToBag(P)
<1>1. DOMAIN t = DOMAIN b \cup P
    BY DEF (+), SetToBag
<1>2. \A n \in DOMAIN b : b[n] \in Nat
    BY DEF IsABag
<1>3. \A n \in DOMAIN t : t[n] = (IF n \in DOMAIN b THEN b[n] ELSE 0) + (IF n \in P THEN 1 ELSE 0)
    BY <1>1 DEF (+), SetToBag
<1> HIDE DEF t
<1>4. Copies(t, m) = IF m \in P THEN Copies(b, m) + 1 ELSE Copies(b, m)
    <2>1. CASE m \in DOMAIN b
        BY <1>1, <1>2, <1>3, <2>1 DEF Copies
    <2>2. CASE m \notin DOMAIN b
        BY <1>1, <1>3, <2>2 DEF Copies
    <2> QED
        BY <2>1, <2>2
<1> QED
    BY <1>2, <1>4 DEF Copies, t

LEMMA SpawnedCopies ==
    ASSUME IsABag(spawned), NEW STATE P, spawned' = spawned (+) SetToBag(P), NEW m
    PROVE  /\ Copies(spawned, m) \in Nat
           /\ Copies(spawned', m) = IF m \in P THEN Copies(spawned, m) + 1 ELSE Copies(spawned, m)
BY CopiesSpawned

LEMMA CopiesRemoved ==
    ASSUME NEW STATE b, IsABag(b), NEW STATE x, x \in DOMAIN b, NEW m
    PROVE  Copies(b (-) SetToBag({x}), m) = IF m = x THEN Copies(b, m) - 1 ELSE Copies(b, m)
<1> DEFINE t == b (-) SetToBag({x})
           c == [n \in DOMAIN b |-> IF n \in {x} THEN b[n] - 1 ELSE b[n]]
<1>1. \A n \in DOMAIN b : b[n] \in Nat /\ b[n] > 0
    BY DEF IsABag
<1>2. t = [n \in {k \in DOMAIN c : c[k] > 0} |-> c[n]]
    BY DEF (-), SetToBag
<1> HIDE DEF t
<1>3. DOMAIN t = {k \in DOMAIN b : c[k] > 0} /\ \A n \in DOMAIN t : t[n] = c[n]
    BY <1>2
<1>4. ASSUME m = x
      PROVE  Copies(t, m) = Copies(b, m) - 1
    <2>1. b[x] \in Nat /\ b[x] > 0
        BY <1>1
    <2>2. CASE b[x] = 1
        <3>1. x \notin DOMAIN t
            BY <1>3, <2>2
        <3> QED
            BY <1>4, <2>2, <3>1 DEF Copies
    <2>3. CASE b[x] # 1
        <3>1. c[x] = b[x] - 1 /\ c[x] > 0
            BY <2>1, <2>3
        <3> HIDE DEF c
        <3>2. x \in DOMAIN t /\ t[x] = b[x] - 1
            BY <1>3, <3>1
        <3> QED
            BY <1>4, <3>2 DEF Copies
    <2> QED
        BY <2>2, <2>3
<1>5. ASSUME m # x
      PROVE  Copies(t, m) = Copies(b, m)
    <2>1. m \in DOMAIN b => b[m] \in Nat /\ b[m] > 0 /\ c[m] = b[m]
        BY <1>1, <1>5
    <2> HIDE DEF c
    <2>2. /\ m \in DOMAIN t <=> m \in DOMAIN b
          /\ m \in DOMAIN b => t[m] = b[m]
        BY <1>3, <2>1
    <2> QED
        BY <2>2 DEF Copies
<1> QED
    BY <1>4, <1>5 DEF t

LEMMA InFlightCounts ==
    ASSUME NEW a, NEW e
    PROVE  /\ InFlight(a, e) = Count(chan[a], e) + Copies(spawned, <<a, e>>)
           /\ InFlight(a, e)' = Count(chan'[a], e) + Copies(spawned', <<a, e>>)
BY DEF InFlight, Queued, Pending, Count, PlacesIn, Copies, BagIn, BagToSet

LEMMA InFlightIsNat ==
    ASSUME NEW a \in Actor, NEW e, IsChan(chan), IsABag(spawned)
    PROVE  InFlight(a, e) \in Nat
<1>1. IsSequence(chan[a])
    BY DEF IsChan
<1>2. Count(chan[a], e) \in Nat
    BY <1>1, FinitelyMany
<1>3. Copies(spawned, <<a, e>>) \in Nat
    BY DEF Copies, IsABag
<1> QED
    BY <1>2, <1>3, InFlightCounts

\* The step takes the messages in off the channels and sends the messages out,
\* one each.
Tallies(in, out) ==
    \A a \in Actor : \A e :
       /\ (<<a, e>> \in in <=> <<a, e>> \in out) => InFlight(a, e)' = InFlight(a, e)
       /\ <<a, e>> \in in \ out => InFlight(a, e)' = InFlight(a, e) - 1
       /\ <<a, e>> \in out \ in => InFlight(a, e)' = InFlight(a, e) + 1

\* Wherever both events are in the channel s, y is before x.
Ahead(s, y, x) == \A i, j \in DOMAIN s : s[i] = y /\ s[j] = x => i < j

\* An event that no goroutine has to send any more, and that is not sent, stays
\* before those it is before.
KeepsOrder(out) ==
    \A a \in Actor : \A x, y :
       /\ <<a, y>> \notin out
       /\ <<a, y>> \notin DOMAIN spawned
       /\ Ahead(chan[a], y, x)
       => <<a, y>> \notin DOMAIN spawned' /\ Ahead(chan'[a], y, x)

Accounts(in, out) == Tallies(in, out) /\ KeepsOrder(out)

LEMMA AheadTaken ==
    ASSUME NEW STATE ch, NEW STATE b, b \in Actor, IsChan(ch), ch[b] # <<>>,
           NEW a \in Actor, NEW x, NEW y, Ahead(ch[a], y, x)
    PROVE  Ahead(Taken(ch, b)[a], y, x)
<1> DEFINE t == Taken(ch, b)
<1>1. /\ \A z \in Actor \ {b} : t[z] = ch[z]
      /\ \A i \in DOMAIN t[b] :
            i \in Nat \ {0} /\ i + 1 \in DOMAIN ch[b] /\ t[b][i] = ch[b][i + 1]
    BY TakenChannel
<1> HIDE DEF t
<1>2. CASE a = b
    <2> SUFFICES ASSUME NEW i \in DOMAIN t[b], NEW j \in DOMAIN t[b], t[b][i] = y, t[b][j] = x
                 PROVE  i < j
        BY <1>2 DEF Ahead, t
    <2>1. i \in Nat /\ j \in Nat
        BY <1>1
    <2>2. i + 1 < j + 1
        BY <1>1, <1>2 DEF Ahead
    <2> QED
        BY <2>1, <2>2
<1>3. CASE a # b
    BY <1>1, <1>3 DEF Ahead, t
<1> QED
    BY <1>2, <1>3

LEMMA AheadAppended ==
    ASSUME NEW STATE ch, NEW STATE sends, IsChan(ch), OneEach(sends),
           NEW a \in Actor, NEW x, NEW y, Ahead(ch[a], y, x), <<a, y>> \notin Posts(sends)
    PROVE  Ahead(Appended(ch, sends)[a], y, x)
<1> DEFINE t == Appended(ch, sends)
<1>0. IsAppended(ch, sends, t)
    BY AppendedChannel
<1> HIDE DEF t
<1>1. CASE a \notin DOMAIN sends
    BY <1>0, <1>1 DEF IsAppended, Ahead, t
<1>2. CASE a \in DOMAIN sends
    <2> DEFINE n == Len(ch[a])
    <2>1. /\ n \in Nat /\ DOMAIN ch[a] = 1 .. n /\ DOMAIN t[a] = 1 .. n + 1
          /\ \A i \in DOMAIN ch[a] : t[a][i] = ch[a][i]
          /\ t[a][n + 1] = Head(sends[a]) /\ <<a, Head(sends[a])>> \in Posts(sends)
        BY <1>0, <1>2 DEF IsAppended
    <2> HIDE DEF n
    <2> SUFFICES ASSUME NEW i \in DOMAIN t[a], NEW j \in DOMAIN t[a], t[a][i] = y, t[a][j] = x
                 PROVE  i < j
        BY DEF Ahead, t
    <2>2. i # n + 1
        BY <2>1
    <2>3. i \in DOMAIN ch[a] /\ ch[a][i] = y /\ i < n + 1
        BY <2>1, <2>2
    <2>4. CASE j = n + 1
        BY <2>3, <2>4
    <2>5. CASE j # n + 1
        <3>1. j \in DOMAIN ch[a] /\ ch[a][j] = x
            BY <2>1, <2>5
        <3> QED
            BY <2>3, <3>1 DEF Ahead
    <2> QED
        BY <2>4, <2>5
<1> QED
    BY <1>1, <1>2

LEMMA HandlesAccounts ==
    ASSUME NEW STATE b, b \in Actor, NEW STATE sends, NEW STATE P,
           IsChan(chan), IsABag(spawned), chan[b] # <<>>, OneEach(sends),
           Posts(sends) \cap P = {}, Handles(b, sends, P)
    PROVE  Accounts({<<b, Head(chan[b])>>}, Posts(sends) \cup P)
<1> DEFINE t == Taken(chan, b)
           in == {<<b, Head(chan[b])>>}
           out == Posts(sends) \cup P
<1>0. chan' = Appended(t, sends) /\ spawned' = spawned (+) SetToBag(P)
    BY DEF Handles, Spawns, Taken
<1>1. IsChan(t)
    BY TakenChannel
<1>2. ASSUME NEW a \in Actor, NEW e
      PROVE  /\ (<<a, e>> \in in <=> <<a, e>> \in out) => InFlight(a, e)' = InFlight(a, e)
             /\ <<a, e>> \in in \ out => InFlight(a, e)' = InFlight(a, e) - 1
             /\ <<a, e>> \in out \ in => InFlight(a, e)' = InFlight(a, e) + 1
    <2>1. Count(t[a], e) = IF <<a, e>> \in in THEN Count(chan[a], e) - 1 ELSE Count(chan[a], e)
        BY CountTaken
    <2> HIDE DEF t, in
    <2>2. Count(chan'[a], e) = IF <<a, e>> \in Posts(sends) THEN Count(t[a], e) + 1 ELSE Count(t[a], e)
        BY <1>0, <1>1, CountAppended
    <2>3. /\ Copies(spawned, <<a, e>>) \in Nat
          /\ Copies(spawned', <<a, e>>) = IF <<a, e>> \in P THEN Copies(spawned, <<a, e>>) + 1
                                                          ELSE Copies(spawned, <<a, e>>)
        BY <1>0, SpawnedCopies
    <2>4. Count(chan[a], e) \in Nat
        BY FinitelyMany DEF IsChan
    <2>5. InFlight(a, e) = Count(chan[a], e) + Copies(spawned, <<a, e>>)
        BY InFlightCounts
    <2>6. InFlight(a, e)' = Count(chan'[a], e) + Copies(spawned', <<a, e>>)
        BY InFlightCounts
    <2>7. /\ <<a, e>> \in out <=> <<a, e>> \in Posts(sends) \/ <<a, e>> \in P
          /\ ~(<<a, e>> \in Posts(sends) /\ <<a, e>> \in P)
        OBVIOUS
    <2> HIDE DEF out
    <2> QED
        BY <2>1, <2>2, <2>3, <2>4, <2>5, <2>6, <2>7
<1>3. ASSUME NEW a \in Actor, NEW x, NEW y,
             <<a, y>> \notin out, <<a, y>> \notin DOMAIN spawned, Ahead(chan[a], y, x)
      PROVE  <<a, y>> \notin DOMAIN spawned' /\ Ahead(chan'[a], y, x)
    <2>1. Ahead(t[a], y, x)
        BY <1>3, AheadTaken
    <2> HIDE DEF t
    <2>2. <<a, y>> \notin Posts(sends) /\ <<a, y>> \notin P
        BY <1>3
    <2>3. Ahead(chan'[a], y, x)
        BY <1>0, <1>1, <2>1, <2>2, AheadAppended
    <2> QED
        BY <1>0, <1>3, <2>2, <2>3, SpawnedBag
<1> HIDE DEF in, out
<1>4. Accounts(in, out)
    BY <1>2, <1>3 DEF Accounts, Tallies, KeepsOrder
<1> QED
    BY <1>4 DEF in, out

LEMMA SendsAccounts ==
    ASSUME NEW STATE sends, NEW STATE P, IsChan(chan), IsABag(spawned), OneEach(sends),
           Posts(sends) \cap P = {}, Sends(sends, P)
    PROVE  Accounts({}, Posts(sends) \cup P)
<1> DEFINE out == Posts(sends) \cup P
<1>0. chan' = Appended(chan, sends) /\ spawned' = spawned (+) SetToBag(P)
    BY DEF Sends, Spawns
<1>2. ASSUME NEW a \in Actor, NEW e
      PROVE  InFlight(a, e)' = IF <<a, e>> \in out THEN InFlight(a, e) + 1 ELSE InFlight(a, e)
    <2>2. Count(chan'[a], e) = IF <<a, e>> \in Posts(sends) THEN Count(chan[a], e) + 1 ELSE Count(chan[a], e)
        BY <1>0, CountAppended
    <2>3. /\ Copies(spawned, <<a, e>>) \in Nat
          /\ Copies(spawned', <<a, e>>) = IF <<a, e>> \in P THEN Copies(spawned, <<a, e>>) + 1
                                                          ELSE Copies(spawned, <<a, e>>)
        BY <1>0, SpawnedCopies
    <2>4. Count(chan[a], e) \in Nat
        BY FinitelyMany DEF IsChan
    <2>5. InFlight(a, e) = Count(chan[a], e) + Copies(spawned, <<a, e>>)
        BY InFlightCounts
    <2>6. InFlight(a, e)' = Count(chan'[a], e) + Copies(spawned', <<a, e>>)
        BY InFlightCounts
    <2>7. /\ <<a, e>> \in out <=> <<a, e>> \in Posts(sends) \/ <<a, e>> \in P
          /\ ~(<<a, e>> \in Posts(sends) /\ <<a, e>> \in P)
        OBVIOUS
    <2> HIDE DEF out
    <2> QED
        BY <2>2, <2>3, <2>4, <2>5, <2>6, <2>7
<1>3. ASSUME NEW a \in Actor, NEW x, NEW y,
             <<a, y>> \notin out, <<a, y>> \notin DOMAIN spawned, Ahead(chan[a], y, x)
      PROVE  <<a, y>> \notin DOMAIN spawned' /\ Ahead(chan'[a], y, x)
    <2>2. <<a, y>> \notin Posts(sends) /\ <<a, y>> \notin P
        BY <1>3
    <2>3. Ahead(chan'[a], y, x)
        BY <1>0, <1>3, <2>2, AheadAppended
    <2> QED
        BY <1>0, <1>3, <2>2, <2>3, SpawnedBag
<1> HIDE DEF out
<1>4. Accounts({}, out)
    BY <1>2, <1>3 DEF Accounts, Tallies, KeepsOrder
<1> QED
    BY <1>4 DEF out

LEMMA QuietAccounts ==
    ASSUME UNCHANGED mailVars
    PROVE  Accounts({}, {})
<1>1. chan' = chan /\ spawned' = spawned
    BY DEF mailVars
<1>2. \A a \in Actor : \A e : InFlight(a, e)' = InFlight(a, e)
    BY <1>1 DEF InFlight, Queued, Pending, BagIn, BagToSet
<1> QED
    BY <1>1, <1>2 DEF Accounts, Tallies, KeepsOrder

LEMMA DeliverAccounts ==
    ASSUME NEW STATE b, b \in Actor, NEW STATE g,
           IsChan(chan), IsABag(spawned), Deliver(<<b, g>>)
    PROVE  Accounts({}, {})
<1> DEFINE m == <<b, g>>
           sends == To(b, g)
<1>1. /\ chan' = Appended(chan, sends)
      /\ m \in DOMAIN spawned /\ DOMAIN spawned' \subseteq DOMAIN spawned
    BY DeliverAppends
<1>2. spawned' = spawned (-) SetToBag({m})
    BY DEF Deliver
<1>3. OneEach(sends) /\ Posts(sends) = {m}
    BY ToPosts
<1> HIDE DEF m, sends
<1>4. ASSUME NEW a \in Actor, NEW e PROVE InFlight(a, e)' = InFlight(a, e)
    <2>1. Count(chan'[a], e) = IF <<a, e>> \in Posts(sends) THEN Count(chan[a], e) + 1
                                                             ELSE Count(chan[a], e)
        BY <1>1, <1>3, CountAppended
    <2>2. Count(chan'[a], e) = IF <<a, e>> = m THEN Count(chan[a], e) + 1 ELSE Count(chan[a], e)
        BY <1>3, <2>1
    <2>3. Copies(spawned', <<a, e>>) = IF <<a, e>> = m THEN Copies(spawned, <<a, e>>) - 1
                                                      ELSE Copies(spawned, <<a, e>>)
        BY <1>1, <1>2, CopiesRemoved
    <2>4. Count(chan[a], e) \in Nat /\ Copies(spawned, <<a, e>>) \in Nat
        BY FinitelyMany, CopiesSpawned DEF IsChan
    <2>5. InFlight(a, e) = Count(chan[a], e) + Copies(spawned, <<a, e>>)
        BY InFlightCounts
    <2>6. InFlight(a, e)' = Count(chan'[a], e) + Copies(spawned', <<a, e>>)
        BY InFlightCounts
    <2> QED
        BY <2>2, <2>3, <2>4, <2>5, <2>6
<1>5. ASSUME NEW a \in Actor, NEW x, NEW y, <<a, y>> \notin DOMAIN spawned, Ahead(chan[a], y, x)
      PROVE  <<a, y>> \notin DOMAIN spawned' /\ Ahead(chan'[a], y, x)
    <2>1. <<a, y>> \notin Posts(sends)
        BY <1>1, <1>3, <1>5
    <2> QED
        BY <1>1, <1>3, <1>5, <2>1, AheadAppended
<1> QED
    BY <1>4, <1>5 DEF Accounts, Tallies, KeepsOrder

-----------------------------------------------------------------------------
(* Steps, seen from the mail.                                              *)

\* The step takes the messages in (one at most) from a channel and sends the
\* messages out, to channels or by goroutines.  This is what it means for the
\* messages of any kind of which at most one is on its way, and for the mail.
\* It accounts for every message that goes or comes.
Passes(in, out) ==
    /\ \A K : AtMostOne(chan, spawned, K) /\ out \cap K = {} =>
          /\ AtMostOne(chan', spawned', K)
          /\ in \cap K = {} => (Free(chan', spawned', K) <=> Free(chan, spawned, K))
          /\ in \cap K # {} => Free(chan', spawned', K) /\ ~Free(chan, spawned, K)
    /\ \A K, m :
          AtMostOne(chan, spawned, K) /\ out \cap K = {m}
             /\ (in \cap K # {} \/ Free(chan, spawned, K)) =>
          AtMostOne(chan', spawned', K) /\ ~Free(chan', spawned', K)
    /\ \A G : Mail(chan, spawned, G) /\ out \subseteq G =>
          Mail(chan', spawned', G) /\ in \subseteq G
    /\ Accounts(in, out)

LEMMA HandlesPasses ==
    ASSUME NEW STATE a, a \in Actor, NEW STATE sends, NEW STATE P,
           IsChan(chan), IsABag(spawned), chan[a] # <<>>, OneEach(sends),
           Posts(sends) \cap P = {}, Handles(a, sends, P)
    PROVE  Passes({<<a, Head(chan[a])>>}, Posts(sends) \cup P)
<1> DEFINE in == {<<a, Head(chan[a])>>}
           out == Posts(sends) \cup P
<1>1. ASSUME NEW K, AtMostOne(chan, spawned, K), out \cap K = {}
      PROVE  /\ AtMostOne(chan', spawned', K)
             /\ in \cap K = {} => (Free(chan', spawned', K) <=> Free(chan, spawned, K))
             /\ in \cap K # {} => Free(chan', spawned', K) /\ ~Free(chan, spawned, K)
    <2>1. Posts(sends) \cap K = {} /\ P \cap K = {}
        BY <1>1
    <2>2. /\ in \cap K = {} => <<a, Head(chan[a])>> \notin K
          /\ in \cap K # {} => <<a, Head(chan[a])>> \in K
        OBVIOUS
    <2> HIDE DEF in
    <2> QED
        BY <1>1, <2>1, <2>2, HandlesNone
<1>2. ASSUME NEW K, NEW m, AtMostOne(chan, spawned, K), out \cap K = {m},
             in \cap K # {} \/ Free(chan, spawned, K)
      PROVE  AtMostOne(chan', spawned', K) /\ ~Free(chan', spawned', K)
    <2>1. SendsOnly(sends, P, K, m)
        BY <1>2 DEF SendsOnly
    <2>2. <<a, Head(chan[a])>> \in K \/ Free(chan, spawned, K)
        BY <1>2
    <2> QED
        BY <1>2, <2>1, <2>2, HandlesOne
<1>3. ASSUME NEW G, Mail(chan, spawned, G), out \subseteq G
      PROVE  Mail(chan', spawned', G) /\ in \subseteq G
    <2>1. Posts(sends) \subseteq G /\ P \subseteq G
        BY <1>3
    <2>2. Mail(chan', spawned', G) /\ <<a, Head(chan[a])>> \in G
        BY <1>3, <2>1, HandlesMail
    <2> QED
        BY <2>2
<1>5. Accounts(in, out)
    BY HandlesAccounts
<1> HIDE DEF in, out
<1>4. Passes(in, out)
    BY <1>1, <1>2, <1>3, <1>5 DEF Passes
<1> QED
    BY <1>4 DEF in, out

LEMMA SendsPasses ==
    ASSUME NEW STATE sends, NEW STATE P, IsChan(chan), IsABag(spawned), OneEach(sends),
           Posts(sends) \cap P = {}, Sends(sends, P)
    PROVE  Passes({}, Posts(sends) \cup P)
<1> DEFINE out == Posts(sends) \cup P
<1>1. ASSUME NEW K, AtMostOne(chan, spawned, K), out \cap K = {}
      PROVE  /\ AtMostOne(chan', spawned', K)
             /\ Free(chan', spawned', K) <=> Free(chan, spawned, K)
    <2>1. Posts(sends) \cap K = {} /\ P \cap K = {}
        BY <1>1
    <2> QED
        BY <1>1, <2>1, SendsNone
<1>2. ASSUME NEW K, NEW m, out \cap K = {m}, Free(chan, spawned, K)
      PROVE  AtMostOne(chan', spawned', K) /\ ~Free(chan', spawned', K)
    <2>1. SendsOnly(sends, P, K, m)
        BY <1>2 DEF SendsOnly
    <2> QED
        BY <1>2, <2>1, SendsOne
<1>3. ASSUME NEW G, Mail(chan, spawned, G), out \subseteq G PROVE Mail(chan', spawned', G)
    <2>1. Posts(sends) \subseteq G /\ P \subseteq G
        BY <1>3
    <2> QED
        BY <1>3, <2>1, SendsMail
<1>5. Accounts({}, out)
    BY SendsAccounts
<1> HIDE DEF out
<1>4. Passes({}, out)
    <2>1. \A K : {} \cap K = {}
        OBVIOUS
    <2> QED
        BY <1>1, <1>2, <1>3, <1>5, <2>1 DEF Passes
<1> QED
    BY <1>4 DEF out

LEMMA QuietPasses ==
    ASSUME UNCHANGED mailVars
    PROVE  Passes({}, {})
<1>1. chan' = chan /\ spawned' = spawned
    BY DEF mailVars
<1>2. \A K : {} \cap K = {} /\ \A m : {} \cap K # {m}
    OBVIOUS
<1>3. Accounts({}, {})
    BY QuietAccounts
<1> QED
    BY <1>1, <1>2, <1>3 DEF Passes

LEMMA DeliverPasses ==
    ASSUME NEW STATE a, a \in Actor, NEW STATE e,
           IsChan(chan), IsABag(spawned), Deliver(<<a, e>>)
    PROVE  Passes({}, {})
<1>1. \A K : {} \cap K = {} /\ \A m : {} \cap K # {m}
    OBVIOUS
<1>2. ASSUME NEW K, AtMostOne(chan, spawned, K)
      PROVE  AtMostOne(chan', spawned', K) /\ (Free(chan', spawned', K) <=> Free(chan, spawned, K))
    BY <1>2, DeliverKeeps
<1>3. ASSUME NEW G, Mail(chan, spawned, G) PROVE Mail(chan', spawned', G)
    BY <1>3, DeliverMail
<1>4. Accounts({}, {})
    BY DeliverAccounts
<1> QED
    BY <1>1, <1>2, <1>3, <1>4 DEF Passes

-----------------------------------------------------------------------------
(* Kinds within kinds.                                                     *)

LEMMA KindWithin ==
    ASSUME NEW STATE ch, NEW STATE b, NEW STATE K, NEW STATE L, L \subseteq K
    PROVE  /\ Free(ch, b, K) => Free(ch, b, L)
           /\ AtMostOne(ch, b, K) => AtMostOne(ch, b, L)
<1>1. /\ Waits(ch, L) => Waits(ch, K)
      /\ Pends(b, L) => Pends(b, K)
    BY DEF Waits, Pends
<1>2. WaitsOnce(ch, K) => WaitsOnce(ch, L)
    BY DEF WaitsOnce
<1>3. PendsOnce(b, K) => PendsOnce(b, L)
    BY DEF PendsOnce
<1> QED
    BY <1>1, <1>2, <1>3 DEF Free, AtMostOne

\* The first message of a channel is on its way.
LEMMA HeadIsSent ==
    ASSUME NEW STATE a, a \in Actor, NEW STATE K, IsChan(chan), chan[a] # <<>>, <<a, Head(chan[a])>> \in K
    PROVE  ~Free(chan, spawned, K)
<1>1. 1 \in DOMAIN chan[a] /\ Head(chan[a]) = chan[a][1]
    BY TakenChannel
<1> QED
    BY <1>1 DEF Free, Waits

\* The number of times that e is on its way, when it is at most once.
LEMMA InFlightIs ==
    ASSUME NEW a \in Actor, NEW e, AtMostOne(chan, spawned, {<<a, e>>})
    PROVE  InFlight(a, e) = IF Free(chan, spawned, {<<a, e>>}) THEN 0 ELSE 1
<1> DEFINE K == {<<a, e>>}
           I == {i \in DOMAIN chan[a] : chan[a][i] = e}
<1>1. WaitsOnce(chan, K) /\ PendsOnce(spawned, K) /\ ~(Waits(chan, K) /\ Pends(spawned, K))
    BY DEF AtMostOne
<1>2. Waits(chan, K) <=> I # {}
    <2>1. \A b \in Actor : \A i \in DOMAIN chan[b] : <<b, chan[b][i]>> \in K <=> b = a /\ chan[b][i] = e
        OBVIOUS
    <2> HIDE DEF K
    <2> QED
        BY <2>1 DEF Waits
<1>3. Queued(a, e) = IF Waits(chan, K) THEN 1 ELSE 0
    <2>1. CASE I = {}
        <3>1. Cardinality(I) = 0
            BY <2>1, FS_EmptySet
        <3> QED
            BY <1>2, <2>1, <3>1 DEF Queued
    <2>2. CASE I # {}
        <3>1. PICK i \in I : TRUE
            BY <2>2
        <3>2. \A j \in I : j = i
            BY <1>1, <3>1 DEF WaitsOnce
        <3>3. I = {i}
            BY <3>1, <3>2
        <3> HIDE DEF I
        <3>4. Cardinality(I) = 1
            BY <3>3, FS_Singleton
        <3> QED
            BY <1>2, <2>2, <3>4 DEF Queued, I
    <2> QED
        BY <2>1, <2>2
<1>4. Pending(a, e) = IF Pends(spawned, K) THEN 1 ELSE 0
    <2>1. Pends(spawned, K) <=> <<a, e>> \in DOMAIN spawned
        BY DEF Pends
    <2>2. Pends(spawned, K) => spawned[<<a, e>>] = 1
        BY <1>1, <2>1 DEF PendsOnce
    <2> QED
        BY <2>1, <2>2 DEF Pending, BagIn, BagToSet
<1>5. Free(chan, spawned, K) <=> ~Waits(chan, K) /\ ~Pends(spawned, K)
    BY DEF Free
<1> HIDE DEF K
<1>6. InFlight(a, e) = IF Free(chan, spawned, K) THEN 0 ELSE 1
    BY <1>1, <1>3, <1>4, <1>5 DEF InFlight
<1> QED
    BY <1>6 DEF K

-----------------------------------------------------------------------------
(* Several events for one receiver.                                        *)

Several(sends) ==
    /\ DOMAIN sends \subseteq Actor
    /\ \A a \in DOMAIN sends : IsSequence(sends[a])
AllPosts(sends) == UNION {{<<a, sends[a][i]>> : i \in DOMAIN sends[a]} : a \in DOMAIN sends}

\* One event each is a case of several.
LEMMA OneEachIsSeveral ==
    ASSUME NEW STATE sends, OneEach(sends)
    PROVE  Several(sends) /\ AllPosts(sends) = Posts(sends)
<1>1. ASSUME NEW a \in DOMAIN sends
      PROVE  /\ a \in Actor /\ IsSequence(sends[a])
             /\ DOMAIN sends[a] = {1} /\ sends[a][1] = Head(sends[a])
    <2>1. a \in Actor /\ \E e : sends[a] = <<e>>
        BY DEF OneEach
    <2>2. PICK e : sends[a] = <<e>>
        BY <2>1
    <2>3. <<e>> \in Seq({e}) /\ DOMAIN <<e>> = {1} /\ <<e>>[1] = Head(<<e>>)
        OBVIOUS
    <2> QED
        BY <2>1, <2>2, <2>3 DEF IsSequence
<1>2. AllPosts(sends) = Posts(sends)
    BY <1>1 DEF AllPosts, Posts
<1> QED
    BY <1>1, <1>2 DEF Several

LEMMA Joined ==
    ASSUME NEW S, NEW s \in Seq(S), NEW t \in Seq(S)
    PROVE  /\ s \o t \in Seq(S)
           /\ Len(s) \in Nat /\ Len(t) \in Nat
           /\ DOMAIN s = 1 .. Len(s) /\ DOMAIN t = 1 .. Len(t)
           /\ DOMAIN (s \o t) = 1 .. Len(s) + Len(t)
           /\ \A i \in 1 .. Len(s) : (s \o t)[i] = s[i]
           /\ \A i \in 1 .. Len(s) + Len(t) : i > Len(s) => (s \o t)[i] = t[i - Len(s)]
OBVIOUS

\* What has been in the channels stays in its place, and what comes is behind.
LEMMA AppendedSeveral ==
    ASSUME NEW STATE ch, NEW STATE sends, IsChan(ch), Several(sends), NEW x \in Actor
    PROVE  /\ IsSequence(Appended(ch, sends)[x])
           /\ \A i \in DOMAIN ch[x] :
                 i \in DOMAIN Appended(ch, sends)[x] /\ Appended(ch, sends)[x][i] = ch[x][i]
           /\ \A i \in DOMAIN Appended(ch, sends)[x] :
                 i \notin DOMAIN ch[x] =>
                    /\ <<x, Appended(ch, sends)[x][i]>> \in AllPosts(sends)
                    /\ i \in Nat /\ \A j \in DOMAIN ch[x] : j < i
<1> DEFINE t == Appended(ch, sends)[x]
<1>1. CASE x \notin DOMAIN sends
    <2>1. t = ch[x] /\ IsSequence(ch[x])
        BY <1>1 DEF Appended, IsChan
    <2> QED
        BY <2>1
<1>2. CASE x \in DOMAIN sends
    <2> DEFINE c == ch[x]
               g == sends[x]
    <2>1. t = c \o g
        BY <1>2 DEF Appended
    <2>2. PICK S : c \in Seq(S)
        BY DEF IsChan, IsSequence
    <2>3. PICK T : g \in Seq(T)
        BY <1>2 DEF Several, IsSequence
    <2>4. \A i \in DOMAIN g : <<x, g[i]>> \in AllPosts(sends)
        BY <1>2 DEF AllPosts
    <2> HIDE DEF t, c, g
    <2>5. c \in Seq(S \cup T) /\ g \in Seq(S \cup T)
        BY <2>2, <2>3
    <2>6. /\ t \in Seq(S \cup T)
          /\ Len(c) \in Nat /\ Len(g) \in Nat
          /\ DOMAIN c = 1 .. Len(c) /\ DOMAIN g = 1 .. Len(g)
          /\ DOMAIN t = 1 .. Len(c) + Len(g)
          /\ \A i \in 1 .. Len(c) : t[i] = c[i]
          /\ \A i \in 1 .. Len(c) + Len(g) : i > Len(c) => t[i] = g[i - Len(c)]
        BY <2>1, <2>5, Joined
    <2>7. IsSequence(t)
        BY <2>6 DEF IsSequence
    <2>8. \A i \in DOMAIN c : i \in DOMAIN t /\ t[i] = c[i]
        BY <2>6
    <2>9. ASSUME NEW i \in DOMAIN t, i \notin DOMAIN c
          PROVE  <<x, t[i]>> \in AllPosts(sends) /\ i \in Nat /\ \A j \in DOMAIN c : j < i
        <3>1. i \in Nat /\ i > Len(c) /\ i - Len(c) \in DOMAIN g /\ \A j \in DOMAIN c : j < i
            BY <2>6, <2>9
        <3>2. t[i] = g[i - Len(c)]
            BY <2>6, <2>9, <3>1
        <3> QED
            BY <2>4, <3>1, <3>2
    <2> QED
        BY <2>7, <2>8, <2>9 DEF t, c
<1> QED
    BY <1>1, <1>2

LEMMA AppendedIsChan ==
    ASSUME NEW STATE ch, NEW STATE sends, IsChan(ch), Several(sends)
    PROVE  IsChan(Appended(ch, sends))
<1>1. DOMAIN Appended(ch, sends) = Actor
    BY DEF Appended
<1> QED
    BY <1>1, AppendedSeveral DEF IsChan

LEMMA PostSeveral ==
    ASSUME NEW STATE ch, NEW STATE sends, NEW STATE K, IsChan(ch), Several(sends),
           AllPosts(sends) \cap K = {}
    PROVE  /\ Waits(Appended(ch, sends), K) <=> Waits(ch, K)
           /\ WaitsOnce(ch, K) => WaitsOnce(Appended(ch, sends), K)
<1> DEFINE t == Appended(ch, sends)
<1>1. \A x \in Actor : \A i \in DOMAIN ch[x] : i \in DOMAIN t[x] /\ t[x][i] = ch[x][i]
    BY AppendedSeveral
<1>2. \A x \in Actor : \A i \in DOMAIN t[x] :
         <<x, t[x][i]>> \in K => i \in DOMAIN ch[x] /\ ch[x][i] = t[x][i]
    <2> SUFFICES ASSUME NEW x \in Actor, NEW i \in DOMAIN t[x], <<x, t[x][i]>> \in K
                 PROVE  i \in DOMAIN ch[x] /\ ch[x][i] = t[x][i]
        OBVIOUS
    <2>1. <<x, t[x][i]>> \notin AllPosts(sends)
        OBVIOUS
    <2>2. i \in DOMAIN ch[x]
        BY <2>1, AppendedSeveral
    <2> QED
        BY <1>1, <2>2
<1> HIDE DEF t
<1>3. Waits(t, K) <=> Waits(ch, K)
    BY <1>1, <1>2 DEF Waits
<1>4. WaitsOnce(ch, K) => WaitsOnce(t, K)
    BY <1>2, WaitsOnceIsInherited
<1> QED
    BY <1>3, <1>4 DEF t

\* As Passes, of the kinds of messages that are not sent.
Brings(in, out) ==
    /\ \A K : AtMostOne(chan, spawned, K) /\ out \cap K = {} =>
          /\ AtMostOne(chan', spawned', K)
          /\ in \cap K = {} => (Free(chan', spawned', K) <=> Free(chan, spawned, K))
          /\ in \cap K # {} => Free(chan', spawned', K) /\ ~Free(chan, spawned, K)
    /\ \A G : Mail(chan, spawned, G) /\ out \subseteq G =>
          Mail(chan', spawned', G) /\ in \subseteq G

LEMMA PassesBrings ==
    ASSUME NEW in, NEW out, Passes(in, out)
    PROVE  Brings(in, out)
BY DEF Passes, Brings

LEMMA EffectSeveral ==
    ASSUME NEW STATE ch, NEW STATE b, NEW STATE sends, NEW STATE P, NEW STATE K,
           IsChan(ch), IsABag(b), Several(sends), AllPosts(sends) \cap K = {}, P \cap K = {},
           AtMostOne(ch, b, K)
    PROVE  /\ AtMostOne(Appended(ch, sends), b (+) SetToBag(P), K)
           /\ Free(Appended(ch, sends), b (+) SetToBag(P), K) <=> Free(ch, b, K)
<1>1. /\ Waits(Appended(ch, sends), K) <=> Waits(ch, K)
      /\ WaitsOnce(ch, K) => WaitsOnce(Appended(ch, sends), K)
    BY PostSeveral
<1>2. /\ Pends(b (+) SetToBag(P), K) <=> Pends(b, K)
      /\ PendsOnce(b, K) => PendsOnce(b (+) SetToBag(P), K)
    BY SpawnOther
<1> QED
    BY <1>1, <1>2 DEF AtMostOne, Free

LEMMA SendsBrings ==
    ASSUME NEW STATE sends, NEW STATE P, IsChan(chan), IsABag(spawned), Several(sends),
           Sends(sends, P)
    PROVE  Brings({}, AllPosts(sends) \cup P)
<1> DEFINE out == AllPosts(sends) \cup P
<1>0. chan' = Appended(chan, sends) /\ spawned' = spawned (+) SetToBag(P)
    BY DEF Sends, Spawns
<1>1. ASSUME NEW K, AtMostOne(chan, spawned, K), out \cap K = {}
      PROVE  /\ AtMostOne(chan', spawned', K)
             /\ Free(chan', spawned', K) <=> Free(chan, spawned, K)
    <2>1. AllPosts(sends) \cap K = {} /\ P \cap K = {}
        BY <1>1
    <2> QED
        BY <1>0, <1>1, <2>1, EffectSeveral
<1>2. IsChan(chan') /\ IsABag(spawned')
    BY <1>0, AppendedIsChan, SpawnedBag
<1>3. ASSUME NEW G, Mail(chan, spawned, G), out \subseteq G PROVE Mail(chan', spawned', G)
    <2>1. ASSUME NEW m, m \notin G PROVE Free(chan', spawned', {m})
        <3>1. Free(chan, spawned, {m}) /\ AtMostOne(chan, spawned, {m})
            BY <1>3, <2>1, MailIsGood, FreeIsAtMostOne
        <3>2. out \cap {m} = {}
            BY <1>3, <2>1
        <3> HIDE DEF out
        <3> QED
            BY <1>1, <3>1, <3>2
    <2> QED
        BY <1>2, <2>1, MailIsGood
<1> HIDE DEF out
<1>4. Brings({}, out)
    <2>1. \A K : {} \cap K = {}
        OBVIOUS
    <2> QED
        BY <1>1, <1>3, <2>1 DEF Brings
<1> QED
    BY <1>4 DEF out

LEMMA HandlesBrings ==
    ASSUME NEW STATE a, a \in Actor, NEW STATE sends, NEW STATE P,
           IsChan(chan), IsABag(spawned), chan[a] # <<>>, Several(sends), Handles(a, sends, P)
    PROVE  Brings({<<a, Head(chan[a])>>}, AllPosts(sends) \cup P)
<1> DEFINE h == <<a, Head(chan[a])>>
           out == AllPosts(sends) \cup P
           t == Taken(chan, a)
<1>0. chan' = Appended(t, sends) /\ spawned' = spawned (+) SetToBag(P)
    BY DEF Handles, Spawns, Taken
<1>2. IsChan(t) /\ 1 \in DOMAIN chan[a] /\ Head(chan[a]) = chan[a][1]
    BY TakenChannel
<1>3. \A K : AtMostOne(chan, spawned, K) =>
         /\ h \notin K => AtMostOne(t, spawned, K) /\ (Free(t, spawned, K) <=> Free(chan, spawned, K))
         /\ h \in K => Free(t, spawned, K) /\ ~Free(chan, spawned, K)
    BY TakeEffect
<1>4. \A G : Mail(chan, spawned, G) => h \in G
    BY <1>2 DEF Mail
<1> HIDE DEF t, h
<1>1. ASSUME NEW K, AtMostOne(chan, spawned, K), out \cap K = {}
      PROVE  /\ AtMostOne(chan', spawned', K)
             /\ h \notin K => (Free(chan', spawned', K) <=> Free(chan, spawned, K))
             /\ h \in K => Free(chan', spawned', K) /\ ~Free(chan, spawned, K)
    <2>1. AllPosts(sends) \cap K = {} /\ P \cap K = {}
        BY <1>1
    <2>2. AtMostOne(t, spawned, K)
        BY <1>1, <1>3, FreeIsAtMostOne
    <2>3. /\ AtMostOne(Appended(t, sends), spawned (+) SetToBag(P), K)
          /\ Free(Appended(t, sends), spawned (+) SetToBag(P), K) <=> Free(t, spawned, K)
        BY <1>2, <2>1, <2>2, EffectSeveral
    <2> QED
        BY <1>0, <1>1, <1>3, <2>3
<1>5. IsChan(chan') /\ IsABag(spawned')
    BY <1>0, <1>2, AppendedIsChan, SpawnedBag
<1>6. ASSUME NEW G, Mail(chan, spawned, G), out \subseteq G PROVE Mail(chan', spawned', G)
    <2>1. ASSUME NEW m, m \notin G PROVE Free(chan', spawned', {m})
        <3>1. Free(chan, spawned, {m}) /\ AtMostOne(chan, spawned, {m})
            BY <1>6, <2>1, MailIsGood, FreeIsAtMostOne
        <3>2. out \cap {m} = {} /\ h \notin {m}
            BY <1>4, <1>6, <2>1
        <3> HIDE DEF out
        <3> QED
            BY <1>1, <3>1, <3>2
    <2> QED
        BY <1>5, <2>1, MailIsGood
<1> HIDE DEF out
<1>7. Brings({h}, out)
    <2>1. \A K : ({h} \cap K = {} <=> h \notin K)
        OBVIOUS
    <2> QED
        BY <1>1, <1>4, <1>6, <2>1 DEF Brings
<1> QED
    BY <1>7 DEF out, h
=============================================================================
