----------------------------- MODULE MinersProofs -----------------------------
(***************************************************************************)
(* The managers' books, for any number of miners, managers, slots and pool *)
(* sessions: as long as no pool session breaks, minerNum is exact.         *)
(*                                                                         *)
(* A miner changes the books four times: the manager counts it, the session *)
(* takes it into its map, the session hears that it has left, and the      *)
(* manager hears that from the session.  BooksInv says where a miner can be *)
(* between these steps; it is inductive together with Surroundings, what   *)
(* AgentProofs has shown of the agent.                                     *)
(***************************************************************************)
EXTENDS AgentProofs

-----------------------------------------------------------------------------
(* The managers' books, as long as no pool session breaks.                 *)

\* The pool breaks no connection.
Reliable == Breakable = {}

\* The messages by which d comes to be with the pool session u, and those that
\* say that d has left.
Joining(u, d) == {<<u, EventAddDownSession(d)>>, <<d, EventSetUpSession(u)>>}
Leaving(d) == {<<p, EventDownSessionBroken(sessionID[d])>> : p \in PoolSession}

\* The miners that the manager counts for u.
Belongs(u) == {d \in Miner : d \in Served(u) \/ ~Free(chan, spawned, Joining(u, d))}
Load(u) == Cardinality(Belongs(u)) + disconnected[u]

\* What the reports on their way to m say of slot s: a member for each miner of
\* each of them.
Reports(m, s) ==
    {x \in Nat \X Nat \X Nat : /\ x[2] \in 1 .. InFlight(m, EventUpdateMinerNum(s, x[1]))
                               /\ x[3] \in 1 .. x[1]}
Due(m, s) == minerNum[m][s] - Cardinality(Reports(m, s))

\* No session breaks, sessions that are spoken of exist, and a miner that is
\* said to have left has left the session that it is said to.
Tidy ==
    {x \in Actor \X Event :
        /\ x[2].type = "ConnBroken" => x[1] \in Miner
        /\ x[2].type # "UpSessionBroken"
        /\ x[2].type = "AddDownSession" /\ x[1] \in Up => upMgr[x[1]] # None
        /\ x[2].type = "SetUpSession" /\ x[2].session \in Up => upMgr[x[2].session] # None
        /\ x[2].type = "DownSessionBroken" =>
              \A d \in Known : sessionID[d] = x[2].sessionID => d \in Closed /\ upSession[d] = x[1]
        /\ x[2].type = "UpSessionReady" =>
              upMgr[x[2].session] # None /\ upSlot[x[2].session] = x[2].slot}

\* The sessions of a manager that runs run, and those that have not started
\* have nothing to report.
Standing ==
    /\ \A m \in Mgr, s \in Slot : slotSession[m][s] # None => upSlot[slotSession[m][s]] = s
    /\ \A u \in Up : upMgr[u] \in mgrLoop => UpLoop(u)
    /\ \A u \in Up : upStat[u] = "none" => disconnected[u] = 0
    /\ \A d \in Miner : upSession[d] \in Up => upMgr[upSession[d]] # None
    /\ \A d \in Miner : Fresh(d) => upSession[d] = None

\* A miner joins its session before the session hears that it has left.
Ordered(d) ==
    \A u \in Up :
       /\ <<u, EventAddDownSession(d)>> \notin DOMAIN spawned
       /\ Ahead(chan[u], EventAddDownSession(d), EventDownSessionBroken(sessionID[d]))

\* The session of a miner that has not left, or of which the session has not
\* heard, serves it or is about to.
Expected(d, u) ==
    UpLoop(u) /\ upSession[d] = u /\ (d \notin Closed \/ ~Free(chan, spawned, Leaving(d)))
       => d \in Served(u) \/ ~Free(chan, spawned, {<<u, EventAddDownSession(d)>>})

Fate(d) ==
    /\ AtMostOne(chan, spawned, Leaving(d))
    /\ Ordered(d)
    /\ \A u \in Up : Expected(d, u)

\* The manager has started and not exited, or will start.
Minded(m) == m \in mgrLoop \/ mgrAccount[m] = None

Books(m, s) ==
    /\ \A u \in SessionsOf(m, s) : Due(m, s) = Load(u)
    /\ SessionsOf(m, s) = {} => Due(m, s) = 0

Fates == \A d \in Known : Fate(d)
Ledger ==
    \A m \in Mgr, s \in Slot :
       /\ IsFiniteSet(Reports(m, s))
       /\ Minded(m) => Books(m, s)

BooksInv ==
    /\ Mail(chan, spawned, Tidy)
    /\ Standing
    /\ Fates
    /\ Ledger

\* What is known of the agent besides.
Surroundings == IsFiniteSet(Miner) /\ Reliable /\ CustodyInv /\ SlotsInv /\ IdsDiffer

-----------------------------------------------------------------------------
(* Steps that leave a miner, a session or a slot alone.                    *)

\* The messages that the books depend on.
KeyEvents ==
    {x \in Actor \X Event :
        \/ x[2].type = "AddDownSession" /\ x[1] \in Up
        \/ x[2].type = "SetUpSession" /\ x[2].session \in Up
        \/ x[2].type \in {"DownSessionBroken", "UpdateMinerNum"}}

\* Others, which break nothing and announce no session.
Ordinary ==
    {x \in (Actor \X Event) \ KeyEvents :
        /\ x[2].type = "ConnBroken" => x[1] \in Miner
        /\ x[2].type \notin {"UpSessionBroken", "UpSessionReady"}}

LEMMA OrdinaryIs ==
    /\ \A a \in Actor, e \in Event :
          /\ e.type = "AddDownSession" => a \notin Up
          /\ e.type = "SetUpSession" => e.session \notin Up
          /\ e.type = "ConnBroken" => a \in Miner
          /\ e.type \notin {"DownSessionBroken", "UpdateMinerNum", "UpSessionBroken", "UpSessionReady"}
          => <<a, e>> \in Ordinary
    /\ Ordinary \cap KeyEvents = {}
    /\ Ordinary \subseteq Tidy /\ Ordinary \subseteq Tidy'
BY DEF Ordinary, KeyEvents, Tidy

\* A part that takes an event that is none of them.
LEMMA NoKey ==
    ASSUME NEW a, NEW e, e.type \notin {"DownSessionBroken", "UpdateMinerNum"},
           e.type = "AddDownSession" => a \notin Up,
           e.type = "SetUpSession" => e.session \notin Up
    PROVE  {<<a, e>>} \cap KeyEvents = {}
BY DEF KeyEvents

LEMMA KeysAre ==
    /\ \A u \in Up, c \in Miner : Joining(u, c) \subseteq KeyEvents /\ Joining(u, c) \subseteq Carriers(c)
    /\ \A c \in Known : Leaving(c) \subseteq KeyEvents
    /\ \A m \in Mgr, s \in Slot, n \in Nat : <<m, EventUpdateMinerNum(s, n)>> \in KeyEvents
<1>1. ASSUME NEW u \in Up, NEW c \in Miner
      PROVE  Joining(u, c) \subseteq KeyEvents /\ Joining(u, c) \subseteq Carriers(c)
    <2>1. u \in Actor /\ c \in Actor /\ u \in PoolSession
        BY Actors
    <2>2. EventAddDownSession(c) \in Event /\ EventAddDownSession(c).type = "AddDownSession"
        BY SessionEvents
    <2>3. /\ EventSetUpSession(u) \in Event /\ EventSetUpSession(u).type = "SetUpSession"
          /\ EventSetUpSession(u).session = u
        BY <2>1, SessionEvents DEF EventSetUpSession
    <2>4. <<u, EventAddDownSession(c)>> \in KeyEvents /\ <<c, EventSetUpSession(u)>> \in KeyEvents
        BY <2>1, <2>2, <2>3 DEF KeyEvents
    <2>5. <<u, EventAddDownSession(c)>> \in Carriers(c) /\ <<c, EventSetUpSession(u)>> \in Carriers(c)
        BY <2>1, <2>2, <2>3, CarrierIs
    <2> QED
        BY <2>4, <2>5 DEF Joining
<1>2. ASSUME NEW c \in Known, NEW p \in PoolSession
      PROVE  <<p, EventDownSessionBroken(sessionID[c])>> \in KeyEvents
    <2>1. sessionID[c] \in Nat /\ p \in Actor
        BY Actors, IdAssumption DEF Known, SessionIds
    <2>2. /\ EventDownSessionBroken(sessionID[c]) \in Event
          /\ EventDownSessionBroken(sessionID[c]).type = "DownSessionBroken"
        BY <2>1, SessionEvents
    <2> QED
        BY <2>1, <2>2 DEF KeyEvents
<1>3. ASSUME NEW m \in Mgr, NEW s \in Slot, NEW n \in Nat
      PROVE  <<m, EventUpdateMinerNum(s, n)>> \in KeyEvents
    <2>1. m \in Actor /\ EventUpdateMinerNum(s, n) \in Event /\ EventUpdateMinerNum(s, n).type = "UpdateMinerNum"
        BY Actors, SlotEvents
    <2> QED
        BY <2>1 DEF KeyEvents
<1> QED
    BY <1>1, <1>2, <1>3 DEF Leaving

\* Messages of kind K are neither taken nor sent.
LEMMA KindStays ==
    ASSUME NEW K, AtMostOne(chan, spawned, K), NEW ACTION in, NEW ACTION out, Passes(in, out),
           in \cap K = {}, out \cap K = {}
    PROVE  /\ AtMostOne(chan', spawned', K)
           /\ Free(chan', spawned', K) <=> Free(chan, spawned, K)
BY DEF Passes

LEMMA JoiningOnce ==
    ASSUME NEW c \in Miner, Custody(c), NEW u \in Up
    PROVE  /\ AtMostOne(chan, spawned, Joining(u, c))
           /\ AtMostOne(chan, spawned, {<<u, EventAddDownSession(c)>>})
<1>1. Joining(u, c) \subseteq Carriers(c) /\ {<<u, EventAddDownSession(c)>>} \subseteq Carriers(c)
    BY KeysAre DEF Joining
<1>2. AtMostOne(chan, spawned, Carriers(c))
    BY DEF Custody
<1> QED
    BY <1>1, <1>2, KindWithin

\* c comes to be with u or leaves it by such messages only.
LEMMA BelongsStays ==
    ASSUME NEW u \in Up, NEW c \in Miner, Custody(c), NEW ACTION in, NEW ACTION out, Passes(in, out),
           in \cap Joining(u, c) = {}, out \cap Joining(u, c) = {},
           c \in Served(u)' <=> c \in Served(u)
    PROVE  c \in Belongs(u)' <=> c \in Belongs(u)
<1>1. AtMostOne(chan, spawned, Joining(u, c))
    BY JoiningOnce
<1>2. Free(chan', spawned', Joining(u, c)) <=> Free(chan, spawned, Joining(u, c))
    BY <1>1, KindStays
<1> QED
    BY <1>2 DEF Belongs, Joining

LEMMA LoadStays ==
    ASSUME NEW u \in Up, \A c \in Miner : Custody(c), NEW ACTION in, NEW ACTION out, Passes(in, out),
           \A c \in Miner : in \cap Joining(u, c) = {} /\ out \cap Joining(u, c) = {},
           Served(u)' = Served(u), disconnected'[u] = disconnected[u]
    PROVE  Load(u)' = Load(u)
<1>1. \A c \in Miner : c \in Belongs(u)' <=> c \in Belongs(u)
    BY BelongsStays
<1>2. Belongs(u)' = Belongs(u)
    BY <1>1 DEF Belongs
<1> QED
    BY <1>2 DEF Load

\* The messages that c's fate depends on.
FateKinds(c) == Leaving(c) \cup {<<u, EventAddDownSession(c)>> : u \in Up}

LEMMA OrderedStays ==
    ASSUME NEW c, Ordered(c), sessionID'[c] = sessionID[c],
           NEW ACTION in, NEW ACTION out, Passes(in, out),
           \A u \in Up : <<u, EventAddDownSession(c)>> \notin out
    PROVE  Ordered(c)'
<1> SUFFICES ASSUME NEW u \in Up
             PROVE  /\ <<u, EventAddDownSession(c)>> \notin DOMAIN spawned'
                    /\ Ahead(chan'[u], EventAddDownSession(c), EventDownSessionBroken(sessionID[c]))
    BY DEF Ordered
<1>1. KeepsOrder(out)
    BY DEF Passes, Accounts
<1>2. u \in Actor
    BY Actors
<1>3. /\ <<u, EventAddDownSession(c)>> \notin DOMAIN spawned
      /\ Ahead(chan[u], EventAddDownSession(c), EventDownSessionBroken(sessionID[c]))
    BY DEF Ordered
<1> QED
    BY <1>1, <1>2, <1>3 DEF KeepsOrder

\* c still is, or is about to be, with the session that expects it.
LEMMA ExpectedStays ==
    ASSUME NEW c \in Known, KnownKept, NEW u \in Up, Custody(c), Expected(c, u),
           NEW ACTION in, NEW ACTION out, Passes(in, out),
           Free(chan, spawned, Leaving(c)) /\ c \in Closed => Free(chan', spawned', Leaving(c)),
           <<u, EventAddDownSession(c)>> \notin in, <<u, EventAddDownSession(c)>> \notin out,
           UpLoop(u)' /\ upSession'[c] = u => UpLoop(u) /\ upSession[c] = u,
           c \in Served(u) => c \in Served(u)'
    PROVE  Expected(c, u)'
<1>1. AtMostOne(chan, spawned, {<<u, EventAddDownSession(c)>>})
    BY JoiningOnce DEF Known
<1>2. Free(chan', spawned', {<<u, EventAddDownSession(c)>>}) <=> Free(chan, spawned, {<<u, EventAddDownSession(c)>>})
    BY <1>1, KindStays
<1>3. Leaving(c)' = Leaving(c) /\ (c \notin Closed' => c \notin Closed)
    BY DEF KnownKept, Leaving
<1> QED
    BY <1>2, <1>3 DEF Expected

LEMMA FateStays ==
    ASSUME NEW c \in Known, KnownKept, Custody(c), Fate(c),
           NEW ACTION in, NEW ACTION out, Passes(in, out),
           in \cap FateKinds(c) = {}, out \cap FateKinds(c) = {},
           \A u \in Up : UpLoop(u)' /\ upSession'[c] = u => UpLoop(u) /\ upSession[c] = u,
           \A u \in Up : c \in Served(u) => c \in Served(u)'
    PROVE  Fate(c)'
<1>1. in \cap Leaving(c) = {} /\ out \cap Leaving(c) = {}
    BY DEF FateKinds
<1>2. ASSUME NEW u \in Up
      PROVE  <<u, EventAddDownSession(c)>> \notin in /\ <<u, EventAddDownSession(c)>> \notin out
    <2>1. <<u, EventAddDownSession(c)>> \in FateKinds(c)
        BY DEF FateKinds
    <2> QED
        BY <2>1
<1>3. AtMostOne(chan, spawned, Leaving(c)) /\ Ordered(c) /\ \A u \in Up : Expected(c, u)
    BY DEF Fate
<1>4. AtMostOne(chan', spawned', Leaving(c)) /\ (Free(chan', spawned', Leaving(c)) <=> Free(chan, spawned, Leaving(c)))
    BY <1>1, <1>3, KindStays
<1>5. Leaving(c)' = Leaving(c) /\ sessionID'[c] = sessionID[c]
    BY DEF KnownKept, Leaving
<1>6. Ordered(c)'
    BY <1>2, <1>3, <1>5, OrderedStays
<1>7. ASSUME NEW u \in Up PROVE Expected(c, u)'
    BY <1>2, <1>3, <1>4, ExpectedStays
<1> QED
    BY <1>4, <1>5, <1>6, <1>7 DEF Fate

LEMMA FateKindsAre ==
    ASSUME NEW c \in Known
    PROVE  FateKinds(c) \subseteq KeyEvents
<1>1. \A u \in Up : <<u, EventAddDownSession(c)>> \in KeyEvents
    BY KeysAre DEF Joining, Known
<1> QED
    BY <1>1, KeysAre DEF FateKinds

-----------------------------------------------------------------------------
(* The numbers that are reported.                                          *)

LEMMA ReportsStay ==
    ASSUME NEW m \in Mgr, NEW s, NEW ACTION in, NEW ACTION out, Passes(in, out),
           \A n \in Nat : <<m, EventUpdateMinerNum(s, n)>> \in in <=> <<m, EventUpdateMinerNum(s, n)>> \in out
    PROVE  Reports(m, s)' = Reports(m, s)
<1>1. Tallies(in, out) /\ m \in Actor
    BY Actors DEF Passes, Accounts
<1>2. \A n \in Nat : InFlight(m, EventUpdateMinerNum(s, n))' = InFlight(m, EventUpdateMinerNum(s, n))
    BY <1>1 DEF Tallies
<1> QED
    BY <1>2 DEF Reports

\* The members for the k-th report of n.
Block(n, k) == {x \in Nat \X Nat \X Nat : x[1] = n /\ x[2] = k /\ x[3] \in 1 .. n}

LEMMA BlockCounts ==
    ASSUME NEW n \in Nat, NEW k \in Nat
    PROVE  IsFiniteSet(Block(n, k)) /\ Cardinality(Block(n, k)) = n
<1> DEFINE f == [i \in 1 .. n |-> <<n, k, i>>]
<1>1. f \in Bijection(1 .. n, Block(n, k))
    <2>1. f \in [1 .. n -> Block(n, k)]
        BY DEF Block
    <2>2. ASSUME NEW i \in 1 .. n, NEW j \in 1 .. n, f[i] = f[j] PROVE i = j
        BY <2>2
    <2>3. ASSUME NEW x \in Block(n, k) PROVE \E i \in 1 .. n : f[i] = x
        <3>1. x[3] \in 1 .. n /\ x = <<n, k, x[3]>>
            BY DEF Block
        <3> QED
            BY <3>1
    <2> QED
        BY <2>1, <2>2, <2>3 DEF Bijection, Injection, Surjection, IsInjective
<1>2. IsFiniteSet(1 .. n) /\ Cardinality(1 .. n) = n
    BY FS_Interval
<1>3. ExistsBijection(1 .. n, Block(n, k))
    BY <1>1 DEF ExistsBijection
<1> QED
    BY <1>2, <1>3, FS_Bijection

LEMMA NextInFlight ==
    ASSUME NEW a \in Actor, NEW e, MailInv'
    PROVE  InFlight(a, e)' \in Nat
<1>1. IsChan(chan') /\ IsABag(spawned')
    BY DEF MailInv, Mail
<1>2. InFlight(a, e)' = Count(chan'[a], e) + Copies(spawned', <<a, e>>)
    BY InFlightCounts
<1>3. Count(chan'[a], e) \in Nat
    BY <1>1, FinitelyMany DEF IsChan
<1>4. Copies(spawned', <<a, e>>) \in Nat
    BY <1>1 DEF IsABag, Copies
<1> QED
    BY <1>2, <1>3, <1>4

LEMMA ReportsAre ==
    ASSUME NEW m, NEW s, NEW x
    PROVE  /\ x \in Reports(m, s) <=> /\ x \in Nat \X Nat \X Nat
                                      /\ x[2] \in 1 .. InFlight(m, EventUpdateMinerNum(s, x[1]))
                                      /\ x[3] \in 1 .. x[1]
           /\ x \in Reports(m, s)' <=> /\ x \in Nat \X Nat \X Nat
                                       /\ x[2] \in 1 .. InFlight(m, EventUpdateMinerNum(s, x[1]))'
                                       /\ x[3] \in 1 .. x[1]
BY DEF Reports

\* n is reported.
LEMMA ReportsSent ==
    ASSUME NEW m \in Mgr, NEW s, MailInv, IsFiniteSet(Reports(m, s)), NEW n \in Nat,
           NEW ACTION in, NEW ACTION out, Passes(in, out),
           \A i \in Nat : <<m, EventUpdateMinerNum(s, i)>> \notin in,
           \A i \in Nat : <<m, EventUpdateMinerNum(s, i)>> \in out <=> i = n
    PROVE  /\ IsFiniteSet(Reports(m, s)')
           /\ Cardinality(Reports(m, s)') = Cardinality(Reports(m, s)) + n
<1> DEFINE old(i) == InFlight(m, EventUpdateMinerNum(s, i))
           k == old(n) + 1
<1>1. Tallies(in, out) /\ m \in Actor /\ IsChan(chan) /\ IsABag(spawned)
    BY Actors DEF Passes, Accounts, MailInv, Mail
<1>2. \A i \in Nat : old(i) \in Nat
    BY <1>1, InFlightIsNat
<1>3. \A i \in Nat : InFlight(m, EventUpdateMinerNum(s, i))' = IF i = n THEN old(i) + 1 ELSE old(i)
    BY <1>1 DEF Tallies
<1>4. Reports(m, s)' = Reports(m, s) \cup Block(n, k)
    <2>1. ASSUME NEW x PROVE x \in Reports(m, s)' <=> x \in Reports(m, s) \/ x \in Block(n, k)
        <3>1. CASE x \in Nat \X Nat \X Nat /\ x[1] = n
            <4>1. InFlight(m, EventUpdateMinerNum(s, x[1]))' = old(n) + 1 /\ old(n) \in Nat /\ x[2] \in Nat
                BY <1>2, <1>3, <3>1
            <4>2. x[2] \in 1 .. old(n) + 1 <=> x[2] \in 1 .. old(n) \/ x[2] = k
                BY <4>1
            <4>3. x \in Reports(m, s)' <=> x[2] \in 1 .. old(n) + 1 /\ x[3] \in 1 .. n
                BY <3>1, <4>1, ReportsAre
            <4>4. x \in Reports(m, s) <=> x[2] \in 1 .. old(n) /\ x[3] \in 1 .. n
                BY <3>1, ReportsAre
            <4>5. x \in Block(n, k) <=> x[2] = k /\ x[3] \in 1 .. n
                BY <3>1 DEF Block
            <4> QED
                BY <4>2, <4>3, <4>4, <4>5
        <3>2. CASE x \in Nat \X Nat \X Nat /\ x[1] # n
            <4>1. InFlight(m, EventUpdateMinerNum(s, x[1]))' = InFlight(m, EventUpdateMinerNum(s, x[1]))
                BY <1>3, <3>2
            <4>2. x \notin Block(n, k)
                BY <3>2 DEF Block
            <4> QED
                BY <4>1, <4>2, ReportsAre
        <3>3. CASE x \notin Nat \X Nat \X Nat
            BY <3>3, ReportsAre DEF Block
        <3> QED
            BY <3>1, <3>2, <3>3
    <2> QED
        BY <2>1
<1>5. Reports(m, s) \cap Block(n, k) = {}
    <2> SUFFICES ASSUME NEW x \in Reports(m, s), x \in Block(n, k) PROVE FALSE
        OBVIOUS
    <2>1. x[2] \in 1 .. old(n) /\ x[2] = old(n) + 1
        BY ReportsAre DEF Block
    <2> QED
        BY <1>2, <2>1
<1>6. k \in Nat
    BY <1>2
<1> HIDE DEF k
<1>7. IsFiniteSet(Block(n, k)) /\ Cardinality(Block(n, k)) = n
    BY <1>6, BlockCounts
<1> DEFINE R == Reports(m, s)
           B == Block(n, k)
<1>8. IsFiniteSet(R) /\ IsFiniteSet(B) /\ Cardinality(B) = n /\ R \cap B = {}
    BY <1>5, <1>7
<1>9. Cardinality(R) \in Nat
    BY <1>8, FS_CardinalityType
<1> HIDE DEF R, B
<1>10. IsFiniteSet(R \cup B) /\ Cardinality(R \cup B) = Cardinality(R) + n
    <2>1. IsFiniteSet(R \cup B) /\ Cardinality(R \cup B) = Cardinality(R) + Cardinality(B) - Cardinality(R \cap B)
        BY <1>8, FS_Union
    <2>2. Cardinality(R \cap B) = 0
        BY <1>8, FS_EmptySet
    <2> QED
        BY <1>8, <1>9, <2>1, <2>2
<1> QED
    BY <1>4, <1>10, Zenon DEF R, B

\* A report of n is taken.
LEMMA ReportsTaken ==
    ASSUME NEW m \in Mgr, NEW s, MailInv, MailInv', IsFiniteSet(Reports(m, s)), NEW n \in Nat,
           NEW ACTION in, NEW ACTION out, Passes(in, out),
           \A i \in Nat : <<m, EventUpdateMinerNum(s, i)>> \in in <=> i = n,
           \A i \in Nat : <<m, EventUpdateMinerNum(s, i)>> \notin out
    PROVE  /\ IsFiniteSet(Reports(m, s)')
           /\ Cardinality(Reports(m, s)') = Cardinality(Reports(m, s)) - n
<1> DEFINE old(i) == InFlight(m, EventUpdateMinerNum(s, i))
           k == old(n)
<1>1. Tallies(in, out) /\ m \in Actor /\ IsChan(chan) /\ IsABag(spawned)
    BY Actors DEF Passes, Accounts, MailInv, Mail
<1>2. \A i \in Nat : old(i) \in Nat
    BY <1>1, InFlightIsNat
<1>3. \A i \in Nat : InFlight(m, EventUpdateMinerNum(s, i))' = IF i = n THEN old(i) - 1 ELSE old(i)
    BY <1>1 DEF Tallies
<1>4. k \in Nat /\ k > 0
    <2>1. InFlight(m, EventUpdateMinerNum(s, n))' \in Nat
        BY <1>1, NextInFlight
    <2>2. InFlight(m, EventUpdateMinerNum(s, n))' = k - 1 /\ k \in Nat
        BY <1>2, <1>3
    <2> HIDE DEF k
    <2> QED
        BY <2>1, <2>2
<1>5. Reports(m, s)' = Reports(m, s) \ Block(n, k)
    <2>1. ASSUME NEW x PROVE x \in Reports(m, s)' <=> x \in Reports(m, s) /\ x \notin Block(n, k)
        <3>1. CASE x \in Nat \X Nat \X Nat /\ x[1] = n
            <4>1. InFlight(m, EventUpdateMinerNum(s, x[1]))' = old(n) - 1 /\ old(n) \in Nat /\ x[2] \in Nat
                BY <1>2, <1>3, <3>1
            <4>2. x[2] \in 1 .. old(n) - 1 <=> x[2] \in 1 .. old(n) /\ x[2] # k
                BY <1>4, <4>1
            <4>3. x \in Reports(m, s)' <=> x[2] \in 1 .. old(n) - 1 /\ x[3] \in 1 .. n
                BY <3>1, <4>1, ReportsAre
            <4>4. x \in Reports(m, s) <=> x[2] \in 1 .. old(n) /\ x[3] \in 1 .. n
                BY <3>1, ReportsAre
            <4>5. x \in Block(n, k) <=> x[2] = k /\ x[3] \in 1 .. n
                BY <3>1 DEF Block
            <4> QED
                BY <4>2, <4>3, <4>4, <4>5
        <3>2. CASE x \in Nat \X Nat \X Nat /\ x[1] # n
            <4>1. InFlight(m, EventUpdateMinerNum(s, x[1]))' = InFlight(m, EventUpdateMinerNum(s, x[1]))
                BY <1>3, <3>2
            <4>2. x \notin Block(n, k)
                BY <3>2 DEF Block
            <4> QED
                BY <4>1, <4>2, ReportsAre
        <3>3. CASE x \notin Nat \X Nat \X Nat
            BY <3>3, ReportsAre DEF Block
        <3> QED
            BY <3>1, <3>2, <3>3
    <2> QED
        BY <2>1
<1>6. Block(n, k) \subseteq Reports(m, s)
    <2> SUFFICES ASSUME NEW x \in Block(n, k) PROVE x \in Reports(m, s)
        OBVIOUS
    <2>1. x \in Nat \X Nat \X Nat /\ x[1] = n /\ x[2] = old(n) /\ x[3] \in 1 .. n
        BY DEF Block
    <2>2. x[2] \in 1 .. old(n)
        BY <1>4, <2>1
    <2> QED
        BY <2>1, <2>2, ReportsAre
<1>7. Reports(m, s) \cap Block(n, k) = Block(n, k)
    BY <1>6
<1> HIDE DEF k
<1>8. IsFiniteSet(Block(n, k)) /\ Cardinality(Block(n, k)) = n
    BY <1>4, BlockCounts
<1> DEFINE R == Reports(m, s)
           B == Block(n, k)
<1>9. IsFiniteSet(R) /\ Cardinality(B) = n /\ R \cap B = B
    BY <1>7, <1>8
<1> HIDE DEF R, B
<1>10. IsFiniteSet(R \ B) /\ Cardinality(R \ B) = Cardinality(R) - n
    BY <1>9, FS_Difference
<1> QED
    BY <1>5, <1>10, Zenon DEF R, B

-----------------------------------------------------------------------------
(* What lasts.                                                             *)

LEMMA FirstIsTidy ==
    ASSUME Mail(chan, spawned, Tidy), NEW a \in Actor, chan[a] # <<>>
    PROVE  <<a, Head(chan[a])>> \in Tidy
<1>1. IsChan(chan)
    BY DEF Mail
<1>2. 1 \in DOMAIN chan[a] /\ Head(chan[a]) = chan[a][1]
    BY <1>1, TakenChannel
<1> QED
    BY <1>2 DEF Mail

\* How a handler of a pool session ends, as no session breaks.
LEMMA UpOutcomes ==
    ASSUME Reliable, TypeInv, Mail(chan, spawned, Tidy), NEW u \in Up, UpHandles(u, sessionID)
    PROVE  /\ UpLoop(u)
           /\ \/ UpExit(u)
              \/ UpSendUpdateMinerNum(u)
              \/ UpAddDownSession(u, sessionID) /\ UNCHANGED upVars
              \/ UpDownSessionBroken(u) /\ UNCHANGED upVars
<1>1. ASSUME UpConnBroken(u) PROVE FALSE
    <2>1. chan[u] # <<>> /\ Head(chan[u]).type = "ConnBroken" /\ u \in Actor /\ u \notin Miner
        BY <1>1, Actors, ActorAssumption DEF UpConnBroken, Receives
    <2> QED
        BY <2>1, FirstIsTidy DEF Tidy
<1>2. UpAddDownSession(u, sessionID) => UNCHANGED upVars
    BY DEF UpAddDownSession, Reliable
<1>3. UpDownSessionBroken(u) => UNCHANGED upVars
    BY DEF UpDownSessionBroken, Reliable
<1>4. UpLoop(u)
    BY DEF UpHandles, UpConnBroken, UpExit, UpAddDownSession, UpDownSessionBroken, UpSendUpdateMinerNum
<1> QED
    BY <1>1, <1>2, <1>3, <1>4 DEF UpHandles

\* A session that exits was told so by a manager that has exited.
LEMMA ExitingHasNoManager ==
    ASSUME OwnerInv, TypeInv, NEW u \in Up, UpExit(u)
    PROVE  /\ UNCHANGED <<upMgr, upSlot, mapVars>> /\ upMgr[u] \in Mgr \ mgrLoop
           /\ upStat' = [upStat EXCEPT ![u] = "disconnected"]
<1>1. chan[u] # <<>> /\ Head(chan[u]).type = "Exit" /\ u \in Actor /\ IsChan(chan)
    BY Actors DEF UpExit, Receives, TypeInv, MailInv, Mail
<1>2. 1 \in DOMAIN chan[u] /\ Head(chan[u]) = chan[u][1]
    BY <1>1, TakenChannel
<1>3. <<u, Head(chan[u])>> \in SlotMessages
    BY <1>1, <1>2 DEF OwnerInv, Mail
<1> QED
    BY <1>1, <1>3 DEF SlotMessages, UpExit, UpCloses

\* Who changes the sessions' owners, and the miners' sessions.
LEMMA OwnersLast ==
    ASSUME TypeInv, OwnerInv, [Next]_vars
    PROVE  \A u \in Up : upMgr[u] # None => upMgr'[u] = upMgr[u] /\ upSlot'[u] = upSlot[u]
<1>1. ASSUME NEW u \in Up, UpHandles(u, sessionID) PROVE UNCHANGED <<upMgr, upSlot>>
    BY <1>1 DEF UpHandles, UpConnBroken, UpExit, UpAddDownSession, UpDownSessionBroken, UpSendUpdateMinerNum,
                UpCloses, upVars
<1>2. ASSUME NEW m \in Mgr, FakeHandles(m, sessionID) PROVE UNCHANGED <<upMgr, upSlot>>
    BY <1>2 DEF FakeHandles, FakeAddDownSession, FakeDownSessionBroken, FakeSendUpdateMinerNum,
                FakeTransferDownSessions, FakeExit, upVars
<1>3. ASSUME NEW m \in Mgr, Connects(m)
      PROVE  \A u \in Up : upMgr[u] # None => upMgr'[u] = upMgr[u] /\ upSlot'[u] = upSlot[u]
    <2>1. PICK s \in Slot, v \in Up : ConnectSucceeds(m, s, v)
        BY <1>3 DEF Connects
    <2>2. upMgr[v] = None
        BY <2>1 DEF ConnectSucceeds, OwnerInv
    <2> QED
        BY <2>1, <2>2 DEF ConnectSucceeds
<1>4. \/ UNCHANGED <<upMgr, upSlot>>
      \/ \E u \in Up : UpHandles(u, sessionID)
      \/ \E m \in Mgr : FakeHandles(m, sessionID) \/ Connects(m)
    BY DEF Next, Environment, Agents, MinerActs, PoolActs, ConnectRefused, OperatorActs, DownRuns, UpRuns,
           FakeRuns, MgrRuns, SMRuns, SenderRuns, vars, poolVars, upVars, PoolBreaks,
           ConnectFails, SMStop, SMStarts, SMHandles, SMAddDownSession,
           SMStopUpSessionManager, SMExit, MgrHandles, StartsQuietly
<1> QED
    BY <1>1, <1>2, <1>3, <1>4

LEMMA GivenLast ==
    ASSUME [Next]_vars
    PROVE  UNCHANGED upSession \/ \E d \in Miner : SetUpSession(d)
<1>1. ASSUME NEW d \in Miner, MinerStep(d) \/ DownHandles(d)
      PROVE  UNCHANGED upSession \/ SetUpSession(d)
    BY <1>1 DEF MinerStep, DownHandles, RunDownSession, RunDownSessionRefused, Authorize, InitConnBroken,
                LoginAgain, MinerLeaves, ConnBroken, Exit, Close, downVars
<1>2. UNCHANGED upSession \/ \E d \in Miner : MinerStep(d) \/ DownHandles(d)
    BY DEF Next, Environment, Agents, MinerActs, DownRuns, PoolActs, ConnectRefused, OperatorActs, UpRuns,
           FakeRuns, MgrRuns, SMRuns, Connects, SenderRuns, vars, downVars
<1> QED
    BY <1>1, <1>2

\* A miner keeps the session that it had when it closed.
LEMMA ClosedKeepSessions ==
    ASSUME [Next]_vars
    PROVE  \A d \in Closed : upSession'[d] = upSession[d]
<1>1. ASSUME NEW d \in Closed, NEW c \in Miner, SetUpSession(c) PROVE upSession'[d] = upSession[d]
    BY <1>1 DEF SetUpSession, RunLoop, Closed
<1> QED
    BY <1>1, GivenLast

\* What is in order stays so.
LEMMA TidyKept ==
    ASSUME TypeInv, OwnerInv, IdsDiffer', [Next]_vars
    PROVE  Tidy \cap Messages \subseteq Tidy'
<1> SUFFICES ASSUME NEW x \in Tidy \cap Messages PROVE x \in Tidy'
    OBVIOUS
<1>1. KnownKept
    BY KnownStays DEF TypeInv
<1>2. \A u \in Up : upMgr[u] # None => upMgr'[u] = upMgr[u] /\ upSlot'[u] = upSlot[u]
    BY OwnersLast
<1>3. \A d \in Closed : upSession'[d] = upSession[d]
    BY ClosedKeepSessions
<1>4. x[1] \in Actor /\ x[2] \in Event /\ x = <<x[1], x[2]>> /\ x \in Actor \X Event
    BY DEF Tidy
<1>5. x[2].type = "UpSessionReady" => x[2].session \in Up
    BY <1>4, EventKinds
<1>6. ASSUME x[2].type = "DownSessionBroken", NEW d \in Known', sessionID'[d] = x[2].sessionID
      PROVE  d \in Closed' /\ upSession'[d] = x[1]
    <2>1. PICK c \in Closed : sessionID[c] = x[2].sessionID
        BY <1>6 DEF Messages
    <2>2. c \in Known /\ c \in Known' /\ c \in Closed' /\ sessionID'[c] = sessionID[c]
        BY <1>1, <2>1 DEF KnownKept, Closed
    <2>3. c = d
        BY <1>6, <2>1, <2>2 DEF IdsDiffer
    <2>4. upSession[c] = x[1]
        BY <1>6, <2>1, <2>2 DEF Tidy
    <2> QED
        BY <1>3, <2>1, <2>2, <2>3, <2>4
<1> QED
    BY <1>2, <1>4, <1>5, <1>6 DEF Tidy

LEMMA TidyStays ==
    ASSUME TypeInv, OwnerInv, IdsDiffer', [Next]_vars, Mail(chan, spawned, Tidy),
           NEW ACTION in, NEW ACTION out, Passes(in, out), out \subseteq Tidy'
    PROVE  Mail(chan, spawned, Tidy)'
<1>1. Mail(chan, spawned, Tidy \cap Messages)
    BY DEF TypeInv, MailInv, Mail
<1>2. Mail(chan, spawned, Tidy')
    BY <1>1, TidyKept DEF Mail
<1>3. Mail(chan', spawned', Tidy')
    BY <1>2 DEF Passes
<1> QED
    BY <1>3 DEF Mail

-----------------------------------------------------------------------------
(* The sessions and their managers.                                        *)

\* A slot's session is one of that slot.
LEMMA SlotsOfSessions ==
    ASSUME TypeInv, OwnerInv, Standing, Mail(chan, spawned, Tidy), [Next]_vars,
           NEW m \in Mgr, NEW s \in Slot, slotSession'[m][s] # None
    PROVE  upSlot'[slotSession'[m][s]] = s
<1>0. slotSession \in [Mgr -> [Slot -> Up \cup {None}]]
    BY DEF TypeInv, MgrInv, SlotInv
<1>1. \A u \in Up : upMgr[u] # None => upSlot'[u] = upSlot[u]
    BY OwnersLast
<1>2. ASSUME slotSession'[m][s] = slotSession[m][s]
      PROVE  upSlot'[slotSession'[m][s]] = s
    <2>1. slotSession[m][s] \in Up /\ upMgr[slotSession[m][s]] = m /\ upSlot[slotSession[m][s]] = s
        BY <1>0, <1>2 DEF OwnerInv, Standing
    <2> QED
        BY <1>1, <1>2, <2>1, NoMgr
<1>3. ASSUME NEW n \in Mgr, MgrUpSessionReady(n)
      PROVE  upSlot'[slotSession'[m][s]] = s
    <2> DEFINE e == Head(chan[n])
    <2>1. n \in Actor /\ chan[n] # <<>> /\ e.type = "UpSessionReady" /\ e.slot \in Slot /\ e.session \in Up
        BY <1>3, Actors, MgrEvents DEF MgrUpSessionReady, MgrReceives, Receives
    <2>2. upMgr[e.session] # None /\ upSlot[e.session] = e.slot
        BY <2>1, FirstIsTidy DEF Tidy
    <2>3. slotSession' = [slotSession EXCEPT ![n][e.slot] = e.session]
        BY <1>3 DEF MgrUpSessionReady
    <2> HIDE DEF e
    <2>4. slotSession'[m][s] = IF n = m /\ s = e.slot THEN e.session ELSE slotSession[m][s]
        BY <1>0, <2>1, <2>3
    <2> QED
        BY <1>1, <1>2, <2>1, <2>2, <2>4
<1>4. ASSUME NEW n \in Mgr, MgrHandles(n) PROVE UNCHANGED slotSession \/ MgrUpSessionReady(n)
    BY <1>4 DEF MgrHandles, MgrAddDownSession, MgrUpSessionInitFailed, MgrUpSessionBroken,
                MgrUpdateMinerNum, MgrUpdateFakeMinerNum, MgrExit, slotVars
<1>5. UNCHANGED slotSession \/ \E n \in Mgr : MgrHandles(n)
    BY DEF Next, Environment, Agents, MinerActs, PoolActs, ConnectRefused, OperatorActs, DownRuns, UpRuns,
           FakeRuns, MgrRuns, SMRuns, Connects, SenderRuns, vars, poolVars, mgrVars, slotVars,
           ConnectFails, ConnectSucceeds, SMStop, SMStarts, SMHandles, SMAddDownSession,
           SMStopUpSessionManager, SMExit, StartsQuietly
<1> QED
    BY <1>2, <1>3, <1>4, <1>5

\* The sessions of a manager that runs run.
LEMMA ManagedRun ==
    ASSUME Reliable, TypeInv, OwnerInv, Standing, Mail(chan, spawned, Tidy), [Next]_vars,
           NEW u \in Up, upMgr'[u] \in mgrLoop'
    PROVE  UpLoop(u)'
<1>0. /\ upStat \in [Up -> {"none", "authorized", "disconnected"}] /\ upMgr \in [Up -> Mgr \cup {None}]
      /\ mgrLoop \subseteq Mgr
    BY DEF TypeInv, UpInv, MgrInv, LoopsInv
<1>1. ASSUME NEW m \in Mgr, Connects(m) PROVE UpLoop(u)'
    <2>1. PICK s \in Slot, v \in Up : ConnectSucceeds(m, s, v)
        BY <1>1 DEF Connects
    <2> QED
        BY <1>0, <2>1 DEF ConnectSucceeds, UpLoop, Standing
<1>2. ASSUME NEW v \in Up, UpHandles(v, sessionID), UNCHANGED mgrLoop PROVE UpLoop(u)'
    <2>1. CASE UpExit(v)
        <3>1. UNCHANGED upMgr /\ upMgr[v] \notin mgrLoop /\ upStat' = [upStat EXCEPT ![v] = "disconnected"]
            BY <2>1, ExitingHasNoManager
        <3>2. u # v /\ UpLoop(u)
            BY <1>2, <3>1 DEF Standing
        <3> QED
            BY <1>0, <3>1, <3>2 DEF UpLoop
    <2>2. CASE UNCHANGED upVars
        BY <1>2, <2>2 DEF upVars, UpLoop, Standing
    <2> QED
        BY <1>2, <2>1, <2>2, UpOutcomes DEF UpSendUpdateMinerNum
<1>3. ASSUME NEW m \in Mgr, NEW a \in Account, CreateUpSessionManager(m, a), UNCHANGED upVars PROVE UpLoop(u)'
    <2>1. mgrAccount[m] = None /\ mgrLoop' = mgrLoop \cup {m} /\ upMgr' = upMgr
        BY <1>3 DEF CreateUpSessionManager, MgrStarts, upVars
    <2>2. upMgr[u] # m /\ upMgr[u] \in mgrLoop
        BY <2>1, NoMgr DEF OwnerInv
    <2> QED
        BY <1>3, <2>2 DEF Standing, UpLoop, upVars
<1>4. ASSUME UNCHANGED upVars, mgrLoop' \subseteq mgrLoop PROVE UpLoop(u)'
    BY <1>4 DEF upVars, Standing, UpLoop
<1>5. ASSUME NEW m \in Mgr, FakeRuns(m) PROVE UNCHANGED upVars /\ mgrLoop' \subseteq mgrLoop
    BY <1>5 DEF FakeRuns, FakeHandles, FakeAddDownSession, FakeDownSessionBroken, FakeSendUpdateMinerNum,
                FakeTransferDownSessions, FakeExit, mgrVars
<1>6. ASSUME NEW m \in Mgr, MgrRuns(m) PROVE UNCHANGED upVars /\ mgrLoop' \subseteq mgrLoop
    BY <1>6 DEF MgrRuns, MgrHandles, MgrAddDownSession, MgrUpSessionReady, MgrUpSessionInitFailed,
                MgrUpSessionBroken, MgrUpdateMinerNum, MgrUpdateFakeMinerNum, MgrExit
<1>7. ASSUME SMRuns
      PROVE  \/ UNCHANGED upVars /\ mgrLoop' \subseteq mgrLoop
             \/ UNCHANGED upVars /\ \E m \in Mgr, a \in Account : CreateUpSessionManager(m, a)
    <2>1. CASE SMStarts
        BY <2>1 DEF SMStarts, StartsQuietly, mgrVars
    <2>2. CASE SMAddDownSession(subAccount)
        <3>1. Head(chan[SM]).session \in Known
            BY <2>2, SMAddMail
        <3>2. subAccount[Head(chan[SM]).session] \in Account
            BY <3>1 DEF Known
        <3> QED
            BY <2>2, <3>2 DEF SMAddDownSession, StartsQuietly, mgrVars
    <2>3. CASE SMStopUpSessionManager \/ SMExit
        BY <2>3 DEF SMStopUpSessionManager, SMExit, mgrVars
    <2> QED
        BY <1>7, <2>1, <2>2, <2>3 DEF SMRuns, SMHandles
<1>8. \/ UNCHANGED upVars /\ mgrLoop' \subseteq mgrLoop
      \/ \E v \in Up : UpHandles(v, sessionID) /\ UNCHANGED mgrLoop
      \/ \E m \in Mgr : FakeRuns(m) \/ MgrRuns(m) \/ Connects(m)
      \/ SMRuns
    BY DEF Next, Environment, Agents, MinerActs, PoolActs, ConnectRefused, OperatorActs, DownRuns, UpRuns,
           SenderRuns, vars, poolVars, mgrVars, PoolBreaks, ConnectFails, SMStop
<1> QED
    BY <1>1, <1>2, <1>3, <1>4, <1>5, <1>6, <1>7, <1>8

\* Sessions that have not started count nothing.
LEMMA IdleCountNothing ==
    ASSUME Reliable, TypeInv, Standing, Mail(chan, spawned, Tidy), [Next]_vars,
           NEW u \in Up, upStat'[u] = "none"
    PROVE  disconnected'[u] = 0
<1>0. upStat[u] = "none" /\ disconnected[u] = 0 /\ ~UpLoop(u) /\ disconnected \in [PoolSession -> Nat] /\ u \in PoolSession
    BY StartedStay, Actors DEF Standing, UpLoop, TypeInv, MapInv
<1>1. ASSUME NEW v \in Up, UpHandles(v, sessionID) PROVE disconnected'[u] = 0
    <2>1. v # u
        BY <1>0, <1>1, UpOutcomes
    <2>2. \/ UNCHANGED disconnected
          \/ \E n : disconnected' = [disconnected EXCEPT ![v] = n]
        BY <1>1 DEF UpHandles, UpConnBroken, UpExit, UpAddDownSession, UpDownSessionBroken,
                    UpSendUpdateMinerNum, Counts, UpReports, mapVars
    <2> QED
        BY <1>0, <2>1, <2>2
<1>2. ASSUME NEW m \in Mgr, FakeHandles(m, sessionID) PROVE disconnected'[u] = 0
    <2>1. Fake(m) # u
        BY ActorAssumption
    <2>2. \/ UNCHANGED disconnected
          \/ \E n : disconnected' = [disconnected EXCEPT ![Fake(m)] = n]
        BY <1>2 DEF FakeHandles, FakeAddDownSession, FakeDownSessionBroken, FakeSendUpdateMinerNum,
                    FakeTransferDownSessions, FakeExit, Counts, mapVars
    <2> QED
        BY <1>0, <2>1, <2>2
<1>3. \/ UNCHANGED disconnected
      \/ \E v \in Up : UpHandles(v, sessionID)
      \/ \E m \in Mgr : FakeHandles(m, sessionID)
    BY DEF Next, Environment, Agents, MinerActs, PoolActs, ConnectRefused, OperatorActs, DownRuns, UpRuns,
           FakeRuns, MgrRuns, SMRuns, Connects, SenderRuns, vars, poolVars, mapVars, PoolBreaks,
           ConnectFails, ConnectSucceeds, SMStop, SMStarts, SMHandles, SMAddDownSession,
           SMStopUpSessionManager, SMExit, MgrHandles, StartsQuietly
<1> QED
    BY <1>0, <1>1, <1>2, <1>3

\* A miner is with sessions that exist, and with none before it is announced.
LEMMA GivenAreKnown ==
    ASSUME TypeInv, OwnerInv, Standing, Mail(chan, spawned, Tidy), [Next]_vars, NEW d \in Miner
    PROVE  /\ upSession'[d] \in Up => upMgr'[upSession'[d]] # None
           /\ Fresh(d)' => upSession'[d] = None
<1>0. upSession \in [Miner -> PoolSession \cup {None}]
    BY DEF TypeInv, DownInv
<1>1. \A u \in Up : upMgr[u] # None => upMgr'[u] # None
    BY OwnersLast
<1>2. Fresh(d)' => Fresh(d)
    BY KnownStays DEF TypeInv
<1>3. CASE UNCHANGED upSession
    BY <1>1, <1>2, <1>3 DEF Standing
<1>4. ASSUME NEW c \in Miner, SetUpSession(c)
      PROVE  /\ upSession'[d] \in Up => upMgr'[upSession'[d]] # None
             /\ Fresh(d)' => upSession'[d] = None
    <2> DEFINE e == Head(chan[c])
    <2>1. c \in Actor /\ chan[c] # <<>> /\ e.type = "SetUpSession"
        BY <1>4, Actors DEF SetUpSession, Receives
    <2>2. e.session \in Up => upMgr[e.session] # None
        BY <2>1, FirstIsTidy DEF Tidy
    <2>3. upSession' = [upSession EXCEPT ![c] = e.session] /\ ~Fresh(c)
        BY <1>4 DEF SetUpSession, RunLoop, Fresh
    <2> HIDE DEF e
    <2>4. upSession'[d] = IF d = c THEN e.session ELSE upSession[d]
        BY <1>0, <2>3
    <2> QED
        BY <1>1, <1>2, <2>2, <2>3, <2>4 DEF Standing
<1> QED
    BY <1>3, <1>4, GivenLast

LEMMA StandingStays ==
    ASSUME Reliable, TypeInv, OwnerInv, Standing, Mail(chan, spawned, Tidy), [Next]_vars
    PROVE  Standing'
<1>1. \A m \in Mgr, s \in Slot : slotSession'[m][s] # None => upSlot'[slotSession'[m][s]] = s
    BY SlotsOfSessions
<1>2. \A u \in Up : upMgr'[u] \in mgrLoop' => UpLoop(u)'
    BY ManagedRun
<1>3. \A u \in Up : upStat'[u] = "none" => disconnected'[u] = 0
    BY IdleCountNothing
<1>4. \A d \in Miner : /\ upSession'[d] \in Up => upMgr'[upSession'[d]] # None
                       /\ Fresh(d)' => upSession'[d] = None
    BY GivenAreKnown
<1> QED
    BY <1>1, <1>2, <1>3, <1>4 DEF Standing

-----------------------------------------------------------------------------
(* Steps without such messages.                                            *)

\* What has to be shown of a step.
Settles ==
    /\ \E in, out : Passes(in, out) /\ out \subseteq Tidy'
    /\ Fates'
    /\ Ledger'

LEMMA SettledIsKept ==
    ASSUME Surroundings, BooksInv, [Next]_vars, IdsDiffer', Settles
    PROVE  BooksInv'
<1>1. /\ TypeInv /\ OwnerInv /\ Reliable /\ Mail(chan, spawned, Tidy) /\ Standing
    BY DEF Surroundings, CustodyInv, SlotsInv, BooksInv
<1>2. PICK in, out : Passes(in, out) /\ out \subseteq Tidy'
    BY DEF Settles
<1>3. Mail(chan, spawned, Tidy)'
    BY <1>1, <1>2, TidyStays
<1>4. Standing'
    BY <1>1, StandingStays
<1> QED
    BY <1>3, <1>4 DEF Settles, BooksInv

\* A miner becomes known when it gets its id, or its sub-account.
LEMMA NewIsFresh ==
    ASSUME TypeInv, [Next]_vars, NEW d \in Known', d \notin Known
    PROVE  Fresh(d) /\ d \notin Closed' /\ UNCHANGED upSession
<1>1. /\ sessionID \in [Miner -> SessionIds \cup {NoID}] /\ downStat \in [Miner -> DownStat]
      /\ \A c \in Miner : Live(c) => sessionID[c] \in SessionIds
      /\ subAccount \in [Miner -> Account \cup {None}]
      /\ \A c \in Miner : RunLoop(c) => subAccount[c] \in Account
    BY DEF TypeInv, LeaseInv, DownInv
<1>2. d \in Miner /\ ~(sessionID'[d] = sessionID[d] /\ subAccount'[d] = subAccount[d])
    BY DEF Known
<1>3. \/ \E c \in Miner : MinerStep(c) \/ DownHandles(c)
      \/ UNCHANGED <<sessionID, subAccount>>
    BY DEF Next, Environment, Agents, MinerActs, DownRuns, PoolActs, ConnectRefused, OperatorActs, UpRuns,
           FakeRuns, MgrRuns, SMRuns, Connects, SenderRuns, vars, downVars
<1>4. PICK c \in Miner : MinerStep(c) \/ DownHandles(c)
    BY <1>2, <1>3
<1>5. CASE RunDownSession(c)
    BY <1>1, <1>2, <1>5 DEF RunDownSession, Fresh, Closed
<1>6. CASE Authorize(c)
    BY <1>1, <1>2, <1>6 DEF Authorize, InitLoop, Fresh, Closed
<1>7. CASE LoginAgain(c)
    <2>1. RunLoop(c) /\ UNCHANGED sessionID /\ \E a \in Account : subAccount' = [subAccount EXCEPT ![c] = a]
        BY <1>7 DEF LoginAgain
    <2>2. c = d
        BY <1>1, <1>2, <2>1
    <2>3. d \in Known
        BY <1>1, <1>2, <2>1, <2>2 DEF Live, Known
    <2> QED
        BY <2>3
<1>8. ASSUME ~RunDownSession(c), ~Authorize(c), ~LoginAgain(c) PROVE UNCHANGED <<sessionID, subAccount>>
    BY <1>4, <1>8 DEF MinerStep, DownHandles, RunDownSessionRefused, InitConnBroken,
                MinerLeaves, ConnBroken, Exit, SetUpSession, Close, downVars
<1> QED
    BY <1>2, <1>5, <1>6, <1>7, <1>8

\* Nothing is known of it before.
LEMMA NewFate ==
    ASSUME TypeInv, TypeInv', IdsDiffer', Standing, [Next]_vars, NEW d \in Known', d \notin Known, Custody(d),
           NEW ACTION in, NEW ACTION out, Passes(in, out), in \cap KeyEvents = {}, out \cap KeyEvents = {}
    PROVE  Fate(d)'
<1>1. Fresh(d) /\ d \notin Closed' /\ UNCHANGED upSession /\ d \in Miner
    BY NewIsFresh DEF Known
<1>2. upSession'[d] = None /\ Unsent(d)
    BY <1>1 DEF Standing, Custody, Nowhere
<1>3. Free(chan', spawned', Leaving(d)')
    <2>1. IsChan(chan') /\ IsABag(spawned') /\ Mail(chan', spawned', Messages')
        BY DEF TypeInv, MailInv, Mail
    <2>2. ASSUME NEW x \in Leaving(d)', x \in Messages' PROVE FALSE
        <3>1. PICK p \in PoolSession : x = <<p, EventDownSessionBroken(sessionID'[d])>>
            BY <2>2 DEF Leaving
        <3>2. x[2].type = "DownSessionBroken" /\ x[2].sessionID = sessionID'[d]
            BY <3>1 DEF EventDownSessionBroken
        <3>3. PICK c \in Closed' : sessionID'[c] = sessionID'[d]
            BY <2>2, <3>2 DEF Messages
        <3>4. c = d
            BY <3>3 DEF IdsDiffer, Closed
        <3> QED
            BY <1>1, <3>3, <3>4
    <2> QED
        BY <2>1, <2>2 DEF Mail, Free, Waits, Pends
<1>4. ASSUME NEW u \in Up PROVE Free(chan', spawned', {<<u, EventAddDownSession(d)>>})
    <2>1. AtMostOne(chan, spawned, {<<u, EventAddDownSession(d)>>})
        BY <1>1, JoiningOnce
    <2>2. {<<u, EventAddDownSession(d)>>} \subseteq Carriers(d) /\ {<<u, EventAddDownSession(d)>>} \subseteq KeyEvents
        BY <1>1, KeysAre DEF Joining
    <2>3. Free(chan, spawned, {<<u, EventAddDownSession(d)>>})
        BY <1>2, <2>2, KindWithin DEF Unsent
    <2> QED
        BY <2>1, <2>2, <2>3, KindStays
<1>5. Ordered(d)'
    <2> SUFFICES ASSUME NEW u \in Up
                 PROVE  /\ <<u, EventAddDownSession(d)>> \notin DOMAIN spawned'
                        /\ Ahead(chan'[u], EventAddDownSession(d), EventDownSessionBroken(sessionID'[d]))
        BY DEF Ordered
    <2>1. u \in Actor
        BY Actors
    <2> QED
        BY <1>4, <2>1 DEF Free, Waits, Pends, Ahead
<1>6. AtMostOne(chan', spawned', Leaving(d)')
    BY <1>3, FreeIsAtMostOne
<1>7. \A u \in Up : Expected(d, u)'
    <2>1. None \notin Up
        BY Actors, ActorAssumption
    <2> QED
        BY <1>2, <2>1 DEF Expected
<1> QED
    BY <1>5, <1>6, <1>7 DEF Fate

LEMMA FatesStay ==
    ASSUME Surroundings, BooksInv, [Next]_vars, TypeInv', IdsDiffer',
           NEW ACTION in, NEW ACTION out, Passes(in, out), in \cap KeyEvents = {}, out \cap KeyEvents = {},
           \A u \in Up : Served(u)' = Served(u),
           \A d \in Known, u \in Up : UpLoop(u)' /\ upSession'[d] = u => UpLoop(u) /\ upSession[d] = u
    PROVE  Fates'
<1>1. TypeInv /\ KnownKept /\ Standing /\ \A d \in Miner : Custody(d)
    BY KnownStays DEF Surroundings, CustodyInv, BooksInv, TypeInv
<1>2. ASSUME NEW d \in Known PROVE Fate(d)'
    <2>1. FateKinds(d) \subseteq KeyEvents /\ Fate(d) /\ Custody(d)
        BY <1>1, FateKindsAre DEF BooksInv, Fates, Known
    <2>2. in \cap FateKinds(d) = {} /\ out \cap FateKinds(d) = {}
        BY <2>1
    <2>3. \A u \in Up : UpLoop(u)' /\ upSession'[d] = u => UpLoop(u) /\ upSession[d] = u
        OBVIOUS
    <2>4. \A u \in Up : d \in Served(u) => d \in Served(u)'
        OBVIOUS
    <2> QED
        BY <1>1, <2>1, <2>2, <2>3, <2>4, FateStays
<1>3. ASSUME NEW d \in Known', d \notin Known PROVE Fate(d)'
    <2>1. Custody(d)
        BY <1>1, <1>3 DEF Known
    <2> QED
        BY <1>1, <1>3, <2>1, NewFate
<1> QED
    BY <1>2, <1>3 DEF Fates

\* The books of a slot that the step does not concern.
LEMMA BooksStay ==
    ASSUME NEW m \in Mgr, NEW s \in Slot, IsFiniteSet(Reports(m, s)), Minded(m) => Books(m, s),
           NEW ACTION in, NEW ACTION out, Passes(in, out),
           \A n \in Nat : <<m, EventUpdateMinerNum(s, n)>> \in in <=> <<m, EventUpdateMinerNum(s, n)>> \in out,
           Minded(m)' => /\ Minded(m)
                         /\ SessionsOf(m, s)' = SessionsOf(m, s)
                         /\ minerNum'[m][s] = minerNum[m][s]
                         /\ \A u \in SessionsOf(m, s) : Load(u)' = Load(u)
    PROVE  IsFiniteSet(Reports(m, s)') /\ (Minded(m)' => Books(m, s)')
<1>1. Reports(m, s)' = Reports(m, s)
    BY ReportsStay
<1>2. Minded(m)' => Due(m, s)' = Due(m, s)
    BY <1>1 DEF Due
<1> QED
    BY <1>1, <1>2 DEF Books

LEMMA LedgerStays ==
    ASSUME Surroundings, BooksInv,
           NEW ACTION in, NEW ACTION out, Passes(in, out), in \cap KeyEvents = {}, out \cap KeyEvents = {},
           \A u \in Up : Served(u)' = Served(u) /\ disconnected'[u] = disconnected[u],
           \A m \in Mgr, s \in Slot :
              Minded(m)' => /\ Minded(m)
                            /\ SessionsOf(m, s)' = SessionsOf(m, s)
                            /\ minerNum'[m][s] = minerNum[m][s]
    PROVE  Ledger'
<1> SUFFICES ASSUME NEW m \in Mgr, NEW s \in Slot
             PROVE  IsFiniteSet(Reports(m, s)') /\ (Minded(m)' => Books(m, s)')
    BY DEF Ledger
<1>1. IsFiniteSet(Reports(m, s)) /\ (Minded(m) => Books(m, s))
    BY DEF BooksInv, Ledger
<1>2. \A n \in Nat : <<m, EventUpdateMinerNum(s, n)>> \notin in /\ <<m, EventUpdateMinerNum(s, n)>> \notin out
    BY KeysAre
<1>3. ASSUME NEW u \in SessionsOf(m, s) PROVE Load(u)' = Load(u)
    <2>1. u \in Up
        BY DEF SessionsOf
    <2>2. \A c \in Miner : in \cap Joining(u, c) = {} /\ out \cap Joining(u, c) = {}
        BY <2>1, KeysAre
    <2>3. \A c \in Miner : Custody(c)
        BY DEF Surroundings, CustodyInv
    <2> QED
        BY <2>1, <2>2, <2>3, LoadStays
<1> QED
    BY <1>1, <1>2, <1>3, BooksStay

Quiet == \E in, out : Passes(in, out) /\ in \cap KeyEvents = {} /\ out \subseteq Ordinary

LEMMA QuietSettles ==
    ASSUME Surroundings, BooksInv, [Next]_vars, TypeInv', IdsDiffer', Quiet,
           \A u \in Up : Served(u)' = Served(u) /\ disconnected'[u] = disconnected[u],
           \A d \in Known, u \in Up : UpLoop(u)' /\ upSession'[d] = u => UpLoop(u) /\ upSession[d] = u,
           \A m \in Mgr, s \in Slot :
              Minded(m)' => /\ Minded(m)
                            /\ SessionsOf(m, s)' = SessionsOf(m, s)
                            /\ minerNum'[m][s] = minerNum[m][s]
    PROVE  Settles
<1>1. PICK in, out : Passes(in, out) /\ in \cap KeyEvents = {} /\ out \subseteq Ordinary
    BY DEF Quiet
<1>2. out \cap KeyEvents = {} /\ out \subseteq Tidy'
    BY <1>1, OrdinaryIs
<1>3. Fates'
    BY <1>1, <1>2, FatesStay
<1>4. Ledger'
    BY <1>1, <1>2, LedgerStays
<1> QED
    BY <1>1, <1>2, <1>3, <1>4 DEF Settles

-----------------------------------------------------------------------------
(* The miners' sessions.                                                   *)

LEMMA KeyTypes ==
    /\ \A x : /\ EventAddDownSession(x).type = "AddDownSession"
              /\ EventSetUpSession(x).type = "SetUpSession"
              /\ EventDownSessionBroken(x).type = "DownSessionBroken"
    /\ \A x, y : EventUpdateMinerNum(x, y).type = "UpdateMinerNum"
    /\ \A x, y : EventAddDownSession(x) = EventAddDownSession(y) => x = y
    /\ \A x, y : EventSetUpSession(x) = EventSetUpSession(y) => x = y
    /\ \A x, y : EventDownSessionBroken(x) = EventDownSessionBroken(y) => x = y
BY DEF EventAddDownSession, EventSetUpSession, EventDownSessionBroken, EventUpdateMinerNum

LEMMA WhoJoins ==
    ASSUME NEW a, NEW e, NEW u, NEW c
    PROVE  <<a, e>> \in Joining(u, c) <=>
              (a = u /\ e = EventAddDownSession(c)) \/ (a = c /\ e = EventSetUpSession(u))
BY DEF Joining

LEMMA WhoseFate ==
    ASSUME NEW a, NEW e, NEW c
    PROVE  <<a, e>> \in FateKinds(c) <=>
              \/ a \in Up /\ e = EventAddDownSession(c)
              \/ a \in PoolSession /\ e = EventDownSessionBroken(sessionID[c])
BY DEF FateKinds, Leaving

LEMMA SetUpIs ==
    ASSUME NEW e \in Event, e.type = "SetUpSession"
    PROVE  e = EventSetUpSession(e.session) /\ e.session \in PoolSession
<1>1. e.session \in PoolSession
    BY EventKinds
<1>2. e = EventSetUpSession(e.session)
    BY DEF Event, EventExit, EventPoolNotReady, EventConnBroken, EventTransferDownSessions,
           EventSendUpdateMinerNum, EventSetUpSession
<1> QED
    BY <1>1, <1>2

\* The pool sessions and managers are as they were.
LEMMA StillPools ==
    ASSUME UNCHANGED poolVars
    PROVE  /\ \A u \in Up : Served(u)' = Served(u) /\ disconnected'[u] = disconnected[u]
           /\ \A u \in Up : UpLoop(u)' => UpLoop(u)
           /\ \A m \in Mgr, s \in Slot :
                 Minded(m)' => /\ Minded(m)
                               /\ SessionsOf(m, s)' = SessionsOf(m, s)
                               /\ minerNum'[m][s] = minerNum[m][s]
BY DEF poolVars, upVars, mapVars, mgrVars, slotVars, Served, UpLoop, SessionsOf, Minded

\* Nobody says that a miner has left while its session runs.
LEMMA NotLeaving ==
    ASSUME Mail(chan, spawned, Tidy), NEW c \in Known, c \notin Closed
    PROVE  Free(chan, spawned, Leaving(c))
<1>1. ASSUME NEW x \in Leaving(c), x \in Tidy PROVE FALSE
    <2>1. PICK p \in PoolSession : x = <<p, EventDownSessionBroken(sessionID[c])>>
        BY <1>1 DEF Leaving
    <2>2. x[2].type = "DownSessionBroken" /\ x[2].sessionID = sessionID[c]
        BY <2>1 DEF EventDownSessionBroken
    <2> QED
        BY <1>1, <2>2 DEF Tidy
<1> QED
    BY <1>1 DEF Mail, Free, Waits, Pends

LEMMA RunnersAreKnown ==
    ASSUME TypeInv, NEW d \in Miner, RunLoop(d)
    PROVE  d \in Known /\ d \notin Closed
BY DEF TypeInv, LeaseInv, DownInv, Known, Closed, Live, RunLoop

LEMMA QuietStep ==
    ASSUME NEW ACTION in, NEW ACTION out, Passes(in, out), in \cap KeyEvents = {}, out \subseteq Ordinary
    PROVE  Quiet
BY DEF Quiet

\* Steps of a miner that no pool session is concerned with.
LEMMA DownQuiet ==
    ASSUME TypeInv, NEW d \in Miner, MinerStep(d) \/ DownHandles(d), ~ConnBroken(d),
           SetUpSession(d) => Head(chan[d]).session \notin Up
    PROVE  Quiet
<1>0. d \in Actor /\ SM \in Actor /\ SM \notin Up /\ MailInv /\ {} \cap KeyEvents = {} /\ {} \subseteq Ordinary
    BY NoMgr, Actors DEF TypeInv
<1>1. CASE Authorize(d)
    <2>1. Passes({}, {<<SM, EventAddDownSession(d)>>})
        BY <1>1, AuthorizeMail
    <2>2. {<<SM, EventAddDownSession(d)>>} \subseteq Ordinary
        BY <1>0, OrdinaryIs, SessionEvents
    <2> QED
        BY <1>0, <2>1, <2>2, QuietStep
<1>2. CASE Exit(d)
    <2>1. Passes({<<d, Head(chan[d])>>}, {}) /\ Head(chan[d]).type \in {"Exit", "PoolNotReady"}
        BY <1>2, ExitMail
    <2>2. {<<d, Head(chan[d])>>} \cap KeyEvents = {}
        BY <2>1, NoKey
    <2> QED
        BY <1>0, <2>1, <2>2, QuietStep
<1>3. CASE SetUpSession(d)
    <2> DEFINE p == Head(chan[d]).session
    <2>1. /\ Passes({<<d, Head(chan[d])>>}, {<<p, EventAddDownSession(d)>>})
          /\ Head(chan[d]).type = "SetUpSession" /\ p \in PoolSession /\ p \notin Up
        BY <1>3, SetUpSessionMail
    <2>2. {<<d, Head(chan[d])>>} \cap KeyEvents = {}
        BY <2>1, NoKey
    <2> HIDE DEF p
    <2>3. {<<p, EventAddDownSession(d)>>} \subseteq Ordinary
        BY <2>1, OrdinaryIs, SessionEvents, Actors
    <2> QED
        BY <2>1, <2>2, <2>3, QuietStep
<1>4. CASE MinerLeaves(d)
    <2>1. Passes({}, {<<d, EventConnBroken>>})
        BY <1>4, MinerLeavesMail
    <2>2. {<<d, EventConnBroken>>} \subseteq Ordinary
        BY <1>0, OrdinaryIs, PlainEvents
    <2> QED
        BY <1>0, <2>1, <2>2, QuietStep
<1>5. CASE RunDownSession(d) \/ RunDownSessionRefused(d) \/ InitConnBroken(d) \/ LoginAgain(d)
    <2>1. UNCHANGED mailVars
        BY <1>5 DEF RunDownSession, RunDownSessionRefused, InitConnBroken, LoginAgain
    <2> QED
        BY <1>0, <2>1, QuietPasses, QuietStep
<1> QED
    BY <1>1, <1>2, <1>3, <1>4, <1>5 DEF MinerStep, DownHandles

LEMMA DownQuietSettles ==
    ASSUME Surroundings, BooksInv, [Next]_vars, TypeInv', IdsDiffer', UNCHANGED poolVars,
           NEW d \in Miner, MinerStep(d) \/ DownHandles(d), ~ConnBroken(d),
           SetUpSession(d) => Head(chan[d]).session \notin Up
    PROVE  Settles
<1>0. TypeInv /\ upSession \in [Miner -> PoolSession \cup {None}]
    BY DEF Surroundings, CustodyInv, TypeInv, DownInv
<1>1. Quiet
    BY <1>0, DownQuiet
<1>2. ASSUME NEW c \in Known, NEW u \in Up, upSession'[c] = u PROVE upSession[c] = u
    <2>1. UNCHANGED upSession \/ SetUpSession(d)
        BY DEF MinerStep, DownHandles, RunDownSession, RunDownSessionRefused, Authorize, InitConnBroken,
               LoginAgain, MinerLeaves, ConnBroken, Exit, Close, downVars
    <2>2. CASE SetUpSession(d)
        BY <1>0, <1>2, <2>2 DEF SetUpSession, Known
    <2> QED
        BY <1>2, <2>1, <2>2
<1> QED
    BY <1>1, <1>2, StillPools, QuietSettles

\* The message that a part is about to take is the only one of its kind.
LEMMA FirstIsOnly ==
    ASSUME MailInv, NEW STATE a, a \in Actor, chan[a] # <<>>, NEW K, AtMostOne(chan, spawned, K),
           <<a, Head(chan[a])>> \in K, NEW L, L \subseteq K, <<a, Head(chan[a])>> \notin L
    PROVE  Free(chan, spawned, L) /\ ~Pends(spawned, K)
<1>1. IsChan(chan)
    BY DEF MailInv, Mail
<1>2. 1 \in DOMAIN chan[a] /\ Head(chan[a]) = chan[a][1]
    BY <1>1, TakenChannel
<1>3. Waits(chan, K) /\ WaitsOnce(chan, K)
    BY <1>2 DEF Waits, AtMostOne
<1>4. ~Pends(spawned, K)
    BY <1>3 DEF AtMostOne
<1>5. ASSUME NEW b \in Actor, NEW i \in DOMAIN chan[b], <<b, chan[b][i]>> \in L PROVE FALSE
    <2>1. b = a /\ i = 1
        BY <1>2, <1>3, <1>5 DEF WaitsOnce
    <2> QED
        BY <1>2, <1>5, <2>1
<1> QED
    BY <1>4, <1>5 DEF Free, Waits, Pends

\* A miner that is given a pool session announces itself to it, by SendEvent.
LEMMA GivenFate ==
    ASSUME Surroundings, BooksInv, KnownKept, NEW c \in Known, c \notin Closed, UNCHANGED poolVars,
           SetUpSession(c), NEW STATE u, u \in Up, Head(chan[c]) = EventSetUpSession(u),
           Passes({<<c, EventSetUpSession(u)>>}, {<<u, EventAddDownSession(c)>>})
    PROVE  Fate(c)'
<1> DEFINE in == {<<c, EventSetUpSession(u)>>}
           out == {<<u, EventAddDownSession(c)>>}
<1>0. /\ MailInv /\ Custody(c) /\ c \in Miner /\ c \in Actor /\ chan[c] # <<>> /\ u \in Actor
      /\ upSession \in [Miner -> PoolSession \cup {None}] /\ Mail(chan, spawned, Tidy) /\ IsABag(spawned)
    BY Actors DEF Surroundings, CustodyInv, TypeInv, MailInv, Mail, DownInv, SetUpSession, Receives, Known, BooksInv
<1>1. Free(chan, spawned, Leaving(c))
    BY <1>0, NotLeaving
<1>2. Leaving(c)' = Leaving(c) /\ sessionID'[c] = sessionID[c]
    BY DEF KnownKept, Leaving
<1>3. in \cap Leaving(c) = {} /\ out \cap Leaving(c) = {}
    BY KeyTypes DEF Leaving
<1>4. AtMostOne(chan', spawned', Leaving(c)) /\ Free(chan', spawned', Leaving(c))
    BY <1>1, <1>3, FreeIsAtMostOne, KindStays
<1>5. \A v \in Up : {<<v, EventAddDownSession(c)>>} \subseteq Carriers(c)
    BY <1>0, KeysAre DEF Joining
<1>6. <<c, EventSetUpSession(u)>> \in Carriers(c)
    BY <1>0, KeysAre DEF Joining
<1>7. ASSUME NEW v \in Up
      PROVE  Free(chan, spawned, {<<v, EventAddDownSession(c)>>}) /\ ~Pends(spawned, Carriers(c))
    <2>1. AtMostOne(chan, spawned, Carriers(c))
        BY <1>0 DEF Custody
    <2>2. <<c, Head(chan[c])>> \in Carriers(c) /\ <<c, Head(chan[c])>> \notin {<<v, EventAddDownSession(c)>>}
        BY <1>6, KeyTypes
    <2> QED
        BY <1>0, <1>5, <2>1, <2>2, FirstIsOnly
<1>8. Ordered(c)'
    <2> SUFFICES ASSUME NEW v \in Up
                 PROVE  /\ <<v, EventAddDownSession(c)>> \notin DOMAIN spawned'
                        /\ Ahead(chan'[v], EventAddDownSession(c), EventDownSessionBroken(sessionID'[c]))
        BY DEF Ordered
    <2>1. spawned' = spawned (+) SetToBag({})
        BY DEF SetUpSession, Handles, Spawns
    <2>2. DOMAIN spawned' \subseteq DOMAIN spawned
        <3>1. \A P : DOMAIN (spawned (+) SetToBag(P)) = DOMAIN spawned \cup P
            BY <1>0, SpawnedBag
        <3> QED
            BY <2>1, <3>1
    <2>3. <<v, EventAddDownSession(c)>> \notin DOMAIN spawned
        BY <1>7 DEF Free, Pends
    <2>4. \A i \in DOMAIN chan'[v] : chan'[v][i] # EventDownSessionBroken(sessionID[c])
        <3>1. <<v, EventDownSessionBroken(sessionID[c])>> \in Leaving(c) /\ v \in Actor
            BY Actors DEF Leaving
        <3> QED
            BY <1>4, <3>1 DEF Free, Waits
    <2> QED
        BY <1>2, <2>2, <2>3, <2>4 DEF Ahead
<1>9. ASSUME NEW v \in Up PROVE Expected(c, v)'
    <2>1. upSession'[c] = u
        BY <1>0 DEF SetUpSession, EventSetUpSession
    <2>2. CASE v = u
        <3> DEFINE K == {<<u, EventAddDownSession(c)>>}
        <3>1. AtMostOne(chan, spawned, K) /\ Free(chan, spawned, K)
            BY <1>0, <1>7, JoiningOnce
        <3>2. out \cap K = {<<u, EventAddDownSession(c)>>}
            OBVIOUS
        <3>3. ~Free(chan', spawned', K)
            BY <3>1, <3>2 DEF Passes
        <3> QED
            BY <2>2, <3>3 DEF Expected
    <2>3. CASE v # u
        BY <2>1, <2>3 DEF Expected
    <2> QED
        BY <2>2, <2>3
<1> QED
    BY <1>2, <1>4, <1>8, <1>9 DEF Fate

LEMMA SetUpSettles ==
    ASSUME Surroundings, BooksInv, [Next]_vars, TypeInv', IdsDiffer', UNCHANGED poolVars,
           NEW c \in Miner, SetUpSession(c), NEW STATE u, u \in Up, u = Head(chan[c]).session
    PROVE  Settles
<1> DEFINE x == <<c, EventSetUpSession(u)>>
           y == <<u, EventAddDownSession(c)>>
<1>0. /\ TypeInv /\ MailInv /\ c \in Actor /\ chan[c] # <<>> /\ \A d \in Miner : Custody(d)
      /\ Mail(chan, spawned, Tidy) /\ Fates /\ Ledger /\ KnownKept
    BY Actors, KnownStays DEF Surroundings, CustodyInv, TypeInv, SetUpSession, Receives, BooksInv
<1>1. Head(chan[c]) \in Event /\ Head(chan[c]).type = "SetUpSession" /\ RunLoop(c)
    BY <1>0, Received DEF SetUpSession
<1>2. Head(chan[c]) = EventSetUpSession(u)
    BY <1>1, SetUpIs
<1>3. Passes({x}, {y})
    <2>1. Passes({<<c, Head(chan[c])>>}, {<<Head(chan[c]).session, EventAddDownSession(c)>>})
        BY <1>0, SetUpSessionMail
    <2> QED
        BY <1>2, <2>1
<1>4. c \in Known /\ c \notin Closed
    BY <1>0, <1>1, RunnersAreKnown
<1>5. {y} \subseteq Tidy'
    <2>1. upMgr[u] # None
        BY <1>0, <1>1, FirstIsTidy DEF Tidy
    <2>2. u \in Actor /\ EventAddDownSession(c) \in Event /\ upMgr' = upMgr
        BY Actors, SessionEvents DEF poolVars, upVars
    <2> QED
        BY <2>1, <2>2, KeyTypes DEF Tidy
<1>6. ASSUME NEW v \in Up PROVE Load(v)' = Load(v)
    <2>1. Served(v)' = Served(v) /\ disconnected'[v] = disconnected[v]
        BY StillPools
    <2>2. ASSUME NEW d \in Miner PROVE d \in Belongs(v)' <=> d \in Belongs(v)
        <3>1. CASE v = u /\ d = c
            <4>1. AtMostOne(chan, spawned, Joining(u, c))
                BY <1>0, JoiningOnce
            <4>2. {x} \cap Joining(u, c) # {} /\ {y} \cap Joining(u, c) = {y}
                BY DEF Joining
            <4>3. ~Free(chan', spawned', Joining(u, c))
                BY <1>3, <4>1, <4>2 DEF Passes
            <4>4. <<c, Head(chan[c])>> \in Joining(u, c) /\ IsChan(chan)
                BY <1>0, <1>2, WhoJoins DEF MailInv, Mail
            <4>5. ~Free(chan, spawned, Joining(u, c))
                BY <1>0, <4>4, HeadIsSent
            <4> QED
                BY <3>1, <4>3, <4>5 DEF Belongs, Joining
        <3>2. CASE ~(v = u /\ d = c)
            <4>1. {x} \cap Joining(v, d) = {} /\ {y} \cap Joining(v, d) = {}
                BY <3>2, WhoJoins, KeyTypes
            <4> QED
                BY <1>0, <1>3, <2>1, <4>1, BelongsStays
        <3> QED
            BY <3>1, <3>2
    <2>3. Belongs(v)' = Belongs(v)
        BY <2>2 DEF Belongs
    <2> QED
        BY <2>1, <2>3 DEF Load
<1>7. Ledger'
    <2> SUFFICES ASSUME NEW m \in Mgr, NEW s \in Slot
                 PROVE  IsFiniteSet(Reports(m, s)') /\ (Minded(m)' => Books(m, s)')
        BY DEF Ledger
    <2>1. \A n \in Nat : <<m, EventUpdateMinerNum(s, n)>> \notin {x} /\ <<m, EventUpdateMinerNum(s, n)>> \notin {y}
        BY KeyTypes
    <2>2. \A v \in SessionsOf(m, s) : Load(v)' = Load(v)
        BY <1>6 DEF SessionsOf
    <2>3. IsFiniteSet(Reports(m, s)) /\ (Minded(m) => Books(m, s))
        BY <1>0 DEF Ledger
    <2>4. Minded(m)' => /\ Minded(m)
                        /\ SessionsOf(m, s)' = SessionsOf(m, s)
                        /\ minerNum'[m][s] = minerNum[m][s]
        BY StillPools
    <2> HIDE DEF x, y
    <2> QED
        BY <1>3, <2>1, <2>2, <2>3, <2>4, BooksStay
<1>8. Fates'
    <2> SUFFICES ASSUME NEW d \in Known' PROVE Fate(d)'
        BY DEF Fates
    <2>1. d \in Known
        BY DEF Known, SetUpSession
    <2>2. CASE d = c
        BY <1>0, <1>2, <1>3, <1>4, <2>2, GivenFate
    <2>3. CASE d # c
        <3>1. {x} \cap FateKinds(d) = {} /\ {y} \cap FateKinds(d) = {}
            BY <2>3, WhoseFate, KeyTypes
        <3>2. \A v \in Up : (UpLoop(v)' => UpLoop(v)) /\ Served(v)' = Served(v)
            BY StillPools
        <3>3. upSession'[d] = upSession[d] /\ d \in Miner
            BY <2>1, <2>3 DEF SetUpSession, Known
        <3>4. Fate(d) /\ Custody(d)
            BY <1>0, <2>1, <3>3 DEF Fates
        <3>5. /\ \A v \in Up : UpLoop(v)' /\ upSession'[d] = v => UpLoop(v) /\ upSession[d] = v
              /\ \A v \in Up : d \in Served(v) => d \in Served(v)'
            BY <3>2, <3>3
        <3> HIDE DEF x, y
        <3> QED
            BY <1>0, <1>3, <2>1, <3>1, <3>4, <3>5, FateStays
    <2> QED
        BY <2>2, <2>3
<1> QED
    BY <1>3, <1>5, <1>7, <1>8 DEF Settles

-----------------------------------------------------------------------------
(* Steps that concern one miner.                                           *)

LEMMA FatesKept ==
    ASSUME Surroundings, BooksInv, KnownKept, UNCHANGED Known,
           NEW ACTION in, NEW ACTION out, Passes(in, out), NEW c, c \in Known => Fate(c)',
           \A d \in Known \ {c} : in \cap FateKinds(d) = {} /\ out \cap FateKinds(d) = {},
           \A d \in Known \ {c}, u \in Up :
              /\ UpLoop(u)' /\ upSession'[d] = u => UpLoop(u) /\ upSession[d] = u
              /\ d \in Served(u) => d \in Served(u)'
    PROVE  Fates'
<1> SUFFICES ASSUME NEW d \in Known PROVE Fate(d)'
    BY DEF Fates
<1>1. CASE d = c
    BY <1>1
<1>2. CASE d # c
    <2>1. Fate(d) /\ Custody(d) /\ d \in Known \ {c}
        BY <1>2 DEF Surroundings, CustodyInv, BooksInv, Fates, Known
    <2>2. in \cap FateKinds(d) = {} /\ out \cap FateKinds(d) = {}
        BY <2>1
    <2>3. /\ \A u \in Up : UpLoop(u)' /\ upSession'[d] = u => UpLoop(u) /\ upSession[d] = u
          /\ \A u \in Up : d \in Served(u) => d \in Served(u)'
        BY <2>1
    <2> QED
        BY <2>1, <2>2, <2>3, FateStays
<1> QED
    BY <1>1, <1>2

\* No session's load changes, and nothing is reported.
LEMMA LedgerOfLoads ==
    ASSUME BooksInv, NEW ACTION in, NEW ACTION out, Passes(in, out),
           \A u \in Up : Load(u)' = Load(u),
           \A m \in Mgr, s \in Slot, n \in Nat :
              <<m, EventUpdateMinerNum(s, n)>> \notin in /\ <<m, EventUpdateMinerNum(s, n)>> \notin out,
           \A m \in Mgr, s \in Slot :
              Minded(m)' => /\ Minded(m)
                            /\ SessionsOf(m, s)' = SessionsOf(m, s)
                            /\ minerNum'[m][s] = minerNum[m][s]
    PROVE  Ledger'
<1> SUFFICES ASSUME NEW m \in Mgr, NEW s \in Slot
             PROVE  IsFiniteSet(Reports(m, s)') /\ (Minded(m)' => Books(m, s)')
    BY DEF Ledger
<1>1. IsFiniteSet(Reports(m, s)) /\ (Minded(m) => Books(m, s))
    BY DEF BooksInv, Ledger
<1>2. \A n \in Nat : <<m, EventUpdateMinerNum(s, n)>> \notin in /\ <<m, EventUpdateMinerNum(s, n)>> \notin out
    OBVIOUS
<1>3. \A u \in SessionsOf(m, s) : Load(u)' = Load(u)
    BY DEF SessionsOf
<1> QED
    BY <1>1, <1>2, <1>3, BooksStay

LEMMA LedgerKept ==
    ASSUME Surroundings, BooksInv, NEW ACTION in, NEW ACTION out, Passes(in, out),
           \A u \in Up, d \in Miner : in \cap Joining(u, d) = {} /\ out \cap Joining(u, d) = {},
           \A m \in Mgr, s \in Slot, n \in Nat :
              <<m, EventUpdateMinerNum(s, n)>> \notin in /\ <<m, EventUpdateMinerNum(s, n)>> \notin out,
           \A u \in Up : Served(u)' = Served(u) /\ disconnected'[u] = disconnected[u],
           \A m \in Mgr, s \in Slot :
              Minded(m)' => /\ Minded(m)
                            /\ SessionsOf(m, s)' = SessionsOf(m, s)
                            /\ minerNum'[m][s] = minerNum[m][s]
    PROVE  Ledger'
<1>1. ASSUME NEW u \in Up PROVE Load(u)' = Load(u)
    <2>1. \A d \in Miner : in \cap Joining(u, d) = {} /\ out \cap Joining(u, d) = {}
        OBVIOUS
    <2>2. \A d \in Miner : Custody(d)
        BY DEF Surroundings, CustodyInv
    <2> QED
        BY <2>1, <2>2, LoadStays
<1> QED
    BY <1>1, LedgerOfLoads

-----------------------------------------------------------------------------
(* A miner goes.                                                           *)

\* c leaves, and tells its session.
LEMMA GoneFate ==
    ASSUME Surroundings, BooksInv, KnownKept, NEW c \in Known, c \notin Closed, UNCHANGED <<poolVars, upSession>>,
           NEW STATE e, e.type = "ConnBroken", Passes({<<c, e>>}, Broken(c))
    PROVE  Fate(c)'
<1>0. c \in Miner /\ Custody(c) /\ Fate(c) /\ Mail(chan, spawned, Tidy) /\ sessionID'[c] = sessionID[c]
    BY DEF Surroundings, CustodyInv, BooksInv, Fates, Known, KnownKept
<1>1. Free(chan, spawned, Leaving(c)) /\ AtMostOne(chan, spawned, Leaving(c)) /\ Ordered(c)
    BY <1>0, NotLeaving DEF Fate
<1>2. \A x : <<x, EventAddDownSession(c)>> \notin {<<c, e>>} /\ <<x, EventAddDownSession(c)>> \notin Broken(c)
    BY KeyTypes DEF Broken
<1>3. Ordered(c)'
    BY <1>0, <1>1, <1>2, OrderedStays
<1>4. \A u \in Up : (UpLoop(u)' => UpLoop(u)) /\ Served(u)' = Served(u)
    BY StillPools
<1>5. \A u \in Up : Expected(c, u)'
    <2> SUFFICES ASSUME NEW u \in Up PROVE Expected(c, u)'
        OBVIOUS
    <2>1. Expected(c, u)
        BY <1>0 DEF Fate
    <2>2. UpLoop(u)' /\ upSession'[c] = u => UpLoop(u) /\ upSession[c] = u
        BY <1>4
    <2>3. c \in Served(u) => c \in Served(u)'
        BY <1>4
    <2>4. /\ Free(chan, spawned, Leaving(c)) /\ c \in Closed => Free(chan', spawned', Leaving(c))
          /\ <<u, EventAddDownSession(c)>> \notin {<<c, e>>}
          /\ <<u, EventAddDownSession(c)>> \notin Broken(c)
        BY <1>2
    <2> QED
        BY <1>0, <2>1, <2>2, <2>3, <2>4, ExpectedStays
<1>6. Leaving(c)' = Leaving(c)
    BY <1>0 DEF Leaving
<1>7. AtMostOne(chan', spawned', Leaving(c))
    <2>1. CASE upSession[c] = None
        <3>1. Broken(c) \cap Leaving(c) = {}
            BY <2>1 DEF Broken
        <3> QED
            BY <1>1, <3>1 DEF Passes
    <2>2. CASE upSession[c] # None
        <3> DEFINE x == <<upSession[c], EventDownSessionBroken(sessionID[c])>>
        <3>1. upSession[c] \in PoolSession
            BY <1>0, <2>2 DEF Surroundings, CustodyInv, TypeInv, DownInv
        <3>2. Broken(c) \cap Leaving(c) = {x}
            BY <2>2, <3>1 DEF Broken, Leaving
        <3> HIDE DEF x
        <3> QED
            BY <1>1, <3>2 DEF Passes
    <2> QED
        BY <2>1, <2>2
<1> QED
    BY <1>3, <1>5, <1>6, <1>7 DEF Fate

LEMMA ConnBrokenSettles ==
    ASSUME Surroundings, BooksInv, [Next]_vars, TypeInv', IdsDiffer', UNCHANGED poolVars,
           NEW c \in Miner, ConnBroken(c)
    PROVE  Settles
<1>0. TypeInv /\ KnownKept /\ c \in Known /\ c \notin Closed /\ IdsDiffer
    BY KnownStays, RunnersAreKnown DEF Surroundings, CustodyInv, TypeInv, ConnBroken
<1>1. /\ Passes({<<c, Head(chan[c])>>}, Broken(c)) /\ Head(chan[c]).type = "ConnBroken"
      /\ \A x \in Broken(c) : x[2] = EventDownSessionBroken(sessionID[c])
    BY <1>0, ConnBrokenMail
<1> DEFINE e == Head(chan[c])
<1>2. UNCHANGED <<sessionID, subAccount, upSession>> /\ downStat'[c] = "disconnected"
    BY <1>0 DEF ConnBroken, Close, TypeInv, LeaseInv
<1>3. UNCHANGED Known /\ c \in Closed'
    BY <1>0, <1>2 DEF Known, Closed
<1>4. upSession[c] # None =>
         /\ Broken(c) = {<<upSession[c], EventDownSessionBroken(sessionID[c])>>}
         /\ upSession[c] \in PoolSession
    BY <1>0 DEF Broken, TypeInv, DownInv
<1>5. upSession[c] = None => Broken(c) = {}
    BY DEF Broken
<1> HIDE DEF e
<1>6. Broken(c) \subseteq Tidy'
    <2> SUFFICES ASSUME upSession[c] # None
                 PROVE  <<upSession[c], EventDownSessionBroken(sessionID[c])>> \in Tidy'
        BY <1>4, <1>5
    <2>1. upSession[c] \in Actor /\ sessionID[c] \in Nat
        BY <1>0, <1>4, Actors, IdAssumption DEF Known, SessionIds
    <2> DEFINE g == EventDownSessionBroken(sessionID[c])
    <2>2. g \in Event /\ g.type = "DownSessionBroken" /\ g.sessionID = sessionID[c]
        BY <2>1, SessionEvents
    <2>3. \A d \in Known' : sessionID'[d] = sessionID[c] => d \in Closed' /\ upSession'[d] = upSession[c]
        BY <1>0, <1>2, <1>3 DEF IdsDiffer
    <2> HIDE DEF g
    <2>4. <<upSession[c], g>> \in Tidy'
        BY <2>1, <2>2, <2>3 DEF Tidy
    <2> QED
        BY <2>4 DEF g
<1>7. Ledger'
    <2>1. \A u \in Up, d \in Miner : {<<c, e>>} \cap Joining(u, d) = {} /\ Broken(c) \cap Joining(u, d) = {}
        BY <1>1, KeyTypes DEF Joining, e
    <2>2. \A m \in Mgr, s \in Slot, n \in Nat :
             <<m, EventUpdateMinerNum(s, n)>> \notin {<<c, e>>} /\ <<m, EventUpdateMinerNum(s, n)>> \notin Broken(c)
        BY <1>1, KeyTypes DEF e
    <2>3. Passes({<<c, e>>}, Broken(c))
        BY <1>1 DEF e
    <2> QED
        BY <2>1, <2>2, <2>3, StillPools, LedgerKept
<1>8. Fates'
    <2>1. Fate(c)'
        BY <1>0, <1>1, <1>2, GoneFate
    <2>2. ASSUME NEW d \in Known \ {c}
          PROVE  {<<c, Head(chan[c])>>} \cap FateKinds(d) = {} /\ Broken(c) \cap FateKinds(d) = {}
        <3>1. sessionID[d] # sessionID[c]
            BY <1>0, <2>2 DEF IdsDiffer
        <3> QED
            BY <1>1, <3>1, KeyTypes DEF FateKinds, Leaving
    <2>3. \A d \in Known \ {c}, u \in Up :
             /\ UpLoop(u)' /\ upSession'[d] = u => UpLoop(u) /\ upSession[d] = u
             /\ d \in Served(u) => d \in Served(u)'
        BY <1>2, StillPools
    <2> QED
        BY <1>0, <1>1, <1>3, <2>1, <2>2, <2>3, FatesKept
<1> QED
    BY <1>1, <1>6, <1>7, <1>8 DEF Settles

-----------------------------------------------------------------------------
(* The fake sessions.                                                      *)

\* Whom a session hears of that has left.
LEMMA LeaverIs ==
    ASSUME TypeInv, Mail(chan, spawned, Tidy), NEW p \in PoolSession, chan[p] # <<>>,
           NEW STATE id, Head(chan[p]) = EventDownSessionBroken(id)
    PROVE  \E c \in Closed : sessionID[c] = id /\ upSession[c] = p
<1>1. p \in Actor /\ IsChan(chan)
    BY Actors DEF TypeInv, MailInv, Mail
<1>2. <<p, Head(chan[p])>> \in Tidy /\ <<p, Head(chan[p])>> \in Messages
    <2>1. 1 \in DOMAIN chan[p] /\ Head(chan[p]) = chan[p][1]
        BY <1>1, TakenChannel
    <2>2. <<p, Head(chan[p])>> \in Messages
        BY <1>1, <2>1 DEF TypeInv, MailInv, Mail
    <2> QED
        BY <1>1, <2>2, FirstIsTidy
<1>3. Head(chan[p]).type = "DownSessionBroken" /\ Head(chan[p]).sessionID = id
    BY DEF EventDownSessionBroken
<1>4. PICK c \in Closed : sessionID[c] = id
    BY <1>2, <1>3 DEF Messages
<1>5. upSession[c] = p
    BY <1>2, <1>3, <1>4 DEF Tidy, Closed
<1> QED
    BY <1>4, <1>5

\* The pool sessions and managers do not change.
LEMMA FakeStill ==
    ASSUME TypeInv, NEW m \in Mgr, FakeHandles(m, sessionID), UNCHANGED mgrVars
    PROVE  /\ \A u \in Up : Served(u)' = Served(u) /\ disconnected'[u] = disconnected[u]
           /\ \A u \in Up : UpLoop(u)' => UpLoop(u)
           /\ \A n \in Mgr, s \in Slot :
                 Minded(n)' => /\ Minded(n)
                               /\ SessionsOf(n, s)' = SessionsOf(n, s)
                               /\ minerNum'[n][s] = minerNum[n][s]
<1> DEFINE p == Fake(m)
<1>0. p \in PoolSession /\ \A u \in Up : u \in PoolSession /\ u # p
    BY Actors, NoMgr
<1>1. UNCHANGED upVars
    BY DEF FakeHandles, FakeAddDownSession, FakeDownSessionBroken, FakeSendUpdateMinerNum,
           FakeTransferDownSessions, FakeExit
<1>2. \A q \in PoolSession \ {p} : downSessions'[q] = downSessions[q]
    BY DEF FakeHandles, FakeAddDownSession, FakeDownSessionBroken, FakeSendUpdateMinerNum,
           FakeTransferDownSessions, FakeMapCleared, FakeExit, mapVars, TypeInv, MapInv
<1>3. \A q \in PoolSession \ {p} : disconnected'[q] = disconnected[q]
    BY DEF FakeHandles, FakeAddDownSession, FakeDownSessionBroken, FakeSendUpdateMinerNum, Counts,
           FakeTransferDownSessions, FakeExit, mapVars, TypeInv, MapInv
<1> HIDE DEF p
<1>4. \A u \in Up : Served(u)' = Served(u) /\ disconnected'[u] = disconnected[u]
    BY <1>0, <1>2, <1>3 DEF Served
<1>5. \A u \in Up : UpLoop(u)' => UpLoop(u)
    BY <1>1 DEF upVars, UpLoop
<1>6. \A n \in Mgr, s \in Slot :
         Minded(n)' => /\ Minded(n)
                       /\ SessionsOf(n, s)' = SessionsOf(n, s)
                       /\ minerNum'[n][s] = minerNum[n][s]
    BY <1>1 DEF upVars, mgrVars, slotVars, SessionsOf, UpLoop, Minded
<1> QED
    BY <1>4, <1>5, <1>6

LEMMA FakeQuiet ==
    ASSUME TypeInv, NEW m \in Mgr, FakeHandles(m, sessionID), ~FakeDownSessionBroken(m)
    PROVE  Quiet
<1>0. /\ Fake(m) \in Actor /\ m \in Actor /\ Miner \subseteq Actor /\ Fake(m) \notin Up /\ m \notin Up
      /\ MailInv /\ {} \subseteq Ordinary /\ Served(Fake(m)) \subseteq Miner
    BY NoMgr, Actors DEF TypeInv, MapInv, Known
<1>1. CASE FakeAddDownSession(m, sessionID)
    <2> DEFINE e == Head(chan[Fake(m)])
    <2>1. Passes({<<Fake(m), e>>}, {}) /\ e = EventAddDownSession(e.session)
        BY <1>1, FakeAddMail
    <2>2. e.type = "AddDownSession"
        BY <2>1, KeyTypes
    <2> HIDE DEF e
    <2>3. {<<Fake(m), e>>} \cap KeyEvents = {}
        BY <1>0, <2>2, NoKey
    <2> QED
        BY <1>0, <2>1, <2>3, QuietStep
<1>2. CASE FakeSendUpdateMinerNum(m)
    <2> DEFINE e == EventUpdateFakeMinerNum(disconnected[Fake(m)])
    <2>1. /\ Passes({<<Fake(m), Head(chan[Fake(m)])>>}, {<<m, e>>})
          /\ Head(chan[Fake(m)]).type = "SendUpdateMinerNum"
          /\ e \in Event /\ e.type = "UpdateFakeMinerNum"
        BY <1>2, FakeSendUpdateMail
    <2> HIDE DEF e
    <2>2. {<<m, e>>} \subseteq Ordinary
        BY <1>0, <2>1, OrdinaryIs
    <2>3. {<<Fake(m), Head(chan[Fake(m)])>>} \cap KeyEvents = {}
        BY <2>1, NoKey
    <2> QED
        BY <2>1, <2>2, <2>3, QuietStep
<1>3. CASE FakeTransferDownSessions(m)
    <2> DEFINE out == Returns(m) \cup {<<m, GivenBack(m)>>}
    <2>1. /\ Passes({<<Fake(m), Head(chan[Fake(m)])>>}, out)
          /\ Head(chan[Fake(m)]).type = "TransferDownSessions"
          /\ GivenBack(m) \in Event /\ GivenBack(m).type = "UpdateFakeMinerNum"
        BY <1>3, FakeTransferMail
    <2>2. <<m, GivenBack(m)>> \in Ordinary
        BY <1>0, <2>1, OrdinaryIs
    <2>3. \A d \in Served(Fake(m)) : <<m, EventAddDownSession(d)>> \in Ordinary
        BY <1>0, OrdinaryIs, SessionEvents
    <2>4. out \subseteq Ordinary
        BY <2>2, <2>3 DEF Returns
    <2> HIDE DEF out
    <2>5. {<<Fake(m), Head(chan[Fake(m)])>>} \cap KeyEvents = {}
        BY <2>1, NoKey
    <2> QED
        BY <2>1, <2>4, <2>5, QuietStep
<1>4. CASE FakeExit(m)
    <2>1. Passes({<<Fake(m), Head(chan[Fake(m)])>>}, Released(m)) /\ Head(chan[Fake(m)]).type = "Exit"
        BY <1>4, FakeExitMail
    <2>2. \A d \in Miner : <<d, EventExit>> \in Ordinary
        BY <1>0, OrdinaryIs, PlainEvents
    <2>3. Released(m) \subseteq Ordinary
        BY <1>0, <2>2 DEF Released
    <2>4. {<<Fake(m), Head(chan[Fake(m)])>>} \cap KeyEvents = {}
        BY <2>1, NoKey
    <2> QED
        BY <2>1, <2>3, <2>4, QuietStep
<1> QED
    BY <1>1, <1>2, <1>3, <1>4 DEF FakeHandles

\* The session of c, p, hears that it has left.
LEMMA HeardFate ==
    ASSUME Surroundings, BooksInv, KnownKept, UNCHANGED upSession, NEW c, c \in Closed, NEW p,
           upSession[c] = p, p \in PoolSession,
           NEW ACTION out, Passes({<<p, EventDownSessionBroken(sessionID[c])>>}, out),
           \A x \in out : x[2].type \notin {"AddDownSession", "DownSessionBroken"},
           \A u \in Up : UpLoop(u)' => UpLoop(u)
    PROVE  Fate(c)'
<1>0. /\ c \in Known /\ c \in Miner /\ Fate(c) /\ sessionID'[c] = sessionID[c] /\ c \in Closed'
      /\ AtMostOne(chan, spawned, Leaving(c)) /\ Ordered(c)
    BY DEF Surroundings, CustodyInv, BooksInv, Fates, Fate, Known, Closed, KnownKept
<1> DEFINE x == <<p, EventDownSessionBroken(sessionID[c])>>
<1>1. out \cap Leaving(c) = {} /\ {x} \cap Leaving(c) # {}
    <2>1. x \in Leaving(c)
        BY DEF Leaving
    <2>2. \A y \in Leaving(c) : y[2].type = "DownSessionBroken"
        BY KeyTypes DEF Leaving
    <2> HIDE DEF x
    <2> QED
        BY <2>1, <2>2
<1>2. \A a : <<a, EventAddDownSession(c)>> \notin out
    BY KeyTypes
<1> HIDE DEF x
<1>3. Passes({x}, out)
    BY DEF x
<1>4. Free(chan', spawned', Leaving(c)) /\ AtMostOne(chan', spawned', Leaving(c))
    BY <1>0, <1>1, <1>3 DEF Passes
<1>5. Leaving(c)' = Leaving(c)
    BY <1>0 DEF Leaving
<1>6. Ordered(c)'
    BY <1>0, <1>2, <1>3, OrderedStays
<1>7. \A u \in Up : Expected(c, u)'
    BY <1>0, <1>4, <1>5 DEF Expected
<1> QED
    BY <1>4, <1>5, <1>6, <1>7 DEF Fate

LEMMA FakeHearsSettles ==
    ASSUME Surroundings, BooksInv, [Next]_vars, TypeInv', IdsDiffer', NEW m \in Mgr, FakeDownSessionBroken(m),
           FakeRuns(m)
    PROVE  Settles
<1>0. /\ TypeInv /\ KnownKept /\ IdsDiffer /\ Mail(chan, spawned, Tidy) /\ Fake(m) \in PoolSession
      /\ Fake(m) \in Actor /\ Fake(m) \notin Up
    BY KnownStays, Actors, NoMgr DEF Surroundings, CustodyInv, TypeInv, BooksInv
<1>1. UNCHANGED <<downVars, mgrVars>> /\ FakeHandles(m, sessionID)
    BY DEF FakeRuns
<1> DEFINE e == Head(chan[Fake(m)])
           id == e.sessionID
<1>2. Passes({<<Fake(m), e>>}, Timer(Fake(m))) /\ e = EventDownSessionBroken(id) /\ chan[Fake(m)] # <<>>
    BY <1>0, FakeBrokenMail DEF FakeDownSessionBroken, FakeReceives, Receives
<1>3. PICK c \in Closed : sessionID[c] = id /\ upSession[c] = Fake(m)
    BY <1>0, <1>2, LeaverIs
<1> DEFINE x == <<Fake(m), EventDownSessionBroken(sessionID[c])>>
           out == Timer(Fake(m))
<1>4. Passes({x}, out)
    BY <1>2, <1>3
<1>5. out \subseteq {<<Fake(m), EventSendUpdateMinerNum>>} /\ <<Fake(m), EventSendUpdateMinerNum>> \in Ordinary
    BY <1>0, OrdinaryIs, PlainEvents DEF Timer
<1>6. out \subseteq Tidy' /\ out \cap KeyEvents = {}
    BY <1>5, OrdinaryIs
<1>7. \A y \in out : y[2].type \notin {"AddDownSession", "DownSessionBroken"}
    BY <1>5, PlainEvents
<1>8. UNCHANGED <<Known, upSession>>
    BY <1>1 DEF downVars, Known
<1> HIDE DEF e, id, out
<1>9. Fate(c)'
    BY <1>0, <1>1, <1>3, <1>4, <1>7, <1>8, FakeStill, HeardFate
<1>10. Fates'
    <2>1. ASSUME NEW d \in Known \ {c} PROVE {x} \cap FateKinds(d) = {} /\ out \cap FateKinds(d) = {}
        <3>1. sessionID[d] # sessionID[c]
            BY <1>0, <2>1 DEF IdsDiffer, Closed
        <3>2. {x} \cap FateKinds(d) = {}
            BY <3>1, WhoseFate, KeyTypes
        <3>3. FateKinds(d) \subseteq KeyEvents
            BY <2>1, FateKindsAre
        <3> QED
            BY <1>6, <3>2, <3>3
    <2>2. \A d \in Known \ {c}, u \in Up :
             /\ UpLoop(u)' /\ upSession'[d] = u => UpLoop(u) /\ upSession[d] = u
             /\ d \in Served(u) => d \in Served(u)'
        BY <1>0, <1>1, <1>8, FakeStill
    <2> HIDE DEF x
    <2> QED
        BY <1>0, <1>4, <1>8, <1>9, <2>1, <2>2, FatesKept
<1>11. Ledger'
    <2>1. \A u \in Up, d \in Miner : {x} \cap Joining(u, d) = {} /\ out \cap Joining(u, d) = {}
        <3>1. \A u \in Up, d \in Miner : {x} \cap Joining(u, d) = {}
            BY WhoJoins, KeyTypes
        <3> QED
            BY <1>6, <3>1, KeysAre
    <2>2. \A n \in Mgr, s \in Slot, k \in Nat :
             <<n, EventUpdateMinerNum(s, k)>> \notin {x} /\ <<n, EventUpdateMinerNum(s, k)>> \notin out
        <3>1. \A n \in Mgr, s \in Slot, k \in Nat : <<n, EventUpdateMinerNum(s, k)>> # x
            BY KeyTypes
        <3> QED
            BY <1>6, <3>1, KeysAre
    <2> HIDE DEF x
    <2> QED
        BY <1>0, <1>1, <1>4, <2>1, <2>2, FakeStill, LedgerKept
<1> QED
    BY <1>4, <1>6, <1>10, <1>11 DEF Settles

LEMMA FakeSettles ==
    ASSUME Surroundings, BooksInv, [Next]_vars, TypeInv', IdsDiffer', NEW m \in Mgr, FakeRuns(m)
    PROVE  Settles
<1>0. TypeInv
    BY DEF Surroundings, CustodyInv
<1>1. CASE FakeDownSessionBroken(m)
    BY <1>1, FakeHearsSettles
<1>2. CASE ~FakeDownSessionBroken(m)
    <2>1. UNCHANGED <<downVars, mgrVars>> /\ FakeHandles(m, sessionID)
        BY DEF FakeRuns
    <2>2. Quiet
        BY <1>0, <1>2, <2>1, FakeQuiet
    <2>3. \A d \in Known, u \in Up : UpLoop(u)' /\ upSession'[d] = u => UpLoop(u) /\ upSession[d] = u
        BY <1>0, <2>1, FakeStill DEF downVars
    <2>4. /\ \A u \in Up : Served(u)' = Served(u) /\ disconnected'[u] = disconnected[u]
          /\ \A n \in Mgr, s \in Slot :
                Minded(n)' => /\ Minded(n)
                              /\ SessionsOf(n, s)' = SessionsOf(n, s)
                              /\ minerNum'[n][s] = minerNum[n][s]
        BY <1>0, <2>1, FakeStill
    <2> QED
        BY <2>2, <2>3, <2>4, QuietSettles
<1> QED
    BY <1>1, <1>2

-----------------------------------------------------------------------------
(* The pool sessions.                                                      *)

\* Sessions and managers stay what they are.
LEMMA StayingSessions ==
    ASSUME UNCHANGED <<upVars, mgrVars>>
    PROVE  /\ \A v \in Up : UpLoop(v)' <=> UpLoop(v)
           /\ \A m \in Mgr, s \in Slot :
                 Minded(m)' => /\ Minded(m)
                               /\ SessionsOf(m, s)' = SessionsOf(m, s)
                               /\ minerNum'[m][s] = minerNum[m][s]
BY DEF upVars, mgrVars, slotVars, UpLoop, SessionsOf, Minded

LEMMA OthersServe ==
    ASSUME TypeInv, NEW u \in Up, OneMap(u), UNCHANGED disconnected \/ Counts(u)
    PROVE  \A v \in Up \ {u} : Served(v)' = Served(v) /\ disconnected'[v] = disconnected[v]
<1>1. \A v \in Up \ {u} : v \in PoolSession \ {u}
    BY Actors
<1>2. \A v \in Up \ {u} : downSessions'[v] = downSessions[v]
    BY <1>1 DEF OneMap
<1>3. \A v \in Up \ {u} : disconnected'[v] = disconnected[v]
    BY <1>1 DEF Counts, TypeInv, MapInv
<1> QED
    BY <1>2, <1>3 DEF Served

LEMMA UpExitSettles ==
    ASSUME Surroundings, BooksInv, [Next]_vars, TypeInv', IdsDiffer', NEW u \in Up, UpExit(u), UpRuns(u)
    PROVE  Settles
<1>0. TypeInv /\ OwnerInv /\ Miner \subseteq Actor /\ Mgr \subseteq Actor
    BY Actors DEF Surroundings, CustodyInv, SlotsInv
<1>1. UNCHANGED <<downVars, mgrVars>>
    BY DEF UpRuns
<1>2. /\ UNCHANGED <<upMgr, upSlot, mapVars>> /\ upMgr[u] \in Mgr \ mgrLoop
      /\ upStat' = [upStat EXCEPT ![u] = "disconnected"]
    BY <1>0, ExitingHasNoManager
<1>3. upStat \in [Up -> {"none", "authorized", "disconnected"}] /\ mgrAccount[upMgr[u]] # None
    BY <1>0, <1>2, NoMgr DEF TypeInv, UpInv, OwnerInv
<1>4. Passes({<<u, Head(chan[u])>>}, UpClosePending(u, Served(u))) /\ Head(chan[u]).type = "Exit"
    BY <1>0, UpExitMail
<1>5. UpClosePending(u, Served(u)) \subseteq Ordinary
    <2>1. Served(u) \subseteq Miner /\ upMgr[u] \in Actor /\ upMgr[u] \notin Up
        BY <1>0, <1>2, Actors, NoMgr DEF TypeInv, MapInv, Known
    <2>2. \A d \in Miner : <<upMgr[u], EventAddDownSession(d)>> \in Ordinary /\ <<d, EventExit>> \in Ordinary
        BY <1>0, <2>1, OrdinaryIs, SessionEvents, PlainEvents
    <2> QED
        BY <2>1, <2>2 DEF UpClosePending
<1>6. Quiet
    <2>1. {<<u, Head(chan[u])>>} \cap KeyEvents = {}
        BY <1>4, NoKey
    <2> QED
        BY <1>4, <1>5, <2>1, QuietStep
<1>7. \A v \in Up : UpLoop(v)' => UpLoop(v)
    BY <1>2, <1>3 DEF UpLoop
<1>8. \A v \in Up : Served(v)' = Served(v) /\ disconnected'[v] = disconnected[v]
    BY <1>2 DEF mapVars, Served
<1>9. ASSUME NEW m \in Mgr, NEW s \in Slot, Minded(m)'
      PROVE  /\ Minded(m)
             /\ SessionsOf(m, s)' = SessionsOf(m, s)
             /\ minerNum'[m][s] = minerNum[m][s]
    <2>1. Minded(m) /\ minerNum'[m][s] = minerNum[m][s]
        BY <1>1, <1>9 DEF Minded, mgrVars, slotVars
    <2>2. m # upMgr[u]
        BY <1>2, <1>3, <2>1 DEF Minded
    <2>3. \A v \in Up \ {u} : UpLoop(v)' <=> UpLoop(v)
        BY <1>2, <1>3 DEF UpLoop
    <2>4. SessionsOf(m, s)' = SessionsOf(m, s)
        BY <1>2, <2>2, <2>3 DEF SessionsOf
    <2> QED
        BY <2>1, <2>4
<1>10. \A d \in Known, v \in Up : UpLoop(v)' /\ upSession'[d] = v => UpLoop(v) /\ upSession[d] = v
    BY <1>1, <1>7 DEF downVars
<1> QED
    BY <1>6, <1>8, <1>9, <1>10, QuietSettles

-----------------------------------------------------------------------------
(* A miner joins.                                                          *)

\* Whom a session serves once d is in its map.
LEMMA JoinedServed ==
    ASSUME TypeInv, IdsDiffer, NEW u \in Up, NEW d \in Known,
           downSessions'[u] = Put(downSessions[u], sessionID[d], d)
    PROVE  Served(u)' = Served(u) \cup {d}
<1> DEFINE f == downSessions[u]
           g == Put(f, sessionID[d], d)
<1>0. Served(u) \subseteq Known /\ ByOwnId(f)
    BY Actors DEF TypeInv, MapInv
<1>1. Served(u) = Values(f) /\ Served(u)' = Values(g)
    BY DEF Served, Values
<1>2. Values(g) \subseteq Values(f) \cup {d} /\ d \in Values(g) /\ \A i \in DOMAIN f \ {sessionID[d]} : f[i] \in Values(g)
    BY PutValues
<1> HIDE DEF f, g
<1>3. ASSUME NEW c \in Values(f) PROVE c \in Values(g)
    <2>1. PICK i \in DOMAIN f : c = f[i]
        BY <1>3 DEF Values
    <2>2. CASE i = sessionID[d]
        <3>1. sessionID[c] = sessionID[d] /\ c \in Known
            BY <1>0, <1>1, <2>1, <2>2 DEF ByOwnId
        <3> QED
            BY <1>2, <3>1 DEF IdsDiffer
    <2>3. CASE i # sessionID[d]
        BY <1>2, <2>1, <2>3
    <2> QED
        BY <2>2, <2>3
<1> QED
    BY <1>1, <1>2, <1>3

LEMMA JoinedFate ==
    ASSUME Surroundings, BooksInv, KnownKept, UNCHANGED upSession, NEW u \in Up, NEW d \in Known,
           Passes({<<u, EventAddDownSession(d)>>}, {}), d \in Served(u)',
           \A v \in Up : UpLoop(v)' => UpLoop(v),
           \A v \in Up \ {u} : Served(v)' = Served(v)
    PROVE  Fate(d)'
<1> DEFINE x == <<u, EventAddDownSession(d)>>
           none == {}
<1>0. /\ Fate(d) /\ Custody(d) /\ sessionID'[d] = sessionID[d] /\ none = {} /\ Passes({x}, none)
    BY DEF Surroundings, CustodyInv, BooksInv, Fates, Known, KnownKept
<1>1. {x} \cap Leaving(d) = {}
    BY KeyTypes DEF Leaving
<1> HIDE DEF x, none
<1>2. AtMostOne(chan', spawned', Leaving(d)) /\ (Free(chan', spawned', Leaving(d)) <=> Free(chan, spawned, Leaving(d)))
    BY <1>0, <1>1, KindStays DEF Fate
<1>3. Leaving(d)' = Leaving(d)
    BY <1>0 DEF Leaving
<1>4. Ordered(d)'
    BY <1>0, OrderedStays DEF Fate
<1>5. ASSUME NEW v \in Up PROVE Expected(d, v)'
    <2>1. CASE v = u
        BY <2>1 DEF Expected
    <2>2. CASE v # u
        <3>1. <<v, EventAddDownSession(d)>> \notin {x} /\ <<v, EventAddDownSession(d)>> \notin none
            BY <1>0, <2>2 DEF x
        <3>2. Expected(d, v) /\ (d \in Served(v) => d \in Served(v)')
            BY <1>0, <2>2 DEF Fate
        <3>3. Free(chan, spawned, Leaving(d)) /\ d \in Closed => Free(chan', spawned', Leaving(d))
            BY <1>2
        <3>4. UpLoop(v)' /\ upSession'[d] = v => UpLoop(v) /\ upSession[d] = v
            OBVIOUS
        <3> QED
            BY <1>0, <3>1, <3>2, <3>3, <3>4, ExpectedStays
    <2> QED
        BY <2>1, <2>2
<1> QED
    BY <1>2, <1>3, <1>4, <1>5 DEF Fate

\* The miner that joins belonged to the session before.
LEMMA JoinedLoad ==
    ASSUME Surroundings, NEW u \in Up, NEW d \in Known, chan[u] # <<>>, Head(chan[u]) = EventAddDownSession(d),
           Passes({<<u, EventAddDownSession(d)>>}, {}), Served(u)' = Served(u) \cup {d},
           \A v \in Up \ {u} : Served(v)' = Served(v), UNCHANGED disconnected, NEW v \in Up
    PROVE  Load(v)' = Load(v)
<1> DEFINE x == <<u, EventAddDownSession(d)>>
           none == {}
<1>0. /\ \A c \in Miner : Custody(c)
      /\ none = {} /\ Passes({x}, none) /\ u \in Actor /\ IsChan(chan) /\ d \in Miner
    BY Actors DEF Surroundings, CustodyInv, TypeInv, MailInv, Mail, Known
<1>1. ASSUME NEW c \in Miner PROVE c \in Belongs(v)' <=> c \in Belongs(v)
    <2>1. CASE v = u /\ c = d
        <3>1. <<u, Head(chan[u])>> \in Joining(u, d)
            BY DEF Joining
        <3>2. ~Free(chan, spawned, Joining(u, d))
            BY <1>0, <3>1, HeadIsSent
        <3> QED
            BY <1>0, <2>1, <3>2 DEF Belongs
    <2>2. CASE ~(v = u /\ c = d)
        <3>1. {x} \cap Joining(v, c) = {} /\ none \cap Joining(v, c) = {}
            BY <1>0, <2>2, WhoJoins, KeyTypes
        <3>2. c \in Served(v)' <=> c \in Served(v)
            BY <2>2
        <3> HIDE DEF x, none
        <3> QED
            BY <1>0, <3>1, <3>2, BelongsStays
    <2> QED
        BY <2>1, <2>2
<1>2. Belongs(v)' = Belongs(v)
    BY <1>1 DEF Belongs
<1> QED
    BY <1>2 DEF Load

LEMMA UpAddSettles ==
    ASSUME Surroundings, BooksInv, [Next]_vars, TypeInv', IdsDiffer', NEW u \in Up,
           UpAddDownSession(u, sessionID), UNCHANGED upVars, UpRuns(u)
    PROVE  Settles
<1>0. TypeInv /\ KnownKept /\ IdsDiffer /\ UpLoop(u)
    BY KnownStays DEF Surroundings, CustodyInv, TypeInv, UpAddDownSession
<1>1. UNCHANGED <<downVars, mgrVars, upVars>> /\ chan[u] # <<>>
    BY DEF UpRuns, UpAddDownSession, Receives
<1> DEFINE d == Head(chan[u]).session
           f == Put(downSessions[u], sessionID[d], d)
<1>2. /\ d \in Known /\ Head(chan[u]) = EventAddDownSession(d)
      /\ OneMap(u) /\ downSessions'[u] = f
      /\ UNCHANGED disconnected
      /\ UpStays(u, {}) \/ UpGoes(u, Values(f), {})
    BY <1>0, UpAddMail
<1>3. UpStays(u, {})
    <2>1. ~UpCloses(u)
        BY <1>0, <1>1 DEF UpCloses, upVars, UpLoop, TypeInv, UpInv
    <2> QED
        BY <1>2, <2>1 DEF UpGoes
<1>4. Passes({<<u, EventAddDownSession(d)>>}, {})
    BY <1>2, <1>3 DEF UpStays
<1>5. PICK c \in Known : c = d
    BY <1>2
<1> HIDE DEF d
<1>6. Passes({<<u, EventAddDownSession(c)>>}, {}) /\ Head(chan[u]) = EventAddDownSession(c)
    BY <1>2, <1>4, <1>5
<1>7. Served(u)' = Served(u) \cup {c}
    BY <1>0, <1>2, <1>5, JoinedServed
<1>8. \A v \in Up \ {u} : Served(v)' = Served(v)
    BY <1>0, <1>2, OthersServe
<1>9. \A v \in Up : Load(v)' = Load(v)
    BY <1>1, <1>2, <1>6, <1>7, <1>8, JoinedLoad
<1> DEFINE x == <<u, EventAddDownSession(c)>>
           none == {}
<1>10. Passes({x}, none) /\ none = {}
    BY <1>6
<1>11. Ledger'
    <2>1. \A m \in Mgr, s \in Slot, n \in Nat :
             <<m, EventUpdateMinerNum(s, n)>> \notin {x} /\ <<m, EventUpdateMinerNum(s, n)>> \notin none
        BY KeyTypes
    <2> HIDE DEF x, none
    <2> QED
        BY <1>1, <1>9, <1>10, <2>1, StayingSessions, LedgerOfLoads
<1>12. Fates'
    <2>1. UNCHANGED <<Known, upSession>>
        BY <1>1 DEF downVars, Known
    <2>2. Fate(c)'
        BY <1>0, <1>1, <1>6, <1>7, <1>8, <2>1, StayingSessions, JoinedFate
    <2>3. ASSUME NEW a \in Known \ {c} PROVE {x} \cap FateKinds(a) = {} /\ none \cap FateKinds(a) = {}
        BY WhoseFate, KeyTypes
    <2>4. \A a \in Known \ {c}, v \in Up :
             /\ UpLoop(v)' /\ upSession'[a] = v => UpLoop(v) /\ upSession[a] = v
             /\ a \in Served(v) => a \in Served(v)'
        BY <1>1, <1>7, <1>8, <2>1, StayingSessions
    <2> HIDE DEF x, none
    <2> QED
        BY <1>0, <1>10, <2>1, <2>2, <2>3, <2>4, FatesKept
<1> QED
    BY <1>10, <1>11, <1>12 DEF Settles

-----------------------------------------------------------------------------
(* A miner leaves.                                                         *)

\* A session that hears that c has left serves it: c joined before.
LEMMA LeaverIsServed ==
    ASSUME Surroundings, BooksInv, NEW u \in Up, UpLoop(u), chan[u] # <<>>,
           NEW c \in Closed, upSession[c] = u, Head(chan[u]) = EventDownSessionBroken(sessionID[c])
    PROVE  c \in Served(u) /\ Free(chan, spawned, Joining(u, c))
<1> DEFINE y == EventAddDownSession(c)
           x == EventDownSessionBroken(sessionID[c])
<1>0. /\ c \in Known /\ c \in Miner /\ Custody(c) /\ Fate(c) /\ u \in Actor /\ u \in PoolSession /\ IsChan(chan)
      /\ MailInv
    BY Actors DEF Surroundings, CustodyInv, TypeInv, MailInv, Mail, BooksInv, Fates, Known, Closed
<1>1. ~Free(chan, spawned, Leaving(c))
    <2>1. <<u, Head(chan[u])>> \in Leaving(c)
        BY <1>0 DEF Leaving
    <2> QED
        BY <1>0, <2>1, HeadIsSent
<1>2. c \in Served(u) \/ ~Free(chan, spawned, {<<u, y>>})
    BY <1>0, <1>1 DEF Fate, Expected
<1>3. /\ <<u, y>> \notin DOMAIN spawned
      /\ Ahead(chan[u], y, x)
    BY <1>0 DEF Fate, Ordered
<1>4. 1 \in DOMAIN chan[u] /\ chan[u][1] = x /\ IsSequence(chan[u])
    BY <1>0, TakenChannel DEF IsChan
<1> HIDE DEF x, y
<1>5. Free(chan, spawned, {<<u, y>>})
    <2>1. ~Pends(spawned, {<<u, y>>})
        BY <1>3 DEF Pends
    <2>2. ASSUME NEW i \in DOMAIN chan[u], chan[u][i] = y PROVE FALSE
        <3>1. i < 1
            BY <1>3, <1>4, <2>2 DEF Ahead
        <3>2. i \in 1 .. Len(chan[u])
            BY <1>4 DEF IsSequence
        <3> QED
            BY <3>1, <3>2
    <2>3. ~Waits(chan, {<<u, y>>})
        BY <2>2 DEF Waits
    <2> QED
        BY <2>1, <2>3 DEF Free
<1>6. c \in Served(u)
    BY <1>2, <1>5
<1>7. Unsent(c)
    BY <1>0, <1>6, ServedOnlyBy, RunningIs
<1>8. Joining(u, c) \subseteq Carriers(c)
    BY <1>0, KeysAre
<1>9. Free(chan, spawned, Joining(u, c))
    BY <1>7, <1>8, KindWithin DEF Unsent
<1> QED
    BY <1>6, <1>9

\* Whom a session serves once c is out of its map.
LEMMA LeftServed ==
    ASSUME TypeInv, NEW u \in Up, NEW c \in Served(u),
           downSessions'[u] = Delete(downSessions[u], sessionID[c])
    PROVE  Served(u)' = Served(u) \ {c}
<1> DEFINE f == downSessions[u]
           g == Delete(f, sessionID[c])
<1>0. ByOwnId(f)
    BY Actors DEF TypeInv, MapInv
<1>1. Served(u) = Values(f) /\ Served(u)' = Values(g)
    BY DEF Served, Values
<1>2. /\ DOMAIN g = DOMAIN f \ {sessionID[c]}
      /\ \A i \in DOMAIN f \ {sessionID[c]} : g[i] = f[i]
    BY DeleteValues
<1>3. PICK j \in DOMAIN f : c = f[j]
    BY <1>1 DEF Values
<1>4. sessionID[c] = j
    BY <1>0, <1>3 DEF ByOwnId
<1> HIDE DEF f, g
<1>5. Values(g) = Values(f) \ {c}
    <2>1. ASSUME NEW d \in Values(g) PROVE d \in Values(f) /\ d # c
        <3>1. PICK i \in DOMAIN g : d = g[i]
            BY <2>1 DEF Values
        <3>2. i \in DOMAIN f /\ i # j /\ d = f[i]
            BY <1>2, <1>4, <3>1
        <3>3. sessionID[d] = i
            BY <1>0, <3>2 DEF ByOwnId
        <3> QED
            BY <1>4, <3>2, <3>3 DEF Values
    <2>2. ASSUME NEW d \in Values(f), d # c PROVE d \in Values(g)
        <3>1. PICK i \in DOMAIN f : d = f[i]
            BY <2>2 DEF Values
        <3>2. i # j
            BY <1>3, <2>2, <3>1
        <3> QED
            BY <1>2, <1>4, <3>1, <3>2 DEF Values
    <2> QED
        BY <2>1, <2>2
<1> QED
    BY <1>1, <1>5

LEMMA BelongsFinite ==
    ASSUME IsFiniteSet(Miner), NEW u
    PROVE  IsFiniteSet(Belongs(u)) /\ Cardinality(Belongs(u)) \in Nat
<1>1. Belongs(u) \in SUBSET Miner
    BY DEF Belongs
<1>2. IsFiniteSet(Belongs(u))
    BY <1>1, FS_Subset
<1> QED
    BY <1>2, FS_CardinalityType

\* The miner that left is counted, and no longer served.
LEMMA LeftLoad ==
    ASSUME Surroundings, NEW u \in Up, NEW c \in Miner, c \in Served(u), Free(chan, spawned, Joining(u, c)),
           NEW STATE id,
           NEW ACTION out, Passes({<<u, EventDownSessionBroken(id)>>}, out), out \cap KeyEvents = {},
           Served(u)' = Served(u) \ {c}, Counts(u),
           \A v \in Up \ {u} : Served(v)' = Served(v), NEW v \in Up
    PROVE  Load(v)' = Load(v)
<1> DEFINE x == <<u, EventDownSessionBroken(id)>>
<1>0. /\ \A d \in Miner : Custody(d)
      /\ disconnected \in [PoolSession -> Nat] /\ v \in PoolSession /\ u \in PoolSession /\ Passes({x}, out)
    BY Actors DEF Surroundings, CustodyInv, TypeInv, MapInv
<1>1. \A d \in Miner : {x} \cap Joining(v, d) = {} /\ out \cap Joining(v, d) = {}
    <2>1. \A d \in Miner : {x} \cap Joining(v, d) = {}
        BY WhoJoins, KeyTypes
    <2> QED
        BY <2>1, KeysAre
<1> HIDE DEF x
<1>2. ASSUME NEW d \in Miner, ~(v = u /\ d = c) PROVE d \in Belongs(v)' <=> d \in Belongs(v)
    <2>1. d \in Served(v)' <=> d \in Served(v)
        BY <1>2
    <2> QED
        BY <1>0, <1>1, <2>1, BelongsStays
<1>3. CASE v = u
    <2>1. AtMostOne(chan, spawned, Joining(u, c))
        BY <1>0, JoiningOnce
    <2>2. Free(chan', spawned', Joining(u, c))
        BY <1>0, <1>1, <1>3, <2>1, KindStays
    <2>3. c \in Belongs(u) /\ c \notin Belongs(u)'
        BY <2>2 DEF Belongs, Joining
    <2>4. Belongs(u)' = Belongs(u) \ {c}
        BY <1>2, <1>3, <2>3 DEF Belongs
    <2>5. disconnected'[u] = disconnected[u] + 1 /\ disconnected[u] \in Nat
        BY <1>0 DEF Counts
    <2> DEFINE B == Belongs(u)
    <2>6. IsFiniteSet(B) /\ Cardinality(B) \in Nat /\ c \in B
        BY <2>3, BelongsFinite DEF Surroundings
    <2> HIDE DEF B
    <2>7. Cardinality(B \ {c}) = Cardinality(B) - 1
        BY <2>6, FS_RemoveElement
    <2>8. Cardinality(Belongs(u)') = Cardinality(B) - 1
        BY <2>4, <2>7 DEF B
    <2>9. Load(u)' = Cardinality(Belongs(u)') + disconnected'[u] /\ Load(u) = Cardinality(B) + disconnected[u]
        BY DEF Load, B
    <2> QED
        BY <1>3, <2>5, <2>6, <2>8, <2>9
<1>4. CASE v # u
    <2>1. Belongs(v)' = Belongs(v)
        BY <1>2, <1>4 DEF Belongs
    <2>2. disconnected'[v] = disconnected[v]
        BY <1>0, <1>4 DEF Counts
    <2> QED
        BY <2>1, <2>2 DEF Load
<1> QED
    BY <1>3, <1>4

LEMMA UpHearsSettles ==
    ASSUME Surroundings, BooksInv, [Next]_vars, TypeInv', IdsDiffer', NEW u \in Up,
           UpDownSessionBroken(u), UNCHANGED upVars, UpRuns(u)
    PROVE  Settles
<1>0. /\ TypeInv /\ KnownKept /\ IdsDiffer /\ UpLoop(u) /\ Mail(chan, spawned, Tidy)
      /\ u \in PoolSession /\ u \in Actor
    BY KnownStays, Actors DEF Surroundings, CustodyInv, TypeInv, UpDownSessionBroken, BooksInv
<1>1. UNCHANGED <<downVars, mgrVars, upVars>> /\ chan[u] # <<>>
    BY DEF UpRuns, UpDownSessionBroken, Receives
<1> DEFINE id == Head(chan[u]).sessionID
           f == Delete(downSessions[u], id)
           out == Timer(u)
<1>2. /\ Head(chan[u]) = EventDownSessionBroken(id)
      /\ OneMap(u) /\ downSessions'[u] = f /\ Counts(u)
      /\ UpStays(u, out) \/ UpGoes(u, Values(f), out)
    BY <1>0, UpBrokenMail
<1>3. UpStays(u, out)
    <2>1. ~UpCloses(u)
        BY <1>0, <1>1 DEF UpCloses, upVars, UpLoop, TypeInv, UpInv
    <2> QED
        BY <1>2, <2>1 DEF UpGoes
<1>4. PICK c \in Closed : sessionID[c] = id /\ upSession[c] = u
    BY <1>0, <1>1, <1>2, LeaverIs
<1> DEFINE x == <<u, EventDownSessionBroken(sessionID[c])>>
<1>5. Passes({x}, out) /\ Head(chan[u]) = EventDownSessionBroken(sessionID[c])
    BY <1>2, <1>3, <1>4 DEF UpStays
<1>6. out \subseteq {<<u, EventSendUpdateMinerNum>>} /\ <<u, EventSendUpdateMinerNum>> \in Ordinary
    BY <1>0, OrdinaryIs, PlainEvents DEF Timer
<1>7. out \subseteq Tidy' /\ out \cap KeyEvents = {}
    BY <1>6, OrdinaryIs
<1>8. \A y \in out : y[2].type \notin {"AddDownSession", "DownSessionBroken"}
    BY <1>6, PlainEvents
<1>9. UNCHANGED <<Known, upSession>> /\ c \in Known /\ c \in Miner
    BY <1>1 DEF downVars, Known, Closed
<1> HIDE DEF id, out
<1>10. c \in Served(u) /\ Free(chan, spawned, Joining(u, c))
    BY <1>0, <1>1, <1>4, <1>5, LeaverIsServed
<1>11. Served(u)' = Served(u) \ {c}
    BY <1>0, <1>2, <1>4, <1>10, LeftServed
<1>12. \A v \in Up \ {u} : Served(v)' = Served(v)
    BY <1>0, <1>2, OthersServe
<1>13. \A v \in Up : Load(v)' = Load(v)
    BY <1>2, <1>5, <1>7, <1>9, <1>10, <1>11, <1>12, LeftLoad
<1>14. Fate(c)'
    BY <1>0, <1>1, <1>4, <1>5, <1>8, <1>9, StayingSessions, HeardFate
<1>15. Fates'
    <2>1. ASSUME NEW d \in Known \ {c} PROVE {x} \cap FateKinds(d) = {} /\ out \cap FateKinds(d) = {}
        <3>1. sessionID[d] # sessionID[c]
            BY <1>0, <1>9, <2>1 DEF IdsDiffer
        <3>2. {x} \cap FateKinds(d) = {}
            BY <3>1, WhoseFate, KeyTypes
        <3>3. FateKinds(d) \subseteq KeyEvents
            BY <2>1, FateKindsAre
        <3> QED
            BY <1>7, <3>2, <3>3
    <2>2. \A d \in Known \ {c}, v \in Up :
             /\ UpLoop(v)' /\ upSession'[d] = v => UpLoop(v) /\ upSession[d] = v
             /\ d \in Served(v) => d \in Served(v)'
        BY <1>1, <1>9, <1>11, <1>12, StayingSessions
    <2> HIDE DEF x
    <2> QED
        BY <1>0, <1>5, <1>9, <1>14, <2>1, <2>2, FatesKept
<1>16. Ledger'
    <2>1. \A n \in Mgr, s \in Slot, k \in Nat :
             <<n, EventUpdateMinerNum(s, k)>> \notin {x} /\ <<n, EventUpdateMinerNum(s, k)>> \notin out
        <3>1. \A n \in Mgr, s \in Slot, k \in Nat : <<n, EventUpdateMinerNum(s, k)>> # x
            BY KeyTypes
        <3> QED
            BY <1>7, <3>1, KeysAre
    <2> HIDE DEF x
    <2> QED
        BY <1>1, <1>5, <1>13, <2>1, StayingSessions, LedgerOfLoads
<1> QED
    BY <1>5, <1>7, <1>15, <1>16 DEF Settles

-----------------------------------------------------------------------------
(* A session reports.                                                      *)

LEMMA ReportingLeavesNobody ==
    ASSUME Surroundings, NEW v \in Up, NEW ACTION in, NEW ACTION out, Passes(in, out),
           \A c \in Miner : in \cap Joining(v, c) = {} /\ out \cap Joining(v, c) = {},
           UNCHANGED downSessions
    PROVE  Belongs(v)' = Belongs(v)
<1>1. (\A c \in Miner : Custody(c)) /\ Served(v)' = Served(v)
    BY DEF Surroundings, CustodyInv, Served
<1>2. \A c \in Miner : c \in Belongs(v)' <=> c \in Belongs(v)
    BY <1>1, BelongsStays
<1> QED
    BY <1>2 DEF Belongs

\* The books of the slot of u, which reports n.
LEMMA ReportingBooks ==
    ASSUME TypeInv, BooksInv, NEW u \in Up, NEW m \in Mgr, NEW s \in Slot,
           SessionsOf(m, s) = {u}, UNCHANGED <<upVars, mgrVars>>, NEW n \in Nat, disconnected[u] = n,
           Cardinality(Belongs(u)) \in Nat, Belongs(u)' = Belongs(u), disconnected'[u] = 0,
           NEW ACTION in, NEW ACTION out, Passes(in, out),
           \A i \in Nat : <<m, EventUpdateMinerNum(s, i)>> \notin in,
           \A i \in Nat : <<m, EventUpdateMinerNum(s, i)>> \in out <=> i = n
    PROVE  IsFiniteSet(Reports(m, s)') /\ (Minded(m)' => Books(m, s)')
<1>0. IsFiniteSet(Reports(m, s)) /\ (Minded(m) => Books(m, s)) /\ MailInv /\ minerNum \in [Mgr -> [Slot -> Int]]
    BY DEF BooksInv, Ledger, TypeInv, MgrInv, CountInv
<1>1. IsFiniteSet(Reports(m, s)') /\ Cardinality(Reports(m, s)') = Cardinality(Reports(m, s)) + n
    BY <1>0, ReportsSent
<1>2. SessionsOf(m, s)' = {u} /\ minerNum' = minerNum /\ (Minded(m)' => Minded(m))
    BY DEF upVars, mgrVars, slotVars, SessionsOf, UpLoop, Minded
<1> DEFINE r == Cardinality(Reports(m, s))
           r1 == Cardinality(Reports(m, s)')
<1>3. r \in Nat /\ r1 = r + n
    BY <1>0, <1>1, FS_CardinalityType
<1>4. Due(m, s) = minerNum[m][s] - r /\ Due(m, s)' = minerNum[m][s] - r1 /\ minerNum[m][s] \in Int
    BY <1>0, <1>2 DEF Due
<1> DEFINE b == Cardinality(Belongs(u))
<1>5. b \in Nat /\ Load(u) = b + n /\ Load(u)' = b
    BY DEF Load
<1> HIDE DEF r, r1, b
<1>6. ASSUME Minded(m)' PROVE Books(m, s)'
    <2>1. Due(m, s) = Load(u)
        BY <1>0, <1>2, <1>6 DEF Books
    <2>2. Due(m, s)' = Load(u)'
        BY <1>3, <1>4, <1>5, <2>1
    <2>3. \A v \in SessionsOf(m, s)' : Due(m, s)' = Load(v)'
        BY <1>2, <2>2
    <2>4. SessionsOf(m, s)' # {}
        BY <1>2
    <2> QED
        BY <2>3, <2>4 DEF Books
<1> QED
    BY <1>1, <1>6

LEMMA OneSession ==
    ASSUME SlotsInv, TypeInv, NEW u \in Up, UpLoop(u)
    PROVE  upMgr[u] \in Mgr /\ upSlot[u] \in Slot /\ SessionsOf(upMgr[u], upSlot[u]) = {u}
<1>1. upMgr[u] \in Mgr /\ upSlot[u] \in Slot
    BY DEF TypeInv, UpInv
<1>2. u \in SessionsOf(upMgr[u], upSlot[u])
    BY DEF SessionsOf
<1>3. \A v, w \in SessionsOf(upMgr[u], upSlot[u]) : v = w
    BY <1>1 DEF SlotsInv, SlotOK
<1> QED
    BY <1>1, <1>2, <1>3

LEMMA UpReportsSettles ==
    ASSUME Surroundings, BooksInv, [Next]_vars, TypeInv', IdsDiffer', NEW u \in Up,
           UpSendUpdateMinerNum(u), UpRuns(u)
    PROVE  Settles
<1>0. /\ TypeInv /\ SlotsInv /\ KnownKept /\ UpLoop(u) /\ Mgr \subseteq Actor /\ Ledger
      /\ disconnected \in [PoolSession -> Nat] /\ u \in PoolSession
    BY KnownStays, Actors DEF Surroundings, CustodyInv, TypeInv, MapInv, UpSendUpdateMinerNum, BooksInv
<1>1. UNCHANGED <<downVars, mgrVars, upVars, downSessions>> /\ disconnected' = [disconnected EXCEPT ![u] = 0]
    BY DEF UpRuns, UpSendUpdateMinerNum, UpReports
<1>2. upMgr[u] \in Mgr /\ upSlot[u] \in Slot /\ SessionsOf(upMgr[u], upSlot[u]) = {u} /\ disconnected[u] \in Nat
    BY <1>0, OneSession
<1>3. PICK m \in Mgr, s \in Slot, n \in Nat : upMgr[u] = m /\ upSlot[u] = s /\ disconnected[u] = n
    BY <1>2
<1> DEFINE e == EventUpdateMinerNum(s, n)
<1>4. PICK h : Head(chan[u]) = h
    OBVIOUS
<1>5. Passes({<<u, h>>}, {<<m, e>>}) /\ h.type = "SendUpdateMinerNum"
    BY <1>0, <1>3, <1>4, UpSendUpdateMinerNumMail
<1>6. m \in Actor /\ e \in Event /\ e.type = "UpdateMinerNum"
    BY <1>0, <1>3, SlotEvents
<1>7. {<<m, e>>} \subseteq Tidy'
    BY <1>6 DEF Tidy
<1>8. \A k \in Mgr, t \in Slot, i \in Nat :
         /\ <<k, EventUpdateMinerNum(t, i)>> \notin {<<u, h>>}
         /\ <<k, EventUpdateMinerNum(t, i)>> \in {<<m, e>>} <=> k = m /\ t = s /\ i = n
    BY <1>5, KeyTypes DEF EventUpdateMinerNum
<1> HIDE DEF e
<1>9. ASSUME NEW v \in Up PROVE Belongs(v)' = Belongs(v)
    <2>1. \A c \in Miner : {<<u, h>>} \cap Joining(v, c) = {} /\ {<<m, e>>} \cap Joining(v, c) = {}
        BY <1>5, <1>6, KeyTypes, WhoJoins
    <2> QED
        BY <1>1, <1>5, <2>1, ReportingLeavesNobody
<1>10. Cardinality(Belongs(u)) \in Nat /\ disconnected'[u] = 0
    BY <1>0, <1>1, BelongsFinite DEF Surroundings
<1>11. Ledger'
    <2> SUFFICES ASSUME NEW k \in Mgr, NEW t \in Slot
                 PROVE  IsFiniteSet(Reports(k, t)') /\ (Minded(k)' => Books(k, t)')
        BY DEF Ledger
    <2>1. \A i \in Nat : <<k, EventUpdateMinerNum(t, i)>> \notin {<<u, h>>}
        BY <1>8
    <2>2. CASE k = m /\ t = s
        <3>1. \A i \in Nat : <<k, EventUpdateMinerNum(t, i)>> \in {<<m, e>>} <=> i = n
            BY <1>8, <2>2
        <3>2. SessionsOf(k, t) = {u} /\ disconnected[u] = n /\ Belongs(u)' = Belongs(u)
            BY <1>2, <1>3, <1>9, <2>2
        <3>3. UNCHANGED <<upVars, mgrVars>>
            BY <1>1
        <3> QED
            BY <1>0, <1>5, <1>10, <2>1, <3>1, <3>2, <3>3, ReportingBooks
    <2>3. CASE ~(k = m /\ t = s)
        <3>1. \A i \in Nat : <<k, EventUpdateMinerNum(t, i)>> \in {<<u, h>>} <=> <<k, EventUpdateMinerNum(t, i)>> \in {<<m, e>>}
            BY <1>8, <2>3
        <3>2. \A v \in SessionsOf(k, t) : Load(v)' = Load(v)
            <4> SUFFICES ASSUME NEW v \in SessionsOf(k, t) PROVE Load(v)' = Load(v)
                OBVIOUS
            <4>1. v \in Up /\ v # u
                BY <1>3, <2>3 DEF SessionsOf
            <4>2. disconnected'[v] = disconnected[v]
                BY <1>0, <1>1, <4>1, Actors
            <4> QED
                BY <1>9, <4>1, <4>2 DEF Load
        <3>3. IsFiniteSet(Reports(k, t)) /\ (Minded(k) => Books(k, t))
            BY <1>0 DEF Ledger
        <3>4. Minded(k)' => /\ Minded(k)
                            /\ SessionsOf(k, t)' = SessionsOf(k, t)
                            /\ minerNum'[k][t] = minerNum[k][t]
            BY <1>1, StayingSessions
        <3> QED
            BY <1>5, <3>1, <3>2, <3>3, <3>4, BooksStay
    <2> QED
        BY <2>2, <2>3
<1>12. Fates'
    <2>1. UNCHANGED <<Known, upSession>>
        BY <1>1 DEF downVars, Known
    <2>2. ASSUME NEW d \in Known \ {None}
          PROVE  {<<u, h>>} \cap FateKinds(d) = {} /\ {<<m, e>>} \cap FateKinds(d) = {}
        BY <1>5, <1>6, WhoseFate, KeyTypes
    <2>3. \A d \in Known \ {None}, v \in Up :
             /\ UpLoop(v)' /\ upSession'[d] = v => UpLoop(v) /\ upSession[d] = v
             /\ d \in Served(v) => d \in Served(v)'
        BY <1>1, <2>1, StayingSessions DEF Served
    <2>4. None \notin Known
        BY Actors, ActorAssumption DEF Known
    <2> QED
        BY <1>0, <1>5, <2>1, <2>2, <2>3, <2>4, FatesKept
<1> QED
    BY <1>5, <1>7, <1>11, <1>12 DEF Settles

LEMMA UpSettles ==
    ASSUME Surroundings, BooksInv, [Next]_vars, TypeInv', IdsDiffer', NEW u \in Up, UpRuns(u)
    PROVE  Settles
<1>1. Reliable /\ TypeInv /\ Mail(chan, spawned, Tidy) /\ UpHandles(u, sessionID)
    BY DEF Surroundings, CustodyInv, BooksInv, UpRuns
<1>2. \/ UpExit(u)
      \/ UpSendUpdateMinerNum(u)
      \/ UpAddDownSession(u, sessionID) /\ UNCHANGED upVars
      \/ UpDownSessionBroken(u) /\ UNCHANGED upVars
    BY <1>1, UpOutcomes
<1> QED
    BY <1>2, UpExitSettles, UpReportsSettles, UpAddSettles, UpHearsSettles

-----------------------------------------------------------------------------
(* The managers.                                                           *)

LEMMA OrdersAreOrdinary == Orders \subseteq Ordinary
<1> SUFFICES ASSUME NEW a \in Actor, NEW e \in Event, Order(a, e) PROVE <<a, e>> \in Ordinary
    BY DEF Orders
<1>1. e.type \in {"StopUpSessionManager", "Exit", "TransferDownSessions"}
    BY DEF Order
<1> QED
    BY <1>1, OrdinaryIs

\* A step that only changes what the books do not depend on.
LEMMA OrderSettles ==
    ASSUME Surroundings, BooksInv, [Next]_vars, TypeInv', IdsDiffer', Quiet,
           UNCHANGED <<upVars, mapVars, downVars>>,
           \A m \in Mgr, s \in Slot : Minded(m)' => Minded(m) /\ minerNum'[m][s] = minerNum[m][s]
    PROVE  Settles
<1>1. \A u \in Up : Served(u)' = Served(u) /\ disconnected'[u] = disconnected[u]
    BY DEF mapVars, Served
<1>2. \A d \in Known, u \in Up : UpLoop(u)' /\ upSession'[d] = u => UpLoop(u) /\ upSession[d] = u
    BY DEF upVars, downVars, UpLoop
<1>3. \A m \in Mgr, s \in Slot : SessionsOf(m, s)' = SessionsOf(m, s)
    BY DEF upVars, SessionsOf, UpLoop
<1>4. \A m \in Mgr, s \in Slot :
         Minded(m)' => /\ Minded(m)
                       /\ SessionsOf(m, s)' = SessionsOf(m, s)
                       /\ minerNum'[m][s] = minerNum[m][s]
    BY <1>3
<1> QED
    BY <1>1, <1>2, <1>4, QuietSettles

LEMMA MgrQuietSettles ==
    ASSUME Surroundings, BooksInv, [Next]_vars, TypeInv', IdsDiffer', NEW m \in Mgr, MgrRuns(m),
           MgrUpSessionReady(m) \/ MgrUpSessionInitFailed(m) \/ MgrUpdateFakeMinerNum(m) \/ MgrExit(m)
    PROVE  Settles
<1>0. TypeInv /\ UNCHANGED <<upVars, mapVars, downVars>> /\ MgrHandlesOther(m) /\ m \notin Up
    BY NoMgr DEF Surroundings, CustodyInv, MgrRuns, MgrHandles, MgrHandlesOther
<1>1. PICK out : out \subseteq Orders /\ Passes({<<m, Head(chan[m])>>}, out)
    BY <1>0, MgrOtherMail
<1>2. Head(chan[m]).type \in {"UpSessionReady", "UpSessionInitFailed", "UpdateFakeMinerNum", "Exit"}
    <2>1. CASE MgrUpSessionReady(m)
        BY <1>0, <2>1, MgrAsks
    <2>2. CASE MgrUpSessionInitFailed(m)
        BY <1>0, <2>2, MgrAsks
    <2>3. CASE MgrUpdateFakeMinerNum(m)
        BY <1>0, <2>3, MgrAsks
    <2>4. CASE MgrExit(m)
        BY <1>0, <2>4, MgrExitMail, PlainEvents
    <2> QED
        BY <2>1, <2>2, <2>3, <2>4
<1>3. {<<m, Head(chan[m])>>} \cap KeyEvents = {}
    BY <1>0, <1>2, NoKey
<1>4. Quiet
    BY <1>1, <1>3, OrdersAreOrdinary, QuietStep
<1>5. minerNum' = minerNum /\ mgrLoop' \subseteq mgrLoop /\ mgrAccount' = mgrAccount
    BY DEF MgrUpSessionReady, MgrUpSessionInitFailed, MgrUpdateFakeMinerNum, MgrExit, slotVars, connVars
<1>6. \A n \in Mgr, s \in Slot : Minded(n)' => Minded(n) /\ minerNum'[n][s] = minerNum[n][s]
    BY <1>5 DEF Minded
<1> QED
    BY <1>0, <1>4, <1>6, OrderSettles

-----------------------------------------------------------------------------
(* A manager takes a report.                                               *)

\* The books of the slot of the report, of n miners.
LEMMA ReportedBooks ==
    ASSUME TypeInv, TypeInv', BooksInv, NEW m \in Mgr, NEW s \in Slot, NEW n \in Nat,
           UNCHANGED <<upVars, mgrLoop, mgrAccount>>, minerNum'[m][s] = minerNum[m][s] - n,
           \A v \in Up : Load(v)' = Load(v),
           NEW ACTION in, NEW ACTION out, Passes(in, out),
           \A i \in Nat : <<m, EventUpdateMinerNum(s, i)>> \in in <=> i = n,
           \A i \in Nat : <<m, EventUpdateMinerNum(s, i)>> \notin out
    PROVE  IsFiniteSet(Reports(m, s)') /\ (Minded(m)' => Books(m, s)')
<1>0. IsFiniteSet(Reports(m, s)) /\ (Minded(m) => Books(m, s)) /\ MailInv /\ MailInv' /\ minerNum \in [Mgr -> [Slot -> Int]]
    BY DEF BooksInv, Ledger, TypeInv, MgrInv, CountInv
<1>1. IsFiniteSet(Reports(m, s)') /\ Cardinality(Reports(m, s)') = Cardinality(Reports(m, s)) - n
    BY <1>0, ReportsTaken
<1>2. SessionsOf(m, s)' = SessionsOf(m, s) /\ (Minded(m)' => Minded(m))
    BY DEF upVars, SessionsOf, UpLoop, Minded
<1> DEFINE r == Cardinality(Reports(m, s))
           r1 == Cardinality(Reports(m, s)')
<1>3. r \in Nat /\ r1 = r - n
    BY <1>0, <1>1, FS_CardinalityType
<1>4. Due(m, s) = minerNum[m][s] - r /\ Due(m, s)' = minerNum'[m][s] - r1 /\ minerNum[m][s] \in Int
    BY <1>0, <1>2 DEF Due
<1> HIDE DEF r, r1
<1>5. Due(m, s)' = Due(m, s)
    BY <1>3, <1>4
<1>6. ASSUME Minded(m)' PROVE Books(m, s)'
    <2>1. Books(m, s)
        BY <1>0, <1>2, <1>6
    <2>2. \A v \in SessionsOf(m, s)' : v \in Up /\ Due(m, s)' = Load(v)'
        BY <1>2, <1>5, <2>1 DEF Books, SessionsOf
    <2>3. SessionsOf(m, s)' = {} => Due(m, s)' = 0
        BY <1>2, <1>5, <2>1 DEF Books
    <2> QED
        BY <2>2, <2>3 DEF Books
<1> QED
    BY <1>1, <1>6

LEMMA ReportIs ==
    ASSUME NEW e \in Event, e.type = "UpdateMinerNum"
    PROVE  \E s \in Slot, n \in Nat : e = EventUpdateMinerNum(s, n) /\ e.slot = s /\ e.counter = n
BY DEF Event, EventUpdateMinerNum, EventExit, EventPoolNotReady, EventConnBroken, EventTransferDownSessions,
       EventSendUpdateMinerNum

LEMMA MgrReportSettles ==
    ASSUME Surroundings, BooksInv, [Next]_vars, TypeInv', IdsDiffer', NEW m \in Mgr, MgrRuns(m), MgrUpdateMinerNum(m)
    PROVE  Settles
<1>0. /\ TypeInv /\ UNCHANGED <<upVars, mapVars, downVars, mgrLoop, mgrAccount>> /\ MgrHandlesOther(m)
      /\ KnownKept /\ Ledger /\ minerNum \in [Mgr -> [Slot -> Int]] /\ \A c \in Miner : Custody(c)
    BY KnownStays DEF Surroundings, CustodyInv, MgrRuns, MgrHandles, MgrHandlesOther, MgrUpdateMinerNum, TypeInv,
                      BooksInv, MgrInv, CountInv
<1>1. PICK out : out \subseteq Orders /\ Passes({<<m, Head(chan[m])>>}, out)
    BY <1>0, MgrOtherMail
<1>2. Head(chan[m]) \in Event /\ Head(chan[m]).type = "UpdateMinerNum"
    BY <1>0, MgrAsks
<1>3. PICK h \in Event : Head(chan[m]) = h
    BY <1>2
<1>4. PICK s \in Slot, n \in Nat : h = EventUpdateMinerNum(s, n) /\ h.slot = s /\ h.counter = n
    BY <1>2, <1>3, ReportIs
<1>5. minerNum' = [minerNum EXCEPT ![m] = [minerNum[m] EXCEPT ![s] = @ - n]]
    BY <1>3, <1>4 DEF MgrUpdateMinerNum
<1>6. out \subseteq Ordinary /\ out \cap KeyEvents = {} /\ out \subseteq Tidy' /\ Passes({<<m, h>>}, out)
    BY <1>1, <1>3, OrdersAreOrdinary, OrdinaryIs
<1>7. ASSUME NEW v \in Up, NEW c \in Miner PROVE {<<m, h>>} \cap Joining(v, c) = {} /\ out \cap Joining(v, c) = {}
    BY <1>2, <1>3, <1>6, KeysAre, WhoJoins, KeyTypes
<1>8. \A v \in Up : Served(v)' = Served(v) /\ disconnected'[v] = disconnected[v]
    BY <1>0 DEF mapVars, Served
<1>9. \A v \in Up : Load(v)' = Load(v)
    BY <1>0, <1>6, <1>7, <1>8, LoadStays
<1>10. \A k \in Mgr, t \in Slot, i \in Nat :
          /\ <<k, EventUpdateMinerNum(t, i)>> \in {<<m, h>>} <=> k = m /\ t = s /\ i = n
          /\ <<k, EventUpdateMinerNum(t, i)>> \notin out
    BY <1>4, <1>6, KeysAre DEF EventUpdateMinerNum
<1>11. Ledger'
    <2> SUFFICES ASSUME NEW k \in Mgr, NEW t \in Slot
                 PROVE  IsFiniteSet(Reports(k, t)') /\ (Minded(k)' => Books(k, t)')
        BY DEF Ledger
    <2>1. \A i \in Nat : <<k, EventUpdateMinerNum(t, i)>> \notin out
        BY <1>10
    <2>2. CASE k = m /\ t = s
        <3>1. \A i \in Nat : <<k, EventUpdateMinerNum(t, i)>> \in {<<m, h>>} <=> i = n
            BY <1>10, <2>2
        <3>2. minerNum'[k][t] = minerNum[k][t] - n
            BY <1>0, <1>5, <2>2
        <3>3. UNCHANGED <<upVars, mgrLoop, mgrAccount>> /\ BooksInv
            BY <1>0
        <3> QED
            BY <1>0, <1>6, <1>9, <2>1, <3>1, <3>2, <3>3, ReportedBooks
    <2>3. CASE ~(k = m /\ t = s)
        <3>1. \A i \in Nat : <<k, EventUpdateMinerNum(t, i)>> \in {<<m, h>>} <=> <<k, EventUpdateMinerNum(t, i)>> \in out
            BY <1>10, <2>3
        <3>2. minerNum'[k][t] = minerNum[k][t]
            BY <1>0, <1>5, <2>3
        <3>3. IsFiniteSet(Reports(k, t)) /\ (Minded(k) => Books(k, t))
            BY <1>0 DEF Ledger
        <3>4. SessionsOf(k, t)' = SessionsOf(k, t) /\ (Minded(k)' => Minded(k))
            BY <1>0 DEF upVars, SessionsOf, UpLoop, Minded
        <3>5. \A v \in SessionsOf(k, t) : Load(v)' = Load(v)
            BY <1>9 DEF SessionsOf
        <3> QED
            BY <1>6, <3>1, <3>2, <3>3, <3>4, <3>5, BooksStay
    <2> QED
        BY <2>2, <2>3
<1>12. Fates'
    <2>1. UNCHANGED <<Known, upSession>>
        BY <1>0 DEF downVars, Known
    <2>2. ASSUME NEW d \in Known \ {None}
          PROVE  {<<m, h>>} \cap FateKinds(d) = {} /\ out \cap FateKinds(d) = {}
        BY <1>2, <1>3, <1>6, WhoseFate, KeyTypes, FateKindsAre
    <2>3. \A d \in Known \ {None}, v \in Up :
             /\ UpLoop(v)' /\ upSession'[d] = v => UpLoop(v) /\ upSession[d] = v
             /\ d \in Served(v) => d \in Served(v)'
        BY <1>0, <1>8, <2>1 DEF UpLoop, upVars
    <2>4. None \notin Known
        BY Actors, ActorAssumption DEF Known
    <2> QED
        BY <1>0, <1>6, <2>1, <2>2, <2>3, <2>4, FatesKept
<1> QED
    BY <1>6, <1>11, <1>12 DEF Settles

-----------------------------------------------------------------------------
(* A manager gives a miner a session.                                      *)

\* To slot s, to the fake session, or away.
GivesSlot(m, d, s) ==
    /\ s \in ReadySlots(m)
    /\ Assigns(m, s)
    /\ Handles(m, To(d, EventSetUpSession(slotSession[m][s])), {})
GivesNone(m, d) ==
    /\ \/ Handles(m, To(d, EventSetUpSession(Fake(m))), {})
       \/ Handles(m, To(d, EventPoolNotReady), {})
    /\ UNCHANGED minerNum

LEMMA MgrGives ==
    ASSUME TypeInv, NEW m \in Mgr, MgrAddDownSession(m)
    PROVE  \E d \in Known :
              /\ m \in mgrLoop /\ chan[m] # <<>> /\ Head(chan[m]) = EventAddDownSession(d)
              /\ Receives(m, "AddDownSession")
              /\ (\E s \in Slot : GivesSlot(m, d, s)) \/ GivesNone(m, d)
              /\ UNCHANGED <<mgrLoop, mgrAccount>>
<1> DEFINE d == Head(chan[m]).session
<1>1. d \in Known /\ Head(chan[m]) = EventAddDownSession(d)
    BY MgrAddMail
<1>2. m \in mgrLoop /\ Receives(m, "AddDownSession") /\ UNCHANGED <<mgrLoop, mgrAccount>>
    BY DEF MgrAddDownSession, MgrReceives
<1>3. (\E s \in Slot : GivesSlot(m, d, s)) \/ GivesNone(m, d)
    BY DEF MgrAddDownSession, GivesSlot, GivesNone, Fewest
<1>4. chan[m] # <<>>
    BY <1>2 DEF Receives
<1> HIDE DEF d
<1> QED
    BY <1>1, <1>2, <1>3, <1>4

LEMMA GivesNoneSettles ==
    ASSUME Surroundings, BooksInv, [Next]_vars, TypeInv', IdsDiffer', NEW m \in Mgr, MgrRuns(m),
           NEW d \in Known, GivesNone(m, d), Receives(m, "AddDownSession"), Head(chan[m]) = EventAddDownSession(d),
           UNCHANGED <<mgrLoop, mgrAccount>>
    PROVE  Settles
<1>0. /\ MailInv /\ UNCHANGED <<upVars, mapVars, downVars>> /\ m \in Actor /\ d \in Actor /\ m \notin Up
      /\ Fake(m) \notin Up /\ Fake(m) \in PoolSession
    BY NoMgr, Actors DEF Surroundings, CustodyInv, TypeInv, MgrRuns, MgrHandles, Known
<1>1. \E e \in Event : /\ e.type \in {"PoolNotReady", "SetUpSession"} /\ (e.type = "SetUpSession" => e.session \notin Up)
                       /\ Passes({<<m, Head(chan[m])>>}, {<<d, e>>})
    <2>1. CASE Handles(m, To(d, EventSetUpSession(Fake(m))), {})
        <3>1. EventSetUpSession(Fake(m)) \in Event /\ EventSetUpSession(Fake(m)).type = "SetUpSession"
            BY <1>0, SessionEvents
        <3>2. EventSetUpSession(Fake(m)).session \notin Up
            BY <1>0 DEF EventSetUpSession
        <3>3. Passes({<<m, Head(chan[m])>>}, {<<d, EventSetUpSession(Fake(m))>>})
            BY <1>0, <2>1, <3>1, ToPasses
        <3> QED
            BY <3>1, <3>2, <3>3
    <2>2. CASE Handles(m, To(d, EventPoolNotReady), {})
        <3>1. Passes({<<m, Head(chan[m])>>}, {<<d, EventPoolNotReady>>})
            BY <1>0, <2>2, PlainEvents, ToPasses
        <3> QED
            BY <3>1, PlainEvents
    <2> QED
        BY <2>1, <2>2 DEF GivesNone
<1>2. PICK e \in Event : /\ e.type \in {"PoolNotReady", "SetUpSession"} /\ (e.type = "SetUpSession" => e.session \notin Up)
                         /\ Passes({<<m, Head(chan[m])>>}, {<<d, e>>})
    BY <1>1
<1>3. <<d, e>> \in Ordinary
    BY <1>0, <1>2, OrdinaryIs
<1>4. {<<m, Head(chan[m])>>} \cap KeyEvents = {}
    <2>1. EventAddDownSession(d).type = "AddDownSession"
        BY KeyTypes
    <2> QED
        BY <1>0, <2>1, NoKey
<1>5. Quiet
    BY <1>2, <1>3, <1>4, QuietStep
<1>6. \A n \in Mgr, s \in Slot : Minded(n)' => Minded(n) /\ minerNum'[n][s] = minerNum[n][s]
    BY DEF Minded, GivesNone
<1> QED
    BY <1>0, <1>5, <1>6, OrderSettles

\* The miner did not belong to the session, and does so now.
LEMMA GivenBelongs ==
    ASSUME Surroundings, NEW m \in Mgr, NEW u \in Up, UpLoop(u), NEW d \in Known,
           chan[m] # <<>>, Head(chan[m]) = EventAddDownSession(d),
           Passes({<<m, EventAddDownSession(d)>>}, {<<d, EventSetUpSession(u)>>}), UNCHANGED downSessions
    PROVE  /\ d \notin Belongs(u) /\ Belongs(u)' = Belongs(u) \cup {d}
           /\ \A v \in Up \ {u} : Belongs(v)' = Belongs(v)
<1> DEFINE x == <<m, EventAddDownSession(d)>>
           y == <<d, EventSetUpSession(u)>>
<1>0. /\ \A c \in Miner : Custody(c)
      /\ d \in Miner /\ d # m /\ m # u /\ m \in Actor /\ MailInv /\ IsChan(chan) /\ u \in PoolSession /\ Passes({x}, {y})
    BY Actors, ActorAssumption DEF Surroundings, CustodyInv, TypeInv, MailInv, Mail, Known
<1>1. EventAddDownSession(d) \in Event /\ EventSetUpSession(u) \in Event /\ EventSetUpSession(u).type = "SetUpSession"
      /\ EventAddDownSession(d).type = "AddDownSession"
    BY <1>0, SessionEvents
<1>2. <<m, Head(chan[m])>> \in Carriers(d)
    BY <1>0, <1>1, CarrierIs
<1>3. ~Unsent(d)
    BY <1>0, <1>2, HeadIsSent DEF Unsent
<1>4. Holders(d) = {}
    BY <1>0, <1>3, SentIsUnserved
<1>5. d \notin Served(u)
    BY <1>0, <1>4, RunningIs DEF Holders
<1>6. \A v \in Up, c \in Miner : x \notin Joining(v, c) /\ (y \in Joining(v, c) <=> v = u /\ c = d)
    BY <1>0, <1>1, KeyTypes, WhoJoins, ActorAssumption
<1>7. Free(chan, spawned, Joining(u, d))
    <2>1. Joining(u, d) \subseteq Carriers(d) /\ AtMostOne(chan, spawned, Carriers(d))
        BY <1>0, KeysAre DEF Custody
    <2>2. <<m, Head(chan[m])>> \notin Joining(u, d)
        BY <1>0, <1>6
    <2> QED
        BY <1>0, <1>2, <2>1, <2>2, FirstIsOnly
<1>8. AtMostOne(chan, spawned, Joining(u, d))
    BY <1>0, JoiningOnce
<1>9. ~Free(chan', spawned', Joining(u, d))
    <2>1. {y} \cap Joining(u, d) = {y}
        BY <1>0, <1>6
    <2> HIDE DEF x, y
    <2> QED
        BY <1>0, <1>7, <1>8, <2>1 DEF Passes
<1>10. \A v \in Up : Served(v)' = Served(v)
    BY DEF Served
<1>11. ASSUME NEW v \in Up, NEW c \in Miner, v # u \/ c # d PROVE c \in Belongs(v)' <=> c \in Belongs(v)
    <2>1. {x} \cap Joining(v, c) = {} /\ {y} \cap Joining(v, c) = {}
        BY <1>6, <1>11
    <2> HIDE DEF x, y
    <2> QED
        BY <1>0, <1>10, <2>1, BelongsStays
<1>12. Joining(u, d)' = Joining(u, d)
    BY DEF Joining
<1>13. d \notin Belongs(u) /\ d \in Belongs(u)'
    BY <1>0, <1>5, <1>7, <1>9, <1>12 DEF Belongs
<1>14. \A v \in Up : Belongs(v) \subseteq Miner /\ Belongs(v)' \subseteq Miner
    BY DEF Belongs
<1> HIDE DEF x, y
<1>15. Belongs(u)' = Belongs(u) \cup {d}
    BY <1>0, <1>11, <1>13, <1>14
<1>16. ASSUME NEW v \in Up \ {u} PROVE Belongs(v)' = Belongs(v)
    BY <1>11, <1>14
<1> QED
    BY <1>13, <1>15, <1>16

LEMMA GivenLoad ==
    ASSUME IsFiniteSet(Miner), disconnected \in [PoolSession -> Nat], NEW u \in Up, UNCHANGED disconnected,
           NEW d, d \notin Belongs(u), Belongs(u)' = Belongs(u) \cup {d}
    PROVE  Load(u)' = Load(u) + 1 /\ Load(u) \in Nat
<1> DEFINE B == Belongs(u)
<1>1. IsFiniteSet(B) /\ Cardinality(B) \in Nat
    BY BelongsFinite
<1>2. disconnected[u] \in Nat
    BY Actors
<1>3. Load(u) = Cardinality(B) + disconnected[u] /\ Load(u)' = Cardinality(B \cup {d}) + disconnected[u] /\ d \notin B
    BY DEF Load
<1> HIDE DEF B
<1>4. Cardinality(B \cup {d}) = Cardinality(B) + 1
    BY <1>1, <1>3, FS_AddElement
<1> QED
    BY <1>1, <1>2, <1>3, <1>4

\* The books after minerNum has counted one more miner for u.
LEMMA GivenBooks ==
    ASSUME TypeInv, BooksInv, NEW m \in Mgr, NEW s \in Slot, NEW u \in Up, SessionsOf(m, s) = {u},
           UNCHANGED <<upVars, mgrLoop, mgrAccount>>, minerNum'[m][s] = minerNum[m][s] + 1,
           Load(u)' = Load(u) + 1, Load(u) \in Nat,
           NEW ACTION in, NEW ACTION out, Passes(in, out),
           \A i \in Nat : <<m, EventUpdateMinerNum(s, i)>> \in in <=> <<m, EventUpdateMinerNum(s, i)>> \in out
    PROVE  IsFiniteSet(Reports(m, s)') /\ (Minded(m)' => Books(m, s)')
<1>0. IsFiniteSet(Reports(m, s)) /\ (Minded(m) => Books(m, s)) /\ minerNum \in [Mgr -> [Slot -> Int]]
    BY DEF BooksInv, Ledger, TypeInv, MgrInv, CountInv
<1>1. Reports(m, s)' = Reports(m, s)
    BY ReportsStay
<1>2. SessionsOf(m, s)' = {u} /\ (Minded(m)' => Minded(m))
    BY DEF upVars, SessionsOf, UpLoop, Minded
<1> DEFINE r == Cardinality(Reports(m, s))
<1>3. r \in Nat
    BY <1>0, FS_CardinalityType
<1>4. Due(m, s) = minerNum[m][s] - r /\ Due(m, s)' = minerNum'[m][s] - r /\ minerNum[m][s] \in Int
    BY <1>0, <1>1 DEF Due
<1> HIDE DEF r
<1>5. Due(m, s)' = Due(m, s) + 1
    BY <1>3, <1>4
<1>6. ASSUME Minded(m)' PROVE Books(m, s)'
    <2>1. Due(m, s) = Load(u)
        BY <1>0, <1>2, <1>6 DEF Books
    <2>2. Due(m, s)' = Load(u)'
        BY <1>5, <2>1
    <2>3. \A v \in SessionsOf(m, s)' : Due(m, s)' = Load(v)'
        BY <1>2, <2>2
    <2>4. SessionsOf(m, s)' # {}
        BY <1>2
    <2> QED
        BY <2>3, <2>4 DEF Books
<1> QED
    BY <1>0, <1>1, <1>6

LEMMA GivesSlotSettles ==
    ASSUME Surroundings, BooksInv, [Next]_vars, TypeInv', IdsDiffer', NEW m \in Mgr, MgrRuns(m), m \in mgrLoop,
           NEW d \in Known, NEW s \in Slot, GivesSlot(m, d, s), Receives(m, "AddDownSession"),
           Head(chan[m]) = EventAddDownSession(d), UNCHANGED <<mgrLoop, mgrAccount>>
    PROVE  Settles
<1>0. /\ TypeInv /\ SlotsInv /\ MailInv /\ UNCHANGED <<upVars, mapVars, downVars>> /\ m \in Actor /\ d \in Actor
      /\ KnownKept /\ Ledger /\ minerNum \in [Mgr -> [Slot -> Int]]
      /\ disconnected \in [PoolSession -> Nat] /\ IsFiniteSet(Miner) /\ d \in Miner
    BY KnownStays, Actors DEF Surroundings, CustodyInv, TypeInv, MgrRuns, MgrHandles, Known, MapInv, BooksInv, MgrInv, CountInv
<1>1. slotSession[m][s] \in Up
    BY <1>0 DEF GivesSlot, TypeInv, MgrInv, SlotInv
<1>2. PICK u \in Up : slotSession[m][s] = u
    BY <1>1
<1>3. u # None
    BY Actors, ActorAssumption
<1>4. upMgr[u] = m /\ upSlot[u] = s /\ UpLoop(u)
    BY <1>0, <1>2, <1>3 DEF SlotsInv, OwnerInv, BooksInv, Standing
<1>5. SessionsOf(m, s) = {u}
    BY <1>0, <1>4, OneSession
<1> DEFINE e == EventAddDownSession(d)
           f == EventSetUpSession(u)
<1>6. /\ f \in Event /\ f.type = "SetUpSession" /\ f.session = u /\ e.type = "AddDownSession"
    BY Actors, SessionEvents, KeyTypes DEF EventSetUpSession
<1>7. Passes({<<m, e>>}, {<<d, f>>})
    <2>1. Handles(m, To(d, f), {})
        BY <1>2 DEF GivesSlot
    <2> QED
        BY <1>0, <1>6, <2>1, ToPasses
<1>8. {<<d, f>>} \subseteq Tidy'
    <2>1. upMgr'[u] # None
        BY <1>0, <1>4, NoMgr DEF upVars
    <2> QED
        BY <1>0, <1>6, <2>1 DEF Tidy
<1>9. /\ d \notin Belongs(u) /\ Belongs(u)' = Belongs(u) \cup {d}
      /\ \A v \in Up \ {u} : Belongs(v)' = Belongs(v)
    <2>1. chan[m] # <<>> /\ UNCHANGED downSessions
        BY <1>0 DEF Receives, mapVars
    <2> QED
        BY <1>4, <1>7, <2>1, GivenBelongs
<1>10. Load(u)' = Load(u) + 1 /\ Load(u) \in Nat
    BY <1>0, <1>9, GivenLoad DEF mapVars
<1>11. minerNum' = [minerNum EXCEPT ![m][s] = @ + 1]
    BY DEF GivesSlot, Assigns
<1>12. \A k \in Mgr, t \in Slot, i \in Nat :
          <<k, EventUpdateMinerNum(t, i)>> \notin {<<m, e>>} /\ <<k, EventUpdateMinerNum(t, i)>> \notin {<<d, f>>}
    BY <1>6, KeyTypes
<1> HIDE DEF e, f
<1>13. Ledger'
    <2> SUFFICES ASSUME NEW k \in Mgr, NEW t \in Slot
                 PROVE  IsFiniteSet(Reports(k, t)') /\ (Minded(k)' => Books(k, t)')
        BY DEF Ledger
    <2>1. \A i \in Nat : <<k, EventUpdateMinerNum(t, i)>> \in {<<m, e>>} <=> <<k, EventUpdateMinerNum(t, i)>> \in {<<d, f>>}
        BY <1>12
    <2>2. CASE k = m /\ t = s
        <3>1. minerNum'[k][t] = minerNum[k][t] + 1
            BY <1>0, <1>11, <2>2
        <3>2. UNCHANGED <<upVars, mgrLoop, mgrAccount>> /\ SessionsOf(k, t) = {u}
            BY <1>0, <1>5, <2>2
        <3> QED
            BY <1>0, <1>7, <1>10, <2>1, <3>1, <3>2, GivenBooks
    <2>3. CASE ~(k = m /\ t = s)
        <3>1. minerNum'[k][t] = minerNum[k][t]
            BY <1>0, <1>11, <2>3
        <3>2. IsFiniteSet(Reports(k, t)) /\ (Minded(k) => Books(k, t))
            BY <1>0 DEF Ledger
        <3>3. SessionsOf(k, t)' = SessionsOf(k, t) /\ (Minded(k)' => Minded(k))
            BY <1>0 DEF upVars, SessionsOf, UpLoop, Minded
        <3>4. \A v \in SessionsOf(k, t) : Load(v)' = Load(v)
            <4> SUFFICES ASSUME NEW v \in SessionsOf(k, t) PROVE Load(v)' = Load(v)
                OBVIOUS
            <4>1. v \in Up \ {u}
                BY <1>4, <2>3 DEF SessionsOf
            <4>2. disconnected' = disconnected
                BY <1>0 DEF mapVars
            <4> QED
                BY <1>9, <4>1, <4>2 DEF Load
        <3> QED
            BY <1>7, <2>1, <3>1, <3>2, <3>3, <3>4, BooksStay
    <2> QED
        BY <2>2, <2>3
<1>14. Fates'
    <2>1. UNCHANGED <<Known, upSession>>
        BY <1>0 DEF downVars, Known
    <2>2. ASSUME NEW c \in Known \ {None}
          PROVE  {<<m, e>>} \cap FateKinds(c) = {} /\ {<<d, f>>} \cap FateKinds(c) = {}
        BY <1>6, WhoseFate, KeyTypes, NoMgr
    <2>3. \A c \in Known \ {None}, v \in Up :
             /\ UpLoop(v)' /\ upSession'[c] = v => UpLoop(v) /\ upSession[c] = v
             /\ c \in Served(v) => c \in Served(v)'
        BY <1>0, <2>1 DEF UpLoop, upVars, mapVars, Served
    <2>4. None \notin Known
        BY Actors, ActorAssumption DEF Known
    <2> QED
        BY <1>0, <1>7, <2>1, <2>2, <2>3, <2>4, FatesKept
<1> QED
    BY <1>7, <1>8, <1>13, <1>14 DEF Settles

LEMMA MgrSettles ==
    ASSUME Surroundings, BooksInv, [Next]_vars, TypeInv', IdsDiffer', NEW m \in Mgr, MgrRuns(m)
    PROVE  Settles
<1>0. TypeInv /\ Mail(chan, spawned, Tidy) /\ m \in Actor
    BY Actors DEF Surroundings, CustodyInv, BooksInv
<1>1. CASE MgrAddDownSession(m)
    <2>1. PICK d \in Known :
              /\ m \in mgrLoop /\ chan[m] # <<>> /\ Head(chan[m]) = EventAddDownSession(d)
              /\ Receives(m, "AddDownSession")
              /\ (\E s \in Slot : GivesSlot(m, d, s)) \/ GivesNone(m, d)
              /\ UNCHANGED <<mgrLoop, mgrAccount>>
        BY <1>0, <1>1, MgrGives
    <2>2. CASE GivesNone(m, d)
        BY <2>1, <2>2, GivesNoneSettles
    <2>3. CASE \E s \in Slot : GivesSlot(m, d, s)
        BY <2>1, <2>3, GivesSlotSettles
    <2> QED
        BY <2>1, <2>2, <2>3
<1>2. CASE MgrUpSessionReady(m) \/ MgrUpSessionInitFailed(m) \/ MgrUpdateFakeMinerNum(m) \/ MgrExit(m)
    BY <1>2, MgrQuietSettles
<1>3. CASE MgrUpdateMinerNum(m)
    BY <1>3, MgrReportSettles
<1>4. CASE MgrUpSessionBroken(m)
    <2>1. Head(chan[m]).type = "UpSessionBroken" /\ chan[m] # <<>>
        BY <1>0, <1>4, MgrAsks DEF MgrUpSessionBroken, MgrReceives, Receives
    <2>2. <<m, Head(chan[m])>> \in Tidy
        BY <1>0, <2>1, FirstIsTidy
    <2> QED
        BY <2>1, <2>2 DEF Tidy
<1> QED
    BY <1>1, <1>2, <1>3, <1>4 DEF MgrRuns, MgrHandles

-----------------------------------------------------------------------------
(* Connecting.                                                             *)

LEMMA RefusedSettles ==
    ASSUME Surroundings, BooksInv, [Next]_vars, TypeInv', IdsDiffer', NEW m \in Mgr, ConnectRefused(m)
    PROVE  Settles
<1>0. TypeInv /\ UNCHANGED downVars /\ m \in Actor
    BY Actors DEF Surroundings, CustodyInv, ConnectRefused
<1>1. PICK s \in Slot : ConnectFails(m, s)
    BY DEF ConnectRefused
<1>2. UNCHANGED <<upVars, mapVars, minerNum, mgrLoop, mgrAccount>>
    BY <1>1 DEF ConnectFails, slotVars
<1>3. Passes({}, {<<m, EventUpSessionInitFailed(s)>>})
    BY <1>0, <1>1, ConnectMail
<1>4. <<m, EventUpSessionInitFailed(s)>> \in Ordinary
    BY <1>0, SlotEvents, OrdinaryIs
<1>5. Quiet
    <2> DEFINE x == <<m, EventUpSessionInitFailed(s)>>
               in == {}
    <2>1. in \cap KeyEvents = {} /\ {x} \subseteq Ordinary /\ Passes(in, {x})
        BY <1>3, <1>4
    <2> HIDE DEF x, in
    <2> QED
        BY <2>1, QuietStep
<1>6. \A n \in Mgr, t \in Slot : Minded(n)' => Minded(n) /\ minerNum'[n][t] = minerNum[n][t]
    BY <1>2 DEF Minded
<1> QED
    BY <1>0, <1>2, <1>5, <1>6, OrderSettles

\* Nobody belongs to a session that has not started.
LEMMA NobodyYet ==
    ASSUME Surroundings, BooksInv, NEW u \in Up, upStat[u] = "none"
    PROVE  /\ upMgr[u] = None /\ Load(u) = 0
           /\ \A d \in Miner : upSession[d] # u
<1>1. /\ upMgr[u] = None /\ disconnected[u] = 0 /\ Served(u) = {}
      /\ \A d \in Miner : upSession[d] # u
    BY DEF Surroundings, SlotsInv, OwnerInv, BooksInv, Standing, CustodyInv, Unused
<1>2. ASSUME NEW d \in Miner PROVE Free(chan, spawned, Joining(u, d))
    <2>1. EventAddDownSession(d).type = "AddDownSession" /\ EventSetUpSession(u).type = "SetUpSession"
          /\ EventSetUpSession(u).session = u
        BY KeyTypes DEF EventSetUpSession
    <2>2. Joining(u, d) \cap Tidy = {}
        BY <1>1, <2>1 DEF Joining, Tidy
    <2>3. Mail(chan, spawned, Tidy)
        BY DEF BooksInv
    <2> QED
        BY <2>2, <2>3 DEF Mail, Free, Waits, Pends
<1>3. Belongs(u) = {}
    BY <1>1, <1>2 DEF Belongs
<1> QED
    BY <1>1, <1>3, FS_EmptySet DEF Load

LEMMA ConnectsSettles ==
    ASSUME Surroundings, BooksInv, [Next]_vars, TypeInv', IdsDiffer', NEW m \in Mgr, Connects(m)
    PROVE  Settles
<1>0. /\ TypeInv /\ SlotsInv /\ UNCHANGED downVars /\ m \in Actor /\ Ledger /\ \A c \in Miner : Custody(c)
      /\ UNCHANGED upSession /\ connecting \in [Mgr -> [Slot -> Nat]] /\ UpInv
    BY Actors DEF Surroundings, CustodyInv, Connects, BooksInv, downVars, TypeInv, MgrInv, CountInv
<1>1. PICK s \in Slot, u \in Up : ConnectSucceeds(m, s, u)
    BY DEF Connects
<1>2. /\ connecting[m][s] > 0 /\ upStat[u] = "none"
      /\ upStat' = [upStat EXCEPT ![u] = "authorized"]
      /\ upMgr' = [upMgr EXCEPT ![u] = m]
      /\ upSlot' = [upSlot EXCEPT ![u] = s]
      /\ UNCHANGED <<mapVars, minerNum, mgrLoop, mgrAccount>>
    BY <1>1 DEF ConnectSucceeds, slotVars
<1>3. SessionsOf(m, s) = {}
    BY <1>0, <1>2, ConnectingIs
<1>4. upMgr[u] = None /\ Load(u) = 0 /\ \A d \in Miner : upSession[d] # u
    BY <1>2, NobodyYet
<1> DEFINE in == {}
           e == EventUpSessionReady(s, u)
<1>5. e.type = "UpSessionReady" /\ e.session = u /\ e.slot = s /\ e \in Event
    BY SlotEvents DEF EventUpSessionReady
<1>6. Passes(in, {<<m, e>>})
    BY <1>0, <1>1, ConnectMail
<1>7. upMgr'[u] = m /\ upSlot'[u] = s /\ m # None
    BY <1>0, <1>2, NoMgr DEF UpInv
<1>8. {<<m, e>>} \subseteq Tidy'
    BY <1>0, <1>5, <1>7 DEF Tidy
<1>9. in \cap KeyEvents = {} /\ {<<m, e>>} \cap KeyEvents = {}
    BY <1>5 DEF KeyEvents
<1> HIDE DEF in, e
<1>10. \A v \in Up : Served(v)' = Served(v) /\ disconnected'[v] = disconnected[v]
    BY <1>2 DEF mapVars, Served
<1>11. \A v \in Up : UpLoop(v)' <=> UpLoop(v) \/ v = u
    BY <1>0, <1>2 DEF UpLoop, UpInv
<1>12. Fates'
    <2>1. \A d \in Known, v \in Up : UpLoop(v)' /\ upSession'[d] = v => UpLoop(v) /\ upSession[d] = v
        BY <1>0, <1>4, <1>11 DEF Known
    <2>2. \A v \in Up : Served(v)' = Served(v)
        BY <1>10
    <2> QED
        BY <1>6, <1>9, <2>1, <2>2, FatesStay
<1>13. \A v \in Up : Load(v)' = Load(v)
    <2>1. \A v \in Up, c \in Miner : in \cap Joining(v, c) = {} /\ {<<m, e>>} \cap Joining(v, c) = {}
        BY <1>9, KeysAre
    <2> QED
        BY <1>0, <1>6, <1>10, <2>1, LoadStays
<1>14. ASSUME NEW k \in Mgr, NEW t \in Slot, ~(k = m /\ t = s) PROVE SessionsOf(k, t)' = SessionsOf(k, t)
    <2>1. ASSUME NEW v \in Up
          PROVE  UpLoop(v)' /\ upMgr'[v] = k /\ upSlot'[v] = t <=> UpLoop(v) /\ upMgr[v] = k /\ upSlot[v] = t
        <3>1. CASE v = u
            BY <1>2, <1>7, <1>14, <3>1 DEF UpLoop
        <3>2. CASE v # u
            BY <1>0, <1>2, <1>11, <3>2 DEF UpInv
        <3> QED
            BY <3>1, <3>2
    <2> QED
        BY <2>1 DEF SessionsOf
<1>15. SessionsOf(m, s)' = {u}
    <2>1. ASSUME NEW v \in Up
          PROVE  UpLoop(v)' /\ upMgr'[v] = m /\ upSlot'[v] = s <=> v = u
        <3>1. CASE v = u
            BY <1>7, <1>11, <3>1
        <3>2. CASE v # u
            <4>1. v \notin SessionsOf(m, s)
                BY <1>3
            <4> QED
                BY <1>0, <1>2, <1>11, <3>2, <4>1 DEF UpInv, SessionsOf
        <3> QED
            BY <3>1, <3>2
    <2> QED
        BY <2>1 DEF SessionsOf
<1>16. \A k \in Mgr, t \in Slot, i \in Nat :
          <<k, EventUpdateMinerNum(t, i)>> \notin in /\ <<k, EventUpdateMinerNum(t, i)>> \notin {<<m, e>>}
    BY <1>9, KeysAre
<1>17. \A k \in Mgr : Minded(k)' => Minded(k)
    BY <1>2 DEF Minded
<1>18. Ledger'
    <2> SUFFICES ASSUME NEW k \in Mgr, NEW t \in Slot
                 PROVE  IsFiniteSet(Reports(k, t)') /\ (Minded(k)' => Books(k, t)')
        BY DEF Ledger
    <2>1. \A i \in Nat : <<k, EventUpdateMinerNum(t, i)>> \in in <=> <<k, EventUpdateMinerNum(t, i)>> \in {<<m, e>>}
        BY <1>16
    <2>2. IsFiniteSet(Reports(k, t)) /\ (Minded(k) => Books(k, t))
        BY <1>0 DEF Ledger
    <2>3. CASE k = m /\ t = s
        <3>1. Reports(k, t)' = Reports(k, t)
            BY <1>6, <2>1, ReportsStay
        <3>2. Due(k, t)' = Due(k, t)
            BY <1>2, <3>1 DEF Due
        <3>3. ASSUME Minded(k)' PROVE Books(k, t)'
            <4>1. Due(k, t) = 0
                BY <1>3, <1>17, <2>2, <2>3, <3>3 DEF Books
            <4>2. \A v \in SessionsOf(k, t)' : Due(k, t)' = Load(v)'
                BY <1>4, <1>13, <1>15, <2>3, <3>2, <4>1
            <4>3. SessionsOf(k, t)' # {}
                BY <1>15, <2>3
            <4> QED
                BY <4>2, <4>3 DEF Books
        <3> QED
            BY <2>2, <3>1, <3>3
    <2>4. CASE ~(k = m /\ t = s)
        <3>1. Minded(k)' => /\ Minded(k)
                            /\ SessionsOf(k, t)' = SessionsOf(k, t)
                            /\ minerNum'[k][t] = minerNum[k][t]
                            /\ \A v \in SessionsOf(k, t) : Load(v)' = Load(v)
            BY <1>2, <1>13, <1>14, <1>17, <2>4 DEF SessionsOf
        <3> QED
            BY <1>6, <2>1, <2>2, <3>1, BooksStay
    <2> QED
        BY <2>3, <2>4
<1> QED
    BY <1>6, <1>8, <1>12, <1>18 DEF Settles

-----------------------------------------------------------------------------
(* The SessionManager.                                                     *)

LEMMA SMQuiet ==
    ASSUME TypeInv, SMRuns \/ OperatorActs
    PROVE  Quiet
<1> DEFINE in == {}
<1>0. SM \notin Up /\ SM \in Actor /\ \A m \in Mgr : m \notin Up /\ m \in Actor
    BY NoMgr, Actors
<1>1. CASE SMStarts
    <2>1. Passes(in, in) /\ in \cap KeyEvents = {} /\ in \subseteq Ordinary
        BY <1>1, QuietPasses DEF SMStarts
    <2> HIDE DEF in
    <2> QED
        BY <2>1, QuietStep
<1>2. CASE SMAddDownSession(subAccount)
    <2>1. PICK d \in Known, m \in Mgr :
              Head(chan[SM]) = EventAddDownSession(d) /\ Passes({<<SM, Head(chan[SM])>>}, {<<m, Head(chan[SM])>>})
        BY <1>2, SMAddMail
    <2>2. EventAddDownSession(d) \in Event /\ EventAddDownSession(d).type = "AddDownSession"
        BY SessionEvents DEF Known
    <2>3. {<<SM, Head(chan[SM])>>} \cap KeyEvents = {}
        BY <1>0, <2>1, <2>2, NoKey
    <2>4. <<m, Head(chan[SM])>> \in Ordinary
        BY <1>0, <2>1, <2>2, OrdinaryIs
    <2> QED
        BY <2>1, <2>3, <2>4, QuietStep
<1>3. CASE SMStopUpSessionManager \/ SMExit
    <2>1. PICK out : out \subseteq Orders /\ Passes({<<SM, Head(chan[SM])>>}, out)
        BY <1>3, SMOtherMail
    <2>2. Head(chan[SM]).type \in {"StopUpSessionManager", "Exit"}
        BY <1>3 DEF SMStopUpSessionManager, SMExit, SMReceives, Receives
    <2>3. {<<SM, Head(chan[SM])>>} \cap KeyEvents = {}
        BY <1>0, <2>2, NoKey
    <2> QED
        BY <2>1, <2>3, OrdersAreOrdinary, QuietStep
<1>4. CASE SMStop
    <2>1. Passes(in, {<<SM, EventExit>>}) /\ in \cap KeyEvents = {}
        BY <1>4, SMStopMail
    <2>2. <<SM, EventExit>> \in Ordinary
        BY <1>0, PlainEvents, OrdinaryIs
    <2> HIDE DEF in
    <2> QED
        BY <2>1, <2>2, QuietStep
<1> QED
    BY <1>1, <1>2, <1>3, <1>4 DEF SMRuns, OperatorActs, SMHandles

LEMMA SMSettles ==
    ASSUME Surroundings, BooksInv, [Next]_vars, TypeInv', IdsDiffer', SMRuns \/ OperatorActs
    PROVE  Settles
<1>0. TypeInv /\ Quiet /\ UNCHANGED downVars
    BY SMQuiet DEF Surroundings, CustodyInv, SMRuns, OperatorActs
<1>1. CASE UNCHANGED <<upVars, mapVars, mgrVars>>
    <2>1. \A m \in Mgr, s \in Slot : Minded(m)' => Minded(m) /\ minerNum'[m][s] = minerNum[m][s]
        BY <1>1 DEF mgrVars, slotVars, Minded
    <2> QED
        BY <1>0, <1>1, <2>1, OrderSettles
<1>2. CASE \E m \in Mgr, a \in Account : CreateUpSessionManager(m, a) /\ StartsQuietly
    <2>1. PICK n \in Mgr, a \in Account : CreateUpSessionManager(n, a) /\ StartsQuietly
        BY <1>2
    <2>2. UNCHANGED <<upVars, mapVars, minerNum>>
        BY <2>1 DEF StartsQuietly, slotVars
    <2>3. /\ mgrAccount[n] = None /\ mgrAccount' = [mgrAccount EXCEPT ![n] = a]
          /\ mgrLoop' = mgrLoop \cup {n} /\ mgrAccount \in [Mgr -> Account \cup {None}]
        BY <1>0, <2>1 DEF CreateUpSessionManager, MgrStarts, TypeInv, MgrInv, LoopsInv
    <2>4. \A m \in Mgr : Minded(m)' => Minded(m)
        BY <2>3 DEF Minded
    <2>5. \A m \in Mgr, s \in Slot : Minded(m)' => Minded(m) /\ minerNum'[m][s] = minerNum[m][s]
        BY <2>2, <2>4
    <2> QED
        BY <1>0, <2>2, <2>5, OrderSettles
<1>3. CASE SMStarts
    BY <1>1, <1>2, <1>3 DEF SMStarts
<1>4. CASE SMAddDownSession(subAccount)
    <2>1. subAccount[Head(chan[SM]).session] \in Account
        BY <1>0, <1>4, SMAddMail DEF Known
    <2> QED
        BY <1>1, <1>2, <1>4, <2>1 DEF SMAddDownSession
<1>5. CASE SMStopUpSessionManager \/ SMExit \/ SMStop
    BY <1>1, <1>5 DEF SMStopUpSessionManager, SMExit, SMStop
<1> QED
    BY <1>3, <1>4, <1>5 DEF SMRuns, OperatorActs, SMHandles

-----------------------------------------------------------------------------
(* Every step, and the beginning.                                          *)

LEMMA StillSettles ==
    ASSUME Surroundings, BooksInv, [Next]_vars, TypeInv', IdsDiffer', Passes({}, {}), UNCHANGED <<downVars, poolVars>>
    PROVE  Settles
<1> DEFINE in == {}
<1>1. Quiet
    <2>1. in \cap KeyEvents = {} /\ in \subseteq Ordinary /\ Passes(in, in)
        OBVIOUS
    <2> HIDE DEF in
    <2> QED
        BY <2>1, QuietStep
<1>2. UNCHANGED <<upVars, mapVars, downVars, mgrVars>>
    BY DEF poolVars
<1>3. \A m \in Mgr, s \in Slot : Minded(m)' => Minded(m) /\ minerNum'[m][s] = minerNum[m][s]
    BY <1>2 DEF mgrVars, slotVars, Minded
<1> QED
    BY <1>1, <1>2, <1>3, OrderSettles

LEMMA DownSettles ==
    ASSUME Surroundings, BooksInv, [Next]_vars, TypeInv', IdsDiffer', UNCHANGED poolVars,
           NEW d \in Miner, MinerStep(d) \/ DownHandles(d)
    PROVE  Settles
<1>1. CASE ConnBroken(d)
    BY <1>1, ConnBrokenSettles
<1>2. CASE SetUpSession(d) /\ Head(chan[d]).session \in Up
    BY <1>2, SetUpSettles
<1>3. CASE ~ConnBroken(d) /\ ~(SetUpSession(d) /\ Head(chan[d]).session \in Up)
    BY <1>3, DownQuietSettles
<1> QED
    BY <1>1, <1>2, <1>3

LEMMA NextSettles ==
    ASSUME Surroundings, BooksInv, [Next]_vars, TypeInv', IdsDiffer'
    PROVE  Settles
<1>0. TypeInv /\ Reliable
    BY DEF Surroundings, CustodyInv
<1>1. ASSUME NEW d \in Miner, MinerActs(d) \/ DownRuns(d) PROVE Settles
    BY <1>1, DownSettles DEF MinerActs, DownRuns
<1>2. ASSUME NEW u \in Up, PoolActs(u) PROVE Settles
    BY <1>0, <1>2 DEF PoolActs, PoolBreaks, Reliable
<1>3. ASSUME NEW m \in BagToSet(spawned), SenderRuns(m) PROVE Settles
    <2>1. Deliver(m) /\ UNCHANGED <<downVars, poolVars>>
        BY <1>3 DEF SenderRuns
    <2>2. m \in Messages /\ IsChan(chan) /\ IsABag(spawned)
        BY <1>0, <1>3 DEF TypeInv, MailInv, Mail, BagToSet
    <2>3. PICK a \in Actor, e \in Event : m = <<a, e>>
        BY <2>2 DEF Messages
    <2>4. Passes({}, {})
        BY <2>1, <2>2, <2>3, DeliverPasses
    <2> QED
        BY <2>1, <2>4, StillSettles
<1>4. CASE UNCHANGED vars
    <2>1. UNCHANGED mailVars /\ UNCHANGED <<downVars, poolVars>>
        BY <1>4 DEF vars
    <2> QED
        BY <2>1, QuietPasses, StillSettles
<1> QED
    BY <1>1, <1>2, <1>3, <1>4, RefusedSettles, ConnectsSettles, UpSettles, FakeSettles, MgrSettles, SMSettles
    DEF Next, Environment, Agents

LEMMA NextBooksInv ==
    ASSUME Surroundings, BooksInv, [Next]_vars, TypeInv', IdsDiffer'
    PROVE  BooksInv'
BY NextSettles, SettledIsKept

LEMMA InitBooksInv == Init => BooksInv
<1> SUFFICES ASSUME Init PROVE BooksInv
    OBVIOUS
<1>1. /\ upStat = [u \in Up |-> "none"] /\ upMgr = [u \in Up |-> None]
      /\ mgrLoop = {} /\ upSession = [d \in Miner |-> None]
      /\ slotSession = [m \in Mgr |-> [s \in Slot |-> None]]
      /\ minerNum = [m \in Mgr |-> [s \in Slot |-> 0]]
      /\ disconnected = [p \in PoolSession |-> 0]
      /\ sessionID = [d \in Miner |-> NoID]
    BY DEF Init, UpInit, MapInit, MgrInit, DownInit
<1>2. Mail(chan, spawned, Tidy)
    <2>1. chan = [a \in Actor |-> <<>>] /\ spawned = EmptyBag
        BY DEF Init, MailInit
    <2>2. DOMAIN spawned = {} /\ IsABag(spawned)
        BY <2>1 DEF EmptyBag, SetToBag, IsABag
    <2>3. \A a \in Actor : DOMAIN chan[a] = {}
        BY <2>1
    <2> QED
        BY <2>1, <2>2, <2>3, EmptyIsSequence DEF Mail, IsChan
<1>3. Standing
    <2>1. None \notin Up
        BY Actors, ActorAssumption
    <2>2. \A u \in Up : upMgr[u] \notin mgrLoop /\ disconnected[u] = 0
        BY <1>1, Actors
    <2>3. \A d \in Miner : upSession[d] = None
        BY <1>1
    <2>4. \A m \in Mgr, s \in Slot : slotSession[m][s] = None
        BY <1>1
    <2> QED
        BY <2>1, <2>2, <2>3, <2>4 DEF Standing
<1>4. Fates
    BY <1>1, NoIDAssumption DEF Fates, Known
<1>5. Ledger
    <2> SUFFICES ASSUME NEW m \in Mgr, NEW s \in Slot
                 PROVE  IsFiniteSet(Reports(m, s)) /\ Books(m, s)
        BY DEF Ledger
    <2>1. ASSUME NEW n PROVE InFlight(m, EventUpdateMinerNum(s, n)) = 0
        <3>1. m \in Actor /\ Free(chan, spawned, {<<m, EventUpdateMinerNum(s, n)>>})
              /\ AtMostOne(chan, spawned, {<<m, EventUpdateMinerNum(s, n)>>})
            BY Actors, InitFree
        <3> QED
            BY <3>1, InFlightIs
    <2>2. Reports(m, s) = {}
        BY <2>1 DEF Reports
    <2>3. IsFiniteSet(Reports(m, s)) /\ Cardinality(Reports(m, s)) = 0
        BY <2>2, FS_EmptySet
    <2>4. SessionsOf(m, s) = {}
        BY <1>1 DEF SessionsOf, UpLoop
    <2>5. Due(m, s) = 0
        BY <1>1, <2>3 DEF Due
    <2> QED
        BY <2>3, <2>4, <2>5 DEF Books
<1> QED
    BY <1>2, <1>3, <1>4, <1>5 DEF BooksInv

-----------------------------------------------------------------------------
(* What the books say.                                                     *)

\* The map of a session has one entry for each miner that it serves.
LEMMA EntriesAreServed ==
    ASSUME TypeInv, NEW u \in Up
    PROVE  Cardinality(DOMAIN downSessions[u]) = Cardinality(Served(u)) /\ IsFiniteSet(Served(u))
<1> DEFINE f == downSessions[u]
           g == [d \in Served(u) |-> sessionID[d]]
<1>1. ByOwnId(f) /\ IsFiniteSet(Served(u)) /\ Served(u) = {f[i] : i \in DOMAIN f}
    BY Actors DEF TypeInv, MapInv, Served
<1>2. g \in [Served(u) -> DOMAIN f]
    BY <1>1 DEF ByOwnId
<1>3. g \in Injection(Served(u), DOMAIN f)
    <2>1. ASSUME NEW c \in Served(u), NEW d \in Served(u), g[c] = g[d] PROVE c = d
        BY <1>1, <2>1 DEF ByOwnId
    <2>2. IsInjective(g)
        BY <1>2, <2>1 DEF IsInjective
    <2> QED
        BY <1>2, <2>2 DEF Injection
<1>4. g \in Surjection(Served(u), DOMAIN f)
    BY <1>1, <1>2 DEF Surjection, ByOwnId
<1>5. ExistsBijection(Served(u), DOMAIN f)
    BY <1>3, <1>4 DEF ExistsBijection, Bijection
<1> HIDE DEF g
<1> QED
    BY <1>1, <1>5, FS_Bijection

\* An event of a miner that nobody else decides about is on its way or not.
LEMMA OnItsWay ==
    ASSUME MailInv, NEW c \in Miner, Custody(c), NEW u \in Up
    PROVE  /\ InFlight(u, EventAddDownSession(c)) > 0 <=> ~Free(chan, spawned, {<<u, EventAddDownSession(c)>>})
           /\ InFlight(c, EventSetUpSession(u)) > 0 <=> ~Free(chan, spawned, {<<c, EventSetUpSession(u)>>})
           /\ \/ Free(chan, spawned, {<<u, EventAddDownSession(c)>>})
              \/ Free(chan, spawned, {<<c, EventSetUpSession(u)>>})
           /\ Free(chan, spawned, Joining(u, c)) <=>
                 /\ Free(chan, spawned, {<<u, EventAddDownSession(c)>>})
                 /\ Free(chan, spawned, {<<c, EventSetUpSession(u)>>})
<1> DEFINE x == <<u, EventAddDownSession(c)>>
           y == <<c, EventSetUpSession(u)>>
<1>1. AtMostOne(chan, spawned, {x, y})
    BY JoiningOnce DEF Joining
<1>2. x # y
    BY Actors, ActorAssumption
<1>3. /\ AtMostOne(chan, spawned, {x}) /\ AtMostOne(chan, spawned, {y})
      /\ Free(chan, spawned, {x}) \/ Free(chan, spawned, {y})
      /\ Free(chan, spawned, {x, y}) <=> Free(chan, spawned, {x}) /\ Free(chan, spawned, {y})
    <2> HIDE DEF x, y
    <2> QED
        BY <1>1, <1>2, OneOfTwo
<1>4. u \in Actor /\ c \in Actor
    BY Actors
<1>5. InFlight(u, EventAddDownSession(c)) > 0 <=> ~Free(chan, spawned, {x})
    BY <1>3, <1>4, InFlightIs
<1>6. InFlight(c, EventSetUpSession(u)) > 0 <=> ~Free(chan, spawned, {y})
    BY <1>3, <1>4, InFlightIs
<1> QED
    BY <1>3, <1>5, <1>6 DEF Joining

LEMMA DisjointUnion ==
    ASSUME NEW S, NEW T, IsFiniteSet(S), IsFiniteSet(T), S \cap T = {}
    PROVE  IsFiniteSet(S \cup T) /\ Cardinality(S \cup T) = Cardinality(S) + Cardinality(T)
<1>1. Cardinality(S \cap T) = 0
    BY FS_EmptySet
<1>2. /\ IsFiniteSet(S \cup T)
      /\ Cardinality(S \cup T) = Cardinality(S) + Cardinality(T) - Cardinality(S \cap T)
    BY FS_Union
<1>3. Cardinality(S) \in Nat /\ Cardinality(T) \in Nat
    BY FS_CardinalityType
<1> QED
    BY <1>1, <1>2, <1>3

LEMMA CountedIsLoad ==
    ASSUME CustodyInv, IsFiniteSet(Miner), NEW u \in Up, UpLoop(u)
    PROVE  Counted(u) = Load(u)
<1> DEFINE S == Served(u)
           A == {d \in Miner : InFlight(u, EventAddDownSession(d)) > 0}
           G == {d \in Miner : InFlight(d, EventSetUpSession(u)) > 0}
<1>0. TypeInv /\ MailInv /\ u \in PoolSession /\ Running(u) /\ disconnected[u] \in Nat /\ S \subseteq Miner
    BY Actors, RunningIs DEF CustodyInv, TypeInv, MapInv, Known
<1>1. ASSUME NEW d \in Miner
      PROVE  /\ d \in Belongs(u) <=> d \in S \/ d \in A \/ d \in G
             /\ d \in A => d \notin G
             /\ d \in S => d \notin A /\ d \notin G
    <2>1. Custody(d)
        BY DEF CustodyInv
    <2>2. d \in A <=> ~Free(chan, spawned, {<<u, EventAddDownSession(d)>>})
        BY <1>0, <2>1, OnItsWay
    <2>3. d \in G <=> ~Free(chan, spawned, {<<d, EventSetUpSession(u)>>})
        BY <1>0, <2>1, OnItsWay
    <2>4. /\ d \in A => d \notin G
          /\ Free(chan, spawned, Joining(u, d)) <=> d \notin A /\ d \notin G
        BY <1>0, <2>1, <2>2, <2>3, OnItsWay
    <2>5. d \in S => Free(chan, spawned, Joining(u, d))
        <3> SUFFICES ASSUME d \in S PROVE Free(chan, spawned, Joining(u, d))
            OBVIOUS
        <3>1. Unsent(d)
            BY <1>0, <2>1, ServedOnlyBy
        <3>2. Joining(u, d) \subseteq Carriers(d)
            BY KeysAre
        <3> QED
            BY <3>1, <3>2, KindWithin DEF Unsent
    <2>6. d \in Belongs(u) <=> d \in S \/ ~Free(chan, spawned, Joining(u, d))
        BY DEF Belongs
    <2> HIDE DEF A, G, S
    <2> QED
        BY <2>4, <2>5, <2>6
<1>2. Belongs(u) \subseteq Miner /\ A \subseteq Miner /\ G \subseteq Miner
    BY DEF Belongs
<1>3. Counted(u) = Cardinality(S) + disconnected[u] + Cardinality(A) + Cardinality(G)
    BY <1>0, EntriesAreServed DEF Counted
<1>4. Load(u) = Cardinality(Belongs(u)) + disconnected[u]
    BY DEF Load
<1> HIDE DEF S, A, G
<1>5. Belongs(u) = (S \cup A) \cup G /\ S \cap A = {} /\ (S \cup A) \cap G = {}
    BY <1>0, <1>1, <1>2
<1>6. /\ IsFiniteSet(S) /\ IsFiniteSet(A) /\ IsFiniteSet(G)
      /\ Cardinality(S) \in Nat /\ Cardinality(A) \in Nat /\ Cardinality(G) \in Nat
    BY <1>0, <1>2, FS_Subset, FS_CardinalityType
<1>7. IsFiniteSet(S \cup A) /\ Cardinality(S \cup A) = Cardinality(S) + Cardinality(A)
    BY <1>5, <1>6, DisjointUnion
<1>8. Cardinality((S \cup A) \cup G) = Cardinality(S \cup A) + Cardinality(G)
    BY <1>5, <1>6, <1>7, DisjointUnion
<1> QED
    BY <1>0, <1>3, <1>4, <1>5, <1>6, <1>7, <1>8

LEMMA ReportedIsReports ==
    ASSUME MailInv, NEW m \in Mgr, NEW s \in Slot
    PROVE  Reported(m, s) = Cardinality(Reports(m, s))
<1> DEFINE e(n) == EventUpdateMinerNum(s, n)
           All == UNION {{n} \X (1 .. InFlight(m, e(n))) \X (1 .. n) : n \in CountersSent(m)}
<1>0. m \in Actor /\ IsChan(chan) /\ IsABag(spawned)
    BY Actors DEF MailInv, Mail
<1>1. ASSUME NEW n, n \in CountersSent(m) PROVE n \in Nat
    <2> DEFINE events == Range(chan[m]) \cup {x[2] : x \in BagToSet(spawned)}
    <2>1. PICK g \in events : g.type = "UpdateMinerNum" /\ n = g.counter
        BY <1>1 DEF CountersSent
    <2>2. g \in Event
        BY <1>0, <2>1 DEF Range, BagToSet, MailInv, Mail, Messages
    <2> QED
        BY <2>1, <2>2, EventKinds
<1>2. ASSUME NEW n \in Nat, InFlight(m, e(n)) # 0 PROVE n \in CountersSent(m)
    <2>1. InFlight(m, e(n)) = Count(chan[m], e(n)) + Copies(spawned, <<m, e(n)>>)
        BY InFlightCounts
    <2>2. e(n).type = "UpdateMinerNum" /\ e(n).counter = n
        BY DEF EventUpdateMinerNum
    <2>3. CASE e(n) \in Range(chan[m])
        BY <2>2, <2>3 DEF CountersSent
    <2>4. CASE <<m, e(n)>> \in DOMAIN spawned
        <3>1. e(n) \in {x[2] : x \in BagToSet(spawned)}
            BY <2>4 DEF BagToSet
        <3> QED
            BY <2>2, <3>1 DEF CountersSent
    <2>5. CASE e(n) \notin Range(chan[m]) /\ <<m, e(n)>> \notin DOMAIN spawned
        <3>1. PlacesIn(chan[m], e(n)) = {}
            BY <2>5 DEF PlacesIn, Range
        <3>2. Count(chan[m], e(n)) = 0
            BY <3>1, FS_EmptySet DEF Count
        <3>3. Copies(spawned, <<m, e(n)>>) = 0
            BY <2>5 DEF Copies
        <3> QED
            BY <1>2, <2>1, <3>2, <3>3
    <2> QED
        BY <2>3, <2>4, <2>5
<1>3. \A n \in Nat : InFlight(m, e(n)) \in Nat
    BY <1>0, InFlightIsNat
<1> HIDE DEF e
<1>4. ASSUME NEW x \in All PROVE x \in Reports(m, s)
    <2>1. PICK n \in CountersSent(m) : x \in {n} \X (1 .. InFlight(m, e(n))) \X (1 .. n)
        BY <1>4
    <2>2. n \in Nat /\ InFlight(m, e(n)) \in Nat
        BY <1>1, <1>3
    <2>3. x[1] = n /\ x[2] \in 1 .. InFlight(m, e(n)) /\ x[3] \in 1 .. n /\ x = <<x[1], x[2], x[3]>>
        BY <2>1
    <2>4. x \in Nat \X Nat \X Nat
        BY <2>2, <2>3
    <2> QED
        BY <2>3, <2>4 DEF Reports, e
<1>5. ASSUME NEW x \in Reports(m, s) PROVE x \in All
    <2>1. x \in Nat \X Nat \X Nat /\ x[2] \in 1 .. InFlight(m, e(x[1])) /\ x[3] \in 1 .. x[1]
        BY DEF Reports, e
    <2>2. PICK n \in Nat : x[1] = n
        BY <2>1
    <2>3. InFlight(m, e(n)) \in Nat /\ InFlight(m, e(n)) # 0
        BY <1>3, <2>1, <2>2
    <2>4. n \in CountersSent(m)
        BY <1>2, <2>3
    <2>5. x \in {n} \X (1 .. InFlight(m, e(n))) \X (1 .. n)
        BY <2>1, <2>2
    <2> QED
        BY <2>4, <2>5
<1>6. All = Reports(m, s)
    BY <1>4, <1>5
<1>7. Reported(m, s) = Cardinality(All)
    BY DEF Reported, e
<1> HIDE DEF All
<1> QED
    BY <1>6, <1>7

LEMMA BooksCount ==
    ASSUME Surroundings, BooksInv
    PROVE  MinersAccounted
<1> SUFFICES ASSUME NEW m \in mgrLoop, NEW s \in Slot
             PROVE  /\ \A u \in SessionsOf(m, s) : minerNum[m][s] = Counted(u) + Reported(m, s)
                    /\ SessionsOf(m, s) = {} => minerNum[m][s] = Reported(m, s)
    BY DEF MinersAccounted
<1>0. /\ TypeInv /\ MailInv /\ CustodyInv /\ IsFiniteSet(Miner) /\ m \in Mgr
      /\ minerNum[m][s] \in Int /\ disconnected \in [PoolSession -> Nat]
    BY DEF Surroundings, CustodyInv, TypeInv, MgrInv, LoopsInv, CountInv, MapInv
<1>1. Books(m, s) /\ IsFiniteSet(Reports(m, s))
    BY <1>0 DEF BooksInv, Ledger, Minded
<1> DEFINE r == Cardinality(Reports(m, s))
<1>2. r \in Nat /\ Reported(m, s) = r /\ Due(m, s) = minerNum[m][s] - r
    BY <1>0, <1>1, ReportedIsReports, FS_CardinalityType DEF Due
<1> HIDE DEF r
<1>3. ASSUME NEW u \in SessionsOf(m, s) PROVE minerNum[m][s] = Counted(u) + Reported(m, s)
    <2>1. u \in Up /\ UpLoop(u) /\ Due(m, s) = Load(u)
        BY <1>1 DEF SessionsOf, Books
    <2>2. Counted(u) = Load(u)
        BY <1>0, <2>1, CountedIsLoad
    <2>3. Load(u) \in Nat
        BY <1>0, <2>1, BelongsFinite, Actors DEF Load
    <2> QED
        BY <1>0, <1>2, <2>1, <2>2, <2>3
<1>4. SessionsOf(m, s) = {} => minerNum[m][s] = Reported(m, s)
    BY <1>0, <1>1, <1>2 DEF Books
<1> QED
    BY <1>3, <1>4

\* With no more miners than ids, and as long as no pool session breaks, a
\* manager's minerNum is exact for every slot, whatever the interleaving: it is
\* the number of the miners that the slot's session serves, that are about to
\* join it or that it has not reported gone, and of those in the reports that
\* are on their way.
THEOREM ManagersCountTheirMiners ==
    ASSUME IsFiniteSet(Miner), Cardinality(Miner) <= MaxSessionId + 1, Breakable = {}
    PROVE  Spec => []MinersAccounted
<1> DEFINE Inv == TypeInv /\ RingInv /\ CustodyInv /\ SlotsInv /\ BooksInv
<1>1. Inv => Surroundings
    BY RingGivesDifferentIds DEF Surroundings, Reliable
<1>2. Init => Inv
    BY InitTypeInv, InitRing, InitCustodyInv, InitSlotsInv, InitBooksInv
<1>3. Inv /\ [Next]_vars => Inv'
    <2> SUFFICES ASSUME Inv, [Next]_vars PROVE Inv'
        OBVIOUS
    <2>1. TypeInv' /\ SlotsInv'
        BY NextTypeInv, NextSlotsInv
    <2>2. RingInv'
        BY RingStays DEF EnoughIds
    <2>3. IdsDiffer'
        BY <2>2, RingGivesDifferentIds, PTL
    <2>4. CustodyInv'
        <3>1. Unused'
            BY UnusedStays DEF CustodyInv
        <3>2. \A c \in Miner : Custody(c)'
            BY NextFollows DEF CustodyInv, Follows
        <3> QED
            BY <2>1, <3>1, <3>2 DEF CustodyInv
    <2>5. BooksInv'
        BY <1>1, <2>1, <2>3, NextBooksInv
    <2> QED
        BY <2>1, <2>2, <2>4, <2>5
<1>4. Inv => MinersAccounted
    BY <1>1, BooksCount
<1> QED
    BY <1>2, <1>3, <1>4, PTL DEF Spec

-----------------------------------------------------------------------------
=============================================================================
