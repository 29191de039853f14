-------------------------- MODULE SessionIDManager --------------------------
(***************************************************************************)
(* The allocator of session ids (src/SessionIDManager.go).  A session id   *)
(* is the miner's extra nonce prefix and the key of every map of miners,   *)
(* so the whole agent rests on it.                                         *)
(*                                                                         *)
(* Every method holds manager.lock from its first to its last statement,   *)
(* so each is one action.  The numbers are Go's uint16: Width is 2^16 in   *)
(* the program and MaxSessionId is 0xfffe (SessionManager.go:32).          *)
(*                                                                         *)
(* A definition whose comment starts with "Mutant" is not part of the      *)
(* model: it is a plausible bug that a property has to notice.             *)
(***************************************************************************)
EXTENDS Integers, FiniteSets

CONSTANTS
    MaxSessionId,   \* the largest id the allocator may hand out
    Width           \* the number of values of the integer type, 2^16

\* count goes up to MaxSessionId + 1 and has to be a value of the type: this
\* is the difference between 0xfffe, which the program passes, and 0xffff.
ASSUME IdAssumption ==
    /\ MaxSessionId \in Nat
    /\ Width \in Nat
    /\ MaxSessionId + 1 < Width

VARIABLES
    sessionIDs,   \* the bits that are set
    count,        \* how many ids are used now
    allocIDx      \* where the next search starts

idVars == <<sessionIDs, count, allocIDx>>

Word == 0 .. Width - 1
SessionIds == 0 .. MaxSessionId

\* count++ and count-- on the unsigned type.
Inc(n) == IF n = Width - 1 THEN 0 ELSE n + 1
Dec(n) == IF n = 0 THEN Width - 1 ELSE n - 1

\* Mutant: the cursor is not moved past the granted id.
NextIdxStays(i) == i

\* Mutant: the cursor is not wrapped at the end of the range.
NextIdxUnbounded(i) == Inc(i)

\* manager.next(), as the value it gives the cursor that stands at i.
NextIdx(i) == IF Inc(i) > MaxSessionId THEN 0 ELSE Inc(i)

\* The positions the search visits before it stops at id: from the cursor up
\* to id, around the end of the range when id lies behind the cursor.
Passed(id) ==
    {i \in SessionIds : IF allocIDx <= id THEN allocIDx <= i /\ i < id
                                          ELSE allocIDx <= i \/ i < id}

\* Mutant: one more id than there are bits.
IsFullOffByOne == count > MaxSessionId + 1

IsFull == count > MaxSessionId

-----------------------------------------------------------------------------
IDInit ==
    /\ sessionIDs = {}
    /\ count = 0
    /\ allocIDx = 0

\* Mutant: the search is skipped and the cursor is granted as it stands.
AllocSessionIDAtCursor(id) ==
    /\ ~IsFull
    /\ id = allocIDx
    /\ sessionIDs' = sessionIDs \cup {id}
    /\ count' = Inc(count)
    /\ allocIDx' = NextIdx(id)

\* The search stops at the first clear bit: id is clear and the bits it
\* passed are not.
AllocSessionID(id) ==
    /\ ~IsFull
    /\ id \in SessionIds \ sessionIDs
    /\ Passed(id) \subseteq sessionIDs
    /\ sessionIDs' = sessionIDs \cup {id}
    /\ count' = Inc(count)
    /\ allocIDx' = NextIdx(id)

\* ErrSessionIDFull
AllocSessionIDFull ==
    /\ IsFull
    /\ UNCHANGED idVars

\* The bit is tested first: an id that is not allocated is left alone.
FreeSessionID(id) ==
    IF id \in sessionIDs
    THEN /\ sessionIDs' = sessionIDs \ {id}
         /\ count' = Dec(count)
         /\ UNCHANGED allocIDx
    ELSE UNCHANGED idVars

\* The allocator by itself, as its tests drive it: any caller, any argument.
IDNext ==
    \/ \E id \in SessionIds : AllocSessionID(id)
    \/ AllocSessionIDFull
    \/ \E id \in Word : FreeSessionID(id)

IDSpec == IDInit /\ [][IDNext]_idVars

-----------------------------------------------------------------------------
\* Type invariant: the bits, the counter and the cursor stay in range.
IDTypeOK ==
    /\ sessionIDs \subseteq SessionIds
    /\ count \in Word
    /\ allocIDx \in SessionIds

\* count is the number of bits that are set, whatever was freed twice or
\* never allocated: isFullWithoutLock decides from count alone, so a drift in
\* either direction would refuse miners for ever or start an endless search.
CountIsPopulation == count = Cardinality(sessionIDs)

\* AllocSessionID searches with the lock held and without a bound.  When it
\* passes the isFullWithoutLock test there must be a clear bit to find.
ScanTerminates == ~IsFull => SessionIds \ sessionIDs # {}

\* The search is a ring.  Messages about a miner that has gone may still be on
\* their way when its id is free again, so the id that was granted last is
\* granted again only when no other id is clear.
FreshestIsLast ==
    [][\A id \in sessionIDs' \ sessionIDs :
          NextIdx(id) = allocIDx => SessionIds \ {id} \subseteq sessionIDs]_idVars
=============================================================================
