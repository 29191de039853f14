----------------------------- MODULE SlotAttempt -----------------------------
(***************************************************************************)
(* What UpSessionManager.connect promises to its manager: it tries the     *)
(* pools of the configuration in their order, one at a time, and reports   *)
(* once: the slot is ready with the pool it is at, or every pool failed.   *)
(* Agent relies on this: there, an attempt is ConnectSucceeds or           *)
(* ConnectFails.                                                           *)
(***************************************************************************)
EXTENDS Integers

CONSTANT PoolNum

VARIABLES
    pool,       \* the pool that is tried, or was tried last
    outcome     \* what the manager was told

AttemptInit ==
    /\ pool = 1
    /\ outcome = "none"

NextPool ==
    /\ outcome = "none"
    /\ pool < PoolNum
    /\ pool' = pool + 1
    /\ UNCHANGED outcome

Ready ==
    /\ outcome = "none"
    /\ outcome' = "UpSessionReady"
    /\ UNCHANGED pool

Failed ==
    /\ outcome = "none"
    /\ pool = PoolNum
    /\ outcome' = "UpSessionInitFailed"
    /\ UNCHANGED pool

AttemptSpec == AttemptInit /\ [][NextPool \/ Ready \/ Failed]_<<pool, outcome>>
=============================================================================
