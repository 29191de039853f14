------------------------------- MODULE MCAgent -------------------------------
(***************************************************************************)
(* The agent on small instances.  Miners, pool sessions and managers are   *)
(* pools of unused objects, so they can be exchanged for one another where *)
(* a configuration gives them all the same rights; only the runs without   *)
(* liveness properties use it.                                             *)
(***************************************************************************)
EXTENDS Agent

\* Sub-accounts are names that the agent only compares.
Exchangeable ==
    Permutations(Miner) \cup Permutations(Up) \cup Permutations(Mgr)
        \cup Permutations(Account)
=============================================================================
