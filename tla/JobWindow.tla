------------------------------ MODULE JobWindow ------------------------------
(***************************************************************************)
(* What a miner session promises about the jobs it has sent: it remembers  *)
(* the last Size of them and answers a share with the job that was sent    *)
(* last under the share's hash.  Nothing is said of how they are stored.   *)
(***************************************************************************)
EXTENDS Integers

CONSTANTS
    Size,       \* how many jobs are remembered
    PowHash,    \* the hashes of jobs
    JobID,      \* the pool's ids of jobs
    NoHash,     \* the hash of an entry that holds no job yet
    Nil         \* not found

\* Size is positive, NoHash is no hash and Nil no id: QueueAssumption of
\* JobIDQueueETH, which implements this module.

VARIABLE window    \* the last Size jobs, the oldest first

Jobs == [powHash : PowHash, jobID : JobID]
NoJob == [powHash |-> NoHash, jobID |-> Nil]
Age == 1 .. Size

WindowInit == window = [k \in Age |-> NoJob]

\* Another job is sent: the oldest one is forgotten.
Remember(j) == window' = [k \in Age |-> IF k < Size THEN window[k + 1] ELSE j]

WindowSpec == WindowInit /\ [][\E j \in Jobs : Remember(j)]_window

\* k is the place of the job that was sent last with hash h.
Latest(h, k) ==
    /\ k \in Age
    /\ window[k].powHash = h
    /\ \A l \in Age : l > k => window[l].powHash # h

Lookup(h) ==
    IF \E k \in Age : Latest(h, k) THEN window[CHOOSE k \in Age : Latest(h, k)].jobID ELSE Nil
=============================================================================
