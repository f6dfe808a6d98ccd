----------------------------- MODULE MCServices -----------------------------
(***************************************************************************)
(* The services beside the schedulers: signal sets, and the thread pool    *)
(* with its clients.  They share nothing but the scheduler's queue, so a   *)
(* behaviour explores one of the two, and `part` says which.               *)
(***************************************************************************)
EXTENDS SignalService, PoolServices, TLC

VARIABLE part    \* "signals" or "pool"

MCInit == /\ SigInit /\ PoolInit /\ part \in {"signals", "pool"}
          /\ (part = "signals" => pkind = "posix")
          /\ (part = "pool" => platform = "posix")
\* every set may be destroyed
SigEnd == (\A s \in Sets : ~Alive(s)) /\ UNCHANGED sig_vars
MCNext == \/ part = "signals" /\ (SigNext \/ SigEnd) /\ UNCHANGED <<part, pool_vars>>
          \/ part = "pool" /\ PoolNext /\ UNCHANGED <<part, sig_vars>>
MCSpec == MCInit /\ [][MCNext]_<<part, sig_vars, pool_vars>>
MCSymmetry == Permutations(Sets) \cup Permutations(PoolThreads)
=============================================================================
