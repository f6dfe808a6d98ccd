----------------------------- MODULE MCPrograms -----------------------------
(***************************************************************************)
(* Algorithms and programs: the timer heap, the endpoints a program        *)
(* parses, timeout(), the helpers delay(), connect() over a range and      *)
(* run_until(), tcp_server, and the programs of perf/.  The modules share  *)
(* no state, so a behaviour explores one of them, and `part` says which;   *)
(* the others rest in one fixed state.                                     *)
(*                                                                         *)
(* Six timers are the fewest for which the leaf that fills a hole of the   *)
(* heap can be earlier than the hole's parent, which is the case that      *)
(* makes remove_timer_impl climb.  They are interchangeable: MCView keeps  *)
(* of a heap what does not depend on their names, so that TLC tells heaps  *)
(* apart up to a renaming of the timers.                                   *)
(***************************************************************************)
EXTENDS TimerHeapSpec, Timeout, Helpers, Addresses, TcpServer, Workloads, PostLoops

VARIABLE part

Parts == {"heap", "timeout", "helpers", "addresses", "server", "workloads", "posts"}

MCInit ==
    /\ part \in Parts
    /\ Init /\ ServerInit
    /\ TimeoutInit /\ (part # "timeout" => ~threads /\ src = {})
    /\ HelpersInit
    /\ (part # "helpers" => call.name = "delay" /\ ~stopped /\ until = 0)
    /\ WlInit /\ (part # "workloads" => bench = small_io_warmup)
    /\ PostInit /\ (part # "posts" => program = coroutine_post_warmup)
    /\ IF part = "addresses" THEN AddrInit
       ELSE ep = V4(Zeros(4), 0) /\ text = <<>> /\ edits = MaxEdits

vars == <<part, H, toVars, hVars, addrVars, srvVars, wlVars, postVars>>

MCNext ==
    \/ part = "heap" /\ Next
       /\ UNCHANGED <<part, toVars, hVars, addrVars, srvVars, wlVars, postVars>>
    \/ part = "timeout" /\ TimeoutNext
       /\ UNCHANGED <<part, H, hVars, addrVars, srvVars, wlVars, postVars>>
    \/ part = "helpers" /\ HelpersNext
       /\ UNCHANGED <<part, H, toVars, addrVars, srvVars, wlVars, postVars>>
    \/ part = "addresses" /\ AddrNext
       /\ UNCHANGED <<part, H, toVars, hVars, srvVars, wlVars, postVars>>
    \/ part = "server" /\ ServerNext
       /\ UNCHANGED <<part, H, toVars, hVars, addrVars, wlVars, postVars>>
    \/ part = "workloads" /\ WlNext
       /\ UNCHANGED <<part, H, toVars, hVars, addrVars, srvVars, postVars>>
    \/ part = "posts" /\ PostNext
       /\ UNCHANGED <<part, H, toVars, hVars, addrVars, srvVars, wlVars>>

MCSpec == MCInit /\ [][MCNext]_vars

\* The times in heap order, where each entry's timer has its index, and the
\* indices of the timers that have no entry.
HeapView ==
    <<[i \in DOMAIN H.heap |-> <<H.heap[i].time, H.index[H.heap[i].timer]>>],
      {H.index[t] : t \in {u \in Timers : \A i \in DOMAIN H.heap : H.heap[i].timer # u}}>>

\* A state is told from the others by the active part: the rest is fixed.
MCView ==
    CASE part = "heap" -> <<part, HeapView>>
      [] part = "timeout" -> <<part, toVars>>
      [] part = "helpers" -> <<part, hVars>>
      [] part = "addresses" -> <<part, addrVars>>
      [] part = "server" -> <<part, srvVars>>
      [] part = "workloads" -> <<part, wlVars>>
      [] part = "posts" -> <<part, postVars>>
=============================================================================
