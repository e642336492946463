---------------------------- MODULE LeasedMutex ----------------------------
(***************************************************************************)
(* What DistributedLock promises its callers, without entries, owners or   *)
(* clocks: a worker that was admitted to a key works on it alone until it  *)
(* leaves or its lease runs out.  The detailed scheduler implements this   *)
(* module; what a worker does after its lease ran out is not part of the   *)
(* promise.                                                                *)
(***************************************************************************)
CONSTANTS Workers, Keys, NoKey

VARIABLE inside  \* inside[w]: the key w works on under a live lease, or NoKey

Init == inside = [w \in Workers |-> NoKey]

\* A worker without a key is admitted to a key no other worker is inside of.
Enter(w, k) ==
    /\ inside[w] = NoKey
    /\ \A v \in Workers : inside[v] # k
    /\ inside' = [inside EXCEPT ![w] = k]

\* Some workers leave: one by releasing, several at once when leases run out.
Leave(W) ==
    inside' = [w \in Workers |-> IF w \in W THEN NoKey ELSE inside[w]]

Next ==
    \/ \E w \in Workers, k \in Keys : Enter(w, k)
    \/ \E W \in SUBSET Workers : Leave(W)

Spec == Init /\ [][Next]_inside
============================================================================
