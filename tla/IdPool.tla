-------------------------------- MODULE IdPool --------------------------------
(***************************************************************************)
(* What an identifier pool promises its users, whatever table, ranges and  *)
(* server processes implement it: an identifier is handed out only while   *)
(* nobody owns it and only to a user that owns none, and it changes hands  *)
(* only by way of the pool.                                                *)
(***************************************************************************)
CONSTANTS Ids, Users, Free

VARIABLE owner

Init == owner = [i \in Ids |-> Free]

Grant(i, u) ==
    /\ owner[i] = Free
    /\ \A j \in Ids : owner[j] # u
    /\ owner' = [owner EXCEPT ![i] = u]

Reclaim(S) ==
    owner' = [i \in Ids |-> IF owner[i] \in S THEN Free ELSE owner[i]]

Next == \/ \E i \in Ids, u \in Users : Grant(i, u)
        \/ \E S \in SUBSET Users : Reclaim(S)

Spec == Init /\ [][Next]_owner

===============================================================================
