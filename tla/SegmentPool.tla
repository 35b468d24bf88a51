------------------------------ MODULE SegmentPool ------------------------------
(***************************************************************************)
(* What a tunnel type driver promises to networks: a network is given a    *)
(* segment nobody else has, keeps it, and gives it up only when it is      *)
(* deleted.                                                                *)
(***************************************************************************)
CONSTANTS Networks, Segments, None

VARIABLE segment

Init == segment = [n \in Networks |-> None]

Give(n, s) ==
    /\ segment[n] = None
    /\ \A m \in Networks : segment[m] # s
    /\ segment' = [segment EXCEPT ![n] = s]

TakeBack(n) == segment' = [segment EXCEPT ![n] = None]

Next == \E n \in Networks : TakeBack(n) \/ \E s \in Segments : Give(n, s)

Spec == Init /\ [][Next]_segment

===============================================================================
