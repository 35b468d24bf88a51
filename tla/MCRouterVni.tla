----------------------------- MODULE MCRouterVni -----------------------------
(* Small instances of RouterVni for TLC. *)
EXTENDS RouterVni, TLC

CONSTANTS v1, v2, v3

(* A pool of two that an operator may move by one, or shrink to one. *)
MovingRanges == {{v1, v2}, {v2, v3}, {v1}}

(* A pool of two, or one VNI elsewhere: rows end up outside the range, and *)
(* the pool may run dry.                                                   *)
DisjointRanges == {{v1, v2}, {v3}}

(* A fixed pool of two, for more routers than VNIs. *)
FixedRanges == {{v1, v2}}

AnyPoint == Points

(* A crash between two database steps of create_router, or between the two *)
(* of delete_router, leaves a router row without VNI.                      *)
SafePoints == Points \ {"pick", "write", "unrow"}

Symmetry == Permutations(Workers) \cup Permutations(Routers)

===============================================================================
