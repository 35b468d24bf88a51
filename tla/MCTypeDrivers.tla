----------------------------- MODULE MCTypeDrivers -----------------------------
(* A small instance of TypeDrivers for TLC. *)
EXTENDS TypeDrivers, TLC

CONSTANTS x1, x2

(* Ranges that slide over three VNIs, none, an entry that starts below the *)
(* valid VNIs, and one that is reversed.                                   *)
SmallVnis == 4095 .. 4098

SmallConfigs ==
    {[vni |-> {<<4096, 4097>>}, ext |-> {x1}],
     [vni |-> {<<4097, 4097>>, <<4098, 4098>>}, ext |-> {}],
     [vni |-> {}, ext |-> {x1, x2}],
     [vni |-> {<<4095, 4096>>}, ext |-> {x1}],
     [vni |-> {<<4096, 4096>>, <<4098, 4097>>}, ext |-> {x2}]}

Symmetry == Permutations(Procs) \cup Permutations(Networks)

===============================================================================
