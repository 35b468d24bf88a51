--------------------------- MODULE MCBorderVlanSync ---------------------------
(* Small instances of BorderVlanSync for TLC.  Leaves and VLANs are        *)
(* numbers, so that the order of the sync is that of leaf and VLAN.        *)
EXTENDS BorderVlanSync, TLC

(* VLAN 1 leaves the range of leaf 1, VLAN 3 joins it, leaf 2 is no longer *)
(* a border leaf.                                                          *)
NewRanges == {<<1, 2>>, <<1, 3>>}
OldRanges == {<<1, 1>>, <<1, 2>>, <<2, 1>>}

(* What a configuration with OldRanges leaves: each router owns at most    *)
(* one VLAN per leaf.                                                      *)
OldTables ==
    {t \in [OldRanges -> Routers \cup {Free}] :
        \A x, y \in OldRanges : t[x] = t[y] /\ t[x] # Free /\ x[1] = y[1] => x = y}

CONSTANTS s1, s2, w1, w2

(* Requests are served by the starting processes, or by older ones. *)
NewHome == (w1 :> s1) @@ (w2 :> s2)
OldHome == [w \in Workers |-> None]
BothHomes == {NewHome, OldHome}

Rank1 == [x \in Rows |-> 10 * x[1] + (IF x \in Configured THEN 5 ELSE 0) + x[2]]

===============================================================================
