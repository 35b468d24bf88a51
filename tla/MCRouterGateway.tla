---------------------------- MODULE MCRouterGateway ----------------------------
(* Small instances of RouterGateway for TLC. *)
EXTENDS RouterGateway, TLC

CONSTANTS e1, e2, e3, e4, b1, b2, i1, v1

Symmetry == Permutations(Routers) \cup Permutations(Workers)

Setup(may, nets, leaves, vlans, ranges) ==
    [may |-> may, nets |-> nets, leavesOf |-> leaves, vlans |-> vlans,
     ranges |-> ranges]

(* e1 is served by both border leaves, e2 by one, the IPv6 e4 by one. *)
Branches == (e1 :> {b1, b2}) @@ (e2 :> {b2}) @@ (e3 :> {}) @@ (e4 :> {b2})

(* Only the first leaf serves a network. *)
FirstLeaf == (e1 :> {b1}) @@ (e2 :> {}) @@ (e3 :> {}) @@ (e4 :> {})

(* Networks of all kinds, nothing goes wrong. *)
Quiet == {Setup({"createGw"}, Nets, Branches, Vlans, {L2Vnis})}

(* The ranges change, servers die in creations and deletions. *)
Dying == {Setup({"createGw", "inUse", "crashes"}, {e1}, Branches, Vlans,
                {L2Vnis, {i1}})}

(* AFC refuses to add; one VLAN on each leaf for two routers. *)
FaultyAdd == {Setup({"addFails", "inUse", "crashes"}, {e1}, Branches, {v1},
                    {L2Vnis})}

(* AFC refuses to delete as well. *)
FaultyDel == {Setup({"addFails", "delFails", "inUse", "crashes"}, {e1}, FirstLeaf,
                    {v1}, {L2Vnis, {i1}})}

(* Two requests at a time for pools of one. *)
Crowded == {Setup({"addFails", "overlap"}, {e1}, FirstLeaf, {v1}, {{i1}})}

(* The database fails removals. *)
Failing == {Setup({"delRaises"}, {e1}, FirstLeaf, {v1}, {{i1}})}

AllSetups == Quiet \cup Dying \cup FaultyAdd \cup FaultyDel \cup Crowded \cup Failing

===============================================================================
