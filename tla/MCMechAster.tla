------------------------------ MODULE MCMechAster ------------------------------
(* Small instances of MechAster for TLC. *)
EXTENDS MechAster, TLC

CONSTANTS w1, w2, x1, q1, p1, p2, p3, h1, h2, s1, s2

(* Two server nodes, each connected to a switch of its own ... *)
TwoLeaves == (s1 :> {h1}) @@ (s2 :> {h2})

(* ... or both to one switch. *)
OneLeaf == s1 :> {h1, h2}

OnePhysnet == [s \in Switches |-> "physnet"]

(* The workers are threads of one neutron-server process. *)
OneProcess == [w \in PortWorkers |-> q1]

(* Requests overlap or follow one another; ... *)
NothingFails == {{"overlap"}, {}}

(* ... and AFC fails, while they overlap or while the server also dies. *)
Failures == {{"overlap", "afcFails"}, {"afcFails", "crashes"}}

(* The threads of one process, and the ports, are interchangeable; so are  *)
(* the nodes on one switch, and nodes together with switches of their own. *)
Symmetry == Permutations({w1, w2}) \cup Permutations({p1, p2})
SymmetryOne == Symmetry \cup Permutations({h1, h2})
SymmetryTwo ==
    Symmetry \cup {(h1 :> h2) @@ (h2 :> h1) @@ (s1 :> s2) @@ (s2 :> s1)}

===============================================================================
