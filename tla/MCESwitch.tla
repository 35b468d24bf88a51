------------------------------- MODULE MCESwitch -------------------------------
(* One device with up to two VFs and two ports, three limits: none, one    *)
(* below 1 Mbps and one half way between two steps of ip link.             *)
EXTENDS ESwitch, TLC

CONSTANTS p1, p2, s1, s2

MCLimits == {0, 400, 1500}

Alike == Permutations({p1, p2}) \cup Permutations({s1, s2})

(* Ports on one VF; VFs that come up and go without ports. *)
Wired == [counts |-> TRUE, late |-> FALSE, rough |-> FALSE, leaves |-> FALSE,
          fails |-> FALSE, most |-> 1, ports |-> {p1, p2}]
Bare == [Wired EXCEPT !.most = 2, !.ports = {}]

AllSetups == {[Wired EXCEPT !.rough = TRUE],
              [Wired EXCEPT !.fails = TRUE],
              [Wired EXCEPT !.fails = TRUE, !.most = 2, !.ports = {p1}],
              [Wired EXCEPT !.fails = TRUE, !.leaves = TRUE, !.ports = {p1}],
              [Bare EXCEPT !.leaves = TRUE],
              [Bare EXCEPT !.counts = FALSE],
              [Bare EXCEPT !.late = TRUE]}

===============================================================================
