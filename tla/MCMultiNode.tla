----------------------------- MODULE MCMultiNode -----------------------------
(***************************************************************************)
(* Instances of MultiNode for TLC: the delays of run_on_all_nodes in units *)
(* of ten seconds.                                                         *)
(***************************************************************************)
EXTENDS MultiNode, TLC

CONSTANTS h1, h2

TwoAttempts == <<1, 2>>
ThreeAttempts == <<1, 2, 4>>
SameHosts == Permutations(Hosts)
=============================================================================
