--------------------------- MODULE MCControlPlane ---------------------------
(* Instances of ControlPlane: threads and operators are interchangeable.   *)
EXTENDS ControlPlane, TLC

CONSTANTS w1, w2, o1, o2

OperatorsAlike == Permutations({o1, o2})

Alike == Permutations({w1, w2}) \cup OperatorsAlike
=============================================================================
