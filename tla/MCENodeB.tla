------------------------------ MODULE MCENodeB ------------------------------
(* ENodeB with one or two connections: the second may be accepted on a      *)
(* descriptor of its own or on the one the first has left.  Nothing tells   *)
(* the connections apart.                                                   *)
EXTENDS ENodeB, TLC

Symmetry == Permutations(Conn)
=============================================================================
