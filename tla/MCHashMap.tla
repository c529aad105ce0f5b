----------------------------- MODULE MCHashMap -----------------------------
(* HashMap with keys that collide: k1 and k2 share a bucket at every table  *)
(* size reached, k3 joins them until the table has eight slots.             *)
EXTENDS HashMap

CONSTANTS k1, k2, k3

Colliding == [k \in Key |-> CASE k = k1 -> 0 [] k = k2 -> 16 [] k = k3 -> 4]
=============================================================================
