----------------------------- MODULE Dictionary -----------------------------
(* What lib/hashmap.h promises: a finite map from keys to values.  Each     *)
(* operation is one step; `ret' is what the last one returned.              *)
EXTENDS Integers, FiniteSets

CONSTANTS Key, Value, None   \* None is no value: the key is absent

VARIABLES dict, ret

dvars == <<dict, ret>>

Present == {k \in Key : dict[k] # None}

DInit == dict = [k \in Key |-> None] /\ ret = 0

(* "0 if updated, 1 if added." *)
DPut(k, v) ==
  /\ ret' = IF dict[k] = None THEN 1 ELSE 0
  /\ dict' = [dict EXCEPT ![k] = v]

(* "0 on success. -1 if not found."  The value is handed out on success. *)
DGet(k) ==
  /\ ret' = IF dict[k] = None THEN -1 ELSE dict[k]
  /\ UNCHANGED dict

(* "0 on success. -1 if not found." *)
DDelete(k) ==
  /\ ret' = IF dict[k] = None THEN -1 ELSE 0
  /\ dict' = [dict EXCEPT ![k] = None]

(* "Returns the size of the hashmap in items" *)
DSize == ret' = Cardinality(Present) /\ UNCHANGED dict

(* "Clears all the key/value pairs." *)
DClear == ret' = 0 /\ dict' = [k \in Key |-> None]

DNext ==
  \/ \E k \in Key : \/ \E v \in Value : DPut(k, v)
                    \/ DGet(k) \/ DDelete(k)
  \/ DSize \/ DClear

DSpec == DInit /\ [][DNext]_dvars

=============================================================================
