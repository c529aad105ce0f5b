------------------------------ MODULE FileCopy ------------------------------
(***************************************************************************)
(* What the transfer of a file promises: the UE's copy grows by blocks of  *)
(* the file, in order and none twice, from the moment it is opened until   *)
(* it is closed; a block may be missing.  A copy that is closed with       *)
(* nothing missed is the whole file.  All promises end when the connection *)
(* no longer delivers whole messages ("broken"); the copy then still grows *)
(* by whole blocks only.                                                   *)
(***************************************************************************)
EXTENDS Naturals, Sequences

CONSTANTS
  Sizes,       \* the sizes, in bytes, a file may have
  BUFFER_SIZE  \* bytes in a block

VARIABLES
  size,     \* bytes in the file
  copy,     \* the blocks appended so far
  missed,   \* something of the file has not been handled
  state     \* "none", "open", "closed" or "broken"

vars == <<size, copy, missed, state>>

Blocks(n) == (n + BUFFER_SIZE - 1) \div BUFFER_SIZE

(* The bytes of block i, named by their positions; the last block is filled  *)
(* up with zeros.                                                            *)
Block(n, i) == [k \in 1..BUFFER_SIZE |-> LET p == (i - 1) * BUFFER_SIZE + k
                                         IN IF p <= n THEN p ELSE 0]

Whole == copy = [i \in 1..Blocks(size) |-> Block(size, i)]

Init == size \in Sizes /\ copy = <<>> /\ missed = FALSE /\ state = "none"

Open == state = "none" /\ state' = "open" /\ UNCHANGED <<size, copy, missed>>

AppendBlock ==
  /\ state = "open"
  /\ \E i \in 1..Blocks(size) :
       /\ \A j \in DOMAIN copy : \E k \in 1..(i - 1) : copy[j] = Block(size, k)
       /\ copy' = Append(copy, Block(size, i))
  /\ UNCHANGED <<size, missed, state>>

Miss == missed' = TRUE /\ UNCHANGED <<size, copy, state>>

Close ==
  /\ state = "open" /\ state' = "closed"
  /\ missed \/ Whole
  /\ UNCHANGED <<size, copy, missed>>

Break == state' = "broken" /\ UNCHANGED <<size, copy, missed>>
Broken ==
  /\ state = "broken" /\ state' = "broken" /\ size' = size /\ missed' \in BOOLEAN
  /\ \/ copy' = copy
     \/ /\ Len(copy') = Len(copy) + 1 /\ SubSeq(copy', 1, Len(copy)) = copy
        /\ DOMAIN copy'[Len(copy')] = 1..BUFFER_SIZE

Next == Open \/ AppendBlock \/ Miss \/ Close \/ Break \/ Broken
Spec == Init /\ [][Next]_vars
=============================================================================
