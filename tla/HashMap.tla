------------------------------ MODULE HashMap ------------------------------
(***************************************************************************)
(* lib/hashmap.c used by one thread.  A bucket is the sequence of entries  *)
(* that starts in the table slot and follows the next links; an entry with *)
(* a NULL key ends every walk.  The first entry lives in the table, every  *)
(* further one in a node of its own, and `live' says whether that node is  *)
(* still allocated.  MurmurHash3 is an arbitrary function of the key, and  *)
(* allocation succeeds.                                                    *)
(***************************************************************************)
EXTENDS Integers, Sequences, FiniteSets

CONSTANTS
  Key, Value, None,
  Hash,             \* out[1] of MurmurHash3_x64_128, for each key
  DEFAULT_CAPACITY, \* table size when none is asked for (128)
  InitialSize,      \* the initial_size handed to hashmap_init
  Calls             \* the operations the user of the map makes

NULL == "NULL"
Operation == {"get", "put", "delete", "size", "iter", "iter_delete", "clear", "destroy"}

ASSUME MapAssumption ==
  /\ None \notin Value /\ NULL \notin Key
  /\ Hash \in [Key -> Nat]
  /\ DEFAULT_CAPACITY \in Nat \ {0}
  /\ InitialSize \in Int /\ InitialSize <= 2^30
  /\ Calls \subseteq Operation

VARIABLES
  table,      \* table[i]: the entries of bucket i
  table_size, max_size, count,
  state,      \* "ready", "iter" (inside hashmap_iter), "destroyed", "crashed"
  cursor,     \* hashmap_iter: the slot i and the position of entry in its bucket
  seen,       \* hashmap_iter: the keys the callback was called with, in order
  start,      \* history: the keys in the map when hashmap_iter was called
  ret         \* what the last operation returned

map  == <<table, table_size, max_size, count>>
iter == <<cursor, seen, start>>
vars == <<map, state, iter, ret>>

-----------------------------------------------------------------------------
Entry(k, v) == [key |-> k, value |-> v, live |-> TRUE]
Empty       == Entry(NULL, None)

(* "Round up to power of 2": 1 << most_sig_bit, or the power after it. *)
RoundUp(n) ==
  LET msb == CHOOSE b \in 0..30 : 2^b <= n /\ (b = 30 \/ n < 2^(b + 1))
  IN IF 2^msb # n THEN 2^(msb + 1) ELSE n

Least(S)  == CHOOSE p \in S : \A q \in S : p <= q
Nth(S, j) == CHOOSE p \in S : Cardinality({q \in S : q <= p}) = j

Index(k) == Hash[k] % table_size

(* Where a walk along bucket c ends: at a NULL key or past the last entry.   *)
Stop(c) == Least({p \in 1..Len(c) : c[p].key = NULL} \cup {Len(c) + 1})

(* Where a search for k in bucket c ends: at its entry or where the walk does. *)
Where(c, k) == Least({p \in 1..Stop(c) : p < Stop(c) => c[p].key = k})
Found(c, k) == Where(c, k) < Stop(c)

(* Whether visiting the entries up to p reads a node that has been freed.    *)
Dangling(c, p) == \E q \in 2..p : q <= Len(c) /\ ~c[q].live

(* The keys a walk finds. *)
KeysOf(c) == {c[p].key : p \in 1..(Stop(c) - 1)}
Keys == UNION {KeysOf(table[i]) : i \in DOMAIN table}

(* Undefined behaviour: a read of freed memory, or a call stack that         *)
(* overflows; nothing is said of what follows.                               *)
Crash == state' = "crashed" /\ UNCHANGED <<map, iter, ret>>

-----------------------------------------------------------------------------
Init ==
  /\ table_size = IF InitialSize <= 0 THEN DEFAULT_CAPACITY ELSE RoundUp(InitialSize)
  /\ max_size = (3 * table_size) \div 4
  /\ table = [i \in 0..(table_size - 1) |-> <<Empty>>]
  /\ count = 0 /\ state = "ready" /\ ret = 0
  /\ cursor = [i |-> 0, pos |-> 1] /\ seen = <<>> /\ start = {}

Call(op) == state = "ready" /\ op \in Calls

hashmap_size ==
  /\ Call("size")
  /\ ret' = count
  /\ UNCHANGED <<map, state, iter>>

hashmap_get(k) ==
  /\ Call("get")
  /\ LET c == table[Index(k)]
     IN \/ Dangling(c, Where(c, k)) /\ Crash
        \/ /\ ~Dangling(c, Where(c, k))
           /\ ret' = IF Found(c, k) THEN c[Where(c, k)].value ELSE -1
           /\ UNCHANGED <<map, state, iter>>

(* hashmap_insert_table: replace the value, fill the table slot, or link a   *)
(* new node after the last entry, unlinking a zeroed node that was there.    *)
Insert(c, k, v) ==
  LET p == Where(c, k)
  IN IF Found(c, k) THEN [c EXCEPT ![p].value = v]
     ELSE IF p = 1 THEN [c EXCEPT ![1].key = k, ![1].value = v]
     ELSE Append(SubSeq(c, 1, p - 1), Entry(k, v))

(* hashmap_double_size: bucket i of a table of n slots, n twice as many as   *)
(* before.  All its entries come, in their order, from bucket i % (n \div 2).*)
RehashFirst(i, n) ==   \* mutant: only the entries in the table slots are moved
  LET e == table[i % table_size][1]
  IN IF e.key # NULL /\ Hash[e.key] % n = i THEN <<e>> ELSE <<Empty>>

Rehash(i, n) ==
  LET c == table[i % table_size]
      moved == {p \in 1..(Stop(c) - 1) : Hash[c[p].key] % n = i}
  IN IF moved = {} THEN <<Empty>> ELSE [j \in 1..Cardinality(moved) |-> c[Nth(moved, j)]]

hashmap_put(k, v) ==
  /\ Call("put")
  /\ LET full == count + 1 > max_size
         n == IF full THEN 2 * table_size ELSE table_size
         t == IF full THEN [i \in 0..(n - 1) |-> Rehash(i, n)] ELSE table
         c == t[Hash[k] % n]
         bad == \/ full /\ max_size = 0     \* doubling never ends
                \/ full /\ \E i \in DOMAIN table : Dangling(table[i], Stop(table[i]))
                \/ ~full /\ Dangling(c, Where(c, k))
     IN \/ bad /\ Crash
        \/ /\ ~bad
           /\ table' = [t EXCEPT ![Hash[k] % n] = Insert(c, k, v)]
           /\ table_size' = n
           /\ max_size' = IF full THEN 2 * max_size ELSE max_size
           /\ count' = IF Found(c, k) THEN count ELSE count + 1
           /\ ret' = IF Found(c, k) THEN 0 ELSE 1
           /\ UNCHANGED <<state, iter>>

(* hashmap_delete never advances last_entry: wherever the entry is, it takes *)
(* over the contents of the next one, whose node is freed; the last entry of *)
(* a bucket is zeroed in place.                                              *)
Remove(c, p) == IF p < Len(c) THEN SubSeq(c, 1, p - 1) \o SubSeq(c, p + 1, Len(c))
                              ELSE [c EXCEPT ![p] = Empty]
FreedSelf(c, p) ==   \* mutant: last_entry is advanced, a chained entry frees itself
  IF p = 1 THEN (IF Len(c) > 1 THEN {2} ELSE {}) ELSE {p}
Freed(c, p)  == IF p < Len(c) THEN {p + 1} ELSE {}

DeleteAlways(k) ==   \* mutant: count is decremented whether or not the key is found
  /\ Call("delete")
  /\ LET c == table[Index(k)]
     IN table' = IF Found(c, k) THEN [table EXCEPT ![Index(k)] = Remove(c, Where(c, k))]
                                ELSE table
  /\ count' = count - 1 /\ ret' = 0
  /\ UNCHANGED <<table_size, max_size, state, iter>>

hashmap_delete(k) ==
  /\ Call("delete")
  /\ LET c == table[Index(k)]
         p == Where(c, k)
         bad == Dangling(c, IF Found(c, k) THEN p + 1 ELSE p)
     IN \/ bad /\ Crash
        \/ /\ ~bad /\ Found(c, k)
           /\ table' = [table EXCEPT ![Index(k)] = Remove(c, p)]
           /\ count' = count - 1 /\ ret' = 0
           /\ UNCHANGED <<table_size, max_size, state, iter>>
        \/ /\ ~bad /\ ~Found(c, k)
           /\ ret' = -1
           /\ UNCHANGED <<map, state, iter>>

ClearKeepsCount ==   \* mutant: count is not reset
  /\ Call("clear")
  /\ table' = [i \in DOMAIN table |-> <<Empty>>] /\ ret' = 0
  /\ UNCHANGED <<table_size, max_size, count, state, iter>>

(* The table slots get a NULL key but keep their next links. *)
hashmap_clear ==
  /\ Call("clear")
  /\ LET bad == \E i \in DOMAIN table : Dangling(table[i], Stop(table[i]))
     IN \/ bad /\ Crash
        \/ /\ ~bad
           /\ table' = [i \in DOMAIN table |->
                          [p \in DOMAIN table[i] |->
                             IF p = 1 THEN [table[i][1] EXCEPT !.key = NULL]
                             ELSE [table[i][p] EXCEPT !.live = @ /\ p >= Stop(table[i])]]]
           /\ count' = 0 /\ ret' = 0
           /\ UNCHANGED <<table_size, max_size, state, iter>>

hashmap_destroy ==
  /\ Call("destroy")
  /\ LET bad == \E i \in DOMAIN table : Dangling(table[i], Stop(table[i]))
     IN \/ bad /\ Crash
        \/ /\ ~bad
           /\ state' = "destroyed" /\ ret' = 0
           /\ UNCHANGED <<map, iter>>

-----------------------------------------------------------------------------
(* hashmap_iter: one step per call of the callback, which may delete the     *)
(* entry it is called with (as handle_client_inactivity does), and which     *)
(* stops the iteration by returning something other than 0.                  *)
hashmap_iter ==
  /\ Call("iter")
  /\ state' = "iter" /\ start' = Keys
  /\ cursor' = [i |-> 0, pos |-> 1] /\ seen' = <<>>
  /\ UNCHANGED <<map, ret>>

AtEntry == /\ state = "iter" /\ cursor.i < table_size
           /\ cursor.pos < Stop(table[cursor.i])
           /\ ~Dangling(table[cursor.i], cursor.pos)
current == table[cursor.i][cursor.pos].key

IterDone == /\ state' = "ready" /\ seen' = <<>> /\ start' = {}
            /\ cursor' = [i |-> 0, pos |-> 1]

(* After the callback: stop, or follow the next link of the entry. *)
IterGoOn ==
  \/ IterDone
  \/ /\ cursor' = [cursor EXCEPT !.pos = @ + 1]
     /\ seen' = Append(seen, current)
     /\ UNCHANGED <<state, start>>

IterCallback ==
  /\ AtEntry
  /\ IterGoOn
  /\ UNCHANGED <<map, ret>>

IterDelete ==
  /\ AtEntry /\ "iter_delete" \in Calls
  /\ LET i == Index(current)
         p == Where(table[i], current)
     IN /\ table' = [table EXCEPT ![i] = Remove(table[i], p)]
        /\ count' = count - 1 /\ ret' = 0
        /\ IF \/ Dangling(table[i], p + 1)
              \/ cursor.i = i /\ cursor.pos \in Freed(table[i], p)   \* for entry->next
           THEN state' = "crashed" /\ UNCHANGED iter
           ELSE IterGoOn
        /\ UNCHANGED <<table_size, max_size>>

SkipSlot ==   \* mutant: a zeroed slot ends the iteration
  /\ state = "iter" /\ cursor.i < table_size
  /\ cursor.pos >= Stop(table[cursor.i])
  /\ cursor' = [i |-> IF cursor.pos = 1 THEN table_size ELSE cursor.i + 1, pos |-> 1]
  /\ UNCHANGED <<map, state, seen, start, ret>>

IterNextSlot ==
  /\ state = "iter" /\ cursor.i < table_size
  /\ \/ /\ Dangling(table[cursor.i], cursor.pos)
        /\ Crash
     \/ /\ ~Dangling(table[cursor.i], cursor.pos)
        /\ cursor.pos >= Stop(table[cursor.i])
        /\ cursor' = [i |-> cursor.i + 1, pos |-> 1]
        /\ UNCHANGED <<map, state, seen, start, ret>>

IterEnd ==
  /\ state = "iter" /\ cursor.i = table_size
  /\ IterDone
  /\ UNCHANGED <<map, ret>>

-----------------------------------------------------------------------------
Over == state \in {"destroyed", "crashed"} /\ UNCHANGED vars

Next ==
  \/ \E k \in Key : \/ \E v \in Value : hashmap_put(k, v)
                    \/ hashmap_get(k) \/ hashmap_delete(k)
  \/ hashmap_size \/ hashmap_clear \/ hashmap_destroy
  \/ hashmap_iter \/ IterCallback \/ IterDelete \/ IterNextSlot \/ IterEnd
  \/ Over

Spec == Init /\ [][Next]_vars

-----------------------------------------------------------------------------
TypeOK ==
  /\ table_size \in Nat \ {0} /\ max_size \in Nat /\ count \in Nat
  /\ \A i \in 0..(table_size - 1) :
       \A p \in 1..Len(table[i]) :
         table[i][p] \in [key : Key \cup {NULL}, value : Value \cup {None}, live : BOOLEAN]
  /\ DOMAIN table = 0..(table_size - 1)
  /\ state \in {"ready", "iter", "destroyed", "crashed"}
  /\ cursor \in [i : 0..table_size, pos : Nat \ {0}]
  /\ seen \in Seq(Key) /\ start \subseteq Key

(* What the map means: the value the first entry of each key holds. *)
Contents == [k \in Key |->
  LET c == table[Index(k)]
  IN IF state # "destroyed" /\ Found(c, k) THEN c[Where(c, k)].value ELSE None]

(* The map behaves as a dictionary: through collisions, updates, doublings   *)
(* and deletions every get, put, delete and size returns what the header     *)
(* promises.                                                                 *)
D == INSTANCE Dictionary WITH dict <- Contents
IsDictionary == D!DSpec

(* No operation reads a freed node or recurses for ever; in particular a     *)
(* callback of hashmap_iter may delete the entry it is called with.          *)
NeverCrashes == state # "crashed"

(* hashmap_iter calls the callback at most once for a key, and it misses at  *)
(* most one key for each the callback deletes (the one whose contents move   *)
(* into the place of the deleted entry); if nothing is deleted, none.        *)
IterationExact ==
  state = "iter" =>
    LET visited == {seen[p] : p \in 1..Len(seen)}
    IN /\ Cardinality(visited) = Len(seen)
       /\ cursor.i = table_size =>
            Cardinality(start \ visited) <= Cardinality(start \ Keys)

(* hashmap_size is the number of items a walk finds, as long as no walk      *)
(* comes to a node that hashmap_clear has freed and left linked.             *)
CountsItems ==
  state = "ready" /\ (\A i \in DOMAIN table : ~Dangling(table[i], Stop(table[i])))
    => count = Cardinality(Keys)

=============================================================================
