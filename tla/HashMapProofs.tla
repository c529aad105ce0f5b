--------------------------- MODULE HashMapProofs ---------------------------
(* Theorems about the hash map, for any keys, values and hash function, any *)
(* number of doublings and any sequence of calls.                           *)
EXTENDS HashMap, SequenceTheorems, FiniteSetTheorems, WellFoundedInduction, TLAPS

(* The slot of k in a table of n slots. *)
Home(k, n) == Hash[k] % n

Node   == [key : Key \cup {NULL}, value : Value \cup {None}, live : BOOLEAN]
Bucket == {c \in Seq(Node) : Len(c) >= 1}

(* A bucket i of n that hashmap_clear has left linked to nodes it has freed: *)
(* only its first entry can still be reached.                                *)
Dead(c)        == Len(c) >= 2 /\ ~c[2].live
Stump(i, n, c) == Dead(c) /\ (c[1].key # NULL => Home(c[1].key, n) = i)

(* Any other bucket: an entry zeroed by hashmap_delete is the last, or       *)
(* hashmap_clear has emptied the slot before it; every key lies in its own   *)
(* bucket, once, with a value.                                               *)
Chain(i, n, c) ==
  /\ \A p \in 1..Len(c) : c[p].live
  /\ \A p \in 2..Len(c) : c[p].key = NULL => p = Len(c)
  /\ c[1].key = NULL => Len(c) = 1 \/ c[2].key = NULL
  /\ \A p \in 1..(Stop(c) - 1) : Home(c[p].key, n) = i /\ c[p].value # None
  /\ \A p, q \in 1..(Stop(c) - 1) : c[p].key = c[q].key => p = q

Sound(i, n, c) == c \in Bucket /\ (Stump(i, n, c) \/ Chain(i, n, c))

(* The keys that can be reached, of a bucket and of a table of n slots. *)
Reach(c)      == IF Dead(c) THEN {c[1].key} \ {NULL} ELSE KeysOf(c)
Members(t, n) == {k \in Key : k \in Reach(t[Home(k, n)])}

(* The table and its figures. *)
TableInv ==
  /\ table_size \in Nat \ {0} /\ max_size \in Nat /\ count \in Nat
  /\ table \in [0..(table_size - 1) -> Bucket]

IterInv ==
  /\ state \in {"ready", "iter", "destroyed", "crashed"}
  /\ cursor \in [i : 0..table_size, pos : Nat \ {0}]
  /\ seen \in Seq(Key) /\ start \subseteq Key

(* Until undefined behaviour is met the buckets are sound and counted. *)
AllSound(t, n) == \A i \in 0..(n - 1) : Sound(i, n, t[i])
MapInv ==
  state # "crashed" =>
    /\ AllSound(table, table_size)
    /\ IsFiniteSet(Members(table, table_size)) /\ count = Cardinality(Members(table, table_size))

IInv == TableInv /\ IterInv /\ MapInv

(* A map that is never cleared and starts with two slots or more: no node is *)
(* freed while it is linked, and a doubling ends.                            *)
AllChains(t, n) == \A i \in 0..(n - 1) : Chain(i, n, t[i])
CleanInv == state # "crashed" /\ max_size > 0 /\ AllChains(table, table_size)

-----------------------------------------------------------------------------
(* A set of naturals has a least member, which Least picks. *)
LEMMA LeastIs ==
  ASSUME NEW S \in SUBSET Nat, S # {}
  PROVE  Least(S) \in S /\ \A q \in S : Least(S) <= q
<1> DEFINE R == {ss \in Nat \X Nat : ss[1] < ss[2]}
<1>1. IsWellFoundedOn(R, Nat)
  BY NatLessThanWellFounded DEF OpToRel
<1>2. \E x \in S : \A y \in S : ~(<<y, x>> \in R)
  <2> HIDE DEF R
  <2> QED BY <1>1, WFMin
<1>3. \A x, y \in Nat : y < x => <<y, x>> \in R
  OBVIOUS
<1>4. \E p \in S : \A q \in S : p <= q
  <2> HIDE DEF R
  <2>1. PICK p \in S : \A q \in S : ~(<<q, p>> \in R)
    BY <1>2
  <2>2. ASSUME NEW q \in S PROVE p <= q
    <3>1. p \in Nat /\ q \in Nat /\ ~(<<q, p>> \in R)
      BY <2>1
    <3>2. ~(q < p)
      BY <3>1, <1>3
    <3> QED BY <3>1, <3>2
  <2> QED BY <2>2
<1> QED BY <1>4 DEF Least

(* A bucket as a function. *)
LEMMA BucketType ==
  ASSUME NEW c \in Bucket
  PROVE  /\ c \in Seq(Node) /\ Len(c) \in Nat \ {0} /\ DOMAIN c = 1..Len(c)
         /\ \A p \in 1..Len(c) :
              /\ c[p] \in Node /\ c[p].key \in Key \cup {NULL}
              /\ c[p].value \in Value \cup {None} /\ c[p].live \in BOOLEAN
<1>1. c \in Seq(Node) /\ Len(c) >= 1
  BY DEF Bucket
<1>2. Len(c) \in Nat /\ DOMAIN c = 1..Len(c)
  BY <1>1, LenProperties
<1>3. \A p \in 1..Len(c) : c[p] \in Node
  BY <1>1, <1>2, ElementOfSeq
<1> QED BY <1>1, <1>2, <1>3 DEF Node

(* Where a walk stops. *)
LEMMA StopIs ==
  ASSUME NEW c \in Bucket
  PROVE  /\ Stop(c) \in 1..(Len(c) + 1)
         /\ \A p \in 1..(Stop(c) - 1) : c[p].key # NULL
         /\ Stop(c) <= Len(c) => c[Stop(c)].key = NULL
<1> DEFINE S == {p \in 1..Len(c) : c[p].key = NULL} \cup {Len(c) + 1}
<1>1. Len(c) \in Nat
  BY BucketType
<1>2. S \subseteq 1..(Len(c) + 1) /\ S # {}
  BY <1>1
<1>3. S \in SUBSET Nat
  BY <1>1, <1>2
<1>4. Least(S) \in S /\ \A q \in S : Least(S) <= q
  BY <1>2, <1>3, LeastIs
<1>5. Stop(c) = Least(S)
  BY DEF Stop
<1> HIDE DEF S
<1>6. Stop(c) \in 1..(Len(c) + 1)
  BY <1>2, <1>4, <1>5
<1>7. ASSUME NEW p \in 1..(Stop(c) - 1) PROVE c[p].key # NULL
  <2>1. p \in 1..Len(c) /\ ~(Stop(c) <= p)
    BY <1>1, <1>6
  <2>2. p \notin S
    BY <2>1, <1>4, <1>5
  <2> QED BY <2>1, <2>2 DEF S
<1>8. ASSUME Stop(c) <= Len(c) PROVE c[Stop(c)].key = NULL
  <2>1. Stop(c) # Len(c) + 1
    BY <1>1, <1>6, <1>8
  <2> QED BY <2>1, <1>4, <1>5 DEF S
<1> QED BY <1>6, <1>7, <1>8

(* The two conditions determine it. *)
LEMMA StopUnique ==
  ASSUME NEW c \in Bucket, NEW s \in 1..(Len(c) + 1),
         \A p \in 1..(s - 1) : c[p].key # NULL,
         s <= Len(c) => c[s].key = NULL
  PROVE  Stop(c) = s
<1>1. Len(c) \in Nat
  BY BucketType
<1>2. ~(s < Stop(c))
  <2>1. SUFFICES ASSUME s < Stop(c) PROVE FALSE
    OBVIOUS
  <2>2. s \in 1..(Stop(c) - 1) /\ s <= Len(c)
    BY <1>1, <2>1, StopIs
  <2> QED BY <2>2, StopIs
<1>3. ~(Stop(c) < s)
  <2>1. SUFFICES ASSUME Stop(c) < s PROVE FALSE
    OBVIOUS
  <2>2. Stop(c) \in 1..(s - 1) /\ Stop(c) <= Len(c)
    BY <1>1, <2>1, StopIs
  <2> QED BY <2>2, StopIs
<1> QED BY <1>1, <1>2, <1>3, StopIs

(* Where a search ends. *)
LEMMA WhereIs ==
  ASSUME NEW c \in Bucket, NEW k
  PROVE  /\ Where(c, k) \in 1..Stop(c)
         /\ \A p \in 1..(Where(c, k) - 1) : c[p].key # k
         /\ Found(c, k) => c[Where(c, k)].key = k
<1> DEFINE S == {p \in 1..Stop(c) : p < Stop(c) => c[p].key = k}
<1>1. Stop(c) \in Nat \ {0}
  BY StopIs, BucketType
<1>2. S \in SUBSET Nat /\ Stop(c) \in S
  BY <1>1
<1>3. Least(S) \in S /\ \A q \in S : Least(S) <= q
  BY <1>2, LeastIs
<1>4. Where(c, k) = Least(S)
  BY DEF Where
<1>5. Where(c, k) \in 1..Stop(c) /\ (Where(c, k) < Stop(c) => c[Where(c, k)].key = k)
  BY <1>3, <1>4
<1>6. ASSUME NEW p \in 1..(Where(c, k) - 1) PROVE c[p].key # k
  <2>1. p \in 1..Stop(c) /\ ~(Where(c, k) <= p)
    BY <1>1, <1>5
  <2>2. p \notin S
    BY <2>1, <1>3, <1>4
  <2> QED BY <2>1, <2>2
<1> QED BY <1>5, <1>6 DEF Found

(* Its conditions determine it too. *)
LEMMA WhereUnique ==
  ASSUME NEW c \in Bucket, NEW k, NEW w \in 1..Stop(c),
         \A p \in 1..(w - 1) : c[p].key # k,
         w < Stop(c) => c[w].key = k
  PROVE  Where(c, k) = w
<1>1. Stop(c) \in Nat \ {0}
  BY StopIs, BucketType
<1>2. ~(w < Where(c, k))
  <2>1. SUFFICES ASSUME w < Where(c, k) PROVE FALSE
    OBVIOUS
  <2>2. w \in 1..(Where(c, k) - 1) /\ w < Stop(c)
    BY <1>1, <2>1, WhereIs
  <2> QED BY <2>2, WhereIs
<1>3. ~(Where(c, k) < w)
  <2>1. SUFFICES ASSUME Where(c, k) < w PROVE FALSE
    OBVIOUS
  <2>2. Where(c, k) \in 1..(w - 1) /\ Where(c, k) < Stop(c)
    BY <1>1, <2>1, WhereIs
  <2> QED BY <2>2, WhereIs DEF Found
<1> QED BY <1>1, <1>2, <1>3, WhereIs

(* A search finds what the walk comes by. *)
LEMMA FoundIs ==
  ASSUME NEW c \in Bucket, NEW k
  PROVE  Found(c, k) <=> k \in KeysOf(c)
<1>1. Stop(c) \in Nat \ {0}
  BY StopIs, BucketType
<1>2. ASSUME Found(c, k) PROVE k \in KeysOf(c)
  <2>1. Where(c, k) \in 1..(Stop(c) - 1) /\ c[Where(c, k)].key = k
    BY <1>1, <1>2, WhereIs DEF Found
  <2> QED BY <2>1 DEF KeysOf
<1>3. ASSUME k \in KeysOf(c) PROVE Found(c, k)
  <2>1. PICK p \in 1..(Stop(c) - 1) : c[p].key = k
    BY <1>3 DEF KeysOf
  <2>2. ~(p < Where(c, k))
    <3>1. p < Where(c, k) => p \in 1..(Where(c, k) - 1)
      BY <1>1, WhereIs
    <3> QED BY <2>1, <3>1, WhereIs
  <2> QED BY <1>1, <2>2, WhereIs DEF Found
<1> QED BY <1>2, <1>3

(* What a walk reads. *)
LEMMA DanglingIs ==
  ASSUME NEW c \in Bucket, NEW p \in Nat
  PROVE  /\ Dead(c) => (Dangling(c, p) <=> p >= 2)
         /\ (\A q \in 1..Len(c) : c[q].live) => ~Dangling(c, p)
<1>1. Len(c) \in Nat
  BY BucketType
<1>2. ASSUME Dead(c), p >= 2 PROVE Dangling(c, p)
  <2>1. 2 \in 2..p /\ 2 <= Len(c) /\ ~c[2].live
    BY <1>1, <1>2 DEF Dead
  <2> QED BY <2>1 DEF Dangling
<1>3. ASSUME Dangling(c, p) PROVE p >= 2 /\ \E q \in 1..Len(c) : ~c[q].live
  <2>1. PICK q \in 2..p : q <= Len(c) /\ ~c[q].live
    BY <1>3 DEF Dangling
  <2>2. q \in 1..Len(c) /\ p >= 2
    BY <1>1, <2>1
  <2> QED BY <2>1, <2>2
<1> QED BY <1>2, <1>3

(* The keys a walk finds are keys. *)
LEMMA KeysType ==
  ASSUME NEW c \in Bucket
  PROVE  /\ KeysOf(c) \subseteq Key
         /\ \A p \in 1..(Stop(c) - 1) : p \in 1..Len(c) /\ c[p].key \in Key
<1>1. ASSUME NEW p \in 1..(Stop(c) - 1) PROVE p \in 1..Len(c) /\ c[p].key \in Key
  <2>1. p \in 1..Len(c)
    BY BucketType, StopIs
  <2> QED BY <2>1, BucketType, StopIs
<1> QED BY <1>1 DEF KeysOf

(* What operations can find in a sound bucket is what can be reached. *)
LEMMA ReachType ==
  ASSUME NEW i, NEW n, NEW c, Sound(i, n, c)
  PROVE  /\ Reach(c) \subseteq Key
         /\ \A k \in Reach(c) : Home(k, n) = i
         /\ \A k : ~Dangling(c, Where(c, k)) => (Found(c, k) <=> k \in Reach(c))
<1>1. c \in Bucket /\ Len(c) \in Nat \ {0} /\ Stop(c) \in 1..(Len(c) + 1)
  BY BucketType, StopIs DEF Sound
<1>2. CASE Dead(c)
  <2>1. Reach(c) = {c[1].key} \ {NULL}
    BY <1>2 DEF Reach
  <2>2. c[1].key \in Key \cup {NULL}
    BY <1>1, BucketType
  <2>3. ASSUME NEW k, ~Dangling(c, Where(c, k)) PROVE Found(c, k) <=> k \in Reach(c)
    <3>1. Where(c, k) \in Nat \ {0} /\ Where(c, k) <= Stop(c)
      BY <1>1, WhereIs
    <3>2. Where(c, k) = 1
      <4>1. ~(Where(c, k) >= 2)
        BY <1>1, <1>2, <2>3, <3>1, DanglingIs
      <4> QED BY <3>1, <4>1
    <3>3. ASSUME Found(c, k) PROVE k \in Reach(c)
      <4>1. c[1].key = k
        BY <1>1, <3>2, <3>3, WhereIs
      <4>2. 1 \in 1..(Stop(c) - 1)
        BY <1>1, <3>2, <3>3 DEF Found
      <4> QED BY <1>1, <2>1, <4>1, <4>2, StopIs
    <3>4. ASSUME k \in Reach(c) PROVE Found(c, k)
      <4>1. c[1].key = k /\ k # NULL
        BY <2>1, <3>4
      <4>2. Stop(c) # 1
        BY <1>1, <4>1, StopIs
      <4> QED BY <1>1, <3>2, <4>2 DEF Found
    <3> QED BY <3>3, <3>4
  <2>4. c[1].key # NULL => Home(c[1].key, n) = i
    <3>1. CASE Stump(i, n, c)
      BY <3>1 DEF Stump
    <3>2. CASE Chain(i, n, c)
      <4>1. 2 \in 1..Len(c) /\ ~c[2].live
        BY <1>1, <1>2 DEF Dead
      <4> QED BY <3>2, <4>1 DEF Chain
    <3> QED BY <3>1, <3>2 DEF Sound
  <2> QED BY <2>1, <2>2, <2>3, <2>4
<1>3. CASE ~Dead(c)
  <2>1. Reach(c) = KeysOf(c) /\ Chain(i, n, c)
    BY <1>3 DEF Reach, Sound, Stump
  <2>2. \A k \in KeysOf(c) : Home(k, n) = i
    BY <2>1 DEF KeysOf, Chain
  <2> QED BY <1>1, <2>1, <2>2, KeysType, FoundIs
<1> QED BY <1>2, <1>3

-----------------------------------------------------------------------------
(* hashmap_insert_table, in its three cases: the key is there,               *)
LEMMA InsertFound ==
  ASSUME NEW c \in Bucket, NEW k \in Key, NEW v \in Value, Found(c, k)
  PROVE  LET d == Insert(c, k, v)
             p == Where(c, k)
         IN /\ d \in Bucket /\ Len(d) = Len(c) /\ Stop(d) = Stop(c) /\ p \in 1..(Stop(c) - 1)
            /\ \A q \in 1..Len(c) : d[q].key = c[q].key /\ d[q].live = c[q].live
            /\ \A q \in 1..Len(c) : d[q].value = IF q = p THEN v ELSE c[q].value
<1> DEFINE p == Where(c, k)
           e == [c[p] EXCEPT !.value = v]
           d == Insert(c, k, v)
<1>1. c \in Seq(Node) /\ Len(c) \in Nat \ {0} /\ Stop(c) \in 1..(Len(c) + 1)
  BY BucketType, StopIs
<1>2. p \in 1..(Stop(c) - 1) /\ p \in 1..Len(c)
  BY <1>1, WhereIs DEF Found
<1>3. e \in Node /\ e.key = c[p].key /\ e.value = v /\ e.live = c[p].live
  <2>1. c[p] \in Node
    BY <1>2, BucketType
  <2> QED BY <2>1 DEF Node
<1>4. d = [c EXCEPT ![p] = e]
  BY DEF Insert
<1> HIDE DEF e, d
<1>5. /\ d \in Seq(Node) /\ Len(d) = Len(c)
      /\ \A j \in 1..Len(c) : d[j] = IF j = p THEN e ELSE c[j]
  BY <1>1, <1>2, <1>3, <1>4, ExceptSeq
<1>6. d \in Bucket
  BY <1>1, <1>5 DEF Bucket
<1>7. \A q \in 1..Len(c) : /\ d[q].key = c[q].key /\ d[q].live = c[q].live
                           /\ d[q].value = IF q = p THEN v ELSE c[q].value
  BY <1>3, <1>5
<1>8. Stop(d) = Stop(c)
  <2>1. \A q \in 1..(Stop(c) - 1) : d[q].key # NULL
    BY <1>1, <1>7, StopIs
  <2>2. Stop(c) <= Len(d) => d[Stop(c)].key = NULL
    BY <1>1, <1>5, <1>7, StopIs
  <2> QED BY <1>1, <1>5, <1>6, <2>1, <2>2, StopUnique
<1> QED BY <1>2, <1>5, <1>6, <1>7, <1>8 DEF d

(* the slot of the table is free,                                            *)
LEMMA InsertFirst ==
  ASSUME NEW c \in Bucket, NEW k \in Key, NEW v \in Value, Stop(c) = 1
  PROVE  LET d == Insert(c, k, v)
         IN /\ d \in Bucket /\ Len(d) = Len(c) /\ ~Found(c, k)
            /\ d[1].key = k /\ d[1].value = v /\ d[1].live = c[1].live
            /\ \A q \in 2..Len(c) : d[q] = c[q]
            /\ Len(c) = 1 \/ c[2].key = NULL => Stop(d) = 2
<1> DEFINE e == [c[1] EXCEPT !.key = k, !.value = v]
           d == Insert(c, k, v)
<1>1. c \in Seq(Node) /\ Len(c) \in Nat \ {0}
  BY BucketType
<1>2. Where(c, k) = 1 /\ ~Found(c, k)
  <2>1. Where(c, k) \in 1..1
    BY WhereIs
  <2> QED BY <2>1 DEF Found
<1>3. e \in Node /\ e.key = k /\ e.value = v /\ e.live = c[1].live
  <2>1. c[1] \in Node
    BY <1>1, BucketType
  <2> QED BY <2>1 DEF Node
<1>4. d = [c EXCEPT ![1] = e]
  <2>1. d = [c EXCEPT ![1].key = k, ![1].value = v]
    BY <1>2 DEF Insert
  <2> QED BY <2>1, <1>1, LenProperties
<1> HIDE DEF e, d
<1>5. /\ d \in Seq(Node) /\ Len(d) = Len(c)
      /\ \A j \in 1..Len(c) : d[j] = IF j = 1 THEN e ELSE c[j]
  BY <1>1, <1>3, <1>4, ExceptSeq
<1>6. d \in Bucket
  BY <1>1, <1>5 DEF Bucket
<1>7. ASSUME Len(c) = 1 \/ c[2].key = NULL PROVE Stop(d) = 2
  <2>1. \A q \in 1..(2 - 1) : d[q].key # NULL
    BY <1>1, <1>3, <1>5, MapAssumption
  <2>2. 2 <= Len(d) => d[2].key = NULL
    BY <1>1, <1>5, <1>7
  <2>3. 2 \in 1..(Len(d) + 1)
    BY <1>1, <1>5
  <2> QED BY <1>6, <2>1, <2>2, <2>3, StopUnique
<1> QED BY <1>1, <1>2, <1>3, <1>5, <1>6, <1>7 DEF d

(* or a new entry is linked to the last.                                     *)
LEMMA InsertLast ==
  ASSUME NEW c \in Bucket, NEW k \in Key, NEW v \in Value, ~Found(c, k), Stop(c) # 1
  PROVE  LET d == Insert(c, k, v)
             s == Stop(c)
         IN /\ d \in Bucket /\ Len(d) = s /\ Stop(d) = s + 1 /\ Where(c, k) = s
            /\ \A q \in 1..(s - 1) : d[q] = c[q]
            /\ d[s].key = k /\ d[s].value = v /\ d[s].live
<1> DEFINE s == Stop(c)
           a == SubSeq(c, 1, s - 1)
           e == Entry(k, v)
           d == Insert(c, k, v)
<1>1. c \in Seq(Node) /\ Len(c) \in Nat \ {0} /\ s \in 2..(Len(c) + 1)
  BY BucketType, StopIs
<1>2. Where(c, k) = s
  BY <1>1, WhereIs DEF Found
<1>3. e \in Node /\ e.key = k /\ e.value = v /\ e.live
  BY DEF Entry, Node
<1>4. d = Append(a, e)
  BY <1>1, <1>2 DEF Insert
<1> HIDE DEF e, a, d
<1>5. a \in Seq(Node) /\ Len(a) = s - 1 /\ \A q \in 1..(s - 1) : a[q] = c[q]
  <2>1. \A q \in 1..(s - 1) : c[q] \in Node
    BY <1>1, BucketType
  <2>2. /\ a \in Seq(Node) /\ Len(a) = (IF 1 <= s - 1 THEN (s - 1) - 1 + 1 ELSE 0)
        /\ \A q \in 1..((s - 1) - 1 + 1) : a[q] = c[1 + q - 1]
    BY <1>1, <2>1, SubSeqProperties DEF a
  <2> QED BY <1>1, <2>2
<1>6. /\ d \in Seq(Node) /\ Len(d) = Len(a) + 1
      /\ \A q \in 1..Len(a) : d[q] = a[q]
      /\ d[Len(a) + 1] = e
  BY <1>3, <1>4, <1>5, AppendProperties
<1>7. /\ d \in Bucket /\ Len(d) = s /\ d[s] = e
      /\ \A q \in 1..(s - 1) : d[q] = c[q]
  BY <1>1, <1>5, <1>6 DEF Bucket
<1>8. Stop(d) = s + 1
  <2>1. \A q \in 1..((s + 1) - 1) : d[q].key # NULL
    <3>1. ASSUME NEW q \in 1..s PROVE d[q].key # NULL
      <4>1. CASE q = s
        BY <1>3, <1>7, <4>1, MapAssumption
      <4>2. CASE q # s
        BY <1>1, <1>7, <4>2, StopIs
      <4> QED BY <4>1, <4>2
    <3> QED BY <1>1, <3>1
  <2>2. s + 1 \in 1..(Len(d) + 1) /\ ~(s + 1 <= Len(d))
    BY <1>1, <1>7
  <2> QED BY <1>7, <2>1, <2>2, StopUnique
<1> QED BY <1>2, <1>3, <1>7, <1>8 DEF d, s

-----------------------------------------------------------------------------
(* What hashmap_get returns from bucket c, and from a table of n slots. *)
Look(c, k)      == IF Found(c, k) THEN c[Where(c, k)].value ELSE None
Lookup(t, n, k) == Look(t[Home(k, n)], k)

(* A chain holds a key once, so it is found wherever it is. *)
LEMMA LookIs ==
  ASSUME NEW i, NEW n, NEW c \in Bucket, Chain(i, n, c), NEW k
  PROVE  /\ \A p \in 1..(Stop(c) - 1) :
              c[p].key = k => Found(c, k) /\ Where(c, k) = p /\ Look(c, k) = c[p].value
         /\ k \notin KeysOf(c) => Look(c, k) = None
<1>1. Stop(c) \in Nat \ {0}
  BY StopIs, BucketType
<1>2. ASSUME NEW p \in 1..(Stop(c) - 1), c[p].key = k
      PROVE  Found(c, k) /\ Where(c, k) = p /\ Look(c, k) = c[p].value
  <2>1. Found(c, k)
    BY <1>2, FoundIs DEF KeysOf
  <2>2. Where(c, k) \in 1..(Stop(c) - 1) /\ c[Where(c, k)].key = k
    BY <1>1, <2>1, WhereIs DEF Found
  <2>3. Where(c, k) = p
    BY <1>2, <2>2 DEF Chain
  <2> QED BY <2>1, <2>3 DEF Look
<1>3. k \notin KeysOf(c) => Look(c, k) = None
  BY FoundIs DEF Look
<1> QED BY <1>2, <1>3

(* A chain gives every key it holds a value. *)
LEMMA ValueIs ==
  ASSUME NEW i, NEW n, NEW c \in Bucket, Chain(i, n, c), NEW k
  PROVE  Look(c, k) = None <=> ~Found(c, k)
<1>1. CASE Found(c, k)
  <2>1. Where(c, k) \in 1..(Stop(c) - 1)
    BY <1>1, StopIs, BucketType, WhereIs DEF Found
  <2>2. Look(c, k) # None
    BY <1>1, <2>1 DEF Chain, Look
  <2> QED BY <1>1, <2>2
<1>2. CASE ~Found(c, k)
  BY <1>2 DEF Look
<1> QED BY <1>1, <1>2

(* A key whose entry is moved or copied is found with the same value. *)
LEMMA LookSame ==
  ASSUME NEW i, NEW n, NEW c \in Bucket, Chain(i, n, c),
         NEW j, NEW m, NEW d \in Bucket, Chain(j, m, d), NEW k,
         \A p \in 1..(Stop(c) - 1) : c[p].key = k =>
           \E q \in 1..(Stop(d) - 1) : d[q].key = k /\ d[q].value = c[p].value,
         k \in KeysOf(d) => k \in KeysOf(c)
  PROVE  Look(d, k) = Look(c, k)
<1>1. CASE k \in KeysOf(c)
  <2>1. PICK p \in 1..(Stop(c) - 1) : c[p].key = k
    BY <1>1 DEF KeysOf
  <2>2. PICK q \in 1..(Stop(d) - 1) : d[q].key = k /\ d[q].value = c[p].value
    BY <2>1
  <2>3. Look(c, k) = c[p].value
    BY <2>1, LookIs
  <2>4. Look(d, k) = d[q].value
    BY <2>2, LookIs
  <2> QED BY <2>2, <2>3, <2>4
<1>2. CASE k \notin KeysOf(c)
  <2>1. Look(c, k) = None
    BY <1>2, LookIs
  <2>2. Look(d, k) = None
    BY <1>2, LookIs
  <2> QED BY <2>1, <2>2
<1> QED BY <1>1, <1>2

(* A chain is not dead. *)
LEMMA ChainLive ==
  ASSUME NEW i, NEW n, NEW c \in Bucket, Chain(i, n, c)
  PROVE  ~Dead(c) /\ Reach(c) = KeysOf(c) /\ \A p \in Nat : ~Dangling(c, p)
<1>1. ~Dead(c)
  <2>1. SUFFICES ASSUME Dead(c) PROVE FALSE
    OBVIOUS
  <2>2. 2 \in 1..Len(c) /\ ~c[2].live
    BY <2>1, BucketType DEF Dead
  <2> QED BY <2>2 DEF Chain
<1>2. \A p \in Nat : ~Dangling(c, p)
  BY DanglingIs DEF Chain
<1> QED BY <1>1, <1>2 DEF Reach

(* What hashmap_insert_table does to a chain. *)
LEMMA InsertChain ==
  ASSUME NEW i, NEW n, NEW c \in Bucket, Chain(i, n, c),
         NEW k \in Key, NEW v \in Value, Home(k, n) = i
  PROVE  LET d == Insert(c, k, v)
         IN /\ d \in Bucket /\ Chain(i, n, d)
            /\ KeysOf(d) = KeysOf(c) \cup {k} /\ Look(d, k) = v
            /\ \A x : x # k => Look(d, x) = Look(c, x)
<1> DEFINE d == Insert(c, k, v)
           s == Stop(c)
<1>0. Len(c) \in Nat \ {0} /\ s \in 1..(Len(c) + 1) /\ k # NULL
  BY BucketType, StopIs, MapAssumption
<1> HIDE DEF d
<1>1. CASE Found(c, k)
  <2> DEFINE p == Where(c, k)
  <2>1. /\ d \in Bucket /\ Len(d) = Len(c) /\ Stop(d) = s /\ p \in 1..(s - 1)
        /\ \A q \in 1..Len(c) : d[q].key = c[q].key /\ d[q].live = c[q].live
        /\ \A q \in 1..Len(c) : d[q].value = IF q = p THEN v ELSE c[q].value
    BY <1>1, InsertFound DEF d
  <2>2. \A q \in 1..(s - 1) : q \in 1..Len(c) /\ d[q].key = c[q].key
    BY <1>0, <2>1
  <2>3. c[p].key = k
    BY <1>1, WhereIs
  <2> HIDE DEF p, s
  <2>4. Chain(i, n, d)
    <3>1. /\ \A q \in 1..Len(c) : c[q].live
          /\ \A q \in 2..Len(c) : c[q].key = NULL => q = Len(c)
          /\ c[1].key = NULL => Len(c) = 1 \/ c[2].key = NULL
          /\ \A q \in 1..(s - 1) : Home(c[q].key, n) = i /\ c[q].value # None
          /\ \A q, r \in 1..(s - 1) : c[q].key = c[r].key => q = r
      BY DEF Chain, s
    <3>2. 1 \in 1..Len(c) /\ \A q \in 2..Len(c) : q \in 1..Len(c)
      BY <1>0
    <3>3. Len(c) = 1 \/ 2 \in 1..Len(c)
      <4>1. \A m \in Nat \ {0} : m = 1 \/ 2 \in 1..m
        OBVIOUS
      <4> QED BY <1>0, <4>1
    <3>4. \A q \in 1..Len(d) : d[q].live
      BY <2>1, <3>1
    <3>5. \A q \in 2..Len(d) : d[q].key = NULL => q = Len(d)
      BY <2>1, <3>1, <3>2
    <3>6. d[1].key = NULL => Len(d) = 1 \/ d[2].key = NULL
      BY <2>1, <3>1, <3>2, <3>3
    <3>7. \A q \in 1..(s - 1) : Home(d[q].key, n) = i /\ d[q].value # None
      <4>1. v # None
        BY MapAssumption
      <4> QED BY <2>1, <2>2, <3>1, <4>1
    <3>8. \A q, r \in 1..(s - 1) : d[q].key = d[r].key => q = r
      BY <2>2, <3>1
    <3>9. Stop(d) = s
      BY <2>1
    <3> QED BY <3>4, <3>5, <3>6, <3>7, <3>8, <3>9 DEF Chain
  <2>5. KeysOf(d) = KeysOf(c) /\ k \in KeysOf(c)
    BY <2>1, <2>2, <2>3 DEF KeysOf, s
  <2>6. Look(d, k) = v
    <3>1. d[p].key = k /\ d[p].value = v /\ p \in 1..(Stop(d) - 1)
      BY <2>1, <2>2, <2>3
    <3> QED BY <2>1, <2>4, <3>1, LookIs
  <2>7. ASSUME NEW x, x # k PROVE Look(d, x) = Look(c, x)
    <3>1. ASSUME NEW q \in 1..(Stop(c) - 1), c[q].key = x
          PROVE  q \in 1..(Stop(d) - 1) /\ d[q].key = x /\ d[q].value = c[q].value
      <4>1. q # p
        BY <2>3, <2>7, <3>1
      <4> QED BY <2>1, <2>2, <3>1, <4>1 DEF s
    <3> QED BY <2>1, <2>4, <2>5, <3>1, LookSame
  <2> QED BY <2>1, <2>4, <2>5, <2>6, <2>7 DEF d
<1>2. CASE s = 1
  <2>1. c[1].key = NULL
    BY <1>0, <1>2, StopIs
  <2>2. Len(c) = 1 \/ c[2].key = NULL
    BY <2>1 DEF Chain
  <2>3. /\ d \in Bucket /\ Len(d) = Len(c) /\ Stop(d) = 2
        /\ d[1].key = k /\ d[1].value = v /\ d[1].live = c[1].live
        /\ \A q \in 2..Len(c) : d[q] = c[q]
    BY <1>2, <2>2, InsertFirst DEF d
  <2>4. \A q \in 1..(Stop(d) - 1) : q = 1
    BY <2>3
  <2>5. Chain(i, n, d)
    <3>1. \A q \in 1..Len(d) : d[q].live
      <4>1. ASSUME NEW q \in 1..Len(d) PROVE d[q].live
        <5>1. CASE q = 1
          BY <1>0, <2>3, <5>1 DEF Chain
        <5>2. CASE q # 1
          BY <1>0, <2>3, <5>2 DEF Chain
        <5> QED BY <5>1, <5>2
      <4> QED BY <4>1
    <3>2. \A q \in 2..Len(d) : d[q].key = NULL => q = Len(d)
      BY <2>3 DEF Chain
    <3> QED BY <1>0, <2>3, <2>4, <3>1, <3>2, MapAssumption DEF Chain
  <2>6. KeysOf(d) = {k} /\ KeysOf(c) = {}
    <3>1. 1 \in 1..(Stop(d) - 1)
      BY <2>3
    <3>2. KeysOf(d) = {k}
      BY <2>3, <2>4, <3>1 DEF KeysOf
    <3>3. 1..(Stop(c) - 1) = {}
      BY <1>2
    <3> QED BY <3>2, <3>3 DEF KeysOf
  <2>7. Look(d, k) = v
    <3>1. 1 \in 1..(Stop(d) - 1)
      BY <2>3
    <3> QED BY <2>3, <2>5, <3>1, LookIs
  <2>8. ASSUME NEW x, x # k PROVE Look(d, x) = Look(c, x)
    <3>1. Look(d, x) = None
      BY <2>3, <2>5, <2>6, <2>8, LookIs
    <3>2. Look(c, x) = None
      BY <2>6, LookIs
    <3> QED BY <3>1, <3>2
  <2> QED BY <2>3, <2>5, <2>6, <2>7, <2>8 DEF d
<1>3. CASE ~Found(c, k) /\ s # 1
  <2>1. /\ d \in Bucket /\ Len(d) = s /\ Stop(d) = s + 1
        /\ \A q \in 1..(s - 1) : d[q] = c[q]
        /\ d[s].key = k /\ d[s].value = v /\ d[s].live
    BY <1>3, InsertLast DEF d
  <2>2. \A q \in 1..(Stop(d) - 1) : q \in 1..(s - 1) \/ q = s
    BY <1>0, <2>1
  <2>3. \A q \in 1..(s - 1) : /\ q \in 1..Len(c) /\ q \in 1..(Stop(d) - 1) /\ q # s
                              /\ c[q].key # k /\ c[q].key # NULL
    <3>1. k \notin KeysOf(c)
      BY <1>3, FoundIs
    <3>2. \A q \in 1..(s - 1) : c[q].key # k /\ c[q].key # NULL
      BY <3>1, StopIs DEF KeysOf
    <3> QED BY <1>0, <2>1, <3>2
  <2>4. s \in 1..(Stop(d) - 1) /\ s >= 2
    BY <1>0, <1>3, <2>1
  <2>5. \A q \in 1..Len(d) : q \in 1..(s - 1) \/ q = s
    BY <2>1, <2>2
  <2>6. Chain(i, n, d)
    <3>1. \A q \in 1..Len(d) : d[q].live /\ d[q].key # NULL
      <4>1. \A q \in 1..Len(c) : c[q].live
        BY DEF Chain
      <4>2. \A q \in 1..(s - 1) : d[q].live /\ d[q].key # NULL
        BY <2>1, <2>3, <4>1
      <4>3. d[s].live /\ d[s].key # NULL
        BY <1>0, <2>1
      <4> QED BY <2>5, <4>2, <4>3
    <3>2. \A q \in 1..(Stop(d) - 1) : Home(d[q].key, n) = i /\ d[q].value # None
      <4>1. \A q \in 1..(s - 1) : Home(c[q].key, n) = i /\ c[q].value # None
        BY DEF Chain
      <4>2. v # None
        BY MapAssumption
      <4>3. \A q \in 1..(s - 1) : Home(d[q].key, n) = i /\ d[q].value # None
        BY <2>1, <4>1
      <4>4. Home(d[s].key, n) = i /\ d[s].value # None
        BY <2>1, <4>2
      <4> QED BY <2>2, <4>3, <4>4
    <3>3. \A q, r \in 1..(Stop(d) - 1) : d[q].key = d[r].key => q = r
      <4>1. \A q, r \in 1..(s - 1) : c[q].key = c[r].key => q = r
        BY DEF Chain
      <4>2. \A q, r \in 1..(s - 1) : d[q].key = d[r].key => q = r
        BY <2>1, <4>1
      <4>3. \A q \in 1..(s - 1) : d[q].key # d[s].key
        BY <2>1, <2>3
      <4> QED BY <2>2, <4>2, <4>3
    <3>4. 1 \in 1..Len(d) /\ \A q \in 2..Len(d) : q \in 1..Len(d)
      BY <2>1, <2>4
    <3> QED BY <3>1, <3>2, <3>3, <3>4 DEF Chain
  <2>7. KeysOf(d) = KeysOf(c) \cup {k}
    <3>1. ASSUME NEW x \in KeysOf(d) PROVE x \in KeysOf(c) \cup {k}
      <4>1. PICK q \in 1..(Stop(d) - 1) : x = d[q].key
        BY DEF KeysOf
      <4> QED BY <2>1, <2>2, <4>1 DEF KeysOf
    <3>2. ASSUME NEW x \in KeysOf(c) PROVE x \in KeysOf(d)
      <4>1. PICK q \in 1..(s - 1) : x = c[q].key
        BY DEF KeysOf
      <4> QED BY <2>1, <2>3, <4>1 DEF KeysOf
    <3>3. k \in KeysOf(d)
      BY <2>1, <2>4 DEF KeysOf
    <3> QED BY <3>1, <3>2, <3>3
  <2>8. Look(d, k) = v
    BY <2>1, <2>4, <2>6, LookIs
  <2>9. ASSUME NEW x, x # k PROVE Look(d, x) = Look(c, x)
    <3>1. ASSUME NEW q \in 1..(Stop(c) - 1), c[q].key = x
          PROVE  q \in 1..(Stop(d) - 1) /\ d[q].key = x /\ d[q].value = c[q].value
      BY <2>1, <2>3, <3>1
    <3>2. x \in KeysOf(d) => x \in KeysOf(c)
      BY <2>7, <2>9
    <3> QED BY <2>1, <2>6, <3>1, <3>2, LookSame
  <2> QED BY <2>1, <2>6, <2>7, <2>8, <2>9 DEF d
<1> QED BY <1>1, <1>2, <1>3

(* What it does to a bucket it does not find freed nodes in. *)
LEMMA InsertSound ==
  ASSUME NEW i, NEW n, NEW c, Sound(i, n, c), NEW k \in Key, NEW v \in Value,
         Home(k, n) = i, ~Dangling(c, Where(c, k))
  PROVE  LET d == Insert(c, k, v) IN Sound(i, n, d) /\ Reach(d) = Reach(c) \cup {k}
<1> DEFINE d == Insert(c, k, v)
<1>1. c \in Bucket /\ Len(c) \in Nat \ {0} /\ Stop(c) \in 1..(Len(c) + 1) /\ k # NULL
  BY BucketType, StopIs, MapAssumption DEF Sound
<1> HIDE DEF d
<1>2. CASE Chain(i, n, c)
  <2>1. d \in Bucket /\ Chain(i, n, d) /\ KeysOf(d) = KeysOf(c) \cup {k}
    BY <1>1, <1>2, InsertChain DEF d
  <2> QED BY <1>1, <1>2, <2>1, ChainLive DEF Sound, d
<1>3. CASE Stump(i, n, c)
  <2>1. Dead(c) /\ 2 \in 2..Len(c) /\ 2 \in 1..Len(c) /\ ~c[2].live
    BY <1>1, <1>3 DEF Stump, Dead
  <2>2. Where(c, k) \in Nat /\ Where(c, k) >= 1 /\ Where(c, k) <= Stop(c)
    BY <1>1, WhereIs
  <2>3. Where(c, k) = 1
    <3>1. ~(Where(c, k) >= 2)
      BY <1>1, <2>1, <2>2, DanglingIs
    <3> QED BY <2>2, <3>1
  <2>4. CASE Found(c, k)
    <3>1. /\ d \in Bucket /\ Len(d) = Len(c)
          /\ \A q \in 1..Len(c) : d[q].key = c[q].key /\ d[q].live = c[q].live
      BY <1>1, <2>4, InsertFound DEF d
    <3>2. 1 \in 1..Len(c) /\ c[1].key = k
      BY <1>1, <2>3, <2>4, WhereIs
    <3>3. Dead(d)
      BY <1>1, <2>1, <3>1 DEF Dead
    <3>4. d[1].key = k
      BY <3>1, <3>2
    <3> QED BY <1>1, <2>1, <3>1, <3>2, <3>3, <3>4 DEF Sound, Stump, Reach, d
  <2>5. CASE ~Found(c, k)
    <3>1. Stop(c) = 1
      BY <1>1, <2>3, <2>5 DEF Found
    <3>2. /\ d \in Bucket /\ Len(d) = Len(c) /\ d[1].key = k
          /\ \A q \in 2..Len(c) : d[q] = c[q]
      BY <1>1, <3>1, InsertFirst DEF d
    <3>3. c[1].key = NULL
      BY <1>1, <3>1, StopIs
    <3>4. Dead(d)
      BY <1>1, <2>1, <3>2 DEF Dead
    <3> QED BY <1>1, <2>1, <3>2, <3>3, <3>4 DEF Sound, Stump, Reach, d
  <2> QED BY <2>4, <2>5
<1> QED BY <1>2, <1>3 DEF Sound

-----------------------------------------------------------------------------
(* hashmap_delete: the next entry takes the place of the one deleted, or the *)
(* last one is zeroed.                                                       *)
LEMMA RemoveIs ==
  ASSUME NEW c \in Bucket, NEW p \in 1..Len(c)
  PROVE  LET d == Remove(c, p)
         IN /\ d \in Bucket
            /\ p < Len(c) => /\ Len(d) = Len(c) - 1
                             /\ \A q \in 1..(p - 1) : d[q] = c[q]
                             /\ \A q \in p..(Len(c) - 1) : d[q] = c[q + 1]
            /\ p = Len(c) => /\ Len(d) = Len(c) /\ d[p] = Empty
                             /\ \A q \in 1..(p - 1) : d[q] = c[q]
<1> DEFINE d == Remove(c, p)
           n == Len(c)
<1>1. c \in Seq(Node) /\ n \in Nat \ {0} /\ \A q \in 1..n : c[q] \in Node
  BY BucketType
<1> HIDE DEF d
<1>2. CASE p < n
  <2> DEFINE a == SubSeq(c, 1, p - 1)
             b == SubSeq(c, p + 1, n)
  <2>1. d = a \o b
    BY <1>2 DEF Remove, d
  <2> HIDE DEF a, b
  <2>2. a \in Seq(Node) /\ Len(a) = p - 1 /\ \A q \in 1..(p - 1) : a[q] = c[q]
    <3>1. \A q \in 1..(p - 1) : c[q] \in Node
      BY <1>1, <1>2
    <3>2. /\ a \in Seq(Node) /\ Len(a) = (IF 1 <= p - 1 THEN (p - 1) - 1 + 1 ELSE 0)
          /\ \A q \in 1..((p - 1) - 1 + 1) : a[q] = c[1 + q - 1]
      BY <1>1, <3>1, SubSeqProperties DEF a
    <3> QED BY <1>1, <3>2
  <2>3. b \in Seq(Node) /\ Len(b) = n - p /\ \A q \in 1..(n - p) : b[q] = c[p + q]
    <3>1. \A q \in (p + 1)..n : c[q] \in Node
      BY <1>1, <1>2
    <3>2. /\ b \in Seq(Node) /\ Len(b) = (IF p + 1 <= n THEN n - (p + 1) + 1 ELSE 0)
          /\ \A q \in 1..(n - (p + 1) + 1) : b[q] = c[(p + 1) + q - 1]
      BY <1>1, <3>1, SubSeqProperties DEF b
    <3> QED BY <1>1, <1>2, <3>2
  <2>4. /\ d \in Seq(Node) /\ Len(d) = Len(a) + Len(b)
        /\ \A q \in 1..(Len(a) + Len(b)) : d[q] = IF q <= Len(a) THEN a[q] ELSE b[q - Len(a)]
    BY <2>1, <2>2, <2>3, ConcatProperties
  <2>5. Len(d) = n - 1 /\ d \in Bucket
    BY <1>1, <1>2, <2>2, <2>3, <2>4 DEF Bucket
  <2>6. ASSUME NEW q \in 1..(p - 1) PROVE d[q] = c[q]
    <3>1. q \in 1..(Len(a) + Len(b)) /\ q <= Len(a)
      BY <1>1, <1>2, <2>2, <2>3
    <3>2. d[q] = a[q]
      BY <2>4, <3>1
    <3> QED BY <2>2, <3>2
  <2>7. ASSUME NEW q \in p..(n - 1) PROVE d[q] = c[q + 1]
    <3>1. q \in 1..(Len(a) + Len(b)) /\ ~(q <= Len(a)) /\ q - Len(a) \in 1..(n - p)
      BY <1>1, <1>2, <2>2, <2>3
    <3>2. d[q] = b[q - Len(a)]
      BY <2>4, <3>1
    <3>3. b[q - Len(a)] = c[p + (q - Len(a))] /\ p + (q - Len(a)) = q + 1
      BY <1>1, <2>2, <2>3, <3>1
    <3> QED BY <3>2, <3>3
  <2> QED BY <1>2, <2>5, <2>6, <2>7 DEF d
<1>3. CASE p = n
  <2>1. d = [c EXCEPT ![p] = Empty]
    BY <1>1, <1>3 DEF Remove, d
  <2>2. Empty \in Node
    BY DEF Empty, Entry, Node
  <2>3. /\ d \in Seq(Node) /\ Len(d) = Len(c)
        /\ \A j \in 1..Len(c) : d[j] = IF j = p THEN Empty ELSE c[j]
    BY <1>1, <2>1, <2>2, ExceptSeq
  <2> QED BY <1>1, <1>3, <2>3 DEF d, Bucket
<1> QED BY <1>1, <1>2, <1>3

(* Either way the walk is one entry shorter. *)
LEMMA RemoveChain ==
  ASSUME NEW i, NEW n, NEW c \in Bucket, Chain(i, n, c), NEW p \in 1..(Stop(c) - 1)
  PROVE  LET d == Remove(c, p)
         IN /\ d \in Bucket /\ Chain(i, n, d)
            /\ KeysOf(d) = KeysOf(c) \ {c[p].key} /\ Look(d, c[p].key) = None
            /\ \A x : x # c[p].key => Look(d, x) = Look(c, x)
            /\ Stop(d) = Stop(c) - 1
            /\ \A q \in 1..(Stop(c) - 2) : d[q] = c[IF q < p THEN q ELSE q + 1]
<1> DEFINE d == Remove(c, p)
           s == Stop(c)
           At(q) == IF q < p THEN q ELSE q + 1
<1>1. /\ Len(c) \in Nat \ {0} /\ s \in 1..(Len(c) + 1) /\ p \in 1..Len(c)
      /\ \A q \in 1..(s - 1) : c[q].key # NULL
      /\ s <= Len(c) => c[s].key = NULL
  BY BucketType, StopIs
<1> HIDE DEF d
<1>2. /\ d \in Bucket
      /\ p < Len(c) => /\ Len(d) = Len(c) - 1
                       /\ \A q \in 1..(p - 1) : d[q] = c[q]
                       /\ \A q \in p..(Len(c) - 1) : d[q] = c[q + 1]
      /\ p = Len(c) => /\ Len(d) = Len(c) /\ d[p] = Empty
                       /\ \A q \in 1..(p - 1) : d[q] = c[q]
  BY <1>1, RemoveIs DEF d
<1>20. /\ Len(c) \in Nat /\ s \in Nat /\ p \in Nat /\ 1 <= p /\ p < s /\ s <= Len(c) + 1
       /\ p < Len(c) \/ p = Len(c)
  <2>1. Len(c) \in Nat /\ s \in Nat /\ s <= Len(c) + 1
    BY <1>1
  <2>2. p \in Nat /\ 1 <= p /\ p < s
    BY <2>1
  <2>3. p <= Len(c)
    BY <2>1, <2>2
  <2>4. p < Len(c) \/ p = Len(c)
    <3>1. \A a, b \in Nat : a <= b => a < b \/ a = b
      OBVIOUS
    <3> QED BY <2>1, <2>2, <2>3, <3>1
  <2> QED BY <2>1, <2>2, <2>4
<1>21. Len(d) \in Nat /\ Len(d) = IF p < Len(c) THEN Len(c) - 1 ELSE Len(c)
  BY <1>2, <1>20
<1>22. \A q \in 1..(p - 1) : d[q] = c[q]
  BY <1>2, <1>20
<1>3. \A q \in 1..(s - 2) : /\ q \in 1..Len(d) /\ At(q) \in 1..(s - 1) /\ At(q) # p
                            /\ d[q] = c[At(q)]
  <2>1. ASSUME NEW q \in 1..(s - 2)
        PROVE  q \in 1..Len(d) /\ At(q) \in 1..(s - 1) /\ At(q) # p /\ d[q] = c[At(q)]
    <3>1. CASE q < p
      <4>1. At(q) = q /\ q \in 1..Len(d) /\ q \in 1..(s - 1) /\ q # p /\ q \in 1..(p - 1)
        BY <1>20, <1>21, <3>1
      <4> QED BY <1>22, <4>1
    <3>2. CASE q >= p
      <4>1. /\ At(q) = q + 1 /\ q \in 1..Len(d) /\ q + 1 \in 1..(s - 1) /\ q + 1 # p
            /\ p < Len(c) /\ q \in p..(Len(c) - 1)
        BY <1>20, <1>21, <3>2
      <4> QED BY <1>2, <4>1
    <3> QED BY <1>20, <3>1, <3>2
  <2> QED BY <2>1
<1>4. Empty.key = NULL /\ Empty.live
  BY DEF Empty, Entry
<1>5. Stop(d) = s - 1
  <2>1. \A q \in 1..((s - 1) - 1) : d[q].key # NULL
    <3>1. (s - 1) - 1 = s - 2
      BY <1>20
    <3>2. \A q \in 1..(s - 2) : d[q].key # NULL
      BY <1>1, <1>3
    <3> QED BY <3>1, <3>2
  <2>2. ASSUME s - 1 <= Len(d) PROVE d[s - 1].key = NULL
    <3>1. CASE p < Len(c)
      <4>1. s <= Len(c) /\ s - 1 \in p..(Len(c) - 1)
        BY <1>20, <1>21, <2>2, <3>1
      <4>2. d[s - 1] = c[(s - 1) + 1] /\ (s - 1) + 1 = s
        BY <1>2, <1>20, <3>1, <4>1
      <4> QED BY <1>1, <4>1, <4>2
    <3>2. CASE p = Len(c)
      <4>1. s - 1 = p
        BY <1>20, <3>2
      <4> QED BY <1>2, <1>4, <3>2, <4>1
    <3> QED BY <1>20, <3>1, <3>2
  <2>3. s - 1 \in 1..(Len(d) + 1)
    BY <1>20, <1>21
  <2> QED BY <1>2, <2>1, <2>2, <2>3, StopUnique
<1>6. Chain(i, n, d)
  <2>1. \A q \in 1..Len(d) : d[q].live
    <3>1. ASSUME NEW q \in 1..Len(d) PROVE d[q].live
      <4>1. CASE q < p
        <5>1. q \in 1..Len(c) /\ d[q] = c[q]
          BY <1>20, <1>21, <1>22, <4>1
        <5> QED BY <5>1 DEF Chain
      <4>2. CASE q >= p /\ p < Len(c)
        <5>1. q + 1 \in 1..Len(c) /\ q \in p..(Len(c) - 1)
          BY <1>20, <1>21, <4>2
        <5> QED BY <1>2, <4>2, <5>1 DEF Chain
      <4>3. CASE q >= p /\ p = Len(c)
        <5>1. q = p
          BY <1>20, <1>21, <4>3
        <5> QED BY <1>2, <1>4, <4>3, <5>1
      <4> QED BY <1>20, <1>21, <4>1, <4>2, <4>3
    <3> QED BY <3>1
  <2>2. ASSUME NEW q \in 1..Len(d), d[q].key = NULL PROVE q = Len(d)
    <3>1. ~(q < p)
      <4>1. SUFFICES ASSUME q < p PROVE FALSE
        OBVIOUS
      <4>2. q \in 1..(s - 1) /\ d[q] = c[q]
        BY <1>20, <1>21, <1>22, <4>1
      <4> QED BY <1>1, <2>2, <4>2
    <3>2. CASE p < Len(c)
      <4>1. q + 1 \in 2..Len(c) /\ q \in p..(Len(c) - 1)
        BY <1>20, <1>21, <3>1, <3>2
      <4>2. q + 1 = Len(c)
        BY <1>2, <2>2, <3>2, <4>1 DEF Chain
      <4> QED BY <1>20, <1>21, <3>2, <4>2
    <3>3. CASE p = Len(c)
      BY <1>20, <1>21, <3>1, <3>3
    <3> QED BY <1>20, <3>2, <3>3
  <2>3. \A q \in 1..(Stop(d) - 1) : Home(d[q].key, n) = i /\ d[q].value # None
    <3>1. ASSUME NEW q \in 1..(Stop(d) - 1) PROVE Home(d[q].key, n) = i /\ d[q].value # None
      <4>1. q \in 1..(s - 2)
        BY <1>1, <1>5
      <4>2. d[q] = c[At(q)] /\ At(q) \in 1..(s - 1)
        BY <1>3, <4>1
      <4> HIDE DEF At
      <4> QED BY <4>2 DEF Chain
    <3> QED BY <3>1
  <2>4. ASSUME NEW q \in 1..(Stop(d) - 1), NEW r \in 1..(Stop(d) - 1), d[q].key = d[r].key
        PROVE  q = r
    <3>1. q \in 1..(s - 2) /\ r \in 1..(s - 2)
      BY <1>1, <1>5
    <3>2. /\ d[q] = c[At(q)] /\ At(q) \in 1..(s - 1)
          /\ d[r] = c[At(r)] /\ At(r) \in 1..(s - 1)
      BY <1>3, <3>1
    <3>3. At(q) = At(r)
      <4> HIDE DEF At
      <4> QED BY <2>4, <3>2 DEF Chain
    <3> QED BY <1>1, <3>1, <3>3
  <2>5. 1 \in 1..Len(d) /\ \A q \in 2..Len(d) : q \in 1..Len(d)
    BY <1>2, BucketType
  <2> QED BY <2>1, <2>2, <2>3, <2>4, <2>5 DEF Chain
<1>7. \A q \in 1..(s - 1) : q # p =>
        \E r \in 1..(Stop(d) - 1) : d[r] = c[q]
  <2>1. ASSUME NEW q \in 1..(s - 1), q # p PROVE \E r \in 1..(Stop(d) - 1) : d[r] = c[q]
    <3>1. CASE q < p
      <4>1. q \in 1..(s - 2) /\ At(q) = q /\ q \in 1..(Stop(d) - 1)
        BY <1>1, <1>5, <3>1
      <4>2. d[q] = c[q]
        BY <1>3, <4>1
      <4> QED BY <4>1, <4>2
    <3>2. CASE q > p
      <4>1. q - 1 \in 1..(s - 2) /\ At(q - 1) = q /\ q - 1 \in 1..(Stop(d) - 1)
        BY <1>1, <1>5, <3>2
      <4>2. d[q - 1] = c[q]
        BY <1>3, <4>1
      <4> QED BY <4>1, <4>2
    <3> QED BY <1>1, <2>1, <3>1, <3>2
  <2> QED BY <2>1
<1>8. KeysOf(d) = KeysOf(c) \ {c[p].key}
  <2>1. ASSUME NEW x \in KeysOf(d) PROVE x \in KeysOf(c) \ {c[p].key}
    <3>1. PICK q \in 1..(Stop(d) - 1) : x = d[q].key
      BY DEF KeysOf
    <3>2. q \in 1..(s - 2)
      BY <1>1, <1>5
    <3>3. x = c[At(q)].key /\ At(q) \in 1..(s - 1) /\ At(q) # p
      BY <1>3, <3>1, <3>2
    <3> HIDE DEF At
    <3> QED BY <3>3 DEF KeysOf, Chain
  <2>2. ASSUME NEW x \in KeysOf(c), x # c[p].key PROVE x \in KeysOf(d)
    <3>1. PICK q \in 1..(s - 1) : x = c[q].key
      BY DEF KeysOf
    <3>2. PICK r \in 1..(Stop(d) - 1) : d[r] = c[q]
      BY <1>7, <2>2, <3>1
    <3> QED BY <3>1, <3>2 DEF KeysOf
  <2> QED BY <2>1, <2>2
<1>9. Look(d, c[p].key) = None
  BY <1>2, <1>6, <1>8, LookIs
<1>10. ASSUME NEW x, x # c[p].key PROVE Look(d, x) = Look(c, x)
  <2>1. ASSUME NEW q \in 1..(Stop(c) - 1), c[q].key = x
        PROVE  \E r \in 1..(Stop(d) - 1) : d[r].key = x /\ d[r].value = c[q].value
    <3>1. PICK r \in 1..(Stop(d) - 1) : d[r] = c[q]
      BY <1>7, <1>10, <2>1
    <3> QED BY <2>1, <3>1
  <2> QED BY <1>2, <1>6, <1>8, <2>1, LookSame
<1> QED BY <1>2, <1>3, <1>5, <1>6, <1>8, <1>9, <1>10 DEF d

-----------------------------------------------------------------------------
(* A function on 1..n is a sequence. *)
LEMMA SeqOfNodes ==
  ASSUME NEW n \in Nat \ {0}, NEW f \in [1..n -> Node]
  PROVE  f \in Bucket /\ Len(f) = n
<1>1. f \in Seq(Node)
  BY SeqDef
<1>2. Len(f) \in Nat /\ DOMAIN f = 1..Len(f)
  BY <1>1, LenProperties
<1>3. 1..Len(f) = 1..n
  BY <1>2
<1>4. Len(f) = n
  <2>1. n \in 1..Len(f)
    BY <1>3
  <2>2. Len(f) \in 1..n
    BY <1>2, <1>3, <2>1
  <2> QED BY <1>2, <2>1, <2>2
<1> QED BY <1>1, <1>4 DEF Bucket

(* What hashmap_clear makes of bucket c. *)
Cleared(c) == [p \in DOMAIN c |-> IF p = 1 THEN [c[1] EXCEPT !.key = NULL]
                                  ELSE [c[p] EXCEPT !.live = @ /\ p >= Stop(c)]]

(* It holds no key that can be reached. *)
LEMMA ClearSound ==
  ASSUME NEW i, NEW n, NEW c, Sound(i, n, c), ~Dangling(c, Stop(c))
  PROVE  Sound(i, n, Cleared(c)) /\ Reach(Cleared(c)) = {}
<1> DEFINE d == Cleared(c)
           s == Stop(c)
<1>1. /\ c \in Bucket /\ Len(c) \in Nat \ {0} /\ DOMAIN c = 1..Len(c)
      /\ s \in Nat \ {0} /\ s <= Len(c) + 1
  BY BucketType, StopIs DEF Sound
<1>2. ASSUME NEW p \in 1..Len(c)
      PROVE  /\ d[p] \in Node /\ d[p].key = IF p = 1 THEN NULL ELSE c[p].key
             /\ p = 1 => d[p].live = c[p].live
             /\ p # 1 => d[p].live = (c[p].live /\ p >= s)
  <2>1. c[p] \in Node
    BY <1>1, BucketType
  <2>2. (c[p].live /\ p >= s) \in BOOLEAN
    OBVIOUS
  <2> HIDE DEF s
  <2>3. d[p] = IF p = 1 THEN [c[1] EXCEPT !.key = NULL]
                        ELSE [c[p] EXCEPT !.live = c[p].live /\ p >= s]
    BY <1>1 DEF Cleared, s
  <2>4. CASE p = 1
    BY <2>1, <2>3, <2>4 DEF Node
  <2>5. CASE p # 1
    BY <2>1, <2>2, <2>3, <2>5 DEF Node
  <2> QED BY <2>4, <2>5
<1>3. d \in Bucket /\ Len(d) = Len(c)
  <2>1. d \in [1..Len(c) -> Node]
    BY <1>1, <1>2 DEF Cleared
  <2> HIDE DEF d
  <2> QED BY <1>1, <2>1, SeqOfNodes
<1> HIDE DEF d
<1>4. d[1].key = NULL
  BY <1>1, <1>2
<1>5. ASSUME Dead(d) PROVE Sound(i, n, d) /\ Reach(d) = {}
  BY <1>3, <1>4, <1>5 DEF Sound, Stump, Reach
<1>6. CASE Stump(i, n, c)
  <2>1. Dead(c) /\ 2 \in 1..Len(c) /\ ~c[2].live
    BY <1>1, <1>6 DEF Stump, Dead
  <2>2. ~d[2].live
    BY <1>2, <2>1
  <2>3. Dead(d)
    BY <1>1, <1>3, <2>1, <2>2 DEF Dead
  <2> QED BY <1>5, <2>3 DEF d
<1>7. CASE Chain(i, n, c) /\ s > 2
  <2>1. 2 \in 1..Len(c) /\ 2 # 1 /\ ~(2 >= s)
    BY <1>1, <1>7
  <2>2. ~d[2].live
    BY <1>2, <2>1
  <2>3. Dead(d)
    BY <1>1, <1>3, <2>1, <2>2 DEF Dead
  <2> QED BY <1>5, <2>3 DEF d
<1>8. CASE Chain(i, n, c) /\ s <= 2
  <2>1. Len(c) = 1 \/ (2 \in 2..Len(c) /\ c[2].key = NULL)
    <3>1. CASE s = 1
      <4>1. c[1].key = NULL
        BY <1>1, <3>1, StopIs
      <4>2. Len(c) = 1 \/ c[2].key = NULL
        BY <1>8, <4>1 DEF Chain
      <4>3. Len(c) = 1 \/ 2 \in 2..Len(c)
        BY <1>1
      <4> QED BY <4>2, <4>3
    <3>2. CASE s = 2
      BY <1>1, <3>2, StopIs
    <3> QED BY <1>1, <1>8, <3>1, <3>2
  <2>2. Stop(d) = 1
    <3>1. 1 \in 1..(Len(d) + 1) /\ \A p \in 1..(1 - 1) : FALSE
      BY <1>1, <1>3
    <3> QED BY <1>3, <1>4, <3>1, StopUnique
  <2>3. 1..(Stop(d) - 1) = {}
    BY <2>2
  <2>4. \A p \in 1..Len(d) : d[p].live
    <3>1. ASSUME NEW p \in 1..Len(c) PROVE d[p].live
      <4>1. c[p].live /\ (p # 1 => p >= s)
        <5>1. c[p].live
          BY <1>8 DEF Chain
        <5>2. p # 1 => p >= s
          BY <1>1, <1>8
        <5> QED BY <5>1, <5>2
      <4> QED BY <1>2, <4>1
    <3> QED BY <1>3, <3>1
  <2>5. \A p \in 2..Len(d) : d[p].key = c[p].key /\ (c[p].key = NULL => p = Len(d))
    <3>1. ASSUME NEW p \in 2..Len(c) PROVE d[p].key = c[p].key /\ (c[p].key = NULL => p = Len(c))
      <4>1. p \in 1..Len(c) /\ p # 1
        BY <1>1
      <4> QED BY <1>2, <1>8, <4>1 DEF Chain
    <3> QED BY <1>3, <3>1
  <2>6. Len(d) = 1 \/ d[2].key = NULL
    BY <1>3, <2>1, <2>5
  <2>7. Chain(i, n, d)
    BY <2>3, <2>4, <2>5, <2>6 DEF Chain
  <2>8. Reach(d) = {}
    <3>1. Reach(d) = KeysOf(d)
      BY <1>3, <2>7, ChainLive
    <3> QED BY <2>3, <3>1 DEF KeysOf
  <2> QED BY <1>3, <2>7, <2>8 DEF Sound, d
<1> QED BY <1>1, <1>6, <1>7, <1>8 DEF Sound

-----------------------------------------------------------------------------
(* The members of a finite set of numbers, by their rank. *)
LEMMA NthIs ==
  ASSUME NEW S \in SUBSET Nat, IsFiniteSet(S)
  PROVE  /\ \A j \in 1..Cardinality(S) : Nth(S, j) \in S
         /\ \A j, k \in 1..Cardinality(S) : Nth(S, j) = Nth(S, k) => j = k
         /\ \A p \in S : \E j \in 1..Cardinality(S) : Nth(S, j) = p
<1> DEFINE Low(p) == {q \in S : q <= p}
           m == Cardinality(S)
           f == [p \in S |-> Cardinality(Low(p))]
<1>1. m \in Nat
  BY FS_CardinalityType
<1>2. ASSUME NEW p \in S
      PROVE  IsFiniteSet(Low(p)) /\ Cardinality(Low(p)) \in 1..m
  <2>1. Low(p) \in SUBSET S /\ p \in Low(p)
    OBVIOUS
  <2> HIDE DEF Low
  <2>2. IsFiniteSet(Low(p)) /\ Cardinality(Low(p)) <= m
    BY <2>1, FS_Subset
  <2>3. Cardinality(Low(p)) \in Nat /\ Cardinality(Low(p)) # 0
    BY <2>1, <2>2, FS_CardinalityType, FS_EmptySet
  <2> QED BY <1>1, <2>2, <2>3
<1>3. ASSUME NEW p \in S, NEW q \in S, p < q
      PROVE  Cardinality(Low(p)) # Cardinality(Low(q))
  <2>1. Low(p) \in SUBSET Low(q) /\ q \in Low(q) /\ q \notin Low(p)
    <3>1. p \in Nat /\ q \in Nat /\ q <= q /\ ~(q <= p)
      BY <1>3
    <3>2. \A x \in S : x <= p => x <= q
      BY <1>3
    <3> QED BY <3>1, <3>2
  <2>2. IsFiniteSet(Low(q))
    BY <1>2
  <2> HIDE DEF Low
  <2>3. Cardinality(Low(q)) = Cardinality(Low(p)) => Low(q) = Low(p)
    BY <2>1, <2>2, FS_Subset
  <2> QED BY <2>1, <2>3
<1>4. \A p, q \in S : Cardinality(Low(p)) = Cardinality(Low(q)) => p = q
  <2>1. \A a, b \in Nat : a < b \/ b < a \/ a = b
    OBVIOUS
  <2> HIDE DEF Low
  <2> QED BY <1>3, <2>1
<1> HIDE DEF Low
<1>5. f \in Injection(S, 1..m)
  <2>1. f \in [S -> 1..m]
    BY <1>2
  <2>2. \A p, q \in S : f[p] = f[q] => p = q
    BY <1>4
  <2> HIDE DEF f
  <2> QED BY <2>1, <2>2 DEF Injection, IsInjective
<1>6. f \in Surjection(S, 1..m)
  <2>1. IsFiniteSet(1..m) /\ Cardinality(1..m) = m
    BY <1>1, FS_Interval
  <2> HIDE DEF f
  <2> QED BY <1>5, <2>1, FS_Injection
<1>7. \A j \in 1..m : \E p \in S : Cardinality(Low(p)) = j
  <2>1. \A j \in 1..m : \E p \in S : f[p] = j
    <3> HIDE DEF f
    <3> QED BY <1>6 DEF Surjection
  <2> QED BY <2>1
<1>8. ASSUME NEW j \in 1..m
      PROVE  Nth(S, j) \in S /\ Cardinality(Low(Nth(S, j))) = j
  <2>1. \E p \in S : Cardinality(Low(p)) = j
    BY <1>7
  <2>2. Nth(S, j) = CHOOSE p \in S : Cardinality(Low(p)) = j
    BY DEF Nth, Low
  <2> QED BY <2>1, <2>2
<1>9. ASSUME NEW p \in S PROVE \E j \in 1..m : Nth(S, j) = p
  <2>1. Cardinality(Low(p)) \in 1..m
    BY <1>2
  <2>2. Nth(S, Cardinality(Low(p))) = p
    BY <1>4, <1>8, <2>1
  <2> QED BY <2>1, <2>2
<1> QED BY <1>8, <1>9

(* A slot of the table. *)
LEMMA HomeType ==
  ASSUME NEW k \in Key, NEW n \in Nat \ {0}
  PROVE  Home(k, n) \in 0..(n - 1)
<1>1. Hash[k] \in Nat
  BY MapAssumption
<1> QED BY <1>1 DEF Home

(* The slot a doubling takes the entries of a slot from. *)
LEMMA HomeHalf ==
  ASSUME NEW k \in Key, NEW t \in Nat \ {0}
  PROVE  Home(k, 2 * t) % t = Home(k, t)
<1> DEFINE h == Hash[k]
           q == h \div (2 * t)
           r == h % (2 * t)
           a == r \div t
           b == r % t
           x == h \div t
           y == h % t
<1>1. h \in Nat
  BY MapAssumption
<1> HIDE DEF h
<1>2. q \in Nat /\ r \in Nat /\ h = (2 * t) * q + r
  BY <1>1
<1> HIDE DEF q, r
<1>3. a \in Nat /\ b \in 0..(t - 1) /\ r = t * a + b
  BY <1>2
<1> HIDE DEF a, b
<1>4. x \in Nat /\ y \in 0..(t - 1) /\ h = t * x + y
  BY <1>1
<1> HIDE DEF x, y
<1>5. t * (2 * q + a) + b = t * x + y
  BY <1>2, <1>3, <1>4
<1>6. 2 * q + a = x
  <2> DEFINE u == 2 * q + a
  <2>1. u \in Nat
    BY <1>2, <1>3
  <2> HIDE DEF u
  <2>2. ~(u < x)
    <3>1. SUFFICES ASSUME u < x PROVE FALSE
      OBVIOUS
    <3>2. t * x = t * u + t * (x - u) /\ x - u >= 1 /\ x - u \in Nat
      BY <1>4, <2>1, <3>1
    <3>3. t * (x - u) >= t
      BY <3>2
    <3> QED BY <1>3, <1>4, <1>5, <2>1, <3>2, <3>3 DEF u
  <2>3. ~(x < u)
    <3>1. SUFFICES ASSUME x < u PROVE FALSE
      OBVIOUS
    <3>2. t * u = t * x + t * (u - x) /\ u - x >= 1 /\ u - x \in Nat
      BY <1>4, <2>1, <3>1
    <3>3. t * (u - x) >= t
      BY <3>2
    <3> QED BY <1>3, <1>4, <1>5, <2>1, <3>2, <3>3 DEF u
  <2> QED BY <1>4, <2>1, <2>2, <2>3 DEF u
<1>7. b = y
  BY <1>2, <1>3, <1>4, <1>5, <1>6
<1> QED BY <1>7 DEF Home, b, y, r, h

(* hashmap_double_size: a new bucket is a chain of the old one's entries     *)
(* that belong to it.                                                        *)
LEMMA RehashIs ==
  ASSUME NEW i, NEW n, NEW c \in Bucket, c = table[i % table_size],
         (\E j, m : Chain(j, m, c)) \/ Stop(c) = 1
  PROVE  LET r == Rehash(i, n)
         IN /\ r \in Bucket /\ Chain(i, n, r)
            /\ \A k : k \in KeysOf(r) <=> (k \in KeysOf(c) /\ Home(k, n) = i)
            /\ \A k \in KeysOf(r) : Look(r, k) = Look(c, k)
<1> DEFINE r == Rehash(i, n)
           P == {p \in 1..(Stop(c) - 1) : Home(c[p].key, n) = i}
           e == Cardinality(P)
<1>1. Stop(c) \in Nat \ {0}
  BY BucketType, StopIs
<1>2. P \in SUBSET (1..(Stop(c) - 1)) /\ P \in SUBSET Nat
  BY <1>1
<1>3. IsFiniteSet(P)
  <2>1. IsFiniteSet(1..(Stop(c) - 1))
    BY <1>1, FS_Interval
  <2> HIDE DEF P
  <2> QED BY <1>2, <2>1, FS_Subset
<1>4. r = IF P = {} THEN <<Empty>> ELSE [x \in 1..e |-> c[Nth(P, x)]]
  BY DEF Rehash, Home
<1> HIDE DEF r
<1>5. CASE P = {}
  <2>1. r = <<Empty>>
    BY <1>4, <1>5
  <2>2. Empty \in Node /\ Empty.key = NULL /\ Empty.live
    BY DEF Empty, Entry, Node
  <2>3. r \in [1..1 -> Node] /\ r[1] = Empty
    BY <2>1, <2>2
  <2>4. r \in Bucket /\ Len(r) = 1
    <3>1. 1 \in Nat \ {0}
      OBVIOUS
    <3> QED BY <2>3, <3>1, SeqOfNodes
  <2>5. Stop(r) = 1
    <3>1. 1 \in 1..(Len(r) + 1) /\ \A p \in 1..(1 - 1) : FALSE
      BY <2>4
    <3> QED BY <2>2, <2>3, <2>4, <3>1, StopUnique
  <2>6. 1..(Stop(r) - 1) = {} /\ 1..Len(r) = {1} /\ 2..Len(r) = {}
    BY <2>4, <2>5
  <2>7. Chain(i, n, r)
    BY <2>2, <2>3, <2>4, <2>6 DEF Chain
  <2>8. KeysOf(r) = {}
    BY <2>6 DEF KeysOf
  <2>9. \A k \in KeysOf(c) : Home(k, n) # i
    BY <1>5 DEF KeysOf
  <2> QED BY <2>4, <2>7, <2>8, <2>9 DEF r
<1>6. CASE P # {}
  <2>1. PICK j, m : Chain(j, m, c)
    <3>1. Stop(c) # 1
      BY <1>6
    <3> QED BY <3>1
  <2>2. e \in Nat \ {0}
    <3> HIDE DEF P
    <3> QED BY <1>3, <1>6, FS_CardinalityType, FS_EmptySet
  <2>3. /\ \A x \in 1..e : Nth(P, x) \in P
        /\ \A x, y \in 1..e : Nth(P, x) = Nth(P, y) => x = y
        /\ \A p \in P : \E x \in 1..e : Nth(P, x) = p
    <3> HIDE DEF P
    <3> QED BY <1>2, <1>3, NthIs
  <2>4. \A p \in P : /\ p \in 1..(Stop(c) - 1) /\ p \in 1..Len(c) /\ c[p] \in Node
                     /\ c[p].key # NULL /\ c[p].live /\ c[p].value # None
                     /\ Home(c[p].key, n) = i
    <3>1. ASSUME NEW p \in P PROVE p \in 1..(Stop(c) - 1) /\ Home(c[p].key, n) = i
      OBVIOUS
    <3>2. ASSUME NEW p \in 1..(Stop(c) - 1)
          PROVE  /\ p \in 1..Len(c) /\ c[p] \in Node
                 /\ c[p].key # NULL /\ c[p].live /\ c[p].value # None
      <4>1. p \in 1..Len(c)
        BY KeysType
      <4>2. c[p] \in Node
        BY <4>1, BucketType
      <4>3. c[p].key # NULL
        BY StopIs
      <4>4. c[p].live /\ c[p].value # None
        BY <2>1, <4>1 DEF Chain
      <4> QED BY <4>1, <4>2, <4>3, <4>4
    <3> HIDE DEF P
    <3> QED BY <3>1, <3>2
  <2>5. \A p \in 1..(Stop(c) - 1) : Home(c[p].key, n) = i => p \in P
    OBVIOUS
  <2> HIDE DEF P, e
  <2>6. r = [x \in 1..e |-> c[Nth(P, x)]]
    BY <1>4, <1>6
  <2>7. r \in [1..e -> Node] /\ \A x \in 1..e : r[x] = c[Nth(P, x)]
    BY <2>3, <2>4, <2>6
  <2>8. r \in Bucket /\ Len(r) = e
    BY <2>2, <2>7, SeqOfNodes
  <2>9. \A x \in 1..e : /\ r[x].key # NULL /\ r[x].live /\ r[x].value # None
                        /\ Home(r[x].key, n) = i
    BY <2>3, <2>4, <2>7
  <2>10. Stop(r) = e + 1
    <3>1. e + 1 \in 1..(Len(r) + 1) /\ ~(e + 1 <= Len(r)) /\ (e + 1) - 1 = e
      BY <2>2, <2>8
    <3> QED BY <2>8, <2>9, <3>1, StopUnique
  <2>11. Stop(r) - 1 = e /\ 1 \in 1..e /\ \A x \in 2..e : x \in 1..e
    BY <2>2, <2>10
  <2>12. \A x, y \in 1..e : r[x].key = r[y].key => x = y
    <3>1. ASSUME NEW x \in 1..e, NEW y \in 1..e, r[x].key = r[y].key PROVE x = y
      <4>1. c[Nth(P, x)].key = c[Nth(P, y)].key
        BY <2>7, <3>1
      <4>2. Nth(P, x) \in 1..(Stop(c) - 1) /\ Nth(P, y) \in 1..(Stop(c) - 1)
        BY <2>3, <2>4
      <4>3. Nth(P, x) = Nth(P, y)
        BY <2>1, <4>1, <4>2 DEF Chain
      <4> QED BY <2>3, <4>3
    <3> QED BY <3>1
  <2>13. Chain(i, n, r)
    BY <2>8, <2>9, <2>11, <2>12 DEF Chain
  <2>14. \A k : k \in KeysOf(r) <=> (k \in KeysOf(c) /\ Home(k, n) = i)
    <3>1. ASSUME NEW k \in KeysOf(r) PROVE k \in KeysOf(c) /\ Home(k, n) = i
      <4>1. PICK x \in 1..e : k = r[x].key
        BY <2>11 DEF KeysOf
      <4>2. k = c[Nth(P, x)].key /\ Nth(P, x) \in P
        BY <2>3, <2>7, <4>1
      <4> QED BY <2>4, <4>2 DEF KeysOf
    <3>2. ASSUME NEW k \in KeysOf(c), Home(k, n) = i PROVE k \in KeysOf(r)
      <4>1. PICK p \in 1..(Stop(c) - 1) : k = c[p].key
        BY DEF KeysOf
      <4>2. p \in P
        BY <2>5, <3>2, <4>1
      <4>3. PICK x \in 1..e : Nth(P, x) = p
        BY <2>3, <4>2
      <4>4. k = r[x].key
        BY <2>7, <4>1, <4>3
      <4> QED BY <2>11, <4>4 DEF KeysOf
    <3> QED BY <3>1, <3>2
  <2>15. ASSUME NEW k \in KeysOf(r) PROVE Look(r, k) = Look(c, k)
    <3>1. PICK x \in 1..e : k = r[x].key
      BY <2>11 DEF KeysOf
    <3>2. r[x] = c[Nth(P, x)] /\ Nth(P, x) \in 1..(Stop(c) - 1)
      BY <2>3, <2>4, <2>7
    <3>3. Look(c, k) = c[Nth(P, x)].value
      BY <2>1, <3>1, <3>2, LookIs
    <3>4. Look(r, k) = r[x].value
      BY <2>8, <2>11, <2>13, <3>1, LookIs
    <3> QED BY <3>2, <3>3, <3>4
  <2> QED BY <2>8, <2>13, <2>14, <2>15 DEF r
<1> QED BY <1>5, <1>6

-----------------------------------------------------------------------------
(* A key of the table is found in its own slot. *)
LEMMA MemberIs ==
  ASSUME NEW n \in Nat \ {0}, NEW t, AllSound(t, n), NEW k \in Key,
         ~Dangling(t[Home(k, n)], Where(t[Home(k, n)], k))
  PROVE  Found(t[Home(k, n)], k) <=> k \in Members(t, n)
<1>1. Sound(Home(k, n), n, t[Home(k, n)])
  BY HomeType DEF AllSound
<1> QED BY <1>1, ReachType DEF Members

(* A table of n slots after hashmap_insert_table, and after hashmap_delete. *)
Inserted(t, n, k, v) == [t EXCEPT ![Home(k, n)] = Insert(t[Home(k, n)], k, v)]
Removed(t, n, k) ==
  [t EXCEPT ![Home(k, n)] = Remove(t[Home(k, n)], Where(t[Home(k, n)], k))]

(* hashmap_insert_table in a whole table. *)
LEMMA InsertTable ==
  ASSUME NEW n \in Nat \ {0}, NEW t \in [0..(n - 1) -> Bucket], AllSound(t, n),
         NEW k \in Key, NEW v \in Value,
         ~Dangling(t[Home(k, n)], Where(t[Home(k, n)], k))
  PROVE  LET u == Inserted(t, n, k, v)
         IN /\ u \in [0..(n - 1) -> Bucket] /\ AllSound(u, n)
            /\ Members(u, n) = Members(t, n) \cup {k}
            /\ AllChains(t, n) =>
                 /\ AllChains(u, n) /\ Lookup(u, n, k) = v
                 /\ \A x \in Key : x # k => Lookup(u, n, x) = Lookup(t, n, x)
<1> DEFINE h == Home(k, n)
           c == t[h]
           d == Insert(c, k, v)
           u == [t EXCEPT ![h] = d]
<1>1. h \in 0..(n - 1)
  BY HomeType
<1>2. c \in Bucket /\ Sound(h, n, c)
  BY <1>1 DEF AllSound
<1>3. Sound(h, n, d) /\ Reach(d) = Reach(c) \cup {k}
  BY <1>2, InsertSound
<1>4. d \in Bucket
  BY <1>3 DEF Sound
<1> HIDE DEF d
<1>5. u \in [0..(n - 1) -> Bucket] /\ u[h] = d /\ \A i \in 0..(n - 1) : i # h => u[i] = t[i]
  BY <1>1, <1>4
<1>6. AllSound(u, n)
  BY <1>3, <1>5 DEF AllSound
<1>7. ASSUME NEW x \in Key PROVE x \in Members(u, n) <=> x \in Members(t, n) \cup {k}
  <2>1. Home(x, n) \in 0..(n - 1)
    BY HomeType
  <2>2. CASE Home(x, n) = h
    BY <1>3, <1>5, <2>2 DEF Members
  <2>3. CASE Home(x, n) # h
    BY <1>5, <2>1, <2>3 DEF Members
  <2> QED BY <2>2, <2>3
<1>8. Members(u, n) = Members(t, n) \cup {k}
  BY <1>7 DEF Members
<1>9. ASSUME AllChains(t, n)
      PROVE  /\ AllChains(u, n) /\ Lookup(u, n, k) = v
             /\ \A x \in Key : x # k => Lookup(u, n, x) = Lookup(t, n, x)
  <2>1. Chain(h, n, c)
    BY <1>1, <1>9 DEF AllChains
  <2>2. /\ Chain(h, n, d) /\ Look(d, k) = v
        /\ \A x : x # k => Look(d, x) = Look(c, x)
    BY <1>2, <2>1, InsertChain DEF d
  <2>3. AllChains(u, n)
    BY <1>5, <1>9, <2>2 DEF AllChains
  <2>4. Lookup(u, n, k) = v
    BY <1>5, <2>2 DEF Lookup
  <2>5. ASSUME NEW x \in Key, x # k PROVE Lookup(u, n, x) = Lookup(t, n, x)
    <3>1. Home(x, n) \in 0..(n - 1)
      BY HomeType
    <3>2. CASE Home(x, n) = h
      BY <1>5, <2>2, <2>5, <3>2 DEF Lookup
    <3>3. CASE Home(x, n) # h
      BY <1>5, <3>1, <3>3 DEF Lookup
    <3> QED BY <3>2, <3>3
  <2> QED BY <2>3, <2>4, <2>5
<1> QED BY <1>5, <1>6, <1>8, <1>9 DEF Inserted, d

(* hashmap_delete in a whole table. *)
LEMMA RemoveTable ==
  ASSUME NEW n \in Nat \ {0}, NEW t \in [0..(n - 1) -> Bucket], AllSound(t, n),
         NEW k \in Key, Found(t[Home(k, n)], k),
         ~Dangling(t[Home(k, n)], Where(t[Home(k, n)], k) + 1)
  PROVE  LET u == Removed(t, n, k)
         IN /\ u \in [0..(n - 1) -> Bucket] /\ AllSound(u, n)
            /\ Members(u, n) = Members(t, n) \ {k} /\ k \in Members(t, n)
            /\ AllChains(t, n) =>
                 /\ AllChains(u, n) /\ Lookup(u, n, k) = None
                 /\ \A x \in Key : x # k => Lookup(u, n, x) = Lookup(t, n, x)
<1> DEFINE h == Home(k, n)
           c == t[h]
           p == Where(c, k)
           d == Remove(c, p)
           u == [t EXCEPT ![h] = d]
<1>1. h \in 0..(n - 1)
  BY HomeType
<1>2. c \in Bucket /\ Sound(h, n, c) /\ Stop(c) \in Nat \ {0} /\ Len(c) \in Nat \ {0}
  BY <1>1, StopIs, BucketType DEF AllSound
<1>3. p \in 1..(Stop(c) - 1) /\ c[p].key = k /\ p + 1 \in Nat /\ p + 1 >= 2
  BY <1>2, WhereIs DEF Found
<1>4. Chain(h, n, c)
  <2>1. ~Dead(c)
    BY <1>2, <1>3, DanglingIs
  <2> QED BY <1>2, <2>1 DEF Sound, Stump
<1> HIDE DEF p
<1>5. /\ d \in Bucket /\ Chain(h, n, d)
      /\ KeysOf(d) = KeysOf(c) \ {k} /\ Look(d, k) = None
      /\ \A x : x # k => Look(d, x) = Look(c, x)
  BY <1>2, <1>3, <1>4, RemoveChain
<1>6. k \in KeysOf(c)
  BY <1>3 DEF KeysOf
<1> HIDE DEF d
<1>7. Reach(c) = KeysOf(c) /\ Reach(d) = KeysOf(d)
  BY <1>2, <1>4, <1>5, ChainLive
<1>8. u \in [0..(n - 1) -> Bucket] /\ u[h] = d /\ \A i \in 0..(n - 1) : i # h => u[i] = t[i]
  BY <1>1, <1>5
<1>9. AllSound(u, n)
  BY <1>5, <1>8 DEF AllSound, Sound
<1>10. ASSUME NEW x \in Key PROVE x \in Members(u, n) <=> x \in Members(t, n) \ {k}
  <2>1. Home(x, n) \in 0..(n - 1)
    BY HomeType
  <2>2. CASE Home(x, n) = h
    BY <1>5, <1>7, <1>8, <2>2 DEF Members
  <2>3. CASE Home(x, n) # h
    BY <1>8, <2>1, <2>3 DEF Members
  <2> QED BY <2>2, <2>3
<1>11. Members(u, n) = Members(t, n) \ {k} /\ k \in Members(t, n)
  BY <1>6, <1>7, <1>10 DEF Members
<1>12. ASSUME AllChains(t, n)
       PROVE  /\ AllChains(u, n) /\ Lookup(u, n, k) = None
              /\ \A x \in Key : x # k => Lookup(u, n, x) = Lookup(t, n, x)
  <2>1. AllChains(u, n)
    BY <1>5, <1>8, <1>12 DEF AllChains
  <2>2. Lookup(u, n, k) = None
    BY <1>5, <1>8 DEF Lookup
  <2>3. ASSUME NEW x \in Key, x # k PROVE Lookup(u, n, x) = Lookup(t, n, x)
    <3>1. Home(x, n) \in 0..(n - 1)
      BY HomeType
    <3>2. CASE Home(x, n) = h
      BY <1>5, <1>8, <2>3, <3>2 DEF Lookup
    <3>3. CASE Home(x, n) # h
      BY <1>8, <3>1, <3>3 DEF Lookup
    <3> QED BY <3>2, <3>3
  <2> QED BY <2>1, <2>2, <2>3
<1> QED BY <1>8, <1>9, <1>11, <1>12 DEF Removed, d, p

(* A sound bucket that can be walked to its end is a chain or has no entry. *)
LEMMA WalkedIs ==
  ASSUME NEW i, NEW n, NEW c, Sound(i, n, c), ~Dangling(c, Stop(c))
  PROVE  Reach(c) = KeysOf(c) /\ (Chain(i, n, c) \/ Stop(c) = 1)
<1>1. c \in Bucket /\ Stop(c) \in Nat \ {0} /\ Len(c) \in Nat \ {0}
  BY StopIs, BucketType DEF Sound
<1>2. CASE Chain(i, n, c)
  BY <1>1, <1>2, ChainLive
<1>3. CASE Stump(i, n, c)
  <2>1. Dead(c) /\ ~(Stop(c) >= 2)
    BY <1>1, <1>3, DanglingIs DEF Stump
  <2>2. Stop(c) = 1 /\ 1..(Stop(c) - 1) = {}
    BY <1>1, <2>1
  <2>3. c[1].key = NULL
    BY <1>1, <2>2, StopIs
  <2>4. KeysOf(c) = {}
    BY <2>2 DEF KeysOf
  <2> QED BY <2>1, <2>2, <2>3, <2>4 DEF Reach
<1> QED BY <1>2, <1>3 DEF Sound

(* hashmap_double_size loses nothing. *)
LEMMA DoubleTable ==
  ASSUME TableInv, AllSound(table, table_size),
         \A i \in DOMAIN table : ~Dangling(table[i], Stop(table[i]))
  PROVE  LET n == 2 * table_size
             t == [i \in 0..(n - 1) |-> Rehash(i, n)]
         IN /\ t \in [0..(n - 1) -> Bucket] /\ AllChains(t, n) /\ AllSound(t, n)
            /\ Members(t, n) = Members(table, table_size)
            /\ AllChains(table, table_size) =>
                 \A x \in Key : Lookup(t, n, x) = Lookup(table, table_size, x)
<1> DEFINE s == table_size
           n == 2 * s
           t == [i \in 0..(n - 1) |-> Rehash(i, n)]
<1>1. s \in Nat \ {0} /\ table \in [0..(s - 1) -> Bucket] /\ DOMAIN table = 0..(s - 1)
  BY DEF TableInv
<1>2. n \in Nat \ {0}
  BY <1>1
<1> HIDE DEF n
<1>3. ASSUME NEW i \in 0..(n - 1)
      PROVE  /\ t[i] \in Bucket /\ Chain(i, n, t[i])
             /\ \A k : k \in KeysOf(t[i]) <=> (k \in KeysOf(table[i % s]) /\ Home(k, n) = i)
             /\ \A k \in KeysOf(t[i]) : Look(t[i], k) = Look(table[i % s], k)
  <2>1. i % s \in 0..(s - 1)
    BY <1>1, <1>2
  <2>2. table[i % s] \in Bucket /\ Sound(i % s, s, table[i % s])
    BY <1>1, <2>1 DEF AllSound
  <2>3. ~Dangling(table[i % s], Stop(table[i % s]))
    BY <1>1, <2>1
  <2>4. Chain(i % s, s, table[i % s]) \/ Stop(table[i % s]) = 1
    BY <2>2, <2>3, WalkedIs
  <2>5. t[i] = Rehash(i, n)
    OBVIOUS
  <2> HIDE DEF t
  <2>6. /\ Rehash(i, n) \in Bucket /\ Chain(i, n, Rehash(i, n))
        /\ \A k : k \in KeysOf(Rehash(i, n)) <=> (k \in KeysOf(table[i % s]) /\ Home(k, n) = i)
        /\ \A k \in KeysOf(Rehash(i, n)) : Look(Rehash(i, n), k) = Look(table[i % s], k)
    <3> DEFINE c == table[i % s]
    <3>1. /\ c \in Bucket /\ c = table[i % table_size]
          /\ (\E a, b : Chain(a, b, c)) \/ Stop(c) = 1
      BY <2>2, <2>4
    <3> HIDE DEF c, s
    <3>2. LET r == Rehash(i, n)
          IN /\ r \in Bucket /\ Chain(i, n, r)
             /\ \A k : k \in KeysOf(r) <=> (k \in KeysOf(c) /\ Home(k, n) = i)
             /\ \A k \in KeysOf(r) : Look(r, k) = Look(c, k)
      BY ONLY <3>1, RehashIs
    <3> QED BY <3>2 DEF c
  <2> QED BY <2>5, <2>6
<1>4. t \in [0..(n - 1) -> Bucket]
  BY <1>3
<1> HIDE DEF t
<1>5. AllChains(t, n) /\ AllSound(t, n)
  BY <1>3 DEF AllChains, AllSound, Sound
<1>6. ASSUME NEW x \in Key
      PROVE  /\ Home(x, n) \in 0..(n - 1) /\ Home(x, n) % s = Home(x, s)
             /\ Home(x, s) \in 0..(s - 1)
             /\ Reach(t[Home(x, n)]) = KeysOf(t[Home(x, n)])
             /\ Reach(table[Home(x, s)]) = KeysOf(table[Home(x, s)])
             /\ x \in KeysOf(t[Home(x, n)]) <=> x \in KeysOf(table[Home(x, s)])
  <2>1. Home(x, n) \in 0..(n - 1) /\ Home(x, s) \in 0..(s - 1)
    BY <1>1, <1>2, HomeType
  <2>2. Home(x, n) % s = Home(x, s)
    BY <1>1, HomeHalf DEF n
  <2>3. Reach(t[Home(x, n)]) = KeysOf(t[Home(x, n)])
    BY <1>3, <2>1, ChainLive
  <2>4. Reach(table[Home(x, s)]) = KeysOf(table[Home(x, s)])
    BY <1>1, <2>1, WalkedIs DEF AllSound
  <2>5. x \in KeysOf(t[Home(x, n)]) <=> x \in KeysOf(table[Home(x, s)])
    BY <1>3, <2>1, <2>2
  <2> QED BY <2>1, <2>2, <2>3, <2>4, <2>5
<1>7. Members(t, n) = Members(table, s)
  BY <1>6 DEF Members
<1>8. ASSUME AllChains(table, s), NEW x \in Key PROVE Lookup(t, n, x) = Lookup(table, s, x)
  <2> DEFINE c == table[Home(x, s)]
             d == t[Home(x, n)]
  <2>1. c \in Bucket /\ Chain(Home(x, s), s, c) /\ d \in Bucket /\ Chain(Home(x, n), n, d)
    BY <1>1, <1>3, <1>6, <1>8 DEF AllChains
  <2>2. CASE x \in KeysOf(d)
    <3>1. Look(d, x) = Look(c, x)
      BY <1>3, <1>6, <2>2
    <3> QED BY <3>1 DEF Lookup
  <2>3. CASE x \notin KeysOf(d)
    <3>1. x \notin KeysOf(c)
      BY <1>6, <2>3
    <3> HIDE DEF c, d
    <3>2. Look(d, x) = None /\ Look(c, x) = None
      BY <2>1, <2>3, <3>1, LookIs
    <3> QED BY <3>2 DEF Lookup, c, d
  <2> QED BY <2>2, <2>3
<1> QED BY <1>4, <1>5, <1>7, <1>8 DEF t, n

(* hashmap_clear leaves no key that can be reached. *)
LEMMA ClearTable ==
  ASSUME TableInv, AllSound(table, table_size),
         \A i \in DOMAIN table : ~Dangling(table[i], Stop(table[i]))
  PROVE  LET u == [i \in DOMAIN table |-> Cleared(table[i])]
         IN /\ u \in [0..(table_size - 1) -> Bucket] /\ AllSound(u, table_size)
            /\ Members(u, table_size) = {}
<1> DEFINE n == table_size
           u == [i \in DOMAIN table |-> Cleared(table[i])]
<1>1. n \in Nat \ {0} /\ DOMAIN table = 0..(n - 1)
  BY DEF TableInv
<1>2. ASSUME NEW i \in 0..(n - 1)
      PROVE  u[i] = Cleared(table[i]) /\ Sound(i, n, u[i]) /\ Reach(u[i]) = {}
  <2>1. Sound(i, n, table[i]) /\ ~Dangling(table[i], Stop(table[i]))
    BY <1>1 DEF AllSound
  <2> QED BY <1>1, <2>1, ClearSound
<1>3. u \in [0..(n - 1) -> Bucket]
  <2>1. \A i \in 0..(n - 1) : Cleared(table[i]) \in Bucket
    BY <1>2 DEF Sound
  <2> QED BY <1>1, <2>1
<1> HIDE DEF u
<1>4. AllSound(u, n)
  BY <1>2 DEF AllSound
<1>5. Members(u, n) = {}
  BY <1>1, <1>2, HomeType DEF Members
<1> QED BY <1>3, <1>4, <1>5 DEF u

-----------------------------------------------------------------------------
(* A power of two is the number of subsets of a finite set. *)
LEMMA PowerType ==
  ASSUME NEW b \in Nat
  PROVE  2^b \in Nat \ {0} /\ (b # 0 => 2^b # 1)
<1> DEFINE S == 1..b
<1>1. IsFiniteSet(S) /\ Cardinality(S) = b
  BY FS_Interval
<1>2. S = {} <=> b = 0
  OBVIOUS
<1> HIDE DEF S
<1>3. IsFiniteSet(SUBSET S) /\ Cardinality(SUBSET S) = 2^b
  BY <1>1, FS_SUBSET
<1>4. 2^b \in Nat
  BY <1>3, FS_CardinalityType
<1>5. 2^b # 0
  <2>1. {} \in SUBSET S
    OBVIOUS
  <2> QED BY <1>3, <2>1, FS_EmptySet
<1>6. ASSUME b # 0 PROVE 2^b # 1
  <2>1. SUFFICES ASSUME 2^b = 1 PROVE FALSE
    OBVIOUS
  <2>2. PICK x : SUBSET S = {x}
    BY <1>3, <2>1, FS_Singleton
  <2>3. {} \in SUBSET S /\ S \in SUBSET S /\ S # {}
    BY <1>2, <1>6
  <2> QED BY <2>2, <2>3
<1> QED BY <1>4, <1>5, <1>6

(* "Round up to power of 2". *)
LEMMA RoundUpType ==
  ASSUME NEW n \in Nat \ {0}, n <= 2^30
  PROVE  RoundUp(n) \in Nat \ {0} /\ (n # 1 => RoundUp(n) # 1)
<1> DEFINE Top(b) == b = 30 \/ n < 2^(b + 1)
           S == {b \in 0..30 : Top(b)}
           m == CHOOSE b \in 0..30 : 2^b <= n /\ (b = 30 \/ n < 2^(b + 1))
<1>1. S \in SUBSET Nat /\ 30 \in S
  OBVIOUS
<1>2. PICK b \in S : \A q \in S : b <= q
  <2> HIDE DEF S
  <2> QED BY <1>1, LeastIs
<1>3. b \in 0..30 /\ Top(b)
  OBVIOUS
<1>4. 2^b <= n
  <2>1. CASE b = 0
    <3>1. 2^0 = 1
      OBVIOUS
    <3> QED BY <2>1, <3>1
  <2>2. CASE b # 0
    <3>1. b - 1 \in 0..30 /\ b - 1 \in Nat /\ (b - 1) + 1 = b /\ ~(b <= b - 1)
      BY <1>3, <2>2
    <3>2. b - 1 \notin S
      BY <1>2, <3>1
    <3>3. ~Top(b - 1)
      BY <3>1, <3>2
    <3>4. ~(n < 2^b)
      BY <3>1, <3>3
    <3>5. 2^b \in Nat
      BY <1>3, PowerType
    <3> QED BY <3>4, <3>5
  <2> QED BY <2>1, <2>2
<1>5. \E x \in 0..30 : 2^x <= n /\ (x = 30 \/ n < 2^(x + 1))
  BY <1>3, <1>4
<1>6. m \in 0..30
  BY <1>5
<1>7. RoundUp(n) = IF 2^m # n THEN 2^(m + 1) ELSE n
  BY DEF RoundUp
<1> HIDE DEF m
<1>8. m + 1 \in Nat /\ m + 1 # 0
  BY <1>6
<1>9. 2^(m + 1) \in Nat \ {0} /\ 2^(m + 1) # 1
  BY <1>8, PowerType
<1> QED BY <1>7, <1>9

(* How many slots hashmap_init makes. *)
LEMMA FirstSize ==
  ASSUME Init
  PROVE  /\ table_size \in Nat \ {0} /\ max_size \in Nat
         /\ InitialSize # 1 /\ DEFAULT_CAPACITY # 1 => max_size > 0
<1>1. table_size \in Nat \ {0} /\ (InitialSize # 1 /\ DEFAULT_CAPACITY # 1 => table_size # 1)
  <2>1. CASE InitialSize <= 0
    BY <2>1, MapAssumption DEF Init
  <2>2. CASE ~(InitialSize <= 0)
    <3>1. InitialSize \in Nat \ {0} /\ InitialSize <= 2^30
      BY <2>2, MapAssumption
    <3>2. table_size = RoundUp(InitialSize)
      BY <2>2 DEF Init
    <3> QED BY <3>1, <3>2, RoundUpType
  <2> QED BY <2>1, <2>2
<1>2. max_size = (3 * table_size) \div 4
  BY DEF Init
<1> QED BY <1>1, <1>2

(* The map that hashmap_init makes. *)
LEMMA InitInv ==
  ASSUME Init
  PROVE  /\ IInv
         /\ InitialSize # 1 /\ DEFAULT_CAPACITY # 1 => CleanInv
         /\ \A k \in Key : Lookup(table, table_size, k) = None
<1> DEFINE n == table_size
           e == <<Empty>>
<1>1. n \in Nat \ {0} /\ max_size \in Nat
  BY FirstSize
<1>2. Empty \in Node /\ Empty.key = NULL /\ Empty.live
  BY DEF Empty, Entry, Node
<1>3. e \in [1..1 -> Node] /\ e[1] = Empty
  BY <1>2
<1> HIDE DEF e
<1>4. e \in Bucket /\ Len(e) = 1
  <2>1. 1 \in Nat \ {0}
    OBVIOUS
  <2> QED BY <1>3, <2>1, SeqOfNodes
<1>5. Stop(e) = 1
  <2>1. 1 \in 1..(Len(e) + 1) /\ \A p \in 1..(1 - 1) : FALSE
    BY <1>4
  <2> QED BY <1>2, <1>3, <1>4, <2>1, StopUnique
<1>6. 1..(Stop(e) - 1) = {} /\ 1..Len(e) = {1} /\ 2..Len(e) = {}
  BY <1>4, <1>5
<1>7. \A i : Chain(i, n, e)
  BY <1>2, <1>3, <1>4, <1>6 DEF Chain
<1>8. KeysOf(e) = {}
  BY <1>6 DEF KeysOf
<1>9. Reach(e) = {} /\ \A k : Look(e, k) = None
  <2>1. ASSUME NEW k PROVE Look(e, k) = None
    BY <1>4, <1>8, FoundIs DEF Look
  <2>2. Reach(e) = KeysOf(e)
    BY <1>4, <1>7, ChainLive
  <2> QED BY <1>8, <2>1, <2>2
<1>10. table = [i \in 0..(n - 1) |-> e]
  BY DEF Init, e
<1>11. table \in [0..(n - 1) -> Bucket] /\ \A i \in 0..(n - 1) : table[i] = e
  BY <1>4, <1>10
<1>12. AllSound(table, n) /\ AllChains(table, n)
  BY <1>4, <1>7, <1>11 DEF AllSound, AllChains, Sound
<1>13. Members(table, n) = {}
  BY <1>1, <1>9, <1>11, HomeType DEF Members
<1>14. \A k \in Key : Lookup(table, n, k) = None
  BY <1>1, <1>9, <1>11, HomeType DEF Lookup
<1>15. count = 0 /\ state = "ready" /\ cursor = [i |-> 0, pos |-> 1] /\ seen = <<>> /\ start = {}
  BY DEF Init
<1>16. TableInv
  BY <1>1, <1>11, <1>15 DEF TableInv
<1>17. IterInv
  BY <1>1, <1>15 DEF IterInv
<1>18. MapInv
  BY <1>12, <1>13, <1>15, FS_EmptySet DEF MapInv
<1>19. InitialSize # 1 /\ DEFAULT_CAPACITY # 1 => CleanInv
  BY <1>12, <1>15, FirstSize DEF CleanInv
<1> QED BY <1>14, <1>16, <1>17, <1>18, <1>19 DEF IInv

-----------------------------------------------------------------------------
(* The dictionary a map stands for. *)
LEMMA ContentsIs ==
  /\ Contents = [k \in Key |-> IF state # "destroyed" THEN Lookup(table, table_size, k) ELSE None]
  /\ Contents' = [k \in Key |-> IF state' # "destroyed" THEN Lookup(table', table_size', k) ELSE None]
BY DEF Contents, Lookup, Look, Home, Index

(* A step that leaves the table and its figures alone. *)
LEMMA SameMap ==
  ASSUME IInv, UNCHANGED map, IterInv', state' = "crashed" \/ state # "crashed"
  PROVE  IInv' /\ (CleanInv /\ state' # "crashed" => CleanInv')
<1>1. UNCHANGED <<table, table_size, max_size, count>>
  BY DEF map
<1>2. TableInv'
  BY <1>1 DEF IInv, TableInv
<1>3. MapInv'
  BY <1>1 DEF IInv, MapInv
<1>4. CleanInv /\ state' # "crashed" => CleanInv'
  BY <1>1 DEF CleanInv
<1> QED BY <1>2, <1>3, <1>4 DEF IInv

(* Undefined behaviour leaves what is known of the types. *)
LEMMA CrashStep ==
  ASSUME IInv, Crash
  PROVE  IInv'
<1>1. state' = "crashed" /\ UNCHANGED map /\ UNCHANGED <<cursor, seen, start>>
  BY DEF Crash, iter
<1>2. table_size' = table_size
  BY <1>1 DEF map
<1>3. IterInv'
  BY <1>1, <1>2 DEF IInv, IterInv
<1> QED BY <1>1, <1>3, SameMap

(* No walk of a map that is never cleared reads a freed node. *)
LEMMA CleanLive ==
  ASSUME IInv, CleanInv
  PROVE  \A i \in 0..(table_size - 1) : \A p \in Nat : ~Dangling(table[i], p)
BY ChainLive DEF IInv, TableInv, CleanInv, AllChains

(* hashmap_put adds its key to what can be reached, and counts it if it is   *)
(* new, whether or not the table is doubled first.                           *)
LEMMA PutStep ==
  ASSUME IInv, NEW k \in Key, NEW v \in Value, hashmap_put(k, v)
  PROVE  IInv' /\ (CleanInv => CleanInv' /\ D!DPut(k, v))
<1> DEFINE s == table_size
           full == count + 1 > max_size
           n == IF full THEN 2 * s ELSE s
           t == IF full THEN [i \in 0..(n - 1) |-> Rehash(i, n)] ELSE table
           h == Home(k, n)
           c == t[h]
           bad == \/ full /\ max_size = 0
                  \/ full /\ \E i \in DOMAIN table : Dangling(table[i], Stop(table[i]))
                  \/ ~full /\ Dangling(c, Where(c, k))
           u == Inserted(t, n, k, v)
           Good == /\ table' = u /\ table_size' = n
                   /\ max_size' = IF full THEN 2 * max_size ELSE max_size
                   /\ count' = IF Found(c, k) THEN count ELSE count + 1
                   /\ ret' = IF Found(c, k) THEN 0 ELSE 1
                   /\ UNCHANGED <<state, iter>>
<1>1. state = "ready" /\ ((bad /\ Crash) \/ (~bad /\ Good))
  BY DEF hashmap_put, Call, Home, Inserted
<1>2. /\ s \in Nat \ {0} /\ max_size \in Nat /\ count \in Nat
      /\ table \in [0..(s - 1) -> Bucket] /\ DOMAIN table = 0..(s - 1)
  BY DEF IInv, TableInv
<1>3. /\ AllSound(table, s) /\ IsFiniteSet(Members(table, s))
      /\ count = Cardinality(Members(table, s))
  BY <1>1 DEF IInv, MapInv
<1>4. n \in Nat \ {0} /\ s <= n
  BY <1>2
<1>5. ASSUME CleanInv PROVE ~bad
  <2>1. max_size # 0
    BY <1>2, <1>5 DEF CleanInv
  <2>2. ASSUME NEW i \in DOMAIN table PROVE ~Dangling(table[i], Stop(table[i]))
    <3>1. table[i] \in Bucket /\ i \in 0..(s - 1)
      BY <1>2
    <3>2. Stop(table[i]) \in Nat
      BY <3>1, StopIs, BucketType
    <3> QED BY <1>5, <3>1, <3>2, CleanLive
  <2>3. ASSUME ~full PROVE ~Dangling(c, Where(c, k))
    <3>1. h \in 0..(s - 1) /\ c = table[h]
      BY <1>2, <2>3, HomeType
    <3>2. c \in Bucket
      BY <1>2, <3>1
    <3>3. Where(c, k) \in Nat
      BY <3>2, StopIs, BucketType, WhereIs
    <3> QED BY <1>5, <3>1, <3>3, CleanLive
  <2> HIDE DEF full, c
  <2> QED BY <2>1, <2>2, <2>3
<1>6. CASE bad /\ Crash
  BY <1>5, <1>6, CrashStep
<1>7. CASE ~bad /\ Good
  <2>1. /\ t \in [0..(n - 1) -> Bucket] /\ AllSound(t, n)
        /\ Members(t, n) = Members(table, s)
        /\ ~Dangling(c, Where(c, k))
        /\ AllChains(table, s) => /\ AllChains(t, n)
                                  /\ \A x \in Key : Lookup(t, n, x) = Lookup(table, s, x)
    <3>1. CASE full
      <4>1. \A i \in DOMAIN table : ~Dangling(table[i], Stop(table[i]))
        BY <1>7, <3>1
      <4>2. n = 2 * s /\ t = [i \in 0..(n - 1) |-> Rehash(i, n)]
        BY <3>1
      <4>3. /\ t \in [0..(n - 1) -> Bucket] /\ AllChains(t, n) /\ AllSound(t, n)
            /\ Members(t, n) = Members(table, s)
            /\ AllChains(table, s) => \A x \in Key : Lookup(t, n, x) = Lookup(table, s, x)
        <5>1. TableInv
          BY DEF IInv
        <5> HIDE DEF t
        <5> QED BY <1>3, <4>1, <4>2, <5>1, DoubleTable
      <4>4. h \in 0..(n - 1)
        BY <1>4, HomeType
      <4> HIDE DEF t, n, h
      <4>5. c \in Bucket /\ Chain(h, n, c)
        BY <4>3, <4>4 DEF AllChains
      <4> HIDE DEF c
      <4>6. Where(c, k) \in Nat
        BY <4>5, StopIs, BucketType, WhereIs
      <4> QED BY <4>3, <4>5, <4>6, ChainLive
    <3>2. CASE ~full
      <4>1. n = s /\ t = table /\ ~Dangling(c, Where(c, k))
        BY <1>7, <3>2
      <4> HIDE DEF n, t, c
      <4> QED BY <1>2, <1>3, <4>1
    <3> QED BY <3>1, <3>2
  <2>2. Good
    BY <1>7
  <2>3. h \in 0..(n - 1)
    BY <1>4, HomeType
  <2> HIDE DEF t, n, full, bad
  <2>4. /\ u \in [0..(n - 1) -> Bucket] /\ AllSound(u, n)
        /\ Members(u, n) = Members(t, n) \cup {k}
        /\ AllChains(t, n) =>
             /\ AllChains(u, n) /\ Lookup(u, n, k) = v
             /\ \A x \in Key : x # k => Lookup(u, n, x) = Lookup(t, n, x)
    <3>1. ~Dangling(t[Home(k, n)], Where(t[Home(k, n)], k))
      BY <2>1
    <3> QED BY <1>4, <2>1, <3>1, InsertTable
  <2>5. Found(c, k) <=> k \in Members(table, s)
    BY <1>4, <2>1, MemberIs
  <2> HIDE DEF u, c, h
  <2>6. IsFiniteSet(Members(u, n)) /\ count' = Cardinality(Members(u, n)) /\ count' \in Nat
    <3>1. CASE k \in Members(table, s)
      <4>1. Members(u, n) = Members(table, s)
        BY <2>1, <2>4, <3>1
      <4> QED BY <1>2, <1>3, <2>2, <2>5, <3>1, <4>1
    <3>2. CASE k \notin Members(table, s)
      <4>1. Cardinality(Members(table, s) \cup {k}) = Cardinality(Members(table, s)) + 1
        BY <1>3, <3>2, FS_AddElement
      <4>2. IsFiniteSet(Members(table, s) \cup {k})
        BY <1>3, FS_AddElement
      <4>3. count' = count + 1
        BY <2>2, <2>5, <3>2
      <4> QED BY <1>2, <1>3, <2>1, <2>4, <4>1, <4>2, <4>3
    <3> QED BY <3>1, <3>2
  <2>7. max_size' \in Nat /\ (max_size > 0 => max_size' > 0)
    BY <1>2, <2>2
  <2>8. TableInv'
    BY <1>4, <2>2, <2>4, <2>6, <2>7 DEF TableInv
  <2>9. IterInv'
    <3>1. UNCHANGED <<state, cursor, seen, start>> /\ table_size' = n
      BY <2>2 DEF iter
    <3>2. cursor \in [i : 0..s, pos : Nat \ {0}]
      BY DEF IInv, IterInv
    <3>3. cursor \in [i : 0..n, pos : Nat \ {0}]
      <4>1. 0..s \subseteq 0..n
        BY <1>2, <1>4
      <4> QED BY <3>2, <4>1
    <3> QED BY <3>1, <3>3 DEF IInv, IterInv
  <2>10. MapInv'
    BY <2>2, <2>4, <2>6 DEF MapInv
  <2>11. ASSUME CleanInv PROVE CleanInv' /\ D!DPut(k, v)
    <3>1. AllChains(table, s) /\ max_size > 0
      BY <2>11 DEF CleanInv
    <3>2. CleanInv'
      BY <1>1, <2>1, <2>2, <2>4, <2>7, <3>1 DEF CleanInv
    <3>3. Contents[k] = None <=> ~Found(c, k)
      <4>1. Contents[k] = Lookup(table, s, k)
        BY <1>1, ContentsIs
      <4>2. Lookup(table, s, k) = Look(c, k)
        BY <2>1, <3>1 DEF Lookup, c, h
      <4>3. c \in Bucket /\ Chain(h, n, c)
        BY <2>1, <2>3, <3>1 DEF AllChains, c
      <4> QED BY <4>1, <4>2, <4>3, ValueIs
    <3>4. Contents' = [Contents EXCEPT ![k] = v]
      <4>1. \A x \in Key : Lookup(u, n, x) = IF x = k THEN v ELSE Lookup(table, s, x)
        BY <2>1, <2>4, <3>1
      <4>2. state' = "ready" /\ table' = u /\ table_size' = n
        BY <1>1, <2>2
      <4>3. Contents' = [x \in Key |-> Lookup(u, n, x)]
        BY <4>2, ContentsIs
      <4>4. Contents = [x \in Key |-> Lookup(table, s, x)]
        BY <1>1, ContentsIs
      <4> QED BY <4>1, <4>3, <4>4
    <3> QED BY <2>2, <3>2, <3>3, <3>4 DEF D!DPut
  <2> QED BY <2>8, <2>9, <2>10, <2>11 DEF IInv
<1> QED BY <1>1, <1>6, <1>7

(* What a successful hashmap_delete does, called by itself or from a         *)
(* callback of hashmap_iter.                                                 *)
LEMMA DeleteMap ==
  ASSUME IInv, state \in {"ready", "iter"}, state' \in {"ready", "iter"}, IterInv',
         NEW k \in Key, Found(table[Home(k, table_size)], k),
         ~Dangling(table[Home(k, table_size)], Where(table[Home(k, table_size)], k) + 1),
         table' = Removed(table, table_size, k), count' = count - 1,
         UNCHANGED <<table_size, max_size>>
  PROVE  /\ IInv'
         /\ CleanInv => /\ CleanInv' /\ Contents[k] # None
                        /\ Contents' = [Contents EXCEPT ![k] = None]
<1> DEFINE s == table_size
           u == Removed(table, s, k)
           c == table[Home(k, s)]
<1>1. /\ s \in Nat \ {0} /\ max_size \in Nat /\ count \in Nat
      /\ table \in [0..(s - 1) -> Bucket] /\ Home(k, s) \in 0..(s - 1)
  BY HomeType DEF IInv, TableInv
<1>2. /\ AllSound(table, s) /\ IsFiniteSet(Members(table, s))
      /\ count = Cardinality(Members(table, s))
  BY DEF IInv, MapInv
<1>3. /\ u \in [0..(s - 1) -> Bucket] /\ AllSound(u, s)
      /\ Members(u, s) = Members(table, s) \ {k} /\ k \in Members(table, s)
      /\ AllChains(table, s) =>
           /\ AllChains(u, s) /\ Lookup(u, s, k) = None
           /\ \A x \in Key : x # k => Lookup(u, s, x) = Lookup(table, s, x)
  BY <1>1, <1>2, RemoveTable
<1>4. IsFiniteSet(Members(u, s)) /\ Cardinality(Members(u, s)) = count - 1
  BY <1>2, <1>3, FS_RemoveElement
<1>5. count - 1 \in Nat
  BY <1>4, FS_CardinalityType
<1> HIDE DEF u
<1>6. table' = u /\ table_size' = s /\ max_size' = max_size /\ count' = count - 1
  BY DEF u
<1>7. TableInv'
  BY <1>1, <1>3, <1>5, <1>6 DEF TableInv
<1>8. MapInv'
  BY <1>3, <1>4, <1>6 DEF MapInv
<1>9. ASSUME CleanInv
      PROVE  /\ CleanInv' /\ Contents[k] # None
             /\ Contents' = [Contents EXCEPT ![k] = None]
  <2>1. AllChains(table, s) /\ max_size > 0
    BY <1>9 DEF CleanInv
  <2>2. CleanInv'
    BY <1>3, <1>6, <2>1 DEF CleanInv
  <2>3. c \in Bucket /\ Chain(Home(k, s), s, c)
    BY <1>1, <2>1 DEF AllChains
  <2>4. /\ Contents = [x \in Key |-> Lookup(table, s, x)]
        /\ Contents' = [x \in Key |-> Lookup(u, s, x)]
    BY <1>6, ContentsIs
  <2>5. Contents[k] # None
    BY <2>3, <2>4, ValueIs DEF Lookup
  <2>6. \A x \in Key : Lookup(u, s, x) = IF x = k THEN None ELSE Lookup(table, s, x)
    BY <1>3, <2>1
  <2> QED BY <2>2, <2>4, <2>5, <2>6
<1> QED BY <1>7, <1>8, <1>9 DEF IInv

(* hashmap_delete. *)
LEMMA DeleteStep ==
  ASSUME IInv, NEW k \in Key, hashmap_delete(k)
  PROVE  IInv' /\ (CleanInv => CleanInv' /\ D!DDelete(k))
<1> DEFINE s == table_size
           c == table[Home(k, s)]
           p == Where(c, k)
           bad == Dangling(c, IF Found(c, k) THEN p + 1 ELSE p)
<1>1. /\ state = "ready"
      /\ \/ bad /\ Crash
         \/ /\ ~bad /\ Found(c, k)
            /\ table' = Removed(table, s, k) /\ count' = count - 1 /\ ret' = 0
            /\ UNCHANGED <<table_size, max_size, state, iter>>
         \/ /\ ~bad /\ ~Found(c, k)
            /\ ret' = -1 /\ UNCHANGED <<map, state, iter>>
  BY DEF hashmap_delete, Call, Index, Home, Removed
<1>2. s \in Nat \ {0} /\ table \in [0..(s - 1) -> Bucket] /\ Home(k, s) \in 0..(s - 1)
  BY HomeType DEF IInv, TableInv
<1>3. c \in Bucket
  BY <1>2
<1>4. p \in Nat
  BY <1>3, StopIs, BucketType, WhereIs
<1>5. CASE bad /\ Crash
  <2>1. ~CleanInv
    <3>1. PICK q \in Nat : Dangling(c, q)
      BY <1>4, <1>5
    <3> QED BY <1>2, <3>1, CleanLive
  <2> QED BY <1>5, <2>1, CrashStep
<1>6. CASE /\ ~bad /\ Found(c, k)
           /\ table' = Removed(table, s, k) /\ count' = count - 1 /\ ret' = 0
           /\ UNCHANGED <<table_size, max_size, state, iter>>
  <2>1. IterInv'
    BY <1>6 DEF IInv, IterInv, iter
  <2>2. state \in {"ready", "iter"} /\ state' \in {"ready", "iter"}
    BY <1>1, <1>6
  <2>3. ~Dangling(c, p + 1)
    BY <1>6
  <2>4. /\ IInv'
        /\ CleanInv => /\ CleanInv' /\ Contents[k] # None
                       /\ Contents' = [Contents EXCEPT ![k] = None]
    BY <1>6, <2>1, <2>2, <2>3, DeleteMap
  <2> QED BY <1>6, <2>4 DEF D!DDelete
<1>7. CASE /\ ~bad /\ ~Found(c, k)
           /\ ret' = -1 /\ UNCHANGED <<map, state, iter>>
  <2>1. IterInv'
    BY <1>7 DEF IInv, IterInv, iter, map
  <2>2. IInv' /\ (CleanInv => CleanInv')
    BY <1>1, <1>7, <2>1, SameMap
  <2>3. Contents' = Contents
    BY <1>7, ContentsIs DEF map
  <2>4. Contents = [x \in Key |-> Lookup(table, s, x)]
    BY <1>1, ContentsIs
  <2>5. Contents[k] = None
    BY <1>7, <2>4 DEF Lookup, Look
  <2>6. Contents = [Contents EXCEPT ![k] = None]
    BY <2>4, <2>5
  <2> QED BY <1>7, <2>2, <2>3, <2>5, <2>6 DEF D!DDelete
<1> QED BY <1>1, <1>5, <1>6, <1>7

(* An entry that a walk comes to without reading a freed node is in the      *)
(* bucket of its key, and a search for the key ends at it.                   *)
LEMMA PlaceIs ==
  ASSUME NEW i, NEW n, NEW c, Sound(i, n, c),
         NEW p \in 1..(Stop(c) - 1), ~Dangling(c, p)
  PROVE  /\ c[p].key \in Key /\ Home(c[p].key, n) = i
         /\ Found(c, c[p].key) /\ Where(c, c[p].key) = p
<1> DEFINE k == c[p].key
<1>1. c \in Bucket /\ Stop(c) \in Nat \ {0}
  BY StopIs, BucketType DEF Sound
<1>2. k \in Key /\ p \in Nat \ {0} /\ p < Stop(c)
  BY <1>1, KeysType
<1>3. CASE Chain(i, n, c)
  <2>1. Home(k, n) = i
    BY <1>3 DEF Chain
  <2>2. Found(c, k) /\ Where(c, k) = p
    BY <1>1, <1>3, LookIs
  <2> QED BY <1>2, <2>1, <2>2
<1>4. CASE Stump(i, n, c)
  <2>1. p = 1
    <3>1. ~(p >= 2)
      BY <1>1, <1>2, <1>4, DanglingIs DEF Stump
    <3> QED BY <1>2, <3>1
  <2>2. Home(k, n) = i
    <3>1. k # NULL
      BY <1>2, MapAssumption
    <3> QED BY <1>4, <2>1, <3>1 DEF Stump
  <2>3. Where(c, k) = 1
    <3>1. 1 \in 1..Stop(c) /\ \A q \in 1..(1 - 1) : FALSE
      BY <1>1
    <3>2. c[1].key = k
      BY <2>1
    <3> HIDE DEF k
    <3> QED BY <1>1, <3>1, <3>2, WhereUnique
  <2>4. Found(c, k)
    BY <1>2, <2>1, <2>3 DEF Found
  <2> QED BY <1>2, <2>1, <2>2, <2>3, <2>4
<1> QED BY <1>3, <1>4 DEF Sound

(* The entry the callback is called with is the one hashmap_delete finds. *)
LEMMA CurrentIs ==
  ASSUME IInv, AtEntry
  PROVE  /\ cursor.i \in 0..(table_size - 1) /\ cursor.pos \in Nat \ {0}
         /\ current \in Key /\ Home(current, table_size) = cursor.i
         /\ Found(table[cursor.i], current) /\ Where(table[cursor.i], current) = cursor.pos
<1> DEFINE s == table_size
           i == cursor.i
           p == cursor.pos
           c == table[i]
<1>1. state = "iter" /\ i < s /\ p < Stop(c) /\ ~Dangling(c, p)
  BY DEF AtEntry
<1>2. i \in 0..s /\ p \in Nat \ {0} /\ s \in Nat \ {0} /\ AllSound(table, s)
  BY <1>1 DEF IInv, IterInv, TableInv, MapInv
<1>3. i \in 0..(s - 1)
  BY <1>1, <1>2
<1>4. Sound(i, s, c)
  BY <1>2, <1>3 DEF AllSound
<1>5. Stop(c) \in Nat \ {0}
  BY <1>4, StopIs, BucketType DEF Sound
<1>6. p \in 1..(Stop(c) - 1) /\ current = c[p].key
  BY <1>1, <1>2, <1>5 DEF current
<1> HIDE DEF i, p, c, s
<1>7. current \in Key /\ Home(current, s) = i /\ Found(c, current) /\ Where(c, current) = p
  BY <1>1, <1>4, <1>6, PlaceIs
<1> QED BY <1>2, <1>3, <1>7 DEF i, p, c, s

(* Going on with the iteration, or ending it. *)
LEMMA GoOn ==
  ASSUME IInv, AtEntry, IterGoOn, UNCHANGED table_size
  PROVE  IterInv' /\ state' \in {"ready", "iter"}
<1>1. table_size \in Nat \ {0} /\ cursor.i \in 0..table_size /\ cursor.pos \in Nat \ {0}
  BY DEF IInv, TableInv, IterInv
<1>2. CASE IterDone
  <2>1. state' = "ready" /\ seen' = <<>> /\ start' = {} /\ cursor' = [i |-> 0, pos |-> 1]
    BY <1>2 DEF IterDone
  <2> QED BY <1>1, <2>1 DEF IterInv
<1>3. CASE /\ cursor' = [cursor EXCEPT !.pos = @ + 1]
           /\ seen' = Append(seen, current) /\ UNCHANGED <<state, start>>
  <2>1. current \in Key /\ seen \in Seq(Key)
    BY CurrentIs DEF IInv, IterInv
  <2>2. seen' \in Seq(Key)
    BY <1>3, <2>1, AppendProperties
  <2>3. cursor' \in [i : 0..table_size, pos : Nat \ {0}]
    <3>1. cursor \in [i : 0..table_size, pos : Nat \ {0}] /\ cursor.pos + 1 \in Nat \ {0}
      BY <1>1 DEF IInv, IterInv
    <3> QED BY <1>3, <3>1
  <2>4. state' = "iter" /\ start' = start
    BY <1>3 DEF AtEntry
  <2> QED BY <2>2, <2>3, <2>4 DEF IInv, IterInv
<1> QED BY <1>2, <1>3 DEF IterGoOn

(* The same map means the same dictionary. *)
LEMMA SameContents ==
  ASSUME UNCHANGED map, state # "destroyed", state' # "destroyed"
  PROVE  Contents' = Contents
BY ContentsIs DEF map

(* A callback that leaves the map alone. *)
LEMMA CallbackStep ==
  ASSUME IInv, IterCallback
  PROVE  IInv' /\ (CleanInv => CleanInv' /\ UNCHANGED <<Contents, ret>>)
<1>1. AtEntry /\ IterGoOn /\ UNCHANGED map /\ UNCHANGED ret
  BY DEF IterCallback
<1>2. table_size' = table_size /\ state = "iter"
  BY <1>1 DEF map, AtEntry
<1>3. IterInv' /\ state' \in {"ready", "iter"}
  BY <1>1, <1>2, GoOn
<1> QED BY <1>1, <1>2, <1>3, SameMap, SameContents

(* A callback that deletes the entry it is called with: the node it came     *)
(* from is not the one that is freed.                                        *)
LEMMA IterDeleteStep ==
  ASSUME IInv, IterDelete
  PROVE  IInv' /\ (CleanInv => CleanInv' /\ D!DDelete(current))
<1> DEFINE s == table_size
           k == current
           c == table[Home(k, s)]
           p == Where(c, k)
<1>1. /\ AtEntry /\ table' = Removed(table, s, k) /\ count' = count - 1 /\ ret' = 0
      /\ UNCHANGED <<table_size, max_size>>
      /\ IF Dangling(c, p + 1) \/ (cursor.i = Home(k, s) /\ cursor.pos \in Freed(c, p))
         THEN state' = "crashed" /\ UNCHANGED iter ELSE IterGoOn
  BY DEF IterDelete, Index, Home, Removed
<1>2. /\ cursor.i \in 0..(s - 1) /\ cursor.pos \in Nat \ {0} /\ k \in Key
      /\ Home(k, s) = cursor.i /\ Found(c, k) /\ p = cursor.pos
  BY <1>1, CurrentIs
<1>3. state = "iter" /\ ~Dangling(c, p)
  BY <1>1, <1>2 DEF AtEntry
<1>4. /\ s \in Nat \ {0} /\ max_size \in Nat /\ count \in Nat
      /\ table \in [0..(s - 1) -> Bucket]
  BY DEF IInv, TableInv
<1>5. cursor.pos \notin Freed(c, p)
  BY <1>2 DEF Freed
<1>6. CASE Dangling(c, p + 1)
  <2>1. state' = "crashed" /\ UNCHANGED <<cursor, seen, start>>
    BY <1>1, <1>6 DEF iter
  <2>2. IterInv'
    BY <1>1, <2>1 DEF IInv, IterInv
  <2>3. c \in Bucket /\ p \in 1..Len(c)
    <3>1. c \in Bucket
      BY <1>2, <1>4
    <3> QED BY <1>2, <3>1, StopIs, BucketType DEF Found
  <2>4. Remove(c, p) \in Bucket
    BY <2>3, RemoveIs
  <2>5. table' \in [0..(s - 1) -> Bucket]
    BY <1>1, <1>4, <2>4 DEF Removed
  <2>6. count - 1 \in Nat
    <3>1. /\ AllSound(table, s) /\ IsFiniteSet(Members(table, s))
          /\ count = Cardinality(Members(table, s))
      BY <1>3 DEF IInv, MapInv
    <3>2. k \in Members(table, s)
      BY <1>2, <1>3, <1>4, <3>1, MemberIs
    <3>3. count # 0
      BY <3>1, <3>2, FS_EmptySet
    <3> QED BY <1>4, <3>3
  <2>7. TableInv'
    BY <1>1, <1>4, <2>5, <2>6 DEF TableInv
  <2>8. MapInv'
    BY <2>1 DEF MapInv
  <2>9. ~CleanInv
    <3>1. p + 1 \in Nat
      BY <1>2
    <3> QED BY <1>2, <1>6, <3>1, CleanLive
  <2> QED BY <2>2, <2>7, <2>8, <2>9 DEF IInv
<1>7. CASE ~Dangling(c, p + 1)
  <2>1. IterInv' /\ state' \in {"ready", "iter"}
    <3>1. IterGoOn
      BY <1>1, <1>5, <1>7
    <3> QED BY <1>1, <3>1, GoOn
  <2> HIDE DEF k
  <2>2. /\ IInv'
        /\ CleanInv => /\ CleanInv' /\ Contents[k] # None
                       /\ Contents' = [Contents EXCEPT ![k] = None]
    BY <1>1, <1>2, <1>3, <1>7, <2>1, DeleteMap
  <2>3. CleanInv => CleanInv' /\ D!DDelete(k)
    BY <1>1, <2>2 DEF D!DDelete
  <2> QED BY <2>2, <2>3 DEF k
<1> QED BY <1>6, <1>7

(* hashmap_get. *)
LEMMA GetStep ==
  ASSUME IInv, NEW k \in Key, hashmap_get(k)
  PROVE  IInv' /\ (CleanInv => CleanInv' /\ D!DGet(k))
<1> DEFINE s == table_size
           c == table[Home(k, s)]
<1>1. /\ state = "ready"
      /\ \/ Dangling(c, Where(c, k)) /\ Crash
         \/ /\ ~Dangling(c, Where(c, k))
            /\ ret' = IF Found(c, k) THEN c[Where(c, k)].value ELSE -1
            /\ UNCHANGED <<map, state, iter>>
  BY DEF hashmap_get, Call, Index, Home
<1>2. s \in Nat \ {0} /\ table \in [0..(s - 1) -> Bucket] /\ Home(k, s) \in 0..(s - 1)
  BY HomeType DEF IInv, TableInv
<1>3. c \in Bucket
  BY <1>2
<1>4. Where(c, k) \in Nat
  BY <1>3, StopIs, BucketType, WhereIs
<1>5. CASE Dangling(c, Where(c, k)) /\ Crash
  <2>1. ~CleanInv
    BY <1>2, <1>4, <1>5, CleanLive
  <2> QED BY <1>5, <2>1, CrashStep
<1>6. CASE /\ ~Dangling(c, Where(c, k))
           /\ ret' = IF Found(c, k) THEN c[Where(c, k)].value ELSE -1
           /\ UNCHANGED <<map, state, iter>>
  <2>1. IterInv'
    BY <1>6 DEF IInv, IterInv, iter, map
  <2>2. IInv' /\ (CleanInv => CleanInv')
    BY <1>1, <1>6, <2>1, SameMap
  <2>3. Contents' = Contents
    BY <1>6, ContentsIs DEF map
  <2>4. Contents[k] = Look(c, k)
    BY <1>1, ContentsIs DEF Lookup
  <2>5. ASSUME CleanInv PROVE D!DGet(k)
    <3>1. Chain(Home(k, s), s, c)
      BY <1>2, <2>5 DEF CleanInv, AllChains
    <3>2. Look(c, k) = None <=> ~Found(c, k)
      BY <1>3, <3>1, ValueIs
    <3>3. Found(c, k) => Look(c, k) = c[Where(c, k)].value
      BY DEF Look
    <3> QED BY <1>6, <2>3, <2>4, <3>2, <3>3 DEF D!DGet
  <2> QED BY <2>2, <2>5
<1> QED BY <1>1, <1>5, <1>6

(* hashmap_size. *)
LEMMA SizeStep ==
  ASSUME IInv, hashmap_size
  PROVE  IInv' /\ (CleanInv => CleanInv' /\ D!DSize)
<1> DEFINE s == table_size
<1>1. state = "ready" /\ ret' = count /\ UNCHANGED <<map, state, iter>>
  BY DEF hashmap_size, Call
<1>2. IterInv'
  BY <1>1 DEF IInv, IterInv, iter, map
<1>3. IInv' /\ (CleanInv => CleanInv')
  BY <1>1, <1>2, SameMap
<1>4. ASSUME CleanInv PROVE D!DSize
  <2>1. s \in Nat \ {0} /\ table \in [0..(s - 1) -> Bucket] /\ AllChains(table, s)
    BY <1>4 DEF IInv, TableInv, CleanInv
  <2>2. ASSUME NEW x \in Key PROVE x \in Members(table, s) <=> Contents[x] # None
    <3> DEFINE c == table[Home(x, s)]
    <3>1. Home(x, s) \in 0..(s - 1)
      BY <2>1, HomeType
    <3>2. c \in Bucket /\ Chain(Home(x, s), s, c)
      BY <2>1, <3>1 DEF AllChains
    <3>3. Contents[x] = Look(c, x)
      BY <1>1, ContentsIs DEF Lookup
    <3>4. x \in Members(table, s) <=> x \in Reach(c)
      BY DEF Members
    <3> HIDE DEF c
    <3>5. Reach(c) = KeysOf(c) /\ (Found(c, x) <=> x \in KeysOf(c))
      BY <3>2, ChainLive, FoundIs
    <3>6. Look(c, x) = None <=> ~Found(c, x)
      BY <3>2, ValueIs
    <3> QED BY <3>3, <3>4, <3>5, <3>6
  <2>3. Members(table, s) = D!Present
    BY <2>2 DEF Members, D!Present
  <2>4. count = Cardinality(Members(table, s))
    BY <1>1 DEF IInv, MapInv
  <2>5. Contents' = Contents
    BY <1>1, ContentsIs DEF map
  <2>6. D!Cardinality(D!Present) = count
    BY <2>3, <2>4 DEF D!Cardinality, Cardinality
  <2> QED BY <1>1, <2>5, <2>6 DEF D!DSize
<1> QED BY <1>3, <1>4

(* hashmap_clear. *)
LEMMA ClearStep ==
  ASSUME IInv, hashmap_clear
  PROVE  IInv'
<1> DEFINE s == table_size
           u == [i \in DOMAIN table |-> Cleared(table[i])]
           bad == \E i \in DOMAIN table : Dangling(table[i], Stop(table[i]))
<1>1. /\ state = "ready"
      /\ \/ bad /\ Crash
         \/ /\ ~bad /\ table' = u /\ count' = 0
            /\ UNCHANGED <<table_size, max_size, state, iter>>
  BY DEF hashmap_clear, Call, Cleared
<1>2. CASE bad /\ Crash
  BY <1>2, CrashStep
<1>3. CASE ~bad /\ table' = u /\ count' = 0 /\ UNCHANGED <<table_size, max_size, state, iter>>
  <2>1. TableInv /\ AllSound(table, s)
    BY <1>1 DEF IInv, MapInv
  <2>2. u \in [0..(s - 1) -> Bucket] /\ AllSound(u, s) /\ Members(u, s) = {}
    BY <1>3, <2>1, ClearTable
  <2> HIDE DEF u
  <2>3. TableInv'
    BY <1>3, <2>1, <2>2 DEF TableInv
  <2>4. IterInv'
    BY <1>3 DEF IInv, IterInv, iter
  <2>5. MapInv'
    BY <1>3, <2>2, FS_EmptySet DEF MapInv
  <2> QED BY <2>3, <2>4, <2>5 DEF IInv
<1> QED BY <1>1, <1>2, <1>3

(* Every bucket of a map that is never cleared can be walked to its end. *)
LEMMA CleanWalk ==
  ASSUME IInv, CleanInv
  PROVE  \A i \in DOMAIN table : ~Dangling(table[i], Stop(table[i]))
<1>1. ASSUME NEW i \in DOMAIN table PROVE ~Dangling(table[i], Stop(table[i]))
  <2>1. i \in 0..(table_size - 1) /\ table[i] \in Bucket
    BY DEF IInv, TableInv
  <2>2. Stop(table[i]) \in Nat
    BY <2>1, StopIs, BucketType
  <2> QED BY <2>1, <2>2, CleanLive
<1> QED BY <1>1

(* hashmap_destroy. *)
LEMMA DestroyStep ==
  ASSUME IInv, hashmap_destroy
  PROVE  IInv' /\ (CleanInv => CleanInv' /\ D!DClear)
<1> DEFINE bad == \E i \in DOMAIN table : Dangling(table[i], Stop(table[i]))
<1>1. /\ state = "ready"
      /\ \/ bad /\ Crash
         \/ ~bad /\ state' = "destroyed" /\ ret' = 0 /\ UNCHANGED <<map, iter>>
  BY DEF hashmap_destroy, Call
<1>2. CASE bad /\ Crash
  BY <1>2, CrashStep, CleanWalk
<1>3. CASE ~bad /\ state' = "destroyed" /\ ret' = 0 /\ UNCHANGED <<map, iter>>
  <2>1. IterInv'
    BY <1>3 DEF IInv, IterInv, iter, map
  <2>2. IInv' /\ (CleanInv => CleanInv')
    BY <1>1, <1>3, <2>1, SameMap
  <2>3. Contents' = [x \in Key |-> None]
    BY <1>3, ContentsIs
  <2> QED BY <1>3, <2>2, <2>3 DEF D!DClear
<1> QED BY <1>1, <1>2, <1>3

(* hashmap_iter is called. *)
LEMMA IterStep ==
  ASSUME IInv, hashmap_iter
  PROVE  IInv' /\ (CleanInv => CleanInv' /\ UNCHANGED <<Contents, ret>>)
<1>1. /\ state = "ready" /\ state' = "iter" /\ start' = Keys
      /\ cursor' = [i |-> 0, pos |-> 1] /\ seen' = <<>> /\ UNCHANGED map /\ ret' = ret
  BY DEF hashmap_iter, Call
<1>2. table_size \in Nat \ {0} /\ table_size' = table_size
  BY <1>1 DEF IInv, TableInv, map
<1>3. Keys \subseteq Key
  <2>1. \A i \in DOMAIN table : table[i] \in Bucket
    BY DEF IInv, TableInv
  <2> QED BY <2>1, KeysType DEF Keys
<1>4. IterInv'
  BY <1>1, <1>2, <1>3 DEF IterInv
<1> QED BY <1>1, <1>4, SameMap, SameContents

(* hashmap_iter comes to the end of a bucket. *)
LEMMA NextSlotStep ==
  ASSUME IInv, IterNextSlot
  PROVE  IInv' /\ (CleanInv => CleanInv' /\ UNCHANGED <<Contents, ret>>)
<1>1. /\ table_size \in Nat \ {0} /\ cursor.i \in 0..table_size /\ cursor.pos \in Nat \ {0}
      /\ state = "iter" /\ cursor.i < table_size
  BY DEF IInv, TableInv, IterInv, IterNextSlot
<1>2. CASE Dangling(table[cursor.i], cursor.pos) /\ Crash
  <2>1. ~CleanInv
    BY <1>1, <1>2, CleanLive
  <2> QED BY <1>2, <2>1, CrashStep
<1>3. CASE /\ cursor' = [i |-> cursor.i + 1, pos |-> 1]
           /\ UNCHANGED <<map, state, seen, start, ret>>
  <2>1. table_size' = table_size
    BY <1>3 DEF map
  <2>2. IterInv'
    BY <1>1, <1>3, <2>1 DEF IInv, IterInv
  <2> QED BY <1>1, <1>3, <2>2, SameMap, SameContents
<1> QED BY <1>2, <1>3 DEF IterNextSlot

(* hashmap_iter has come to the end of the table. *)
LEMMA EndStep ==
  ASSUME IInv, IterEnd
  PROVE  IInv' /\ (CleanInv => CleanInv' /\ UNCHANGED <<Contents, ret>>)
<1>1. /\ state = "iter" /\ state' = "ready" /\ seen' = <<>> /\ start' = {}
      /\ cursor' = [i |-> 0, pos |-> 1] /\ UNCHANGED map /\ ret' = ret
  BY DEF IterEnd, IterDone
<1>2. table_size \in Nat \ {0} /\ table_size' = table_size
  BY <1>1 DEF IInv, TableInv, map
<1>3. IterInv'
  BY <1>1, <1>2 DEF IterInv
<1> QED BY <1>1, <1>3, SameMap, SameContents

(* A step that changes nothing. *)
LEMMA Stutter ==
  ASSUME IInv, UNCHANGED vars
  PROVE  IInv' /\ (CleanInv => CleanInv' /\ UNCHANGED <<Contents, ret>>)
<1>1. UNCHANGED <<table, table_size, max_size, count>> /\ UNCHANGED <<cursor, seen, start>>
      /\ state' = state /\ ret' = ret
  BY DEF vars, map, iter
<1>2. IInv'
  BY <1>1 DEF IInv, TableInv, IterInv, MapInv
<1>3. CleanInv => CleanInv'
  BY <1>1 DEF CleanInv
<1>4. Contents' = Contents
  BY <1>1, ContentsIs
<1> QED BY <1>1, <1>2, <1>3, <1>4

-----------------------------------------------------------------------------
(* Every step keeps the map sound and counted. *)
LEMMA NextInv ==
  ASSUME IInv, [Next]_vars
  PROVE  IInv'
<1>1. ASSUME NEW k \in Key, NEW v \in Value, hashmap_put(k, v) PROVE IInv'
  BY <1>1, PutStep
<1>2. ASSUME NEW k \in Key, hashmap_get(k) PROVE IInv'
  BY <1>2, GetStep
<1>3. ASSUME NEW k \in Key, hashmap_delete(k) PROVE IInv'
  BY <1>3, DeleteStep
<1>4. CASE hashmap_size
  BY <1>4, SizeStep
<1>5. CASE hashmap_clear
  BY <1>5, ClearStep
<1>6. CASE hashmap_destroy
  BY <1>6, DestroyStep
<1>7. CASE hashmap_iter
  BY <1>7, IterStep
<1>8. CASE IterCallback
  BY <1>8, CallbackStep
<1>9. CASE IterDelete
  BY <1>9, IterDeleteStep
<1>10. CASE IterNextSlot
  BY <1>10, NextSlotStep
<1>11. CASE IterEnd
  BY <1>11, EndStep
<1>12. CASE Over \/ UNCHANGED vars
  BY <1>12, Stutter DEF Over
<1> QED BY <1>1, <1>2, <1>3, <1>4, <1>5, <1>6, <1>7, <1>8, <1>9, <1>10, <1>11, <1>12 DEF Next

(* The map is used as the header means it to be: hashmap_clear is not called *)
(* and the table has two slots or more.                                      *)
Usage == "clear" \notin Calls /\ InitialSize # 1 /\ DEFAULT_CAPACITY # 1

(* Every step of a map used so is a step of the dictionary, or none. *)
LEMMA NextClean ==
  ASSUME Usage, IInv, CleanInv, [Next]_vars
  PROVE  CleanInv' /\ [D!DNext]_(D!dvars)
<1>1. ASSUME NEW k \in Key, NEW v \in Value, hashmap_put(k, v)
      PROVE  CleanInv' /\ D!DNext
  BY <1>1, PutStep DEF D!DNext
<1>2. ASSUME NEW k \in Key, hashmap_get(k) PROVE CleanInv' /\ D!DNext
  BY <1>2, GetStep DEF D!DNext
<1>3. ASSUME NEW k \in Key, hashmap_delete(k) PROVE CleanInv' /\ D!DNext
  BY <1>3, DeleteStep DEF D!DNext
<1>4. CASE hashmap_size
  BY <1>4, SizeStep DEF D!DNext
<1>5. CASE hashmap_clear
  BY <1>5 DEF hashmap_clear, Call, Usage
<1>6. CASE hashmap_destroy
  BY <1>6, DestroyStep DEF D!DNext
<1>7. CASE hashmap_iter
  BY <1>7, IterStep DEF D!dvars
<1>8. CASE IterCallback
  BY <1>8, CallbackStep DEF D!dvars
<1>9. CASE IterDelete
  <2>1. current \in Key
    BY <1>9, CurrentIs DEF IterDelete
  <2>2. CleanInv' /\ D!DDelete(current)
    BY <1>9, IterDeleteStep
  <2> QED BY <2>1, <2>2 DEF D!DNext
<1>10. CASE IterNextSlot
  BY <1>10, NextSlotStep DEF D!dvars
<1>11. CASE IterEnd
  BY <1>11, EndStep DEF D!dvars
<1>12. CASE Over \/ UNCHANGED vars
  BY <1>12, Stutter DEF Over, D!dvars
<1> QED BY <1>1, <1>2, <1>3, <1>4, <1>5, <1>6, <1>7, <1>8, <1>9, <1>10, <1>11, <1>12 DEF Next

(* The map is sound and counted in every state. *)
LEMMA Invariance == Spec => []IInv
<1>1. Init => IInv
  BY InitInv
<1>2. IInv /\ [Next]_vars => IInv'
  BY NextInv
<1> QED BY <1>1, <1>2, PTL DEF Spec

(* The types of the table, its figures and the iteration, for every sequence *)
(* of calls, undefined behaviour included.                                   *)
THEOREM TypeCorrect == Spec => []TypeOK
<1>1. IInv => TypeOK
  <2>1. ASSUME IInv, NEW i \in 0..(table_size - 1), NEW p \in 1..Len(table[i])
        PROVE  table[i][p] \in Node
    <3>1. table[i] \in Bucket
      BY <2>1 DEF IInv, TableInv
    <3> QED BY <2>1, <3>1, BucketType
  <2> QED BY <2>1 DEF IInv, TableInv, IterInv, TypeOK, Node
<1> QED BY <1>1, Invariance, PTL

(* If no walk reads a freed node, the keys the walks find are the reachable *)
(* ones.                                                                     *)
LEMMA KeysAre ==
  ASSUME IInv, state # "crashed",
         \A i \in DOMAIN table : ~Dangling(table[i], Stop(table[i]))
  PROVE  Keys = Members(table, table_size)
<1> DEFINE s == table_size
<1>1. s \in Nat \ {0} /\ DOMAIN table = 0..(s - 1) /\ AllSound(table, s)
  BY DEF IInv, TableInv, MapInv
<1>2. ASSUME NEW i \in DOMAIN table
      PROVE  /\ Reach(table[i]) = KeysOf(table[i]) /\ KeysOf(table[i]) \subseteq Key
             /\ \A k \in KeysOf(table[i]) : Home(k, s) = i
  <2>1. Sound(i, s, table[i])
    BY <1>1 DEF AllSound
  <2>2. Reach(table[i]) = KeysOf(table[i])
    BY <2>1, WalkedIs
  <2> QED BY <2>1, <2>2, ReachType
<1>3. ASSUME NEW k \in Members(table, s) PROVE k \in Keys
  <2>1. k \in Key /\ k \in Reach(table[Home(k, s)])
    BY DEF Members
  <2>2. Home(k, s) \in DOMAIN table
    BY <1>1, <2>1, HomeType
  <2> QED BY <1>2, <2>1, <2>2 DEF Keys
<1>4. ASSUME NEW k \in Keys PROVE k \in Members(table, s)
  <2>1. PICK i \in DOMAIN table : k \in KeysOf(table[i])
    BY DEF Keys
  <2> QED BY <1>2, <2>1 DEF Members
<1> QED BY <1>3, <1>4

(* hashmap_size is the number of items a walk finds: through collisions,     *)
(* doublings, deletions during an iteration and hashmap_clear the count      *)
(* neither drifts from the entries nor counts one twice, as long as no walk  *)
(* comes to a node that hashmap_clear has freed and left linked.             *)
THEOREM CountIsExact == Spec => []CountsItems
<1>1. IInv => CountsItems
  <2>1. SUFFICES ASSUME IInv, state = "ready",
                        \A i \in DOMAIN table : ~Dangling(table[i], Stop(table[i]))
                 PROVE  count = Cardinality(Keys)
    BY DEF CountsItems
  <2>2. count = Cardinality(Members(table, table_size))
    BY <2>1 DEF IInv, MapInv
  <2>3. Keys = Members(table, table_size)
    BY <2>1, KeysAre
  <2> QED BY <2>2, <2>3
<1> QED BY <1>1, Invariance, PTL

(* No operation of a map that is not cleared and that starts with two slots  *)
(* or more reads a freed node or doubles its table for ever; in particular a *)
(* callback of hashmap_iter may delete the entry it is called with.          *)
THEOREM NeverReadsFreed ==
  ASSUME Usage
  PROVE  Spec => []NeverCrashes
<1>1. Init => IInv /\ CleanInv
  BY InitInv DEF Usage
<1>2. IInv /\ CleanInv /\ [Next]_vars => IInv' /\ CleanInv'
  BY NextInv, NextClean
<1>3. CleanInv => NeverCrashes
  BY DEF CleanInv, NeverCrashes
<1> QED BY <1>1, <1>2, <1>3, PTL DEF Spec

(* Such a map is a dictionary: through collisions, updates, doublings,       *)
(* deletions and iterations every hashmap_get, hashmap_put, hashmap_delete   *)
(* and hashmap_size returns what the header promises of the calls before it. *)
THEOREM ImplementsDictionary ==
  ASSUME Usage
  PROVE  Spec => IsDictionary
<1>1. Init => IInv /\ CleanInv
  BY InitInv DEF Usage
<1>2. IInv /\ CleanInv /\ [Next]_vars => IInv' /\ CleanInv' /\ [D!DNext]_(D!dvars)
  BY NextInv, NextClean
<1>3. Init => D!DInit
  <2>1. SUFFICES ASSUME Init PROVE Contents = [k \in Key |-> None] /\ ret = 0
    BY DEF D!DInit
  <2>2. state = "ready" /\ ret = 0
    BY <2>1 DEF Init
  <2>3. \A k \in Key : Lookup(table, table_size, k) = None
    BY <2>1, InitInv
  <2> QED BY <2>2, <2>3, ContentsIs
<1> QED BY <1>1, <1>2, <1>3, PTL DEF Spec, IsDictionary, D!DSpec
=============================================================================
