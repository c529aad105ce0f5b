-------------------------- MODULE IterationProofs --------------------------
(* What a call of hashmap_iter visits while its callback deletes entries,   *)
(* for every sequence of calls, hashmap_clear included.                     *)
EXTENDS HashMapProofs

(* The keys the callback was called with, each of them once. *)
SeenKeys(s) == {s[p] : p \in 1..Len(s)}
Single(s)   == \A p, q \in 1..Len(s) : s[p] = s[q] => p = q

(* The keys a cursor in a table of n slots has still to come to, of those    *)
(* that can be reached.                                                      *)
IsAhead(t, n, cur, k) ==
  LET h == Home(k, n)
      p == Where(t[h], k)
  IN /\ Found(t[h], k) /\ ~Dangling(t[h], p)
     /\ cur.i < h \/ (cur.i = h /\ cur.pos <= p)
Ahead(t, n, cur) == {k \in Key : IsAhead(t, n, cur, k)}

Walkable(t) == \A i \in DOMAIN t : ~Dangling(t[i], Stop(t[i]))

(* No key is visited that lies ahead; the buckets behind the cursor could be *)
(* walked to their end; and if all can be, no more keys are neither visited  *)
(* nor ahead than have been deleted.                                         *)
VisitInv ==
  state = "iter" =>
    /\ Single(seen)
    /\ SeenKeys(seen) \cap Ahead(table, table_size, cursor) = {}
    /\ \A i \in DOMAIN table : i < cursor.i => ~Dangling(table[i], Stop(table[i]))
    /\ Walkable(table) =>
         LET known  == SeenKeys(seen) \cup Ahead(table, table_size, cursor)
             member == Members(table, table_size)
         IN /\ IsFiniteSet(start) /\ member \subseteq start
            /\ Cardinality(start \ known) <= Cardinality(start \ member)

-----------------------------------------------------------------------------
(* The callback is called with one more key. *)
LEMMA SeenIs ==
  ASSUME NEW s \in Seq(Key), NEW k \in Key, Single(s), k \notin SeenKeys(s)
  PROVE  Single(Append(s, k)) /\ SeenKeys(Append(s, k)) = SeenKeys(s) \cup {k}
<1> DEFINE t == Append(s, k)
           n == Len(s)
<1>1. n \in Nat
  BY LenProperties
<1>2. Len(t) = n + 1 /\ (\A i \in 1..n : t[i] = s[i]) /\ t[n + 1] = k
  BY AppendProperties
<1> HIDE DEF t, n
<1>3. \A p \in 1..(n + 1) : p \in 1..n \/ p = n + 1
  BY <1>1
<1>4. n + 1 \in 1..(n + 1) /\ \A p \in 1..n : p \in 1..(n + 1) /\ p # n + 1
  BY <1>1
<1>5. \A p \in 1..n : s[p] # k
  BY DEF SeenKeys, n
<1>6. \A p, q \in 1..n : s[p] = s[q] => p = q
  BY DEF Single, n
<1>7. Single(t)
  BY <1>2, <1>3, <1>5, <1>6 DEF Single
<1>8. SeenKeys(t) = SeenKeys(s) \cup {k}
  <2>1. SeenKeys(t) = {t[p] : p \in 1..(n + 1)} /\ SeenKeys(s) = {s[p] : p \in 1..n}
    BY <1>2 DEF SeenKeys, n
  <2> QED BY <1>2, <1>3, <1>4, <2>1
<1> QED BY <1>7, <1>8 DEF t

(* As many keys as calls. *)
LEMMA SeenCount ==
  ASSUME NEW s \in Seq(Key), Single(s)
  PROVE  Cardinality(SeenKeys(s)) = Len(s)
<1> DEFINE I == 1..Len(s)
           T == SeenKeys(s)
<1>1. Len(s) \in Nat /\ s \in [I -> Key]
  BY LenProperties
<1>2. IsFiniteSet(I) /\ Cardinality(I) = Len(s)
  BY <1>1, FS_Interval
<1>3. T = {s[p] : p \in I}
  BY DEF SeenKeys
<1>4. \A p, q \in I : s[p] = s[q] => p = q
  BY DEF Single
<1> HIDE DEF I, T
<1>5. s \in [I -> T]
  BY <1>1, <1>3
<1>6. s \in Bijection(I, T)
  BY <1>3, <1>4, <1>5 DEF Bijection, Injection, Surjection, IsInjective
<1>7. ExistsBijection(I, T)
  BY <1>6 DEF ExistsBijection
<1> QED BY <1>2, <1>7, FS_Bijection DEF T

(* A deletion that skips w: if the keys of A other than k and w are in B, no *)
(* more keys are missed than are deleted.                                    *)
LEMMA MissedIs ==
  ASSUME NEW S, IsFiniteSet(S), NEW M \in SUBSET S, NEW k \in M,
         NEW V, NEW A, NEW B, NEW w,
         \A x \in A : x = k \/ x = w \/ x \in B,
         Cardinality(S \ (V \cup A)) <= Cardinality(S \ M)
  PROVE  Cardinality(S \ ((V \cup {k}) \cup B)) <= Cardinality(S \ (M \ {k}))
<1> DEFINE P == S \ (V \cup A)
           Q == S \ ((V \cup {k}) \cup B)
           R == S \ M
<1>1. P \in SUBSET S /\ R \in SUBSET S /\ Q \in SUBSET (P \cup {w})
  OBVIOUS
<1>2. S \ (M \ {k}) = R \cup {k} /\ k \notin R
  OBVIOUS
<1> HIDE DEF P, Q, R
<1>3. IsFiniteSet(P) /\ IsFiniteSet(R) /\ IsFiniteSet(P \cup {w})
  BY <1>1, FS_Subset, FS_AddElement
<1>4. Cardinality(P) \in Nat /\ Cardinality(R) \in Nat /\ Cardinality(P \cup {w}) \in Nat
  BY <1>3, FS_CardinalityType
<1>5. Cardinality(Q) <= Cardinality(P \cup {w}) /\ Cardinality(Q) \in Nat
  BY <1>1, <1>3, FS_Subset, FS_CardinalityType
<1>6. Cardinality(P \cup {w}) <= Cardinality(P) + 1
  <2>1. Cardinality(P \cup {w}) = IF w \in P THEN Cardinality(P) ELSE Cardinality(P) + 1
    BY <1>3, FS_AddElement
  <2> QED BY <1>4, <2>1
<1>7. Cardinality(R \cup {k}) = Cardinality(R) + 1
  BY <1>2, <1>3, FS_AddElement
<1>8. Cardinality(P) <= Cardinality(R)
  BY DEF P, R
<1>9. Cardinality(Q) <= Cardinality(R) + 1
  BY <1>4, <1>5, <1>6, <1>8
<1> QED BY <1>2, <1>7, <1>9 DEF Q

(* A walk that reads no freed node reads none on its way. *)
LEMMA DanglingMono ==
  ASSUME NEW c, NEW p \in Nat, NEW q \in Nat, p <= q, ~Dangling(c, q)
  PROVE  ~Dangling(c, p)
<1>1. \A r \in 2..p : r \in 2..q
  OBVIOUS
<1> QED BY <1>1 DEF Dangling

-----------------------------------------------------------------------------
(* The table during an iteration. *)
LEMMA IterTable ==
  ASSUME IInv, state \in {"ready", "iter"}
  PROVE  /\ table_size \in Nat \ {0} /\ DOMAIN table = 0..(table_size - 1)
         /\ table \in [0..(table_size - 1) -> Bucket] /\ AllSound(table, table_size)
         /\ cursor.i \in 0..table_size /\ cursor.pos \in Nat \ {0}
         /\ seen \in Seq(Key)
         /\ \A k \in Key :
              LET h == Home(k, table_size)
                  c == table[h]
              IN /\ h \in 0..(table_size - 1) /\ c \in Bucket /\ Stop(c) \in Nat \ {0}
                 /\ Where(c, k) \in Nat \ {0} /\ Where(c, k) <= Stop(c)
<1>1. /\ table_size \in Nat \ {0} /\ table \in [0..(table_size - 1) -> Bucket]
      /\ cursor.i \in 0..table_size /\ cursor.pos \in Nat \ {0} /\ seen \in Seq(Key)
  BY DEF IInv, TableInv, IterInv
<1>2. AllSound(table, table_size)
  BY DEF IInv, MapInv
<1>3. ASSUME NEW k \in Key
      PROVE  LET h == Home(k, table_size)
                 c == table[h]
             IN /\ h \in 0..(table_size - 1) /\ c \in Bucket /\ Stop(c) \in Nat \ {0}
                /\ Where(c, k) \in Nat \ {0} /\ Where(c, k) <= Stop(c)
  <2> DEFINE h == Home(k, table_size)
             c == table[h]
  <2>1. h \in 0..(table_size - 1)
    BY <1>1, HomeType
  <2>2. c \in Bucket
    BY <1>1, <2>1
  <2>3. Stop(c) \in Nat \ {0}
    BY <2>2, StopIs, BucketType
  <2>4. Where(c, k) \in 1..Stop(c)
    BY <2>2, WhereIs
  <2> QED BY <2>1, <2>2, <2>3, <2>4
<1> QED BY <1>1, <1>2, <1>3

-----------------------------------------------------------------------------
(* hashmap_iter begins with every key ahead. *)
LEMMA IterVisit ==
  ASSUME IInv, hashmap_iter
  PROVE  VisitInv'
<1> DEFINE n == table_size
           first == [i |-> 0, pos |-> 1]
           A == Ahead(table, n, first)
           M == Members(table, n)
<1>1. /\ state = "ready" /\ state' = "iter" /\ start' = Keys /\ cursor' = first
      /\ seen' = <<>> /\ table' = table /\ table_size' = n
  BY DEF hashmap_iter, Call, map
<1>2. Len(<<>>) = 0 /\ 1..0 = {}
  OBVIOUS
<1>3. Single(<<>>) /\ SeenKeys(<<>>) = {}
  BY <1>2 DEF Single, SeenKeys
<1>4. n \in Nat \ {0} /\ DOMAIN table = 0..(n - 1) /\ AllSound(table, n)
  BY <1>1, IterTable
<1>5. \A i \in DOMAIN table : ~(i < first.i)
  BY <1>4
<1>6. ASSUME Walkable(table)
      PROVE  /\ IsFiniteSet(Keys) /\ M \subseteq Keys
             /\ Cardinality(Keys \ ({} \cup A)) <= Cardinality(Keys \ M)
  <2>1. Keys = M
    BY <1>1, <1>6, KeysAre DEF Walkable
  <2>2. IsFiniteSet(M)
    BY <1>1 DEF IInv, MapInv
  <2>3. ASSUME NEW k \in M PROVE k \in A
    <3> DEFINE h == Home(k, n)
               c == table[h]
               p == Where(c, k)
    <3>1. k \in Key /\ k \in Reach(c)
      BY DEF Members
    <3>2. /\ h \in 0..(n - 1) /\ c \in Bucket /\ Stop(c) \in Nat \ {0}
          /\ p \in Nat \ {0} /\ p <= Stop(c)
      BY <1>1, <3>1, IterTable
    <3>3. Sound(h, n, c) /\ ~Dangling(c, Stop(c))
      BY <1>4, <1>6, <3>2 DEF AllSound, Walkable
    <3>4. ~Dangling(c, p)
      BY <3>2, <3>3, DanglingMono
    <3>5. Found(c, k)
      BY <3>1, <3>3, <3>4, ReachType
    <3>6. first.i < h \/ (first.i = h /\ first.pos <= p)
      BY <3>2
    <3> QED BY <3>1, <3>4, <3>5, <3>6 DEF Ahead, IsAhead
  <2> HIDE DEF A, M
  <2>4. Keys \ ({} \cup A) = {} /\ Keys \ M = {}
    BY <2>1, <2>3
  <2>5. Cardinality({}) <= Cardinality({})
    BY FS_EmptySet
  <2> QED BY <2>1, <2>2, <2>4, <2>5
<1> HIDE DEF first
<1> QED BY <1>1, <1>3, <1>5, <1>6 DEF VisitInv

(* The key the callback is called with is ahead, and no longer when the      *)
(* cursor goes on.                                                           *)
LEMMA CallbackAhead ==
  ASSUME IInv, AtEntry
  PROVE  LET next == [cursor EXCEPT !.pos = @ + 1]
         IN /\ current \in Ahead(table, table_size, cursor)
            /\ Ahead(table, table_size, next) = Ahead(table, table_size, cursor) \ {current}
<1> DEFINE n == table_size
           next == [cursor EXCEPT !.pos = @ + 1]
           k == current
           c == table[cursor.i]
<1>1. /\ cursor.i \in 0..(n - 1) /\ cursor.pos \in Nat \ {0} /\ k \in Key
      /\ Home(k, n) = cursor.i /\ Found(c, k) /\ Where(c, k) = cursor.pos
  BY CurrentIs
<1>2. state = "iter" /\ ~Dangling(c, cursor.pos)
  BY DEF AtEntry
<1>3. k \in Ahead(table, n, cursor)
  BY <1>1, <1>2 DEF Ahead, IsAhead
<1>4. next.i = cursor.i /\ next.pos = cursor.pos + 1
  BY DEF IInv, IterInv
<1> HIDE DEF next, k
<1>5. ASSUME NEW x \in Key
      PROVE  IsAhead(table, n, next, x) <=> (IsAhead(table, n, cursor, x) /\ x # k)
  <2> DEFINE h == Home(x, n)
             p == Where(table[h], x)
  <2>1. h \in 0..(n - 1) /\ table[h] \in Bucket /\ p \in Nat \ {0}
    BY <1>2, IterTable
  <2>2. CASE h # cursor.i
    BY <1>1, <1>4, <2>1, <2>2 DEF IsAhead
  <2>3. CASE h = cursor.i /\ x = k
    <3>1. p = cursor.pos /\ ~(next.pos <= p) /\ ~(next.i < h)
      BY <1>1, <1>4, <2>1, <2>3
    <3> QED BY <2>3, <3>1 DEF IsAhead
  <2>4. CASE h = cursor.i /\ x # k
    <3>1. Found(table[h], x) => p # cursor.pos
      <4>1. Found(table[h], x) => table[h][p].key = x
        BY <2>1, WhereIs
      <4>2. table[h][cursor.pos].key = k
        BY <2>4 DEF current, k
      <4> QED BY <2>4, <4>1, <4>2
    <3>2. p # cursor.pos => (next.pos <= p <=> cursor.pos <= p)
      BY <1>1, <1>4, <2>1
    <3> QED BY <1>4, <2>4, <3>1, <3>2 DEF IsAhead
  <2> QED BY <2>2, <2>3, <2>4
<1>6. Ahead(table, n, next) = Ahead(table, n, cursor) \ {k}
  BY <1>5 DEF Ahead
<1> QED BY <1>3, <1>6 DEF next, k

(* A callback that leaves the map alone. *)
LEMMA CallbackVisit ==
  ASSUME IInv, VisitInv, IterCallback
  PROVE  VisitInv'
<1> DEFINE n == table_size
           next == [cursor EXCEPT !.pos = @ + 1]
           k == current
           A == Ahead(table, n, cursor)
           B == Ahead(table, n, next)
           V == SeenKeys(seen)
           W == SeenKeys(seen')
<1>1. AtEntry /\ IterGoOn /\ table' = table /\ table_size' = n
  BY DEF IterCallback, map
<1>2. CASE IterDone
  BY <1>2 DEF IterDone, VisitInv
<1>3. CASE cursor' = next /\ seen' = Append(seen, k) /\ UNCHANGED <<state, start>>
  <2>1. state = "iter" /\ k \in A /\ B = A \ {k}
    BY <1>1, CallbackAhead DEF AtEntry
  <2>2. /\ Single(seen) /\ V \cap A = {}
        /\ \A i \in DOMAIN table : i < cursor.i => ~Dangling(table[i], Stop(table[i]))
        /\ Walkable(table) =>
             /\ IsFiniteSet(start) /\ Members(table, n) \subseteq start
             /\ Cardinality(start \ (V \cup A)) <= Cardinality(start \ Members(table, n))
    BY <2>1 DEF VisitInv
  <2>3. k \in Key /\ k \notin V /\ seen \in Seq(Key) /\ next.i = cursor.i
    <3>1. k \in Key
      BY <1>1, CurrentIs
    <3>2. seen \in Seq(Key) /\ next.i = cursor.i
      BY DEF IInv, IterInv
    <3>3. k \notin V
      BY <2>1, <2>2
    <3> QED BY <3>1, <3>2, <3>3
  <2> HIDE DEF k
  <2>4. Single(seen') /\ W = V \cup {k}
    BY <1>3, <2>2, <2>3, SeenIs
  <2> HIDE DEF V, W, A, B, next
  <2>5. W \cap B = {} /\ W \cup B = V \cup A
    BY <2>1, <2>2, <2>4
  <2> QED BY <1>1, <1>3, <2>2, <2>3, <2>4, <2>5 DEF VisitInv, W, B, V, A
<1> QED BY <1>1, <1>2, <1>3 DEF IterGoOn

(* The cursor comes to the next slot: nothing was left ahead in this one. *)
LEMMA NextSlotVisit ==
  ASSUME IInv, VisitInv, IterNextSlot
  PROVE  VisitInv'
<1> DEFINE n == table_size
           next == [i |-> cursor.i + 1, pos |-> 1]
           c == table[cursor.i]
<1>1. CASE Crash
  BY <1>1 DEF Crash, VisitInv
<1>2. CASE /\ ~Dangling(c, cursor.pos) /\ cursor.pos >= Stop(c) /\ cursor' = next
           /\ UNCHANGED <<map, state, seen, start, ret>>
  <2>1. /\ state = "iter" /\ cursor.i < n /\ table' = table /\ table_size' = n
        /\ seen' = seen /\ start' = start /\ state' = state
    BY <1>2 DEF IterNextSlot, map
  <2>2. /\ n \in Nat \ {0} /\ DOMAIN table = 0..(n - 1) /\ cursor.i \in 0..n
        /\ cursor.pos \in Nat \ {0} /\ table \in [0..(n - 1) -> Bucket]
    BY <2>1, IterTable
  <2>3. cursor.i \in 0..(n - 1)
    BY <2>1, <2>2
  <2>4. c \in Bucket /\ Stop(c) \in Nat \ {0}
    <3>1. c \in Bucket
      BY <2>2, <2>3
    <3> QED BY <3>1, StopIs, BucketType
  <2>5. ~Dangling(c, Stop(c))
    BY <1>2, <2>2, <2>4, DanglingMono
  <2>6. \A i \in DOMAIN table : i < next.i => ~Dangling(table[i], Stop(table[i]))
    <3>1. \A i \in 0..(n - 1) : i < next.i => i < cursor.i \/ i = cursor.i
      BY <2>2
    <3> QED BY <2>1, <2>2, <2>5, <3>1 DEF VisitInv
  <2>7. ASSUME NEW x \in Key
        PROVE  IsAhead(table, n, next, x) <=> IsAhead(table, n, cursor, x)
    <3> DEFINE h == Home(x, n)
               p == Where(table[h], x)
    <3>1. h \in 0..(n - 1) /\ p \in Nat \ {0} /\ Stop(table[h]) \in Nat
      BY <2>1, IterTable
    <3>2. h = cursor.i /\ Found(table[h], x) => ~(cursor.pos <= p)
      BY <1>2, <2>2, <2>4, <3>1 DEF Found
    <3>3. (next.i < h \/ (next.i = h /\ next.pos <= p)) <=> cursor.i < h
      BY <2>2, <3>1
    <3> HIDE DEF next
    <3> QED BY <3>2, <3>3 DEF IsAhead
  <2> HIDE DEF next
  <2>8. Ahead(table, n, next) = Ahead(table, n, cursor)
    BY <2>7 DEF Ahead
  <2> QED BY <1>2, <2>1, <2>6, <2>8 DEF VisitInv
<1> QED BY <1>1, <1>2 DEF IterNextSlot

(* Where the keys of a chain are found after one of them is deleted. *)
LEMMA RemoveWhere ==
  ASSUME NEW i, NEW n, NEW c \in Bucket, Chain(i, n, c), NEW p \in 1..(Stop(c) - 1), NEW x
  PROVE  LET d == Remove(c, p)
         IN /\ d \in Bucket /\ Chain(i, n, d)
            /\ Found(d, x) => /\ Found(c, x) /\ x # c[p].key
                              /\ Where(d, x) >= p => Where(c, x) = Where(d, x) + 1
            /\ Found(c, x) /\ Where(c, x) > p => Found(d, x) /\ Where(d, x) = Where(c, x) - 1
<1> DEFINE d == Remove(c, p)
           s == Stop(c)
<1>1. Stop(c) \in Nat \ {0} /\ p \in Nat \ {0}
  BY StopIs, BucketType
<1>2. /\ d \in Bucket /\ Chain(i, n, d) /\ KeysOf(d) = KeysOf(c) \ {c[p].key}
      /\ Stop(d) = s - 1
      /\ \A q \in 1..(s - 2) : d[q] = c[IF q < p THEN q ELSE q + 1]
  BY RemoveChain
<1> HIDE DEF d
<1>3. ASSUME Found(d, x)
      PROVE  /\ Found(c, x) /\ x # c[p].key
             /\ Where(d, x) >= p => Where(c, x) = Where(d, x) + 1
  <2> DEFINE q == Where(d, x)
  <2>1. Found(c, x) /\ x # c[p].key
    BY <1>2, <1>3, FoundIs
  <2>2. q \in 1..(s - 2) /\ d[q].key = x
    <3>1. q \in 1..Stop(d) /\ q < Stop(d) /\ d[q].key = x
      BY <1>2, <1>3, WhereIs DEF Found
    <3> QED BY <1>1, <1>2, <3>1
  <2>3. ASSUME q >= p PROVE Where(c, x) = q + 1
    <3>1. q + 1 \in 1..(s - 1) /\ ~(q < p)
      BY <1>1, <2>2, <2>3
    <3>2. c[q + 1].key = x
      BY <1>2, <2>2, <3>1
    <3> QED BY <3>1, <3>2, LookIs
  <2> QED BY <2>1, <2>3
<1>4. ASSUME Found(c, x), Where(c, x) > p
      PROVE  Found(d, x) /\ Where(d, x) = Where(c, x) - 1
  <2> DEFINE q == Where(c, x)
  <2>1. q \in 1..s /\ q < s /\ c[q].key = x
    BY <1>4, WhereIs DEF Found
  <2>2. q - 1 \in 1..(s - 2) /\ ~(q - 1 < p) /\ (q - 1) + 1 = q /\ q - 1 \in 1..(Stop(d) - 1)
    BY <1>1, <1>2, <1>4, <2>1
  <2>3. d[q - 1].key = x
    BY <1>2, <2>1, <2>2
  <2> QED BY <1>2, <2>2, <2>3, LookIs
<1> QED BY <1>2, <1>3, <1>4 DEF d

(* A callback that deletes its entry and goes on: it is no longer ahead, and *)
(* of the other keys only the one that has moved into its place may not be.  *)
LEMMA DeleteAhead ==
  ASSUME IInv, AtEntry, ~Dangling(table[cursor.i], cursor.pos + 1)
  PROVE  LET next == [cursor EXCEPT !.pos = @ + 1]
             u == Removed(table, table_size, current)
         IN /\ Ahead(u, table_size, next) \subseteq Ahead(table, table_size, cursor) \ {current}
            /\ \E w : \A x \in Ahead(table, table_size, cursor) :
                 x = current \/ x = w \/ x \in Ahead(u, table_size, next)
            /\ u \in [0..(table_size - 1) -> Bucket]
            /\ \A i \in 0..(table_size - 1) : i # cursor.i => u[i] = table[i]
            /\ ~Dangling(table[cursor.i], Stop(table[cursor.i]))
<1> DEFINE n == table_size
           k == current
           i0 == cursor.i
           p0 == cursor.pos
           c == table[i0]
           d == Remove(c, p0)
           next == [cursor EXCEPT !.pos = @ + 1]
           u == Removed(table, n, k)
           w == c[p0 + 1].key
<1>1. /\ i0 \in 0..(n - 1) /\ p0 \in Nat \ {0} /\ k \in Key
      /\ Home(k, n) = i0 /\ Found(c, k) /\ Where(c, k) = p0
  BY CurrentIs
<1>2. state = "iter" /\ k = c[p0].key /\ p0 < Stop(c)
  BY DEF AtEntry, current
<1>3. n \in Nat \ {0} /\ table \in [0..(n - 1) -> Bucket] /\ AllSound(table, n)
  BY <1>2, IterTable
<1>4. c \in Bucket /\ Sound(i0, n, c) /\ Stop(c) \in Nat \ {0}
  <2>1. c \in Bucket /\ Sound(i0, n, c)
    BY <1>1, <1>3 DEF AllSound
  <2> QED BY <2>1, StopIs, BucketType
<1>5. p0 \in 1..(Stop(c) - 1)
  BY <1>1, <1>2, <1>4
<1>6. Chain(i0, n, c)
  <2>1. p0 + 1 \in Nat /\ p0 + 1 >= 2
    BY <1>1
  <2>2. ~Dead(c)
    BY <1>4, <2>1, DanglingIs
  <2> QED BY <1>4, <2>2 DEF Sound, Stump
<1>7. /\ d \in Bucket /\ Chain(i0, n, d)
      /\ \A x : /\ Found(d, x) => /\ Found(c, x) /\ x # k
                                  /\ Where(d, x) >= p0 => Where(c, x) = Where(d, x) + 1
                /\ Found(c, x) /\ Where(c, x) > p0 => /\ Found(d, x)
                                                      /\ Where(d, x) = Where(c, x) - 1
  BY <1>2, <1>4, <1>5, <1>6, RemoveWhere
<1>8. u = [table EXCEPT ![i0] = d]
  BY <1>1 DEF Removed
<1>9. next.i = i0 /\ next.pos = p0 + 1
  BY DEF IInv, IterInv
<1> HIDE DEF d, u, next, k
<1>10. /\ u \in [0..(n - 1) -> Bucket] /\ u[i0] = d
       /\ \A i \in 0..(n - 1) : i # i0 => u[i] = table[i]
  BY <1>1, <1>3, <1>7, <1>8
<1>11. \A x \in Key : /\ Home(x, n) \in 0..(n - 1)
                      /\ Where(c, x) \in Nat \ {0} /\ Where(d, x) \in Nat \ {0}
  <2>1. ASSUME NEW x, NEW b \in Bucket PROVE Where(b, x) \in Nat \ {0}
    <3>1. Stop(b) \in Nat \ {0}
      BY StopIs, BucketType
    <3> QED BY <3>1, WhereIs
  <2> QED BY <1>3, <1>4, <1>7, <2>1, HomeType
<1>12. \A q \in Nat : ~Dangling(c, q) /\ ~Dangling(d, q)
  BY <1>4, <1>6, <1>7, ChainLive
<1>13. ASSUME NEW x \in Key, IsAhead(u, n, next, x) PROVE IsAhead(table, n, cursor, x) /\ x # k
  <2>1. CASE Home(x, n) # i0
    BY <1>1, <1>9, <1>10, <1>11, <1>13, <2>1 DEF IsAhead
  <2>2. CASE Home(x, n) = i0
    <3>1. Found(d, x) /\ p0 + 1 <= Where(d, x)
      BY <1>1, <1>9, <1>10, <1>13, <2>2 DEF IsAhead
    <3>2. Where(d, x) >= p0
      BY <1>1, <1>11, <3>1
    <3>3. Found(c, x) /\ x # k /\ Where(c, x) = Where(d, x) + 1
      BY <1>7, <3>1, <3>2
    <3>4. p0 <= Where(c, x) /\ ~Dangling(c, Where(c, x))
      BY <1>1, <1>11, <1>12, <3>2, <3>3
    <3> QED BY <2>2, <3>3, <3>4 DEF IsAhead
  <2> QED BY <2>1, <2>2
<1>14. ASSUME NEW x \in Key, IsAhead(table, n, cursor, x)
       PROVE  x = k \/ x = w \/ IsAhead(u, n, next, x)
  <2>1. CASE Home(x, n) # i0
    BY <1>1, <1>9, <1>10, <1>11, <1>14, <2>1 DEF IsAhead
  <2>2. CASE Home(x, n) = i0
    <3>1. Found(c, x) /\ p0 <= Where(c, x)
      BY <1>1, <1>14, <2>2 DEF IsAhead
    <3>2. c[Where(c, x)].key = x
      BY <1>4, <3>1, WhereIs
    <3>3. CASE Where(c, x) = p0
      BY <1>2, <3>2, <3>3 DEF k
    <3>4. CASE Where(c, x) = p0 + 1
      BY <3>2, <3>4
    <3>5. CASE Where(c, x) > p0 + 1
      <4>1. Where(c, x) > p0
        BY <1>1, <1>11, <3>5
      <4>2. Found(d, x) /\ Where(d, x) = Where(c, x) - 1
        BY <1>7, <3>1, <4>1
      <4>3. p0 + 1 <= Where(d, x) /\ ~Dangling(d, Where(d, x))
        BY <1>1, <1>11, <1>12, <3>5, <4>2
      <4> QED BY <1>9, <1>10, <2>2, <4>2, <4>3 DEF IsAhead
    <3>6. Where(c, x) = p0 \/ Where(c, x) = p0 + 1 \/ Where(c, x) > p0 + 1
      BY <1>1, <1>11, <3>1
    <3> QED BY <3>3, <3>4, <3>5, <3>6
  <2> QED BY <2>1, <2>2
<1>15. Ahead(u, n, next) \subseteq Ahead(table, n, cursor) \ {k}
  BY <1>13 DEF Ahead
<1>16. \E y : \A x \in Ahead(table, n, cursor) : x = k \/ x = y \/ x \in Ahead(u, n, next)
  <2>1. \A x \in Ahead(table, n, cursor) : x = k \/ x = w \/ x \in Ahead(u, n, next)
    BY <1>14 DEF Ahead
  <2> QED BY <2>1
<1> QED BY <1>4, <1>10, <1>12, <1>15, <1>16 DEF u, next, k

(* A callback that deletes the entry it is called with. *)
LEMMA DeleteVisit ==
  ASSUME IInv, VisitInv, IterDelete
  PROVE  VisitInv'
<1> DEFINE n == table_size
           next == [cursor EXCEPT !.pos = @ + 1]
           k == current
           c == table[cursor.i]
           u == Removed(table, n, k)
           A == Ahead(table, n, cursor)
           B == Ahead(u, n, next)
           V == SeenKeys(seen)
           W == SeenKeys(seen')
           M == Members(table, n)
<1>1. /\ AtEntry /\ k \in Key /\ Home(k, n) = cursor.i
      /\ Found(c, k) /\ Where(c, k) = cursor.pos
  BY CurrentIs DEF IterDelete
<1>2. /\ table' = u /\ table_size' = n
      /\ \/ state' = "crashed"
         \/ ~Dangling(c, cursor.pos + 1) /\ IterGoOn
  BY <1>1 DEF IterDelete, Index, Home, Removed
<1>3. CASE state' = "crashed" \/ IterDone
  BY <1>3 DEF IterDone, VisitInv
<1>4. CASE /\ ~Dangling(c, cursor.pos + 1)
           /\ cursor' = next /\ seen' = Append(seen, k) /\ UNCHANGED <<state, start>>
  <2>1. /\ n \in Nat \ {0} /\ DOMAIN table = 0..(n - 1) /\ AllSound(table, n)
        /\ table \in [0..(n - 1) -> Bucket] /\ seen \in Seq(Key) /\ state = "iter"
        /\ next.i = cursor.i
    BY <1>1, IterTable DEF AtEntry, IInv, IterInv
  <2>2. /\ B \subseteq A \ {k}
        /\ \E w : \A x \in A : x = k \/ x = w \/ x \in B
        /\ u \in [0..(n - 1) -> Bucket]
        /\ \A i \in 0..(n - 1) : i # cursor.i => u[i] = table[i]
        /\ ~Dangling(c, Stop(c))
    BY <1>1, <1>4, DeleteAhead
  <2>3. k \in A
    BY <1>1, CallbackAhead
  <2>4. /\ Single(seen) /\ V \cap A = {}
        /\ \A i \in DOMAIN table : i < cursor.i => ~Dangling(table[i], Stop(table[i]))
        /\ Walkable(table) =>
             /\ IsFiniteSet(start) /\ M \subseteq start
             /\ Cardinality(start \ (V \cup A)) <= Cardinality(start \ M)
    BY <2>1 DEF VisitInv
  <2>5. Members(u, n) = M \ {k} /\ k \in M
    <3>1. /\ Found(table[Home(k, n)], k)
          /\ ~Dangling(table[Home(k, n)], Where(table[Home(k, n)], k) + 1)
      BY <1>1, <1>4
    <3> HIDE DEF k
    <3> QED BY <1>1, <2>1, <3>1, RemoveTable
  <2>6. k \notin V
    BY <2>3, <2>4
  <2> HIDE DEF k
  <2>7. Single(seen') /\ W = V \cup {k}
    BY <1>1, <1>4, <2>1, <2>4, <2>6, SeenIs
  <2> HIDE DEF u, next, A, B, V, W, M
  <2>8. W \cap B = {}
    BY <2>2, <2>4, <2>7
  <2>9. DOMAIN u = DOMAIN table
    BY <2>1, <2>2
  <2>10. \A i \in DOMAIN u : i < next.i => ~Dangling(u[i], Stop(u[i]))
    <3>1. \A i \in 0..(n - 1) : i < next.i => i # cursor.i /\ i < cursor.i
      <4>1. cursor.i \in Nat
        BY <1>1, <2>1, HomeType
      <4> QED BY <2>1, <4>1
    <3> QED BY <2>1, <2>2, <2>4, <2>9, <3>1
  <2>11. ASSUME Walkable(u)
         PROVE  /\ IsFiniteSet(start) /\ Members(u, n) \subseteq start
                /\ Cardinality(start \ (W \cup B)) <= Cardinality(start \ Members(u, n))
    <3>1. Walkable(table)
      BY <2>1, <2>2, <2>9, <2>11 DEF Walkable
    <3>2. /\ IsFiniteSet(start) /\ M \in SUBSET start
          /\ Cardinality(start \ (V \cup A)) <= Cardinality(start \ M)
      BY <2>4, <3>1
    <3>3. PICK w : \A x \in A : x = k \/ x = w \/ x \in B
      BY <2>2
    <3>4. Cardinality(start \ ((V \cup {k}) \cup B)) <= Cardinality(start \ (M \ {k}))
      BY <2>5, <3>2, <3>3, MissedIs
    <3> QED BY <2>5, <2>7, <3>2, <3>4
  <2>12. /\ table' = u /\ table_size' = n /\ cursor' = next /\ start' = start
         /\ SeenKeys(seen') = W /\ Ahead(table', table_size', cursor') = B
    BY <1>2, <1>4 DEF W, B
  <2> QED BY <2>7, <2>8, <2>10, <2>11, <2>12 DEF VisitInv
<1> QED BY <1>2, <1>3, <1>4 DEF IterGoOn

-----------------------------------------------------------------------------
(* Every other step begins and ends outside an iteration, or ends one. *)
LEMMA NextVisit ==
  ASSUME IInv, VisitInv, [Next]_vars
  PROVE  VisitInv'
<1>1. CASE state' # "iter"
  BY <1>1 DEF VisitInv
<1>2. CASE hashmap_iter
  BY <1>2, IterVisit
<1>3. CASE IterCallback
  BY <1>3, CallbackVisit
<1>4. CASE IterDelete
  BY <1>4, DeleteVisit
<1>5. CASE IterNextSlot
  BY <1>5, NextSlotVisit
<1>6. CASE UNCHANGED vars
  BY <1>6 DEF VisitInv, vars, map, iter
<1>7. ASSUME NEW k \in Key, NEW v \in Value, hashmap_put(k, v) PROVE state' # "iter"
  BY <1>7 DEF hashmap_put, Call, Crash
<1>8. ASSUME NEW k \in Key, hashmap_get(k) \/ hashmap_delete(k) PROVE state' # "iter"
  BY <1>8 DEF hashmap_get, hashmap_delete, Call, Crash
<1>9. CASE hashmap_size \/ hashmap_clear \/ hashmap_destroy
  BY <1>1, <1>9 DEF hashmap_size, hashmap_clear, hashmap_destroy, Call, Crash
<1>10. CASE IterEnd
  BY <1>1, <1>10 DEF IterEnd, IterDone
<1>11. CASE Over
  BY <1>6, <1>11 DEF Over
<1> QED BY <1>1, <1>2, <1>3, <1>4, <1>5, <1>6, <1>7, <1>8, <1>9, <1>10, <1>11 DEF Next

(* hashmap_iter calls the callback at most once for a key, and when it has   *)
(* come to the end it has missed at most one key for each that the callback  *)
(* deleted, and none if nothing was deleted; for any keys and hash function  *)
(* and any deletions, and after hashmap_clear too.                           *)
THEOREM IterationIsExact == Spec => []IterationExact
<1>1. Init => IInv /\ VisitInv
  <2>1. Init => IInv
    BY InitInv
  <2>2. Init => VisitInv
    BY DEF Init, VisitInv
  <2> QED BY <2>1, <2>2
<1>2. IInv /\ VisitInv /\ [Next]_vars => IInv' /\ VisitInv'
  BY NextInv, NextVisit
<1>3. IInv /\ VisitInv => IterationExact
  <2>1. SUFFICES ASSUME IInv, VisitInv, state = "iter"
                 PROVE  /\ Cardinality(SeenKeys(seen)) = Len(seen)
                        /\ cursor.i = table_size =>
                             Cardinality(start \ SeenKeys(seen)) <= Cardinality(start \ Keys)
    BY DEF IterationExact, SeenKeys
  <2>2. Single(seen) /\ seen \in Seq(Key)
    BY <2>1, IterTable DEF VisitInv
  <2>3. Cardinality(SeenKeys(seen)) = Len(seen)
    BY <2>2, SeenCount
  <2>4. ASSUME cursor.i = table_size
        PROVE  Cardinality(start \ SeenKeys(seen)) <= Cardinality(start \ Keys)
    <3>1. table_size \in Nat \ {0} /\ DOMAIN table = 0..(table_size - 1)
      BY <2>1, IterTable
    <3>2. \A i \in DOMAIN table : i < cursor.i
      BY <2>4, <3>1
    <3>3. Walkable(table)
      BY <2>1, <3>2 DEF VisitInv, Walkable
    <3>4. Keys = Members(table, table_size)
      BY <2>1, <3>3, KeysAre DEF Walkable
    <3>5. Ahead(table, table_size, cursor) = {}
      <4>1. ASSUME NEW k \in Key PROVE ~IsAhead(table, table_size, cursor, k)
        <5>1. Home(k, table_size) \in 0..(table_size - 1)
          BY <3>1, HomeType
        <5>2. ~(cursor.i < Home(k, table_size)) /\ cursor.i # Home(k, table_size)
          BY <2>4, <3>1, <5>1
        <5> QED BY <5>2 DEF IsAhead
      <4> QED BY <4>1 DEF Ahead
    <3>6. SeenKeys(seen) \cup Ahead(table, table_size, cursor) = SeenKeys(seen)
      BY <3>5
    <3>7. Cardinality(start \ (SeenKeys(seen) \cup Ahead(table, table_size, cursor)))
            <= Cardinality(start \ Members(table, table_size))
      BY <2>1, <3>3 DEF VisitInv
    <3> QED BY <3>4, <3>6, <3>7
  <2> QED BY <2>3, <2>4
<1> QED BY <1>1, <1>2, <1>3, PTL DEF Spec
=============================================================================
