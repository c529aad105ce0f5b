--------------------------- MODULE TransferProofs ---------------------------
(* Theorems about the transfer of a file, for files of any size, blocks of  *)
(* any length and any number of other messages and battery notifications.   *)
EXTENDS Transfer, SequenceTheorems, TLAPS

Body == {Name, Junk} \cup [1..BUFFER_SIZE -> Nat]

(* The types of the buffer and of the copy, which TypeOK leaves out. *)
TypeInv == TypeOK /\ body \in Body /\ copy \in Seq(Body)

(* The number of blocks of the file.  The messages of the transfer are       *)
(* numbered: 0 is data_start, i the i-th block, N + 1 data_end.              *)
N       == Promise!Blocks(size)
Part(i) == IF i = 0 THEN "data_start" ELSE IF i <= N THEN "data" ELSE "data_end"
Load(i) == IF 1 <= i /\ i <= N THEN Promise!Block(size, i) ELSE Name

(* The stream holds m whole messages; g[p] is the number of messages of the  *)
(* transfer sent up to the p-th of them, g[0] of those received.             *)
StreamInv(m, g) ==
  /\ Len(stream) = 2 * m
  /\ \A p \in 1..m :
       /\ stream[2 * p - 1].kind = "type" /\ stream[2 * p].kind = "rest"
       /\ \/ stream[2 * p - 1].type = "other" /\ g[p] = g[p - 1]
          \/ /\ stream[2 * p - 1].type = Part(g[p - 1]) /\ stream[2 * p].body = Load(g[p - 1])
             /\ g[p] = g[p - 1] + 1
  /\ \A p \in 0..m : g[p] <= N + 2
  /\ sender = "start" => g[m] = 0 /\ bytes_read = 0
  /\ sender = "data" => g[m] \in 1..(N + 1) /\ bytes_read = (g[m] - 1) * BUFFER_SIZE

(* Of the r messages received the last may still be at hand in the buffer. *)
HandInv(r) ==
  /\ pc = "recv" => type \notin Tag
  /\ pc = "switch" /\ type \in Tag => r >= 1 /\ type = Part(r - 1) /\ body = Load(r - 1)
Handled(r) == IF pc = "switch" /\ type \in Tag THEN r - 1 ELSE r

(* What the copy is when h messages have been handled or overwritten. *)
CopyInv(h) ==
  /\ file # "stray"
  /\ file = "garbage" => copy = <<>> /\ (h = 0 \/ hits > 0)
  /\ file = "open" =>
       /\ h >= 1
       /\ IF h <= N + 1 THEN Len(copy) + hits >= h - 1 ELSE Len(copy) + hits >= N /\ hits > 0
       /\ hits = 0 => Len(copy) = h - 1 /\ \A i \in 1..Len(copy) : copy[i] = Promise!Block(size, i)
       /\ \A j \in 1..Len(copy) : \E k \in 1..(h - 1) : copy[j] = Promise!Block(size, k)
  /\ file = "closed" => h = N + 2 /\ N - Len(copy) <= hits

(* As long as recv returns whole messages. *)
WireInv ==
  short \/ \E m \in Nat : \E g \in [0..m -> Nat] :
             StreamInv(m, g) /\ HandInv(g[0]) /\ CopyInv(Handled(g[0]))

IInv == TypeInv /\ WireInv

-----------------------------------------------------------------------------
(* The number of blocks is the file's size divided and rounded up. *)
LEMMA BlocksType ==
  ASSUME NEW n \in Nat
  PROVE  /\ Promise!Blocks(n) \in Nat
         /\ n <= Promise!Blocks(n) * BUFFER_SIZE
         /\ Promise!Blocks(n) * BUFFER_SIZE < n + BUFFER_SIZE
<1> DEFINE b == BUFFER_SIZE
           a == n + b - 1
           q == a \div b
<1>1. b \in Nat /\ b > 0 /\ a \in Nat
  BY TransferAssumption
<1>2. Promise!Blocks(n) = q
  BY DEF Promise!Blocks
<1> HIDE DEF b
<1>3. q \in Nat /\ a = b * q + (a % b) /\ a % b \in 0..(b - 1)
  BY <1>1, Z3
<1>4. q * b = b * q /\ b * q \in Nat
  BY <1>1, <1>3
<1>5. n <= q * b /\ q * b < n + b
  BY <1>1, <1>3, <1>4
<1> QED BY <1>2, <1>3, <1>5 DEF b

(* A product of naturals does not shrink. *)
LEMMA TimesMonotonic ==
  ASSUME NEW i \in Nat, NEW j \in Nat, i <= j
  PROVE  /\ i * BUFFER_SIZE \in Nat /\ i * BUFFER_SIZE <= j * BUFFER_SIZE
         /\ (i + 1) * BUFFER_SIZE = i * BUFFER_SIZE + BUFFER_SIZE
<1> DEFINE b == BUFFER_SIZE
<1>1. b \in Nat
  BY TransferAssumption
<1> HIDE DEF b
<1>2. i * b \in Nat /\ (i + 1) * b = i * b + b
  BY <1>1
<1>3. PICK d \in Nat : j = i + d
  <2>1. j - i \in Nat /\ j = i + (j - i)
    OBVIOUS
  <2> QED BY <2>1
<1>4. d * b \in Nat /\ (i + d) * b = i * b + d * b
  BY <1>1
<1>5. i * b <= j * b
  BY <1>2, <1>3, <1>4
<1> QED BY <1>2, <1>5 DEF b

(* The loop of broadcast_sample runs once for each block. *)
LEMMA LoopRuns ==
  ASSUME NEW n \in Nat, NEW i \in Nat
  PROVE  i * BUFFER_SIZE < n <=> i < Promise!Blocks(n)
<1> DEFINE q == Promise!Blocks(n)
           x == i * BUFFER_SIZE
           y == q * BUFFER_SIZE
<1>0. BUFFER_SIZE \in Nat
  BY TransferAssumption
<1>1. q \in Nat /\ n <= y /\ y < n + BUFFER_SIZE
  BY BlocksType
<1>2. CASE q <= i
  <2>1. y <= x /\ x \in Nat /\ y \in Nat
    BY <1>1, <1>2, TimesMonotonic
  <2> HIDE DEF x, y, q
  <2> QED BY <1>1, <1>2, <2>1 DEF x, q
<1>3. CASE i < q
  <2>1. i + 1 <= q
    BY <1>1, <1>3
  <2>2. (i + 1) * BUFFER_SIZE <= y /\ (i + 1) * BUFFER_SIZE = x + BUFFER_SIZE /\ x \in Nat
    BY <1>1, <2>1, TimesMonotonic
  <2>3. y \in Nat
    BY <1>1, TimesMonotonic
  <2> HIDE DEF x, y, q
  <2>4. x < n
    BY <1>0, <1>1, <2>2, <2>3
  <2> QED BY <1>3, <2>4 DEF x, q
<1> QED BY <1>1, <1>2, <1>3

-----------------------------------------------------------------------------
(* What is sent has the types of the halves of a message. *)
LEMMA HalfType ==
  ASSUME NEW t \in Tag \cup {"other"}, NEW b \in Body
  PROVE  /\ [kind |-> "type", type |-> t] \in Half /\ [kind |-> "rest", body |-> b] \in Half
  BY DEF Half, Body

(* send appends the two halves of a message to the stream. *)
LEMMA SendEffect ==
  ASSUME stream \in Seq(Half), NEW t \in Tag \cup {"other"}, NEW b \in Body, Send(t, b)
  PROVE  /\ stream' \in Seq(Half) /\ Len(stream') = Len(stream) + 2
         /\ \A i \in 1..Len(stream) : stream'[i] = stream[i]
         /\ stream'[Len(stream) + 1] = [kind |-> "type", type |-> t]
         /\ stream'[Len(stream) + 2] = [kind |-> "rest", body |-> b]
<1> DEFINE x == [kind |-> "type", type |-> t]
           y == [kind |-> "rest", body |-> b]
<1>1. x \in Half /\ y \in Half
  BY HalfType
<1> HIDE DEF x, y
<1>2. <<x, y>> \in Seq(Half) /\ Len(<<x, y>>) = 2 /\ <<x, y>>[1] = x /\ <<x, y>>[2] = y
  BY <1>1
<1>3. stream' = stream \o <<x, y>>
  BY DEF Send, x, y
<1>4. Len(stream) \in Nat
  BY LenProperties
<1>5. /\ stream' \in Seq(Half) /\ Len(stream') = Len(stream) + 2
      /\ \A i \in 1..(Len(stream) + 2) : stream'[i] =
            IF i <= Len(stream) THEN stream[i] ELSE <<x, y>>[i - Len(stream)]
  BY <1>2, <1>3, ConcatProperties
<1>6. stream'[Len(stream) + 1] = x /\ stream'[Len(stream) + 2] = y
  BY <1>2, <1>4, <1>5
<1>7. \A i \in 1..Len(stream) : stream'[i] = stream[i]
  BY <1>4, <1>5
<1> QED BY <1>5, <1>6, <1>7 DEF x, y

(* recv takes the first n halves out of the stream. *)
LEMMA TakeEffect ==
  ASSUME stream \in Seq(Half), NEW n \in Nat, n <= Len(stream), Take(n)
  PROVE  /\ stream' \in Seq(Half) /\ Len(stream') = Len(stream) - n
         /\ \A i \in 1..(Len(stream) - n) : stream'[i] = stream[n + i]
<1>1. Len(stream) \in Nat /\ \A i \in 1..Len(stream) : stream[i] \in Half
  BY LenProperties, ElementOfSeq
<1>2. \A i \in (n + 1)..Len(stream) : stream[i] \in Half
  BY <1>1
<1>3. /\ stream' \in Seq(Half)
      /\ Len(stream') = IF n + 1 <= Len(stream) THEN Len(stream) - (n + 1) + 1 ELSE 0
      /\ \A i \in 1..(Len(stream) - (n + 1) + 1) : stream'[i] = stream[(n + 1) + i - 1]
  BY <1>1, <1>2, SubSeqProperties DEF Take
<1> QED BY <1>1, <1>3

(* What recv stores, wherever the message was cut. *)
LEMMA AsTypes ==
  ASSUME NEW h \in Half
  PROVE  AsType(h) \subseteq Tag \cup {"other"} /\ AsBody(h) \in Body
  BY DEF AsType, AsBody, Half, Body

(* A block of the file is a block. *)
LEMMA BlockType ==
  ASSUME TypeOK
  PROVE  ReadBlock \in Body /\ Name \in Body /\ Junk \in Body /\ size \in Nat /\ BUFFER_SIZE \in Nat
<1>1. BUFFER_SIZE \in Nat /\ size \in Nat /\ bytes_read \in Nat
  BY TransferAssumption DEF TypeOK
<1>2. ReadBlock \in [1..BUFFER_SIZE -> Nat]
  BY <1>1 DEF ReadBlock
<1> QED BY <1>1, <1>2 DEF Body

(* Types are preserved by the eNodeB. *)
LEMMA SenderType ==
  ASSUME TypeInv, \/ SendStart \/ SendBlock \/ SendEnd \/ SenderExits \/ OtherSend \/ Arrive
  PROVE  TypeInv'
<1> USE DEF TypeInv
<1>0. /\ ReadBlock \in Body /\ Name \in Body /\ Junk \in Body /\ size \in Nat /\ BUFFER_SIZE \in Nat
      /\ Len(stream) \in Nat /\ stream \in Seq(Half) /\ MaxOther \in Nat
      /\ {"data_start", "data", "data_end"} = Tag
  BY BlockType, LenProperties, TransferAssumption DEF TypeOK, Tag
<1>s. ASSUME NEW t \in Tag \cup {"other"}, NEW b \in Body, Send(t, b), arrived' = arrived
      PROVE  stream' \in Seq(Half) /\ arrived' \in 0..Len(stream')
  <2>1. stream' \in Seq(Half) /\ Len(stream') = Len(stream) + 2
    BY <1>0, <1>s, SendEffect
  <2> QED BY <1>0, <1>s, <2>1 DEF TypeOK
<1>1. CASE SendStart \/ SendEnd
  <2>1. stream' \in Seq(Half) /\ arrived' \in 0..Len(stream')
    BY <1>0, <1>1, <1>s DEF SendStart, SendEnd
  <2> QED BY <1>1, <2>1 DEF SendStart, SendEnd, TypeOK, buffer
<1>2. CASE SendBlock
  <2>1. stream' \in Seq(Half) /\ arrived' \in 0..Len(stream')
    BY <1>0, <1>2, <1>s DEF SendBlock
  <2>2. bytes_read' \in Nat /\ bytes_read' < size + BUFFER_SIZE
    BY <1>0, <1>2 DEF SendBlock, TypeOK
  <2> QED BY <1>2, <2>1, <2>2 DEF SendBlock, TypeOK, buffer
<1>3. CASE SenderExits
  BY <1>3 DEF SenderExits, TypeOK, buffer
<1>4. CASE OtherSend
  <2>1. stream' \in Seq(Half) /\ arrived' \in 0..Len(stream')
    BY <1>0, <1>4, <1>s DEF OtherSend
  <2>2. others' \in 0..MaxOther
    BY <1>0, <1>4 DEF OtherSend, TypeOK
  <2> QED BY <1>4, <2>1, <2>2 DEF OtherSend, TypeOK, buffer
<1>5. CASE Arrive
  <2>1. arrived' \in 0..Len(stream')
    BY <1>0, <1>5 DEF Arrive, TypeOK
  <2> QED BY <1>5, <2>1 DEF Arrive, TypeOK, buffer, enb
<1> QED BY <1>1, <1>2, <1>3, <1>4, <1>5

(* And by the UE. *)
LEMMA UeType ==
  ASSUME TypeInv, RecvMessage \/ Switch \/ EndOfIteration \/ SetNotification
  PROVE  TypeInv'
<1> USE DEF TypeInv
<1>0. Len(stream) \in Nat /\ stream \in Seq(Half) /\ arrived \in 0..Len(stream)
  BY LenProperties DEF TypeOK
<1>1. CASE RecvMessage
  <2>1. ASSUME NEW n \in {1, 2}, arrived >= n, Take(n)
        PROVE  stream' \in Seq(Half) /\ arrived' \in 0..Len(stream')
    BY <1>0, <2>1, TakeEffect DEF Take
  <2>2. arrived >= 1 => stream[1] \in Half
    BY <1>0, ElementOfSeq
  <2>3. arrived >= 2 => stream[2] \in Half
    BY <1>0, ElementOfSeq
  <2>4. /\ stream' \in Seq(Half) /\ arrived' \in 0..Len(stream')
    BY <1>0, <1>1, <2>1 DEF RecvMessage
  <2>5. type' \in Tag \cup {"other", "none"} /\ body' \in Body
    BY <1>0, <1>1, <2>2, <2>3, AsTypes DEF RecvMessage, TypeOK, buffer
  <2>6. short' \in BOOLEAN
    BY <1>1, Zenon DEF RecvMessage, TypeOK
  <2> QED BY <1>1, <2>4, <2>5, <2>6 DEF RecvMessage, TypeOK, enb
<1>2. CASE Switch
  <2>1. copy' \in Seq(Body)
    BY <1>2, AppendProperties DEF Switch, OpenFile, download_data, CloseFile
  <2>2. file' \in {"garbage", "open", "stray", "closed"} /\ pc' \in {"recv", "switch", "end", "killed"}
    BY <1>2 DEF Switch, OpenFile, download_data, CloseFile, TypeOK
  <2> QED BY <1>2, <2>1, <2>2 DEF Switch, TypeOK, enb, buffer
<1>3. CASE EndOfIteration
  BY <1>3 DEF EndOfIteration, TypeOK, enb
<1>4. CASE SetNotification
  <2>1. notes' \in 0..MaxNotes /\ hits' \in 0..notes'
    BY <1>4, TransferAssumption DEF SetNotification, TypeOK
  <2> QED BY <1>4, <2>1 DEF SetNotification, TypeOK, enb
<1> QED BY <1>1, <1>2, <1>3, <1>4

(* Every step preserves the types. *)
LEMMA TypeStep == ASSUME TypeInv, [Next]_vars PROVE TypeInv'
<1>1. CASE UNCHANGED vars
  BY <1>1 DEF TypeInv, TypeOK, vars, enb, buffer
<1> QED BY <1>1, SenderType, UeType DEF Next, Ended

-----------------------------------------------------------------------------
(* The file does not change while it is sent. *)
LEMMA SameFile ==
  ASSUME size' = size
  PROVE  /\ N' = N /\ \A i : Part(i)' = Part(i) /\ Load(i)' = Load(i)
         /\ \A i : Promise!Block(size', i) = Promise!Block(size, i)
<1>1. N' = N /\ \A i : Promise!Block(size', i) = Promise!Block(size, i)
  BY DEF N
<1> QED BY <1>1 DEF Part, Load

(* What is received, handled and copied stays so if these are left alone. *)
LEMMA HandSame ==
  ASSUME UNCHANGED <<size, pc, type, body>>, NEW r, HandInv(r)
  PROVE  HandInv(r)' /\ Handled(r)' = Handled(r)
  BY SameFile DEF HandInv, Handled

(* So does the copy. *)
LEMMA CopySame ==
  ASSUME UNCHANGED <<size, file, copy, hits>>, NEW h, CopyInv(h) PROVE CopyInv(h)'
<1>1. /\ N' = N /\ \A i : Promise!Block(size', i) = Promise!Block(size, i)
  BY SameFile
<1> QED BY <1>1 DEF CopyInv

(* The stream keeps its shape if it is left alone and the sender goes on as   *)
(* far as the stream says.                                                    *)
LEMMA StreamSame ==
  ASSUME UNCHANGED <<size, stream>>, NEW m, NEW g, StreamInv(m, g),
         (sender' = sender /\ bytes_read' = bytes_read) \/ sender' = "gone"
  PROVE  StreamInv(m, g)'
<1>1. N' = N /\ \A i : Part(i)' = Part(i) /\ Load(i)' = Load(i)
  BY SameFile
<1> QED BY <1>1 DEF StreamInv

(* A send adds a message of the transfer, with its number, or another one. *)
LEMMA StreamGrows ==
  ASSUME TypeOK, size' = size, NEW m \in Nat, NEW g \in [0..m -> Nat], StreamInv(m, g),
         NEW t \in Tag \cup {"other"}, NEW b \in Body, Send(t, b),
         NEW r \in Nat, r <= N + 2,
         \/ t = "other" /\ r = g[m]
         \/ t = Part(g[m]) /\ b = Load(g[m]) /\ r = g[m] + 1,
         sender' = "start" => r = 0 /\ bytes_read' = 0,
         sender' = "data" => r \in 1..(N + 1) /\ bytes_read' = (r - 1) * BUFFER_SIZE
  PROVE  \E k \in Nat : \E f \in [0..k -> Nat] : f[0] = g[0] /\ StreamInv(k, f)'
<1> DEFINE k == m + 1
           f == [p \in 0..k |-> IF p <= m THEN g[p] ELSE r]
<1>0. N' = N /\ \A i : Part(i)' = Part(i) /\ Load(i)' = Load(i)
  BY SameFile
<1>1. k \in Nat /\ f \in [0..k -> Nat] /\ f[0] = g[0] /\ f[k] = r
  OBVIOUS
<1>2. \A p \in 0..m : f[p] = g[p]
  OBVIOUS
<1>3. Len(stream) = 2 * m /\ stream \in Seq(Half)
  BY DEF TypeOK, StreamInv
<1>4. /\ Len(stream') = 2 * k
      /\ \A i \in 1..(2 * m) : stream'[i] = stream[i]
      /\ stream'[2 * k - 1] = [kind |-> "type", type |-> t]
      /\ stream'[2 * k] = [kind |-> "rest", body |-> b]
  <2> HIDE DEF f
  <2>1. /\ Len(stream') = Len(stream) + 2
        /\ \A i \in 1..Len(stream) : stream'[i] = stream[i]
        /\ stream'[Len(stream) + 1] = [kind |-> "type", type |-> t]
        /\ stream'[Len(stream) + 2] = [kind |-> "rest", body |-> b]
    BY <1>3, SendEffect
  <2>2. Len(stream) + 2 = 2 * k /\ Len(stream) + 1 = 2 * k - 1
    BY <1>3
  <2> QED BY <1>3, <2>1, <2>2
<1> HIDE DEF f
<1>5. ASSUME NEW p \in 1..k
      PROVE  /\ stream'[2 * p - 1].kind = "type" /\ stream'[2 * p].kind = "rest"
             /\ \/ stream'[2 * p - 1].type = "other" /\ f[p] = f[p - 1]
                \/ /\ stream'[2 * p - 1].type = Part(f[p - 1]) /\ stream'[2 * p].body = Load(f[p - 1])
                   /\ f[p] = f[p - 1] + 1
  <2>1. CASE p <= m
    <3>1. p \in 1..m /\ 2 * p - 1 \in 1..(2 * m) /\ 2 * p \in 1..(2 * m) /\ p - 1 \in 0..m
      BY <2>1
    <3>2. /\ stream'[2 * p - 1] = stream[2 * p - 1] /\ stream'[2 * p] = stream[2 * p]
          /\ f[p] = g[p] /\ f[p - 1] = g[p - 1]
      BY <1>2, <1>4, <3>1
    <3> QED BY <3>1, <3>2 DEF StreamInv
  <2>2. CASE p = k
    <3>1. f[p] = r /\ f[p - 1] = g[m]
      BY <1>1, <1>2, <2>2
    <3> QED BY <1>4, <2>2, <3>1
  <2> QED BY <2>1, <2>2
<1>6. ASSUME NEW p \in 0..k PROVE f[p] <= N + 2
  <2>1. CASE p <= m
    BY <1>2, <2>1 DEF StreamInv
  <2>2. CASE p = k
    BY <1>1, <2>2
  <2> QED BY <2>1, <2>2
<1>7. StreamInv(k, f)'
  BY <1>0, <1>1, <1>4, <1>5, <1>6 DEF StreamInv
<1> QED BY <1>1, <1>7

(* recv takes the first message away. *)
LEMMA StreamShrinks ==
  ASSUME TypeOK, UNCHANGED <<size, sender, bytes_read>>, Take(2), arrived >= 2,
         NEW m \in Nat, NEW g \in [0..m -> Nat], StreamInv(m, g)
  PROVE  /\ 1 \in 1..m
         /\ \E k \in Nat : \E f \in [0..k -> Nat] : f[0] = g[1] /\ StreamInv(k, f)'
<1> DEFINE k == m - 1
           f == [p \in 0..k |-> g[p + 1]]
<1>0. N' = N /\ \A i : Part(i)' = Part(i) /\ Load(i)' = Load(i)
  BY SameFile
<1>1. Len(stream) = 2 * m /\ stream \in Seq(Half) /\ arrived \in 0..(2 * m)
  BY DEF TypeOK, StreamInv
<1>2. m >= 1 /\ k \in Nat
  BY <1>1
<1>3. /\ Len(stream') = 2 * k
      /\ \A i \in 1..(2 * k) : stream'[i] = stream[2 + i]
  BY <1>1, <1>2, TakeEffect
<1>4. f \in [0..k -> Nat] /\ \A p \in 0..k : f[p] = g[p + 1]
  BY <1>2
<1> HIDE DEF f
<1>5. ASSUME NEW p \in 1..k
      PROVE  /\ stream'[2 * p - 1].kind = "type" /\ stream'[2 * p].kind = "rest"
             /\ \/ stream'[2 * p - 1].type = "other" /\ f[p] = f[p - 1]
                \/ /\ stream'[2 * p - 1].type = Part(f[p - 1]) /\ stream'[2 * p].body = Load(f[p - 1])
                   /\ f[p] = f[p - 1] + 1
  <2> DEFINE q == p + 1
  <2>1. /\ q \in 1..m /\ 2 * p - 1 \in 1..(2 * k) /\ 2 * p \in 1..(2 * k)
        /\ p \in 0..k /\ p - 1 \in 0..k /\ q - 1 = p
    BY <1>2
  <2>2. stream'[2 * p - 1] = stream[2 * q - 1] /\ stream'[2 * p] = stream[2 * q]
    <3>1. 2 + (2 * p - 1) = 2 * q - 1 /\ 2 + 2 * p = 2 * q
      OBVIOUS
    <3> QED BY <1>3, <2>1, <3>1
  <2>3. f[p] = g[q] /\ f[p - 1] = g[q - 1]
    BY <1>4, <2>1
  <2> HIDE DEF q
  <2> QED BY <2>1, <2>2, <2>3 DEF StreamInv
<1>6. ASSUME NEW p \in 0..k PROVE f[p] <= N + 2
  BY <1>2, <1>4 DEF StreamInv
<1>7. f[k] = g[m] /\ f[0] = g[1]
  BY <1>2, <1>4
<1>8. StreamInv(k, f)'
  BY <1>0, <1>3, <1>5, <1>6, <1>7 DEF StreamInv
<1> QED BY <1>2, <1>4, <1>7, <1>8

-----------------------------------------------------------------------------
(* Where the sender is in the file when it has sent g messages. *)
LEMMA SenderAt ==
  ASSUME TypeOK, NEW m \in Nat, NEW g \in [0..m -> Nat], StreamInv(m, g), sender = "data"
  PROVE  /\ N \in Nat /\ g[m] \in 1..(N + 1)
         /\ bytes_read < size => /\ g[m] <= N /\ ReadBlock = Load(g[m])
                                 /\ bytes_read + BUFFER_SIZE = g[m] * BUFFER_SIZE
         /\ bytes_read >= size => g[m] = N + 1
<1> DEFINE r == g[m]
           i == r - 1
<1>0. size \in Nat /\ bytes_read \in Nat /\ BUFFER_SIZE \in Nat
  BY TransferAssumption DEF TypeOK
<1>1. N \in Nat
  BY <1>0, BlocksType DEF N
<1>2. r \in 1..(N + 1) /\ bytes_read = i * BUFFER_SIZE
  BY DEF StreamInv
<1>3. i \in Nat /\ r = i + 1
  BY <1>1, <1>2
<1> HIDE DEF r
<1>4. bytes_read < size <=> i < N
  BY <1>0, <1>2, <1>3, LoopRuns DEF N
<1>5. bytes_read + BUFFER_SIZE = r * BUFFER_SIZE
  <2>1. (i + 1) * BUFFER_SIZE = i * BUFFER_SIZE + BUFFER_SIZE
    BY <1>3, TimesMonotonic
  <2> QED BY <1>2, <1>3, <2>1
<1>6. ReadBlock = Promise!Block(size, r)
  <2>1. \A k \in 1..BUFFER_SIZE : bytes_read + k = (r - 1) * BUFFER_SIZE + k
    BY <1>2
  <2> QED BY <2>1 DEF ReadBlock, Promise!Block
<1>7. bytes_read < size => r <= N /\ ReadBlock = Load(r)
  BY <1>1, <1>2, <1>3, <1>4, <1>6 DEF Load
<1>8. bytes_read >= size => r = N + 1
  BY <1>0, <1>1, <1>2, <1>3, <1>4
<1> QED BY <1>1, <1>2, <1>5, <1>7, <1>8 DEF r

(* The invariant of the stream is preserved by the eNodeB. *)
LEMMA SenderWire ==
  ASSUME IInv, \/ SendStart \/ SendBlock \/ SendEnd \/ SenderExits \/ OtherSend \/ Arrive
  PROVE  WireInv'
<1> USE DEF IInv, TypeInv
<1>0. /\ UNCHANGED <<size, pc, type, body, file, copy, hits, short>>
  BY DEF SendStart, SendBlock, SendEnd, SenderExits, OtherSend, Arrive, buffer, enb
<1>1. CASE short
  BY <1>0, <1>1 DEF WireInv
<1>2. CASE ~short
  <2>1. PICK m \in Nat : \E g \in [0..m -> Nat] :
               StreamInv(m, g) /\ HandInv(g[0]) /\ CopyInv(Handled(g[0]))
    BY <1>2 DEF WireInv
  <2>2. PICK g \in [0..m -> Nat] : StreamInv(m, g) /\ HandInv(g[0]) /\ CopyInv(Handled(g[0]))
    BY <2>1
  <2>3. HandInv(g[0])' /\ Handled(g[0])' = Handled(g[0])
    BY <1>0, <2>2, HandSame
  <2>4. CopyInv(Handled(g[0]))'
    <3>1. \A h : h = Handled(g[0]) => CopyInv(h)'
      BY <1>0, <2>2, CopySame
    <3> QED BY <2>3, <3>1 DEF CopyInv
  <2>5. SUFFICES \E k \in Nat : \E f \in [0..k -> Nat] : f[0] = g[0] /\ StreamInv(k, f)'
    BY <2>3, <2>4 DEF WireInv
  <2>6. CASE SenderExits \/ Arrive
    BY <1>0, <2>2, <2>6, StreamSame DEF SenderExits, Arrive, enb
  <2>7. /\ ReadBlock \in Body /\ Name \in Body /\ Junk \in Body /\ size \in Nat
        /\ {"data_start", "data", "data_end"} = Tag /\ g[m] \in Nat
        /\ N \in Nat /\ g[m] <= N + 2
    <3>1. /\ ReadBlock \in Body /\ Name \in Body /\ Junk \in Body /\ size \in Nat
          /\ {"data_start", "data", "data_end"} = Tag
      BY BlockType DEF Tag
    <3>2. N \in Nat
      BY <3>1, BlocksType DEF N
    <3>3. m \in 0..m /\ g[m] \in Nat
      OBVIOUS
    <3>4. g[m] <= N + 2
      BY <2>2, <3>3 DEF StreamInv
    <3> QED BY <3>1, <3>2, <3>3, <3>4
  <2>8. CASE SendStart
    <3>1. g[m] = 0 /\ bytes_read = 0
      BY <2>2, <2>8 DEF SendStart, StreamInv
    <3>2. Part(0) = "data_start" /\ Load(0) = Name
      BY <2>7 DEF Part, Load
    <3>3. /\ Send("data_start", Name) /\ sender' = "data"
          /\ 1 \in 1..(N + 1) /\ 1 <= N + 2 /\ bytes_read' = (1 - 1) * BUFFER_SIZE
      BY <2>7, <2>8, <3>1, TransferAssumption DEF SendStart
    <3>4. "data_start" = Part(g[m]) /\ Name = Load(g[m]) /\ 1 = g[m] + 1 /\ 1 \in Nat
      BY <3>1, <3>2
    <3> QED BY <1>0, <2>2, <2>7, <3>3, <3>4, StreamGrows
  <2>9. CASE SendBlock
    <3>1. sender = "data" /\ bytes_read < size
      BY <2>9 DEF SendBlock
    <3>2. /\ g[m] \in 1..N /\ ReadBlock = Load(g[m])
          /\ bytes_read + BUFFER_SIZE = g[m] * BUFFER_SIZE
      BY <2>2, <2>7, <3>1, SenderAt
    <3>3. Part(g[m]) = "data"
      BY <2>7, <3>2 DEF Part
    <3> DEFINE r == g[m] + 1
    <3>4. r \in Nat /\ r - 1 = g[m] /\ r \in 1..(N + 1) /\ r <= N + 2
      BY <2>7, <3>2
    <3>5. /\ Send("data", ReadBlock) /\ bytes_read' = (r - 1) * BUFFER_SIZE /\ sender' = "data"
      BY <2>9, <3>1, <3>2, <3>4 DEF SendBlock
    <3> QED BY <1>0, <2>2, <2>7, <3>2, <3>3, <3>4, <3>5, StreamGrows
  <2>10. CASE SendEnd
    <3>1. sender = "data" /\ bytes_read >= size
      BY <2>10 DEF SendEnd
    <3>2. g[m] = N + 1
      BY <2>2, <3>1, SenderAt
    <3>3. Part(g[m]) = "data_end" /\ Load(g[m]) = Name /\ N + 1 + 1 = N + 2
      BY <2>7, <3>2 DEF Part, Load
    <3>4. Send("data_end", Name) /\ sender' = "done" /\ g[m] + 1 \in Nat /\ g[m] + 1 <= N + 2
      BY <2>7, <2>10, <3>2 DEF SendEnd
    <3> QED BY <1>0, <2>2, <2>7, <3>3, <3>4, StreamGrows
  <2>11. CASE OtherSend
    <3>1. Send("other", Junk) /\ sender' = sender /\ bytes_read' = bytes_read
      BY <2>11 DEF OtherSend
    <3>2. /\ sender = "start" => g[m] = 0 /\ bytes_read = 0
          /\ sender = "data" => g[m] \in 1..(N + 1) /\ bytes_read = (g[m] - 1) * BUFFER_SIZE
      BY <2>2 DEF StreamInv
    <3> QED BY <1>0, <2>2, <2>7, <3>1, <3>2, StreamGrows
  <2> QED BY <2>6, <2>8, <2>9, <2>10, <2>11
<1> QED BY <1>1, <1>2

-----------------------------------------------------------------------------
(* The numbers the copy is described by. *)
LEMMA CopyNumbers == ASSUME TypeInv PROVE hits \in Nat /\ Len(copy) \in Nat /\ N \in Nat
<1>1. N \in Nat
  BY BlockType, BlocksType DEF TypeInv, N
<1>2. Len(copy) \in Nat
  BY LenProperties DEF TypeInv
<1>3. hits \in Nat
  BY TransferAssumption DEF TypeInv, TypeOK
<1> QED BY <1>1, <1>2, <1>3

(* The copy when a message of the transfer is overwritten: it counts as one   *)
(* more that is lost.                                                         *)
LEMMA CopyMisses ==
  ASSUME TypeInv, UNCHANGED <<size, file, copy>>, hits' = hits + 1,
         NEW h \in Nat, h <= N + 1, CopyInv(h)
  PROVE  CopyInv(h + 1)'
<1>0. N' = N /\ \A i : Promise!Block(size', i) = Promise!Block(size, i)
  BY SameFile
<1>1. hits \in Nat /\ Len(copy) \in Nat /\ N \in Nat
  BY CopyNumbers
<1>2. file # "closed"
  BY <1>1 DEF CopyInv
<1>3. CASE file = "garbage"
  BY <1>1, <1>3 DEF CopyInv
<1>4. CASE file = "open"
  <2>1. Len(copy) + hits >= h - 1
    BY <1>4 DEF CopyInv
  <2>2. h >= 1
    BY <1>4 DEF CopyInv
  <2>3. \A j \in 1..Len(copy) : \E k \in 1..((h + 1) - 1) : copy[j] = Promise!Block(size, k)
    <3>1. 1..(h - 1) \subseteq 1..((h + 1) - 1)
      OBVIOUS
    <3>2. \A j \in 1..Len(copy) : \E k \in 1..(h - 1) : copy[j] = Promise!Block(size, k)
      BY <1>4 DEF CopyInv
    <3> QED BY <3>1, <3>2
  <2>4. IF h + 1 <= N + 1 THEN Len(copy) + (hits + 1) >= (h + 1) - 1
                          ELSE Len(copy) + (hits + 1) >= N /\ hits + 1 > 0
    BY <1>1, <2>1
  <2>5. hits + 1 # 0 /\ h + 1 >= 1
    BY <1>1
  <2> QED BY <1>0, <1>4, <2>3, <2>4, <2>5 DEF CopyInv
<1> QED BY <1>2, <1>3, <1>4 DEF TypeInv, TypeOK, CopyInv

(* The message at hand when main() is at its switch. *)
LEMMA AtHand ==
  ASSUME TypeInv, pc = "switch", NEW r \in Nat, r <= N + 2, HandInv(r), CopyInv(Handled(r))
  PROVE  /\ N \in Nat
         /\ type \in Tag =>
              /\ r >= 1 /\ r - 1 \in Nat /\ CopyInv(r - 1)
              /\ type = "data_start" => r = 1 /\ body = Name /\ file = "garbage" /\ copy = <<>>
              /\ type = "data" => r - 1 \in 1..N /\ body = Promise!Block(size, r - 1)
              /\ type = "data_end" => r = N + 2
         /\ type \notin Tag => CopyInv(r)
<1>1. N \in Nat
  BY BlockType, BlocksType DEF TypeInv, N
<1>2. CASE type \notin Tag
  BY <1>1, <1>2 DEF Handled
<1>3. CASE type \in Tag
  <2>1. r >= 1 /\ type = Part(r - 1) /\ body = Load(r - 1)
    BY <1>3 DEF HandInv
  <2>2. CopyInv(r - 1)
    BY <1>3 DEF Handled
  <2>3. r - 1 \in Nat
    BY <2>1
  <2>4. ASSUME type = "data_start" PROVE r = 1 /\ body = Name /\ file = "garbage" /\ copy = <<>>
    <3>1. r - 1 = 0
      BY <2>1, <2>4 DEF Part
    <3>2. body = Name
      BY <2>1, <3>1 DEF Load
    <3>3. file = "garbage"
      BY <1>1, <2>2, <3>1 DEF CopyInv, TypeInv, TypeOK
    <3> QED BY <2>2, <3>1, <3>2, <3>3 DEF CopyInv
  <2>5. ASSUME type = "data" PROVE r - 1 \in 1..N /\ body = Promise!Block(size, r - 1)
    <3>1. r - 1 \in 1..N
      BY <1>1, <2>1, <2>3, <2>5 DEF Part
    <3> QED BY <2>1, <3>1 DEF Load
  <2>6. ASSUME type = "data_end" PROVE r = N + 2
    <3>1. r - 1 > N
      BY <1>1, <2>1, <2>3, <2>6 DEF Part
    <3> QED BY <1>1, <3>1
  <2> QED BY <1>1, <1>3, <2>1, <2>2, <2>3, <2>4, <2>5, <2>6
<1> QED BY <1>2, <1>3

(* Appending a block to the copy. *)
LEMMA CopyGrows ==
  ASSUME TypeInv, UNCHANGED <<size, file, hits>>, file = "open", NEW h \in 1..N, CopyInv(h),
         body = Promise!Block(size, h), copy' = Append(copy, body)
  PROVE  CopyInv(h + 1)'
<1>0. N' = N /\ \A i : Promise!Block(size', i) = Promise!Block(size, i)
  BY SameFile
<1>1. hits \in Nat /\ Len(copy) \in Nat /\ N \in Nat
  BY CopyNumbers
<1>2. /\ Len(copy') = Len(copy) + 1 /\ copy'[Len(copy) + 1] = body
      /\ \A j \in 1..Len(copy) : copy'[j] = copy[j]
  BY AppendProperties DEF TypeInv
<1>3. Len(copy) + hits >= h - 1
  BY <1>1 DEF CopyInv
<1>4. h + 1 <= N + 1 /\ Len(copy') + hits >= (h + 1) - 1 /\ h + 1 >= 1
  BY <1>1, <1>2, <1>3
<1>5. ASSUME hits = 0, NEW i \in 1..Len(copy')
      PROVE  Len(copy') = (h + 1) - 1 /\ copy'[i] = Promise!Block(size, i)
  <2>1. Len(copy) = h - 1 /\ \A j \in 1..Len(copy) : copy[j] = Promise!Block(size, j)
    BY <1>5 DEF CopyInv
  <2>2. CASE i \in 1..Len(copy)
    BY <1>1, <1>2, <2>1, <2>2
  <2>3. CASE i = Len(copy) + 1
    <3>1. i = h /\ Len(copy') = (h + 1) - 1
      BY <1>1, <1>2, <2>1, <2>3
    <3> QED BY <1>2, <2>3, <3>1
  <2> QED BY <1>1, <1>2, <2>2, <2>3
<1>6. ASSUME NEW j \in 1..Len(copy')
      PROVE  \E k \in 1..((h + 1) - 1) : copy'[j] = Promise!Block(size, k)
  <2>1. CASE j \in 1..Len(copy)
    <3>1. PICK k \in 1..(h - 1) : copy[j] = Promise!Block(size, k)
      BY <2>1 DEF CopyInv
    <3>2. k \in 1..((h + 1) - 1)
      BY <1>1
    <3> QED BY <1>2, <2>1, <3>1, <3>2
  <2>2. CASE j = Len(copy) + 1
    <3>1. h \in 1..((h + 1) - 1)
      BY <1>1
    <3> QED BY <1>2, <2>2, <3>1
  <2> QED BY <1>1, <1>2, <2>1, <2>2
<1>7. 1 \in 1..Len(copy')
  BY <1>1, <1>2
<1>8. hits = 0 => Len(copy') = (h + 1) - 1
  BY <1>5, <1>7
<1> QED BY <1>0, <1>4, <1>5, <1>6, <1>8 DEF CopyInv

(* The step of main() at its switch: the message at hand is handled. *)
LEMMA SwitchCopy ==
  ASSUME TypeInv, Switch, NEW r \in Nat, r <= N + 2, HandInv(r), CopyInv(Handled(r))
  PROVE  CopyInv(r)'
<1>0. /\ pc = "switch" /\ UNCHANGED <<size, hits>>
  BY DEF Switch, enb
<1>1. /\ N \in Nat
      /\ type \in Tag =>
           /\ r >= 1 /\ r - 1 \in Nat /\ CopyInv(r - 1)
           /\ type = "data_start" => r = 1 /\ body = Name /\ file = "garbage" /\ copy = <<>>
           /\ type = "data" => r - 1 \in 1..N /\ body = Promise!Block(size, r - 1)
           /\ type = "data_end" => r = N + 2
      /\ type \notin Tag => CopyInv(r)
  BY <1>0, AtHand
<1>2. N' = N /\ \A i : Promise!Block(size', i) = Promise!Block(size, i)
  BY <1>0, SameFile
<1>3. hits \in Nat /\ Len(copy) \in Nat
  BY CopyNumbers
<1>4. CASE OpenFile
  <2>1. /\ r = 1 /\ file' = "open" /\ copy' = <<>>
    BY <1>1, <1>4 DEF OpenFile, Tag
  <2>2. Len(copy') = 0 /\ 1..Len(copy') = {}
    BY <2>1
  <2> QED BY <1>0, <1>1, <1>2, <1>3, <2>1, <2>2 DEF CopyInv
<1>5. CASE download_data
  <2>1. /\ r - 1 \in 1..N /\ body = Promise!Block(size, r - 1) /\ CopyInv(r - 1)
        /\ (r - 1) + 1 = r
    BY <1>1, <1>5 DEF download_data, Tag
  <2>2. file = "open" /\ copy' = Append(copy, body) /\ file' = file
    BY <1>5, <2>1 DEF download_data, CopyInv
  <2> QED BY <1>0, <2>1, <2>2, CopyGrows
<1>6. CASE CloseFile
  <2>1. r = N + 2 /\ CopyInv(r - 1) /\ r - 1 = N + 1
    BY <1>1, <1>6 DEF CloseFile, Tag
  <2>2. file = "open" /\ file' = "closed" /\ copy' = copy
    BY <1>6, <2>1 DEF CloseFile, CopyInv
  <2>3. Len(copy) + hits >= N
    BY <1>1, <1>3, <2>1, <2>2 DEF CopyInv
  <2>4. N - Len(copy) <= hits
    BY <1>1, <1>3, <2>3
  <2> QED BY <1>0, <1>2, <2>1, <2>2, <2>4 DEF CopyInv
<1>7. CASE /\ type \in {"data", "data_end"} /\ file \in {"garbage", "closed"} /\ UNCHANGED <<file, copy>>
  <2>1. CopyInv(r - 1) /\ r - 1 \in Nat /\ r - 1 # 0 /\ r - 1 # N + 2
    BY <1>1, <1>7 DEF Tag
  <2>2. file = "garbage" /\ copy = <<>> /\ hits > 0
    BY <1>7, <2>1 DEF CopyInv
  <2> QED BY <1>0, <1>7, <2>2 DEF CopyInv
<1>8. CASE type \in {"other", "none"} /\ UNCHANGED <<file, copy>>
  <2>1. CopyInv(r)
    BY <1>1, <1>8 DEF Tag
  <2> QED BY <1>0, <1>8, <2>1, CopySame
<1> QED BY <1>4, <1>5, <1>6, <1>7, <1>8 DEF Switch

(* The invariant of the stream is preserved by the UE. *)
LEMMA UeWire ==
  ASSUME IInv, RecvMessage \/ Switch \/ EndOfIteration \/ SetNotification
  PROVE  WireInv'
<1> USE DEF IInv
<1>0. UNCHANGED <<size, sender, bytes_read>>
  BY DEF RecvMessage, Switch, EndOfIteration, SetNotification, enb
<1>1. CASE short'
  BY <1>1 DEF WireInv
<1>2. CASE ~short'
  <2>0. ~short
    BY <1>2 DEF RecvMessage, Switch, EndOfIteration, SetNotification
  <2>1. PICK m \in Nat : \E g \in [0..m -> Nat] :
               StreamInv(m, g) /\ HandInv(g[0]) /\ CopyInv(Handled(g[0]))
    BY <2>0 DEF WireInv
  <2>2. PICK g \in [0..m -> Nat] : StreamInv(m, g) /\ HandInv(g[0]) /\ CopyInv(Handled(g[0]))
    BY <2>1
  <2>3. g[0] \in Nat /\ 0 \in 0..m
    OBVIOUS
  <2>4. N \in Nat /\ g[0] <= N + 2
    BY <2>2, <2>3, CopyNumbers DEF StreamInv
  <2>5. ASSUME UNCHANGED stream, HandInv(g[0])', CopyInv(Handled(g[0]))' PROVE WireInv'
    BY <1>0, <2>2, <2>5, StreamSame DEF WireInv
  <2>6. CASE Switch
    <3>1. /\ pc' \in {"end", "killed"} /\ UNCHANGED stream
      BY <2>6 DEF Switch
    <3>2. HandInv(g[0])' /\ Handled(g[0])' = g[0]
      BY <3>1 DEF HandInv, Handled
    <3>3. CopyInv(g[0])'
      BY <2>2, <2>3, <2>4, <2>6, SwitchCopy
    <3>4. CopyInv(Handled(g[0]))'
      BY <3>2, <3>3 DEF CopyInv
    <3> QED BY <2>5, <3>1, <3>2, <3>4
  <2>7. CASE EndOfIteration
    <3>1. /\ pc = "end" /\ pc' = "recv" /\ type' = "none" /\ UNCHANGED <<stream, size, file, copy, hits>>
      BY <1>0, <2>7 DEF EndOfIteration
    <3>2. HandInv(g[0])' /\ Handled(g[0])' = g[0] /\ Handled(g[0]) = g[0]
      BY <3>1 DEF HandInv, Handled, Tag
    <3>3. CopyInv(g[0])'
      BY <2>2, <3>1, <3>2, CopySame
    <3>4. CopyInv(Handled(g[0]))'
      BY <3>2, <3>3 DEF CopyInv
    <3> QED BY <2>5, <3>1, <3>2, <3>4
  <2>8. CASE SetNotification
    <3>1. /\ type' = "other" /\ UNCHANGED <<stream, pc, size, file, copy>>
      BY <1>0, <2>8 DEF SetNotification
    <3>2. HandInv(g[0])' /\ Handled(g[0])' = g[0]
      BY <3>1 DEF HandInv, Handled, Tag
    <3>3. CASE pc = "switch" /\ type \in Tag
      <4>1. hits' = hits + 1
        BY <2>8, <3>3 DEF SetNotification
      <4>2. g[0] >= 1 /\ Handled(g[0]) = g[0] - 1
        BY <2>2, <3>3 DEF HandInv, Handled
      <4>3. g[0] - 1 \in Nat /\ g[0] - 1 <= N + 1 /\ (g[0] - 1) + 1 = g[0]
        BY <2>3, <2>4, <4>2
      <4>4. CopyInv(g[0])'
        BY <2>2, <3>1, <4>1, <4>2, <4>3, CopyMisses
      <4> QED BY <2>5, <3>1, <3>2, <4>4 DEF CopyInv
    <3>4. CASE ~(pc = "switch" /\ type \in Tag)
      <4>1. hits' = hits /\ Handled(g[0]) = g[0]
        BY <2>8, <3>4 DEF SetNotification, Handled
      <4>2. CopyInv(g[0])'
        BY <2>2, <3>1, <4>1, CopySame
      <4> QED BY <2>5, <3>1, <3>2, <4>2 DEF CopyInv
    <3> QED BY <3>3, <3>4
  <2>9. CASE RecvMessage
    <3>1. /\ pc = "recv" /\ pc' = "switch" /\ UNCHANGED <<size, file, copy, hits>>
          /\ Handled(g[0]) = g[0]
      BY <1>0, <2>9 DEF RecvMessage, Handled
    <3>2. CopyInv(g[0])'
      BY <2>2, <3>1, CopySame
    <3>3. CASE arrived = 0 /\ UNCHANGED <<stream, arrived, buffer, short>>
      <4>1. type' \notin Tag
        BY <2>2, <3>1, <3>3 DEF HandInv, buffer
      <4>2. HandInv(g[0])' /\ Handled(g[0])' = g[0]
        BY <3>1, <4>1 DEF HandInv, Handled
      <4> QED BY <2>5, <3>2, <3>3, <4>2 DEF CopyInv
    <3>4. CASE /\ arrived >= 2 /\ Take(2)
               /\ type' \in AsType(stream[1]) /\ body' = AsBody(stream[2])
      <4>1. /\ 1 \in 1..m
            /\ \E k \in Nat : \E f \in [0..k -> Nat] : f[0] = g[1] /\ StreamInv(k, f)'
        BY <1>0, <2>2, <3>4, StreamShrinks DEF TypeInv
      <4>2. /\ stream[1].kind = "type" /\ stream[2].kind = "rest"
            /\ \/ stream[1].type = "other" /\ g[1] = g[0]
               \/ /\ stream[1].type = Part(g[0]) /\ stream[2].body = Load(g[0])
                  /\ g[1] = g[0] + 1
        <5>1. 2 * 1 - 1 = 1 /\ 2 * 1 = 2 /\ 1 - 1 = 0
          OBVIOUS
        <5> QED BY <2>2, <4>1, <5>1 DEF StreamInv
      <4>3. type' = stream[1].type /\ body' = stream[2].body
        BY <3>4, <4>2 DEF AsType, AsBody
      <4>4. N' = N /\ \A i : Part(i)' = Part(i) /\ Load(i)' = Load(i)
        BY <1>0, SameFile
      <4>5. HandInv(g[1])' /\ Handled(g[1])' = g[0]
        <5>1. CASE type' = "other" /\ g[1] = g[0]
          BY <3>1, <5>1 DEF HandInv, Handled, Tag
        <5>2. CASE /\ type' = Part(g[0]) /\ body' = Load(g[0]) /\ g[1] = g[0] + 1
          <6>1. type' \in Tag
            BY <5>2 DEF Part, Tag
          <6>2. g[1] >= 1 /\ g[1] - 1 = g[0]
            BY <2>3, <5>2
          <6> QED BY <3>1, <4>4, <5>2, <6>1, <6>2 DEF HandInv, Handled
        <5> QED BY <4>2, <4>3, <5>1, <5>2
      <4>6. CopyInv(Handled(g[1]))'
        BY <3>2, <4>5 DEF CopyInv
      <4> QED BY <4>1, <4>5, <4>6 DEF WireInv
    <3> QED BY <1>2, <2>9, <3>3, <3>4 DEF RecvMessage
  <2> QED BY <2>6, <2>7, <2>8, <2>9
<1> QED BY <1>1, <1>2

-----------------------------------------------------------------------------
(* The invariant holds at the start. *)
LEMMA InitInv == ASSUME Init PROVE IInv
<1>0. size \in Nat /\ BUFFER_SIZE \in Nat \ {0} /\ MaxOther \in Nat /\ MaxNotes \in Nat
  BY TransferAssumption DEF Init
<1>1. stream \in Seq(Half) /\ Len(stream) = 0 /\ copy \in Seq(Body)
  BY EmptySeq DEF Init
<1>2. short \in BOOLEAN
  BY Zenon DEF Init
<1>3. TypeOK
  BY <1>0, <1>1, <1>2 DEF Init, TypeOK
<1>4. TypeInv
  BY <1>1, <1>3, BlockType DEF Init, TypeInv
<1> DEFINE g == [p \in 0..0 |-> 0]
<1>5. g \in [0..0 -> Nat] /\ g[0] = 0
  OBVIOUS
<1>6. N \in Nat
  BY <1>4, CopyNumbers
<1> HIDE DEF g
<1>7. StreamInv(0, g)
  <2>1. 1..0 = {} /\ \A p \in 0..0 : p = 0
    OBVIOUS
  <2> QED BY <1>1, <1>5, <1>6, <2>1 DEF StreamInv, Init
<1>8. HandInv(g[0]) /\ Handled(g[0]) = 0
  BY <1>5 DEF HandInv, Handled, Init, Tag
<1>9. CopyInv(Handled(g[0]))
  BY <1>8 DEF CopyInv, Init
<1>10. 0 \in Nat
  OBVIOUS
<1>11. WireInv
  BY <1>5, <1>7, <1>8, <1>9, <1>10 DEF WireInv
<1> QED BY <1>4, <1>11 DEF IInv

(* And after every step. *)
LEMMA StepInv == ASSUME IInv, [Next]_vars PROVE IInv'
<1>1. TypeInv'
  BY TypeStep DEF IInv
<1>2. CASE UNCHANGED vars
  <2>1. UNCHANGED <<size, sender, bytes_read, stream, pc, type, body, file, copy, hits, short>>
    BY <1>2 DEF vars, enb, buffer
  <2>2. CASE short
    BY <1>1, <2>1, <2>2 DEF IInv, WireInv
  <2>3. CASE ~short
    <3>1. PICK m \in Nat : \E g \in [0..m -> Nat] :
                 StreamInv(m, g) /\ HandInv(g[0]) /\ CopyInv(Handled(g[0]))
      BY <2>3 DEF IInv, WireInv
    <3>2. PICK g \in [0..m -> Nat] : StreamInv(m, g) /\ HandInv(g[0]) /\ CopyInv(Handled(g[0]))
      BY <3>1
    <3>3. StreamInv(m, g)' /\ HandInv(g[0])' /\ Handled(g[0])' = Handled(g[0])
      BY <2>1, <3>2, StreamSame, HandSame
    <3>4. \A h : h = Handled(g[0]) => CopyInv(h)'
      BY <2>1, <3>2, CopySame
    <3>5. CopyInv(Handled(g[0]))'
      BY <3>3, <3>4 DEF CopyInv
    <3> QED BY <1>1, <3>3, <3>5 DEF IInv, WireInv
  <2> QED BY <2>2, <2>3
<1>3. CASE Next
  BY <1>1, <1>2, <1>3, SenderWire, UeWire DEF Next, Ended, IInv
<1> QED BY <1>2, <1>3

(* A closed copy lacks no more blocks than messages were overwritten. *)
LEMMA Bounded == ASSUME IInv PROVE LossIsBounded
<1> SUFFICES ASSUME ~short, file = "closed" PROVE Promise!Blocks(size) - Len(copy) <= hits
  BY DEF LossIsBounded
<1>1. PICK m \in Nat : \E g \in [0..m -> Nat] : CopyInv(Handled(g[0]))
  BY DEF IInv, WireInv
<1>2. PICK g \in [0..m -> Nat] : CopyInv(Handled(g[0]))
  BY <1>1
<1> QED BY <1>2 DEF CopyInv, N

(* A copy in which nothing was missed when data_end is handled is the file. *)
LEMMA CopyWhole ==
  ASSUME TypeInv, file = "open", hits = 0, CopyInv(N + 1) PROVE Promise!Whole
<1> DEFINE s == [i \in 1..N |-> Promise!Block(size, i)]
<1>1. N \in Nat
  BY CopyNumbers
<1>2. Len(copy) = N /\ \A i \in 1..N : copy[i] = Promise!Block(size, i)
  BY <1>1 DEF CopyInv
<1>3. copy = [i \in 1..N |-> copy[i]]
  BY <1>2, LenProperties DEF TypeInv
<1>4. copy = s
  BY <1>2, <1>3
<1> QED BY <1>4 DEF Promise!Whole, N

(* Every step of the transfer is one that FileCopy allows, or none. *)
LEMMA CopyStep == ASSUME IInv, [Next]_vars PROVE [Promise!Next]_(Promise!vars)
<1> USE DEF IInv
<1>0. hits \in Nat /\ Len(copy) \in Nat /\ N \in Nat /\ short \in BOOLEAN
  BY CopyNumbers DEF TypeInv, TypeOK
<1>1. CASE UNCHANGED <<size, copy, hits, short, file>>
  BY <1>1 DEF Promise!vars, CopyState
<1>2. CASE RecvMessage
  <2>1. UNCHANGED <<size, copy, hits, file>>
    BY <1>2 DEF RecvMessage, enb
  <2>2. CASE short' = short
    BY <1>1, <2>1, <2>2
  <2>3. CASE short' = TRUE
    <3>1. CopyState' = "broken" /\ (hits > 0)' = (hits > 0)
      BY <2>1, <2>3 DEF CopyState
    <3> QED BY <2>1, <3>1 DEF Promise!Next, Promise!Break
  <2> QED BY <1>2, <2>1, <2>2, <2>3 DEF RecvMessage
<1>3. CASE SetNotification
  <2>1. UNCHANGED <<size, copy, file, short>>
    BY <1>3 DEF SetNotification, enb
  <2>2. CASE hits' = hits
    BY <1>1, <2>1, <2>2
  <2>3. CASE hits' = hits + 1
    <3>1. (hits > 0)' = TRUE /\ CopyState' = CopyState
      BY <1>0, <2>1, <2>3 DEF CopyState
    <3> QED BY <2>1, <3>1 DEF Promise!Next, Promise!Miss
  <2> QED BY <1>3, <2>2, <2>3 DEF SetNotification
<1>4. CASE Switch /\ short
  <2>1. UNCHANGED <<size, hits, short>> /\ (hits > 0)' \in BOOLEAN
    BY <1>4 DEF Switch, enb
  <2>2. CopyState = "broken" /\ CopyState' = "broken"
    BY <1>4, <2>1 DEF CopyState
  <2>3. CASE copy' = copy
    BY <2>1, <2>2, <2>3 DEF Promise!Next, Promise!Broken
  <2>4. CASE copy' = Append(copy, body)
    <3>1. body \in Body /\ copy \in Seq(Body)
      BY DEF TypeInv
    <3>2. DOMAIN body = 1..BUFFER_SIZE
      BY <3>1 DEF Body, Name, Junk, Fill
    <3>3. /\ Len(copy') = Len(copy) + 1 /\ copy'[Len(copy) + 1] = body
          /\ \A i \in 1..Len(copy) : copy'[i] = copy[i]
          /\ copy' \in Seq(Body)
      BY <2>4, <3>1, AppendProperties
    <3>4. SubSeq(copy', 1, Len(copy)) = copy
      <4>1. \A i \in 1..Len(copy) : copy'[i] \in Body
        BY <3>1, <3>3, ElementOfSeq
      <4>2. /\ SubSeq(copy', 1, Len(copy)) \in Seq(Body)
            /\ Len(SubSeq(copy', 1, Len(copy))) =
                 IF 1 <= Len(copy) THEN Len(copy) - 1 + 1 ELSE 0
            /\ \A i \in 1..(Len(copy) - 1 + 1) : SubSeq(copy', 1, Len(copy))[i] = copy'[1 + i - 1]
        BY <1>0, <4>1, SubSeqProperties
      <4>3. Len(SubSeq(copy', 1, Len(copy))) = Len(copy)
        BY <1>0, <4>2
      <4>4. \A i \in 1..Len(copy) : SubSeq(copy', 1, Len(copy))[i] = copy[i]
        BY <1>0, <3>3, <4>2
      <4> QED BY <3>1, <4>2, <4>3, <4>4, SeqEqual
    <3>5. DOMAIN copy'[Len(copy')] = 1..BUFFER_SIZE
      BY <3>2, <3>3
    <3> QED BY <2>1, <2>2, <3>3, <3>4, <3>5 DEF Promise!Next, Promise!Broken
  <2> QED BY <1>4, <2>3, <2>4 DEF Switch, OpenFile, download_data, CloseFile
<1>5. CASE Switch /\ ~short
  <2>1. UNCHANGED <<size, hits, short>> /\ (hits > 0)' = (hits > 0)
    BY <1>5 DEF Switch, enb
  <2>2. PICK m \in Nat : \E g \in [0..m -> Nat] :
               StreamInv(m, g) /\ HandInv(g[0]) /\ CopyInv(Handled(g[0]))
    BY <1>5 DEF WireInv
  <2>3. PICK g \in [0..m -> Nat] : StreamInv(m, g) /\ HandInv(g[0]) /\ CopyInv(Handled(g[0]))
    BY <2>2
  <2>4. PICK r \in Nat : r <= N + 2 /\ HandInv(r) /\ CopyInv(Handled(r))
    <3>1. 0 \in 0..m /\ g[0] \in Nat
      OBVIOUS
    <3> QED BY <2>3, <3>1 DEF StreamInv
  <2>5. /\ type \in Tag =>
             /\ r >= 1 /\ r - 1 \in Nat /\ CopyInv(r - 1)
             /\ type = "data_start" => r = 1 /\ body = Name /\ file = "garbage" /\ copy = <<>>
             /\ type = "data" => r - 1 \in 1..N /\ body = Promise!Block(size, r - 1)
             /\ type = "data_end" => r = N + 2
    BY <1>5, <2>4, AtHand DEF Switch
  <2>6. CASE OpenFile
    <3>1. file = "garbage" /\ file' = "open" /\ copy' = copy
      BY <2>5, <2>6 DEF OpenFile, Tag
    <3>2. CopyState = "none" /\ CopyState' = "open"
      BY <1>5, <2>1, <3>1 DEF CopyState
    <3> QED BY <2>1, <3>1, <3>2 DEF Promise!Next, Promise!Open
  <2>7. CASE download_data
    <3>1. r - 1 \in 1..N /\ body = Promise!Block(size, r - 1) /\ CopyInv(r - 1)
      BY <2>5, <2>7 DEF download_data, Tag
    <3>2. file = "open" /\ file' = file /\ copy' = Append(copy, body)
      BY <2>7, <3>1 DEF download_data, CopyInv
    <3>3. CopyState = "open" /\ CopyState' = CopyState
      BY <1>5, <2>1, <3>2 DEF CopyState
    <3>4. \A j \in DOMAIN copy : \E k \in 1..((r - 1) - 1) : copy[j] = Promise!Block(size, k)
      BY <3>1, <3>2, LenProperties DEF CopyInv, TypeInv
    <3>5. r - 1 \in 1..Promise!Blocks(size)
      BY <3>1 DEF N
    <3> QED BY <2>1, <3>1, <3>2, <3>3, <3>4, <3>5 DEF Promise!Next, Promise!AppendBlock
  <2>8. CASE CloseFile
    <3>1. CopyInv(N + 1)
      <4>1. r - 1 = N + 1
        BY <1>0, <2>5, <2>8 DEF CloseFile, Tag
      <4> QED BY <2>5, <2>8, <4>1 DEF CloseFile, Tag
    <3>2. file = "open" /\ file' = "closed" /\ copy' = copy
      BY <2>8, <3>1 DEF CloseFile, CopyInv
    <3>3. CopyState = "open" /\ CopyState' = "closed"
      BY <1>5, <2>1, <3>2 DEF CopyState
    <3>4. hits > 0 \/ Promise!Whole
      BY <1>0, <3>1, <3>2, CopyWhole
    <3> QED BY <2>1, <3>2, <3>3, <3>4 DEF Promise!Next, Promise!Close
  <2>9. CASE UNCHANGED <<file, copy>>
    BY <1>1, <2>1, <2>9
  <2> QED BY <1>5, <2>6, <2>7, <2>8, <2>9 DEF Switch
<1>6. CASE EndOfIteration
  BY <1>1, <1>6 DEF EndOfIteration, enb
<1>7. CASE SendStart \/ SendBlock \/ SendEnd \/ SenderExits \/ OtherSend \/ Arrive
  BY <1>1, <1>7 DEF SendStart, SendBlock, SendEnd, SenderExits, OtherSend, Arrive, enb
<1>8. CASE UNCHANGED vars
  BY <1>1, <1>8 DEF vars, enb
<1> QED BY <1>0, <1>2, <1>3, <1>4, <1>5, <1>6, <1>7, <1>8 DEF Next, Ended

-----------------------------------------------------------------------------
(* The eNodeB's place in the file, the stream and the UE's buffer keep their  *)
(* types; broadcast_sample never reads further than a block past the end.     *)
THEOREM TypeCorrect == Spec => []TypeOK
<1>1. Init => IInv
  BY InitInv
<1>2. IInv /\ [Next]_vars => IInv'
  BY StepInv
<1>3. IInv => TypeOK
  BY DEF IInv, TypeInv
<1> QED BY <1>1, <1>2, <1>3, PTL DEF Spec

(* A copy that is opened and closed lacks no more blocks than the battery     *)
(* thread has overwritten types in the shared buffer, for a file of any size  *)
(* and any number of other messages between the blocks.                       *)
THEOREM LossIsLimited == Spec => []LossIsBounded
<1>1. Init => IInv
  BY InitInv
<1>2. IInv /\ [Next]_vars => IInv'
  BY StepInv
<1> QED BY <1>1, <1>2, Bounded, PTL DEF Spec

(* The transfer implements FileCopy: the UE appends blocks of the file in     *)
(* their order and none twice, and closes a whole copy if the battery thread  *)
(* has overwritten nothing, until recv returns half a message.                *)
THEOREM ImplementsFileCopy == Spec => IsFileCopy
<1>1. Init => IInv
  BY InitInv
<1>2. IInv /\ [Next]_vars => IInv'
  BY StepInv
<1>3. Init => Promise!Init
  BY DEF Init, Promise!Init, CopyState
<1>4. IInv /\ [Next]_vars => [Promise!Next]_(Promise!vars)
  BY CopyStep
<1> QED BY <1>1, <1>2, <1>3, <1>4, PTL DEF Spec, IsFileCopy, Promise!Spec
=============================================================================
