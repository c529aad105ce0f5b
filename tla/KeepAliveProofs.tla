-------------------------- MODULE KeepAliveProofs --------------------------
(* Theorems about the eNodeB's keep-alive, for all limits and delays that   *)
(* satisfy TimingAssumption.                                                *)
EXTENDS KeepAlive, SequenceTheorems, TLAPS

(* The longest silence before a client is pinged, whatever its battery. *)
Longest == IF Limit["OK"] >= Limit["LOW"] THEN Limit["OK"] ELSE Limit["LOW"]

(* How long the client may have been idle when the k-th ping since its last  *)
(* sign of life is sent.                                                     *)
IdleAt(k) == Longest + (k + 1) * Period - 1

(* Pings unanswered or lost since the last pong that was handled. *)
Sent == lost + Len(pings)

(* The thread has slept when it has pinged; and a round that kicks because   *)
(* of the time it read had found a client that is known and has gone silent. *)
RoundInv ==
  /\ round # "sleep" => slept >= 1
  /\ round = "kick" => client = "known" /\ ue = "silent"

(* Only a client that is known and live has pings under way. *)
PingInv == pings # <<>> \/ lost # 0 => client = "known" /\ ue = "live"

(* The pings under way were sent in different rounds, and before this one's  *)
(* sleep began.                                                              *)
AgeInv ==
  /\ \A i, j \in DOMAIN pings : i <= j => pings[i] >= pings[j] + (j - i)
  /\ round = "sleep" => \A i \in DOMAIN pings : pings[i] >= slept

(* A live client was not idle for too long when each ping was sent, and the  *)
(* next ping will be sent in time.                                           *)
IdleInv ==
  client = "known" /\ ue = "live" =>
    /\ \A i \in DOMAIN pings : idle <= IdleAt(lost + i) + pings[i]
    /\ round = "sleep" => idle + (Period - slept) <= IdleAt(Sent + 1)
    /\ round # "sleep" => idle + (Period - slept) <= IdleAt(Sent)

(* What the timing amounts to: no round finds a live client idle for longer  *)
(* than the timeout.                                                         *)
KnownInTime == client = "known" /\ ue = "live" => idle <= PING_TIMEOUT

IInv == TypeOK /\ RoundInv /\ PingInv /\ AgeInv /\ IdleInv

-----------------------------------------------------------------------------
(* What the assumption says of the longer of the two limits. *)
LEMMA Figures ==
  /\ Longest \in Nat /\ Period \in Nat \ {0} /\ Delay \in Nat /\ MaxLost \in Nat
  /\ PING_TIMEOUT \in Nat
  /\ PING_TIMEOUT + 1 >= Longest + (MaxLost + 2) * Period + Delay
  /\ \A b \in {"OK", "LOW"} : Limit[b] \in Nat /\ Limit[b] <= Longest
<1>1. Limit["OK"] = PING_TIME_NORMAL /\ Limit["LOW"] = PING_TIME_LOW_BATTERY
  BY DEF Limit
<1>2. Longest \in {Limit["OK"], Limit["LOW"]}
  BY DEF Longest
<1> QED BY <1>1, <1>2, TimingAssumption DEF Longest

(* A product with Period grows with its other factor. *)
LEMMA IdleAtMonotone ==
  ASSUME NEW m \in Nat, NEW n \in Nat, m <= n
  PROVE  IdleAt(m) \in Int /\ IdleAt(m) <= IdleAt(n)
<1>1. (m + 1) * Period \in Nat /\ (n + 1) * Period = (m + 1) * Period + (n - m) * Period
  BY Figures
<1>2. (n - m) * Period \in Nat
  <2>1. n - m \in Nat OBVIOUS
  <2> QED BY <2>1, Figures
<1> QED BY <1>1, <1>2, Figures DEF IdleAt

(* One more ping allows for one more period. *)
LEMMA IdleAtNext == ASSUME NEW n \in Nat PROVE IdleAt(n + 1) = IdleAt(n) + Period
<1>1. (n + 1 + 1) * Period = (n + 1) * Period + Period /\ (n + 1) * Period \in Nat
  BY Figures
<1> QED BY <1>1, Figures DEF IdleAt

(* The first deadline is a round after the silence. *)
LEMMA IdleAtZero == IdleAt(0) = Longest + Period - 1
  BY Figures DEF IdleAt

(* The queue of pings as a sequence. *)
LEMMA PingSeq ==
  ASSUME TypeOK
  PROVE  /\ Len(pings) \in Nat /\ DOMAIN pings = 1..Len(pings)
         /\ \A i \in DOMAIN pings : pings[i] \in 0..Delay
         /\ pings = <<>> <=> Len(pings) = 0
  BY LenProperties, EmptySeq DEF TypeOK

(* Answering or losing the oldest ping moves the others up. *)
LEMMA TailPings ==
  ASSUME TypeOK, pings # <<>>, pings' = Tail(pings)
  PROVE  /\ pings' \in Seq(0..Delay) /\ Len(pings') = Len(pings) - 1
         /\ DOMAIN pings' = 1..(Len(pings) - 1)
         /\ \A i \in DOMAIN pings' : i + 1 \in DOMAIN pings /\ pings'[i] = pings[i + 1]
<1>1. /\ pings' \in Seq(0..Delay) /\ Len(pings') = Len(pings) - 1
      /\ \A i \in 1..Len(pings') : pings'[i] = pings[i + 1]
  BY HeadTailProperties DEF TypeOK
<1>2. DOMAIN pings' = 1..Len(pings') /\ DOMAIN pings = 1..Len(pings)
      /\ Len(pings) \in Nat
  BY <1>1, LenProperties DEF TypeOK
<1> QED BY <1>1, <1>2

(* A second later every ping is a second older. *)
LEMMA OlderPings ==
  ASSUME TypeOK, \A i \in DOMAIN pings : pings[i] < Delay,
         pings' = [i \in DOMAIN pings |-> pings[i] + 1]
  PROVE  /\ pings' \in Seq(0..Delay) /\ Len(pings') = Len(pings)
         /\ DOMAIN pings' = DOMAIN pings
         /\ \A i \in DOMAIN pings : pings'[i] = pings[i] + 1
<1>1. DOMAIN pings = 1..Len(pings) /\ Len(pings) \in Nat
      /\ \A i \in DOMAIN pings : pings[i] \in 0..Delay
  BY PingSeq
<1>2. \A i \in DOMAIN pings : pings[i] + 1 \in 0..Delay
  BY <1>1, Figures
<1>3. pings' \in [1..Len(pings) -> 0..Delay]
  BY <1>1, <1>2
<1>4. pings' \in Seq(0..Delay)
  BY <1>1, <1>3
<1>5. Len(pings') = Len(pings)
  BY <1>1, <1>3, <1>4, LenProperties
<1> QED BY <1>1, <1>4, <1>5

-----------------------------------------------------------------------------
(* Every step keeps the types. *)
LEMMA TypeStep == ASSUME TypeOK, [Next]_vars PROVE TypeOK'
<1> USE Figures DEF TypeOK, MaxIdle
<1>e. <<>> \in Seq(0..Delay)
  BY EmptySeq
<1>1. CASE accept_client
  BY <1>1 DEF accept_client
<1>2. CASE handle_random_access_request
  BY <1>2 DEF handle_random_access_request
<1>3. CASE handle_pong
  BY <1>3, TailPings DEF handle_pong
<1>4. CASE PongLost
  BY <1>4, TailPings DEF PongLost
<1>5. CASE handle_low_battery_request
  BY <1>5 DEF handle_low_battery_request
<1>6. CASE handle_high_battery_request
  BY <1>6 DEF handle_high_battery_request
<1>7. CASE handle_client_power_off
  BY <1>7, <1>e DEF handle_client_power_off, Forget
<1>8. CASE FallSilent
  BY <1>8, <1>e DEF FallSilent
<1>9. CASE ping_client
  <2>1. Append(pings, 0) \in Seq(0..Delay)
    BY AppendProperties
  <2>2. pings' \in {pings, Append(pings, 0)}
    BY <1>9 DEF ping_client, SendPing
  <2> QED BY <1>9, <2>1, <2>2 DEF ping_client
<1>10. CASE handle_client_inactivity
  BY <1>10 DEF handle_client_inactivity
<1>k. CASE Kick
  <2>1. CASE client' = "kicked" /\ Forget
    BY <1>k, <2>1, <1>e DEF Kick, Forget
  <2>2. CASE UNCHANGED <<client, idle, battery, pings, lost>>
    BY <1>k, <2>2 DEF Kick
  <2> QED BY <1>k, <2>1, <2>2 DEF Kick
<1>11. CASE Tick
  BY <1>11, OlderPings DEF Tick
<1>12. CASE UNCHANGED vars
  BY <1>12 DEF vars
<1> QED BY <1>1, <1>2, <1>3, <1>4, <1>5, <1>6, <1>7, <1>8, <1>9, <1>10, <1>k, <1>11, <1>12 DEF Next

(* After MaxLost pings without a pong the next one is still sent, and answered,  *)
(* before the timeout.                                                           *)
LEMMA KeptInTime == ASSUME TypeOK, IdleInv PROVE KnownInTime
<1> SUFFICES ASSUME client = "known", ue = "live" PROVE idle <= PING_TIMEOUT
  BY DEF KnownInTime
<1>p. /\ Len(pings) \in Nat /\ DOMAIN pings = 1..Len(pings)
      /\ \A i \in DOMAIN pings : pings[i] \in 0..Delay
  BY PingSeq
<1>k. /\ slept \in 0..Period /\ round \in {"sleep", "check", "kick", "kick_early"} /\ lost \in 0..MaxLost /\ idle \in Nat
  BY Figures DEF TypeOK, MaxIdle
<1>s. Sent \in Nat /\ Sent = lost + Len(pings) /\ lost \in Nat
  BY <1>p, <1>k, Figures DEF Sent
<1>i. /\ \A i \in DOMAIN pings : idle <= IdleAt(lost + i) + pings[i]
      /\ round = "sleep" => idle + (Period - slept) <= IdleAt(Sent + 1)
      /\ round # "sleep" => idle + (Period - slept) <= IdleAt(Sent)
  BY DEF IdleInv
<1>m. /\ IdleAt(MaxLost + 1) \in Int /\ MaxLost + 1 \in Nat
      /\ IdleAt(MaxLost + 1) + Delay <= PING_TIMEOUT
  <2>1. MaxLost + 1 \in Nat
    BY Figures
  <2>2. (MaxLost + 1 + 1) * Period = (MaxLost + 2) * Period /\ (MaxLost + 2) * Period \in Nat
    BY Figures
  <2> QED BY <2>1, <2>2, Figures DEF IdleAt
<1>1. CASE Sent >= MaxLost + 1
  <2> DEFINE i == MaxLost + 1 - lost
  <2>1. i \in 1..Len(pings) /\ lost + i = MaxLost + 1
    BY <1>1, <1>p, <1>k, <1>s, Figures
  <2>2. pings[i] \in 0..Delay /\ idle <= IdleAt(lost + i) + pings[i]
    BY <1>i, <1>p, <2>1
  <2>3. pings[i] \in 0..Delay /\ idle <= IdleAt(MaxLost + 1) + pings[i]
    BY <2>1, <2>2
  <2> HIDE DEF i
  <2> QED BY <1>k, <1>m, <2>3, Figures
<1>2. CASE Sent + 1 <= MaxLost + 1
  <2>1. IdleAt(Sent) \in Int /\ IdleAt(Sent) <= IdleAt(MaxLost + 1)
    BY <1>2, <1>s, <1>m, IdleAtMonotone
  <2>2. IdleAt(Sent + 1) \in Int /\ IdleAt(Sent + 1) <= IdleAt(MaxLost + 1)
    <3>1. Sent + 1 \in Nat
      BY <1>s
    <3> QED BY <1>2, <3>1, <1>m, IdleAtMonotone
  <2>3. idle + (Period - slept) <= IdleAt(MaxLost + 1)
    BY <1>i, <1>k, <1>m, <2>1, <2>2, Figures
  <2> QED BY <1>k, <1>m, <2>3, Figures
<1> QED BY <1>1, <1>2, <1>s, Figures

(* Pings exist for a live client only, and a round that kicks has slept and,  *)
(* if it read a time, found a silent client.                                  *)
LEMMA RoundStep ==
  ASSUME TypeOK, KnownInTime, RoundInv, PingInv, [Next]_vars
  PROVE  RoundInv' /\ PingInv'
<1> USE Figures DEF RoundInv, PingInv, TypeOK
<1>1. CASE accept_client
  BY <1>1 DEF accept_client
<1>2. CASE handle_random_access_request
  BY <1>2 DEF handle_random_access_request
<1>3. CASE handle_pong
  BY <1>3 DEF handle_pong
<1>4. CASE PongLost
  BY <1>4 DEF PongLost
<1>5. CASE handle_low_battery_request \/ handle_high_battery_request
  BY <1>5 DEF handle_low_battery_request, handle_high_battery_request
<1>7. CASE handle_client_power_off
  BY <1>7 DEF handle_client_power_off, Forget
<1>8. CASE FallSilent
  BY <1>8 DEF FallSilent
<1>9. CASE ping_client
  BY <1>9 DEF ping_client, SendPing
<1>10. CASE handle_client_inactivity
  BY <1>10 DEF handle_client_inactivity, KnownInTime, MaxIdle
<1>k. CASE Kick
  BY <1>k DEF Kick, Forget
<1>11. CASE Tick
  <2>1. pings' # <<>> => pings # <<>>
    BY <1>11, OlderPings, PingSeq, EmptySeq DEF Tick
  <2> QED BY <1>11, <2>1 DEF Tick
<1>12. CASE UNCHANGED vars
  BY <1>12 DEF vars
<1> QED BY <1>1, <1>2, <1>3, <1>4, <1>5, <1>7, <1>8, <1>9, <1>10, <1>k, <1>11, <1>12 DEF Next

(* A new ping is the youngest: a second has passed since the round before. *)
LEMMA AgeStep == ASSUME TypeOK, AgeInv, [Next]_vars PROVE AgeInv'
<1> USE Figures DEF AgeInv
<1>p. /\ Len(pings) \in Nat /\ DOMAIN pings = 1..Len(pings)
      /\ \A i \in DOMAIN pings : pings[i] \in Nat
  BY PingSeq
<1>k. slept \in 0..Period /\ round \in {"sleep", "check", "kick", "kick_early"}
  BY DEF TypeOK
<1>e. CASE pings' = <<>>
  BY <1>e
<1>u. CASE UNCHANGED <<pings, round, slept>>
  BY <1>u
<1>3. CASE pings # <<>> /\ pings' = Tail(pings) /\ UNCHANGED <<round, slept>>
  <2>1. /\ DOMAIN pings' = 1..(Len(pings) - 1)
        /\ \A i \in DOMAIN pings' : i + 1 \in DOMAIN pings /\ pings'[i] = pings[i + 1]
    BY <1>3, TailPings
  <2>3. \A i \in DOMAIN pings' : pings'[i] >= slept \/ round # "sleep"
    BY <2>1
  <2>2. ASSUME NEW i \in DOMAIN pings', NEW j \in DOMAIN pings', i <= j
        PROVE  pings'[i] >= pings'[j] + (j - i)
    <3>1. i + 1 \in DOMAIN pings /\ j + 1 \in DOMAIN pings /\ i + 1 <= j + 1
          /\ i \in Int /\ j \in Int
      BY <1>p, <2>1, <2>2
    <3>2. pings[i + 1] >= pings[j + 1] + ((j + 1) - (i + 1))
      BY <3>1
    <3>3. pings'[i] = pings[i + 1] /\ pings'[j] = pings[j + 1]
      BY <2>1
    <3> QED BY <1>p, <3>1, <3>2, <3>3
  <2> QED BY <1>3, <2>1, <2>2, <2>3
<1>9. CASE ping_client
  <2>1. CASE pings' = pings
    BY <1>9, <2>1 DEF ping_client
  <2>2. CASE pings' = Append(pings, 0)
    <3>0. 0 \in 0..Delay /\ pings \in Seq(0..Delay)
      BY DEF TypeOK
    <3>1. /\ pings' \in Seq(0..Delay) /\ Len(pings') = Len(pings) + 1
          /\ \A i \in 1..Len(pings) : pings'[i] = pings[i]
          /\ pings'[Len(pings) + 1] = 0
      BY <2>2, <3>0, AppendProperties
    <3>2. DOMAIN pings' = 1..(Len(pings) + 1)
      BY <3>1, LenProperties
    <3>3. round' = "check" /\ slept >= 1 /\ round = "sleep"
      BY <1>9 DEF ping_client
    <3>4. ASSUME NEW i \in 1..Len(pings)
          PROVE  pings[i] >= 0 + ((Len(pings) + 1) - i)
      <4>0. i \in DOMAIN pings /\ Len(pings) \in DOMAIN pings /\ i <= Len(pings)
        BY <1>p
      <4>1. pings[i] >= pings[Len(pings)] + (Len(pings) - i) /\ pings[Len(pings)] >= slept
        BY <4>0, <3>3
      <4>2. pings[i] \in Nat /\ pings[Len(pings)] \in Nat
        BY <1>p
      <4> QED BY <4>1, <4>2, <3>3, <1>k, <1>p
    <3>5. ASSUME NEW i \in DOMAIN pings', NEW j \in DOMAIN pings', i <= j
          PROVE  pings'[i] >= pings'[j] + (j - i)
      <4>1. CASE j <= Len(pings)
        <5>1. i \in DOMAIN pings /\ j \in DOMAIN pings
          BY <4>1, <1>p, <3>2, <3>5
        <5>2. pings'[i] = pings[i] /\ pings'[j] = pings[j]
          BY <5>1, <1>p, <3>1
        <5> QED BY <5>1, <5>2, <3>5
      <4>2. CASE j = Len(pings) + 1 /\ i <= Len(pings)
        BY <4>2, <1>p, <3>1, <3>2, <3>4
      <4>3. CASE j = Len(pings) + 1 /\ i = Len(pings) + 1
        BY <4>3, <1>p, <3>1
      <4> QED BY <1>p, <3>2, <3>5, <4>1, <4>2, <4>3
    <3> QED BY <3>3, <3>5
  <2> QED BY <1>9, <2>1, <2>2 DEF ping_client, SendPing
<1>10. CASE handle_client_inactivity \/ Kick
  <2>1. CASE UNCHANGED pings
    <3>1. slept' = 0 \/ (round # "sleep" /\ round' # "sleep")
      BY <1>10 DEF handle_client_inactivity, Kick
    <3> QED BY <1>p, <2>1, <3>1
  <2> QED BY <1>10, <1>e, <2>1 DEF handle_client_inactivity, Kick, Forget
<1>11. CASE Tick
  <2>1. /\ DOMAIN pings' = DOMAIN pings
        /\ \A i \in DOMAIN pings : pings'[i] = pings[i] + 1
    BY <1>11, OlderPings DEF Tick
  <2>2. slept' = slept + 1 /\ round' = round
    BY <1>11 DEF Tick
  <2>3. ASSUME NEW i \in DOMAIN pings, NEW j \in DOMAIN pings, i <= j
        PROVE  pings'[i] >= pings'[j] + (j - i)
    <3>1. pings[i] >= pings[j] + (j - i) /\ pings[i] \in Nat /\ pings[j] \in Nat
          /\ i \in Nat /\ j \in Nat
      BY <1>p, <2>3
    <3> QED BY <2>1, <3>1
  <2>4. ASSUME NEW i \in DOMAIN pings, round = "sleep" PROVE pings'[i] >= slept'
    BY <1>k, <1>p, <2>1, <2>2, <2>4
  <2> QED BY <2>1, <2>2, <2>3, <2>4
<1> QED
  BY <1>e, <1>u, <1>3, <1>9, <1>10, <1>11
  DEF Next, vars, accept_client, handle_random_access_request, handle_pong, PongLost,
      handle_low_battery_request, handle_high_battery_request, handle_client_power_off,
      Forget, FallSilent

(* While the client has not been idle for longer than its limit, a ping comes  *)
(* in time in any case.                                                        *)
LEMMA EarlyIdle ==
  ASSUME NEW x \in Nat, NEW t \in 0..Period, NEW n \in Nat, x <= Longest
  PROVE  x + (Period - t) <= IdleAt(n + 1) /\ (t >= 1 => x + (Period - t) <= IdleAt(n))
<1>1. IdleAt(0) \in Int /\ IdleAt(0) <= IdleAt(n)
  BY IdleAtMonotone
<1>2. IdleAt(n + 1) = IdleAt(n) + Period /\ IdleAt(n) \in Int
  BY IdleAtNext, IdleAtMonotone
<1> QED BY <1>1, <1>2, IdleAtZero, Figures

(* A second of idleness is a second less until the end of the sleep. *)
LEMMA LaterDeadline ==
  ASSUME NEW x \in Int, NEW y \in Int, NEW p \in Int, NEW t \in Int, y <= x + 1
  PROVE  y + (p - (t + 1)) <= x + (p - t)
  OBVIOUS

(* Every step keeps a live client's idle time within what its pings allow. *)
LEMMA IdleStep ==
  ASSUME IInv, [Next]_vars
  PROVE  IdleInv'
<1> USE Figures
<1>t. TypeOK /\ TypeOK' /\ RoundInv /\ PingInv /\ RoundInv' /\ AgeInv
  BY TypeStep, RoundStep, KeptInTime DEF IInv
<1>p. /\ Len(pings) \in Nat /\ DOMAIN pings = 1..Len(pings)
      /\ \A i \in DOMAIN pings : pings[i] \in Nat
  BY <1>t, PingSeq
<1>k. /\ slept \in 0..Period /\ round \in {"sleep", "check", "kick", "kick_early"} /\ lost \in Nat /\ idle \in Nat
      /\ (round # "sleep" => slept >= 1)
  BY <1>t DEF TypeOK, RoundInv, MaxIdle
<1>m. Sent \in Nat
  BY <1>p, <1>k DEF Sent
<1>s. Sent \in Nat /\ IdleAt(Sent) \in Int /\ IdleAt(Sent + 1) = IdleAt(Sent) + Period
  BY <1>m, IdleAtMonotone, IdleAtNext
<1>i. \A n \in Nat : IdleAt(n) \in Int /\ IdleAt(n) >= Period - 1 + Longest
  BY IdleAtMonotone, IdleAtZero
<1>n. CASE ~(client' = "known" /\ ue' = "live")
  BY <1>n DEF IdleInv
<1>q. CASE UNCHANGED <<client, ue, idle, round, slept, pings, lost>>
  BY <1>q DEF IInv, IdleInv, Sent
<1>2. CASE handle_random_access_request
  <2>1. pings' = <<>> /\ lost' = 0 /\ idle' = 0 /\ slept' = slept /\ round' = round
    BY <1>2, <1>t DEF handle_random_access_request, PingInv
  <2>2. Sent' = 0 /\ DOMAIN pings' = {}
    BY <2>1 DEF Sent
  <2>3. 0 + (Period - slept) <= IdleAt(0 + 1) /\ (slept >= 1 => 0 + (Period - slept) <= IdleAt(0))
    BY <1>k, EarlyIdle
  <2> QED BY <1>k, <2>1, <2>2, <2>3 DEF IdleInv
<1>3. CASE handle_pong
  <2>1. lost' = 0 /\ idle' = 0 /\ slept' = slept /\ round' = round
    BY <1>3 DEF handle_pong
  <2>2. /\ Len(pings') \in Nat /\ DOMAIN pings' = 1..Len(pings')
        /\ \A i \in DOMAIN pings' : pings'[i] \in Nat
    BY <1>3, <1>t, <1>p, TailPings DEF handle_pong
  <2>3. Sent' \in Nat
    BY <2>1, <2>2 DEF Sent
  <2>4. /\ 0 + (Period - slept) <= IdleAt(Sent' + 1)
        /\ slept >= 1 => 0 + (Period - slept) <= IdleAt(Sent')
    <3>1. 0 \in Nat /\ 0 <= Longest /\ slept \in 0..Period
      BY <1>k
    <3> QED BY <2>3, <3>1, EarlyIdle
  <2>5. ASSUME NEW i \in DOMAIN pings' PROVE idle' <= IdleAt(lost' + i) + pings'[i]
    BY <1>i, <2>1, <2>2
  <2> QED BY <1>k, <2>1, <2>4, <2>5 DEF IdleInv
<1>4. CASE PongLost
  <2>1. /\ lost' = lost + 1 /\ Len(pings') = Len(pings) - 1
        /\ DOMAIN pings' = 1..(Len(pings) - 1)
        /\ UNCHANGED <<client, ue, idle, slept, round>>
        /\ \A i \in DOMAIN pings' : i + 1 \in DOMAIN pings /\ pings'[i] = pings[i + 1]
    BY <1>4, <1>t, TailPings DEF PongLost
  <2>2. Sent' = Sent
    BY <1>p, <1>k, <2>1 DEF Sent
  <2>3. ASSUME NEW i \in DOMAIN pings', client = "known" /\ ue = "live"
        PROVE  idle' <= IdleAt(lost' + i) + pings'[i]
    <3>1. i + 1 \in DOMAIN pings /\ pings'[i] = pings[i + 1] /\ i \in Int
      BY <1>p, <2>1
    <3>2. idle <= IdleAt(lost + (i + 1)) + pings[i + 1]
      BY <2>3, <3>1 DEF IInv, IdleInv
    <3>3. lost + (i + 1) = lost' + i
      BY <1>k, <2>1, <3>1
    <3> QED BY <2>1, <3>1, <3>2, <3>3
  <2> QED BY <2>1, <2>2, <2>3 DEF IInv, IdleInv
<1>9. CASE ping_client
  <2> SUFFICES ASSUME client = "known", ue = "live" PROVE IdleInv'
    BY <1>9 DEF ping_client, IdleInv
  <2>1. /\ round = "sleep" /\ slept >= 1 /\ round' = "check"
        /\ UNCHANGED <<client, ue, idle, slept, lost, battery>>
    BY <1>9 DEF ping_client
  <2>2. /\ \A i \in DOMAIN pings : idle <= IdleAt(lost + i) + pings[i]
        /\ idle + (Period - slept) <= IdleAt(Sent + 1)
    BY <2>1 DEF IInv, IdleInv
  <2>3. CASE idle <= Limit[battery] /\ UNCHANGED pings
    <3>1. idle <= Longest
      BY <1>t, <1>k, <2>3 DEF TypeOK
    <3>2. Sent' = Sent /\ idle + (Period - slept) <= IdleAt(Sent)
      BY <1>k, <1>s, <2>1, <2>3, <3>1, EarlyIdle DEF Sent
    <3> QED BY <2>1, <2>2, <2>3, <3>2 DEF IdleInv
  <2>4. CASE pings' = Append(pings, 0)
    <3>0. 0 \in 0..Delay /\ pings \in Seq(0..Delay)
      BY <1>t DEF TypeOK
    <3>1. /\ pings' \in Seq(0..Delay) /\ Len(pings') = Len(pings) + 1
          /\ \A i \in 1..Len(pings) : pings'[i] = pings[i]
          /\ pings'[Len(pings) + 1] = 0
      BY <2>4, <3>0, AppendProperties
    <3>2. DOMAIN pings' = 1..(Len(pings) + 1)
      BY <3>1, LenProperties
    <3>3. Sent' = Sent + 1
      BY <1>p, <1>k, <2>1, <3>1 DEF Sent
    <3>4. ASSUME NEW i \in DOMAIN pings' PROVE idle' <= IdleAt(lost' + i) + pings'[i]
      <4>1. CASE i <= Len(pings)
        <5>1. i \in DOMAIN pings /\ pings'[i] = pings[i]
          BY <4>1, <1>p, <3>1, <3>2
        <5> QED BY <5>1, <2>1, <2>2
      <4>2. CASE i = Len(pings) + 1
        <5>1. lost' + i = Sent + 1 /\ pings'[i] = 0
          BY <4>2, <1>p, <1>k, <2>1, <3>1 DEF Sent
        <5> QED BY <5>1, <1>k, <1>s, <2>1, <2>2
      <4> QED BY <4>1, <4>2, <1>p, <3>2
    <3> QED BY <2>1, <2>2, <3>3, <3>4 DEF IdleInv
  <2> QED BY <1>9, <2>3, <2>4 DEF ping_client, SendPing
<1>10. CASE handle_client_inactivity \/ Kick
  <2> SUFFICES ASSUME client = "known", ue = "live", UNCHANGED <<client, idle, pings, lost>>
               PROVE  IdleInv'
    BY <1>10 DEF handle_client_inactivity, Kick, IdleInv
  <2>1. /\ round # "sleep" /\ ue' = ue /\ Sent' = Sent
        /\ (round' = "sleep" /\ slept' = 0) \/ (round' # "sleep" /\ slept' = slept)
    BY <1>10 DEF handle_client_inactivity, Kick, Sent
  <2>2. /\ \A i \in DOMAIN pings : idle <= IdleAt(lost + i) + pings[i]
        /\ idle + (Period - slept) <= IdleAt(Sent)
    BY <2>1 DEF IInv, IdleInv
  <2>3. idle + (Period - 0) <= IdleAt(Sent + 1)
    BY <1>k, <1>s, <2>2
  <2> QED BY <2>1, <2>2, <2>3 DEF IdleInv
<1>11. CASE Tick
  <2> SUFFICES ASSUME client = "known", ue = "live" PROVE IdleInv'
    BY <1>11 DEF Tick, IdleInv
  <2>1. /\ UNCHANGED <<client, ue, round, lost>> /\ slept' = slept + 1
        /\ idle' \in Nat /\ idle' <= idle + 1
    BY <1>11, <1>k DEF Tick
  <2>2. /\ Len(pings') = Len(pings) /\ DOMAIN pings' = DOMAIN pings
        /\ \A i \in DOMAIN pings : pings'[i] = pings[i] + 1
    BY <1>11, <1>t, OlderPings DEF Tick
  <2>3. Sent' = Sent
    BY <2>1, <2>2 DEF Sent
  <2>4. ASSUME NEW i \in DOMAIN pings PROVE idle' <= IdleAt(lost' + i) + pings'[i]
    <3>1. idle <= IdleAt(lost + i) + pings[i]
      BY DEF IInv, IdleInv
    <3>2. IdleAt(lost + i) \in Int /\ pings[i] \in Nat
      BY <1>i, <1>k, <1>p
    <3> QED BY <1>k, <2>1, <2>2, <3>1, <3>2
  <2>5. /\ round = "sleep" => idle + (Period - slept) <= IdleAt(Sent + 1)
        /\ round # "sleep" => idle + (Period - slept) <= IdleAt(Sent)
    BY DEF IInv, IdleInv
  <2>6. idle' + (Period - slept') <= idle + (Period - slept)
    <3>1. slept \in Int /\ Period \in Int /\ idle \in Int
      BY <1>k
    <3>2. idle' \in Int /\ idle' <= idle + 1
      BY <2>1
    <3>3. idle' + (Period - (slept + 1)) <= idle + (Period - slept)
      BY <3>1, <3>2, LaterDeadline
    <3>4. slept' = slept + 1
      BY <2>1
    <3> QED BY <3>3, <3>4
  <2> QED BY <1>k, <1>s, <2>1, <2>2, <2>3, <2>4, <2>5, <2>6 DEF IdleInv
<1> QED
  BY <1>n, <1>q, <1>2, <1>3, <1>4, <1>9, <1>10, <1>11
  DEF Next, vars, accept_client, handle_low_battery_request, handle_high_battery_request,
      handle_client_power_off, FallSilent

-----------------------------------------------------------------------------
(* The invariant holds at the start. *)
LEMMA InitInv == ASSUME Init PROVE IInv
<1> USE Figures
<1>1. TypeOK
  BY EmptySeq DEF Init, TypeOK, MaxIdle
<1> QED BY <1>1 DEF Init, IInv, RoundInv, PingInv, AgeInv, IdleInv

(* The invariant is inductive. *)
LEMMA StepInv == ASSUME IInv, [Next]_vars PROVE IInv'
  BY TypeStep, RoundStep, AgeStep, IdleStep, KeptInTime DEF IInv

(* The oldest of n pings is n - 1 seconds older than the youngest. *)
LEMMA FewPings == ASSUME IInv PROVE PingsBounded
<1>p. /\ Len(pings) \in Nat /\ DOMAIN pings = 1..Len(pings)
      /\ \A i \in DOMAIN pings : pings[i] \in 0..Delay
  BY PingSeq DEF IInv
<1>1. CASE Len(pings) = 0
  BY <1>1, Figures DEF PingsBounded
<1>2. CASE Len(pings) >= 1
  <2>1. 1 \in DOMAIN pings /\ Len(pings) \in DOMAIN pings
    BY <1>2, <1>p
  <2>2. pings[1] >= pings[Len(pings)] + (Len(pings) - 1)
    BY <1>2, <2>1 DEF IInv, AgeInv
  <2>3. pings[1] \in 0..Delay /\ pings[Len(pings)] \in 0..Delay
    BY <1>p, <2>1
  <2> QED BY <1>p, <2>2, <2>3, Figures DEF PingsBounded
<1> QED BY <1>1, <1>2, <1>p

-----------------------------------------------------------------------------
(* In every behaviour of the ping thread and the handlers the idle time, the  *)
(* battery state and the pings under way keep their types; in particular      *)
(* battery_state is never read from a client whose random access is handled   *)
(* while it is still what malloc found.                                       *)
THEOREM TypeCorrect == Spec => []TypeOK
<1>1. Init => IInv
  BY InitInv
<1>2. IInv /\ [Next]_vars => IInv'
  BY StepInv
<1>3. IInv => TypeOK
  BY DEF IInv
<1> QED BY <1>1, <1>2, <1>3, PTL DEF Spec

(* For all limits that satisfy TimingAssumption a live client whose random    *)
(* access is handled is never closed and deleted because of its silence,      *)
(* although up to MaxLost pongs in a row are lost: the only kick that can     *)
(* reach it was decided before, on what malloc had left in last_activity.     *)
THEOREM LiveClientIsKept == Spec => LiveIsKept
<1>1. Init => IInv
  BY InitInv
<1>2. IInv /\ [Next]_vars => IInv'
  BY StepInv
<1>3. IInv /\ [Next]_vars =>
        [client = "known" /\ ue = "live" /\ client' = "kicked" => round = "kick_early"]_vars
  <2> SUFFICES ASSUME IInv, Next, client = "known", ue = "live", client' = "kicked"
               PROVE  round = "kick_early"
    OBVIOUS
  <2>1. Kick
    BY DEF Next, accept_client, handle_random_access_request, handle_pong, PongLost,
           handle_low_battery_request, handle_high_battery_request, handle_client_power_off,
           FallSilent, ping_client, handle_client_inactivity, Tick
  <2> QED BY <2>1 DEF Kick, IInv, RoundInv
<1> QED BY <1>1, <1>2, <1>3, PTL DEF Spec, LiveIsKept

(* The ping thread, which pings in every round until a pong is handled, never *)
(* has more pings under way than the seconds an answer may take, plus one.    *)
THEOREM PingsStayBounded == Spec => []PingsBounded
<1>1. Init => IInv
  BY InitInv
<1>2. IInv /\ [Next]_vars => IInv'
  BY StepInv
<1>3. IInv => PingsBounded
  BY FewPings
<1> QED BY <1>1, <1>2, <1>3, PTL DEF Spec
=============================================================================
