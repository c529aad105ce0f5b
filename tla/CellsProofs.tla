---------------------------- MODULE CellsProofs ----------------------------
(* Theorems about the UE's cells, for all thresholds and courses that       *)
(* satisfy CellAssumption.                                                  *)
EXTENDS Cells, TLAPS

S == rsrp["serving"]
N == rsrp["neighbour"]

(* What the statics of check_events say of the signals seen so far: an armed *)
(* event_change has seen the other side of its threshold and not yet this    *)
(* one; a flag that is not set has its event still to come, or unreported.   *)
ReportInv ==
  /\ change = 1 => last["a1"] = -1
  /\ change = 2 => last["a2"] = -1
  /\ event = "a3" => a3_checked
  /\ event = "a4" => a4_checked
  /\ ~a3_checked => last["a3"] = -1 \/ "a3" \in fresh
  /\ ~a4_checked => last["a4"] = -1 \/ "a4" \in fresh
  /\ ~served /\ event # "def" => event \in fresh

(* Where the signals are, by what the last call returned. *)
PlaceInv ==
  /\ change = 1 => S <= THRESHOLD1
  /\ change = 2 => S >= THRESHOLD2
  /\ event \in {"a1", "a2"} => THRESHOLD1 < S /\ S < THRESHOLD2 /\ calls = 1
  /\ calls = 0 => change = 5 /\ event = "def"

(* An event that the signals call for is missed only while one that comes    *)
(* before it is returned, which happens in the first two calls.              *)
TurnInv ==
  /\ calls >= 1 /\ event \notin {"a1", "a2"} => (N > S => a3_checked)
  /\ calls >= 1 /\ event \notin {"a1", "a2", "a3"} => (N > THRESHOLD2 => a4_checked)
  /\ event = "a3" => calls = 1 \/ (calls = 2 /\ THRESHOLD1 < S /\ S < THRESHOLD2)
  /\ event = "a4" => calls \in {1, 2} \/ (calls = 3 /\ THRESHOLD1 < S /\ S < THRESHOLD2)

(* An event whose boundary may be crossed next is ready to be returned.  *)
ReadyInv ==
  /\ last["a1"] = -1 =>
       change = 1 \/ S = THRESHOLD1 \/ (S < THRESHOLD1 /\ event \in {"a3", "a4"})
  /\ last["a2"] = -1 =>
       change = 2 \/ S = THRESHOLD2 \/ (S > THRESHOLD2 /\ event \in {"a3", "a4"})
  /\ last["a3"] = -1 => ~a3_checked \/ (event \in {"a1", "a2"} /\ N < S)
  /\ last["a4"] = -1 => ~a4_checked \/ (event \in {"a1", "a2", "a3"} /\ N < THRESHOLD2)

(* What is owed is about to be returned, or lost on a threshold. *)
OwedInv ==
  /\ "a1" \in owed => S - course["serving"] = THRESHOLD1
  /\ "a2" \in owed => S - course["serving"] = THRESHOLD2
  /\ "a3" \in owed => event \in {"a1", "a2"} /\ N > S /\ ~a3_checked
  /\ "a4" \in owed => event \in {"a1", "a2", "a3"} /\ N > THRESHOLD2 /\ ~a4_checked

(* last is what the signals say, once they have been looked at. *)
SyncInv ==
  /\ calls = 0 => last["a1"] = 0 /\ last["a2"] = 0
  /\ calls >= 1 => /\ S > THRESHOLD1 => last["a1"] = 1
                   /\ S < THRESHOLD2 => last["a2"] = 1
                   /\ N > S          => last["a3"] = 1
                   /\ N > THRESHOLD2 => last["a4"] = 1

EventInv == SyncInv /\ PlaceInv /\ TurnInv /\ ReadyInv /\ OwedInv

-----------------------------------------------------------------------------
(* The signals as a function on the cells. *)
Signals == [Cell -> 0..MAX_RSRP]

(* The figures as integers. *)
LEMMA Figures ==
  /\ MAX_RSRP \in Nat /\ THRESHOLD1 \in Nat /\ THRESHOLD2 \in Nat
  /\ COURSE \in Nat \ {0} /\ Calls \in Nat \ {0}
  /\ COURSE < THRESHOLD1 /\ THRESHOLD1 + COURSE < THRESHOLD2
  /\ THRESHOLD2 + COURSE < MAX_RSRP
  BY CellAssumption

(* An update keeps the power in its range and the course one of two. *)
LEMMA UpdateType ==
  ASSUME TypeOK, update_rsrps
  PROVE  rsrp' \in Signals /\ course' \in [Cell -> {COURSE, -COURSE}]
<1>1. ASSUME NEW i \in Cell PROVE Clip(rsrp[i] + course[i]) \in 0..MAX_RSRP
  <2>1. rsrp[i] \in 0..MAX_RSRP /\ course[i] \in {COURSE, -COURSE}
    BY DEF TypeOK
  <2>2. rsrp[i] + course[i] \in Int
    BY <2>1, Figures
  <2> QED BY <2>2, Figures DEF Clip
<1>2. rsrp' \in Signals
  BY <1>1 DEF update_rsrps, Signals
<1>3. ASSUME NEW i \in Cell PROVE Turn(rsrp'[i], course[i]) \in {COURSE, -COURSE}
  <2>1. course[i] \in {COURSE, -COURSE}
    BY DEF TypeOK
  <2> QED BY <2>1, Figures DEF Turn
<1> QED BY <1>2, <1>3 DEF update_rsrps

(* Between two thresholds an update moves a cell by its course and no further. *)
LEMMA UpdateServing ==
  ASSUME TypeOK, update_rsrps
  PROVE  /\ rsrp'["serving"] <= S + COURSE /\ rsrp'["serving"] >= S - COURSE
         /\ rsrp'["serving"] = S => S \in {0, MAX_RSRP}
         /\ S \in {THRESHOLD1, THRESHOLD2} =>
              /\ rsrp'["serving"] = S + course["serving"]
              /\ course'["serving"] = course["serving"]
<1>1. S \in 0..MAX_RSRP /\ course["serving"] \in {COURSE, -COURSE}
  BY DEF TypeOK, S, Cell
<1>2. rsrp'["serving"] = Clip(S + course["serving"])
  BY DEF update_rsrps, S, Cell
<1>3. course'["serving"] = Turn(rsrp'["serving"], course["serving"])
  BY DEF update_rsrps, Cell
<1>4. rsrp'["serving"] <= S + COURSE /\ rsrp'["serving"] >= S - COURSE
  BY <1>1, <1>2, Figures DEF Clip
<1>5. S \in {THRESHOLD1, THRESHOLD2} => rsrp'["serving"] = S + course["serving"]
  BY <1>1, <1>2, Figures DEF Clip
<1>6. S \in {THRESHOLD1, THRESHOLD2} => course'["serving"] = course["serving"]
  BY <1>1, <1>3, <1>5, Figures DEF Turn
<1>7. rsrp'["serving"] = S => S \in {0, MAX_RSRP}
  BY <1>1, <1>2, Figures DEF Clip
<1> QED BY <1>4, <1>5, <1>6, <1>7

(* The side of its boundary the signals are on, for each event. *)
LEMMA Sides ==
  ASSUME NEW r \in Signals
  PROVE  /\ r["serving"] \in Nat /\ r["neighbour"] \in Nat
         /\ Above("a1", r) = IF r["serving"] > THRESHOLD1 THEN 1
                             ELSE IF r["serving"] < THRESHOLD1 THEN -1 ELSE 0
         /\ Above("a2", r) = IF r["serving"] < THRESHOLD2 THEN 1
                             ELSE IF r["serving"] > THRESHOLD2 THEN -1 ELSE 0
         /\ Above("a3", r) = IF r["neighbour"] > r["serving"] THEN 1
                             ELSE IF r["neighbour"] < r["serving"] THEN -1 ELSE 0
         /\ Above("a4", r) = IF r["neighbour"] > THRESHOLD2 THEN 1
                             ELSE IF r["neighbour"] < THRESHOLD2 THEN -1 ELSE 0
<1>1. r["serving"] \in Nat /\ r["neighbour"] \in Nat
  BY Figures DEF Signals, Cell
<1> QED BY <1>1, Figures DEF Above, Sign

(* Every event's side is 1, 0 or -1. *)
LEMMA SideType == ASSUME NEW r \in Signals, NEW e \in Event PROVE Above(e, r) \in -1..1
<1>1. e = "a1" \/ e = "a2" \/ e = "a3" \/ e = "a4"
  BY DEF Event
<1> QED BY <1>1, Sides

(* What Remember makes of one event. *)
LEMMA Remembered ==
  ASSUME NEW r \in Signals, NEW e \in Event, Remember(r)
  PROVE  /\ last'[e] = IF Above(e, r) = 0 THEN last[e] ELSE Above(e, r)
         /\ e \in fresh' <=> e \in fresh \/ (last[e] = -1 /\ Above(e, r) = 1)
         /\ e \in owed' => /\ e # event'
                           /\ \/ last[e] = -1 /\ Above(e, r) = 1
                              \/ r = rsrp /\ e \in owed
  BY DEF Remember, Crossed

-----------------------------------------------------------------------------
(* What check_events returns and stores has the right types. *)
LEMMA CheckType ==
  ASSUME TypeOK, NEW r, check_events(r)
  PROVE  /\ change' \in {1, 2, 5} /\ a3_checked' \in BOOLEAN /\ a4_checked' \in BOOLEAN
         /\ event' \in Event \cup {"def"}
<1>1. Armed(r) \in {1, 2, 5}
  BY DEF TypeOK, Armed
<1>2. A3Checked(r) \in BOOLEAN /\ A4Checked(r) \in BOOLEAN
  BY DEF TypeOK, A3Checked, A4Checked
<1>3. {"a1", "a2", "a3", "a4", "def"} = Event \cup {"def"}
  BY DEF Event
<1>4. change' \in {1, 2, 5} /\ event' \in {"a1", "a2", "a3", "a4", "def"}
  BY <1>1 DEF check_events, TypeOK
<1>5. a3_checked' \in BOOLEAN /\ a4_checked' \in BOOLEAN
  BY <1>2, Zenon DEF check_events, TypeOK
<1> QED BY <1>3, <1>4, <1>5

(* The histories keep their types. *)
LEMMA RememberType ==
  ASSUME TypeOK, NEW r \in Signals, Remember(r)
  PROVE  last' \in [Event -> -1..1] /\ owed' \subseteq Event /\ fresh' \subseteq Event
<1>1. last' \in [Event -> -1..1]
  BY SideType DEF TypeOK, Remember
<1>2. owed' \subseteq Event /\ fresh' \subseteq Event
  BY DEF TypeOK, Remember, Crossed
<1> QED BY <1>1, <1>2

(* Every step keeps the types. *)
LEMMA TypeStep == ASSUME TypeOK, [Next]_vars PROVE TypeOK'
<1>1. CASE SignalsMove
  <2>1. rsrp' \in Signals /\ course' \in [Cell -> {COURSE, -COURSE}]
    BY <1>1, UpdateType DEF SignalsMove
  <2>2. calls' \in 0..Calls
    BY <1>1, Figures DEF SignalsMove
  <2>3. served' \in BOOLEAN
    BY <1>1, Zenon DEF SignalsMove
  <2> QED BY <1>1, <2>1, <2>2, <2>3, CheckType, RememberType DEF SignalsMove, TypeOK, Signals
<1>2. CASE SignalsStay
  <2>1. rsrp \in Signals /\ rsrp' = rsrp /\ course' = course
    BY <1>2 DEF SignalsStay, signals, TypeOK, Signals
  <2>2. calls' \in 0..Calls
    BY <1>2, Figures DEF SignalsStay, TypeOK
  <2>3. served' \in BOOLEAN
    BY <1>2, Zenon DEF SignalsStay
  <2> QED BY <1>2, <2>1, <2>2, <2>3, CheckType, RememberType DEF SignalsStay, TypeOK
<1>3. CASE send_measurement_report
  BY <1>3 DEF send_measurement_report, signals, statics, TypeOK
<1>4. CASE UNCHANGED vars
  BY <1>4 DEF vars, signals, statics, history, TypeOK
<1> QED BY <1>1, <1>2, <1>3, <1>4 DEF Next

(* The types hold at the start. *)
LEMMA InitType == ASSUME Init PROVE TypeOK
<1>1. a3_checked \in BOOLEAN /\ a4_checked \in BOOLEAN /\ served \in BOOLEAN
  BY Zenon DEF Init
<1>2. rsrp \in [Cell -> 0..MAX_RSRP]
  <2>1. 0..(MAX_RSRP - 1) \subseteq 0..MAX_RSRP
    BY Figures
  <2> QED BY <2>1 DEF Init
<1>3. course \in [Cell -> {COURSE, -COURSE}]
  BY DEF Init
<1>4. change \in {1, 2, 5} /\ calls \in 0..Calls /\ event \in Event \cup {"def"}
  BY Figures DEF Init
<1>5. last \in [Event -> -1..1] /\ owed \subseteq Event /\ fresh \subseteq Event
  BY DEF Init
<1> QED BY <1>1, <1>2, <1>3, <1>4, <1>5 DEF TypeOK

-----------------------------------------------------------------------------
(* What a call on signals r, of powers s and n, remembers of the four events. *)
MemoryOf(r, s, n) ==
  /\ s \in Nat /\ n \in Nat
  /\ last'["a1"] = IF s > THRESHOLD1 THEN 1 ELSE IF s < THRESHOLD1 THEN -1 ELSE last["a1"]
  /\ last'["a2"] = IF s < THRESHOLD2 THEN 1 ELSE IF s > THRESHOLD2 THEN -1 ELSE last["a2"]
  /\ last'["a3"] = IF n > s THEN 1 ELSE IF n < s THEN -1 ELSE last["a3"]
  /\ last'["a4"] = IF n > THRESHOLD2 THEN 1 ELSE IF n < THRESHOLD2 THEN -1 ELSE last["a4"]
  /\ "a1" \in fresh' <=> "a1" \in fresh \/ (last["a1"] = -1 /\ s > THRESHOLD1)
  /\ "a2" \in fresh' <=> "a2" \in fresh \/ (last["a2"] = -1 /\ s < THRESHOLD2)
  /\ "a3" \in fresh' <=> "a3" \in fresh \/ (last["a3"] = -1 /\ n > s)
  /\ "a4" \in fresh' <=> "a4" \in fresh \/ (last["a4"] = -1 /\ n > THRESHOLD2)
  /\ "a1" \in owed' =>
       event' # "a1" /\ ((last["a1"] = -1 /\ s > THRESHOLD1) \/ (r = rsrp /\ "a1" \in owed))
  /\ "a2" \in owed' =>
       event' # "a2" /\ ((last["a2"] = -1 /\ s < THRESHOLD2) \/ (r = rsrp /\ "a2" \in owed))
  /\ "a3" \in owed' =>
       event' # "a3" /\ ((last["a3"] = -1 /\ n > s) \/ (r = rsrp /\ "a3" \in owed))
  /\ "a4" \in owed' =>
       event' # "a4" /\ ((last["a4"] = -1 /\ n > THRESHOLD2) \/ (r = rsrp /\ "a4" \in owed))

(* The tests of check_events, in terms of the two powers. *)
TestsOf(r, s, n) ==
  /\ change \in {1, 2, 5} /\ Armed(r) \in {1, 2, 5}
  /\ Armed(r) = 1 <=> change = 1 \/ (change = 5 /\ s < THRESHOLD1)
  /\ Armed(r) = 2 <=> change = 2 \/ (change = 5 /\ ~(s < THRESHOLD1) /\ s > THRESHOLD2)
  /\ IsA1(r) <=> Armed(r) = 1 /\ s > THRESHOLD1
  /\ IsA2(r) <=> Armed(r) = 2 /\ s < THRESHOLD2
  /\ IsA3(r) <=> n > s /\ ~A3Checked(r)
  /\ IsA4(r) <=> n > THRESHOLD2 /\ ~A4Checked(r)
  /\ A3Checked(r) <=> a3_checked /\ n >= s
  /\ A4Checked(r) <=> a4_checked /\ n >= THRESHOLD2

(* What a call remembers of each of the four events. *)
LEMMA Histories ==
  ASSUME NEW r \in Signals, Remember(r), NEW s, NEW n, s = r["serving"], n = r["neighbour"]
  PROVE  MemoryOf(r, s, n)
<1>t. s \in Nat /\ n \in Nat /\ THRESHOLD1 \in Nat /\ THRESHOLD2 \in Nat
  BY Sides, Figures
<1>m. \A e \in Event : /\ last'[e] = IF Above(e, r) = 0 THEN last[e] ELSE Above(e, r)
                       /\ e \in fresh' <=> e \in fresh \/ (last[e] = -1 /\ Above(e, r) = 1)
                       /\ e \in owed' => /\ e # event'
                                         /\ \/ last[e] = -1 /\ Above(e, r) = 1
                                            \/ r = rsrp /\ e \in owed
  BY Remembered
<1>1. /\ last'["a1"] = IF s > THRESHOLD1 THEN 1 ELSE IF s < THRESHOLD1 THEN -1 ELSE last["a1"]
      /\ "a1" \in fresh' <=> "a1" \in fresh \/ (last["a1"] = -1 /\ s > THRESHOLD1)
      /\ "a1" \in owed' => event' # "a1" /\ ((last["a1"] = -1 /\ s > THRESHOLD1) \/ (r = rsrp /\ "a1" \in owed))
  BY <1>m, <1>t, Sides DEF Event
<1>2. /\ last'["a2"] = IF s < THRESHOLD2 THEN 1 ELSE IF s > THRESHOLD2 THEN -1 ELSE last["a2"]
      /\ "a2" \in fresh' <=> "a2" \in fresh \/ (last["a2"] = -1 /\ s < THRESHOLD2)
      /\ "a2" \in owed' => event' # "a2" /\ ((last["a2"] = -1 /\ s < THRESHOLD2) \/ (r = rsrp /\ "a2" \in owed))
  BY <1>m, <1>t, Sides DEF Event
<1>3. /\ last'["a3"] = IF n > s THEN 1 ELSE IF n < s THEN -1 ELSE last["a3"]
      /\ "a3" \in fresh' <=> "a3" \in fresh \/ (last["a3"] = -1 /\ n > s)
      /\ "a3" \in owed' => event' # "a3" /\ ((last["a3"] = -1 /\ n > s) \/ (r = rsrp /\ "a3" \in owed))
  BY <1>m, <1>t, Sides DEF Event
<1>4. /\ last'["a4"] = IF n > THRESHOLD2 THEN 1 ELSE IF n < THRESHOLD2 THEN -1 ELSE last["a4"]
      /\ "a4" \in fresh' <=> "a4" \in fresh \/ (last["a4"] = -1 /\ n > THRESHOLD2)
      /\ "a4" \in owed' => event' # "a4" /\ ((last["a4"] = -1 /\ n > THRESHOLD2) \/ (r = rsrp /\ "a4" \in owed))
  BY <1>m, <1>t, Sides DEF Event
<1> QED BY <1>t, <1>1, <1>2, <1>3, <1>4 DEF MemoryOf

(* The tests of check_events say what they say of the two powers. *)
LEMMA Tests ==
  ASSUME TypeOK, NEW r, NEW s, NEW n, s = r["serving"], n = r["neighbour"]
  PROVE  TestsOf(r, s, n)
<1>1. change \in {1, 2, 5}
  BY DEF TypeOK
<1>2. /\ Armed(r) \in {1, 2, 5}
      /\ Armed(r) = 1 <=> change = 1 \/ (change = 5 /\ s < THRESHOLD1)
      /\ Armed(r) = 2 <=> change = 2 \/ (change = 5 /\ ~(s < THRESHOLD1) /\ s > THRESHOLD2)
  BY <1>1 DEF Armed
<1> QED BY <1>1, <1>2 DEF TestsOf, IsA1, IsA2, IsA3, IsA4, A3Checked, A4Checked

-----------------------------------------------------------------------------
(* A call of check_events, on the signals as they are or as they have moved,  *)
(* returns only events whose boundary was crossed since they were reported.   *)
LEMMA ReportLook ==
  ASSUME TypeOK, ReportInv, NEW r \in Signals, check_events(r), Remember(r), served' = FALSE
  PROVE  ReportInv'
<1> DEFINE s == r["serving"]
           n == r["neighbour"]
<1>t. THRESHOLD1 \in Nat /\ THRESHOLD2 \in Nat /\ THRESHOLD1 < THRESHOLD2
  BY Figures
<1>h. MemoryOf(r, s, n)
  BY Histories
<1>f. TestsOf(r, s, n)
  BY Tests
<1> HIDE DEF s, n
<1>5. CASE IsA1(r)
  <2>1. event' = "a1" /\ change' = 5 /\ a3_checked' = a3_checked /\ a4_checked' = a4_checked
    BY <1>5 DEF check_events
  <2> QED BY <1>t, <1>h, <1>f, <1>5, <2>1 DEF MemoryOf, TestsOf, ReportInv
<1>6. CASE ~IsA1(r) /\ IsA2(r)
  <2>1. event' = "a2" /\ change' = 5 /\ a3_checked' = a3_checked /\ a4_checked' = a4_checked
    BY <1>6 DEF check_events
  <2> QED BY <1>t, <1>h, <1>f, <1>6, <2>1 DEF MemoryOf, TestsOf, ReportInv
<1>7. CASE ~IsA1(r) /\ ~IsA2(r) /\ IsA3(r)
  <2>1. event' = "a3" /\ change' = 5 /\ a3_checked' = TRUE /\ a4_checked' = a4_checked
    BY <1>7 DEF check_events
  <2> QED BY <1>t, <1>h, <1>f, <1>7, <2>1 DEF MemoryOf, TestsOf, ReportInv
<1>8. CASE ~IsA1(r) /\ ~IsA2(r) /\ ~IsA3(r) /\ IsA4(r)
  <2>1. event' = "a4" /\ change' = 5 /\ a3_checked' = A3Checked(r) /\ a4_checked' = TRUE
    BY <1>8 DEF check_events
  <2> QED BY <1>t, <1>h, <1>f, <1>8, <2>1 DEF MemoryOf, TestsOf, ReportInv
<1>9. CASE ~IsA1(r) /\ ~IsA2(r) /\ ~IsA3(r) /\ ~IsA4(r)
  <2>1. event' = "def" /\ change' = Armed(r)
        /\ a3_checked' = A3Checked(r) /\ a4_checked' = A4Checked(r)
    BY <1>9 DEF check_events
  <2> QED BY <1>t, <1>h, <1>f, <1>9, <2>1 DEF MemoryOf, TestsOf, ReportInv
<1> QED BY <1>5, <1>6, <1>7, <1>8, <1>9

(* A report takes the event out of fresh, but never one whose flag is not set. *)
LEMMA ReportStep == ASSUME TypeOK, ReportInv, [Next]_vars PROVE ReportInv'
<1>1. CASE SignalsMove
  BY <1>1, UpdateType, ReportLook DEF SignalsMove
<1>2. CASE SignalsStay
  <2>1. rsrp \in Signals
    BY DEF TypeOK, Signals
  <2> QED BY <1>2, <2>1, ReportLook DEF SignalsStay
<1>3. CASE send_measurement_report
  BY <1>3 DEF send_measurement_report, statics, ReportInv
<1>4. CASE UNCHANGED vars
  BY <1>4 DEF vars, signals, statics, history, ReportInv
<1> QED BY <1>1, <1>2, <1>3, <1>4 DEF Next

-----------------------------------------------------------------------------
(* A call on the same signals goes on where the last one has stopped. *)
LEMMA StayStep ==
  ASSUME Calls >= 3, TypeOK, EventInv, SignalsStay
  PROVE  EventInv'
<1> DEFINE s == rsrp["serving"]
           n == rsrp["neighbour"]
<1>r. rsrp \in Signals
  BY DEF TypeOK, Signals
<1>t. /\ THRESHOLD1 \in Nat /\ THRESHOLD2 \in Nat /\ THRESHOLD1 < THRESHOLD2
      /\ Calls \in Nat /\ calls \in 0..Calls
  BY Figures DEF TypeOK
<1>h. MemoryOf(rsrp, s, n)
  BY <1>r, Histories DEF SignalsStay
<1>f. TestsOf(rsrp, s, n)
  BY Tests
<1>s. S = s /\ S' = s /\ N = n /\ N' = n /\ course' = course
  BY DEF SignalsStay, signals, S, N
<1>c. calls' = IF calls < Calls THEN calls + 1 ELSE calls
  BY DEF SignalsStay
<1>k. check_events(rsrp)
  BY DEF SignalsStay
<1> HIDE DEF s, n
<1>i. SyncInv /\ PlaceInv /\ TurnInv /\ ReadyInv /\ OwedInv
  BY DEF EventInv
<1>1. ~IsA1(rsrp) /\ ~IsA2(rsrp)
  BY <1>t, <1>h, <1>f, <1>s, <1>i DEF MemoryOf, TestsOf, PlaceInv
<1>2. calls' >= 1 /\ calls' \in Nat
  BY <1>c, <1>t
<1>n. /\ "a1" \in owed' => "a1" \in owed
      /\ "a2" \in owed' => "a2" \in owed
      /\ "a3" \in owed' => event' # "a3" /\ N > S /\ ~a3_checked
      /\ "a4" \in owed' => event' # "a4" /\ N > THRESHOLD2 /\ ~a4_checked
  BY <1>t, <1>h, <1>s, <1>i DEF MemoryOf, SyncInv, OwedInv, ReadyInv, PlaceInv
<1>y. SyncInv'
  BY <1>2, <1>h, <1>s DEF SyncInv, MemoryOf
<1>7. CASE IsA3(rsrp)
  <2>1. event' = "a3" /\ change' = 5 /\ a3_checked' = TRUE /\ a4_checked' = a4_checked
    BY <1>1, <1>7, <1>k DEF check_events
  <2>2. calls = 0 \/ (calls = 1 /\ event \in {"a1", "a2"})
    BY <1>7, <1>t, <1>h, <1>f, <1>s, <1>i DEF MemoryOf, TestsOf, PlaceInv, TurnInv
  <2>3. PlaceInv'
    BY <1>2, <2>1 DEF PlaceInv
  <2>4. TurnInv'
    BY <1>c, <1>t, <1>s, <1>i, <2>1, <2>2 DEF TurnInv, PlaceInv
  <2>5. ReadyInv'
    BY <1>7, <1>t, <1>h, <1>f, <1>s, <1>i, <2>1, <2>2 DEF MemoryOf, TestsOf, ReadyInv
  <2>6. OwedInv'
    BY <1>7, <1>t, <1>h, <1>f, <1>s, <1>i, <1>n, <2>1, <2>2 DEF MemoryOf, TestsOf, OwedInv
  <2> QED BY <1>y, <2>3, <2>4, <2>5, <2>6 DEF EventInv
<1>8. CASE ~IsA3(rsrp) /\ IsA4(rsrp)
  <2>1. event' = "a4" /\ change' = 5 /\ a3_checked' = A3Checked(rsrp) /\ a4_checked' = TRUE
    BY <1>1, <1>8, <1>k DEF check_events
  <2>2. calls = 0 \/ (calls >= 1 /\ event \in {"a1", "a2", "a3"})
    BY <1>8, <1>t, <1>h, <1>f, <1>s, <1>i DEF MemoryOf, TestsOf, PlaceInv, TurnInv
  <2>3. PlaceInv'
    BY <1>2, <2>1 DEF PlaceInv
  <2>4. TurnInv'
    BY <1>8, <1>f, <1>h, <1>c, <1>t, <1>s, <1>i, <2>1, <2>2
    DEF TurnInv, PlaceInv, TestsOf, MemoryOf
  <2>5. ReadyInv'
    BY <1>8, <1>t, <1>h, <1>f, <1>s, <1>i, <2>1, <2>2 DEF MemoryOf, TestsOf, ReadyInv
  <2>6. OwedInv'
    BY <1>8, <1>t, <1>h, <1>f, <1>s, <1>i, <1>n, <2>1, <2>2 DEF MemoryOf, TestsOf, OwedInv
  <2> QED BY <1>y, <2>3, <2>4, <2>5, <2>6 DEF EventInv
<1>9. CASE ~IsA3(rsrp) /\ ~IsA4(rsrp)
  <2>1. event' = "def" /\ change' = Armed(rsrp)
        /\ a3_checked' = A3Checked(rsrp) /\ a4_checked' = A4Checked(rsrp)
    BY <1>1, <1>9, <1>k DEF check_events
  <2>3. PlaceInv'
    BY <1>1, <1>2, <2>1, <1>f, <1>s, <1>h, <1>t DEF PlaceInv, TestsOf, MemoryOf
  <2>4. TurnInv'
    BY <1>9, <1>f, <1>h, <1>t, <1>s, <2>1 DEF TurnInv, TestsOf, MemoryOf
  <2>2. (s < THRESHOLD1 => change' = 1) /\ (s > THRESHOLD2 => change' = 2)
    BY <1>1, <1>t, <1>h, <1>f, <1>s, <1>i, <2>1 DEF MemoryOf, TestsOf, PlaceInv
  <2>5. ReadyInv'
    BY <1>9, <1>t, <1>h, <1>f, <1>s, <1>i, <2>1, <2>2 DEF MemoryOf, TestsOf, ReadyInv
  <2>6. OwedInv'
    BY <1>9, <1>t, <1>h, <1>f, <1>s, <1>i, <1>n, <2>1 DEF MemoryOf, TestsOf, OwedInv
  <2> QED BY <1>y, <2>3, <2>4, <2>5, <2>6 DEF EventInv
<1> QED BY <1>7, <1>8, <1>9

(* The first call on signals that have moved. *)
LEMMA MoveStep ==
  ASSUME Calls >= 3, TypeOK, EventInv, SignalsMove
  PROVE  EventInv'
<1> DEFINE r == rsrp'
           s == rsrp'["serving"]
           n == rsrp'["neighbour"]
<1>r. r \in Signals
  BY UpdateType DEF SignalsMove
<1>t. /\ THRESHOLD1 \in Nat /\ THRESHOLD2 \in Nat /\ MAX_RSRP \in Nat /\ COURSE \in Nat \ {0}
      /\ COURSE < THRESHOLD1 /\ THRESHOLD1 + COURSE < THRESHOLD2 /\ THRESHOLD2 + COURSE < MAX_RSRP
      /\ Calls \in Nat /\ calls \in {0, Calls} /\ calls' = 1
  BY Figures DEF SignalsMove
<1>h. MemoryOf(r, s, n)
  BY <1>r, Histories DEF SignalsMove
<1>f. TestsOf(r, s, n)
  BY Tests
<1>u. /\ s <= S + COURSE /\ s >= S - COURSE
      /\ s = S => S \in {0, MAX_RSRP}
      /\ S \in {THRESHOLD1, THRESHOLD2} =>
           s = S + course["serving"] /\ course'["serving"] = course["serving"]
  BY UpdateServing DEF SignalsMove
<1>s. S' = s /\ N' = n /\ S \in Nat /\ N \in Nat
  BY Figures DEF S, N, TypeOK, Cell
<1>v. course["serving"] \in {COURSE, -COURSE} /\ (r = rsrp => s = S)
  BY DEF TypeOK, Cell, S
<1>k. check_events(r)
  BY DEF SignalsMove
<1> HIDE DEF r, s, n
<1>i. SyncInv /\ PlaceInv /\ TurnInv /\ ReadyInv /\ OwedInv
  BY DEF EventInv
<1>e. event = "def" \/ (event = "a4" /\ calls = 3 /\ THRESHOLD1 < S /\ S < THRESHOLD2)
  <2>1. event \in {"a1", "a2", "a3", "a4", "def"}
    BY DEF TypeOK, Event
  <2> QED BY <1>t, <1>i, <2>1 DEF PlaceInv, TurnInv
<1>o. /\ r = rsrp => "a1" \notin owed /\ "a2" \notin owed
      /\ "a3" \notin owed /\ "a4" \notin owed
  BY <1>t, <1>u, <1>s, <1>v, <1>e, <1>i DEF OwedInv
<1>a. /\ last["a1"] = -1 => change = 1 \/ S = THRESHOLD1
      /\ last["a2"] = -1 => change = 2 \/ S = THRESHOLD2
      /\ last["a3"] = -1 => ~a3_checked
      /\ last["a4"] = -1 => ~a4_checked
  BY <1>t, <1>s, <1>e, <1>i DEF ReadyInv
<1>b. /\ "a1" \in owed' => event' = "a1" \/ change # 1
      /\ "a2" \in owed' => event' = "a2" \/ change # 2
  BY <1>k, <1>t, <1>h, <1>f, <1>o DEF check_events, MemoryOf, TestsOf
<1>w. /\ "a1" \in owed' => s - course'["serving"] = THRESHOLD1
      /\ "a2" \in owed' => s - course'["serving"] = THRESHOLD2
  BY <1>t, <1>h, <1>o, <1>a, <1>b, <1>u, <1>s, <1>v DEF MemoryOf
<1>y. SyncInv'
  BY <1>t, <1>h, <1>s DEF SyncInv, MemoryOf
<1>5. CASE IsA1(r)
  <2>1. event' = "a1" /\ change' = 5 /\ a3_checked' = a3_checked /\ a4_checked' = a4_checked
    BY <1>5, <1>k DEF check_events
  <2>2. THRESHOLD1 < s /\ s < THRESHOLD2
    BY <1>5, <1>t, <1>h, <1>f, <1>u, <1>s, <1>i DEF MemoryOf, TestsOf, PlaceInv
  <2>3. PlaceInv' /\ TurnInv'
    BY <1>t, <1>s, <2>1, <2>2 DEF PlaceInv, TurnInv
  <2>5. ReadyInv'
    BY <1>t, <1>h, <1>s, <1>a, <2>1, <2>2 DEF MemoryOf, ReadyInv
  <2>6. OwedInv'
    BY <1>t, <1>h, <1>s, <1>o, <1>a, <1>w, <2>1 DEF MemoryOf, OwedInv
  <2> QED BY <1>y, <2>3, <2>5, <2>6 DEF EventInv
<1>6. CASE ~IsA1(r) /\ IsA2(r)
  <2>1. event' = "a2" /\ change' = 5 /\ a3_checked' = a3_checked /\ a4_checked' = a4_checked
    BY <1>6, <1>k DEF check_events
  <2>2. THRESHOLD1 < s /\ s < THRESHOLD2
    BY <1>6, <1>t, <1>h, <1>f, <1>u, <1>s, <1>i DEF MemoryOf, TestsOf, PlaceInv
  <2>3. PlaceInv' /\ TurnInv'
    BY <1>t, <1>s, <2>1, <2>2 DEF PlaceInv, TurnInv
  <2>5. ReadyInv'
    BY <1>t, <1>h, <1>s, <1>a, <2>1, <2>2 DEF MemoryOf, ReadyInv
  <2>6. OwedInv'
    BY <1>t, <1>h, <1>s, <1>o, <1>a, <1>w, <2>1 DEF MemoryOf, OwedInv
  <2> QED BY <1>y, <2>3, <2>5, <2>6 DEF EventInv
<1>7. CASE ~IsA1(r) /\ ~IsA2(r) /\ IsA3(r)
  <2>1. event' = "a3" /\ change' = 5 /\ a3_checked' = TRUE /\ a4_checked' = a4_checked
    BY <1>7, <1>k DEF check_events
  <2>3. PlaceInv' /\ TurnInv'
    BY <1>t, <1>s, <2>1 DEF PlaceInv, TurnInv
  <2>5. ReadyInv'
    BY <1>7, <1>f, <1>t, <1>h, <1>s, <1>a, <2>1 DEF MemoryOf, TestsOf, ReadyInv
  <2>6. OwedInv'
    BY <1>t, <1>h, <1>s, <1>o, <1>a, <1>w, <2>1 DEF MemoryOf, OwedInv
  <2> QED BY <1>y, <2>3, <2>5, <2>6 DEF EventInv
<1>8. CASE ~IsA1(r) /\ ~IsA2(r) /\ ~IsA3(r) /\ IsA4(r)
  <2>1. event' = "a4" /\ change' = 5 /\ a3_checked' = A3Checked(r) /\ a4_checked' = TRUE
    BY <1>8, <1>k DEF check_events
  <2>3. PlaceInv' /\ TurnInv'
    BY <1>8, <1>f, <1>h, <1>t, <1>s, <2>1 DEF PlaceInv, TurnInv, TestsOf, MemoryOf
  <2>5. ReadyInv'
    BY <1>8, <1>f, <1>t, <1>h, <1>s, <1>a, <2>1 DEF MemoryOf, TestsOf, ReadyInv
  <2>6. OwedInv'
    BY <1>8, <1>f, <1>t, <1>h, <1>s, <1>o, <1>a, <1>w, <2>1 DEF MemoryOf, TestsOf, OwedInv
  <2> QED BY <1>y, <2>3, <2>5, <2>6 DEF EventInv
<1>9. CASE ~IsA1(r) /\ ~IsA2(r) /\ ~IsA3(r) /\ ~IsA4(r)
  <2>1. event' = "def" /\ change' = Armed(r)
        /\ a3_checked' = A3Checked(r) /\ a4_checked' = A4Checked(r)
    BY <1>9, <1>k DEF check_events
  <2>3. PlaceInv' /\ TurnInv'
    BY <1>9, <1>f, <1>h, <1>t, <1>s, <2>1 DEF PlaceInv, TurnInv, TestsOf, MemoryOf
  <2>2. (s < THRESHOLD1 => change' = 1) /\ (s > THRESHOLD2 => change' = 2)
    BY <1>9, <1>f, <1>t, <1>h, <1>s, <1>i, <1>u, <2>1 DEF MemoryOf, TestsOf, PlaceInv
  <2>5. ReadyInv'
    BY <1>9, <1>f, <1>t, <1>h, <1>s, <1>a, <2>1, <2>2 DEF MemoryOf, TestsOf, ReadyInv
  <2>6. OwedInv'
    BY <1>9, <1>f, <1>t, <1>h, <1>s, <1>o, <1>a, <1>w, <2>1 DEF MemoryOf, TestsOf, OwedInv
  <2> QED BY <1>y, <2>3, <2>5, <2>6 DEF EventInv
<1> QED BY <1>5, <1>6, <1>7, <1>8, <1>9

(* Every step keeps the bookkeeping of the events. *)
LEMMA EventStep ==
  ASSUME Calls >= 3, TypeOK, EventInv, [Next]_vars
  PROVE  EventInv'
<1> USE DEF EventInv, SyncInv, PlaceInv, TurnInv, ReadyInv, OwedInv, S, N
<1>1. CASE send_measurement_report
  BY <1>1 DEF send_measurement_report, signals, statics
<1>2. CASE UNCHANGED vars
  BY <1>2 DEF vars, signals, statics, history
<1> QED BY <1>1, <1>2, MoveStep, StayStep DEF Next

(* The bookkeeping of the events holds at the start. *)
LEMMA EventInit == ASSUME Init PROVE ReportInv /\ EventInv
<1> USE DEF Init, Event
<1>1. /\ last["a1"] = 0 /\ last["a2"] = 0 /\ last["a3"] = -1 /\ last["a4"] = -1
      /\ event = "def" /\ change = 5 /\ calls = 0 /\ owed = {}
      /\ ~a3_checked /\ ~a4_checked
  OBVIOUS
<1>2. ReportInv
  BY <1>1 DEF ReportInv
<1>3. SyncInv /\ PlaceInv /\ TurnInv
  BY <1>1 DEF SyncInv, PlaceInv, TurnInv
<1>4. ReadyInv /\ OwedInv
  BY <1>1 DEF ReadyInv, OwedInv
<1> QED BY <1>2, <1>3, <1>4 DEF EventInv

(* After three calls only what was lost on a threshold is owed. *)
LEMMA OwedIsLost ==
  ASSUME Calls >= 3, TypeOK, EventInv
  PROVE  LostOnlyOnThreshold
<1> SUFFICES ASSUME calls = Calls, NEW e \in owed
             PROVE  /\ e \in {"a1", "a2"}
                    /\ rsrp["serving"] - course["serving"] = IF e = "a1" THEN THRESHOLD1 ELSE THRESHOLD2
  BY DEF LostOnlyOnThreshold
<1>1. e \in {"a1", "a2", "a3", "a4"}
  BY DEF TypeOK, Event
<1>2. event \notin {"a1", "a2", "a3"}
  BY Figures DEF EventInv, PlaceInv, TurnInv
<1> QED BY <1>1, <1>2 DEF EventInv, OwedInv, S

-----------------------------------------------------------------------------
(* In every behaviour the power of either cell stays within 0 and max_rsrp    *)
(* (so that the int8_t does not overflow), and event_change, the flags and    *)
(* the event that check_events returns keep their types.                      *)
THEOREM TypeCorrect == Spec => []TypeOK
<1>1. Init => TypeOK
  BY InitType
<1>2. TypeOK /\ [Next]_vars => TypeOK'
  BY TypeStep
<1> QED BY <1>1, <1>2, PTL DEF Spec

(* Whenever measurement requests come, send_measurement_report carries an     *)
(* event only if the signals have crossed its boundary since that event was   *)
(* last reported.                                                             *)
THEOREM ReportsAreSound == Spec => ReportSound
<1>1. Init => TypeOK /\ ReportInv
  BY InitType, EventInit
<1>2. TypeOK /\ ReportInv /\ [Next]_vars => (TypeOK /\ ReportInv)'
  BY TypeStep, ReportStep
<1>3. TypeOK /\ ReportInv => [send_measurement_report /\ event # "def" => event \in fresh]_vars
  BY DEF ReportInv, send_measurement_report
<1> QED BY <1>1, <1>2, <1>3, PTL DEF Spec, ReportSound

(* Three calls of set_current_signal_event on the same signals are enough to  *)
(* generate every event their last move caused, except an A1 or A2 of a       *)
(* serving cell that has halted exactly on its threshold.                     *)
THEOREM OnlyThresholdLosesEvents == ASSUME Calls >= 3 PROVE Spec => []LostOnlyOnThreshold
<1>1. Init => TypeOK /\ EventInv
  BY InitType, EventInit
<1>2. TypeOK /\ EventInv /\ [Next]_vars => (TypeOK /\ EventInv)'
  BY TypeStep, EventStep
<1>3. TypeOK /\ EventInv => LostOnlyOnThreshold
  BY OwedIsLost
<1> QED BY <1>1, <1>2, <1>3, PTL DEF Spec
=============================================================================
