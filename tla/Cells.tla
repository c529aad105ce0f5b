------------------------------- MODULE Cells -------------------------------
(***************************************************************************)
(* The cells of the UE (user_equipment.c): the signal power of the serving *)
(* and of the neighbouring cell, the events A1 to A4 derived from it, and  *)
(* the measurement report that carries one.  All of it belongs to the main *)
(* thread: an iteration of its loop answers a measurement request if one   *)
(* has come and then calls set_current_signal_event.                       *)
(*                                                                         *)
(* Time is what the loop sees of it: update_rsrps finds that its second is *)
(* over, or not.  The loop polls, so it calls set_current_signal_event     *)
(* many times between two updates; Calls is the least number of calls that *)
(* the properties rely on.                                                 *)
(***************************************************************************)
EXTENDS Integers

CONSTANTS
  MAX_RSRP,    \* max_rsrp (97)
  THRESHOLD1,  \* threshold1 (19)
  THRESHOLD2,  \* threshold2 (77)
  COURSE,      \* signal_course_value (5)
  Calls        \* calls of set_current_signal_event on the same signals

(* One update does not lead from a threshold to an end of the range, nor    *)
(* from one threshold to the other, and an rsrp before it is clipped still  *)
(* fits its int8_t.                                                         *)
ASSUME CellAssumption ==
  /\ MAX_RSRP \in Nat /\ THRESHOLD1 \in Nat /\ THRESHOLD2 \in Nat
  /\ COURSE \in Nat \ {0} /\ Calls \in Nat \ {0}
  /\ COURSE < THRESHOLD1 /\ THRESHOLD1 + COURSE < THRESHOLD2
  /\ THRESHOLD2 + COURSE < MAX_RSRP
  /\ MAX_RSRP + COURSE <= 127

VARIABLES
  rsrp, course,            \* cells_signals[i].rsrp and .signal_course
  change,                  \* event_change: 5, or 1 below threshold1, or 2 above threshold2
  a3_checked, a4_checked,  \* the statics of check_events
  event,                   \* current_event
  served,                  \* this iteration has answered a measurement request
  calls,                   \* calls of check_events on these signals, up to Calls
  last, owed, fresh        \* histories: see Reference below

signals == <<rsrp, course>>
statics == <<change, a3_checked, a4_checked>>
history == <<last, owed, fresh>>
vars    == <<signals, statics, event, served, calls, history>>

-----------------------------------------------------------------------------
Cell    == {"serving", "neighbour"}
Event   == {"a1", "a2", "a3", "a4"}

(* One update of one cell: the power moves by its course, is clipped, and    *)
(* the course turns at either end.                                           *)
ClipTop(x) == IF x > MAX_RSRP THEN MAX_RSRP ELSE x   \* mutant: no lower end
Clip(x) == IF x > MAX_RSRP THEN MAX_RSRP ELSE IF x < 0 THEN 0 ELSE x

TurnPastEnd(x, c) == IF x > MAX_RSRP \/ x < 0 THEN -c ELSE c   \* mutant: never, once clipped
Turn(x, c) == IF x >= MAX_RSRP \/ x <= 0 THEN -c ELSE c

update_rsrps ==
  /\ rsrp' = [i \in Cell |-> Clip(rsrp[i] + course[i])]
  /\ course' = [i \in Cell |-> Turn(rsrp'[i], course[i])]

(* check_events: what the first two tests make of event_change, and what is  *)
(* left of the two flags once the signals have fallen back.                  *)
Armed(r) ==
  IF change # 5 THEN change
  ELSE IF r["serving"] < THRESHOLD1 THEN 1
  ELSE IF r["serving"] > THRESHOLD2 THEN 2 ELSE 5
A3Once(r) == a3_checked   \* mutant: a3_checked is never taken back
A3Checked(r) == a3_checked /\ r["neighbour"] >= r["serving"]
A4Checked(r) == a4_checked /\ r["neighbour"] >= THRESHOLD2

IsA1(r) == Armed(r) = 1 /\ r["serving"] > THRESHOLD1
IsA2(r) == Armed(r) = 2 /\ r["serving"] < THRESHOLD2
IsA3(r) == r["neighbour"] > r["serving"] /\ ~A3Checked(r)
IsA4Again(r) == r["neighbour"] > THRESHOLD2   \* mutant: a4_checked is not tested
IsA4(r) == r["neighbour"] > THRESHOLD2 /\ ~A4Checked(r)

(* The value returned is the first that applies; the statics as that leaves  *)
(* them: A1 and A2 return before the flags are looked at.                    *)
check_events(r) ==
  \/ /\ IsA1(r) \/ IsA2(r)
     /\ event' = IF IsA1(r) THEN "a1" ELSE "a2"
     /\ change' = 5 /\ UNCHANGED <<a3_checked, a4_checked>>
  \/ /\ ~IsA1(r) /\ ~IsA2(r) /\ IsA3(r)
     /\ event' = "a3"
     /\ change' = 5 /\ a3_checked' = TRUE /\ UNCHANGED a4_checked
  \/ /\ ~IsA1(r) /\ ~IsA2(r) /\ ~IsA3(r) /\ IsA4(r)
     /\ event' = "a4"
     /\ change' = 5 /\ a3_checked' = A3Checked(r) /\ a4_checked' = TRUE
  \/ /\ ~IsA1(r) /\ ~IsA2(r) /\ ~IsA3(r) /\ ~IsA4(r)
     /\ event' = "def"
     /\ change' = Armed(r) /\ a3_checked' = A3Checked(r) /\ a4_checked' = A4Checked(r)

-----------------------------------------------------------------------------
(* Reference: what the events stand for.  Above(e, r) is 1 on the side of    *)
(* its boundary that event e announces, -1 on the other and 0 on it; last[e] *)
(* is the side the signals were on when they were last looked at.  An event  *)
(* is owed from the update that crosses its boundary until it is generated   *)
(* or the signals move on, and fresh until it is reported.                   *)
Sign(x) == IF x > 0 THEN 1 ELSE IF x < 0 THEN -1 ELSE 0
Above(e, r) ==
  Sign(CASE e = "a1" -> r["serving"] - THRESHOLD1
         [] e = "a2" -> THRESHOLD2 - r["serving"]
         [] e = "a3" -> r["neighbour"] - r["serving"]
         [] e = "a4" -> r["neighbour"] - THRESHOLD2)
Crossed(r) == {e \in Event : last[e] = -1 /\ Above(e, r) = 1}
Remember(r) ==
  /\ last' = [e \in Event |-> IF Above(e, r) = 0 THEN last[e] ELSE Above(e, r)]
  /\ owed' = (Crossed(r) \cup IF r = rsrp THEN owed ELSE {}) \ {event'}
  /\ fresh' = fresh \cup Crossed(r)

-----------------------------------------------------------------------------
(* set_current_signal_event, when a second is over and when it is not.  The  *)
(* first call may come at any time after initialize_cells.                   *)
SignalsMove ==
  /\ calls \in {0, Calls} /\ calls' = 1
  /\ update_rsrps /\ check_events(rsrp')
  /\ Remember(rsrp') /\ served' = FALSE

SignalsStay ==
  /\ calls' = IF calls < Calls THEN calls + 1 ELSE calls
  /\ UNCHANGED signals /\ check_events(rsrp)
  /\ Remember(rsrp) /\ served' = FALSE

send_measurement_report ==
  /\ ~served /\ served' = TRUE
  /\ fresh' = fresh \ {event}
  /\ UNCHANGED <<signals, statics, event, calls, last, owed>>

(* initialize_cells: rand() % max_rsrp. *)
Init ==
  /\ rsrp \in [Cell -> 0..(MAX_RSRP - 1)] /\ course = [i \in Cell |-> COURSE]
  /\ change = 5 /\ a3_checked = FALSE /\ a4_checked = FALSE
  /\ event = "def" /\ served = FALSE /\ calls = 0
  /\ last = [e \in Event |-> IF e \in {"a1", "a2"} THEN 0 ELSE -1]
  /\ owed = {} /\ fresh = {}

Next == SignalsMove \/ SignalsStay \/ send_measurement_report

Spec == Init /\ [][Next]_vars
FairSpec == Spec /\ WF_vars(SignalsMove) /\ WF_vars(SignalsStay)

-----------------------------------------------------------------------------
TypeOK ==
  /\ rsrp \in [Cell -> 0..MAX_RSRP] /\ course \in [Cell -> {COURSE, -COURSE}]
  /\ change \in {1, 2, 5} /\ a3_checked \in BOOLEAN /\ a4_checked \in BOOLEAN
  /\ event \in Event \cup {"def"} /\ served \in BOOLEAN /\ calls \in 0..Calls
  /\ last \in [Event -> -1..1] /\ owed \subseteq Event /\ fresh \subseteq Event

(* A report carries an event only if the signals have crossed its boundary   *)
(* since that event was last reported: nothing is made up and no crossing is *)
(* reported twice, whenever the requests come.                               *)
ReportSound == [][send_measurement_report /\ event # "def" => event \in fresh]_vars

(* The signals keep moving: each cell is above and below both thresholds     *)
(* again and again.                                                          *)
SignalOscillates ==
  \A i \in Cell : []<>(rsrp[i] < THRESHOLD1) /\ []<>(rsrp[i] > THRESHOLD2)

(* After `Calls' calls on the same signals the events of their last move have *)
(* been generated, however many it caused; only the serving cell's A1 or A2  *)
(* may be missing, and only if it halted exactly on its threshold on the way *)
(* (where A3 and A4 reset event_change and nothing sets it again).           *)
LostOnlyOnThreshold ==
  calls = Calls =>
    \A e \in owed :
      /\ e \in {"a1", "a2"}
      /\ rsrp["serving"] - course["serving"] = IF e = "a1" THEN THRESHOLD1 ELSE THRESHOLD2
=============================================================================
